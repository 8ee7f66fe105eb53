------------------------------ MODULE SwdHalt ------------------------------
(***************************************************************************)
(* swd_halt of the SWD debug hook (src/src/debug/swdbug.c, lines 35-71):   *)
(* wait ten one-second sleeps, or until the start button has read pressed  *)
(* six times in a row, 10 ms apart.  Each read of the button is a step;    *)
(* the button may read pressed or not at any read, and is read at most     *)
(* MaxReads times per behaviour.                                           *)
(***************************************************************************)
EXTENDS Integers

CONSTANT MaxReads

VARIABLES
    type,       \* HALT_BY_TIME, HALT_BY_BUTTON or another value
    pc,         \* "start", "wait" (in the loop) or "done"
    i, j,       \* the loop counters of lines 52 and 61
    slept,      \* seconds slept with OS_Sleep(1)
    streak,     \* pressed reads since the last released one
    reads

vars == <<type, pc, i, j, slept, streak, reads>>

Init == /\ type \in {"TIME", "BUTTON", "OTHER"}
        /\ pc = "start" /\ i = 0 /\ j = 0 /\ slept = 0 /\ streak = 0 /\ reads = 0

\* swd_halt up to its loop (lines 49-60); swd_port_init makes the pin an input.
Start == /\ pc = "start"
         /\ CASE type = "TIME" -> pc' = "wait" /\ i' = 10 /\ UNCHANGED j
              [] type = "BUTTON" -> pc' = "wait" /\ j' = 5 /\ UNCHANGED i
              [] OTHER -> pc' = "done" /\ UNCHANGED <<i, j>>
         /\ UNCHANGED <<type, slept, streak, reads>>

\* for (; i > 0; i--) OS_Sleep(1);
SleepSecond == /\ type = "TIME" /\ pc = "wait"
               /\ IF i > 0 THEN i' = i - 1 /\ slept' = slept + 1 /\ UNCHANGED pc
                           ELSE pc' = "done" /\ UNCHANGED <<i, slept>>
               /\ UNCHANGED <<type, j, streak, reads>>

\* while (j >= 0): a pressed read sleeps 10 ms and counts down, a released
\* one starts again from 5.
StillHoldingOffByOne(n) == n >= 1
StillHolding(n) == n >= 0
ReadButton == /\ type = "BUTTON" /\ pc = "wait" /\ reads < MaxReads
              /\ \E pressed \in BOOLEAN :
                   /\ j' = IF pressed THEN j - 1 ELSE 5
                   /\ streak' = IF pressed THEN streak + 1 ELSE 0
                   /\ pc' = IF StillHolding(j') THEN "wait" ELSE "done"
              /\ reads' = reads + 1
              /\ UNCHANGED <<type, i, slept>>

Next == Start \/ SleepSecond \/ ReadButton

Spec == Init /\ [][Next]_vars

-----------------------------------------------------------------------------
(* Properties                                                              *)

(* swd_halt returns only after its wait: ten seconds of sleep, or a button *)
(* held for six consecutive reads; a single bounce of the button must     *)
(* restart the count, and the countdown must run through j = 0.           *)
HaltWaits == pc = "done" => /\ type = "TIME" => slept = 10
                            /\ type = "BUTTON" => streak >= 6
=============================================================================
