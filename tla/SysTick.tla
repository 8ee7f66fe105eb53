------------------------------ MODULE SysTick ------------------------------
(***************************************************************************)
(* The RT-Thread system tick of the XR806 BSP                              *)
(* (src/src/kernel/RT-Thread/bsp/board.c).                                 *)
(*                                                                         *)
(* rt_hw_board_init programs SysTick for SystemCoreClock /                 *)
(* RT_TICK_PER_SECOND core cycles per tick with _SysTick_Config, whose     *)
(* argument and arithmetic are 32-bit unsigned; the LOAD register keeps 24 *)
(* bits.  SysTick_Handler then counts rt_tick once per interrupt.  The     *)
(* counter counts down LOAD + 1 cycles between interrupts.  The argument  *)
(* is any of Ticks: the board's SystemCoreClock / RT_TICK_PER_SECOND and   *)
(* the edges of the 32-bit range that the check of line 50 separates.     *)
(***************************************************************************)
EXTENDS Naturals

CONSTANTS
    Ticks,      \* arguments of _SysTick_Config (TLC's integers end at 2^31)
    MaxTicks    \* interrupts per behaviour

LoadMask == 2^24    \* SysTick LOAD/VAL are 24-bit

VARIABLES
    ticks,      \* the argument of _SysTick_Config
    load,       \* _SYSTICK_LOAD as read back (24 bits)
    ctrl,       \* _SYSTICK_CTRL: 0 (reset) or 7 (enable, TICKINT, core clock)
    booted,     \* rt_hw_board_init has returned
    rt_tick     \* the kernel tick count rt_tick_increase advances

vars == <<ticks, load, ctrl, booted, rt_tick>>

Init == /\ ticks \in Ticks
        /\ load = 0 /\ ctrl = 0 /\ booted = FALSE /\ rt_tick = 0

\* if ((ticks - 1) > 0xFFFFFF) return 1;  in unsigned arithmetic 0 - 1 is
\* 0xFFFFFFFF.
ReloadTooLargeUnwrapped(t) == t - 1 > 16777215
ReloadTooLarge(t) == t = 0 \/ t - 1 > 16777215

\* _SYSTICK_LOAD = ticks - 1, of which the register keeps the low 24 bits.
Reload(t) == IF t = 0 THEN LoadMask - 1 ELSE (t - 1) % LoadMask

\* rt_hw_board_init (lines 84-93): RT_systeminit, then _SysTick_Config
\* (lines 48-61), whose status is dropped.
BoardInit ==
    /\ ~booted /\ booted' = TRUE
    /\ IF ReloadTooLarge(ticks)
       THEN UNCHANGED <<load, ctrl>>
       ELSE load' = Reload(ticks) /\ ctrl' = 7
    /\ UNCHANGED <<ticks, rt_tick>>

\* SysTick_Handler (lines 95-104): runs when the enabled counter counts from
\* 1 to 0; with LOAD 0 (a period of one cycle) it never does.
SysTick_Handler ==
    /\ ctrl = 7 /\ load # 0 /\ rt_tick < MaxTicks
    /\ rt_tick' = rt_tick + 1
    /\ UNCHANGED <<ticks, load, ctrl, booted>>

Next == BoardInit \/ SysTick_Handler

Spec == Init /\ [][Next]_vars

-----------------------------------------------------------------------------
(* Properties                                                              *)

(* When the tick runs, a tick is exactly the SystemCoreClock /             *)
(* RT_TICK_PER_SECOND cycles asked for: _SysTick_Config refuses a period   *)
(* its 24-bit reload cannot hold, including a zero period (a core clock     *)
(* slower than the tick rate), whose ticks - 1 only wraps to 0xFFFFFFFF in *)
(* 32-bit arithmetic.                                                      *)
TickPeriodExact == ctrl = 7 => load + 1 = ticks
=============================================================================
