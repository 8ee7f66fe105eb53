----------------------------- MODULE MC_Platform -----------------------------
(***************************************************************************)
(* Platform components checked in one model: the IPv6 address codec,     *)
(* CdxStreamSkip, board_ioctl, the SysTick set-up, swd_halt and the OS    *)
(* mutex, semaphore and queue wrappers.  None shares state with another,  *)
(* so a behaviour exercises one of them, chosen at the start ("part"),    *)
(* and the others stay initial.  Each wrapper's fairness applies to the   *)
(* steps of its own part only.                                             *)
(***************************************************************************)
EXTENDS Naturals, Sequences, TLC, Ip6Inputs

VARIABLES
    part,
    ip_req, ip_returned, ip_out,
    cdx_seekable, cdx_size, cdx_pos, cdx_start, cdx_len, cdx_skipSize, cdx_i,
    cdx_ret, cdx_req, cdx_pc, cdx_calls,
    bd_call, bd_returned, bd_ret, bd_lookup, bd_configured, bd_param,
    st_ticks, st_load, st_ctrl, st_booted, st_rt_tick,
    swd_type, swd_pc, swd_i, swd_j, swd_slept, swd_streak, swd_reads,
    mx_owner, mx_hold, mx_waiting, mx_pc, mx_depth,
    sem_value, sem_maxCount, sem_waiting, sem_pc, sem_result,
    q_mq, q_pc, q_next, q_sent, q_got

Ip == INSTANCE Ip6Addr WITH BlockValues <- MC_BlockValues, Garbage <- MC_Garbage,
        TextInputs <- MC_TextInputs, req <- ip_req, returned <- ip_returned, out <- ip_out

\* Skips of 0, 1, 512 and 513 bytes (one unit and one more), 5120 (ten
\* units, the largest allowed) and 5121, on a stream shorter than one skip.
Cdx == INSTANCE CdxStream WITH Lens <- {0, 1, 512, 513, 5120, 5121},
        Sizes <- {600, 6000}, MaxCalls <- 2,
        seekable <- cdx_seekable, size <- cdx_size, pos <- cdx_pos, start <- cdx_start,
        len <- cdx_len, skipSize <- cdx_skipSize, i <- cdx_i, ret <- cdx_ret,
        req <- cdx_req, pc <- cdx_pc, calls <- cdx_calls

\* The xr806_OHOS build: no SWD, PSRAM, PM, internal codec, AC107 and I2S-null
\* cards; ADC_CHANNEL_VBAT is 8 in hal_adc.h.  Minors cover every table's
\* end (2 UARTs + 1, 3 ADC channels, 6 PWM channels) and VBAT.
Bd == INSTANCE BoardConfig WITH SwdEn <- FALSE, PsramEn <- TRUE, PmEn <- TRUE,
        InternalCardEn <- TRUE, Ac107En <- TRUE, Ac101En <- FALSE, I2sNullEn <- TRUE,
        ADC_CHANNEL_VBAT <- 8, Minors <- {0, 1, 2, 3, 5, 6, 8},
        call <- bd_call, returned <- bd_returned, ret <- bd_ret, lookup <- bd_lookup,
        configured <- bd_configured, param <- bd_param

\* 160 MHz / 1000 Hz, and the edges of the reload check: 0, 1, 2^24, 2^24 + 1.
St == INSTANCE SysTick WITH Ticks <- {0, 1, 160000, 16777216, 16777217, 2147483647},
        MaxTicks <- 2, ticks <- st_ticks, load <- st_load, ctrl <- st_ctrl,
        booted <- st_booted, rt_tick <- st_rt_tick

\* Twelve reads: room for a bounce and then six pressed reads.
Swd == INSTANCE SwdHalt WITH MaxReads <- 12, type <- swd_type, pc <- swd_pc,
        i <- swd_i, j <- swd_j, slept <- swd_slept, streak <- swd_streak, reads <- swd_reads

\* Two threads waiting forever (so one waits while another is handed the
\* mutex), one with a timeout, one polling (waitMS 0, as in ISR context,
\* line 70); equal priorities, so waiters are woken in arrival order.
MxThreads == {"t1", "t2", "t3", "t4"}
Mx == INSTANCE OsMutex WITH Threads <- MxThreads,
        WaitKind <- ("t1" :> "forever") @@ ("t2" :> "forever") @@ ("t3" :> "timed") @@ ("t4" :> "poll"),
        MaxDepth <- 4, Prio <- [t \in MxThreads |-> 10], NoOwner <- "none",
        owner <- mx_owner, hold <- mx_hold, waiting <- mx_waiting, pc <- mx_pc, depth <- mx_depth

\* Semaphore: a forever waiter, a timed waiter and an ISR poller; two thread
\* releasers and one ISR releaser; counting semaphores with room for every
\* release, from empty or with one initial signal.
SemTakers == {"t1", "t2", "t3"}
SemReleasers == {"r1", "r2", "r3"}
Sem == INSTANCE OsSemaphore WITH
        Takers <- SemTakers, Releasers <- SemReleasers,
        IsrReleasers <- {"r2"},
        WaitKind <- ("t1" :> "forever") @@ ("t2" :> "timed") @@ ("t3" :> "isr"),
        Creations <- {[init |-> 0, max |-> 3], [init |-> 1, max |-> 4]},
        SemValueMax <- 65535,
        value <- sem_value, maxCount <- sem_maxCount, waiting <- sem_waiting,
        pc <- sem_pc, result <- sem_result

\* Queue of one message: a thread sending with no time limit, one with a
\* timeout, and an interrupt handler (no wait); a receiving thread with no
\* time limit and one with a timeout.
QReceivers == {"q4", "q5"}
Q == INSTANCE OsQueue WITH
        Senders <- {"q1", "q2", "q3"}, Receivers <- QReceivers,
        WaitKind <- ("q1" :> "forever") @@ ("q2" :> "timed") @@ ("q3" :> "isr")
                    @@ ("q4" :> "forever") @@ ("q5" :> "timed"),
        QueueLen <- 1, MaxMsgs <- 2,
        mq <- q_mq, pc <- q_pc, next <- q_next, sent <- q_sent, got <- q_got

ipVars == <<ip_req, ip_returned, ip_out>>
cdxVars == <<cdx_seekable, cdx_size, cdx_pos, cdx_start, cdx_len, cdx_skipSize, cdx_i,
             cdx_ret, cdx_req, cdx_pc, cdx_calls>>
bdVars == <<bd_call, bd_returned, bd_ret, bd_lookup, bd_configured, bd_param>>
stVars == <<st_ticks, st_load, st_ctrl, st_booted, st_rt_tick>>
swdVars == <<swd_type, swd_pc, swd_i, swd_j, swd_slept, swd_streak, swd_reads>>
mxVars == <<mx_owner, mx_hold, mx_waiting, mx_pc, mx_depth>>
semVars == <<sem_value, sem_maxCount, sem_waiting, sem_pc, sem_result>>
qVars == <<q_mq, q_pc, q_next, q_sent, q_got>>
\* The variables of every part but the mutex, semaphore and queue.
fnVars == <<ipVars, cdxVars, bdVars, stVars, swdVars>>

Parts == {"ip6", "cdx", "board", "systick", "swd", "mutex", "sem", "queue"}

\* The parts not chosen keep one initial state.
Init == /\ part \in Parts
        /\ Ip!Init /\ (part # "ip6" => ip_req = [op |-> "aton", s |-> <<>>])
        /\ Cdx!Init /\ (part # "cdx" => ~cdx_seekable /\ cdx_size = 600)
        /\ Bd!Init /\ (part # "board" => bd_call = [req |-> "UNKNOWN", major |-> "UART", minor |-> 0])
        /\ St!Init /\ (part # "systick" => st_ticks = 1)
        /\ Swd!Init /\ (part # "swd" => swd_type = "OTHER")
        /\ Mx!Init
        /\ Sem!Init /\ (part # "sem" => sem_maxCount = 3)
        /\ Q!Init

InMx(A) == part = "mutex" /\ A /\ UNCHANGED <<fnVars, semVars, qVars>>
InSem(A) == part = "sem" /\ A /\ UNCHANGED <<fnVars, mxVars, qVars>>
InQ(A) == part = "queue" /\ A /\ UNCHANGED <<fnVars, mxVars, semVars>>
kVars == <<mxVars, semVars, qVars>>

Next ==
    \/ part = "ip6" /\ Ip!Next /\ UNCHANGED <<cdxVars, bdVars, stVars, swdVars, mxVars, semVars, qVars>>
    \/ part = "cdx" /\ Cdx!Next /\ UNCHANGED <<ipVars, bdVars, stVars, swdVars, mxVars, semVars, qVars>>
    \/ part = "board" /\ Bd!Ioctl /\ UNCHANGED <<ipVars, cdxVars, stVars, swdVars, mxVars, semVars, qVars>>
    \/ part = "systick" /\ St!Next /\ UNCHANGED <<ipVars, cdxVars, bdVars, swdVars, mxVars, semVars, qVars>>
    \/ part = "swd" /\ Swd!Next /\ UNCHANGED <<ipVars, cdxVars, bdVars, stVars, mxVars, semVars, qVars>>
    \/ InMx(Mx!Next)
    \/ InSem(Sem!Next)
    \/ InQ(Q!Next)

vars == <<part, ipVars, cdxVars, bdVars, stVars, swdVars, mxVars, semVars, qVars>>

Step == Next /\ UNCHANGED part

\* OsMutex's fairness: every critical section ends; OsSemaphore's: a waiter
\* and a releaser keep running.  (OsQueue's is not needed: no eventuality
\* of the queue is checked.)
Fairness ==
    /\ \A t \in MxThreads, k \in 1..4 : SF_vars(InMx(Mx!UnlockFrom(t, k)) /\ UNCHANGED part)
    /\ \A t \in SemTakers : WF_vars(InSem(Sem!Wait(t)) /\ UNCHANGED part)
    /\ \A r \in SemReleasers : /\ WF_vars(InSem(Sem!Check(r)) /\ UNCHANGED part)
                                /\ WF_vars(InSem(Sem!Release(r)) /\ UNCHANGED part)
                                /\ WF_vars(InSem(Sem!IsrRelease(r)) /\ UNCHANGED part)

Spec == Init /\ [][Step]_vars /\ Fairness

TypeOK == Ip!TypeOK
AtonMatchesReference == Ip!AtonMatchesReference
NtoaStaysInBuffer == Ip!NtoaStaysInBuffer
SkipConsumesExactly == Cdx!SkipConsumesExactly
PinmuxOkMeansConfigured == Bd!PinmuxOkMeansConfigured
TickPeriodExact == St!TickPeriodExact
HaltWaits == Swd!HaltWaits
MutualExclusion == Mx!MutualExclusion
\* Eventualities hold of the behaviours of their own part.
WaitersAcquire == part = "mutex" => Mx!WaitersAcquire
ImplementsMutexSpec == Mx!ImplementsMutexSpec
SemTypeOK == Sem!TypeOK
SignalsConserved == Sem!SignalsConserved
ForeverWaitersServed == part = "sem" => Sem!ForeverWaitersServed
Delivered == Q!Delivered
=============================================================================
