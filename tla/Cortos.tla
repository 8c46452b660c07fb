------------------------------- MODULE Cortos -------------------------------
(***************************************************************************)
(* The cooperative scheduler cortos: tasks in priority order, each in one  *)
(* of four states, a tick interrupt that wakes the ones whose time has     *)
(* come, and notifications from tasks and interrupts.                      *)
(*                                                                         *)
(* The scheduler looks at one task per step, so that interrupts come       *)
(* between any two. On the MCU an API call is atomic (PRIMASK). On the     *)
(* host the critical section is a mutex that other threads take and the    *)
(* ticker does not, so there every store of a blocking call is a step.     *)
(***************************************************************************)
EXTENDS Integers, FiniteSets

CONSTANTS
    N,       \* tasks; task 1 has the highest priority
    W,       \* values of the tick counter (2^32)
    Delays,  \* finite delays given to the blocking calls
    Bits,    \* notification bits
    Ports    \* the ports to run on, of MCU and HOST

ASSUME NAssumption == N \in Nat \ {0}
ASSUME WAssumption == W \in Nat /\ W % 2 = 0 /\ W > 2
ASSUME DelaysAssumption == Delays \subseteq 0 .. W - 2
ASSUME PortsAssumption == Ports \subseteq {"MCU", "HOST"}

VARIABLES
    port,     \* the port, chosen once
    ticks, state, wake_time, inf, notify,
    current,  \* the running task, 0 for none; what it keeps between two rounds
              \*   is read by nobody
    pc,       \* what the scheduler does: scan, exec, return or idle, or the
              \*   store of a blocking call to do next
    scan,     \* the task scheduler_execute looks at next
    woken,    \* idle_wakeup, or an interrupt taken while in WFI
    delay,    \* the argument of the blocking call in progress
    due,      \* history: ticks to go of the blocking call (on the MCU), W for an
              \*   endless one
    heard,    \* history: tasks a notification made ready, not started since
    overtakes \* history: other tasks started since task 1 became ready

thread == <<port, current, pc, scan>>
vars == <<ticks, state, wake_time, inf, notify, thread, woken, delay, due,
          heard, overtakes>>

Tasks == 1 .. N

\* The critical section of an API call excludes the ticker.
Masked == port = "MCU"
\* A wake before the idle call is remembered.
Latched == port = "HOST"

MaxDelay == W - 1
Blocked == {"SLEEPING", "WAITING_EVENT"}
\* The stores of a blocking call that follow the one of the state.
Stores == {"notify_value", "wake_time", "flags", "endless"}

Init ==
    /\ port \in Ports
    /\ ticks = 0
    /\ state = [t \in Tasks |-> "READY"]
    /\ wake_time = [t \in Tasks |-> 0]
    /\ inf = [t \in Tasks |-> FALSE]
    /\ notify = [t \in Tasks |-> {}]
    /\ current = 0 /\ pc = "scan" /\ scan = 1
    /\ woken = FALSE /\ delay = 0
    /\ due = [t \in Tasks |-> 0] /\ heard = {} /\ overtakes = 0

\* mutant: the interrupt does not end the idle call
MutWake == UNCHANGED woken

\* CORTOS_PortWake: the host sets a latch, the MCU does nothing; but an
\* interrupt ends a WFI.
Wake == woken' = (woken \/ Latched \/ pc = "idle")

----------------------------------------------------------------------------
\* scheduler_execute.

Skip ==
    /\ pc = "scan" /\ scan \in Tasks
    /\ state[scan] # "READY"
    /\ scan' = scan + 1
    /\ UNCHANGED <<port, ticks, state, wake_time, inf, notify, current, pc, woken, delay, due, heard, overtakes>>

Dispatch ==
    /\ pc = "scan" /\ scan \in Tasks
    /\ state[scan] = "READY"
    /\ current' = scan /\ pc' = "exec"
    /\ heard' = heard \ {scan}
    /\ overtakes' = IF scan = 1 \/ state[1] # "READY" THEN 0 ELSE overtakes + 1
    /\ UNCHANGED <<port, ticks, state, wake_time, inf, notify, scan, woken, delay, due>>

Idle ==
    /\ pc = "scan" /\ scan = N + 1
    /\ current' = 0 /\ pc' = "idle"
    /\ UNCHANGED <<port, ticks, state, wake_time, inf, notify, scan, woken, delay, due, heard, overtakes>>

EndIdle ==
    /\ pc = "idle" /\ woken
    /\ woken' = FALSE /\ pc' = "scan" /\ scan' = 1
    /\ UNCHANGED <<port, ticks, state, wake_time, inf, notify, current, delay, due, heard, overtakes>>

\* mutant: the next round goes on where the last one ended
MutReturn ==
    /\ pc \in {"exec", "return"}
    /\ pc' = "scan" /\ current' = 0 /\ UNCHANGED scan
    /\ UNCHANGED <<port, ticks, state, wake_time, inf, notify, woken, delay, due, heard, overtakes>>

\* The task's function returns; the next round starts at the top.
Return ==
    /\ pc \in {"exec", "return"}
    /\ pc' = "scan" /\ scan' = 1 /\ current' = 0
    /\ UNCHANGED <<port, ticks, state, wake_time, inf, notify, woken, delay, due, heard, overtakes>>

----------------------------------------------------------------------------
\* The calls a task makes. It returns after a call that blocks it.

MutWakes(n) == ticks + n   \* mutant: no wrap
Wakes(n) == (ticks + n) % W

\* The stores that follow the state in xTaskSleep and xTaskNotifyWait, of
\* which only the latter clears what was notified.
SetTimeout(n) ==
    /\ wake_time' = [wake_time EXCEPT ![current] = Wakes(n)]
    /\ inf' = [inf EXCEPT ![current] = (n = MaxDelay)]

Clears(s) ==
    notify' = IF s = "WAITING_EVENT" THEN [notify EXCEPT ![current] = {}] ELSE notify

\* xTaskSleep (s is SLEEPING) and xTaskNotifyWait (s is WAITING_EVENT).
Block(s, n) ==
    /\ pc = "exec"
    /\ state' = [state EXCEPT ![current] = s]
    /\ due' = [due EXCEPT ![current] = IF n = MaxDelay THEN W ELSE IF Masked THEN n ELSE 0]
    /\ \/ /\ Masked /\ pc' = "return"
          /\ Clears(s) /\ SetTimeout(n) /\ UNCHANGED delay
       \/ /\ ~Masked /\ pc' = IF s = "WAITING_EVENT" THEN "notify_value" ELSE "wake_time"
          /\ delay' = n /\ UNCHANGED <<wake_time, inf, notify>>
    /\ UNCHANGED <<port, ticks, current, scan, woken, heard, overtakes>>

\* mutant: the flag of an earlier endless wait is not cleared
MutStoreFlags ==
    /\ pc = "flags" /\ pc' = IF delay = MaxDelay THEN "endless" ELSE "return"
    /\ UNCHANGED <<notify, wake_time, inf>>

StoreNotify ==
    /\ pc = "notify_value" /\ pc' = "wake_time"
    /\ notify' = [notify EXCEPT ![current] = {}]
    /\ UNCHANGED <<wake_time, inf>>

StoreWake ==
    /\ pc = "wake_time" /\ pc' = "flags"
    /\ wake_time' = [wake_time EXCEPT ![current] = Wakes(delay)]
    /\ UNCHANGED <<notify, inf>>

StoreFlags ==
    /\ pc = "flags" /\ pc' = IF delay = MaxDelay THEN "endless" ELSE "return"
    /\ inf' = [inf EXCEPT ![current] = FALSE]
    /\ UNCHANGED <<notify, wake_time>>

StoreEndless ==
    /\ pc = "endless" /\ pc' = "return"
    /\ inf' = [inf EXCEPT ![current] = TRUE]
    /\ UNCHANGED <<notify, wake_time>>

FinishBlock ==
    /\ StoreNotify \/ StoreWake \/ StoreFlags \/ StoreEndless
    /\ delay' = IF pc' = "return" THEN 0 ELSE delay
    /\ UNCHANGED <<port, ticks, state, current, scan, woken, due, heard, overtakes>>

xTaskSuspend ==
    /\ pc = "exec" /\ pc' = "return"
    /\ state' = [state EXCEPT ![current] = "SUSPENDED"]
    /\ UNCHANGED <<port, ticks, wake_time, inf, notify, current, scan, woken, delay, due, heard, overtakes>>

xTaskNotifyTake ==
    /\ pc = "exec"
    /\ notify[current] # {}
    /\ notify' = [notify EXCEPT ![current] = {}]
    /\ UNCHANGED <<ticks, state, wake_time, inf, thread, woken, delay, due, heard, overtakes>>

Notifies(t) ==
    /\ state' = IF state[t] = "WAITING_EVENT" THEN [state EXCEPT ![t] = "READY"] ELSE state
    /\ heard' = IF state[t] = "WAITING_EVENT" THEN heard \cup {t} ELSE heard
    /\ due' = IF state[t] = "WAITING_EVENT" THEN [due EXCEPT ![t] = 0] ELSE due

MutExcluded == FALSE   \* mutant: an API call without its critical section

\* The mutex keeps the API calls of other threads out of a blocking call.
Excluded == pc \in Stores

\* From a task or an interrupt.
xTaskNotify(t, v) ==
    /\ ~Excluded
    /\ v \notin notify[t]
    /\ notify' = [notify EXCEPT ![t] = @ \cup {v}]
    /\ Notifies(t)
    /\ Wake
    /\ UNCHANGED <<ticks, wake_time, inf, thread, delay, overtakes>>

xTaskResume(t) ==
    /\ ~Excluded
    /\ state[t] = "SUSPENDED"
    /\ state' = [state EXCEPT ![t] = "READY"]
    /\ woken' = (woken \/ (~Latched /\ pc = "idle"))
    /\ UNCHANGED <<ticks, wake_time, inf, notify, thread, delay, due, heard, overtakes>>

----------------------------------------------------------------------------
\* Ticker_IRQ. The test is on a signed difference of the wrapped counter.
\* mutant: an unsigned comparison of the two times
MutReached(now, wake) == now >= wake
Reached(now, wake) == (now - wake) % W < W \div 2

Expires(t) == state[t] \in Blocked /\ ~inf[t] /\ Reached((ticks + 1) % W, wake_time[t])

(***************************************************************************)
(* The whole loop is one step. It is one on the MCU, an interrupt that no  *)
(* task preempts. On the host another thread runs it, and a task may be    *)
(* notified, run and call again between the loop's test of it and the      *)
(* store of READY, which then ends the new call, a suspension included, at *)
(* once; nothing below says that this cannot happen.                       *)
(***************************************************************************)
Ticker_IRQ ==
    /\ ticks' = (ticks + 1) % W
    /\ state' = [t \in Tasks |-> IF Expires(t) THEN "READY" ELSE state[t]]
    /\ due' = [t \in Tasks |-> IF due[t] \in {0, W} THEN due[t] ELSE due[t] - 1]
    /\ Wake
    /\ UNCHANGED <<wake_time, inf, notify, thread, delay, heard, overtakes>>

Scheduler ==
    \/ Skip \/ Dispatch \/ Idle \/ EndIdle \/ Return \/ FinishBlock

Next ==
    \/ Scheduler
    \/ \E s \in Blocked, n \in Delays \cup {MaxDelay} : Block(s, n)
    \/ xTaskSuspend \/ xTaskNotifyTake
    \/ \E t \in Tasks : xTaskResume(t) \/ \E v \in Bits : xTaskNotify(t, v)
    \/ Ticker_IRQ

\* The scheduler runs, every task returns, and the tick is periodic. No call
\* of a task or notification of an interrupt has to happen.
Fairness == WF_vars(Scheduler) /\ WF_vars(Ticker_IRQ)

Spec == Init /\ [][Next]_vars /\ Fairness

----------------------------------------------------------------------------
\* Properties.

\* The values of the scheduler's state; a running task may be in any state
\* once it has called.
CortosTypeOK ==
    /\ ticks \in 0 .. MaxDelay
    /\ state \in [Tasks -> Blocked \cup {"READY", "SUSPENDED"}]
    /\ wake_time \in [Tasks -> 0 .. MaxDelay]
    /\ inf \in [Tasks -> BOOLEAN]
    /\ notify \in [Tasks -> SUBSET Bits]
    /\ current \in Tasks \cup {0} /\ scan \in 1 .. N + 1
    /\ pc \in {"scan", "exec", "return", "idle"} \cup Stores
    /\ pc \in {"exec", "return"} \cup Stores => current \in Tasks
    /\ woken \in BOOLEAN /\ delay \in 0 .. MaxDelay
    /\ due \in [Tasks -> 0 .. W] /\ heard \subseteq Tasks /\ overtakes \in Nat

(***************************************************************************)
(* On the MCU a blocking call of n ticks ends by its timeout at the n-th   *)
(* tick (the first for n = 0), not before and not after, whatever the      *)
(* counter's wrap; an endless one never does. (On the host a tick between  *)
(* the stores of the call ends it by the previous wake_time, and one       *)
(* between the two stores of the flags ends an endless one.)               *)
(***************************************************************************)
ExactTimeouts ==
    [][port = "MCU" => \A t \in Tasks : ticks' # ticks /\ state[t] \in Blocked =>
         (state'[t] = "READY" <=> due'[t] = 0)]_vars

(***************************************************************************)
(* A task that a notification made ready finds it: whichever thread or     *)
(* interrupt notifies, and wherever the blocking call is, the notify_value *)
(* = 0 of xTaskNotifyWait never clears the notification that ended its own *)
(* wait. (One that comes before the wait it does clear.)                   *)
(***************************************************************************)
FindsNotification == \A t \in heard : notify[t] # {}

\* A ready task of the highest priority waits for one other task at most,
\* the scan being interrupted anywhere.
OneOvertake == overtakes <= 1

\* A ready task of the highest priority runs; in particular the idle call does
\* not outlast the interrupt that made it ready.
TopRuns == state[1] = "READY" ~> (current = 1 /\ pc # "scan")

\* A task that blocks with a finite delay becomes ready.
TimeoutsEnd ==
    \A t \in Tasks : state[t] \in Blocked /\ due[t] # W ~> state[t] = "READY"
=============================================================================
