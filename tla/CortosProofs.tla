---------------------------- MODULE CortosProofs ----------------------------
(* The safety properties of the scheduler, for any number of tasks, any     *)
(* width of the tick counter, and interrupts between any two steps.         *)
EXTENDS Cortos, TLAPS

-----------------------------------------------------------------------------
(* The wrapping tick counter.                                              *)

\* What the arithmetic needs to know of the counter's range.
LEMMA Range0 == W \in Nat /\ W > 2
BY WAssumption

\* A sum of two values below W, reduced.
LEMMA WrappedSum ==
    ASSUME NEW a \in Nat, NEW b \in Nat, a < W, b < W
    PROVE  /\ a + b < W => (a + b) % W = a + b
           /\ a + b >= W => (a + b) % W = a + b - W
           /\ (a + b) % W \in 0 .. MaxDelay
<1> DEFINE x == a + b
<1>1. W \in Nat \ {0}
  BY Range0
<1>2. \A y \in Int, w \in Nat \ {0} : 0 <= y /\ y < w => y % w = y
  BY SMT
<1>3. \A y \in Int, w \in Nat \ {0} : w <= y /\ y < 2 * w => y % w = y - w
  BY SMT
<1>4. x \in Int /\ 0 <= x /\ x < 2 * W
  BY <1>1
<1> HIDE DEF x
<1>5. (x < W => x % W = x) /\ (x >= W => x % W = x - W)
  BY <1>1, <1>2, <1>3, <1>4
<1>6. x % W \in 0 .. MaxDelay
  BY <1>1, <1>4, <1>5 DEF MaxDelay
<1> QED
  BY <1>1, <1>5, <1>6 DEF x

\* A negative difference of two values below W, reduced.
LEMMA WrappedDifference ==
    ASSUME NEW x \in Int
    PROVE  /\ 0 <= x /\ x < W => x % W = x
           /\ -W <= x /\ x < 0 => x % W = x + W
<1>1. W \in Nat \ {0}
  BY Range0
<1>2. \A y \in Int, w \in Nat \ {0} : 0 <= y /\ y < w => y % w = y
  BY SMT
<1>3. \A y \in Int, w \in Nat \ {0} : -w <= y /\ y < 0 => y % w = y + w
  BY SMT
<1> QED
  BY <1>1, <1>2, <1>3

\* The half of the counter's range.
LEMMA Halves == W \div 2 \in Nat /\ W = 2 * (W \div 2) /\ W \div 2 >= 2
BY WAssumption, SMT

\* A tick brings the counter one nearer to a wake time, across the wrap.
LEMMA TickNearer ==
    ASSUME NEW now \in 0 .. MaxDelay, NEW d \in 1 .. W - 1
    PROVE  (((now + 1) % W) + (d - 1)) % W = (now + d) % W
<1>1. W \in Nat /\ W > 2
  BY Range0
<1>2. CASE now + 1 < W
  <2>1. (now + 1) % W = now + 1
    BY <1>1, <1>2, WrappedSum DEF MaxDelay
  <2> QED
    BY <1>1, <2>1 DEF MaxDelay
<1>3. CASE now + 1 >= W
  <2>1. now = W - 1 /\ (now + 1) % W = 0
    <3>1. now \in Nat /\ now < W /\ 1 \in Nat /\ 1 < W
      BY <1>1 DEF MaxDelay
    <3>2. (now + 1) % W = now + 1 - W
      BY <1>1, <1>3, <3>1, WrappedSum
    <3> QED
      BY <1>1, <1>3, <3>1, <3>2
  <2>2. (0 + (d - 1)) % W = d - 1
    <3>1. d - 1 \in Int /\ 0 <= d - 1 /\ d - 1 < W
      BY <1>1
    <3>2. (d - 1) % W = d - 1
      BY <3>1, WrappedDifference
    <3> QED
      BY <3>1, <3>2
  <2>3. (now + d) % W = now + d - W
    <3>1. now \in Nat /\ now < W /\ d \in Nat /\ d < W /\ now + d >= W
      BY <1>1, <2>1
    <3> QED
      BY <3>1, WrappedSum
  <2> QED
    BY <1>1, <2>1, <2>2, <2>3
<1> QED
  BY <1>1, <1>2, <1>3 DEF MaxDelay

\* The signed comparison at the next tick finds a wake time reached exactly
\* when at most one tick was left, for delays below half the range and two.
LEMMA ReachedExactly ==
    ASSUME NEW now \in 0 .. MaxDelay, NEW d \in 0 .. W \div 2 + 1, d < W
    PROVE  Reached((now + 1) % W, (now + d) % W) <=> d <= 1
<1> DEFINE h == W \div 2
           a == (now + 1) % W
           b == (now + d) % W
<1>1. h \in Nat /\ W = 2 * h /\ h >= 2
  BY Halves
<1>2. now \in Nat /\ now < W /\ d \in Nat /\ d <= h + 1 /\ 1 \in Nat /\ 1 < W
  BY <1>1 DEF MaxDelay
<1>3. /\ now + 1 < W => a = now + 1
      /\ now + 1 >= W => a = now + 1 - W
      /\ a \in Int
  <2>1. /\ now + 1 < W => a = now + 1
        /\ now + 1 >= W => a = now + 1 - W
        /\ a \in 0 .. MaxDelay
    BY <1>1, <1>2, WrappedSum
  <2> QED
    BY <1>1, <2>1 DEF MaxDelay
<1>4. /\ now + d < W => b = now + d
      /\ now + d >= W => b = now + d - W
      /\ b \in Int
  <2>1. /\ now + d < W => b = now + d
        /\ now + d >= W => b = now + d - W
        /\ b \in 0 .. MaxDelay
    BY <1>1, <1>2, WrappedSum
  <2> QED
    BY <1>1, <2>1 DEF MaxDelay
<1>5. /\ 0 <= a - b /\ a - b < W => (a - b) % W = a - b
      /\ -W <= a - b /\ a - b < 0 => (a - b) % W = a - b + W
  BY <1>3, <1>4, WrappedDifference
<1> HIDE DEF h, a, b
<1>6. /\ d <= 1 => (a - b) % W < h
      /\ d > 1 => (a - b) % W >= h
  BY <1>1, <1>2, <1>3, <1>4, <1>5
<1>7. (a - b) % W < h <=> d <= 1
  <2>1. (a - b) % W \in Int
    BY <1>1, <1>2, <1>3, <1>4, <1>5
  <2> QED
    BY <1>1, <1>2, <1>6, <2>1
<1> QED
  BY <1>7 DEF Reached, h, a, b

-----------------------------------------------------------------------------
(* Types.                                                                  *)

LEMMA TypeInit == Init => CortosTypeOK
<1> SUFFICES ASSUME Init
             PROVE  CortosTypeOK
  OBVIOUS
<1>1. /\ ticks \in 0 .. MaxDelay /\ delay \in 0 .. MaxDelay
      /\ wake_time \in [Tasks -> 0 .. MaxDelay]
      /\ due \in [Tasks -> 0 .. W] /\ overtakes \in Nat
  BY Range0 DEF Init, MaxDelay
<1>2. /\ state \in [Tasks -> Blocked \cup {"READY", "SUSPENDED"}]
      /\ notify \in [Tasks -> SUBSET Bits]
  BY DEF Init
<1>3. inf \in [Tasks -> BOOLEAN] /\ woken \in BOOLEAN
  BY DEF Init
<1>4. current \in Tasks \cup {0} /\ scan \in 1 .. N + 1 /\ heard \subseteq Tasks
  BY NAssumption DEF Init
<1>5. /\ pc \in {"scan", "exec", "return", "idle"} \cup Stores
      /\ pc \notin {"exec", "return"} \cup Stores
  BY DEF Init, Stores
<1> QED
  BY <1>1, <1>2, <1>3, <1>4, <1>5 DEF CortosTypeOK

\* The stores that end a blocking call keep the types.
LEMMA TimeoutType ==
    ASSUME CortosTypeOK, current \in Tasks, NEW n \in 0 .. MaxDelay, SetTimeout(n)
    PROVE  /\ wake_time' \in [Tasks -> 0 .. MaxDelay]
           /\ inf' \in [Tasks -> BOOLEAN]
<1>1. W \in Nat /\ W > 2
  BY Range0
<1>2. Wakes(n) \in 0 .. MaxDelay
  BY <1>1, WrappedSum DEF CortosTypeOK, Wakes, MaxDelay
<1> QED
  BY <1>2 DEF SetTimeout, CortosTypeOK

LEMMA DelayType == \A n \in Delays \cup {MaxDelay} : n \in 0 .. MaxDelay
BY Range0, DelaysAssumption DEF MaxDelay

LEMMA TypeStep == CortosTypeOK /\ [Next]_vars => CortosTypeOK'
<1> SUFFICES ASSUME CortosTypeOK, [Next]_vars
             PROVE  CortosTypeOK'
  OBVIOUS
<1> USE NAssumption, Range0
<1>1. CASE Skip
  <2>1. scan' \in 1 .. N + 1
    BY <1>1 DEF Skip, Tasks
  <2> QED
    BY <1>1, <2>1 DEF CortosTypeOK, Skip
<1>2. CASE Dispatch
  <2>1. current' \in Tasks /\ heard' \subseteq Tasks /\ overtakes' \in Nat
    BY <1>2 DEF CortosTypeOK, Dispatch
  <2> QED
    BY <1>2, <2>1 DEF CortosTypeOK, Dispatch
<1>3. CASE Idle
  BY <1>3 DEF CortosTypeOK, Idle, Tasks, Stores
<1>4. CASE EndIdle
  <2>1. woken' \in BOOLEAN
    BY <1>4 DEF EndIdle
  <2>2. scan' \in 1 .. N + 1
    BY <1>4 DEF EndIdle
  <2> QED
    BY <1>4, <2>1, <2>2 DEF CortosTypeOK, EndIdle, Stores
<1>5. CASE Return
  BY <1>5 DEF CortosTypeOK, Return, Tasks, Stores
<1>6. CASE FinishBlock
  <2>1. current \in Tasks /\ delay \in 0 .. MaxDelay
    BY <1>6 DEF FinishBlock, StoreNotify, StoreWake, StoreFlags, StoreEndless, Stores,
                CortosTypeOK
  <2>2. Wakes(delay) \in 0 .. MaxDelay
    BY <2>1, WrappedSum DEF CortosTypeOK, Wakes, MaxDelay
  <2>3. /\ notify' \in [Tasks -> SUBSET Bits]
        /\ wake_time' \in [Tasks -> 0 .. MaxDelay]
        /\ inf' \in [Tasks -> BOOLEAN]
    BY <1>6, <2>1, <2>2
    DEF FinishBlock, StoreNotify, StoreWake, StoreFlags, StoreEndless, CortosTypeOK
  <2>4. pc' \in {"return"} \cup Stores
    BY <1>6 DEF FinishBlock, StoreNotify, StoreWake, StoreFlags, StoreEndless, Stores
  <2>5. delay' \in 0 .. MaxDelay
    BY <1>6, <2>1 DEF FinishBlock, MaxDelay
  <2> QED
    BY <1>6, <2>1, <2>3, <2>4, <2>5 DEF CortosTypeOK, FinishBlock
<1>7. ASSUME NEW s \in Blocked, NEW n \in Delays \cup {MaxDelay}, Block(s, n)
      PROVE  CortosTypeOK'
  <2>1. current \in Tasks /\ n \in 0 .. MaxDelay
    BY <1>7, DelayType DEF Block, CortosTypeOK
  <2>2. /\ state' \in [Tasks -> Blocked \cup {"READY", "SUSPENDED"}]
        /\ notify' \in [Tasks -> SUBSET Bits]
    BY <1>7, <2>1 DEF Block, Clears, CortosTypeOK
  <2>3. due' \in [Tasks -> 0 .. W]
    <3>1. (IF n = MaxDelay THEN W ELSE IF Masked THEN n ELSE 0) \in 0 .. W
      BY <2>1 DEF MaxDelay
    <3> QED
      BY <1>7, <2>1, <3>1 DEF Block, CortosTypeOK
  <2>4. /\ wake_time' \in [Tasks -> 0 .. MaxDelay]
        /\ inf' \in [Tasks -> BOOLEAN]
        /\ delay' \in 0 .. MaxDelay
        /\ pc' \in {"return"} \cup Stores
    <3>1. CASE Masked /\ pc' = "return" /\ SetTimeout(n) /\ UNCHANGED delay
      BY <2>1, <3>1, TimeoutType DEF CortosTypeOK
    <3>2. CASE /\ ~Masked /\ pc' \in {"notify_value", "wake_time"} /\ delay' = n
               /\ UNCHANGED <<wake_time, inf>>
      BY <2>1, <3>2 DEF CortosTypeOK, Stores
    <3> QED
      BY <1>7, <3>1, <3>2 DEF Block
  <2> QED
    BY <1>7, <2>1, <2>2, <2>3, <2>4 DEF Block, CortosTypeOK
<1>8. CASE xTaskSuspend
  BY <1>8 DEF CortosTypeOK, xTaskSuspend
<1>9. CASE xTaskNotifyTake
  BY <1>9 DEF CortosTypeOK, xTaskNotifyTake, thread
<1>10. ASSUME NEW t \in Tasks, xTaskResume(t)
       PROVE  CortosTypeOK'
  BY <1>10 DEF CortosTypeOK, xTaskResume, thread, Latched
<1>11. ASSUME NEW t \in Tasks, NEW v \in Bits, xTaskNotify(t, v)
       PROVE  CortosTypeOK'
  <2>1. /\ state' \in [Tasks -> Blocked \cup {"READY", "SUSPENDED"}]
        /\ notify' \in [Tasks -> SUBSET Bits]
        /\ heard' \subseteq Tasks
        /\ due' \in [Tasks -> 0 .. W]
    BY <1>11 DEF CortosTypeOK, xTaskNotify, Notifies
  <2>2. woken' \in BOOLEAN
    BY <1>11 DEF CortosTypeOK, xTaskNotify, Wake, Latched
  <2> QED
    BY <1>11, <2>1, <2>2 DEF CortosTypeOK, xTaskNotify, thread
<1>12. CASE Ticker_IRQ
  <2>1. ticks' \in 0 .. MaxDelay
    BY <1>12, WrappedSum DEF CortosTypeOK, Ticker_IRQ, MaxDelay
  <2>2. state' \in [Tasks -> Blocked \cup {"READY", "SUSPENDED"}]
    BY <1>12 DEF CortosTypeOK, Ticker_IRQ
  <2>3. due' \in [Tasks -> 0 .. W]
    BY <1>12 DEF CortosTypeOK, Ticker_IRQ
  <2>4. woken' \in BOOLEAN
    BY <1>12 DEF CortosTypeOK, Ticker_IRQ, Wake, Latched
  <2> QED
    BY <1>12, <2>1, <2>2, <2>3, <2>4 DEF CortosTypeOK, Ticker_IRQ, thread
<1>13. CASE UNCHANGED vars
  BY <1>13 DEF CortosTypeOK, vars, thread
<1> QED
  BY <1>1, <1>2, <1>3, <1>4, <1>5, <1>6, <1>7, <1>8, <1>9, <1>10, <1>11, <1>12, <1>13
  DEF Next, Scheduler

\* The scheduler's state keeps its types whatever the tasks call and whenever
\* the interrupts come.
THEOREM CortosTypeCorrect == Spec => []CortosTypeOK
BY TypeInit, TypeStep, PTL DEF Spec

-----------------------------------------------------------------------------
(* Notifications, and the priority of the first task.                      *)

(***************************************************************************)
(* The running task is ready until it blocks, so nothing can be heard by   *)
(* it before its call; and during the stores of the call the mutex keeps   *)
(* every notification out. So the task whose notify_value is cleared has   *)
(* heard nothing.                                                          *)
(***************************************************************************)
Heard ==
    /\ \A t \in heard : notify[t] # {}
    /\ pc = "exec" => state[current] = "READY"
    /\ pc \in {"exec"} \cup Stores => current \notin heard

LEMMA HeardStep ==
    CortosTypeOK /\ Heard /\ [Next]_vars => Heard'
<1> SUFFICES ASSUME CortosTypeOK, Heard, [Next]_vars
             PROVE  Heard'
  OBVIOUS
<1>1. CASE Skip \/ Idle \/ EndIdle \/ Return
  BY <1>1 DEF Skip, Idle, EndIdle, Return, Heard, Stores
<1>2. CASE Dispatch
  BY <1>2 DEF Dispatch, Heard, Stores
<1>3. CASE FinishBlock
  <2>1. pc \in Stores /\ pc' \in {"return"} \cup Stores /\ UNCHANGED <<heard, current, state>>
    BY <1>3 DEF FinishBlock, StoreNotify, StoreWake, StoreFlags, StoreEndless, Stores
  <2>2. current \in Tasks /\ current \notin heard
    BY <2>1 DEF Heard, CortosTypeOK
  <2>3. \A t \in heard : notify'[t] = notify[t]
    BY <1>3, <2>2
    DEF FinishBlock, StoreNotify, StoreWake, StoreFlags, StoreEndless, CortosTypeOK
  <2> QED
    BY <2>1, <2>2, <2>3 DEF Heard, Stores
<1>4. ASSUME NEW s \in Blocked, NEW n \in Delays \cup {MaxDelay}, Block(s, n)
      PROVE  Heard'
  <2>1. current \in Tasks /\ current \notin heard /\ UNCHANGED <<heard, current>>
    BY <1>4 DEF Block, Heard, CortosTypeOK
  <2>2. \A t \in heard : notify'[t] = notify[t]
    BY <1>4, <2>1 DEF Block, Clears, CortosTypeOK
  <2>3. pc' # "exec"
    BY <1>4 DEF Block
  <2> QED
    BY <2>1, <2>2, <2>3 DEF Heard
<1>5. CASE xTaskSuspend
  BY <1>5 DEF xTaskSuspend, Heard, Stores
<1>6. CASE xTaskNotifyTake
  BY <1>6 DEF xTaskNotifyTake, thread, Heard, CortosTypeOK
<1>7. ASSUME NEW t \in Tasks, xTaskResume(t)
      PROVE  Heard'
  BY <1>7 DEF xTaskResume, thread, Heard, CortosTypeOK
<1>8. ASSUME NEW t \in Tasks, NEW v \in Bits, xTaskNotify(t, v)
      PROVE  Heard'
  <2>1. pc \notin Stores /\ UNCHANGED <<pc, current>>
    BY <1>8 DEF xTaskNotify, Excluded, thread
  <2>2. heard' = heard \/ (heard' = heard \cup {t} /\ state[t] = "WAITING_EVENT")
    BY <1>8 DEF xTaskNotify, Notifies
  <2>3. pc = "exec" => state[current] = "READY" /\ state'[current] = "READY" /\ current \notin heard'
    <3>1. pc = "exec" => state[current] = "READY" /\ current \notin heard /\ current \in Tasks
      BY DEF Heard, CortosTypeOK
    <3>2. state' = state \/ (state' = [state EXCEPT ![t] = "READY"])
      BY <1>8 DEF xTaskNotify, Notifies
    <3> QED
      BY <2>2, <3>1, <3>2 DEF CortosTypeOK
  <2>4. notify'[t] # {} /\ \A u \in Tasks : u # t => notify'[u] = notify[u]
    BY <1>8 DEF xTaskNotify, CortosTypeOK
  <2>5. heard \subseteq Tasks
    BY DEF CortosTypeOK
  <2> QED
    BY <2>1, <2>2, <2>3, <2>4, <2>5 DEF Heard
<1>9. CASE Ticker_IRQ
  BY <1>9 DEF Ticker_IRQ, thread, Heard, CortosTypeOK, Expires
<1>10. CASE UNCHANGED vars
  BY <1>10 DEF vars, thread, Heard
<1> QED
  BY <1>1, <1>2, <1>3, <1>4, <1>5, <1>6, <1>7, <1>8, <1>9, <1>10 DEF Next, Scheduler

\* A task that a notification made ready finds it when it runs: no clearing of
\* a blocking call falls behind the notification that ends its wait.
THEOREM NotificationFound == Spec => []FindsNotification
<1>1. Init => Heard
  BY DEF Init, Heard, Stores
<1>2. Heard => FindsNotification
  BY DEF Heard, FindsNotification
<1> QED
  BY <1>1, <1>2, TypeInit, TypeStep, HeardStep, PTL DEF Spec

\* Once another task was started ahead of the first one, that one stays ready,
\* and the scheduler is in the other task or about to look at the first.
Overtaken ==
    /\ overtakes \in {0, 1}
    /\ overtakes = 1 =>
         /\ state[1] = "READY"
         /\ \/ pc \in {"exec", "return"} \cup Stores /\ current # 1
            \/ pc = "scan" /\ scan = 1

LEMMA OvertakenStep ==
    CortosTypeOK /\ Overtaken /\ [Next]_vars => Overtaken'
<1> SUFFICES ASSUME CortosTypeOK, Overtaken, [Next]_vars
             PROVE  Overtaken'
  OBVIOUS
<1>0. 1 \in Tasks
  BY NAssumption DEF Tasks
<1>1. CASE Skip
  BY <1>0, <1>1 DEF Skip, Overtaken
<1>2. CASE Dispatch
  <2>1. CASE scan = 1 \/ state[1] # "READY"
    BY <1>2, <2>1 DEF Dispatch, Overtaken
  <2>2. CASE ~(scan = 1 \/ state[1] # "READY")
    <3>1. overtakes = 0
      BY <1>2, <2>2 DEF Dispatch, Overtaken, Stores
    <3> QED
      BY <1>2, <2>2, <3>1 DEF Dispatch, Overtaken
  <2> QED
    BY <2>1, <2>2
<1>3. CASE Idle
  <2>1. scan # 1
    BY <1>3, NAssumption DEF Idle
  <2> QED
    BY <1>3, <2>1 DEF Idle, Overtaken, Stores
<1>4. CASE EndIdle
  BY <1>4 DEF EndIdle, Overtaken
<1>5. CASE Return
  BY <1>5 DEF Return, Overtaken
<1>6. CASE FinishBlock
  BY <1>6 DEF FinishBlock, StoreNotify, StoreWake, StoreFlags, StoreEndless, Stores, Overtaken
<1>7. ASSUME NEW s \in Blocked, NEW n \in Delays \cup {MaxDelay}, Block(s, n)
      PROVE  Overtaken'
  BY <1>0, <1>7 DEF Block, Overtaken, CortosTypeOK, Stores
<1>8. CASE xTaskSuspend
  BY <1>0, <1>8 DEF xTaskSuspend, Overtaken, CortosTypeOK
<1>9. CASE xTaskNotifyTake
  BY <1>9 DEF xTaskNotifyTake, thread, Overtaken
<1>10. ASSUME NEW t \in Tasks, xTaskResume(t)
       PROVE  Overtaken'
  BY <1>0, <1>10 DEF xTaskResume, thread, Overtaken, CortosTypeOK
<1>11. ASSUME NEW t \in Tasks, NEW v \in Bits, xTaskNotify(t, v)
       PROVE  Overtaken'
  BY <1>0, <1>11 DEF xTaskNotify, Notifies, thread, Overtaken, CortosTypeOK
<1>12. CASE Ticker_IRQ
  BY <1>0, <1>12 DEF Ticker_IRQ, thread, Overtaken, CortosTypeOK
<1>13. CASE UNCHANGED vars
  BY <1>13 DEF vars, thread, Overtaken
<1> QED
  BY <1>1, <1>2, <1>3, <1>4, <1>5, <1>6, <1>7, <1>8, <1>9, <1>10, <1>11, <1>12, <1>13
  DEF Next, Scheduler

\* A ready first task waits for one other task at most, wherever the scan is
\* when the interrupt makes it ready.
THEOREM AtMostOneOvertake == Spec => []OneOvertake
<1>1. Init => Overtaken
  BY DEF Init, Overtaken
<1>2. Overtaken => OneOvertake
  BY DEF Overtaken, OneOvertake
<1> QED
  BY <1>1, <1>2, TypeInit, TypeStep, OvertakenStep, PTL DEF Spec

-----------------------------------------------------------------------------
(* Timeouts.                                                               *)

\* On the MCU the stores of a blocking call are one step, so that for a
\* blocked task the stored wake time is the remaining delay from now on, and
\* the flag of an endless wait tells the truth.
Scheduled(t) ==
    /\ inf[t] <=> due[t] = W
    /\ due[t] # W => /\ due[t] <= W \div 2 + 1
                     /\ wake_time[t] = (ticks + due[t]) % W

Timed ==
    port = "MCU" =>
       /\ pc \notin Stores
       /\ \A t \in Tasks : state[t] \in Blocked => Scheduled(t)

\* At a tick a blocked task expires exactly when its last tick has gone.
LEMMA ExpiresExactly ==
    ASSUME CortosTypeOK, NEW t \in Tasks, state[t] \in Blocked, Scheduled(t)
    PROVE  Expires(t) <=> due[t] \in {0, 1}
<1>1. due[t] \in 0 .. W /\ ticks \in 0 .. MaxDelay
  BY DEF CortosTypeOK
<1>2. CASE due[t] = W
  BY <1>2, Range0 DEF Scheduled, Expires
<1>3. CASE due[t] # W
  <2>1. due[t] \in 0 .. W \div 2 + 1 /\ due[t] < W
    BY <1>1, <1>3, Range0, Halves DEF Scheduled
  <2>2. Reached((ticks + 1) % W, wake_time[t]) <=> due[t] <= 1
    BY <1>1, <1>3, <2>1, ReachedExactly DEF Scheduled
  <2>3. ~inf[t]
    BY <1>3 DEF Scheduled
  <2>4. Expires(t) <=> due[t] <= 1
    BY <2>2, <2>3 DEF Expires
  <2>5. due[t] <= 1 <=> due[t] \in {0, 1}
    BY <1>1, Range0
  <2> QED
    BY <2>4, <2>5
<1> QED
  BY <1>2, <1>3

LEMMA TimedStep ==
    ASSUME Delays \subseteq 0 .. W \div 2 + 1
    PROVE  CortosTypeOK /\ Timed /\ [Next]_vars => Timed'
<1> SUFFICES ASSUME CortosTypeOK, Timed, [Next]_vars, port' = "MCU"
             PROVE  (pc \notin Stores)' /\ \A t \in Tasks : state'[t] \in Blocked => Scheduled(t)'
  BY DEF Timed
<1>0. port = "MCU"
  BY DEF Next, Scheduler, Skip, Dispatch, Idle, EndIdle, Return, FinishBlock, Block, Masked,
         xTaskSuspend, xTaskNotifyTake, xTaskResume, xTaskNotify, Ticker_IRQ, thread, vars
<1>1. pc \notin Stores /\ \A t \in Tasks : state[t] \in Blocked => Scheduled(t)
  BY <1>0 DEF Timed
<1>2. CASE /\ UNCHANGED <<ticks, wake_time, inf, due>> /\ pc' \notin Stores
           /\ \A t \in Tasks : state'[t] \in Blocked => state[t] \in Blocked
  BY <1>1, <1>2 DEF Scheduled
<1>3. ASSUME NEW s \in Blocked, NEW n \in Delays \cup {MaxDelay}, Block(s, n)
      PROVE  (pc \notin Stores)' /\ \A t \in Tasks : state'[t] \in Blocked => Scheduled(t)'
  <2>1. current \in Tasks /\ n \in 0 .. MaxDelay
    BY <1>3, DelayType DEF Block, CortosTypeOK
  <2>2. pc' = "return" /\ SetTimeout(n) /\ ticks' = ticks
    BY <1>0, <1>3 DEF Block, Masked
  <2>3. ASSUME NEW t \in Tasks, state'[t] \in Blocked
        PROVE  Scheduled(t)'
    <3>1. CASE t = current
      <4>1. /\ wake_time'[t] = (ticks + n) % W
            /\ inf'[t] = (n = MaxDelay)
            /\ due'[t] = IF n = MaxDelay THEN W ELSE n
        BY <1>3, <2>1, <2>2, <3>1 DEF Block, SetTimeout, Wakes, CortosTypeOK
      <4>2. n # MaxDelay => n <= W \div 2 + 1 /\ n # W
        BY <2>1, Range0, Halves DEF MaxDelay
      <4>3. CASE n = MaxDelay
        BY <2>2, <4>1, <4>3 DEF Scheduled
      <4>4. CASE n # MaxDelay
        BY <2>2, <4>1, <4>2, <4>4 DEF Scheduled
      <4> QED
        BY <4>3, <4>4
    <3>2. CASE t # current
      <4>1. /\ state[t] = state'[t] /\ wake_time'[t] = wake_time[t]
            /\ inf'[t] = inf[t] /\ due'[t] = due[t]
        BY <1>3, <2>1, <2>2, <3>2 DEF Block, SetTimeout, CortosTypeOK
      <4> QED
        BY <1>1, <2>2, <2>3, <4>1 DEF Scheduled
    <3> QED
      BY <3>1, <3>2
  <2> QED
    BY <2>2, <2>3 DEF Stores
<1>4. CASE Ticker_IRQ
  <2>1. pc' \notin Stores
    BY <1>1, <1>4 DEF Ticker_IRQ, thread
  <2>2. ASSUME NEW t \in Tasks, state'[t] \in Blocked
        PROVE  Scheduled(t)'
    <3>1. state[t] \in Blocked /\ ~Expires(t)
      BY <1>4, <2>2 DEF Ticker_IRQ, Blocked
    <3>2. Scheduled(t) /\ due[t] \notin {0, 1}
      BY <1>1, <3>1, ExpiresExactly
    <3>3. /\ inf'[t] = inf[t] /\ wake_time'[t] = wake_time[t]
          /\ ticks' = (ticks + 1) % W
          /\ due'[t] = IF due[t] \in {0, W} THEN due[t] ELSE due[t] - 1
      BY <1>4 DEF Ticker_IRQ
    <3>4. due[t] \in 0 .. W /\ ticks \in 0 .. MaxDelay
      BY DEF CortosTypeOK
    <3>5. CASE due[t] = W
      BY <3>2, <3>3, <3>5 DEF Scheduled
    <3>6. CASE due[t] # W
      <4>1. due[t] \in 1 .. W - 1 /\ due'[t] = due[t] - 1 /\ due'[t] # W
        BY <3>2, <3>3, <3>4, <3>6, Range0
      <4>2. (ticks' + due'[t]) % W = (ticks + due[t]) % W
        BY <3>3, <3>4, <4>1, TickNearer
      <4>3. due'[t] <= W \div 2 + 1
        BY <3>2, <3>6, <4>1, Range0, Halves DEF Scheduled
      <4> QED
        BY <3>2, <3>3, <3>6, <4>1, <4>2, <4>3 DEF Scheduled
    <3> QED
      BY <3>5, <3>6
  <2> QED
    BY <2>1, <2>2
<1>5. CASE FinishBlock
  BY <1>1, <1>5 DEF FinishBlock, StoreNotify, StoreWake, StoreFlags, StoreEndless, Stores
<1>6. CASE Scheduler \/ UNCHANGED vars
  BY <1>1, <1>2, <1>5, <1>6
  DEF Scheduler, Skip, Dispatch, Idle, EndIdle, Return, vars, thread, Stores
<1>7. CASE xTaskSuspend
  BY <1>1, <1>2, <1>7 DEF xTaskSuspend, CortosTypeOK, Blocked, Stores
<1>8. CASE xTaskNotifyTake
  BY <1>1, <1>2, <1>8 DEF xTaskNotifyTake, thread
<1>9. ASSUME NEW t \in Tasks, xTaskResume(t)
      PROVE  (pc \notin Stores)' /\ \A u \in Tasks : state'[u] \in Blocked => Scheduled(u)'
  BY <1>1, <1>2, <1>9 DEF xTaskResume, thread, CortosTypeOK, Blocked
<1>10. ASSUME NEW t \in Tasks, NEW v \in Bits, xTaskNotify(t, v)
       PROVE  (pc \notin Stores)' /\ \A u \in Tasks : state'[u] \in Blocked => Scheduled(u)'
  <2>1. UNCHANGED <<ticks, wake_time, inf, pc>>
    BY <1>10 DEF xTaskNotify, thread
  <2>2. ASSUME NEW u \in Tasks, state'[u] \in Blocked
        PROVE  state[u] \in Blocked /\ due'[u] = due[u]
    <3>1. CASE state[t] = "WAITING_EVENT"
      <4>1. state' = [state EXCEPT ![t] = "READY"] /\ due' = [due EXCEPT ![t] = 0]
        BY <1>10, <3>1 DEF xTaskNotify, Notifies
      <4> QED
        BY <2>2, <4>1 DEF CortosTypeOK, Blocked
    <3>2. CASE state[t] # "WAITING_EVENT"
      BY <1>10, <2>2, <3>2 DEF xTaskNotify, Notifies
    <3> QED
      BY <3>1, <3>2
  <2> QED
    BY <1>1, <2>1, <2>2 DEF Scheduled
<1> QED
  BY <1>3, <1>4, <1>6, <1>7, <1>8, <1>9, <1>10 DEF Next

\* For delays up to half the counter's range and one more, on the MCU: a
\* blocked task becomes ready by its timeout at exactly the tick it asked for,
\* for every width of the counter and across its wrap, and an endless wait
\* never times out.
THEOREM TimeoutsExact ==
    ASSUME Delays \subseteq 0 .. W \div 2 + 1
    PROVE  Spec => ExactTimeouts
<1>1. Init => Timed
  BY DEF Init, Timed, Blocked, Stores
<1>2. CortosTypeOK /\ Timed /\ [Next]_vars =>
        [port = "MCU" => \A t \in Tasks : ticks' # ticks /\ state[t] \in Blocked =>
           (state'[t] = "READY" <=> due'[t] = 0)]_vars
  <2> SUFFICES ASSUME CortosTypeOK, Timed, Next, port = "MCU",
                      NEW t \in Tasks, ticks' # ticks, state[t] \in Blocked
               PROVE  state'[t] = "READY" <=> due'[t] = 0
    OBVIOUS
  <2>1. Ticker_IRQ
    BY DEF Next, Scheduler, Skip, Dispatch, Idle, EndIdle, Return, FinishBlock, Block,
           xTaskSuspend, xTaskNotifyTake, xTaskResume, xTaskNotify, thread
  <2>2. Expires(t) <=> due[t] \in {0, 1}
    BY ExpiresExactly DEF Timed
  <2>3. state'[t] = "READY" <=> Expires(t)
    BY <2>1 DEF Ticker_IRQ, Blocked
  <2>4. due[t] \in 0 .. W
    BY DEF CortosTypeOK
  <2>5. due'[t] = 0 <=> due[t] \in {0, 1}
    BY <2>1, <2>4, Range0 DEF Ticker_IRQ
  <2> QED
    BY <2>2, <2>3, <2>5
<1> QED
  BY <1>1, <1>2, TypeInit, TypeStep, TimedStep, PTL DEF Spec, ExactTimeouts
=============================================================================
