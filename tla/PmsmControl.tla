---------------------------- MODULE PmsmControl ----------------------------
(***************************************************************************)
(* The motor control core: the control modes, the fast loop run by the PWM *)
(* interrupt (pwmLoop), the slow loop run by the ticker interrupt          *)
(* (xmcLoop), and the self-commissioning sequence that both drive: R from  *)
(* a constant d voltage, then Ld and Lq from a high-frequency injection.   *)
(*                                                                         *)
(* On the MCU the ADC interrupt that runs pwmLoop has priority 0 and       *)
(* preempts the ticker, so the slow loop is split where it reads shared    *)
(* state again: its case labels fall through, and each block switches on   *)
(* idsub anew. On the host one thread runs the two loops in turn.          *)
(* The thread that changes the mode masks the interrupts on the MCU and    *)
(* runs only between two of them. On the host it takes a mutex that the    *)
(* thread of the loops does not take, so the mode may change inside one.   *)
(***************************************************************************)
EXTENDS Integers, Sequences

CONSTANTS
    Settle,     \* ESETTLE_MIN_TICKS
    Oversample, \* samples summed per parameter
    Preempts,   \* pwmLoops that may come inside one xmcLoop of the MCU
    MaxSwitch   \* bound on the mode changes the thread makes

ASSUME SettleAssumption == Settle \in Nat
ASSUME OversampleAssumption == Oversample \in Nat \ {0}
ASSUME PreemptsAssumption == Preempts \in Nat
ASSUME MaxSwitchAssumption == MaxSwitch \in Nat

VARIABLES
    mode,    \* control.mc_mode
    idstage, idsub, samples_counter,
    elapsed, \* pTicks - eSettle_start_tick, cut at Settle + 1
    acc,     \* the samples summed in accumulate0 and accumulate1
    drive,   \* what the setpoints ECd_sp and ECq_sp inject
    bridge,  \* what the half bridges were last told: float, or a duty
    pc,      \* the block of SComm_xmcLoop to run next
    inside,  \* bound: pwmLoops taken inside the present xmcLoop
    held,    \* history: fast loops that applied the present injection
    last,    \* history: the parameter computed last, and from which samples
    torn,    \* history: since the last mode change something came inside a slow
             \*   loop, that change included
    entering,\* the thread has stored the first stage, and the mode not yet
    switches,\* bound: mode changes so far
    port     \* which of the two ports runs the loops

core == <<mode, idstage, idsub, samples_counter, elapsed, acc, drive, bridge>>
vars == <<core, pc, inside, held, last, torn, entering, switches, port>>

MCMode == {"None", "Idle", "Fault", "Foc", "SComm"}
IDStage == {"IDLE", "RS_ID", "LD_ID", "REST0", "LQ_ID"}
IDSubStage == {"ESettle_Start", "ESettle_Wait", "Active_Sampling"}
Drive == {"none", "dc", "hfi_d", "hfi_q"}
Param == {"R", "Ld", "Lq"}
Port == {"host", "mcu"}
Ticks == 0 .. Settle + 1
Sample == [stage : IDStage, drive : Drive, held : Ticks]

NoResult == [of |-> "none", from |-> << >>]
Tick(n) == IF n = Settle + 1 THEN n ELSE n + 1
\* mutant: a settling test with the wrong sense of the boundary.
MutSettled == elapsed >= Settle

Settled == elapsed > Settle

\* The parameter a stage computes, and the injection it computes it from.
StageOf == [R |-> "RS_ID", Ld |-> "LD_ID", Lq |-> "LQ_ID"]
DriveOf == [R |-> "dc", Ld |-> "hfi_d", Lq |-> "hfi_q"]

Init ==
    /\ mode = "Idle"
    /\ idstage = "IDLE" /\ idsub = "ESettle_Start" /\ samples_counter = 0
    /\ elapsed = 0 /\ acc = << >>
    /\ drive = "none" /\ bridge = "float"
    /\ pc = "return" /\ inside = 0 /\ held = 0 /\ last = NoResult
    /\ torn = FALSE /\ entering = FALSE /\ switches = 0
    /\ port \in Port

----------------------------------------------------------------------------
\* The fast loop.

\* mutant: a fast loop that injects on the q axis in the Ld stage.
MutInjects == IF idstage \in {"LD_ID", "LQ_ID"} THEN "hfi_q" ELSE drive

\* SComm_pwmLoop writes the injection of the two inductance stages.
Injects ==
    CASE idstage = "LD_ID" -> "hfi_d"
      [] idstage = "LQ_ID" -> "hfi_q"
      [] OTHER -> drive

\* mutant: a fast loop that samples without regard to the sub-stage.
MutSamples ==
    /\ idstage \in {"RS_ID", "LD_ID", "LQ_ID"}
    /\ samples_counter > 0

\* mutant: a fast loop that does not stop at the last sample.
MutNoEnd ==
    /\ idstage \in {"RS_ID", "LD_ID", "LQ_ID"}
    /\ idsub = "Active_Sampling"

\* A sample is summed only in a stage that has one to take.
Samples ==
    /\ idstage \in {"RS_ID", "LD_ID", "LQ_ID"}
    /\ idsub = "Active_Sampling"
    /\ samples_counter > 0

TakeSample ==
    IF Samples
    THEN /\ acc' = Append(acc, [stage |-> idstage, drive |-> drive, held |-> held])
         /\ samples_counter' = samples_counter - 1
    ELSE UNCHANGED <<acc, samples_counter>>

SComm_pwmLoop ==
    /\ mode = "SComm"
    /\ TakeSample
    /\ drive' = Injects
    /\ held' = IF Injects = drive THEN Tick(held) ELSE Tick(0)

\* Foc_pwmLoop applies the setpoints it finds; no other mode writes the bridge.
pwmLoop ==
    /\ mode # "None"
    /\ \/ pc = "return" /\ UNCHANGED inside
       \/ /\ pc # "return" /\ port = "mcu" /\ inside < Preempts
          /\ inside' = inside + 1
    /\ \/ SComm_pwmLoop
       \/ mode # "SComm" /\ held' = 0 /\ UNCHANGED <<acc, samples_counter, drive>>
    /\ bridge' = IF mode \in {"Foc", "SComm"} THEN "svm" ELSE bridge
    /\ elapsed' = Tick(elapsed)
    /\ torn' = (torn \/ pc # "return")
    /\ UNCHANGED <<mode, idstage, idsub, pc, last, entering, switches, port>>

----------------------------------------------------------------------------
\* The slow loop.

xmcLoop ==
    /\ pc = "return" /\ mode = "SComm" /\ idstage # "IDLE"
    /\ pc' = idstage /\ inside' = 0
    /\ UNCHANGED <<core, held, last, torn, entering, switches, port>>

\* mutant: a stage that does not reset the accumulators.
MutKeepSum ==
    /\ idsub = "ESettle_Start"
    /\ idsub' = "ESettle_Wait"
    /\ elapsed' = 0 /\ samples_counter' = Oversample
    /\ UNCHANGED <<idstage, last, acc>>

StartSettling ==
    /\ idsub = "ESettle_Start"
    /\ idsub' = "ESettle_Wait"
    /\ elapsed' = 0 /\ acc' = << >> /\ samples_counter' = Oversample
    /\ UNCHANGED <<idstage, last>>

SettledTo(stage, sub) ==
    /\ idsub = "ESettle_Wait" /\ Settled
    /\ idstage' = stage /\ idsub' = sub
    /\ UNCHANGED <<elapsed, acc, samples_counter, last>>

\* mutant: a stage that computes its parameter without waiting for the last sample.
MutComputes(param, next) ==
    /\ idsub = "Active_Sampling" /\ samples_counter <= 1
    /\ idstage' = next /\ idsub' = "ESettle_Start"
    /\ last' = [of |-> param, from |-> acc]
    /\ UNCHANGED <<elapsed, acc, samples_counter>>

\* The stage and the sub-stage are two stores. A fast loop between them takes
\* no sample, because the counter is 0 or the sub-stage left already, and does
\* what it does next to them: one step.
Computes(param, next) ==
    /\ idsub = "Active_Sampling" /\ samples_counter = 0
    /\ idstage' = next /\ idsub' = "ESettle_Start"
    /\ last' = [of |-> param, from |-> acc]
    /\ UNCHANGED <<elapsed, acc, samples_counter>>

Waits ==
    /\ \/ idsub = "ESettle_Wait" /\ ~Settled
       \/ idsub = "Active_Sampling" /\ samples_counter > 0
    /\ UNCHANGED <<idstage, idsub, elapsed, acc, samples_counter, last>>

\* case RS_ID, which ends in a break.
RS_Block ==
    /\ pc = "RS_ID" /\ pc' = "return"
    /\ drive' = "dc"
    /\ held' = IF drive = "dc" THEN held ELSE 0
    /\ \/ StartSettling
       \/ SettledTo(idstage, "Active_Sampling")
       \/ Computes("R", "LD_ID")
       \/ Waits
    /\ UNCHANGED <<mode, bridge, inside, torn, entering, switches, port>>

\* case LD_ID, which falls through to REST0.
LD_Block ==
    /\ pc = "LD_ID" /\ pc' = "REST0"
    /\ \/ StartSettling
       \/ SettledTo(idstage, "Active_Sampling")
       \/ Computes("Ld", "REST0")
       \/ Waits
    /\ UNCHANGED <<mode, drive, held, bridge, inside, torn, entering, switches, port>>

\* case REST0, which falls through to LQ_ID; it has no sampling.
REST0_Block ==
    /\ pc = "REST0" /\ pc' = "LQ_ID"
    /\ \/ StartSettling /\ drive' = "none" /\ held' = 0
       \/ SettledTo("LQ_ID", "ESettle_Start") /\ UNCHANGED <<drive, held>>
       \/ /\ idsub = "Active_Sampling" \/ (idsub = "ESettle_Wait" /\ ~Settled)
          /\ UNCHANGED <<idstage, idsub, elapsed, acc, samples_counter, last, drive, held>>
    /\ UNCHANGED <<mode, bridge, inside, torn, entering, switches, port>>

\* mutant: a sequence that starts over at the Ld stage.
MutLQ_Block ==
    /\ pc = "LQ_ID" /\ pc' = "return"
    /\ \/ StartSettling
       \/ /\ idsub = "ESettle_Wait" /\ Settled
          /\ idsub' = "Active_Sampling" /\ elapsed' = 0
          /\ UNCHANGED <<idstage, acc, samples_counter, last>>
       \/ Computes("Lq", "LD_ID")
       \/ Waits
    /\ UNCHANGED <<mode, drive, held, bridge, inside, torn, entering, switches, port>>

\* case LQ_ID; its wait keeps the stage it finds and restarts the clock.
LQ_Block ==
    /\ pc = "LQ_ID" /\ pc' = "return"
    /\ \/ StartSettling
       \/ /\ idsub = "ESettle_Wait" /\ Settled
          /\ idsub' = "Active_Sampling" /\ elapsed' = 0
          /\ UNCHANGED <<idstage, acc, samples_counter, last>>
       \/ Computes("Lq", "RS_ID")
       \/ Waits
    /\ UNCHANGED <<mode, drive, held, bridge, inside, torn, entering, switches, port>>

SComm_xmcLoop == RS_Block \/ LD_Block \/ REST0_Block \/ LQ_Block

----------------------------------------------------------------------------
\* mutant: a mode change that does not select the first stage.
MutConfigControlMode(m) ==
    /\ switches < MaxSwitch /\ ~entering
    /\ pc = "return" \/ (port = "host" /\ m # "SComm")
    /\ m = "Idle" \/ mode = "Idle"
    /\ m # mode
    /\ mode' = m
    /\ last' = NoResult /\ held' = 0 /\ torn' = (pc # "return")
    /\ switches' = switches + 1
    /\ UNCHANGED <<idstage, idsub, samples_counter, elapsed, acc, drive, bridge, pc, inside, entering, port>>

(***************************************************************************)
(* The thread: PmsmControl::configControlMode and setControlMode. Entering *)
(* self-commissioning selects the first stage and nothing else of it.      *)
(* Between two slow loops nobody reads the stage before the mode, and the  *)
(* stores of the two are one step; on the host a slow loop under way goes  *)
(* on in the block it is in, and they are two.                             *)
(***************************************************************************)
configControlMode(m) ==
    /\ switches < MaxSwitch /\ ~entering
    /\ pc = "return" \/ (port = "host" /\ m # "SComm")
    /\ m = "Idle" \/ mode = "Idle"
    /\ m # mode
    /\ mode' = m
    /\ idstage' = IF m = "SComm" THEN "RS_ID" ELSE idstage
    /\ last' = NoResult /\ held' = 0 /\ torn' = (pc # "return")
    /\ switches' = switches + 1
    /\ UNCHANGED <<idsub, samples_counter, elapsed, acc, drive, bridge, pc, inside, entering, port>>

SComm_onEnter ==
    /\ switches < MaxSwitch /\ ~entering
    /\ port = "host" /\ pc # "return" /\ mode = "Idle"
    /\ idstage' = "RS_ID" /\ entering' = TRUE
    /\ last' = NoResult /\ held' = 0 /\ torn' = TRUE
    /\ switches' = switches + 1
    /\ UNCHANGED <<mode, idsub, samples_counter, elapsed, acc, drive, bridge, pc, inside, port>>

StoreMode ==
    /\ entering
    /\ mode' = "SComm" /\ entering' = FALSE
    /\ UNCHANGED <<idstage, idsub, samples_counter, elapsed, acc, drive, bridge, pc, inside,
                   held, last, torn, switches, port>>

setControlMode == (\E m \in MCMode : configControlMode(m)) \/ SComm_onEnter \/ StoreMode

Next ==
    \/ pwmLoop
    \/ xmcLoop
    \/ SComm_xmcLoop
    \/ setControlMode

\* Both interrupts are periodic, and a pending one is taken once the running
\* handler lets it in; the thread need not change the mode.
Fairness == SF_vars(pwmLoop) /\ WF_vars(xmcLoop) /\ WF_vars(SComm_xmcLoop)

Spec == Init /\ [][Next]_vars /\ Fairness

----------------------------------------------------------------------------
\* Properties.

\* The values every variable of the core takes.
CtlTypeOK ==
    /\ mode \in MCMode
    /\ idstage \in IDStage /\ idsub \in IDSubStage
    /\ samples_counter \in 0 .. Oversample
    /\ elapsed \in Ticks /\ held \in Ticks
    /\ acc \in Seq(Sample)
    /\ drive \in Drive /\ bridge \in {"float", "svm"}
    /\ pc \in {"return", "RS_ID", "LD_ID", "REST0", "LQ_ID"}
    /\ last \in [of : Param \cup {"none"}, from : Seq(Sample)]
    /\ switches \in 0 .. MaxSwitch /\ inside \in Nat
    /\ torn \in BOOLEAN /\ entering \in BOOLEAN /\ port \in Port

(***************************************************************************)
(* "Remaining samples for current step": outside the start of a stage the  *)
(* samples summed and the samples to go are Oversample together, whatever  *)
(* preempts the slow loop and however the modes are switched.              *)
(***************************************************************************)
CountExact == idsub # "ESettle_Start" => Len(acc) + samples_counter = Oversample

\* Every parameter computed is the mean of exactly Oversample samples.
ResultsAreMeans == last.of \in Param => Len(last.from) = Oversample

Successor == [none |-> "R", R |-> "Ld", Ld |-> "Lq", Lq |-> "R"]

(***************************************************************************)
(* "Go step by step into identification process": after R comes Ld, after  *)
(* Ld comes Lq, after Lq comes R, from every entry between two slow loops  *)
(* for as long as nothing comes inside one, in whatever state the entries  *)
(* before it left the sub-stage, the counter and the sums. (Something that *)
(* does come inside breaks the order: a fast loop lets the MCU skip Ld, a  *)
(* new entry lets the host compute Lq first.)                              *)
(***************************************************************************)
StepByStep ==
    [][~torn /\ last'.of # last.of => last'.of \in {"none", Successor[last.of]}]_vars

FromOwnStage(p) ==
    last.of = p => \A i \in DOMAIN last.from :
        /\ last.from[i].stage = StageOf[p]
        /\ last.from[i].drive = DriveOf[p]

\* Self-commissioning was entered once at most: a second entry keeps the
\* sub-stage, counter and sums of an interrupted one.
FirstEntry == switches <= 1

HeldLongEnough == \A i \in DOMAIN last.from : last.from[i].held > Settle

\* Where the two loops exclude each other, a parameter is computed only from
\* samples taken in its own stage, under its own injection.
OwnSamples == port = "host" /\ FirstEntry => \A p \in Param : FromOwnStage(p)

\* "wait for electrical settling": there, every sample is taken after the
\* injection has been unchanged for more than ESETTLE_MIN_TICKS fast loops.
SettledSamples == port = "host" /\ FirstEntry => HeldLongEnough

\* The resistance is sound on both ports, even where the inductances are not:
\* its stage ends in a break, so no other block runs after it.
ResistanceSound ==
    FirstEntry => FromOwnStage("R") /\ (last.of = "R" => HeldLongEnough)

\* Left in self-commissioning, the core computes every parameter where the two
\* loops exclude each other.
Commissions ==
    \A p \in Param :
        port = "host" /\ mode = "SComm" ~> (last.of = p \/ mode # "SComm")

\* "Remaining samples for current step": a step that samples takes its samples
\* and ends.
SamplingEnds ==
    mode = "SComm" /\ idsub = "Active_Sampling"
        ~> idsub # "Active_Sampling" \/ mode # "SComm"

=============================================================================
