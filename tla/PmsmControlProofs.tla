------------------------- MODULE PmsmControlProofs -------------------------
(***************************************************************************)
(* What PmsmControl promises for every settling time, oversampling, number *)
(* of mode switches and preemptions: the types, and that each parameter is *)
(* the mean of exactly Oversample samples. For one entry into              *)
(* self-commissioning: the soundness of the resistance and, where the two  *)
(* loops exclude each other, of the inductances. For every entry between   *)
(* two slow loops: the order of the parameters.                            *)
(***************************************************************************)
EXTENDS PmsmControl, TLAPS

LEMMA TickType == \A n \in Ticks : Tick(n) \in Ticks /\ Tick(n) >= n
BY SettleAssumption DEF Ticks, Tick

LEMMA InitType == Init => CtlTypeOK
<1> SUFFICES ASSUME Init PROVE CtlTypeOK
  OBVIOUS
<1>1. torn \in BOOLEAN /\ entering \in BOOLEAN
  BY Zenon DEF Init
<1> QED
  BY <1>1, SettleAssumption, OversampleAssumption, MaxSwitchAssumption
  DEF Init, CtlTypeOK, MCMode, IDStage, IDSubStage, Drive, Ticks, NoResult, Param, Port

\* A sample the fast loop takes is a Sample, and keeps the sum a sequence.
LEMMA SampleType ==
    ASSUME CtlTypeOK
    PROVE  TakeSample => acc' \in Seq(Sample) /\ samples_counter' \in 0 .. Oversample
<1> DEFINE smp == [stage |-> idstage, drive |-> drive, held |-> held]
<1>1. smp \in Sample
  BY DEF CtlTypeOK, Sample
<1>2. Append(acc, smp) \in Seq(Sample)
  BY <1>1 DEF CtlTypeOK
<1>3. Samples => samples_counter - 1 \in 0 .. Oversample
  BY OversampleAssumption DEF CtlTypeOK, Samples
<1> QED
  BY <1>2, <1>3 DEF TakeSample, CtlTypeOK

LEMMA InjectsType == CtlTypeOK => Injects \in Drive
BY DEF CtlTypeOK, Injects, Drive

LEMMA PwmType == CtlTypeOK /\ pwmLoop => CtlTypeOK'
<1> SUFFICES ASSUME CtlTypeOK, pwmLoop PROVE CtlTypeOK'
  OBVIOUS
<1>1. acc' \in Seq(Sample) /\ samples_counter' \in 0 .. Oversample
  BY SampleType DEF CtlTypeOK, pwmLoop, SComm_pwmLoop
<1>2. drive' \in Drive
  BY InjectsType DEF CtlTypeOK, pwmLoop, SComm_pwmLoop
<1>3. held' \in Ticks /\ elapsed' \in Ticks
  BY TickType, SettleAssumption DEF CtlTypeOK, pwmLoop, SComm_pwmLoop, Ticks
<1>4. bridge' \in {"float", "svm"}
  BY DEF CtlTypeOK, pwmLoop
<1>5. inside' \in Nat
  BY DEF CtlTypeOK, pwmLoop
<1> QED
  BY <1>1, <1>2, <1>3, <1>4, <1>5 DEF CtlTypeOK, pwmLoop

\* What the alternatives of a block leave typed.
BlockType == /\ idstage \in IDStage /\ idsub \in IDSubStage
             /\ samples_counter \in 0 .. Oversample
             /\ elapsed \in Ticks /\ acc \in Seq(Sample)
             /\ last \in [of : Param \cup {"none"}, from : Seq(Sample)]

LEMMA StartType == CtlTypeOK /\ StartSettling => BlockType'
BY SettleAssumption, OversampleAssumption
   DEF CtlTypeOK, StartSettling, BlockType, IDSubStage, Ticks

LEMMA ComputesType ==
    ASSUME CtlTypeOK, NEW p \in Param, NEW next \in IDStage, Computes(p, next)
    PROVE  BlockType'
BY DEF CtlTypeOK, Computes, BlockType, IDSubStage

LEMMA SettledType ==
    ASSUME CtlTypeOK, NEW s \in IDStage, NEW b \in IDSubStage, SettledTo(s, b)
    PROVE  BlockType'
BY DEF CtlTypeOK, SettledTo, BlockType

LEMMA WaitsType == CtlTypeOK /\ Waits => BlockType'
BY DEF CtlTypeOK, Waits, BlockType

LEMMA SlowType == CtlTypeOK /\ SComm_xmcLoop => CtlTypeOK'
<1> SUFFICES ASSUME CtlTypeOK, SComm_xmcLoop PROVE CtlTypeOK'
  OBVIOUS
<1>n. {"RS_ID", "LD_ID", "REST0", "LQ_ID"} \subseteq IDStage /\ Param = {"R", "Ld", "Lq"}
      /\ IDSubStage = {"ESettle_Start", "ESettle_Wait", "Active_Sampling"}
      /\ 0 \in Ticks /\ idstage \in IDStage
  BY SettleAssumption DEF IDStage, Param, IDSubStage, Ticks, CtlTypeOK
<1>1. CASE RS_Block
  <2>1. BlockType'
    BY <1>1, <1>n, StartType, ComputesType, SettledType, WaitsType DEF RS_Block
  <2> QED
    BY <2>1, <1>1, <1>n DEF RS_Block, BlockType, CtlTypeOK, Drive
<1>2. CASE LD_Block
  <2>1. BlockType'
    BY <1>2, <1>n, StartType, ComputesType, SettledType, WaitsType DEF LD_Block
  <2> QED
    BY <2>1, <1>2, <1>n DEF LD_Block, BlockType, CtlTypeOK
<1>3. CASE REST0_Block
  <2>1. BlockType'
    BY <1>3, <1>n, StartType, SettledType DEF REST0_Block, BlockType, CtlTypeOK
  <2> QED
    BY <2>1, <1>3, <1>n DEF REST0_Block, BlockType, CtlTypeOK, Drive
<1>4. CASE LQ_Block
  <2>1. BlockType'
    BY <1>4, <1>n, StartType, ComputesType, WaitsType DEF LQ_Block, BlockType, CtlTypeOK
  <2> QED
    BY <2>1, <1>4, <1>n DEF LQ_Block, BlockType, CtlTypeOK
<1> QED
  BY <1>1, <1>2, <1>3, <1>4 DEF SComm_xmcLoop

LEMMA ModeType == CtlTypeOK /\ setControlMode => CtlTypeOK'
<1> SUFFICES ASSUME CtlTypeOK, setControlMode PROVE CtlTypeOK'
  OBVIOUS
<1>1. torn' \in BOOLEAN /\ entering' \in BOOLEAN
  BY Zenon DEF CtlTypeOK, setControlMode, configControlMode, SComm_onEnter, StoreMode
<1>2. ASSUME NEW m \in MCMode, configControlMode(m)
      PROVE  CtlTypeOK'
  BY <1>1, <1>2, SettleAssumption, MaxSwitchAssumption
  DEF CtlTypeOK, configControlMode, IDStage, NoResult, Ticks
<1>3. CASE SComm_onEnter
  BY <1>1, <1>3, SettleAssumption, MaxSwitchAssumption
  DEF CtlTypeOK, SComm_onEnter, IDStage, NoResult, Ticks
<1>4. CASE StoreMode
  BY <1>1, <1>4 DEF CtlTypeOK, StoreMode, MCMode
<1> QED
  BY <1>2, <1>3, <1>4 DEF setControlMode

LEMMA EntryType == CtlTypeOK /\ xmcLoop => CtlTypeOK'
BY DEF CtlTypeOK, xmcLoop, core, IDStage

LEMMA StutterType == CtlTypeOK /\ UNCHANGED vars => CtlTypeOK'
BY DEF CtlTypeOK, vars, core

LEMMA StepType == CtlTypeOK /\ [Next]_vars => CtlTypeOK'
BY PwmType, SlowType, ModeType, EntryType, StutterType DEF Next

\* Type correctness of the control core: for every settling time,
\* oversampling, number of preemptions and of mode switches.
THEOREM CtlTypeCorrect == Spec => []CtlTypeOK
BY InitType, StepType, PTL DEF Spec

----------------------------------------------------------------------------
\* The sample count.
CountInv == CtlTypeOK /\ CountExact /\ ResultsAreMeans

LEMMA AppendLength ==
    ASSUME NEW s \in Seq(Sample), NEW e \in Sample
    PROVE  Len(Append(s, e)) = Len(s) + 1
OBVIOUS

LEMMA InitCount == Init => CountInv
BY InitType DEF Init, CountInv, CountExact, ResultsAreMeans, NoResult, Param

\* A sample moves one unit from the counter to the sum.
LEMMA PwmCount == CountInv /\ pwmLoop => CountInv'
<1> SUFFICES ASSUME CountInv, pwmLoop PROVE CountInv'
  OBVIOUS
<1>1. CtlTypeOK'
  BY PwmType DEF CountInv
<1>2. ResultsAreMeans'
  BY DEF CountInv, ResultsAreMeans, pwmLoop
<1>3. CASE Samples /\ TakeSample
  <2> DEFINE smp == [stage |-> idstage, drive |-> drive, held |-> held]
  <2>1. smp \in Sample /\ acc \in Seq(Sample)
    BY DEF CountInv, CtlTypeOK, Sample
  <2>2. acc' = Append(acc, smp) /\ samples_counter' = samples_counter - 1
    BY <1>3 DEF TakeSample
  <2>3. Len(acc') = Len(acc) + 1
    BY <2>1, <2>2, AppendLength
  <2>4. Len(acc) \in Nat /\ samples_counter \in Int
    BY <2>1 DEF CountInv, CtlTypeOK
  <2>5. Len(acc) + samples_counter = Oversample
    BY <1>3 DEF CountInv, CountExact, Samples
  <2>6. Len(acc') + samples_counter' = Oversample
    BY <2>2, <2>3, <2>4, <2>5
  <2> QED
    BY <2>6, <1>1, <1>2 DEF CountInv, CountExact
<1>4. CASE UNCHANGED <<acc, samples_counter>>
  BY <1>4, <1>1, <1>2 DEF CountInv, CountExact, pwmLoop
<1> QED
  BY <1>3, <1>4 DEF pwmLoop, SComm_pwmLoop, TakeSample

\* Every alternative of a block keeps the count, or starts it anew.
LEMMA BlockCount ==
    ASSUME CountInv,
           \/ StartSettling
           \/ \E p \in Param, s \in IDStage : Computes(p, s)
           \/ \E s \in IDStage, b \in IDSubStage : SettledTo(s, b)
           \/ Waits
           \/ /\ UNCHANGED <<acc, samples_counter, last>>
              /\ idsub # "ESettle_Start"
    PROVE  CountExact' /\ ResultsAreMeans'
<1>1. acc \in Seq(Sample) /\ samples_counter \in Int /\ Len(acc) \in Nat
  BY DEF CountInv, CtlTypeOK
<1>2. CASE StartSettling
  <2>1. Len(acc') + samples_counter' = Oversample
    BY <1>2, OversampleAssumption DEF StartSettling
  <2> QED
    BY <2>1, <1>2 DEF CountInv, CountExact, ResultsAreMeans, StartSettling
<1>3. CASE \E p \in Param, s \in IDStage : Computes(p, s)
  <2>1. Len(acc) = Oversample
    BY <1>1, <1>3 DEF CountInv, CountExact, Computes
  <2> QED
    BY <2>1, <1>3 DEF CountExact, ResultsAreMeans, Computes
<1>4. CASE \E s \in IDStage, b \in IDSubStage : SettledTo(s, b)
  BY <1>4 DEF CountInv, CountExact, ResultsAreMeans, SettledTo
<1>5. CASE Waits
  BY <1>5 DEF CountInv, CountExact, ResultsAreMeans, Waits
<1>6. CASE /\ UNCHANGED <<acc, samples_counter, last>>
           /\ idsub # "ESettle_Start"
  BY <1>6 DEF CountInv, CountExact, ResultsAreMeans
<1> QED
  BY <1>2, <1>3, <1>4, <1>5, <1>6

LEMMA SlowCount == CountInv /\ SComm_xmcLoop => CountInv'
<1> SUFFICES ASSUME CountInv, SComm_xmcLoop PROVE CountInv'
  OBVIOUS
<1>1. CtlTypeOK'
  BY SlowType DEF CountInv
<1>n. {"RS_ID", "LD_ID", "REST0", "LQ_ID"} \subseteq IDStage /\ Param = {"R", "Ld", "Lq"}
      /\ IDSubStage = {"ESettle_Start", "ESettle_Wait", "Active_Sampling"}
      /\ idstage \in IDStage
  BY DEF IDStage, Param, IDSubStage, CountInv, CtlTypeOK
<1>2. CASE RS_Block
  BY <1>2, <1>1, <1>n, BlockCount DEF RS_Block, CountInv
<1>3. CASE LD_Block
  BY <1>3, <1>1, <1>n, BlockCount DEF LD_Block, CountInv
<1>4. CASE REST0_Block
  BY <1>4, <1>1, <1>n, BlockCount DEF REST0_Block, CountInv
<1>5. CASE LQ_Block
  BY <1>5, <1>1, <1>n, BlockCount DEF LQ_Block, CountInv
<1> QED
  BY <1>2, <1>3, <1>4, <1>5 DEF SComm_xmcLoop

LEMMA StepCount == CountInv /\ [Next]_vars => CountInv'
<1> SUFFICES ASSUME CountInv, [Next]_vars PROVE CountInv'
  OBVIOUS
<1>1. CASE setControlMode
  BY <1>1, ModeType
  DEF CountInv, CountExact, ResultsAreMeans, setControlMode, configControlMode, SComm_onEnter,
      StoreMode, NoResult, Param
<1>2. CASE xmcLoop
  BY <1>2, EntryType DEF CountInv, CountExact, ResultsAreMeans, xmcLoop, core
<1>3. CASE UNCHANGED vars
  BY <1>3, StutterType DEF CountInv, CountExact, ResultsAreMeans, vars, core
<1> QED
  BY <1>1, <1>2, <1>3, PwmCount, SlowCount DEF Next

\* Whatever preempts the slow loop and however the modes are switched, the
\* samples summed and the samples to go are Oversample together.
THEOREM CountCorrect == Spec => []CountExact
<1>1. CountInv => CountExact
  BY DEF CountInv
<1> QED
  BY <1>1, InitCount, StepCount, PTL DEF Spec

\* Every parameter computed is the mean of exactly Oversample samples.
THEOREM MeansCorrect == Spec => []ResultsAreMeans
<1>1. CountInv => ResultsAreMeans
  BY DEF CountInv
<1> QED
  BY <1>1, InitCount, StepCount, PTL DEF Spec

----------------------------------------------------------------------------
(***************************************************************************)
(* The soundness of the resistance. Before a second mode switch the stage   *)
(* is entered only from the initial state or from the end of the Lq stage, *)
(* both at ESettle_Start, and no other block runs while it lasts; so       *)
(* between its ESettle_Start and its samples the injection stays the d     *)
(* voltage, and the fast loops since are the elapsed ticks at least.       *)
(***************************************************************************)
GoodR(s) == \A i \in DOMAIN s : /\ s[i].stage = "RS_ID" /\ s[i].drive = "dc"
                                /\ s[i].held > Settle

Fresh == /\ ~entering
         /\ switches = 0 => /\ mode = "Idle" /\ idstage = "IDLE" /\ acc = << >>
                            /\ idsub = "ESettle_Start" /\ pc = "return"
Stages == /\ mode # "SComm" => idstage = "IDLE"
          /\ pc = "RS_ID" => idstage = "RS_ID"
          /\ pc \in {"LD_ID", "REST0", "LQ_ID"} => idstage \in {"LD_ID", "REST0", "LQ_ID"}
WaitsOnDC == idstage = "RS_ID" /\ idsub = "ESettle_Wait" =>
               drive = "dc" /\ held >= elapsed /\ acc = << >>
SamplesOnDC == idstage = "RS_ID" /\ idsub = "Active_Sampling" =>
               drive = "dc" /\ held > Settle /\ GoodR(acc)
LastGood == last.of = "R" => GoodR(last.from)

RInv == CtlTypeOK /\ Fresh /\ Stages /\ WaitsOnDC /\ SamplesOnDC /\ LastGood

LEMMA EmptyGood == GoodR(<< >>)
BY DEF GoodR

LEMMA InitR == Init => RInv
BY InitType DEF Init, RInv, Fresh, Stages, WaitsOnDC, SamplesOnDC, LastGood, NoResult

LEMMA GoodAppend ==
    ASSUME NEW s \in Seq(Sample), NEW e \in Sample, GoodR(s),
           e.stage = "RS_ID", e.drive = "dc", e.held > Settle
    PROVE  GoodR(Append(s, e))
BY DEF GoodR

\* The fast loop: held grows with elapsed while the injection stays.
LEMMA PwmR == RInv /\ pwmLoop => RInv'
<1> SUFFICES ASSUME RInv, pwmLoop PROVE RInv'
  OBVIOUS
<1>1. CtlTypeOK'
  BY PwmType DEF RInv
<1>2. UNCHANGED <<mode, idstage, idsub, pc, last, switches>> /\ elapsed' = Tick(elapsed)
  BY DEF pwmLoop
<1>3. Stages' /\ LastGood'
  BY <1>2 DEF RInv, Stages, LastGood
<1>4. Fresh'
  BY <1>2 DEF RInv, Fresh, pwmLoop, SComm_pwmLoop
<1>5. idstage = "RS_ID" => mode = "SComm" /\ SComm_pwmLoop /\ Injects = drive
  BY DEF RInv, Stages, pwmLoop, Injects
<1>6. elapsed \in Ticks /\ held \in Ticks /\ Settle \in Nat
  BY SettleAssumption DEF RInv, CtlTypeOK
<1>7. idstage = "RS_ID" => drive' = drive /\ held' = Tick(held)
  BY <1>5 DEF SComm_pwmLoop
<1>8. held >= elapsed => Tick(held) >= Tick(elapsed)
  BY <1>6 DEF Ticks, Tick
<1>9. held > Settle => Tick(held) > Settle
  BY <1>6 DEF Ticks, Tick
<1>10. WaitsOnDC'
  <2> SUFFICES ASSUME idstage' = "RS_ID", idsub' = "ESettle_Wait"
               PROVE  drive' = "dc" /\ held' >= elapsed' /\ acc' = << >>
    BY DEF WaitsOnDC
  <2>1. acc' = acc
    BY <1>2, <1>5 DEF SComm_pwmLoop, TakeSample, Samples
  <2> QED
    BY <2>1, <1>2, <1>7, <1>8 DEF RInv, WaitsOnDC
<1>11. SamplesOnDC'
  <2> SUFFICES ASSUME idstage' = "RS_ID", idsub' = "Active_Sampling"
               PROVE  drive' = "dc" /\ held' > Settle /\ GoodR(acc')
    BY DEF SamplesOnDC
  <2> DEFINE smp == [stage |-> idstage, drive |-> drive, held |-> held]
  <2>1. drive = "dc" /\ held > Settle /\ GoodR(acc) /\ idstage = "RS_ID"
    BY <1>2 DEF RInv, SamplesOnDC
  <2>2. smp \in Sample /\ acc \in Seq(Sample)
    BY DEF RInv, CtlTypeOK, Sample
  <2>3. acc' = acc \/ acc' = Append(acc, smp)
    BY <1>5, <2>1 DEF SComm_pwmLoop, TakeSample
  <2>4. GoodR(Append(acc, smp))
    BY <2>1, <2>2, GoodAppend
  <2> QED
    BY <2>1, <2>3, <2>4, <1>7, <1>9
<1> QED
  BY <1>1, <1>3, <1>4, <1>10, <1>11 DEF RInv

LEMMA RSBlockR == RInv /\ RS_Block => RInv'
<1> SUFFICES ASSUME RInv, RS_Block PROVE RInv'
  OBVIOUS
<1>1. CtlTypeOK'
  BY SlowType DEF RInv, SComm_xmcLoop
<1>2. idstage = "RS_ID" /\ mode = "SComm" /\ switches # 0
  BY DEF RInv, RS_Block, Stages, Fresh
<1>3. elapsed \in Ticks /\ held \in Ticks /\ Settle \in Nat
  BY SettleAssumption DEF RInv, CtlTypeOK
<1>4. Fresh' /\ pc' = "return" /\ mode' = mode /\ drive' = "dc"
  BY <1>2 DEF RS_Block, Fresh, RInv
<1>5. idsub # "ESettle_Start" => drive = "dc" /\ held' = held
  BY <1>2 DEF RInv, RS_Block, WaitsOnDC, SamplesOnDC, CtlTypeOK, IDSubStage
<1>6. CASE StartSettling
  <2>1. held' >= 0
    BY <1>1 DEF CtlTypeOK, Ticks
  <2> QED
    BY <2>1, <1>1, <1>2, <1>4, <1>6
       DEF StartSettling, RInv, Stages, WaitsOnDC, SamplesOnDC, LastGood
<1>7. CASE SettledTo(idstage, "Active_Sampling")
  <2>1. held > Settle /\ GoodR(acc)
    BY <1>2, <1>3, <1>7, EmptyGood DEF SettledTo, Settled, RInv, WaitsOnDC, Ticks
  <2> QED
    BY <2>1, <1>1, <1>2, <1>4, <1>5, <1>7
       DEF SettledTo, RInv, Stages, WaitsOnDC, SamplesOnDC, LastGood
<1>8. CASE Computes("R", "LD_ID")
  <2>1. GoodR(acc)
    BY <1>2, <1>8 DEF Computes, RInv, SamplesOnDC
  <2> QED
    BY <2>1, <1>1, <1>2, <1>4, <1>8
       DEF Computes, RInv, Stages, WaitsOnDC, SamplesOnDC, LastGood
<1>9. CASE Waits
  BY <1>1, <1>2, <1>4, <1>5, <1>9
     DEF Waits, RInv, Stages, WaitsOnDC, SamplesOnDC, LastGood
<1> QED
  BY <1>6, <1>7, <1>8, <1>9 DEF RS_Block

\* The other blocks run in the other stages, and reach the first only by
\* computing Lq.
LEMMA OtherBlocksR == RInv /\ (LD_Block \/ REST0_Block \/ LQ_Block) => RInv'
<1> SUFFICES ASSUME RInv, LD_Block \/ REST0_Block \/ LQ_Block PROVE RInv'
  OBVIOUS
<1>1. CtlTypeOK'
  BY SlowType DEF RInv, SComm_xmcLoop
<1>2. idstage \in {"LD_ID", "REST0", "LQ_ID"} /\ mode = "SComm" /\ switches # 0
  BY DEF RInv, Stages, Fresh, LD_Block, REST0_Block, LQ_Block
<1>3. mode' = mode /\ switches' = switches /\ pc' \in {"REST0", "LQ_ID", "return"}
  BY DEF LD_Block, REST0_Block, LQ_Block
<1>e. entering' = entering
  BY DEF LD_Block, REST0_Block, LQ_Block
<1>4. \/ idstage' \in {"LD_ID", "REST0", "LQ_ID"}
      \/ idstage' = "RS_ID" /\ idsub' = "ESettle_Start" /\ pc' = "return"
  BY <1>2 DEF LD_Block, REST0_Block, LQ_Block, StartSettling, SettledTo, Computes, Waits
<1>5. last' = last \/ last'.of \in {"Ld", "Lq"}
  BY DEF LD_Block, REST0_Block, LQ_Block, StartSettling, SettledTo, Computes, Waits
<1> QED
  BY <1>1, <1>2, <1>3, <1>e, <1>4, <1>5
     DEF RInv, Fresh, Stages, WaitsOnDC, SamplesOnDC, LastGood

\* The first mode change finds the core at rest, so it enters the first stage
\* in one step.
LEMMA FirstMode ==
    ASSUME RInv, setControlMode, FirstEntry'
    PROVE  \E m \in MCMode : configControlMode(m) /\ switches = 0 /\ switches' = 1
<1>1. ~StoreMode
  BY DEF StoreMode, RInv, Fresh
<1>2. ~SComm_onEnter
  BY DEF SComm_onEnter, RInv, Fresh, CtlTypeOK, FirstEntry
<1>3. PICK m \in MCMode : configControlMode(m)
  BY <1>1, <1>2 DEF setControlMode
<1>4. switches = 0 /\ switches' = 1
  BY <1>3 DEF RInv, CtlTypeOK, configControlMode, FirstEntry
<1> QED
  BY <1>3, <1>4

LEMMA ModeR == RInv /\ setControlMode /\ FirstEntry' => RInv'
<1> SUFFICES ASSUME RInv, setControlMode, FirstEntry' PROVE RInv'
  OBVIOUS
<1>1. CtlTypeOK'
  BY ModeType DEF RInv
<1>2. PICK m \in MCMode : configControlMode(m) /\ switches = 0 /\ switches' = 1
  BY FirstMode
<1>3. /\ ~entering'
      /\ mode = "Idle" /\ idstage = "IDLE" /\ idsub = "ESettle_Start" /\ pc = "return"
      /\ idsub' = idsub /\ pc' = pc /\ mode' = m /\ last' = NoResult
      /\ idstage' = IF m = "SComm" THEN "RS_ID" ELSE idstage
  BY <1>2 DEF RInv, Fresh, configControlMode
<1> QED
  BY <1>1, <1>2, <1>3
     DEF RInv, Fresh, Stages, WaitsOnDC, SamplesOnDC, LastGood, NoResult

RFirst == CtlTypeOK /\ (FirstEntry => RInv)

LEMMA StepR == RFirst /\ [Next]_vars => RFirst'
<1> SUFFICES ASSUME RFirst, [Next]_vars, FirstEntry' PROVE RInv'
  BY StepType DEF RFirst
<1>1. CASE setControlMode
  <2>1. FirstEntry
    BY <1>1 DEF RFirst, CtlTypeOK, setControlMode, configControlMode, SComm_onEnter, StoreMode,
                FirstEntry
  <2> QED
    BY <1>1, <2>1, ModeR DEF RFirst
<1>2. CASE ~setControlMode
  <2>1. switches' = switches
    BY <1>2 DEF Next, pwmLoop, xmcLoop, SComm_xmcLoop, RS_Block, LD_Block, REST0_Block,
                LQ_Block, vars
  <2>2. RInv
    BY <2>1 DEF RFirst, FirstEntry
  <2>3. CASE xmcLoop
    BY <2>2, <2>3, EntryType
       DEF RInv, xmcLoop, core, Fresh, Stages, WaitsOnDC, SamplesOnDC, LastGood,
           CtlTypeOK, IDStage
  <2>4. CASE UNCHANGED vars
    BY <2>2, <2>4, StutterType
       DEF RInv, vars, core, Fresh, Stages, WaitsOnDC, SamplesOnDC, LastGood
  <2> QED
    BY <1>2, <2>2, <2>3, <2>4, PwmR, RSBlockR, OtherBlocksR DEF Next, SComm_xmcLoop
<1> QED
  BY <1>1, <1>2

\* Until it is entered a second time, the core computes the resistance only
\* from samples of its own stage, under the d voltage, after the settling time,
\* wherever the fast loop preempts the slow one.
THEOREM ResistanceIsSound == Spec => []ResistanceSound
<1>1. RFirst => ResistanceSound
  BY DEF RFirst, RInv, LastGood, GoodR, ResistanceSound, FromOwnStage, HeldLongEnough,
         StageOf, DriveOf
<1>2. Init => RFirst
  BY InitR DEF RFirst, RInv
<1> QED
  BY <1>1, <1>2, StepR, PTL DEF Spec

----------------------------------------------------------------------------
(***************************************************************************)
(* The soundness of the inductances where the two loops exclude each other. *)
(* The blocks that a stage falls through to find nothing to do: a later     *)
(* block reaches a stage of its own, or one that still waits.               *)
(***************************************************************************)
Good(s, stage, injection) ==
    \A i \in DOMAIN s : s[i].stage = stage /\ s[i].drive = injection /\ s[i].held > Settle

\* The Ld stage after its own block: neither settled nor fully sampled.
LdBusy == \/ idsub = "ESettle_Wait" /\ ~Settled
          \/ idsub = "Active_Sampling" /\ samples_counter > 0

Flow ==
    /\ pc = "LD_ID" => idstage = "LD_ID"
    /\ pc = "REST0" => (idstage = "LD_ID" /\ LdBusy) \/ idstage = "REST0"
    /\ pc = "LQ_ID" => \/ idstage = "LD_ID" /\ LdBusy
                       \/ idstage = "REST0" /\ idsub = "ESettle_Wait" /\ ~Settled
                       \/ idstage = "LQ_ID"
    /\ idstage = "REST0" => idsub # "Active_Sampling"

\* While a stage settles, its injection is on for as long as the clock runs,
\* unless the clock was started just now.
WaitsOn(stage, injection) ==
    idstage = stage /\ idsub = "ESettle_Wait" =>
        acc = << >> /\ (elapsed = 0 \/ (drive = injection /\ held >= elapsed))
SamplesOn(stage, injection) ==
    idstage = stage /\ idsub = "Active_Sampling" =>
        drive = injection /\ held > Settle /\ Good(acc, stage, injection)
ComputedFrom(param, stage, injection) ==
    last.of = param => Good(last.from, stage, injection)

HInv == /\ Flow
        /\ WaitsOn("LD_ID", "hfi_d") /\ WaitsOn("LQ_ID", "hfi_q")
        /\ SamplesOn("LD_ID", "hfi_d") /\ SamplesOn("LQ_ID", "hfi_q")
        /\ ComputedFrom("Ld", "LD_ID", "hfi_d") /\ ComputedFrom("Lq", "LQ_ID", "hfi_q")

Both == RInv /\ CountInv /\ HInv /\ port = "host"

LEMMA GoodAppendOf ==
    ASSUME NEW s \in Seq(Sample), NEW e \in Sample, NEW stage, NEW injection,
           Good(s, stage, injection),
           e.stage = stage, e.drive = injection, e.held > Settle
    PROVE  Good(Append(s, e), stage, injection)
BY DEF Good

\* The fast loop in a stage that injects: held keeps up with the clock.
LEMMA PwmStage ==
    ASSUME Both, pwmLoop, NEW stage, NEW injection,
           \/ stage = "LD_ID" /\ injection = "hfi_d"
           \/ stage = "LQ_ID" /\ injection = "hfi_q",
           WaitsOn(stage, injection), SamplesOn(stage, injection)
    PROVE  WaitsOn(stage, injection)' /\ SamplesOn(stage, injection)'
<1> SUFFICES ASSUME idstage = stage
             PROVE  WaitsOn(stage, injection)' /\ SamplesOn(stage, injection)'
  BY DEF pwmLoop, WaitsOn, SamplesOn
<1>1. UNCHANGED <<idstage, idsub>> /\ elapsed' = Tick(elapsed)
  BY DEF pwmLoop
<1>2. SComm_pwmLoop /\ Injects = injection
  BY DEF Both, RInv, Stages, pwmLoop, Injects
<1>3. drive' = injection /\ held' = IF drive = injection THEN Tick(held) ELSE Tick(0)
  BY <1>2 DEF SComm_pwmLoop
<1>4. elapsed \in Ticks /\ held \in Ticks /\ Settle \in Nat
  BY SettleAssumption DEF Both, RInv, CtlTypeOK
<1>5. /\ held >= elapsed => Tick(held) >= Tick(elapsed)
      /\ Tick(held) >= Tick(0)
      /\ held > Settle => Tick(held) > Settle
      /\ Tick(0) >= Tick(0)
  BY <1>4 DEF Ticks, Tick
<1>6. WaitsOn(stage, injection)'
  <2> SUFFICES ASSUME idsub = "ESettle_Wait"
               PROVE  acc' = << >> /\ held' >= elapsed'
    BY <1>1, <1>3 DEF WaitsOn
  <2>1. acc' = acc
    BY <1>2 DEF SComm_pwmLoop, TakeSample, Samples
  <2>2. acc = << >> /\ (elapsed = 0 \/ (drive = injection /\ held >= elapsed))
    BY DEF WaitsOn
  <2>3. CASE elapsed = 0
    BY <1>1, <1>3, <1>5, <2>1, <2>2, <2>3
  <2>4. CASE drive = injection /\ held >= elapsed
    BY <1>1, <1>3, <1>5, <2>1, <2>2, <2>4
  <2> QED
    BY <2>2, <2>3, <2>4
<1>7. SamplesOn(stage, injection)'
  <2> SUFFICES ASSUME idsub = "Active_Sampling"
               PROVE  held' > Settle /\ Good(acc', stage, injection)
    BY <1>1, <1>3 DEF SamplesOn, Good
  <2> DEFINE smp == [stage |-> idstage, drive |-> drive, held |-> held]
  <2>1. drive = injection /\ held > Settle /\ Good(acc, stage, injection)
    BY DEF SamplesOn
  <2>2. smp \in Sample /\ acc \in Seq(Sample)
    BY DEF Both, RInv, CtlTypeOK, Sample
  <2>3. acc' = acc \/ acc' = Append(acc, smp)
    BY <1>2 DEF SComm_pwmLoop, TakeSample
  <2>4. Good(Append(acc, smp), stage, injection)
    BY <2>1, <2>2, GoodAppendOf
  <2> QED
    BY <1>3, <1>5, <2>1, <2>3, <2>4
<1> QED
  BY <1>6, <1>7

LEMMA PwmHost == Both /\ pwmLoop => HInv'
<1> SUFFICES ASSUME Both, pwmLoop
             PROVE  HInv'
  OBVIOUS
<1>1. pc = "return" /\ pc' = "return" /\ UNCHANGED <<idstage, idsub, last>>
  BY DEF Both, pwmLoop
<1>2. Flow'
  BY <1>1 DEF Both, HInv, Flow
<1>3. ComputedFrom("Ld", "LD_ID", "hfi_d")' /\ ComputedFrom("Lq", "LQ_ID", "hfi_q")'
  BY <1>1 DEF Both, HInv, ComputedFrom, Good
<1>4. /\ WaitsOn("LD_ID", "hfi_d")' /\ SamplesOn("LD_ID", "hfi_d")'
      /\ WaitsOn("LQ_ID", "hfi_q")' /\ SamplesOn("LQ_ID", "hfi_q")'
  BY PwmStage DEF Both, HInv
<1> QED
  BY <1>2, <1>3, <1>4 DEF HInv

\* A stage that starts to settle has an empty sum and a fresh clock.
LEMMA StartsFresh ==
    ASSUME StartSettling
    PROVE  /\ idsub' = "ESettle_Wait" /\ ~Settled' /\ idstage' = idstage /\ last' = last
           /\ \A stage, injection : WaitsOn(stage, injection)' /\ SamplesOn(stage, injection)'
BY SettleAssumption DEF StartSettling, Settled, WaitsOn, SamplesOn

LEMMA LastKept ==
    ASSUME Both, last' = last
    PROVE  ComputedFrom("Ld", "LD_ID", "hfi_d")' /\ ComputedFrom("Lq", "LQ_ID", "hfi_q")'
BY DEF Both, HInv, ComputedFrom, Good

\* A stage that has settled has its injection on for longer than Settle.
LEMMA SettledOn ==
    ASSUME Both, NEW stage, NEW injection, WaitsOn(stage, injection), idstage = stage,
           idsub = "ESettle_Wait", Settled
    PROVE  /\ drive = injection /\ held > Settle /\ acc = << >>
           /\ Good(acc, stage, injection) /\ samples_counter > 0
<1>1. elapsed \in Nat /\ held \in Nat /\ Settle \in Nat
  BY SettleAssumption DEF Both, RInv, CtlTypeOK, Ticks
<1>2. elapsed > Settle /\ acc = << >> /\ drive = injection /\ held >= elapsed
  BY <1>1 DEF WaitsOn, Settled
<1>3. samples_counter = Oversample
  <2>1. Len(acc) + samples_counter = Oversample
    BY DEF Both, CountInv, CountExact
  <2>2. Len(acc) = 0 /\ samples_counter \in Int
    BY <1>2 DEF Both, CountInv, CtlTypeOK
  <2> QED
    BY <2>1, <2>2
<1> QED
  BY <1>1, <1>2, <1>3, OversampleAssumption DEF Good

LEMMA RSHost == Both /\ RS_Block => HInv'
<1> SUFFICES ASSUME Both, RS_Block
             PROVE  HInv'
  OBVIOUS
<1>1. idstage = "RS_ID" /\ pc' = "return"
  BY DEF RS_Block, Both, RInv, Stages
<1>2. idstage' = "RS_ID" \/ (idstage' = "LD_ID" /\ idsub' = "ESettle_Start")
  BY <1>1 DEF RS_Block, StartSettling, SettledTo, Computes, Waits
<1>3. last' = last \/ last'.of = "R"
  BY DEF RS_Block, StartSettling, SettledTo, Computes, Waits
<1>4. ComputedFrom("Ld", "LD_ID", "hfi_d")' /\ ComputedFrom("Lq", "LQ_ID", "hfi_q")'
  BY <1>3, LastKept DEF ComputedFrom
<1> QED
  BY <1>1, <1>2, <1>4 DEF HInv, Flow, WaitsOn, SamplesOn

LEMMA LDHost == Both /\ LD_Block => HInv'
<1> SUFFICES ASSUME Both, LD_Block
             PROVE  HInv'
  OBVIOUS
<1>1. idstage = "LD_ID" /\ pc' = "REST0" /\ UNCHANGED <<drive, held>>
  BY DEF LD_Block, Both, HInv, Flow
<1>2. HInv
  BY DEF Both
<1>3. CASE StartSettling
  <2>1. Flow'
    BY <1>1, <1>3, StartsFresh DEF Flow, LdBusy
  <2> QED
    BY <1>3, <2>1, StartsFresh, LastKept DEF HInv
<1>4. CASE SettledTo(idstage, "Active_Sampling")
  <2>1. /\ drive = "hfi_d" /\ held > Settle /\ Good(acc, "LD_ID", "hfi_d") /\ samples_counter > 0
    BY <1>1, <1>2, <1>4, SettledOn DEF SettledTo, HInv
  <2>2. /\ idstage' = "LD_ID" /\ idsub' = "Active_Sampling"
        /\ UNCHANGED <<elapsed, acc, samples_counter, last>>
    BY <1>1, <1>4 DEF SettledTo
  <2>3. SamplesOn("LD_ID", "hfi_d")'
    BY <1>1, <2>1, <2>2 DEF SamplesOn, Good
  <2>4. Flow'
    BY <1>1, <2>1, <2>2 DEF Flow, LdBusy
  <2>5. WaitsOn("LD_ID", "hfi_d")' /\ WaitsOn("LQ_ID", "hfi_q")' /\ SamplesOn("LQ_ID", "hfi_q")'
    BY <2>2 DEF WaitsOn, SamplesOn
  <2> QED
    BY <2>2, <2>3, <2>4, <2>5, LastKept DEF HInv
<1>5. CASE Computes("Ld", "REST0")
  <2>1. /\ idstage' = "REST0" /\ idsub' = "ESettle_Start"
        /\ last' = [of |-> "Ld", from |-> acc] /\ Good(acc, "LD_ID", "hfi_d")
    BY <1>1, <1>2, <1>5 DEF Computes, HInv, SamplesOn
  <2>2. ComputedFrom("Ld", "LD_ID", "hfi_d")' /\ ComputedFrom("Lq", "LQ_ID", "hfi_q")'
    BY <2>1 DEF ComputedFrom, Good
  <2> QED
    BY <1>1, <2>1, <2>2 DEF HInv, Flow, WaitsOn, SamplesOn
<1>6. CASE Waits
  <2>1. /\ LdBusy /\ UNCHANGED <<idstage, idsub, elapsed, acc, samples_counter, last>>
    BY <1>6 DEF Waits, LdBusy
  <2> QED
    BY <1>1, <1>2, <2>1 DEF HInv, Flow, LdBusy, Settled, WaitsOn, SamplesOn, ComputedFrom, Good
<1> QED
  BY <1>3, <1>4, <1>5, <1>6 DEF LD_Block

LEMMA RESTHost == Both /\ REST0_Block => HInv'
<1> SUFFICES ASSUME Both, REST0_Block
             PROVE  HInv'
  OBVIOUS
<1>1. pc' = "LQ_ID" /\ HInv
  BY DEF REST0_Block, Both
<1>2. (idstage = "LD_ID" /\ LdBusy) \/ (idstage = "REST0" /\ idsub # "Active_Sampling")
  BY DEF REST0_Block, Both, HInv, Flow
<1>3. CASE StartSettling
  <2>1. idstage = "REST0"
    BY <1>2, <1>3 DEF StartSettling, LdBusy
  <2>2. Flow'
    BY <1>1, <1>3, <2>1, StartsFresh DEF Flow
  <2> QED
    BY <1>3, <2>2, StartsFresh, LastKept DEF HInv
<1>4. CASE SettledTo("LQ_ID", "ESettle_Start")
  <2>1. idstage' = "LQ_ID" /\ idsub' = "ESettle_Start" /\ last' = last
    BY <1>4 DEF SettledTo
  <2> QED
    BY <1>1, <2>1, LastKept DEF HInv, Flow, WaitsOn, SamplesOn
<1>5. CASE /\ idsub = "Active_Sampling" \/ (idsub = "ESettle_Wait" /\ ~Settled)
           /\ UNCHANGED <<idstage, idsub, elapsed, acc, samples_counter, last, drive, held>>
  BY <1>1, <1>2, <1>5
  DEF HInv, Flow, LdBusy, Settled, WaitsOn, SamplesOn, ComputedFrom, Good
<1> QED
  BY <1>3, <1>4, <1>5 DEF REST0_Block

LEMMA LQHost == Both /\ LQ_Block => HInv'
<1> SUFFICES ASSUME Both, LQ_Block
             PROVE  HInv'
  OBVIOUS
<1>1. pc' = "return" /\ HInv /\ UNCHANGED <<drive, held>>
  BY DEF LQ_Block, Both
<1>2. \/ idstage = "LD_ID" /\ LdBusy
      \/ idstage = "REST0" /\ idsub = "ESettle_Wait" /\ ~Settled
      \/ idstage = "LQ_ID"
  BY DEF LQ_Block, Both, HInv, Flow
<1>3. CASE StartSettling
  <2>1. idstage' = "LQ_ID"
    BY <1>2, <1>3 DEF StartSettling, LdBusy
  <2>2. Flow'
    BY <1>1, <2>1 DEF Flow
  <2> QED
    BY <1>3, <2>2, StartsFresh, LastKept DEF HInv
<1>4. CASE /\ idsub = "ESettle_Wait" /\ Settled
           /\ idsub' = "Active_Sampling" /\ elapsed' = 0
           /\ UNCHANGED <<idstage, acc, samples_counter, last>>
  <2>1. idstage = "LQ_ID"
    BY <1>2, <1>4 DEF LdBusy
  <2>2. drive = "hfi_q" /\ held > Settle /\ Good(acc, "LQ_ID", "hfi_q")
    BY <1>1, <1>4, <2>1, SettledOn DEF HInv
  <2>3. SamplesOn("LQ_ID", "hfi_q")'
    BY <1>1, <1>4, <2>2 DEF SamplesOn, Good
  <2>4. Flow' /\ WaitsOn("LD_ID", "hfi_d")' /\ WaitsOn("LQ_ID", "hfi_q")' /\ SamplesOn("LD_ID", "hfi_d")'
    BY <1>1, <1>4, <2>1 DEF Flow, WaitsOn, SamplesOn
  <2> QED
    BY <1>4, <2>3, <2>4, LastKept DEF HInv
<1>5. CASE Computes("Lq", "RS_ID")
  <2>1. idstage = "LQ_ID"
    <3>1. samples_counter = 0 /\ idsub = "Active_Sampling"
      BY <1>5 DEF Computes
    <3> QED
      BY <1>2, <3>1 DEF LdBusy
  <2>2. /\ idstage' = "RS_ID" /\ last' = [of |-> "Lq", from |-> acc]
        /\ Good(acc, "LQ_ID", "hfi_q")
    BY <1>1, <1>5, <2>1 DEF Computes, HInv, SamplesOn
  <2>3. ComputedFrom("Ld", "LD_ID", "hfi_d")' /\ ComputedFrom("Lq", "LQ_ID", "hfi_q")'
    BY <2>2 DEF ComputedFrom, Good
  <2> QED
    BY <1>1, <2>2, <2>3 DEF HInv, Flow, WaitsOn, SamplesOn
<1>6. CASE Waits
  <2>1. UNCHANGED <<idstage, idsub, elapsed, acc, samples_counter, last>>
    BY <1>6 DEF Waits
  <2> QED
    BY <1>1, <2>1 DEF HInv, Flow, WaitsOn, SamplesOn, ComputedFrom, Good
<1> QED
  BY <1>3, <1>4, <1>5, <1>6 DEF LQ_Block

HostFirst == CountInv /\ RFirst /\ (FirstEntry /\ port = "host" => HInv)

LEMMA StepHost == HostFirst /\ [Next]_vars => HostFirst'
<1> SUFFICES ASSUME HostFirst, [Next]_vars, FirstEntry', port' = "host"
             PROVE  HInv'
  BY StepCount, StepR DEF HostFirst
<1>1. CASE setControlMode
  <2>1. FirstEntry
    BY <1>1 DEF HostFirst, RFirst, CtlTypeOK, setControlMode, configControlMode, SComm_onEnter,
                StoreMode, FirstEntry
  <2>3. RInv
    BY <2>1 DEF HostFirst, RFirst
  <2>2. PICK m \in MCMode : configControlMode(m) /\ switches = 0 /\ switches' = 1
    BY <1>1, <2>3, FirstMode
  <2>4. /\ pc' = "return" /\ idstage' \in {"RS_ID", "IDLE"} /\ last' = NoResult
    BY <2>2, <2>3 DEF RInv, Fresh, configControlMode
  <2> QED
    BY <2>4 DEF HInv, Flow, WaitsOn, SamplesOn, ComputedFrom, NoResult
<1>2. CASE ~setControlMode
  <2>1. switches' = switches /\ port' = port
    BY <1>2 DEF Next, pwmLoop, xmcLoop, SComm_xmcLoop, RS_Block, LD_Block, REST0_Block,
                LQ_Block, vars
  <2>2. Both
    BY <2>1 DEF HostFirst, RFirst, FirstEntry, Both
  <2>3. CASE xmcLoop
    <3>1. /\ pc' = idstage
          /\ UNCHANGED <<idstage, idsub, samples_counter, elapsed, acc, drive, held, last>>
      BY <2>3 DEF xmcLoop, core
    <3> QED
      BY <2>2, <3>1 DEF Both, HInv, Flow, WaitsOn, SamplesOn, ComputedFrom, Good
  <2>4. CASE UNCHANGED vars
    BY <2>2, <2>4 DEF Both, vars, core, HInv, Flow, LdBusy, Settled, WaitsOn, SamplesOn,
       ComputedFrom, Good
  <2> QED
    BY <1>2, <2>2, <2>3, <2>4, PwmHost, RSHost, LDHost, RESTHost, LQHost
    DEF Next, SComm_xmcLoop
<1> QED
  BY <1>1, <1>2

LEMMA HostAlways == Spec => []HostFirst
<1>1. Init => HostFirst
  BY InitCount, InitR
  DEF Init, HostFirst, RFirst, RInv, HInv, Flow, WaitsOn, SamplesOn, ComputedFrom, NoResult
<1> QED
  BY <1>1, StepHost, PTL DEF Spec

\* Where the loops exclude each other, each of the three parameters is computed
\* only from samples of its own stage and injection.
THEOREM SamplesAreOwn == Spec => []OwnSamples
<1>1. HostFirst => OwnSamples
  BY DEF HostFirst, RFirst, RInv, LastGood, GoodR, HInv, ComputedFrom, Good, OwnSamples,
         FromOwnStage, StageOf, DriveOf, Param
<1> QED
  BY <1>1, HostAlways, PTL

\* While no parameter is computed there are no samples to speak of.
NoneEmpty == last.of = "none" => last.from = << >>

LEMMA NoneAlways == Spec => []NoneEmpty
<1>1. Init => NoneEmpty
  BY DEF Init, NoneEmpty, NoResult
<1>2. NoneEmpty /\ [Next]_vars => NoneEmpty'
  <2> SUFFICES ASSUME NoneEmpty, [Next]_vars PROVE NoneEmpty'
    OBVIOUS
  <2>1. CASE setControlMode
    BY <2>1 DEF setControlMode, configControlMode, SComm_onEnter, StoreMode, NoResult, NoneEmpty
  <2>2. CASE RS_Block
    BY <2>2 DEF RS_Block, NoneEmpty, StartSettling, SettledTo, Computes, Waits
  <2>3. CASE LD_Block
    BY <2>3 DEF LD_Block, NoneEmpty, StartSettling, SettledTo, Computes, Waits
  <2>4. CASE REST0_Block
    BY <2>4 DEF REST0_Block, NoneEmpty, StartSettling, SettledTo
  <2>5. CASE LQ_Block
    BY <2>5 DEF LQ_Block, NoneEmpty, StartSettling, Computes, Waits
  <2>6. CASE pwmLoop \/ xmcLoop \/ UNCHANGED vars
    BY <2>6 DEF pwmLoop, xmcLoop, vars, core, NoneEmpty
  <2> QED
    BY <2>1, <2>2, <2>3, <2>4, <2>5, <2>6 DEF Next, SComm_xmcLoop
<1> QED
  BY <1>1, <1>2, PTL DEF Spec

\* There too, every sample is taken when the injection has lasted for longer
\* than the settling time, for every settling time and oversampling.
THEOREM SamplesAreSettled == Spec => []SettledSamples
<1>1. HostFirst /\ NoneEmpty => SettledSamples
  <2> SUFFICES ASSUME HostFirst, NoneEmpty, port = "host", FirstEntry
               PROVE  HeldLongEnough
    BY DEF SettledSamples
  <2>1. /\ last.of = "R" => GoodR(last.from)
        /\ last.of = "Ld" => Good(last.from, "LD_ID", "hfi_d")
        /\ last.of = "Lq" => Good(last.from, "LQ_ID", "hfi_q")
    BY DEF HostFirst, RFirst, RInv, LastGood, HInv, ComputedFrom
  <2>2. last.of \in {"R", "Ld", "Lq", "none"}
    BY DEF HostFirst, CountInv, CtlTypeOK, Param
  <2>3. CASE last.of = "none"
    BY <2>3 DEF NoneEmpty, HeldLongEnough
  <2> QED
    BY <2>1, <2>2, <2>3 DEF GoodR, Good, HeldLongEnough
<1> QED
  BY <1>1, HostAlways, NoneAlways, PTL

(***************************************************************************)
(* The order of the sequence. From an entry between two slow loops on, and *)
(* until something comes inside one, the stage tells the parameter computed*)
(* last. What the entries before left behind does not matter, except that  *)
(* a stage which settles always has all its samples to go: that keeps the  *)
(* block of another stage from computing.                                  *)
(***************************************************************************)
StageAfter ==
    /\ idstage = "RS_ID" => last.of \in {"none", "Lq"}
    /\ idstage = "LD_ID" => last.of = "R"
    /\ idstage \in {"REST0", "LQ_ID"} => last.of = "Ld"

Order ==
    /\ pc # "return" => mode = "SComm"
    /\ pc = "RS_ID" => idstage = "RS_ID"
    /\ mode = "SComm" => Flow /\ StageAfter

AllToGo == idsub = "ESettle_Wait" => samples_counter = Oversample

OrderInv == AllToGo /\ (entering => torn) /\ (~torn => Order)

LEMMA AllToGoStep == AllToGo /\ [Next]_vars => AllToGo'
<1> SUFFICES ASSUME AllToGo, [Next]_vars PROVE AllToGo'
  OBVIOUS
<1>1. CASE pwmLoop
  BY <1>1 DEF pwmLoop, SComm_pwmLoop, TakeSample, Samples, AllToGo
<1>2. CASE RS_Block
  BY <1>2 DEF RS_Block, StartSettling, SettledTo, Computes, Waits, AllToGo
<1>3. CASE LD_Block
  BY <1>3 DEF LD_Block, StartSettling, SettledTo, Computes, Waits, AllToGo
<1>4. CASE REST0_Block
  BY <1>4 DEF REST0_Block, StartSettling, SettledTo, AllToGo
<1>5. CASE LQ_Block
  BY <1>5 DEF LQ_Block, StartSettling, Computes, Waits, AllToGo
<1>6. CASE xmcLoop \/ setControlMode \/ UNCHANGED vars
  BY <1>6
  DEF xmcLoop, core, setControlMode, configControlMode, SComm_onEnter, StoreMode, vars, AllToGo
<1> QED
  BY <1>1, <1>2, <1>3, <1>4, <1>5, <1>6 DEF Next, SComm_xmcLoop

\* What a step may do to the parameter computed last.
InTurn == last'.of # last.of => last'.of \in {"none", Successor[last.of]}

\* A mode change between two slow loops starts the order anew.
LEMMA OrderMode ==
    ASSUME OrderInv, setControlMode
    PROVE  (entering' => torn') /\ (~torn' => Order') /\ (~torn => InTurn)
<1>1. ASSUME NEW m \in MCMode, configControlMode(m)
      PROVE  (entering' => torn') /\ (~torn' => Order') /\ (~torn => InTurn)
  <2>1. last' = NoResult /\ mode' = m /\ pc' = pc /\ (torn' <=> pc # "return")
    BY <1>1 DEF configControlMode
  <2>2. ~entering'
    BY <1>1 DEF configControlMode
  <2>3. m = "SComm" => idstage' = "RS_ID"
    BY <1>1 DEF configControlMode
  <2>4. ~torn' => Order'
    BY <2>1, <2>3 DEF Order, Flow, StageAfter, NoResult
  <2> QED
    BY <2>1, <2>2, <2>4 DEF InTurn, NoResult
<1>2. CASE SComm_onEnter
  BY <1>2 DEF SComm_onEnter, InTurn, NoResult
<1>3. CASE StoreMode
  BY <1>3 DEF StoreMode, OrderInv, InTurn
<1> QED
  BY <1>1, <1>2, <1>3 DEF setControlMode

\* A slow loop that nothing comes into keeps it.
LEMMA OrderStep ==
    ASSUME Order, AllToGo, [Next]_vars, ~setControlMode, ~torn'
    PROVE  Order' /\ InTurn
<1> USE OversampleAssumption, SettleAssumption
<1>2. CASE xmcLoop
  BY <1>2 DEF xmcLoop, core, Order, Flow, LdBusy, Settled, StageAfter, InTurn
<1>3. CASE pwmLoop
  <2>1. pc = "return" /\ UNCHANGED <<pc, mode, idstage, idsub, last>>
    BY <1>3 DEF pwmLoop
  <2> QED
    BY <2>1 DEF Order, Flow, StageAfter, InTurn
<1>4. CASE RS_Block
  <2>1. pc = "RS_ID" /\ pc' = "return" /\ mode = "SComm" /\ mode' = mode /\ idstage = "RS_ID"
    BY <1>4 DEF RS_Block, Order
  <2>2. CASE StartSettling
    BY <2>1, <2>2 DEF StartSettling, Order, Flow, StageAfter, InTurn
  <2>3. CASE SettledTo(idstage, "Active_Sampling")
    BY <2>1, <2>3 DEF SettledTo, AllToGo, Order, Flow, StageAfter, InTurn
  <2>4. CASE Computes("R", "LD_ID")
    BY <2>1, <2>4 DEF Computes, Order, Flow, StageAfter, InTurn, Successor
  <2>5. CASE Waits
    BY <2>1, <2>5 DEF Waits, Order, Flow, StageAfter, InTurn
  <2> QED
    BY <1>4, <2>2, <2>3, <2>4, <2>5 DEF RS_Block
<1>5. CASE LD_Block
  <2>1. pc = "LD_ID" /\ pc' = "REST0" /\ mode = "SComm" /\ mode' = mode /\ idstage = "LD_ID"
    BY <1>5 DEF LD_Block, Order, Flow
  <2>2. CASE StartSettling
    BY <2>1, <2>2 DEF StartSettling, Order, Flow, LdBusy, Settled, StageAfter, InTurn
  <2>3. CASE SettledTo(idstage, "Active_Sampling")
    BY <2>1, <2>3 DEF SettledTo, AllToGo, Order, Flow, LdBusy, StageAfter, InTurn
  <2>4. CASE Computes("Ld", "REST0")
    BY <2>1, <2>4 DEF Computes, Order, Flow, StageAfter, InTurn, Successor
  <2>5. CASE Waits
    BY <2>1, <2>5 DEF Waits, Order, Flow, LdBusy, Settled, StageAfter, InTurn
  <2> QED
    BY <1>5, <2>2, <2>3, <2>4, <2>5 DEF LD_Block
<1>6. CASE REST0_Block
  <2>1. pc = "REST0" /\ pc' = "LQ_ID" /\ mode = "SComm" /\ mode' = mode
    BY <1>6 DEF REST0_Block, Order
  <2>2. CASE StartSettling
    BY <2>1, <2>2 DEF StartSettling, Order, Flow, LdBusy, Settled, StageAfter, InTurn
  <2>3. CASE SettledTo("LQ_ID", "ESettle_Start")
    BY <2>1, <2>3 DEF SettledTo, AllToGo, Order, Flow, LdBusy, StageAfter, InTurn
  <2>4. CASE UNCHANGED <<idstage, idsub, elapsed, samples_counter, last>>
    BY <1>6, <2>1, <2>4
    DEF REST0_Block, StartSettling, SettledTo, Order, Flow, LdBusy, Settled, StageAfter, InTurn
  <2> QED
    BY <1>6, <2>2, <2>3, <2>4 DEF REST0_Block
<1>7. CASE LQ_Block
  <2>1. pc = "LQ_ID" /\ pc' = "return" /\ mode = "SComm" /\ mode' = mode
    BY <1>7 DEF LQ_Block, Order
  <2>2. CASE idstage' = idstage /\ last' = last
    <3>2. idstage = "REST0" => idsub' # "Active_Sampling"
      BY <1>7, <2>1, <2>2
      DEF LQ_Block, StartSettling, Computes, Waits, Order, Flow
    <3> QED
      BY <2>1, <2>2, <3>2 DEF Order, Flow, StageAfter, InTurn
  <2>3. CASE Computes("Lq", "RS_ID")
    <3>1. idstage = "LQ_ID"
      BY <2>1, <2>3 DEF Computes, Order, Flow, LdBusy
    <3> QED
      BY <2>1, <2>3, <3>1 DEF Computes, Order, Flow, StageAfter, InTurn, Successor
  <2> QED
    BY <1>7, <2>2, <2>3 DEF LQ_Block, StartSettling, Waits
<1>8. CASE UNCHANGED vars
  BY <1>8 DEF vars, core, Order, Flow, LdBusy, Settled, StageAfter, InTurn
<1> QED
  BY <1>2, <1>3, <1>4, <1>5, <1>6, <1>7, <1>8 DEF Next, SComm_xmcLoop

\* From every entry between two slow loops, and while nothing comes inside one,
\* the parameters are computed in turn, R, Ld, Lq and R again, on both ports and
\* whatever the entries before it left behind.
THEOREM InSteps == Spec => StepByStep
<1>1. Init => OrderInv
  BY DEF Init, OrderInv, AllToGo, Order
<1>2. OrderInv /\ [Next]_vars => OrderInv' /\ (~torn => InTurn)
  <2> SUFFICES ASSUME OrderInv, [Next]_vars
               PROVE  (entering' => torn') /\ (~torn' => Order') /\ (~torn => InTurn)
    BY AllToGoStep DEF OrderInv
  <2>1. CASE setControlMode
    BY <2>1, OrderMode
  <2>2. CASE ~setControlMode
    <3>1. entering' = entering /\ (torn => torn')
      <4>1. CASE pwmLoop
        BY <4>1 DEF pwmLoop
      <4>2. CASE ~pwmLoop
        <5>1. UNCHANGED <<torn, entering>>
          BY <2>2, <4>2 DEF Next, xmcLoop, SComm_xmcLoop, RS_Block, LD_Block, REST0_Block,
                            LQ_Block, vars
        <5> QED
          BY <5>1
      <4> QED
        BY <4>1, <4>2
    <3>2. CASE torn'
      <4>1. torn \/ last' = last
        BY <2>2, <3>2 DEF Next, pwmLoop, xmcLoop, SComm_xmcLoop, RS_Block, LD_Block,
                          REST0_Block, LQ_Block, vars
      <4> QED
        BY <3>1, <3>2, <4>1 DEF OrderInv, InTurn
    <3>3. CASE ~torn'
      BY <2>2, <3>1, <3>3, OrderStep DEF OrderInv
    <3> QED
      BY <3>2, <3>3
  <2> QED
    BY <2>1, <2>2
<1>3. OrderInv /\ [Next]_vars =>
        [~torn /\ last'.of # last.of => last'.of \in {"none", Successor[last.of]}]_vars
  BY <1>2 DEF InTurn
<1> QED
  BY <1>1, <1>2, <1>3, PTL DEF Spec, StepByStep
=============================================================================
