----------------------------- MODULE Mc3pProofs -----------------------------
(* What the calibration and the fast loop of Mc3p keep, for every number of *)
(* samples, width of the sums, reading and voltage vector.                  *)
EXTENDS Mc3p, TLAPS

Phases == {All(s) : s \in PhaseState} \cup {TrapPhases[s] : s \in TrapSector}
Scanned == [of : Ranks, under : Phases]

\* The inductive invariant, by parts. A scan under way is of the ranks set now,
\* because a write of the ranks restarts it.
ScanInv == conv = << >> \/ conv = ranks
TypeInv == McTypeOK /\ taken \in Seq(Scanned)

\* Where the thread is in the calibration tells the ranks and what is counted.
OwnScan(t) == t = [of |-> GroupRanks[pc.group], under |-> All("L_ON")]
CalibInv ==
    /\ pc.step # "main" => phases = All("L_ON") /\ sector = "FLOAT"
    /\ pc.step = "ranks" => \A r \in 1 .. pc.k - 1 : ranks[r] = GroupRanks[pc.group][r]
    /\ pc.step \in {"clear", "arm", "wait", "store"} => ranks = GroupRanks[pc.group]
    /\ pc.step \notin {"wait", "main"} => remaining = 0
    /\ pc.step = "clear" /\ pc.k > 1 => taken = << >>
    /\ pc.step = "arm" => taken = << >>
    /\ pc.step \in {"wait", "store"} =>
         /\ Len(taken) + remaining = Samples
         /\ \A i \in 1 .. Len(taken) : OwnScan(taken[i])

\* A sum is its total as long as the total fits it.
MeanInv ==
    /\ pc.step = "clear" => \A r \in 1 .. pc.k - 1 : sum[r] = 0 /\ total[r] = 0
    /\ pc.step \in {"arm", "wait", "store"} =>
         \A r \in Rank : total[r] < SumModulus => sum[r] = total[r]

\* In a trapezoidal sector the ranks are the sector's.
TrapInv ==
    sector \in TrapSector =>
        /\ ranks[1] = "VSBUS"
        /\ ranks[2] = TrapRanks[sector][1] /\ ranks[3] = TrapRanks[sector][2]

----------------------------------------------------------------------------
\* The tables.

\* A sector's table entries: its phases are those of the bridge, and its ranks
\* the voltage of its floating phase and the current of its low side.
LEMMA TrapTables ==
    \A s \in TrapSector :
        /\ TrapPhases[s] \in Phases
        /\ TrapRanks[s][1] \in Channel /\ TrapRanks[s][2] \in Channel
        /\ TrapRanks[s][1] = Voltages[Floating(TrapPhases[s]) + 1]
        /\ TrapRanks[s][2] = Currents[LowSide(TrapPhases[s]) + 1]
<1>1. ASSUME NEW p, p \in {TrapPhases[s] : s \in TrapSector}
      PROVE \A i, j \in 1 .. 3 :
               (p[i] = "FLOAT" /\ p[j] = "FLOAT") \/ (p[i] = "L_ON" /\ p[j] = "L_ON") => i = j
  BY <1>1, SMT DEF TrapPhases, TrapSector
<1> QED
  BY <1>1, SMT DEF TrapPhases, TrapRanks, TrapSector, Phases, Channel, Calibrated, Floating, LowSide, Voltages, Currents

\* The two groups of ranks are functions of the ranks to the channels.
LEMMA GroupType ==
    /\ Currents \in Ranks /\ Voltages \in Ranks
    /\ GroupRanks["currents"] = Currents /\ GroupRanks["voltages"] = Voltages
BY SMT DEF Currents, Voltages, Ranks, Rank, Channel, Calibrated, GroupRanks

\* fd_mc3p_write_svm finds a sector of vector modulation for every voltage but
\* the zero vector, for which the code's "should not happen" branch is taken.
THEOREM SectorOfNonzero ==
    \A a, b \in Int : SectorOf(a, b) \in SvmSector <=> ~(a = 0 /\ b = 0)
<1> SUFFICES ASSUME NEW a \in Int, NEW b \in Int
             PROVE SectorOf(a, b) \in SvmSector <=> ~(a = 0 /\ b = 0)
  OBVIOUS
<1>1. \A x \in Int : x \div 32768 >= 0 <=> x >= 0
  BY SMT
<1>2. PhaseV(a, b) >= 0 <=> -16384 * a + 28378 * b >= 0
  BY <1>1, SMT DEF PhaseV
<1>3. PhaseW(a, b) >= 0 <=> -16384 * a - 28378 * b >= 0
  BY <1>1, SMT DEF PhaseW
<1>4. ~(a >= 0 /\ PhaseV(a, b) >= 0 /\ PhaseW(a, b) >= 0) <=> ~(a = 0 /\ b = 0)
  BY <1>2, <1>3, SMT
<1>5. a >= 0 \/ PhaseV(a, b) >= 0 \/ PhaseW(a, b) >= 0
  BY <1>2, <1>3, SMT
<1> QED
  BY <1>4, <1>5, SMT DEF SectorOf, SvmSector

----------------------------------------------------------------------------
\* Types and the scan under way.

LEMMA InitType == Init => TypeInv /\ ScanInv
BY SamplesAssumption, SMT
   DEF Init, At, TypeInv, McTypeOK, ScanInv, Step, Group, Rank, Ranks, Channel, Calibrated,
       Sector, PhaseState, NoOffset, Scanned

\* The thread's place moves on within its type.
LEMMA PlaceType ==
    ASSUME TypeInv, NEW next \in Step, Each(pc.step, next) \/ Goto(next)
    PROVE  pc' \in [step : Step, group : Group, k : Rank]
<1>0. pc.step \in Step
  BY DEF TypeInv, McTypeOK
<1>1. \A g \in Group, k \in Rank : At(pc.step, g, k) \in [step : Step, group : Group, k : Rank]
              /\ At(next, g, k) \in [step : Step, group : Group, k : Rank]
  BY <1>0 DEF At
<1>2. pc.group \in Group /\ pc.k \in Rank /\ 1 \in Rank /\ (pc.k < 4 => pc.k + 1 \in Rank)
  BY DEF TypeInv, McTypeOK, Rank
<1> QED
  BY <1>1, <1>2 DEF Each, Goto

\* The mean of naturals is a natural.
LEMMA MeanType == \A n \in Nat : n \div Samples \in Nat
BY SamplesAssumption, Z3

\* A channel that a group reads has a rank of it.
LEMMA RankOfReads ==
    \A g, c : Reads(g, c) => RankOf(g, c) \in 2 .. 4 /\ GroupRanks[g][RankOf(g, c)] = c
BY DEF Reads, RankOf

LEMMA CalibType ==
    ASSUME TypeInv, ScanInv, NEW v \in Scans, JEOS_IRQ(v), conv # << >>
    PROVE  /\ remaining' \in 0 .. Samples
           /\ sum' \in [Rank -> Nat] /\ total' \in [Rank -> Nat]
           /\ taken' \in Seq(Scanned)
<1>1. v \in [Rank -> Nat]
  BY ScansAssumption DEF Rank
<1>2. \A n \in Nat : n % SumModulus \in Nat
  BY SumModulusAssumption
<1>3. [of |-> conv, under |-> phases] \in Scanned
  BY DEF TypeInv, McTypeOK, ScanInv, Scanned, Phases
<1>4. CASE mode = "CALIB" /\ remaining > 0
  <2>1. taken' \in Seq(Scanned)
    BY <1>3, <1>4 DEF JEOS_IRQ, TypeInv
  <2>2. \A r \in Rank : v[r] \in Nat /\ sum[r] \in Nat /\ total[r] \in Nat
    BY <1>1 DEF TypeInv, McTypeOK
  <2>3. ASSUME NEW r \in Rank
        PROVE  (sum[r] + v[r]) % SumModulus \in Nat /\ total[r] + v[r] \in Nat
    <3>1. sum[r] + v[r] \in Nat /\ total[r] + v[r] \in Nat
      BY <2>2
    <3> QED
      BY <1>2, <3>1
  <2>4. sum' \in [Rank -> Nat] /\ total' \in [Rank -> Nat]
    BY <1>4, <2>3 DEF JEOS_IRQ
  <2> QED
    BY <1>4, <2>1, <2>4, SamplesAssumption DEF JEOS_IRQ, TypeInv, McTypeOK
<1>5. CASE ~(mode = "CALIB" /\ remaining > 0)
  BY <1>5 DEF JEOS_IRQ, TypeInv, McTypeOK
<1> QED
  BY <1>4, <1>5

LEMMA WriteType ==
    ASSUME TypeInv, Write
    PROVE  /\ ranks' \in Ranks /\ rankScale' \in Ranks
           /\ mode' \in {"CALIB", "NONE", "SVM", "TRAP"}
           /\ sector' \in Sector /\ phases' \in Phases
<1> USE DEF TypeInv, McTypeOK
<1>0. \A s \in PhaseState : All(s) \in Phases
  BY DEF Phases
<1>1. CASE \E a, b \in Components : write_svm(a, b)
  <2>1. \A a, b \in Components : SectorOf(a, b) \in Sector
    BY DEF SectorOf, Sector, SvmSector
  <2> QED
    BY <1>0, <1>1, <2>1 DEF write_svm, PhaseState, Phases
<1>2. ASSUME NEW s \in Sector, write_trap(s)
      PROVE  /\ ranks' \in Ranks /\ rankScale' \in Ranks
             /\ mode' \in {"CALIB", "NONE", "SVM", "TRAP"}
             /\ sector' \in Sector /\ phases' \in Phases
  <2>1. "VSBUS" \in Channel
    BY DEF Channel
  <2>2. ModeRanks(s) \in Ranks /\ ModeScale(s) \in Ranks
    BY <2>1, GroupType DEF ModeRanks, ModeScale, Ranks
  <2>3. s \in TrapSector => /\ TrapPhases[s] \in Phases /\ TrapRanks[s][1] \in Channel
                            /\ TrapRanks[s][2] \in Channel
    BY TrapTables
  <2>4. ranks' \in Ranks
    BY <1>2, <2>2, <2>3 DEF write_trap, Ranks
  <2> QED
    BY <1>2, <2>2, <2>3, <2>4 DEF write_trap, Sector, Phases
<1>3. CASE write_float /\ UNCHANGED <<ranks, mode, rankScale>>
  BY <1>0, <1>3 DEF write_float, PhaseState, Sector
<1>4. CASE UNCHANGED <<ranks, mode, bridge, rankScale>>
  BY <1>4 DEF bridge, Phases
<1> QED
  BY <1>1, <1>2, <1>3, <1>4 DEF Write

LEMMA TypeStep == TypeInv /\ ScanInv /\ [Next]_vars => TypeInv' /\ ScanInv'
<1> SUFFICES ASSUME TypeInv, ScanInv, [Next]_vars PROVE TypeInv' /\ ScanInv'
  OBVIOUS
<1> USE DEF TypeInv, McTypeOK, ScanInv
<1>1. CASE SetRank
  <2>1. GroupRanks[pc.group][pc.k] \in Channel
    BY GroupType DEF Group, Ranks, Rank
  <2>2. ranks' \in Ranks
    BY <1>1, <2>1 DEF SetRank, Ranks
  <2> QED
    BY <1>1, <2>2, PlaceType DEF SetRank, Step, bridge
<1>2. CASE ClearSum
  BY <1>2, PlaceType DEF ClearSum, Step, bridge
<1>3. CASE Arm
  BY <1>3, PlaceType, SamplesAssumption DEF Arm, Step, bridge
<1>4. CASE Wait
  BY <1>4, PlaceType DEF Wait, Step, bridge
<1>5. CASE Store
  <2>2. sum' \in [Rank -> Nat]
    BY <1>5, MeanType DEF Store
  <2>3. offset' \in [Calibrated -> [value : Nat, total : Nat]]
    <3>1. ASSUME NEW c \in Calibrated
          PROVE  offset'[c] \in [value : Nat, total : Nat]
      <4>1. \A r \in Rank : Mean(r) \in [value : Nat, total : Nat]
        BY MeanType DEF Mean
      <4>2. Reads(pc.group, c) => RankOf(pc.group, c) \in Rank
        BY RankOfReads DEF Rank
      <4> QED
        BY <1>5, <4>1, <4>2 DEF Store
    <3> QED
      BY <1>5, <3>1 DEF Store
  <2>4. pc' \in [step : Step, group : Group, k : Rank]
    BY <1>5 DEF Store, Step, Group, Rank, At
  <2> QED
    BY <1>5, <2>2, <2>3, <2>4 DEF Store, bridge
<1>6. CASE Finish
  BY <1>6, PlaceType DEF Finish, write_float, Step, Sector, PhaseState
<1>7. CASE StartScan
  BY <1>7 DEF StartScan, calib, bridge
<1>8. CASE EndScanCalib
  BY <1>8, CalibType DEF EndScanCalib, bridge
<1>9. CASE EndScanLoop
  BY <1>9, WriteType DEF EndScanLoop, calib, Phases
<1>10. CASE UNCHANGED vars
  BY <1>10 DEF vars, calib, bridge
<1> QED
  BY <1>1, <1>2, <1>3, <1>4, <1>5, <1>6, <1>7, <1>8, <1>9, <1>10 DEF Next, Thread

----------------------------------------------------------------------------
\* The calibration.

LEMMA InitCalib == Init => CalibInv /\ MeanInv /\ OffsetIsMean /\ OffsetsOwn
BY SamplesAssumption
   DEF Init, At, CalibInv, MeanInv, OffsetIsMean, OffsetsOwn, NoOffset, Rank

\* The ranks are the group's once all four are written.
LEMMA AllRanks ==
    ASSUME NEW f \in Ranks, NEW g \in Group, \A r \in Rank : f[r] = GroupRanks[g][r]
    PROVE  f = GroupRanks[g]
BY GroupType DEF Ranks, Group

LEMMA CalibStep == TypeInv /\ ScanInv /\ CalibInv /\ [Next]_vars => CalibInv'
<1> SUFFICES ASSUME TypeInv, ScanInv, CalibInv, [Next]_vars PROVE CalibInv'
  OBVIOUS
<1> USE DEF CalibInv, OwnScan
<1>0. /\ pc \in [step : Step, group : Group, k : Rank]
      /\ ranks \in Ranks /\ remaining \in 0 .. Samples /\ taken \in Seq(Scanned)
  BY DEF TypeInv, McTypeOK
<1>1. CASE SetRank
  <2>1. ranks' \in Ranks
    BY TypeStep DEF TypeInv, McTypeOK
  <2>2. \A r \in 1 .. pc.k : ranks'[r] = GroupRanks[pc.group][r]
    BY <1>0, <1>1 DEF SetRank, Ranks, Rank
  <2>3. CASE pc.k < 4
    BY <1>0, <1>1, <2>2, <2>3 DEF SetRank, Each, At, bridge, Rank
  <2>4. CASE ~(pc.k < 4)
    <3>0. pc.group \in Group /\ \A r \in Rank : ranks'[r] = GroupRanks[pc.group][r]
      BY <1>0, <2>2, <2>4 DEF Rank
    <3>1. ranks' = GroupRanks[pc.group]
      BY <2>1, <3>0, AllRanks
    <3>2. pc' = At("clear", pc.group, 1)
      BY <1>1, <2>4 DEF SetRank, Each, Goto
    <3>3. pc'.step = "clear" /\ pc'.group = pc.group /\ pc'.k = 1
      BY <3>2 DEF At
    <3>4. phases' = phases /\ sector' = sector /\ remaining' = remaining /\ pc.step = "ranks"
      BY <1>1 DEF SetRank, bridge
    <3>5. remaining' = 0 /\ phases' = All("L_ON") /\ sector' = "FLOAT"
      BY <3>4
    <3> QED
      BY <3>1, <3>3, <3>5
  <2> QED
    BY <2>3, <2>4
<1>2. CASE ClearSum
  BY <1>0, <1>2 DEF ClearSum, Each, Goto, At, bridge, Rank
<1>3. CASE Arm
  BY <1>0, <1>3, SamplesAssumption DEF Arm, Goto, At, bridge
<1>4. CASE Wait
  BY <1>0, <1>4 DEF Wait, Goto, At, bridge
<1>5. CASE Store
  BY <1>0, <1>5 DEF Store, At, bridge, Rank
<1>6. CASE Finish
  BY <1>0, <1>6 DEF Finish, Goto, At
<1>7. CASE StartScan
  BY <1>7 DEF StartScan, calib, bridge
<1>8. CASE EndScanCalib
  <2>1. PICK v \in Scans : JEOS_IRQ(v)
    BY <1>8 DEF EndScanCalib
  <2>2. CASE mode = "CALIB" /\ remaining > 0
    <3>1. pc.step = "wait"
      BY <1>0, <1>8, <2>2, SamplesAssumption DEF EndScanCalib
    <3>2. conv = GroupRanks[pc.group] /\ phases = All("L_ON")
      BY <1>8, <3>1 DEF EndScanCalib, ScanInv
    <3>3. taken' = Append(taken, [of |-> GroupRanks[pc.group], under |-> All("L_ON")])
      BY <2>1, <2>2, <3>2 DEF JEOS_IRQ
    <3>4. /\ Len(taken') = Len(taken) + 1 /\ taken'[Len(taken) + 1] = [of |-> GroupRanks[pc.group], under |-> All("L_ON")]
          /\ \A i \in 1 .. Len(taken) : taken'[i] = taken[i]
      BY <1>0, <3>3
    <3>5. remaining' = remaining - 1 /\ Len(taken) \in Nat
      BY <1>0, <2>1, <2>2 DEF JEOS_IRQ
    <3>6. Len(taken') + remaining' = Samples
      BY <1>0, <3>1, <3>4, <3>5, SamplesAssumption
    <3>7. \A i \in 1 .. Len(taken') : taken'[i] = [of |-> GroupRanks[pc.group], under |-> All("L_ON")]
      BY <3>1, <3>4, <3>5
    <3> QED
      BY <1>8, <3>1, <3>6, <3>7 DEF EndScanCalib, bridge
  <2>3. CASE ~(mode = "CALIB" /\ remaining > 0)
    BY <1>8, <2>1, <2>3 DEF EndScanCalib, JEOS_IRQ, bridge
  <2> QED
    BY <2>2, <2>3
<1>9. CASE EndScanLoop
  BY <1>9 DEF EndScanLoop, calib
<1>10. CASE UNCHANGED vars
  BY <1>10 DEF vars, calib, bridge
<1> QED
  BY <1>1, <1>2, <1>3, <1>4, <1>5, <1>6, <1>7, <1>8, <1>9, <1>10 DEF Next, Thread

LEMMA CalibImpliesOwn == TypeInv /\ CalibInv => OffsetsOwn
BY SamplesAssumption DEF TypeInv, McTypeOK, CalibInv, OwnScan, OffsetsOwn

\* The next sum and total agree as long as the total fits.
LEMMA SumFits ==
    ASSUME NEW s \in Nat, NEW t \in Nat, NEW v \in Nat, t < SumModulus => s = t
    PROVE  t + v < SumModulus => (s + v) % SumModulus = t + v
<1> SUFFICES ASSUME t + v < SumModulus PROVE (s + v) % SumModulus = t + v
  OBVIOUS
<1>1. s = t
  BY SumModulusAssumption
<1>2. \A n \in Nat : n < SumModulus => n % SumModulus = n
  BY SumModulusAssumption
<1> QED
  BY <1>1, <1>2

LEMMA MeanStep ==
    TypeInv /\ CalibInv /\ MeanInv /\ OffsetIsMean /\ [Next]_vars => MeanInv' /\ OffsetIsMean'
<1> SUFFICES ASSUME TypeInv, CalibInv, MeanInv, OffsetIsMean, [Next]_vars
             PROVE  MeanInv' /\ OffsetIsMean'
  OBVIOUS
<1>0. /\ pc \in [step : Step, group : Group, k : Rank]
      /\ sum \in [Rank -> Nat] /\ total \in [Rank -> Nat] /\ remaining \in 0 .. Samples
  BY DEF TypeInv, McTypeOK
<1> USE DEF MeanInv, OffsetIsMean
<1>1. CASE SetRank
  BY <1>0, <1>1 DEF SetRank, Each, Goto, At, Rank
<1>2. CASE ClearSum
  <2>1. \A r \in 1 .. pc.k : sum'[r] = 0 /\ total'[r] = 0
    BY <1>0, <1>2 DEF ClearSum, Rank
  <2> QED
    BY <1>0, <1>2, <2>1 DEF ClearSum, Each, Goto, At, Rank
<1>3. CASE Arm
  BY <1>0, <1>3 DEF Arm, Goto, At
<1>4. CASE Wait
  BY <1>0, <1>4 DEF Wait, Goto, At
<1>5. CASE Store
  <2>1. ASSUME NEW c \in Calibrated, offset'[c].total < SumModulus
        PROVE  offset'[c].value = offset'[c].total \div Samples
    <3>1. CASE Reads(pc.group, c)
      <4>1. RankOf(pc.group, c) \in Rank
        BY <3>1, RankOfReads DEF Rank
      <4>2. offset'[c] = Mean(RankOf(pc.group, c))
        BY <1>5, <3>1 DEF Store
      <4> QED
        BY <1>0, <1>5, <2>1, <4>1, <4>2 DEF Store, Mean
    <3>2. CASE ~Reads(pc.group, c)
      BY <1>5, <2>1, <3>2 DEF Store
    <3> QED
      BY <3>1, <3>2
  <2> QED
    BY <1>0, <1>5, <2>1 DEF Store, At
<1>6. CASE Finish
  BY <1>0, <1>6 DEF Finish, Goto, At
<1>7. CASE StartScan
  BY <1>7 DEF StartScan, calib
<1>8. CASE EndScanCalib
  <2>1. PICK v \in Scans : JEOS_IRQ(v)
    BY <1>8 DEF EndScanCalib
  <2>2. v \in [Rank -> Nat]
    BY ScansAssumption DEF Rank
  <2>3. CASE mode = "CALIB" /\ remaining > 0
    <3>1. pc.step = "wait"
      BY <1>0, <1>8, <2>3, SamplesAssumption DEF EndScanCalib, CalibInv
    <3>2. ASSUME NEW r \in Rank, total'[r] < SumModulus
          PROVE  sum'[r] = total'[r]
      <4>1. total'[r] = total[r] + v[r] /\ sum'[r] = (sum[r] + v[r]) % SumModulus
        BY <2>1, <2>3 DEF JEOS_IRQ
      <4>2. v[r] \in Nat /\ sum[r] \in Nat /\ total[r] \in Nat
        BY <1>0, <2>2
      <4>3. total[r] < SumModulus => sum[r] = total[r]
        BY <3>1
      <4> QED
        BY <3>2, <4>1, <4>2, <4>3, SumFits
    <3> QED
      BY <1>8, <3>1, <3>2 DEF EndScanCalib
  <2>4. CASE ~(mode = "CALIB" /\ remaining > 0)
    BY <1>8, <2>1, <2>4 DEF EndScanCalib, JEOS_IRQ
  <2> QED
    BY <2>3, <2>4
<1>9. CASE EndScanLoop
  BY <1>9 DEF EndScanLoop, calib
<1>10. CASE UNCHANGED vars
  BY <1>10 DEF vars, calib
<1> QED
  BY <1>1, <1>2, <1>3, <1>4, <1>5, <1>6, <1>7, <1>8, <1>9, <1>10 DEF Next, Thread

----------------------------------------------------------------------------
\* The fast loop.

LEMMA InitLoop == Init => TrapInv /\ TrapMeasures /\ BridgeMatchesSector
BY DEF Init, At, TrapInv, TrapMeasures, BridgeMatchesSector, NoMeas, TrapSector

\* What a write leaves of the bridge and the ranks.
LEMMA WriteLoop ==
    ASSUME TypeInv, TrapInv, BridgeMatchesSector, pc.step = "main", Write
    PROVE  /\ TrapInv'
           /\ phases' \in IF sector' \in TrapSector THEN {TrapPhases[sector']}
                         ELSE IF sector' \in SvmSector THEN {All("COMP")}
                         ELSE {All("COMP"), All("FLOAT")}
<1>0. \A s \in TrapSector : s \notin SvmSector /\ s # "FLOAT"
  BY DEF TrapSector, SvmSector
<1>1. ASSUME NEW a \in Components, NEW b \in Components, write_svm(a, b)
      PROVE  /\ sector' \notin TrapSector
             /\ phases' = All("COMP")
  <2>1. SectorOf(a, b) \in SvmSector \cup {"FLOAT"}
    BY DEF SectorOf, SvmSector
  <2> QED
    BY <1>0, <1>1, <2>1 DEF write_svm, BridgeMatchesSector
<1>2. ASSUME NEW s \in Sector, write_trap(s)
      PROVE  /\ TrapInv'
             /\ phases' \in IF sector' \in TrapSector THEN {TrapPhases[sector']}
                           ELSE IF sector' \in SvmSector THEN {All("COMP")}
                           ELSE {All("COMP"), All("FLOAT")}
  <2>1. CASE s \in TrapSector /\ s # sector
    <3>1. sector' = s /\ phases' = TrapPhases[s]
      BY <1>2, <2>1 DEF write_trap
    <3>2. DOMAIN ranks = Rank
      BY DEF TypeInv, McTypeOK, Ranks
    <3>3. ranks'[2] = TrapRanks[s][1] /\ ranks'[3] = TrapRanks[s][2]
      BY <1>2, <2>1, <3>2, <1>0 DEF write_trap, ModeRanks, Rank
    <3>4. ranks'[1] = "VSBUS"
      BY <1>2, <2>1, <3>2, <1>0 DEF write_trap, ModeRanks, Rank, TrapInv
    <3> QED
      BY <2>1, <3>1, <3>3, <3>4 DEF TrapInv
  <2>2. CASE ~(s \in TrapSector /\ s # sector)
    <3>1. sector' = sector /\ phases' = phases
      BY <1>2, <2>2 DEF write_trap
    <3>2. sector \in TrapSector => ranks' = ranks
      BY <1>2, <2>2 DEF write_trap
    <3> QED
      BY <3>1, <3>2 DEF TrapInv, BridgeMatchesSector
  <2> QED
    BY <2>1, <2>2
<1>3. CASE write_float /\ UNCHANGED <<ranks, mode, rankScale>>
  BY <1>0, <1>3 DEF write_float, TrapInv, SvmSector
<1>4. CASE UNCHANGED <<ranks, mode, bridge, rankScale>>
  BY <1>4 DEF bridge, TrapInv, BridgeMatchesSector
<1> QED
  BY <1>0, <1>1, <1>2, <1>3, <1>4 DEF Write, TrapInv

\* A read in a trapezoidal sector.
LEMMA ReadLoop ==
    ASSUME TypeInv, ScanInv, TrapInv, BridgeMatchesSector, pc.step = "main",
           conv # << >>, read_sync
    PROVE  TrapMeasures'
<1> SUFFICES ASSUME sector \in TrapSector
             PROVE  meas'.of = <<"VSBUS", Voltages[Floating(meas'.under) + 1],
                                 Currents[LowSide(meas'.under) + 1]>>
  BY DEF TrapMeasures, read_sync, Floating, LowSide
<1>1. conv = ranks /\ phases = TrapPhases[sector]
  BY DEF ScanInv, BridgeMatchesSector
<1>2. sector \notin SvmSector
  BY DEF TrapSector, SvmSector
<1>3. meas'.under = phases /\ meas'.of = [f \in 1 .. 3 |-> ranks[f]]
  BY <1>1, <1>2 DEF read_sync
<1>4. ranks[1] = "VSBUS" /\ ranks[2] = Voltages[Floating(phases) + 1]
      /\ ranks[3] = Currents[LowSide(phases) + 1]
  BY <1>1, TrapTables DEF TrapInv
<1> QED
  BY <1>3, <1>4

LEMMA LoopStep ==
    TypeInv /\ ScanInv /\ CalibInv /\ TrapInv /\ TrapMeasures /\ BridgeMatchesSector /\ [Next]_vars
        => TrapInv' /\ TrapMeasures' /\ BridgeMatchesSector'
<1> SUFFICES ASSUME TypeInv, ScanInv, CalibInv, TrapInv, TrapMeasures, BridgeMatchesSector,
                    [Next]_vars
             PROVE  TrapInv' /\ TrapMeasures' /\ BridgeMatchesSector'
  OBVIOUS
<1>0. pc \in [step : Step, group : Group, k : Rank]
  BY DEF TypeInv, McTypeOK
<1>1. "FLOAT" \notin TrapSector /\ "FLOAT" \notin SvmSector
  BY DEF TrapSector, SvmSector
<1>2. ASSUME Thread PROVE TrapInv' /\ TrapMeasures' /\ BridgeMatchesSector'
  <2>1. sector = "FLOAT" /\ pc.step # "main"
    BY <1>2 DEF CalibInv, Thread, SetRank, ClearSum, Arm, Wait, Store, Finish
  <2>2. sector' = "FLOAT" /\ meas' = meas
    BY <1>2, <2>1 DEF Thread, SetRank, ClearSum, Arm, Wait, Store, Finish, write_float, bridge
  <2>3. pc'.step = "main" => phases' = All("FLOAT")
    BY <1>0, <1>2, <2>1
       DEF Thread, SetRank, ClearSum, Arm, Wait, Store, Finish, write_float, Each, Goto, At
  <2> QED
    BY <1>1, <2>2, <2>3 DEF TrapInv, TrapMeasures, BridgeMatchesSector
<1>3. ASSUME UNCHANGED <<pc, ranks, bridge, meas>>
      PROVE  TrapInv' /\ TrapMeasures' /\ BridgeMatchesSector'
  BY <1>3 DEF TrapInv, TrapMeasures, BridgeMatchesSector, bridge
<1>4. CASE EndScanLoop
  BY <1>4, ReadLoop, WriteLoop DEF EndScanLoop, calib, BridgeMatchesSector
<1>5. CASE StartScan \/ UNCHANGED vars
  BY <1>3, <1>5 DEF StartScan, vars, calib
<1>6. CASE EndScanCalib
  <2>1. sector = "FLOAT" /\ UNCHANGED <<pc, ranks, bridge>>
    BY <1>6 DEF EndScanCalib, CalibInv
  <2>2. meas'.as = "FLOAT"
    BY <1>6, <2>1 DEF EndScanCalib, read_sync
  <2> QED
    BY <1>1, <2>1, <2>2 DEF TrapInv, TrapMeasures, BridgeMatchesSector, bridge
<1> QED
  BY <1>2, <1>4, <1>5, <1>6 DEF Next

----------------------------------------------------------------------------
\* The theorems.

IInv == TypeInv /\ ScanInv /\ CalibInv /\ MeanInv /\ OffsetIsMean /\ TrapInv /\ TrapMeasures
        /\ BridgeMatchesSector

\* The invariant that all of them rest on.
LEMMA Inductive == Spec => []IInv
<1>1. Init => IInv
  BY InitType, InitCalib, InitLoop DEF IInv
<1>2. IInv /\ [Next]_vars => IInv'
  BY TypeStep, CalibStep, MeanStep, LoopStep DEF IInv
<1> QED
  BY <1>1, <1>2, PTL DEF Spec

\* The thread, the converter, the sums and the handle keep their types.
THEOREM McTypeInv == Spec => []McTypeOK
<1>1. IInv => McTypeOK
  BY DEF IInv, TypeInv
<1> QED
  BY <1>1, Inductive, PTL

\* The sums that mc3p_offset_calibration turns into offsets are of exactly
\* Samples scans of the group's own channels, with all low sides on.
THEOREM OffsetsAreOwn == Spec => []OffsetsOwn
<1>1. IInv => OffsetsOwn
  BY CalibImpliesOwn DEF IInv
<1> QED
  BY <1>1, Inductive, PTL

\* An offset is the mean of its readings as long as their total fits the sum.
THEOREM OffsetsAreMeans == Spec => []OffsetIsMean
<1>1. IInv => OffsetIsMean
  BY DEF IInv
<1> QED
  BY <1>1, Inductive, PTL

\* What the fast loop reads in a trapezoidal sector is the floating phase's
\* voltage and the low side's current.
THEOREM TrapReadings == Spec => []TrapMeasures
<1>1. IInv => TrapMeasures
  BY DEF IInv
<1> QED
  BY <1>1, Inductive, PTL

\* The half bridges do what sector_last says.
THEOREM SectorIsBridge == Spec => []BridgeMatchesSector
<1>1. IInv => BridgeMatchesSector
  BY DEF IInv
<1> QED
  BY <1>1, Inductive, PTL
=============================================================================
