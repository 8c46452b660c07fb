-------------------------------- MODULE Mc3p --------------------------------
(***************************************************************************)
(* The three-phase bridge driver of the STM32: the calibration of the      *)
(* offsets in fd_mc3p_init, which the thread runs while the interrupt at   *)
(* the end of every injected scan adds the readings, and, after it, the    *)
(* fast loop's read_sync and writes in that interrupt.                     *)
(*                                                                         *)
(* The interrupt has priority 0 and is taken as soon as a scan ends. A     *)
(* write of the rank register during a scan restarts it on the new ranks.  *)
(***************************************************************************)
EXTENDS Integers, Sequences

CONSTANTS
    Samples,    \* FD_MC3P_OFFSET_CALIBRATION_SAMPLES, 128
    SumModulus, \* 2^16: the width of offset_calibration_sum
    Scans,      \* the readings of a scan's four ranks that are tried
    Components  \* the components of the voltage vector that are tried, in Q15

ASSUME SamplesAssumption == Samples \in Nat \ {0}
ASSUME SumModulusAssumption == SumModulus \in Nat \ {0}
ASSUME ScansAssumption == Scans \subseteq [1 .. 4 -> Nat]
ASSUME ComponentsAssumption == Components \subseteq Int

VARIABLES
    pc,        \* the thread in mc3p_offset_calibration: step, group of ranks, index
    ranks,     \* the channel of each injected rank
    conv,      \* the ranks of the scan under way, or << >>
    mode, remaining, sum,
    sector,    \* sector_last
    phases,    \* the states last written to the three half bridges
    rankScale, \* sync_rank_scale: the channel whose scale a rank's reading gets
    offset,    \* the offsets in sync_scale_q31 by channel, with the readings' total
    meas,      \* what the last read_sync took, and under which phase states
    taken,     \* history: the ranks and phases of the scans in the present sums
    total      \* history: the readings in the present sums, added without wrap

calib == <<pc, remaining, sum, offset, taken, total>>
bridge == <<sector, phases>>
vars == <<calib, ranks, conv, mode, bridge, rankScale, meas>>

Rank == 1 .. 4
Voltages == <<"VSBUS", "VSU", "VSV", "VSW">>
Currents == <<"VSBUS", "CSU", "CSV", "CSW">>
GroupRanks == [currents |-> Currents, voltages |-> Voltages]
Calibrated == {"VSU", "VSV", "VSW", "CSU", "CSV", "CSW"}
Channel == Calibrated \cup {"VSBUS", "reset"}

TrapSector == {"TRAP1", "TRAP2", "TRAP3", "TRAP4", "TRAP5", "TRAP6"}
SvmSector == {"SVM1", "SVM2", "SVM3", "SVM4", "SVM5", "SVM6"}
Sector == {"FLOAT"} \cup TrapSector \cup SvmSector
PhaseState == {"FLOAT", "COMP", "L_ON"}
All(s) == <<s, s, s>>

\* trap_table and adc_trap_table: the phase states of a sector, and the
\* channels of ranks 2 and 3 in it.
TrapPhases == [
    TRAP1 |-> <<"COMP", "L_ON", "FLOAT">>, TRAP2 |-> <<"COMP", "FLOAT", "L_ON">>,
    TRAP3 |-> <<"FLOAT", "COMP", "L_ON">>, TRAP4 |-> <<"L_ON", "COMP", "FLOAT">>,
    TRAP5 |-> <<"L_ON", "FLOAT", "COMP">>, TRAP6 |-> <<"FLOAT", "L_ON", "COMP">>]
TrapRanks == [
    TRAP1 |-> <<"VSW", "CSV">>, TRAP2 |-> <<"VSV", "CSW">>,
    TRAP3 |-> <<"VSU", "CSW">>, TRAP4 |-> <<"VSW", "CSU">>,
    TRAP5 |-> <<"VSV", "CSU">>, TRAP6 |-> <<"VSU", "CSV">>]

At(step, group, k) == [step |-> step, group |-> group, k |-> k]
NoOffset == [value |-> 0, total |-> 0]
NoMeas == [as |-> "FLOAT", of |-> << >>, scale |-> << >>, under |-> All("FLOAT")]

\* fd_mc3p_init up to the calibration, with the write of the low phases.
Init ==
    /\ pc = At("ranks", "currents", 1)
    /\ ranks = [r \in Rank |-> "reset"] /\ conv = << >>
    /\ mode = "CALIB" /\ remaining = 0 /\ sum = [r \in Rank |-> 0]
    /\ sector = "FLOAT" /\ phases = All("L_ON")
    /\ rankScale = [r \in Rank |-> "VSBUS"]
    /\ offset = [c \in Calibrated |-> NoOffset]
    /\ meas = NoMeas
    /\ taken = << >> /\ total = [r \in Rank |-> 0]

----------------------------------------------------------------------------
\* The thread: mc3p_offset_calibration.

Goto(step) == pc' = At(step, pc.group, 1)
Each(step, next) ==
    IF pc.k < 4 THEN pc' = At(step, pc.group, pc.k + 1) ELSE Goto(next)

\* A write of JSQR: LL_ADC_INJ_SetSequencerRanks.
SetRank ==
    /\ pc.step = "ranks"
    /\ ranks' = [ranks EXCEPT ![pc.k] = GroupRanks[pc.group][pc.k]]
    /\ conv' = IF conv = << >> THEN << >> ELSE ranks'
    /\ Each("ranks", "clear")
    /\ UNCHANGED <<mode, remaining, sum, offset, taken, total, bridge, rankScale, meas>>

\* mutant: a loop that clears one sum too few.
MutClearSum ==
    /\ pc.step = "clear"
    /\ sum' = IF pc.k < 4 THEN [sum EXCEPT ![pc.k] = 0] ELSE sum
    /\ total' = [total EXCEPT ![pc.k] = 0] /\ taken' = << >>
    /\ Each("clear", "arm")
    /\ UNCHANGED <<ranks, conv, mode, remaining, offset, bridge, rankScale, meas>>

ClearSum ==
    /\ pc.step = "clear"
    /\ sum' = [sum EXCEPT ![pc.k] = 0]
    /\ total' = [total EXCEPT ![pc.k] = 0] /\ taken' = << >>
    /\ Each("clear", "arm")
    /\ UNCHANGED <<ranks, conv, mode, remaining, offset, bridge, rankScale, meas>>

Arm ==
    /\ pc.step = "arm"
    /\ remaining' = Samples
    /\ Goto("wait")
    /\ UNCHANGED <<ranks, conv, mode, sum, offset, taken, total, bridge, rankScale, meas>>

\* mutant: a wait that ends with one sample to come.
MutWait ==
    /\ pc.step = "wait" /\ remaining <= 1
    /\ Goto("store")
    /\ UNCHANGED <<ranks, conv, mode, remaining, sum, offset, taken, total, bridge,
                   rankScale, meas>>

Wait ==
    /\ pc.step = "wait" /\ remaining = 0
    /\ Goto("store")
    /\ UNCHANGED <<ranks, conv, mode, remaining, sum, offset, taken, total, bridge,
                   rankScale, meas>>

\* The sums become means; those of ranks 2 to 4 become offsets.
Reads(g, c) == \E r \in 2 .. 4 : GroupRanks[g][r] = c
RankOf(g, c) == CHOOSE r \in 2 .. 4 : GroupRanks[g][r] = c
Mean(r) == [value |-> sum[r] \div Samples, total |-> total[r]]

Store ==
    /\ pc.step = "store"
    /\ sum' = [r \in Rank |-> sum[r] \div Samples]
    /\ offset' = [c \in Calibrated |-> IF Reads(pc.group, c) THEN Mean(RankOf(pc.group, c))
                                       ELSE offset[c]]
    /\ pc' = IF pc.group = "currents" THEN At("ranks", "voltages", 1)
             ELSE At("float", pc.group, 1)
    /\ UNCHANGED <<ranks, conv, mode, remaining, taken, total, bridge, rankScale, meas>>

\* fd_mc3p_write_float.
write_float == phases' = All("FLOAT") /\ sector' = "FLOAT"

Finish ==
    /\ pc.step = "float"
    /\ mode' = "NONE" /\ write_float
    /\ Goto("main")
    /\ UNCHANGED <<ranks, conv, remaining, sum, offset, taken, total, rankScale, meas>>

Thread == SetRank \/ ClearSum \/ Arm \/ Wait \/ Store \/ Finish

----------------------------------------------------------------------------
\* The converter (external), the interrupt and, in it, the fast loop.

\* The timer's trigger: the scan's ranks are those set now.
StartScan ==
    /\ conv = << >> /\ conv' = ranks
    /\ UNCHANGED <<calib, ranks, mode, bridge, rankScale, meas>>

\* mutant: the sums are closed with one sample to come.
MutEarlyIRQ(v) ==
    IF mode = "CALIB" /\ remaining > 1
    THEN /\ remaining' = remaining - 1
         /\ sum' = [r \in Rank |-> (sum[r] + v[r]) % SumModulus]
         /\ total' = [r \in Rank |-> total[r] + v[r]]
         /\ taken' = Append(taken, [of |-> conv, under |-> phases])
    ELSE UNCHANGED <<remaining, sum, total, taken>>

\* mutant: every scan of the calibration is counted.
MutAnyIRQ(v) ==
    IF mode = "CALIB"
    THEN /\ remaining' = remaining - 1
         /\ sum' = [r \in Rank |-> (sum[r] + v[r]) % SumModulus]
         /\ total' = [r \in Rank |-> total[r] + v[r]]
         /\ taken' = Append(taken, [of |-> conv, under |-> phases])
    ELSE UNCHANGED <<remaining, sum, total, taken>>

\* INTERNAL_mc3p_ADC_JEOS_IRQ on a scan with readings v.
JEOS_IRQ(v) ==
    IF mode = "CALIB" /\ remaining > 0
    THEN /\ remaining' = remaining - 1
         /\ sum' = [r \in Rank |-> (sum[r] + v[r]) % SumModulus]
         /\ total' = [r \in Rank |-> total[r] + v[r]]
         /\ taken' = Append(taken, [of |-> conv, under |-> phases])
    ELSE UNCHANGED <<remaining, sum, total, taken>>

\* fd_mc3p_read_sync: the channels whose readings go to the caller's fields,
\* in their order, and the channels whose scales they get.
read_sync ==
    LET from == IF sector \in SvmSector THEN <<1, 1, 2, 3>>
                ELSE IF sector \in TrapSector THEN <<1, 2, 3>> ELSE <<1>>
        by == IF sector \in SvmSector THEN <<1, 2, 3, 4>>
              ELSE IF sector \in TrapSector THEN <<1, 2, 3>> ELSE <<1>>
    IN meas' = [as |-> sector, under |-> phases,
                of |-> [f \in DOMAIN from |-> conv[from[f]]],
                scale |-> [f \in DOMAIN by |-> rankScale[by[f]]]]

\* The sector of a voltage vector, from the signs of its three phases; the
\* zero vector, whose phases are all nonnegative, has none.
PhaseV(a, b) == (-16384 * a + 28378 * b) \div 32768
PhaseW(a, b) == (-16384 * a - 28378 * b) \div 32768
SectorOf(a, b) ==
    LET u == a >= 0  v == PhaseV(a, b) >= 0  w == PhaseW(a, b) >= 0
    IN CASE u /\ ~v /\ ~w -> "SVM1" [] u /\ v /\ ~w -> "SVM2"
         [] ~u /\ v /\ ~w -> "SVM3" [] ~u /\ v /\ w -> "SVM4"
         [] ~u /\ ~v /\ w -> "SVM5" [] u /\ ~v /\ w -> "SVM6"
         [] OTHER -> "FLOAT"

\* mutant: the bridge follows the mode, which write_float leaves alone.
Mutwrite_svm(a, b) ==
    /\ phases' = IF mode = "SVM" THEN phases ELSE All("COMP")
    /\ mode' = "SVM"
    /\ sector' = SectorOf(a, b)
    /\ UNCHANGED <<ranks, rankScale>>

\* fd_mc3p_write_svm; the ranks are left alone.
write_svm(a, b) ==
    /\ phases' = IF sector \in SvmSector THEN phases ELSE All("COMP")
    /\ mode' = IF sector \in SvmSector THEN mode ELSE "SVM"
    /\ sector' = SectorOf(a, b)
    /\ UNCHANGED <<ranks, rankScale>>

\* mc3p_adc_mode: the ranks and their scales on a change of mode.
ModeRanks(s) ==
    IF s \in SvmSector THEN Currents
    ELSE IF s \in TrapSector THEN [ranks EXCEPT ![1] = "VSBUS"] ELSE ranks
ModeScale(s) ==
    IF s \in SvmSector THEN Currents
    ELSE IF s \in TrapSector THEN [rankScale EXCEPT ![1] = "VSBUS"] ELSE rankScale

\* mutant: the ranks follow only a change of mode, not of sector.
Mutwrite_trap(s) ==
    LET enter == sector \notin TrapSector
        asked == IF enter THEN ModeRanks(s) ELSE ranks
        new == s \in TrapSector /\ s # sector
    IN /\ mode' = IF enter THEN "TRAP" ELSE mode
       /\ rankScale' = IF enter THEN ModeScale(s) ELSE rankScale
       /\ ranks' = IF new /\ enter
                   THEN [asked EXCEPT ![2] = TrapRanks[s][1], ![3] = TrapRanks[s][2]]
                   ELSE asked
       /\ phases' = IF new THEN TrapPhases[s] ELSE phases
       /\ sector' = IF new THEN s ELSE sector

\* fd_mc3p_write_trap: an argument that is no trapezoidal sector has set the
\* mode, and for an SVM sector the ranks, before it is refused.
write_trap(s) ==
    LET enter == sector \notin TrapSector
        asked == IF enter THEN ModeRanks(s) ELSE ranks
        new == s \in TrapSector /\ s # sector
    IN /\ mode' = IF enter THEN "TRAP" ELSE mode
       /\ rankScale' = IF enter THEN ModeScale(s) ELSE rankScale
       /\ ranks' = IF new THEN [asked EXCEPT ![2] = TrapRanks[s][1], ![3] = TrapRanks[s][2]]
                   ELSE asked
       /\ phases' = IF new THEN TrapPhases[s] ELSE phases
       /\ sector' = IF new THEN s ELSE sector

Write ==
    \/ \E a, b \in Components : write_svm(a, b)
    \/ \E s \in Sector : write_trap(s)
    \/ write_float /\ UNCHANGED <<ranks, mode, rankScale>>
    \/ UNCHANGED <<ranks, mode, bridge, rankScale>>

\* ADC_IRQHandler while fd_mc3p_init runs: the control mode is Idle already
\* (Sys::init sets it first), so that the fast loop reads and writes nothing.
EndScanCalib ==
    /\ conv # << >> /\ conv' = << >> /\ pc.step # "main"
    /\ \E v \in Scans : JEOS_IRQ(v)
    /\ read_sync
    /\ UNCHANGED <<pc, offset, ranks, mode, bridge, rankScale>>

\* ADC_IRQHandler afterwards: the fast loop reads, then writes.
EndScanLoop ==
    /\ conv # << >> /\ conv' = << >> /\ pc.step = "main"
    /\ read_sync /\ Write
    /\ UNCHANGED calib

Next == Thread \/ StartScan \/ EndScanCalib \/ EndScanLoop

\* The thread goes on and the timer triggers scans, which end.
Fairness == WF_vars(Thread) /\ WF_vars(StartScan) /\ WF_vars(EndScanCalib)
Spec == Init /\ [][Next]_vars /\ Fairness

----------------------------------------------------------------------------
\* Properties.

Step == {"ranks", "clear", "arm", "wait", "store", "float", "main"}
Ranks == [Rank -> Channel]
Group == {"currents", "voltages"}

\* Every variable keeps its type: the thread's place in the calibration, the
\* converter's ranks, the sums, which fit 16 bits, and the driver's handle.
McTypeOK ==
    /\ pc \in [step : Step, group : Group, k : Rank]
    /\ ranks \in Ranks /\ (conv = << >> \/ conv \in Ranks)
    /\ mode \in {"CALIB", "NONE", "SVM", "TRAP"}
    /\ remaining \in 0 .. Samples /\ sum \in [Rank -> Nat] /\ total \in [Rank -> Nat]
    /\ sector \in Sector /\ phases \in {All(s) : s \in PhaseState} \cup {TrapPhases[s] : s \in TrapSector}
    /\ rankScale \in Ranks
    /\ offset \in [Calibrated -> [value : Nat, total : Nat]]

\* The sums that become offsets (mc3p_offset_calibration) hold exactly the
\* asked number of scans, every one of them of the group's own four channels
\* and taken with all low sides on: a scan that was under way while the ranks
\* were changed, or one from before, is never among them.
OffsetsOwn ==
    pc.step = "store" =>
        /\ Len(taken) = Samples
        /\ \A i \in 1 .. Len(taken) :
             taken[i] = [of |-> GroupRanks[pc.group], under |-> All("L_ON")]

\* An offset is the mean of the readings it was summed from, unless they
\* exceeded what the 16-bit sum can hold.
OffsetIsMean ==
    \A c \in Calibrated :
        offset[c].total < SumModulus => offset[c].value = offset[c].total \div Samples

Floating(p) == CHOOSE i \in 1 .. 3 : p[i] = "FLOAT"
LowSide(p) == CHOOSE i \in 1 .. 3 : p[i] = "L_ON"

\* In a trapezoidal sector the fast loop's back-EMF is the reading of the
\* floating phase's voltage and its current that of the phase whose low side
\* is on (fd_mc3p_read_sync), under the phases that are really driven: a scan
\* never mixes the channels of two sectors.
TrapMeasures ==
    meas.as \in TrapSector =>
        meas.of = <<"VSBUS", Voltages[Floating(meas.under) + 1],
                    Currents[LowSide(meas.under) + 1]>>

\* After the calibration, what the driver believes of the bridge (sector_last)
\* is what the half bridges do, but for FLOAT, which it also believes of a
\* switching bridge whose voltage is zero; never of one with a low side on.
BridgeMatchesSector ==
    pc.step = "main" =>
        phases \in IF sector \in TrapSector THEN {TrapPhases[sector]}
                  ELSE IF sector \in SvmSector THEN {All("COMP")}
                  ELSE {All("COMP"), All("FLOAT")}

\* The calibration ends: the thread's two waits for the interrupt
\* (mc3p_offset_calibration) are answered.
CalibrationEnds == <>(pc.step = "main")
=============================================================================
