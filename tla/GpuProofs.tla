----------------------------- MODULE GpuProofs ------------------------------
(* The properties of GpuApply for all settings, offsets, calls and failures.   *)
(* First what the user is shown of the clock offsets of an Nvidia GPU: drivers *)
(* that report offsets and those that do not need one invariant, the record of *)
(* the controller is right or, where the driver reports the offset, empty.     *)
(* Then what a call has achieved, for each of the three controllers: one       *)
(* conjunct for each write, that holds from its place in the call to the end.  *)
EXTENDS GpuApply, TLAPS

RecordFits(o) == recorded[o] = offset[o] \/ (reports /\ recorded[o] = 0)
RecordsFit == ~forgot => \A o \in Offsets : RecordFits(o)

(* An offset of zero that the driver reports has no record either, so that    *)
(* what is shown is what the hardware has.                                    *)
LEMMA FittingRecordsAreShown == RecordsFit => OffsetsAreShown
  BY DEF RecordsFit, RecordFits, OffsetsAreShown, Shown, Reported

LEMMA InitRecords == Init => RecordsFit
  BY DEF Init, NvidiaInit, NoOffsets, RecordsFit, RecordFits

(* Offsets that are reset, with any of the performance states unread: what     *)
(* needed no reset was zero, and a record that goes without its offset is      *)
(* counted as forgotten.                                                       *)
LEMMA ResetFits ==
  ASSUME RecordsFit, NEW seen \in SUBSET Offsets, NEW unread \in SUBSET Offsets,
         ResetOffsets(seen, unread), reports' = reports
  PROVE  RecordsFit'
<1> SUFFICES ASSUME ~forgot', NEW o \in Offsets
             PROVE  recorded'[o] = offset'[o] \/ (reports' /\ recorded'[o] = 0)
  BY DEF RecordsFit, RecordFits
<1>1. RecordFits(o)
  BY DEF ResetOffsets, RecordsFit
<1>2. CASE o \notin seen
  BY <1>1, <1>2 DEF ResetOffsets, RecordFits
<1>3. CASE o \in seen \ unread
  BY <1>1, <1>3 DEF ResetOffsets, RecordFits, NeedsReset, Reported
<1>4. CASE o \in seen \cap unread
  <2>1. recorded'[o] = 0 /\ offset'[o] = offset[o]
    BY <1>4 DEF ResetOffsets
  <2>2. reports \/ offset[o] = 0
    BY <1>4 DEF ResetOffsets
  <2> QED
    BY <2>1, <2>2
<1> QED
  BY <1>2, <1>3, <1>4

LEMMA CleaningFits ==
  ASSUME RecordsFit, NEW now, NEW next, CleanClocks(now, next)
  PROVE  RecordsFit'
<1>1. reports' = reports
  BY DEF CleanClocks
<1>2. PICK seen \in SUBSET Offsets, unread \in SUBSET Offsets : ResetOffsets(seen, unread)
  BY DEF CleanClocks
<1> QED
  BY <1>1, <1>2, ResetFits

(* An offset is recorded with the value the driver has taken.                  *)
LEMMA TakingFits ==
  ASSUME RecordsFit, NEW done \in SUBSET Offsets, TakeOffsets(done)
  PROVE  RecordsFit'
  BY DEF TakeOffsets, RecordsFit, RecordFits

LEMMA SettingFits ==
  ASSUME RecordsFit, SetOffsets
  PROVE  RecordsFit'
<1>1. PICK done \in SUBSET Offsets : TakeOffsets(done)
  BY DEF SetOffsets, Wishes
<1> QED
  BY <1>1, TakingFits

LEMMA RecreatingFits ==
  ASSUME RecordsFit, NvidiaRecreate
  PROVE  RecordsFit'
  BY DEF NvidiaRecreate, RecordsFit, RecordFits

LEMMA KeepingFits ==
  ASSUME RecordsFit, UNCHANGED clocks
  PROVE  RecordsFit'
  BY DEF clocks, RecordsFit, RecordFits

LEMMA NvidiaStepFits == RecordsFit /\ NvidiaNext => RecordsFit'
<1> SUFFICES ASSUME RecordsFit, NvidiaNext
             PROVE  RecordsFit'
  OBVIOUS
<1>1. CASE CleanClocks("cleanup", "start") \/ CleanClocks("clean", "offsets")
  BY <1>1, CleaningFits
<1>2. CASE SetOffsets
  BY <1>2, SettingFits
<1>3. CASE NvidiaRecreate
  BY <1>3, RecreatingFits
<1>4. CASE NvidiaBegin \/ SetNvidiaCap \/ ResetNvidiaCap \/ SetFans \/ NvidiaReturn
  BY <1>4, KeepingFits DEF NvidiaBegin, SetNvidiaCap, ResetNvidiaCap, SetFans, NvidiaReturn
<1> QED
  BY <1>1, <1>2, <1>3, <1>4 DEF NvidiaNext

LEMMA StepFits == RecordsFit /\ [Next]_gpu => RecordsFit'
<1> SUFFICES ASSUME RecordsFit, [Next]_gpu
             PROVE  RecordsFit'
  OBVIOUS
<1>1. CASE NvidiaNext
  BY <1>1, NvidiaStepFits
<1>2. CASE UNCHANGED clocks
  BY <1>2, KeepingFits
<1> QED
  BY <1>1, <1>2 DEF Next, gpu, nvidiaVars

(* OffsetsAreShown for every number of offsets, all settings, drivers that     *)
(* report offsets and drivers that do not, and any calls and failures of       *)
(* NvidiaGpuController.                                                        *)
THEOREM ShownOffsetsAreRight == Spec => []OffsetsAreShown
<1>1. Spec => []RecordsFit
  BY InitRecords, StepFits, PTL DEF Spec
<1> QED
  BY <1>1, FittingRecordsAreShown, PTL
-----------------------------------------------------------------------------
(* What a call has achieved at each of its places, as long as nothing has      *)
(* failed: places are named by the step that comes next. A call that has       *)
(* returned Ok has achieved everything.                                        *)
Reached(places) == clean /\ (step \in places \/ (step = "idle" /\ outcome = "ok"))

AfterStates == {"done"}
AfterCommit == AfterStates \cup {"states"}
AfterZero == AfterCommit \cup {"commit"}
AfterFan == AfterZero \cup {"zero"}
AfterOptions == AfterFan \cup {"stop"}
AfterMode == AfterOptions \cup {"fan"}
AfterLevel == AfterMode \cup {"mode"}
AfterClocks == AfterLevel \cup {"level"}
AfterReset == AfterClocks \cup {"clocks"}
AfterRestore == AfterReset \cup {"reset"}
AfterCap == AfterRestore \cup {"restore"}

(* What the code writes to the GPU, and what only reaches it at the commit.    *)
OptionNames == {"acoustic_limit", "acoustic_target", "target_temperature", "minimum_pwm"}
Fits(s) == hw[s] = Wanted(s)
IsSet(s) == Wants(s) => hw[s] = cfg[s]
IsPrepared(s) == Wants(s) => s \in staged \/ hw[s] = cfg[s]
StagedIsWanted ==
  \A s \in staged : Wants(s) /\ s \in OptionNames \cup {"zero_rpm", "clocks"}

AmdWrites ==
  /\ Reached(AfterCap) => Fits("power_cap")
  /\ clean /\ step \in {"clocks", "level"} => hw.level = BaseLevel
  /\ Reached(AfterLevel) => Fits("level")
  /\ Reached(AfterMode) => IsSet("profile_mode")
  /\ Reached(AfterFan) => Fits("fan")
  /\ Reached(AfterStates) => IsSet("power_states")
AmdStages ==
  /\ Reached(AfterReset) /\ ~Wants("clocks") => hw.clocks = "default"
  /\ Reached(AfterClocks) => IsPrepared("clocks")
  /\ Reached(AfterOptions) /\ ~Wants("fan") => \A s \in OptionNames : IsPrepared(s)
  /\ Reached(AfterZero) => IsPrepared("zero_rpm")
  /\ Reached(AfterCommit) => staged = {}
AmdClears ==
  /\ job = "cleanup" => cfg = NoSettings
  /\ job = "cleanup" /\ clean /\ step # "cleanup" => \A s \in OptionNames : hw[s] = "default"
AmdPlaces ==
  /\ step \in {"down", "cap"} => Wants("power_cap")
  /\ step = "stop" => ~Wants("fan")
AmdInv ==
  DOMAIN hw = Settings /\ AmdPlaces /\ StagedIsWanted /\ AmdWrites /\ AmdStages /\ AmdClears

IntelInv ==
  /\ DOMAIN hw = IntelSettings
  /\ Reached({"min", "cap", "done"}) => IsSet("max_clock")
  /\ Reached({"cap", "done"}) => IsSet("min_clock")
  /\ Reached({"done"}) => IsSet("power_cap")
  /\ job = "cleanup" => cfg = NoSettings
  /\ job = "cleanup" /\ clean /\ step # "cleanup" => IntelCleaned

(* An offset that no record and no report of the driver shows is zero, so that *)
(* the reset before the new offsets finds all that are not.                    *)
CapFits == hw.power_cap = (IF cfg.power_cap = None THEN "default" ELSE cfg.power_cap)
FanFits == hw.fan = (IF cfg.fan = None THEN "default" ELSE cfg.fan)
OffsetFits(o) == offset[o] = (IF cfg.offsets[o] = None THEN 0 ELSE cfg.offsets[o])
NvidiaInv ==
  /\ DOMAIN hw = {"power_cap", "fan"}
  /\ RecordsFit
  /\ Reached({"clean", "offsets", "fans", "done"}) => CapFits
  /\ clean /\ ~forgot /\ step = "offsets" => \A o \in Offsets : offset[o] = 0
  /\ Reached({"fans", "done"}) /\ ~forgot => \A o \in Offsets : OffsetFits(o)
  /\ Reached({"done"}) => FanFits
  /\ job = "cleanup" => cfg = NoSettings

GpuInv ==
  /\ vendor = "amd" => AmdInv
  /\ vendor = "intel" => IntelInv
  /\ vendor = "nvidia" => NvidiaInv

(* A refused option leaves those before it staged: they are set, like all that *)
(* is staged.                                                                   *)
LEMMA OptionsAreNamed == ToSet(Options) = OptionNames
  BY DEF ToSet, Options, OptionNames

LEMMA StagedAreOptions ==
  ASSUME StageOptions
  PROVE  staged' \subseteq staged \cup {s \in OptionNames : Wants(s)}
<1>1. \A i \in DOMAIN Options : Options[i] \in OptionNames
  BY DEF Options, OptionNames
<1>2. DOMAIN Options = 1..4
  BY DEF Options
<1>3. CASE Stage({s \in ToSet(Options) : Differs(s)}, "stop")
  BY <1>3, OptionsAreNamed DEF Stage, Differs
<1>4. ASSUME NEW n \in DOMAIN Options,
             staged' = staged \cup {Options[i] : i \in {j \in 1..n - 1 : Differs(Options[j])}}
      PROVE  staged' \subseteq staged \cup {s \in OptionNames : Wants(s)}
  BY <1>1, <1>2, <1>4 DEF Differs
<1> QED
  BY <1>3, <1>4 DEF StageOptions

(* Each step of apply_config and cleanup adds its own write to what is achieved *)
(* and leaves the others: no later write touches what an earlier one has set,   *)
(* but for the level, which is reset and then set.                              *)
LEMMA AmdStepKeeps ==
  ASSUME AmdInv, AmdNext
  PROVE  AmdInv'
<1> USE OptionsAreNamed, NothingIsSet
    DEF AmdInv, AmdPlaces, Settings, Firmware, StagedIsWanted, AmdWrites, AmdStages, AmdClears,
        Reached, Fits, IsSet, IsPrepared, Wanted, Wants, AmdDefault, OptionNames,
        AfterCap, AfterRestore, AfterReset, AfterClocks, AfterLevel, AfterMode, AfterOptions,
        AfterFan, AfterZero, AfterCommit, AfterStates,
        Goto, Return, Fine, Fault, Write, Skip, Refuse, Break, Calm, Stage
<1>1. CASE AmdCleanup
  BY <1>1, SMTT(30) DEF AmdCleanup
<1>2. CASE AmdBegin
  BY <1>2, SMTT(30) DEF AmdBegin, BeginApply, BeginCleanup, Begin
<1>3. CASE ReadUsage
  BY <1>3, SMTT(30) DEF ReadUsage
<1>4. CASE ClockDown
  BY <1>4, SMTT(30) DEF ClockDown
<1>5. CASE SetCap
  BY <1>5, SMTT(30) DEF SetCap
<1>6. CASE RestoreLevel
  BY <1>6, SMTT(30) DEF RestoreLevel
<1>7. CASE ResetCap
  BY <1>7, SMTT(30) DEF ResetCap
<1>8. CASE ResetClocksAndLevel
  <2>1. CASE clean'
    <3>1. /\ hw' = [s \in DOMAIN hw |-> IF s \in {"clocks", "level"} THEN AmdDefault(s) ELSE hw[s]]
          /\ clean /\ step = "reset" /\ step' = "clocks" /\ staged' = staged
          /\ UNCHANGED <<job, cfg, outcome>>
      BY <1>8, <2>1 DEF ResetClocksAndLevel
    <3>2. hw'.clocks = "default" /\ hw'.level = BaseLevel
      BY <3>1
    <3>3. \A s \in Settings \ {"clocks", "level"} : hw'[s] = hw[s]
      BY <3>1
    <3>4. DOMAIN hw' = Settings
      BY <3>1
    <3>5. AmdPlaces' /\ StagedIsWanted'
      BY <3>1
    <3>6. AmdWrites'
      BY <3>1, <3>2, <3>3
    <3>7. AmdStages'
      BY <3>1, <3>2, <3>3
    <3>8. AmdClears'
      BY <3>1, <3>2, <3>3
    <3> QED
      BY <3>4, <3>5, <3>6, <3>7, <3>8
  <2>2. CASE ~clean'
    <3>1. DOMAIN hw' = Settings
      BY <1>8 DEF ResetClocksAndLevel
    <3>2. step' = "clocks" /\ UNCHANGED <<staged, cfg, job>>
      BY <1>8 DEF ResetClocksAndLevel
    <3> QED
      BY <2>2, <3>1, <3>2
  <2> QED
    BY <2>1, <2>2
<1>9. CASE SetClocks
  BY <1>9, SMTT(30) DEF SetClocks, ApplyToTable
<1>10. CASE SetLevel
  BY <1>10, SMTT(30) DEF SetLevel
<1>11. CASE SetProfileMode
  BY <1>11, SMTT(30) DEF SetProfileMode
<1>12. CASE StartFanControl
  BY <1>12, SMTT(30) DEF StartFanControl
<1>13. CASE StageOptions
  <2>1. CASE Stage({s \in ToSet(Options) : Differs(s)}, "stop")
    <3>1. /\ UNCHANGED <<hw, job, cfg, clean, outcome>>
          /\ step = "fan" /\ step' = "stop" /\ ~Wants("fan")
          /\ staged' = staged \cup {s \in OptionNames : Differs(s)}
      BY <1>13, <2>1 DEF StageOptions
    <3>2. /\ StagedIsWanted' /\ AmdPlaces' /\ AmdClears'
          /\ staged \subseteq staged'
          /\ \A s \in OptionNames : IsPrepared(s)'
      BY <3>1 DEF Differs
    <3>3. AmdWrites'
      BY <3>1
    <3>4. AmdStages'
      BY <3>1, <3>2
    <3> QED
      BY <3>1, <3>2, <3>3, <3>4
  <2>2. CASE Break
    <3>1. UNCHANGED <<hw, job, cfg>> /\ step' = "idle" /\ ~clean'
      BY <2>2
    <3>2. staged' \subseteq staged \cup {s \in OptionNames : Wants(s)}
      BY <1>13, StagedAreOptions
    <3>3. StagedIsWanted' /\ AmdClears'
      BY <3>1, <3>2
    <3> QED
      BY <3>1, <3>3
  <2> QED
    BY <1>13, <2>1, <2>2 DEF StageOptions
<1>14. CASE StopFanControl
  BY <1>14, SMTT(30) DEF StopFanControl
<1>15. CASE SetZeroRpm
  BY <1>15, SMTT(30) DEF SetZeroRpm, Differs
<1>16. CASE Commit
  BY <1>16, SMTT(30) DEF Commit
<1>17. CASE SetPowerStates
  BY <1>17, SMTT(30) DEF SetPowerStates
<1>18. CASE AmdReturn
  BY <1>18, SMTT(30) DEF AmdReturn
<1> QED
  BY <1>1, <1>2, <1>3, <1>4, <1>5, <1>6, <1>7, <1>8, <1>9, <1>10, <1>11, <1>12, <1>13, <1>14,
     <1>15, <1>16, <1>17, <1>18 DEF AmdNext

LEMMA AmdInitHolds == AmdInit /\ clean /\ step = "idle" /\ job = "apply" /\ outcome = "none" => AmdInv
  BY DEF AmdInit, AmdInv, AmdPlaces, StagedIsWanted, AmdWrites, AmdStages, AmdClears, Reached,
         AfterCap, AfterRestore, AfterReset, AfterClocks, AfterLevel, AfterMode, AfterOptions,
         AfterFan, AfterZero, AfterCommit, AfterStates

(* What a clean call has achieved is what is asked of it: nothing is staged     *)
(* any more, and a cleanup has no settings.                                     *)
LEMMA AmdInvAgrees == AmdInv => AmdAgrees
<1> USE DEF AmdInv, Reached, Applied, Idle
<1> SUFFICES ASSUME AmdInv, Applied
             PROVE  AmdAgrees
  BY DEF AmdAgrees
<1>1. staged = {} /\ (~Wants("fan") => \A s \in OptionNames : IsPrepared(s))
      /\ IsPrepared("clocks") /\ IsPrepared("zero_rpm")
      /\ (~Wants("clocks") => hw.clocks = "default")
  BY DEF AmdStages
<1>2. Fits("power_cap") /\ Fits("level") /\ Fits("fan") /\ IsSet("profile_mode") /\ IsSet("power_states")
  BY DEF AmdWrites
<1>3. \A s \in {"power_cap", "clocks", "level", "fan"} : hw[s] = Wanted(s)
  BY <1>1, <1>2 DEF IsPrepared, Fits, Wanted, AmdDefault
<1>4. ASSUME NEW s \in Settings, Wants(s), s \in ToSet(Options) => ~Wants("fan")
      PROVE  hw[s] = cfg[s]
  BY <1>1, <1>2, <1>3, <1>4, OptionsAreNamed
     DEF Settings, Firmware, OptionNames, IsPrepared, IsSet, Wanted
<1> QED
  BY <1>3, <1>4 DEF AmdAgrees

LEMMA AmdInvCleans == AmdInv /\ Applied /\ job = "cleanup" => AmdCleaned
<1> SUFFICES ASSUME AmdInv, Applied, job = "cleanup"
             PROVE  AmdCleaned
  OBVIOUS
<1>1. \A s \in OptionNames : hw[s] = "default"
  BY DEF AmdInv, AmdClears, Applied, Idle
<1>2. \A s \in Settings : ~Wants(s)
  BY NothingIsSet DEF AmdInv, AmdClears, Wants
<1>3. \A s \in {"power_cap", "clocks", "level", "fan"} : hw[s] = Wanted(s)
  BY AmdInvAgrees DEF AmdAgrees, Applied, Idle
<1> QED
  BY <1>1, <1>2, <1>3, OptionsAreNamed
     DEF AmdCleaned, AmdKept, Wanted, AmdDefault, OptionNames, Settings, Firmware
-----------------------------------------------------------------------------
(* The controller of Intel.                                                    *)

LEMMA IntelInitHolds == IntelInit /\ step = "idle" /\ job = "apply" /\ outcome = "none" => IntelInv
  BY DEF IntelInit, IntelInv, Reached

LEMMA IntelStepKeeps ==
  ASSUME IntelInv, IntelNext
  PROVE  IntelInv'
<1> USE NothingIsSet
    DEF IntelInv, IntelSettings, IntelCleaned, IntelKept, IntelDefault, Reached, IsSet, Wants,
        Goto, Return, Fine, Fault, Write, Skip
<1>1. CASE IntelBegin
  BY <1>1 DEF IntelBegin, BeginApply, BeginCleanup, Begin
<1>2. CASE IntelCleanup
  BY <1>2 DEF IntelCleanup, Widened
<1>3. CASE WriteIfSet("start", "max_clock", "min")
  BY <1>3 DEF WriteIfSet
<1>4. CASE WriteIfSet("min", "min_clock", "cap")
  BY <1>4 DEF WriteIfSet
<1>5. CASE WriteIfSet("cap", "power_cap", "done")
  BY <1>5 DEF WriteIfSet
<1>6. CASE IntelReturn
  BY <1>6 DEF IntelReturn
<1>7. CASE IntelRecreate
  BY <1>7 DEF IntelRecreate
<1> QED
  BY <1>1, <1>2, <1>3, <1>4, <1>5, <1>6, <1>7 DEF IntelNext
-----------------------------------------------------------------------------
(* The controller of Nvidia. Where every offset that is known of was reset, no  *)
(* offset is left.                                                              *)
LEMMA ResetLeavesNone ==
  ASSUME RecordsFit, ~forgot, ResetOffsets(Offsets, {})
  PROVE  \A o \in Offsets : offset'[o] = 0
  BY DEF RecordsFit, RecordFits, ResetOffsets, NeedsReset, Reported

LEMMA NvidiaInitHolds ==
  NvidiaInit /\ step = "idle" /\ job = "apply" /\ outcome = "none" => NvidiaInv
  BY DEF NvidiaInit, NvidiaInv, Reached, RecordsFit, RecordFits

LEMMA NvidiaStepKeeps ==
  ASSUME NvidiaInv, NvidiaNext
  PROVE  NvidiaInv'
<1> USE DEF NvidiaInv, Reached, CapFits, FanFits, OffsetFits, clocks,
            Goto, Return, Fine, Fault, Write, Skip, Refuse, Break
<1>0. RecordsFit'
  BY NvidiaStepFits
<1>1. CASE NvidiaBegin
  BY <1>0, <1>1 DEF NvidiaBegin, BeginApply, BeginCleanup, Begin
<1>2. CASE CleanClocks("cleanup", "start")
  BY <1>0, <1>2 DEF CleanClocks
<1>3. CASE SetNvidiaCap
  BY <1>0, <1>3 DEF SetNvidiaCap
<1>4. CASE ResetNvidiaCap
  BY <1>0, <1>4 DEF ResetNvidiaCap
<1>5. CASE CleanClocks("clean", "offsets")
  <2>1. UNCHANGED <<hw, cfg, job>> /\ step = "clean"
    BY <1>5 DEF CleanClocks
  <2>2. ASSUME clean'
        PROVE  clean /\ step' = "offsets" /\ ResetOffsets(Offsets, {})
    BY <1>5, <2>2 DEF CleanClocks
  <2>3. ASSUME clean', ~forgot'
        PROVE  \A o \in Offsets : offset'[o] = 0
    BY <2>2, <2>3, ResetLeavesNone DEF ResetOffsets
  <2> QED
    BY <1>0, <2>1, <2>2, <2>3
<1>6. CASE SetOffsets
  <2>1. UNCHANGED <<hw, cfg, job>> /\ step = "offsets"
    BY <1>6 DEF SetOffsets
  <2>2. ASSUME clean'
        PROVE  clean /\ step' = "fans" /\ TakeOffsets(Wishes)
    BY <1>6, <2>2 DEF SetOffsets
  <2>3. ASSUME clean', ~forgot'
        PROVE  \A o \in Offsets : OffsetFits(o)'
    BY <2>1, <2>2, <2>3 DEF TakeOffsets, Wishes
  <2> QED
    BY <1>0, <2>1, <2>2, <2>3
<1>7. CASE SetFans
  BY <1>0, <1>7 DEF SetFans
<1>8. CASE NvidiaReturn
  BY <1>0, <1>8 DEF NvidiaReturn
<1>9. CASE NvidiaRecreate
  BY <1>0, <1>9 DEF NvidiaRecreate
<1> QED
  BY <1>1, <1>2, <1>3, <1>4, <1>5, <1>6, <1>7, <1>8, <1>9 DEF NvidiaNext
-----------------------------------------------------------------------------
(* The three together: the vendor of a GPU does not change.                     *)

LEMMA InitAchieves == Init => GpuInv
  BY AmdInitHolds, IntelInitHolds, NvidiaInitHolds DEF Init, GpuInv

LEMMA StepAchieves == GpuInv /\ [Next]_gpu => GpuInv'
<1> SUFFICES ASSUME GpuInv, [Next]_gpu
             PROVE  GpuInv'
  OBVIOUS
<1>1. CASE vendor = "amd" /\ vendor' = "amd" /\ AmdNext
  BY <1>1, AmdStepKeeps DEF GpuInv
<1>2. CASE vendor = "intel" /\ vendor' = "intel" /\ IntelNext
  BY <1>2, IntelStepKeeps DEF GpuInv
<1>3. CASE vendor = "nvidia" /\ vendor' = "nvidia" /\ NvidiaNext
  BY <1>3, NvidiaStepKeeps DEF GpuInv
<1>4. CASE UNCHANGED gpu
  <2>1. UNCHANGED <<hw, job, cfg, step, outcome, clean, jobs, faults, staged, lowered, initial,
                    offset, recorded, reports, forgot, vendor>>
    BY <1>4 DEF gpu, nvidiaVars, gpuVars, clocks
  <2>2. AmdInv => AmdInv'
    BY <2>1 DEF AmdInv, AmdPlaces, StagedIsWanted, AmdWrites, AmdStages, AmdClears, Reached,
                Fits, IsSet, IsPrepared, Wanted, Wants
  <2>3. IntelInv => IntelInv'
    BY <2>1 DEF IntelInv, IntelCleaned, Reached, IsSet, Wants
  <2>4. NvidiaInv => NvidiaInv'
    BY <2>1 DEF NvidiaInv, RecordsFit, RecordFits, CapFits, FanFits, OffsetFits, Reached
  <2> QED
    BY <2>1, <2>2, <2>3, <2>4 DEF GpuInv
<1> QED
  BY <1>1, <1>2, <1>3, <1>4 DEF Next

LEMMA CallsAchieve == Spec => []GpuInv
  BY InitAchieves, StepAchieves, PTL DEF Spec

(* OkMeansApplied for all settings, base levels, offsets and numbers of calls   *)
(* and failures: whatever earlier calls have left, a call of any of the three   *)
(* controllers that returns Ok and has ignored no error has brought about what  *)
(* it was asked for, but for firmware options under fan control.                *)
THEOREM OkIsApplied == Spec => []OkMeansApplied
<1>1. GpuInv => OkMeansApplied
  <2>1. IntelInv /\ Applied => \A s \in IntelSettings : cfg[s] # None => hw[s] = cfg[s]
    BY DEF IntelInv, Applied, Idle, Reached, IsSet, Wants, IntelSettings
  <2>2. NvidiaInv => NvidiaAgrees
    BY DEF NvidiaInv, NvidiaAgrees, Applied, Idle, Reached, CapFits, FanFits, OffsetFits
  <2>3. AmdInv => AmdAgrees
    BY AmdInvAgrees
  <2> QED
    BY <2>1, <2>2, <2>3 DEF GpuInv, OkMeansApplied
<1> QED
  BY <1>1, CallsAchieve, PTL

(* CleanupResets, likewise: after any calls and failures a cleanup in which     *)
(* nothing fails leaves every setting at its default, but for the named ones    *)
(* that the code does not reset.                                                *)
THEOREM CleanupIsComplete == Spec => []CleanupResets
<1>1. NvidiaInv /\ Applied /\ job = "cleanup" => NvidiaCleaned
  BY NothingIsSet
     DEF NvidiaInv, NvidiaCleaned, Settings, Firmware, Applied, Idle, Reached, CapFits, FanFits, OffsetFits
<1>2. GpuInv => CleanupResets
  BY <1>1, AmdInvCleans DEF GpuInv, CleanupResets, IntelInv, Applied, Idle
<1> QED
  BY <1>2, CallsAchieve, PTL
=============================================================================
