------------------------------ MODULE AmdApply ------------------------------
(* AmdGpuController::apply_config and what Handler::cleanup calls before it   *)
(* (lact-daemon/src/server/gpu_controller/amd.rs): a long sequence of writes  *)
(* of which any may fail, some of them only staged until a commit at the end. *)
EXTENDS GpuController, Sequences, SequencesExt
CONSTANT BaseLevel  \* "auto", "manual" on a Steam Deck

VARIABLES
    staged,     \* the commit handles: settings that have been written but not committed
    lowered     \* the performance level to go back to
Options == <<"acoustic_limit", "acoustic_target", "target_temperature", "minimum_pwm">>
Firmware == ToSet(Options) \cup {"zero_rpm"}
Settings == Firmware \cup {"power_cap", "clocks", "level", "profile_mode", "power_states", "fan"}
AmdDefault(s) == CASE s = "level" -> BaseLevel [] OTHER -> "default"
Wants(s) == cfg[s] # None
Calm == UNCHANGED <<staged, lowered>>
-----------------------------------------------------------------------------
(* The power cap. If the GPU draws more than the new cap it is forced into    *)
(* its lowest level and given three seconds to get there.                     *)

ReadUsage ==
    /\ step = "start" /\ Wants("power_cap")
    /\ \/ Break /\ UNCHANGED lowered
       \/ Skip("cap") /\ UNCHANGED lowered
       \/ /\ lowered' = hw.level /\ hw' = [hw EXCEPT !.level = "low"]
          /\ Goto("down") /\ Fine /\ UNCHANGED jobs
       \/ Fault /\ Goto("cap") /\ UNCHANGED <<hw, jobs, lowered>>
    /\ UNCHANGED staged

(* wait_until_lowest_clock_level, or its timeout. *)
ClockDown == step = "down" /\ Skip("cap") /\ Calm

SetCap ==
    /\ step = "cap" /\ Calm
    /\ IF hw.power_cap = cfg.power_cap THEN Skip("restore")
       ELSE Write("power_cap", cfg.power_cap, "restore")

RestoreLevel ==
    /\ step = "restore" /\ lowered' = None /\ UNCHANGED staged
    /\ IF lowered = None THEN Skip("reset") ELSE Write("level", lowered, "reset")

(* A default that cannot be read leaves the cap alone. *)
ResetCap ==
    /\ step = "start" /\ ~Wants("power_cap") /\ Calm
    /\ \/ Write("power_cap", "default", "reset")
       \/ Fault /\ Goto("reset") /\ UNCHANGED <<hw, jobs>>
-----------------------------------------------------------------------------
(* Clocks and performance level.                                              *)

(* Slip: clocks are only reset when there are new ones. *)
Slip_ResetIfUsed ==
    /\ step = "reset" /\ Calm
    /\ hw' = [hw EXCEPT !.clocks = IF Wants("clocks") THEN "default" ELSE @, !.level = BaseLevel]
    /\ Goto("clocks") /\ Fine /\ UNCHANGED jobs

(* Errors of the two resets are ignored; one of them may fail, or both. *)
ResetClocksAndLevel ==
    /\ step = "reset" /\ Calm
    /\ \E kept \in SUBSET {"clocks", "level"} :
        /\ hw' = [s \in DOMAIN hw |-> IF s \in {"clocks", "level"} \ kept THEN AmdDefault(s) ELSE hw[s]]
        /\ IF kept = {} THEN Fine ELSE Fault
    /\ Goto("clocks") /\ UNCHANGED jobs

(* A setting that takes effect when its handle is committed. *)
Stage(settings, next) ==
    /\ staged' = staged \cup settings
    /\ Skip(next) /\ UNCHANGED lowered

(* apply_to_table takes over the values that are set; the table, or one of     *)
(* them, may be refused.                                                       *)
ApplyToTable == Stage({"clocks"}, "level") \/ (Break /\ Calm)

SetClocks ==
    /\ step = "clocks"
    /\ IF Wants("clocks") THEN ApplyToTable ELSE Skip("level") /\ Calm

SetLevel ==
    /\ step = "level" /\ Calm
    /\ IF Wants("level") THEN Write("level", cfg.level, "mode") ELSE Skip("mode")

SetProfileMode ==
    /\ step = "mode" /\ Calm
    /\ \/ ~Wants("profile_mode") /\ Skip("fan")
       \/ Wants("profile_mode") /\ cfg.level # "manual" /\ Refuse
       \/ Wants("profile_mode") /\ cfg.level = "manual"
          /\ Write("profile_mode", cfg.profile_mode, "fan")
-----------------------------------------------------------------------------
(* Fans and firmware. The tasks of fan control are the module FanControl.     *)

(* "empty" are settings without a curve. *)
StartFanControl ==
    /\ step = "fan" /\ Wants("fan") /\ Calm
    /\ IF cfg.fan = "empty" THEN Refuse ELSE Write("fan", cfg.fan, "zero")

(* The options that are set and differ from what the hardware says, in order; *)
(* any may be the first that fails, and the ones before it stay staged.       *)
Differs(s) == Wants(s) /\ hw[s] # cfg[s]

StageOptions ==
    /\ step = "fan" /\ ~Wants("fan")
    /\ \/ Stage({s \in ToSet(Options) : Differs(s)}, "stop")
       \/ /\ \E n \in DOMAIN Options :
                /\ Wants(Options[n])
                /\ staged' = staged \cup {Options[i] : i \in {j \in 1..n - 1 : Differs(Options[j])}}
          /\ Break /\ UNCHANGED lowered

(* A firmware curve that cannot be reset is only logged. *)
StopFanControl ==
    /\ step = "stop" /\ Calm
    /\ \/ Write("fan", "default", "zero")
       \/ Fault /\ Goto("zero") /\ UNCHANGED <<hw, jobs>>

SetZeroRpm ==
    /\ step = "zero"
    /\ \/ Stage({s \in {"zero_rpm"} : Differs(s)}, "commit")
       \/ Wants("zero_rpm") /\ Break /\ Calm

(* Each handle is committed; what comes after one that fails is not. *)
Commit ==
    /\ step = "commit" /\ staged' = {} /\ UNCHANGED <<lowered, jobs>>
    /\ \/ hw' = [s \in DOMAIN hw |-> IF s \in staged THEN cfg[s] ELSE hw[s]]
          /\ Goto("states") /\ Fine
       \/ \E done \in SUBSET staged \ {staged} :
            /\ hw' = [s \in DOMAIN hw |-> IF s \in done THEN cfg[s] ELSE hw[s]]
            /\ Fault /\ Return("failed")

SetPowerStates ==
    /\ step = "states" /\ Calm
    /\ \/ ~Wants("power_states") /\ Skip("done")
       \/ Wants("power_states") /\ cfg.level # "manual" /\ Refuse
       \/ Wants("power_states") /\ cfg.level = "manual"
          /\ Write("power_states", cfg.power_states, "done")

AmdReturn == step = "done" /\ Return("ok") /\ Fine /\ UNCHANGED <<hw, jobs>> /\ Calm
-----------------------------------------------------------------------------
(* cleanup_clocks (unless disabled) and reset_pmfw_settings, whose errors are *)
(* logged; the zero RPM mode is not among the settings that are reset.        *)
AmdCleanup ==
    /\ step = "cleanup" /\ Calm
    /\ \E kept \in SUBSET ({"clocks"} \cup ToSet(Options)) :
        /\ hw' = [s \in DOMAIN hw |->
                    IF s \in ({"clocks"} \cup ToSet(Options)) \ kept THEN "default" ELSE hw[s]]
        /\ IF kept = {} THEN Fine ELSE Fault
    /\ Goto("start") /\ UNCHANGED jobs

(* The locals of a call are dropped with it, and handles without a commit. *)
AmdBegin ==
    /\ BeginApply("start") \/ BeginCleanup("cleanup")
    /\ staged' = {} /\ lowered' = None

AmdInit == hw = [s \in Settings |-> AmdDefault(s)] /\ staged = {} /\ lowered = None

AmdNext ==
    \/ AmdBegin \/ AmdCleanup
    \/ ReadUsage \/ ClockDown \/ SetCap \/ RestoreLevel \/ ResetCap
    \/ ResetClocksAndLevel \/ SetClocks \/ SetLevel \/ SetProfileMode
    \/ StartFanControl \/ StageOptions \/ StopFanControl \/ SetZeroRpm \/ Commit
    \/ SetPowerStates \/ AmdReturn
-----------------------------------------------------------------------------
Wanted(s) == IF Wants(s) THEN cfg[s] ELSE AmdDefault(s)

(* Whatever settings were applied before, and wherever the calls before have   *)
(* failed: after a call without a failure (one whose error is ignored counts)  *)
(* the cap, clocks, level and fans are as the settings say, and absent ones    *)
(* have their defaults; zero RPM, profile mode and power states are as the     *)
(* settings say if they are set, and so are the other firmware options unless  *)
(* fan control is on: then the code does not write them.                       *)
AmdAgrees ==
    Applied =>
        /\ \A s \in {"power_cap", "clocks", "level", "fan"} : hw[s] = Wanted(s)
        /\ \A s \in Settings :
            Wants(s) /\ (s \in ToSet(Options) => ~Wants("fan")) => hw[s] = cfg[s]

(* What nothing in cleanup resets: it stays as the last settings have put it.  *)
AmdKept == {"zero_rpm", "profile_mode", "power_states"}

AmdCleaned == \A s \in Settings \ AmdKept : hw[s] = AmdDefault(s)

=============================================================================
