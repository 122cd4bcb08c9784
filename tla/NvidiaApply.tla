---------------------------- MODULE NvidiaApply -----------------------------
(* NvidiaGpuController::apply_config and cleanup_clocks                       *)
(* (lact-daemon/src/server/gpu_controller/nvidia.rs). Some drivers do not     *)
(* report the clock offsets they have: the controller keeps its own record.   *)
EXTENDS GpuController, Integers
CONSTANT Offsets    \* pairs of "gpu" or "mem" and a performance state

VARIABLES
    offset,     \* the clock offsets of the hardware
    recorded,   \* last_applied_offsets, 0 for those without an entry
    reports,    \* the driver reports its offsets
    forgot      \* history: an offset has dropped out of the record that the driver does not report
clocks == <<offset, recorded, reports, forgot>>
nvidiaVars == <<gpuVars, clocks>>

(* current, as clock_offset of the driver has it. *)
Reported(o) == IF reports THEN offset[o] ELSE 0

(* get_clocks_info: what the user is shown. *)
Shown(o) == IF Reported(o) # 0 THEN Reported(o) ELSE recorded[o]
-----------------------------------------------------------------------------
(* apply_config begins with the power cap. *)
SetNvidiaCap ==
    /\ step = "start" /\ cfg.power_cap # None /\ UNCHANGED clocks
    /\ IF hw.power_cap = cfg.power_cap THEN Skip("clean") \/ Break
       ELSE Write("power_cap", cfg.power_cap, "clean")

ResetNvidiaCap ==
    /\ step = "start" /\ cfg.power_cap = None /\ UNCHANGED clocks
    /\ \/ Write("power_cap", "default", "clean")
       \/ Fault /\ Goto("clean") /\ UNCHANGED <<hw, jobs>>

(* cleanup_clocks: the offsets in unread could not be read. A record goes even *)
(* if the offset stays.                                                        *)
NeedsReset(o) == Reported(o) # 0 \/ recorded[o] # 0

ResetOffsets(seen, unread) ==
    /\ offset' = [o \in Offsets |->
                    IF o \in seen \ unread /\ NeedsReset(o) THEN 0 ELSE offset[o]]
    /\ recorded' = [o \in Offsets |-> IF o \in seen THEN 0 ELSE recorded[o]]
    /\ forgot' = (forgot \/ (~reports /\ \E o \in seen \cap unread : offset[o] # 0))

(* All performance states, or none if they cannot be listed; a reset that      *)
(* fails ends the call.                                                        *)
CleanClocks(now, next) ==
    /\ step = now /\ UNCHANGED <<hw, jobs, reports>>
    /\ \/ ResetOffsets(Offsets, {}) /\ Goto(next) /\ Fine
       \/ \E unread \in SUBSET Offsets \ {{}} :
            ResetOffsets(Offsets, unread) /\ Goto(next) /\ Fault
       \/ ResetOffsets({}, {}) /\ Goto(next) /\ Fault
       \/ \E seen \in SUBSET Offsets :
            /\ \E o \in Offsets \ seen : NeedsReset(o)
            /\ ResetOffsets(seen, {}) /\ Fault
            /\ IF now = "cleanup" THEN Goto(next) ELSE Return("failed")

(* The offsets of the clocks, then those of the memory; each is recorded after *)
(* the driver has taken it.                                                    *)
Wishes == {o \in Offsets : cfg.offsets[o] # None}

(* Slip: an offset is recorded before it is set. *)
Slip_RecordFirst(done) ==
    /\ offset' = [o \in Offsets |-> IF o \in done THEN cfg.offsets[o] ELSE offset[o]]
    /\ recorded' = [o \in Offsets |-> IF o \in Wishes THEN cfg.offsets[o] ELSE recorded[o]]
    /\ UNCHANGED <<reports, forgot>>

TakeOffsets(done) ==
    /\ offset' = [o \in Offsets |-> IF o \in done THEN cfg.offsets[o] ELSE offset[o]]
    /\ recorded' = [o \in Offsets |-> IF o \in done THEN cfg.offsets[o] ELSE recorded[o]]
    /\ UNCHANGED <<reports, forgot>>

SetOffsets ==
    /\ step = "offsets" /\ UNCHANGED <<hw, jobs>>
    /\ \/ TakeOffsets(Wishes) /\ Goto("fans") /\ Fine
       \/ \E done \in SUBSET Wishes \ {Wishes} :
            /\ (\E o \in done : o[1] = "mem") => \A o \in Wishes : o[1] = "gpu" => o \in done
            /\ TakeOffsets(done) /\ Fault /\ Return("failed")

(* Static speed, curve, or the automatic control. *)
SetFans ==
    /\ step = "fans" /\ UNCHANGED clocks
    /\ IF cfg.fan = "empty" THEN Refuse
       ELSE Write("fan", IF cfg.fan = None THEN "default" ELSE cfg.fan, "done")

NvidiaReturn == step = "done" /\ Return("ok") /\ Fine /\ UNCHANGED <<hw, jobs, clocks>>
-----------------------------------------------------------------------------
(* Handler::cleanup calls cleanup_clocks before, and ignores its errors;       *)
(* reset_pmfw_settings does nothing.                                           *)
NvidiaBegin == (BeginApply("start") \/ BeginCleanup("cleanup")) /\ UNCHANGED clocks

(* A reload of the GPUs, or of the daemon: the controller is created anew.     *)
NvidiaRecreate ==
    /\ step = "idle" /\ jobs > 0 /\ jobs' = jobs - 1
    /\ recorded' = [o \in Offsets |-> 0]
    /\ forgot' = (forgot \/ (~reports /\ \E o \in Offsets : offset[o] # 0))
    /\ UNCHANGED <<hw, job, cfg, step, outcome, clean, faults, offset, reports>>

NvidiaInit ==
    /\ hw = [s \in {"power_cap", "fan"} |-> "default"]
    /\ offset = [o \in Offsets |-> 0] /\ recorded = [o \in Offsets |-> 0]
    /\ reports \in BOOLEAN /\ forgot = FALSE

NvidiaNext ==
    \/ NvidiaBegin \/ CleanClocks("cleanup", "start")
    \/ SetNvidiaCap \/ ResetNvidiaCap \/ CleanClocks("clean", "offsets")
    \/ SetOffsets \/ SetFans \/ NvidiaReturn \/ NvidiaRecreate
-----------------------------------------------------------------------------
(* Wherever calls fail, and whether or not the driver reports its offsets: the *)
(* user is shown the offsets that the hardware has, unless the controller has  *)
(* lost its record of one (it was created anew, or could not read an offset).  *)
OffsetsAreShown == ~forgot => \A o \in Offsets : Shown(o) = offset[o]

(* After a call without a failure cap, offsets and fans are as the settings    *)
(* say, with defaults for what is absent: no offset of earlier settings stays, *)
(* also where the driver does not report it.                                   *)
NvidiaAgrees ==
    Applied =>
        /\ hw.power_cap = (IF cfg.power_cap = None THEN "default" ELSE cfg.power_cap)
        /\ hw.fan = (IF cfg.fan = None THEN "default" ELSE cfg.fan)
        /\ ~forgot => \A o \in Offsets :
                offset[o] = (IF cfg.offsets[o] = None THEN 0 ELSE cfg.offsets[o])

(* Nothing stays, but for offsets the controller does not know of.             *)
NvidiaCleaned ==
    /\ hw.power_cap = "default" /\ hw.fan = "default"
    /\ ~forgot => \A o \in Offsets : offset[o] = 0
=============================================================================
