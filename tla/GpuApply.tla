------------------------------ MODULE GpuApply ------------------------------
(* One GPU with the controller of its vendor, as init_controller chooses it   *)
(* (lact-daemon/src/server/gpu_controller.rs), and any sequence of calls of   *)
(* apply_config and cleanup, with writes that fail.                           *)
EXTENDS AmdApply, NvidiaApply, IntelApply
CONSTANT Drivers    \* drivers of the GPU

VARIABLE vendor     \* whose controller it is
gpu == <<vendor, nvidiaVars, staged, lowered, initial>>

(* Other drivers, and drivers whose library is missing, get the controller of *)
(* AMD without anything to control; they are left out.                        *)
Vendor(driver) ==
    CASE driver \in {"amdgpu", "radeon"} -> "amd"
      [] driver \in {"i915", "xe"} -> "intel"
      [] driver = "nvidia" -> "nvidia"

(* config::Gpu::default(): nothing is set. *)
ASSUME NothingIsSet ==
    /\ \A s \in Settings \cup IntelSettings : NoSettings[s] = None
    /\ \A o \in Offsets : NoSettings.offsets[o] = None

NoOffsets == offset = [o \in Offsets |-> 0] /\ recorded = offset /\ reports = TRUE /\ forgot = FALSE

Init ==
    /\ \E driver \in Drivers : vendor = Vendor(driver)
    /\ step = "idle" /\ job = "apply" /\ cfg = NoSettings
    /\ outcome = "none" /\ clean = TRUE
    /\ jobs = MaxJobs /\ faults = MaxFaults
    /\ IF vendor = "amd" THEN AmdInit ELSE staged = {} /\ lowered = None
    /\ IF vendor = "nvidia" THEN NvidiaInit ELSE NoOffsets
    /\ IF vendor = "intel" THEN IntelInit ELSE initial = "default"

Next ==
    /\ UNCHANGED vendor
    /\ \/ vendor = "amd" /\ AmdNext /\ UNCHANGED <<clocks, initial>>
       \/ vendor = "nvidia" /\ NvidiaNext /\ UNCHANGED <<staged, lowered, initial>>
       \/ vendor = "intel" /\ IntelNext /\ UNCHANGED <<staged, lowered, clocks>>

Spec == Init /\ [][Next]_gpu
-----------------------------------------------------------------------------
(* apply_config does what it returns Ok for, whatever the calls before have    *)
(* left, and whichever of their writes have failed.                            *)
OkMeansApplied ==
    /\ vendor = "amd" => AmdAgrees
    /\ vendor = "nvidia" => NvidiaAgrees
    /\ vendor = "intel" /\ Applied =>
            \A s \in IntelSettings : cfg[s] # None => hw[s] = cfg[s]

(* After a cleanup without a failure, between profiles and before the daemon   *)
(* exits, every setting has its default again, but for those that the code     *)
(* never resets: zero RPM, profile mode and power states of AMD, the power cap *)
(* of Intel, and Nvidia's offsets that have dropped out of the record. These   *)
(* do outlive a change to a profile that does not set them.                    *)
CleanupResets ==
    job = "cleanup" /\ Applied =>
        /\ vendor = "amd" => AmdCleaned
        /\ vendor = "intel" => IntelCleaned
        /\ vendor = "nvidia" => NvidiaCleaned

=============================================================================
