----------------------------- MODULE IntelApply -----------------------------
(* IntelGpuController::apply_config and cleanup_clocks                        *)
(* (lact-daemon/src/server/gpu_controller/intel.rs): only what is set is      *)
(* written, and the cap that counts as the default is read when the           *)
(* controller is created.                                                     *)
EXTENDS GpuController

VARIABLE initial    \* initial_power_cap
IntelSettings == {"max_clock", "min_clock", "power_cap"}

(* The three writes, in this order: an absent value is left alone. *)
WriteIfSet(now, setting, next) ==
    /\ step = now /\ UNCHANGED initial
    /\ IF cfg[setting] = None THEN Skip(next) ELSE Write(setting, cfg[setting], next)

IntelReturn == step = "done" /\ Return("ok") /\ Fine /\ UNCHANGED <<hw, jobs, initial>>

(* Slip: the two limits are mixed up. *)
Slip_Swapped(kept) ==
    [hw EXCEPT !.max_clock = IF "min_clock" \in kept THEN @ ELSE "rp0",
               !.min_clock = IF "max_clock" \in kept THEN @ ELSE "rp0"]

(* cleanup_clocks: the limits become those of the hardware; errors are logged. *)
Widened(kept) ==
    [hw EXCEPT !.max_clock = IF "max_clock" \in kept THEN @ ELSE "rp0",
               !.min_clock = IF "min_clock" \in kept THEN @ ELSE "rpn"]

IntelCleanup ==
    /\ step = "cleanup" /\ UNCHANGED <<jobs, initial>>
    /\ \E kept \in SUBSET {"max_clock", "min_clock"} :
        /\ hw' = Widened(kept)
        /\ IF kept = {} THEN Fine ELSE Fault
    /\ Goto("start")

IntelBegin == (BeginApply("start") \/ BeginCleanup("cleanup")) /\ UNCHANGED initial

IntelRecreate ==
    /\ step = "idle" /\ jobs > 0 /\ jobs' = jobs - 1
    /\ initial' = hw.power_cap
    /\ UNCHANGED <<hw, job, cfg, step, outcome, clean, faults>>

IntelDefault(s) == CASE s = "max_clock" -> "rp0" [] s = "min_clock" -> "rpn" [] OTHER -> "default"

IntelInit == hw = [s \in IntelSettings |-> IntelDefault(s)] /\ initial = "default"

IntelNext ==
    \/ IntelBegin \/ IntelCleanup
    \/ WriteIfSet("start", "max_clock", "min") \/ WriteIfSet("min", "min_clock", "cap")
    \/ WriteIfSet("cap", "power_cap", "done") \/ IntelReturn \/ IntelRecreate
-----------------------------------------------------------------------------
(* The power cap is not reset.                                                 *)
IntelKept == {"power_cap"}

IntelCleaned == \A s \in IntelSettings \ IntelKept : hw[s] = IntelDefault(s)

=============================================================================
