--------------------------- MODULE GpuController ----------------------------
(* What the controllers of the three vendors share: the trait GpuController   *)
(* of lact-daemon/src/server/gpu_controller.rs, with the two ways in which    *)
(* the handler uses it, apply_config and cleanup, and hardware that fails.    *)
EXTENDS Naturals
CONSTANTS
    Configs,    \* config::Gpu: the settings of a GPU, functions with None for what is absent
    NoSettings, \* config::Gpu::default()
    None,
    MaxJobs,    \* bound on calls
    MaxFaults   \* bound on reads and writes that fail

ASSUME DefaultIsConfig == NoSettings \in Configs

VARIABLES
    hw,         \* the value each setting has in the hardware
    job,        \* "apply" or "cleanup", what was called last
    cfg,        \* the config that is or was applied
    step,       \* where the call is
    outcome,    \* what the last call returned
    clean,      \* nothing has failed since it began
    jobs, faults
gpuVars == <<hw, job, cfg, step, outcome, clean, jobs, faults>>

(* The handler calls apply_config, for a request, for a revert, at startup, or *)
(* cleanup: clocks, firmware settings, then the default config.               *)
Begin(kind, config, first) ==
    /\ step = "idle" /\ jobs > 0 /\ jobs' = jobs - 1
    /\ job' = kind /\ cfg' = config
    /\ step' = first /\ clean' = TRUE
    /\ UNCHANGED <<hw, outcome, faults>>

BeginApply(first) == \E config \in Configs : Begin("apply", config, first)
BeginCleanup(first) == Begin("cleanup", NoSettings, first)

Goto(s) == step' = s /\ UNCHANGED <<job, cfg, outcome>>
Return(result) == step' = "idle" /\ outcome' = result /\ UNCHANGED <<job, cfg>>
Fine == UNCHANGED <<clean, faults>>
Fault == faults > 0 /\ faults' = faults - 1 /\ clean' = FALSE

(* One write of a setting whose error ends the call. *)
Write(setting, value, next) ==
    \/ hw' = [hw EXCEPT ![setting] = value] /\ Goto(next) /\ Fine /\ UNCHANGED jobs
    \/ Fault /\ Return("failed") /\ UNCHANGED <<hw, jobs>>

Skip(next) == Goto(next) /\ Fine /\ UNCHANGED <<hw, jobs>>
Refuse == Return("refused") /\ Fine /\ UNCHANGED <<hw, jobs>>
Break == Fault /\ Return("failed") /\ UNCHANGED <<hw, jobs>>

Idle == step = "idle"
(* The last call has succeeded and nothing has failed in it. *)
Applied == Idle /\ outcome = "ok" /\ clean
=============================================================================
