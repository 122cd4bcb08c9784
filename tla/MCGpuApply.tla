----------------------------- MODULE MCGpuApply -----------------------------
(* Settings for TLC: none, some that need the manual level, some firmware      *)
(* options, and some that are refused.                                         *)
EXTENDS GpuApply
MCOffsets == {<<"gpu", 0>>, <<"mem", 0>>}
MCNone == [s \in Settings \cup IntelSettings \cup {"offsets"} |->
            IF s = "offsets" THEN [o \in MCOffsets |-> None] ELSE None]
MCGpu == [MCNone EXCEPT !.power_cap = "c1", !.clocks = "k1", !.level = "manual",
            !.profile_mode = "m1", !.power_states = "p1", !.max_clock = "x1",
            !.offsets = [o \in MCOffsets |-> IF o[1] = "gpu" THEN 1 ELSE None]]
MCFan == [MCNone EXCEPT !.power_cap = "c2", !.fan = "curve", !.zero_rpm = "z1", !.min_clock = "n1",
            !.offsets = [o \in MCOffsets |-> 2]]
MCFirmware == [MCNone EXCEPT !.acoustic_limit = "l1", !.minimum_pwm = "w1", !.level = "low"]
MCRefused == [MCNone EXCEPT !.clocks = "k2", !.profile_mode = "m2", !.minimum_pwm = "w2"]
MCEmpty == [MCNone EXCEPT !.power_states = "p2", !.fan = "empty", !.acoustic_target = "t1"]
MCConfigs == {MCNone, MCGpu, MCFan, MCFirmware, MCRefused, MCEmpty}
=============================================================================
