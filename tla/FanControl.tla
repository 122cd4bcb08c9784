----------------------------- MODULE FanControl -----------------------------
(* Fan control of one GPU: what apply_config does about the fans and the task *)
(* that follows a curve. amd.rs and nvidia.rs are in                          *)
(* lact-daemon/src/server/gpu_controller/.                                    *)
EXTENDS FanCurve
CONSTANTS
    Caller,     \* calls of apply_config that may be in progress at a time
    FanTask,    \* tasks that can exist at a time
    Curves,     \* fan curves of the settings
    Fixed,      \* static speeds of the settings, in hundredths
    Temps,      \* what the temperature sensor may show
    Critical,   \* the critical temperature of AMD GPUs
    Threshold,  \* change_threshold of the settings
    LongDelay,  \* spindown_delay is longer than the interval of the ticks
    Fans,       \* number of fans of the GPU
    Faults,     \* what may fail: "apply", "write", "sensor"
    None        \* no task, no setting, no curve

ASSUME CurvesAreMaps == \A cv \in Curves : IsCurve(cv)
ASSUME NumbersAreIntegers ==
    Fixed \subseteq 0..100 /\ Temps \subseteq Int /\ Critical \in Int
    /\ Threshold \in Nat /\ Fans \in Nat \ {0}
ASSUME DelayIsBoolean == LongDelay \in BOOLEAN
ASSUME NoneIsNoTask == None \notin FanTask
ASSUME NoneIsNoCurve == None \notin Curves

VARIABLES
    kind,       \* "amd" (hwmon), "pmfw" (AMD with curves in firmware) or "nvidia"
    handle,     \* fan_control_handle: the task of the controller
    task,       \* the fan control tasks
    at,         \* where each call is: "idle", "stopping" (awaits a task)
    want,       \* the setting each call applies
    waits,      \* the task each call awaits
    temp,       \* the temperature of the GPU
    mode,       \* who controls each fan: "auto" (the hardware) or "manual"
    pwm,        \* the speed last written to each fan
    fw,         \* the setting in firmware
    applied     \* the last setting applied, if nothing went wrong since
hardware == <<mode, pwm, fw>>
calls == <<at, want, waits>>
vars == <<kind, handle, task, calls, temp, hardware, applied>>

Fan == 1..Fans

(* Config::Gpu as far as it concerns fans: control disabled, enabled without   *)
(* settings, a static speed, a curve.                                          *)
Off == [mode |-> "off"]
Missing == [mode |-> "missing"]
Static(s) == [mode |-> "static", speed |-> s]
Curve(cv) == [mode |-> "curve", curve |-> cv]
Settings == {Off, Missing} \cup {Static(s) : s \in Fixed} \cup {Curve(cv) : cv \in Curves}

(* A task that has ended, and the locals of a new one. since is what the ticks *)
(* since the last write have found, late that spindown_delay has passed.       *)
Ended == [st |-> "ended", told |-> FALSE, curve |-> None, last |-> -1, temp |-> 0,
          works |-> FALSE, late |-> FALSE, since |-> "write"]
Panicked == [Ended EXCEPT !.st = "panicked"]
NewTask(cv) == [Ended EXCEPT !.st = "runs", !.curve = cv]
TaskState ==
    [st : {"runs", "ended", "panicked"}, told : BOOLEAN, curve : Curves \cup {None},
     last : Byte \cup {-1}, temp : Temps \cup {0}, works : BOOLEAN, late : BOOLEAN,
     since : {"write", "near", "lower"}]
Runs(k) == task[k].st = "runs"

(* A PWM value as it is written: percents for nvidia (target_pwm / 2.5). *)
Written(kd, p) == IF kd = "nvidia" THEN (2 * p) \div 5 ELSE p

(* What a static speed is written as; speed * 100.0 is truncated for nvidia. *)
StaticSpeeds(kd, s) ==
    IF kd = "nvidia" THEN {s} \cup {n \in {s - 1} : n >= 0} ELSE {PwmOf(s)}

Targets(kd, cv, t) == PwmAt(cv, t, kd = "amd" /\ t > Critical)
-----------------------------------------------------------------------------
(* What apply_config does once no task of the controller runs any more; left   *)
(* is the handle it leaves behind if it starts no task.                        *)

AllFans(x) == [f \in Fan |-> x]

(* The first n fans are written. *)
WriteFirst(n, v) ==
    /\ pwm' = [f \in Fan |-> IF f <= n THEN v ELSE pwm[f]]
    /\ mode' = [f \in Fan |-> IF f <= n THEN "manual" ELSE mode[f]]

Unused(k) == ~Runs(k) /\ handle # k /\ \A c \in Caller : waits[c] # k

(* start_curve_fan_control_task: the handle of the new task is stored. *)
Spawn(cv) ==
    \E k \in FanTask :
        /\ Unused(k)
        /\ task' = [task EXCEPT ![k] = NewTask(cv)]
        /\ handle' = k

Started(s) == Spawn(s.curve) /\ applied' = s
NotStarted(left) == handle' = left /\ UNCHANGED task
Done(s, left) == NotStarted(left) /\ applied' = s
Fail(left) == NotStarted(left) /\ applied' = None
CanFail == "apply" \in Faults

(* Slip: stop_fan_control(false) leaves the fans in manual mode. *)
Slip_KeepMode(left) == UNCHANGED hardware /\ Done(Off, left)

AmdOff(left) ==
    \/ /\ mode' = AllFans("auto") /\ UNCHANGED <<pwm, fw>>
       /\ Done(Off, left)
    \/ /\ CanFail /\ mode # AllFans("auto") /\ UNCHANGED hardware
       /\ Fail(left)

AmdStatic(s, left) ==
    \/ /\ WriteFirst(Fans, PwmOf(s.speed)) /\ UNCHANGED fw
       /\ Done(s, left)
    \/ /\ CanFail /\ mode' \in {mode, AllFans("manual")} /\ UNCHANGED <<pwm, fw>>
       /\ Fail(left)

AmdCurve(s, left) ==
    \/ /\ mode' = AllFans("manual") /\ UNCHANGED <<pwm, fw>>
       /\ Started(s)
    \/ /\ CanFail /\ UNCHANGED hardware
       /\ Fail(left)

(* The firmware takes static speeds and curves; a failed reset is only logged. *)
PmfwAny(s, left) ==
    \/ /\ fw' = s /\ UNCHANGED <<mode, pwm>>
       /\ Done(s, left)
    \/ /\ CanFail /\ UNCHANGED hardware
       /\ Fail(left)

(* The end of stop_fan_control of nvidia gives the fans back to the hardware.  *)
(* If a task was stopped the first error is returned, otherwise errors are      *)
(* only logged.                                                                *)
PartlyReset(hadTask) ==
    {[f \in Fan |-> IF f \in bad \/ (hadTask /\ \E g \in bad : g < f) THEN mode[f] ELSE "auto"] :
        bad \in SUBSET Fan \ {{}}}
AfterReset(hadTask) ==
    {AllFans("auto")} \cup (IF CanFail /\ ~hadTask THEN PartlyReset(FALSE) ELSE {})

ResetFails(hadTask, left) ==
    /\ CanFail
    /\ mode' \in PartlyReset(hadTask) /\ UNCHANGED <<pwm, fw>>
    /\ Fail(left)

NvidiaOff(hadTask, left) ==
    \/ /\ mode' = AllFans("auto") /\ UNCHANGED <<pwm, fw>>
       /\ Done(Off, left)
    \/ ResetFails(hadTask, left)

NvidiaStatic(s, hadTask, left) ==
    \/ /\ \E v \in StaticSpeeds(kind, s.speed) : WriteFirst(Fans, v)
       /\ UNCHANGED fw
       /\ Done(s, left)
    \/ /\ CanFail
       /\ \E n \in 0..(Fans - 1), v \in StaticSpeeds(kind, s.speed), m \in AfterReset(hadTask) :
            /\ pwm' = [f \in Fan |-> IF f <= n THEN v ELSE pwm[f]]
            /\ mode' = [f \in Fan |-> IF f <= n THEN "manual" ELSE m[f]]
       /\ UNCHANGED fw
       /\ Fail(left)
    \/ hadTask /\ ResetFails(hadTask, left)

NvidiaCurve(s, hadTask, left) ==
    \/ /\ mode' \in AfterReset(hadTask) /\ UNCHANGED <<pwm, fw>>
       /\ Started(s)
    \/ /\ CanFail
       /\ mode' \in AfterReset(hadTask) /\ UNCHANGED <<pwm, fw>>
       /\ Fail(left)
    \/ hadTask /\ ResetFails(hadTask, left)

Proceed(s, hadTask, left) ==
    \/ kind = "amd" /\ s.mode = "off" /\ AmdOff(left)
    \/ kind = "amd" /\ s.mode = "static" /\ AmdStatic(s, left)
    \/ kind = "amd" /\ s.mode = "curve" /\ AmdCurve(s, left)
    \/ kind = "pmfw" /\ PmfwAny(s, left)
    \/ kind = "nvidia" /\ s.mode = "off" /\ NvidiaOff(hadTask, left)
    \/ kind = "nvidia" /\ s.mode = "static" /\ NvidiaStatic(s, hadTask, left)
    \/ kind = "nvidia" /\ s.mode = "curve" /\ NvidiaCurve(s, hadTask, left)
-----------------------------------------------------------------------------
(* The calls. stop_fan_control takes the handle, tells the task to stop and    *)
(* awaits it; awaiting a task that has ended does not wait.                    *)

(* What apply_config refuses before it stops anything. *)
Refuses(s) ==
    \/ s.mode = "missing"
    \/ s.mode = "curve" /\ DOMAIN s.curve = {} /\ kind # "nvidia"

Refuse(c) ==
    /\ at[c] = "idle"
    /\ \E s \in Settings : Refuses(s)
    /\ Fail(handle)
    /\ UNCHANGED <<kind, calls, temp, hardware>>

(* A task that has panicked makes the await an error (JoinError). *)
AfterTask(k, s, left) ==
    IF k # None /\ task[k].st = "panicked"
    THEN Fail(left) /\ UNCHANGED hardware
    ELSE Proceed(s, k # None, left)

(* Slip: the task is not stopped. *)
Slip_Overtake(c) ==
    /\ at[c] = "idle"
    /\ \E s \in Settings : ~Refuses(s) /\ AfterTask(handle, s, None)
    /\ UNCHANGED <<kind, calls, temp>>

ApplyNow(c) ==
    /\ at[c] = "idle"
    /\ handle # None => ~Runs(handle)
    /\ \E s \in Settings : ~Refuses(s) /\ AfterTask(handle, s, None)
    /\ UNCHANGED <<kind, calls, temp>>

(* Slip: the task is awaited but not told to stop. *)
Slip_NoNotify(c) ==
    /\ at[c] = "idle"
    /\ handle # None /\ Runs(handle)
    /\ \E s \in Settings : ~Refuses(s) /\ want' = [want EXCEPT ![c] = s]
    /\ at' = [at EXCEPT ![c] = "stopping"]
    /\ waits' = [waits EXCEPT ![c] = handle]
    /\ handle' = None /\ applied' = None
    /\ UNCHANGED <<kind, task, temp, hardware>>

ApplyWait(c) ==
    /\ at[c] = "idle"
    /\ handle # None /\ Runs(handle)
    /\ \E s \in Settings : ~Refuses(s) /\ want' = [want EXCEPT ![c] = s]
    /\ at' = [at EXCEPT ![c] = "stopping"]
    /\ waits' = [waits EXCEPT ![c] = handle]
    /\ task' = [task EXCEPT ![handle].told = TRUE]
    /\ handle' = None /\ applied' = None
    /\ UNCHANGED <<kind, temp, hardware>>

(* Slip: the task is told to stop but not awaited. *)
Slip_NoAwait(c) ==
    /\ at[c] = "stopping"
    /\ AfterTask(waits[c], want[c], handle)
    /\ at' = [at EXCEPT ![c] = "idle"]
    /\ want' = [want EXCEPT ![c] = None]
    /\ waits' = [waits EXCEPT ![c] = None]
    /\ UNCHANGED <<kind, temp>>

Stopped(c) ==
    /\ at[c] = "stopping" /\ ~Runs(waits[c])
    /\ AfterTask(waits[c], want[c], handle)
    /\ at' = [at EXCEPT ![c] = "idle"]
    /\ want' = [want EXCEPT ![c] = None]
    /\ waits' = [waits EXCEPT ![c] = None]
    /\ UNCHANGED <<kind, temp>>
-----------------------------------------------------------------------------
(* The task. A tick comes after each interval; a task that has been told to    *)
(* stop may take the tick instead, select! chooses either.                     *)

Distance(t, u) == IF t < u THEN u - t ELSE t - u
Near(k) == Distance(task[k].temp, temp) < Threshold
NowTargets(k) == Targets(kind, task[k].curve, temp)
MayWrite(k, p) == p >= task[k].last \/ task[k].late

End(k, record) == task' = [task EXCEPT ![k] = record]

(* A sensor without a value, or an empty curve. *)
TickPanics(k) ==
    /\ Runs(k)
    /\ "sensor" \in Faults \/ (~Near(k) /\ NowTargets(k) = {})
    /\ End(k, Panicked)
    /\ applied' = None
    /\ UNCHANGED <<kind, handle, calls, temp, hardware>>

TickNear(k) ==
    /\ Runs(k) /\ Near(k)
    /\ task' = [task EXCEPT ![k].since = IF @ = "write" THEN "near" ELSE @]
    /\ UNCHANGED <<kind, handle, calls, temp, hardware, applied>>

(* Slip: last_temp is set before the check of the delay. *)
Slip_TempFirst(k) ==
    /\ Runs(k) /\ ~Near(k)
    /\ \E p \in NowTargets(k) : ~MayWrite(k, p)
    /\ task' = [task EXCEPT ![k].since = "lower", ![k].temp = temp]
    /\ UNCHANGED <<kind, handle, calls, temp, hardware, applied>>

TickWaits(k) ==
    /\ Runs(k) /\ ~Near(k)
    /\ \E p \in NowTargets(k) : ~MayWrite(k, p)
    /\ task' = [task EXCEPT ![k].since = "lower"]
    /\ UNCHANGED <<kind, handle, calls, temp, hardware, applied>>

(* The locals are set before the write. *)
AfterWrite(k, p, works) ==
    [task[k] EXCEPT !.last = p, !.temp = temp, !.works = works, !.late = FALSE, !.since = "write"]

TickWrites(k) ==
    /\ Runs(k) /\ ~Near(k)
    /\ \E p \in NowTargets(k) :
        /\ MayWrite(k, p)
        /\ pwm' = AllFans(Written(kind, p))
        /\ task' = [task EXCEPT ![k] = AfterWrite(k, p, TRUE)]
    /\ mode' = IF kind = "nvidia" THEN AllFans("manual") ELSE mode
    /\ UNCHANGED <<kind, handle, calls, temp, fw, applied>>

(* The error is logged. The task of amd ends if it has never succeeded; that of *)
(* nvidia only skips the other fans.                                           *)
TickFails(k) ==
    /\ "write" \in Faults
    /\ Runs(k) /\ ~Near(k)
    /\ \E p \in NowTargets(k), n \in IF kind = "nvidia" THEN 0..(Fans - 1) ELSE {0} :
        /\ MayWrite(k, p)
        /\ WriteFirst(n, Written(kind, p))
        /\ End(k, IF kind = "amd" /\ ~task[k].works THEN Ended
                  ELSE AfterWrite(k, p, task[k].works))
    /\ applied' = None
    /\ UNCHANGED <<kind, handle, calls, temp, fw>>

Notified(k) ==
    /\ Runs(k) /\ task[k].told
    /\ End(k, Ended)
    /\ UNCHANGED <<kind, handle, calls, temp, hardware, applied>>

(* spindown_delay has passed since the last write; if it is longer than the    *)
(* interval, a tick has come in between and has written nothing.               *)
DelayPasses(k) ==
    /\ Runs(k) /\ ~task[k].late
    /\ LongDelay => task[k].since # "write"
    /\ task' = [task EXCEPT ![k].late = TRUE]
    /\ UNCHANGED <<kind, handle, calls, temp, hardware, applied>>

Heat ==
    /\ temp' \in Temps \ {temp}
    /\ UNCHANGED <<kind, handle, task, calls, hardware, applied>>

-----------------------------------------------------------------------------
Init ==
    /\ kind \in {"amd", "pmfw", "nvidia"}
    /\ handle = None
    /\ task = [k \in FanTask |-> Ended]
    /\ at = [c \in Caller |-> "idle"]
    /\ want = [c \in Caller |-> None]
    /\ waits = [c \in Caller |-> None]
    /\ temp \in Temps
    /\ mode = AllFans("auto") /\ pwm = AllFans(0)
    /\ fw = Off
    /\ applied = None

Call(c) == Refuse(c) \/ ApplyNow(c) \/ ApplyWait(c) \/ Stopped(c)
HealthyTick(k) == TickNear(k) \/ TickWaits(k) \/ TickWrites(k) \/ TickFails(k)
Tick(k) == TickPanics(k) \/ HealthyTick(k)
Task(k) == Tick(k) \/ Notified(k) \/ DelayPasses(k)
Next == (\E c \in Caller : Call(c)) \/ (\E k \in FanTask : Task(k)) \/ Heat

(* A task that has ended wakes the call that awaits it; timers fire; a task    *)
(* that is told to stop notices it. Calls and temperatures need not come, and  *)
(* no sensor has to fail: a tick that changes nothing is not owed a panic.     *)
DueTick(k) == HealthyTick(k) \/ (TickPanics(k) /\ ~Near(k) /\ NowTargets(k) = {})
Fairness ==
    /\ \A c \in Caller : WF_vars(Stopped(c))
    /\ \A k \in FanTask :
        WF_vars(DueTick(k)) /\ WF_vars(Notified(k)) /\ WF_vars(DelayPasses(k))

Spec == Init /\ [][Next]_vars /\ Fairness

-----------------------------------------------------------------------------
(* The types of the variables. *)
TypeOK ==
    /\ kind \in {"amd", "pmfw", "nvidia"}
    /\ handle \in FanTask \cup {None}
    /\ task \in [FanTask -> TaskState]
    /\ at \in [Caller -> {"idle", "stopping"}]
    /\ want \in [Caller -> Settings \cup {None}]
    /\ waits \in [Caller -> FanTask \cup {None}]
    /\ temp \in Temps
    /\ mode \in [Fan -> {"auto", "manual"}]
    /\ pwm \in [Fan -> Byte]
    /\ fw \in Settings
    /\ applied \in Settings \cup {None}

(* At most one task follows a curve: start_curve_fan_control_task and           *)
(* set_static_fan_control stop the existing one first.                          *)
OneTask == \A j, k \in FanTask : Runs(j) /\ Runs(k) => j = k

(* Once apply_config has returned Ok, and as long as no error is logged, the   *)
(* fans are controlled the way the settings say: by the hardware, at the static *)
(* speed with no task that could change it, or by the task of the controller    *)
(* with the curve of the settings, which nobody has told to stop.               *)
SettledFan ==
    applied # None =>
        /\ kind = "pmfw" => fw = applied
        /\ kind # "pmfw" /\ applied.mode = "off" =>
                (\A f \in Fan : mode[f] = "auto") /\ \A k \in FanTask : ~Runs(k)
        /\ kind # "pmfw" /\ applied.mode = "static" =>
                /\ \A f \in Fan : mode[f] = "manual" /\ pwm[f] \in StaticSpeeds(kind, applied.speed)
                /\ \A k \in FanTask : ~Runs(k)
        /\ kind # "pmfw" /\ applied.mode \notin {"off", "static"} =>
                /\ handle # None /\ Runs(handle)
                /\ task[handle].curve = applied.curve /\ ~task[handle].told
                /\ kind = "amd" => \A f \in Fan : mode[f] = "manual"

(* The fans belong to one curve at a time (FanOwner): a curve writes its own    *)
(* speeds only, a new one or a static speed waits until the last has resigned.  *)
CurveOutput == [cv \in Curves |->
    {Written(kd, p) : kd \in {"amd", "nvidia"},
        p \in UNION {Targets("amd", cv, t) \cup Targets("nvidia", cv, t) : t \in Temps}}]
FixedOutput == {0} \cup UNION {StaticSpeeds(kd, s) : kd \in {"amd", "nvidia"}, s \in Fixed}
Driver == IF \E k \in FanTask : Runs(k)
          THEN task[CHOOSE k \in FanTask : Runs(k)].curve ELSE None
Owner == INSTANCE FanOwner WITH
    Output <- CurveOutput, Fixed <- FixedOutput, driver <- Driver
FansHaveOneOwner == Owner!Spec

(* Liveness: every apply_config returns, the stopped task notices. *)
ApplyReturns == \A c \in Caller : at[c] = "stopping" ~> at[c] = "idle"

(* Liveness: once the temperature has settled, the fans get to a speed that the *)
(* curve gives for it or for one closer than the threshold, up and down, through *)
(* both hysteresis settings.                                                    *)
SpeedsNear == [kd \in {"amd", "nvidia"}, cv \in Curves, t \in Temps |->
    {Written(kd, p) : p \in
        UNION {Targets(kd, cv, u) : u \in {v \in Temps : v = t \/ Distance(v, t) < Threshold}}}]
FollowsTemperature ==
    \A cv \in Curves, t \in Temps :
        <>[](applied = Curve(cv) /\ temp = t /\ kind # "pmfw")
            => <>[](kind # "pmfw" /\ \A f \in Fan : pwm[f] \in SpeedsNear[kind, cv, t])

(* A task with a rising curve never lowers the speed when the GPU has become    *)
(* hotter since it last set it: neither pwm_at_temp with its truncation, nor    *)
(* the skipped ticks, nor a write that failed make it do so.                    *)
HotterIsFaster ==
    [][\A k \in FanTask :
        Runs(k) /\ Runs(k)' /\ Rising(task[k].curve) /\ task[k].temp < task'[k].temp
            => task[k].last <= task'[k].last]_vars

=============================================================================
