------------------------------ MODULE Handler ------------------------------
(***************************************************************************)
(* The settings transactions of the LACT daemon                            *)
(* (lact-daemon/src/server/handler.rs): a request edits the settings of a  *)
(* GPU, the new settings are applied to the hardware at once, and a        *)
(* spawned task waits until a client confirms them (they are saved),       *)
(* reverts them, or a timer runs out (the previous settings are applied).  *)
(*                                                                         *)
(* The daemon is one thread that runs many tasks: one for each connection, *)
(* one for each change waiting for confirmation, and three listeners that  *)
(* reload the GPUs, the settings after suspend and the config file.  An    *)
(* action below is what a task does between two awaits, so every await is  *)
(* a point where the other tasks run.  The tasks share the configuration   *)
(* and the GPU controllers, each behind a fair RwLock.                     *)
(*                                                                         *)
(* The configuration is the GPU map of the profile in use; the profiles    *)
(* themselves are not part of this module.                                 *)
(***************************************************************************)
EXTENDS Locks

CONSTANTS
  Conn,         \* connections, each with at most one request in progress
  Slot,         \* identities for the tasks that wait for a confirmation
  Reloader,     \* the task of listen_device_events
  Resumer,      \* the task of suspend::listen_events
  FileWatcher,  \* the task of listen_config_changes
  Gpu,          \* GPU ids
  Val,          \* values of one group of settings
  Default,      \* the value the hardware starts with
  Bad,          \* values the hardware rejects
  Flaky,        \* TRUE: a write to the hardware or to the disk may fail
  Suspends,     \* TRUE: apply_config may wait halfway (see Turn)
  Sequential,   \* TRUE: a single client that waits for each reply
  Ops,          \* the requests and events the environment produces
  None

Listener == {Reloader, Resumer, FileWatcher}
Task == Conn \cup Slot \cup Listener

ASSUME TasksAreDistinct ==
  /\ Conn \cap Slot = {}
  /\ Listener \cap (Conn \cup Slot) = {}
  /\ Reloader # Resumer /\ Reloader # FileWatcher /\ Resumer # FileWatcher
  /\ None \notin Slot

ASSUME DefaultIsAccepted == Default \in Val \ Bad

ASSUME SomeGpu == Gpu # {}

ASSUME FlagsAreBoolean == {Flaky, Suspends, Sequential} \subseteq BOOLEAN

\* apply_config writes the power and clock settings first; the fan settings and
\* the power states come after it has waited for a running fan task to stop.
Field == {"clocks", "fan"}
GpuCfg == [Field -> Val]
DefaultCfg == [f \in Field |-> Default]

\* A map from GPU ids to settings, with entries for some of the GPUs.
Config == UNION {[S -> GpuCfg] : S \in SUBSET Gpu}
Insert(conf, g, n) ==
  [h \in DOMAIN conf \cup {g} |-> IF h = g THEN n ELSE conf[h]]
EntryOf(conf, g) == IF g \in DOMAIN conf THEN conf[g] ELSE DefaultCfg
Empty == [g \in {} |-> DefaultCfg]

VARIABLES
  config,   \* the configuration in memory
  file,     \* the configuration file
  hw,       \* the settings each GPU runs with
  present,  \* the GPUs that have a controller
  cq, gq,   \* the locks of config and gpu_controllers
  tx,       \* confirm_config_tx: whose confirmation channel is stored, or None
  msg,      \* what was sent through each confirmation channel
  pc,       \* the await each task is at
  loc       \* the local variables of each task

settings == <<config, file, hw, present>>
locks == <<cq, gq>>
vars == <<config, file, hw, present, cq, gq, tx, msg, pc, loc>>

Local == [gpu : Gpu, field : Field, val : Val,
          prev : GpuCfg, new : GpuCfg, todo : SUBSET Gpu, conf : Config]
NoLocal == [gpu |-> CHOOSE g \in Gpu : TRUE, field |-> "clocks", val |-> Default,
            prev |-> DefaultCfg, new |-> DefaultCfg, todo |-> {}, conf |-> Empty]

Goto(t, label) == pc' = [pc EXCEPT ![t] = label]
\* The task is done with its request or event.
Return(t) == /\ Goto(t, "idle")
             /\ loc' = [loc EXCEPT ![t] = NoLocal]

-----------------------------------------------------------------------------
(***************************************************************************)
(* apply_config writes one group of settings n[f] to GPU g: the hardware   *)
(* accepts it and the task goes on with done, or refuses it and the task   *)
(* goes on with failed.                                                    *)
(***************************************************************************)
Accepts(g, f, n) == n[f] \notin Bad /\ hw' = [hw EXCEPT ![g][f] = n[f]]
Refuses(f, n) == (Flaky \/ n[f] \in Bad) /\ UNCHANGED hw
Apply(g, f, n, done, failed) == \/ Accepts(g, f, n) /\ done
                                \/ Refuses(f, n) /\ failed

\* Config::save of the new configuration; an error of the disk is only logged.
Save == \/ file' = config'
        \/ Flaky /\ UNCHANGED file

-----------------------------------------------------------------------------
(***************************************************************************)
(* The confirmation channel.                                               *)
(***************************************************************************)
Listening == {"spawned", "confirm_gpu", "confirm_wait"}

\* Replacing or clearing the stored sender drops it, which its receiver sees.
SenderDropped == IF tx \in Slot /\ pc[tx] \in Listening
                 THEN [msg EXCEPT ![tx] = "dropped"]
                 ELSE msg

FreeSlots == {k \in Slot : pc[k] = "free" \/ (pc[k] = "panicked" /\ tx # k)}

\* A confirmation task the runtime has yet to poll.
Runnable(k) == \/ pc[k] = "spawned"
               \/ pc[k] = "confirm_gpu" /\ Holds(gq, k)
               \/ pc[k] = "confirm_wait" /\ msg[k] # "none"
               \/ pc[k] = "save_cfg" /\ Holds(cq, k)

\* A connection starts on its next request.  The tasks that a request wakes
\* are polled before the client has its reply and can send another request,
\* but not before the request of another client.
NewRequest(c, op) ==
  /\ op \in Ops
  /\ pc[c] = "idle"
  /\ Sequential => \A k \in Slot : ~Runnable(k)

-----------------------------------------------------------------------------
(***************************************************************************)
(* edit_gpu_config: refused when a sender is stored (nothing changes).     *)
(***************************************************************************)
NoChangePending == tx = None

\* The request names a GPU and the settings it wants.
Select(c, g, f, v) ==
  loc' = [loc EXCEPT ![c].gpu = g, ![c].field = f, ![c].val = v]

StartEdit(c) ==
  /\ NewRequest(c, "edit")
  /\ NoChangePending
  /\ \E g \in Gpu, f \in Field, v \in Val : Select(c, g, f, v)
  /\ cq' = Request(cq, c, "r")
  /\ Goto(c, "edit_cfg")
  /\ UNCHANGED <<settings, gq, tx, msg>>

\* set_fan_control looks up the existing fan settings first, in an entry it
\* creates when there is none and does not save.
StartFan(c) ==
  /\ NewRequest(c, "fan")
  /\ \E g \in Gpu, v \in Val : Select(c, g, "fan", v)
  /\ cq' = Request(cq, c, "w")
  /\ Goto(c, "fan_cfg")
  /\ UNCHANGED <<settings, gq, tx, msg>>

\* The check of edit_gpu_config, when the request had something to do before it.
EnterEdit(c, q) ==
  \/ /\ NoChangePending
     /\ cq' = Request(q, c, "r")
     /\ Goto(c, "edit_cfg")
     /\ UNCHANGED loc
  \/ /\ ~NoChangePending
     /\ cq' = q
     /\ Return(c)

FanEntry(c) ==
  /\ pc[c] = "fan_cfg" /\ Holds(cq, c)
  /\ config' = Insert(config, loc[c].gpu, EntryOf(config, loc[c].gpu))
  /\ \/ EnterEdit(c, Release(cq, c))
     \/ /\ cq' = Release(cq, c)  \* the speed or the curve is invalid
        /\ Return(c)
  /\ UNCHANGED <<file, hw, present, gq, tx, msg>>

\* reset_pmfw, and set_clocks_value for a reset, reset the hardware before they
\* edit the configuration.
StartReset(c) ==
  /\ NewRequest(c, "reset")
  /\ \E g \in Gpu, f \in Field : Select(c, g, f, Default)
  /\ gq' = Request(gq, c, "r")
  /\ Goto(c, "reset_gpu")
  /\ UNCHANGED <<settings, cq, tx, msg>>

ResetHardware(c) ==
  /\ pc[c] = "reset_gpu" /\ Holds(gq, c)
  /\ gq' = Release(gq, c)
  /\ \/ /\ loc[c].gpu \in present
        /\ hw' = [hw EXCEPT ![loc[c].gpu][loc[c].field] = Default]
        /\ EnterEdit(c, cq)
     \/ /\ loc[c].gpu \notin present \/ (Flaky /\ loc[c].field = "clocks")
        /\ Return(c)
        /\ UNCHANGED <<hw, cq>>
  /\ UNCHANGED <<config, file, present, tx, msg>>

\* Slip: the settings to revert to are cloned after the edit.
Slip_CloneAfterEdit(c) ==
  /\ pc[c] = "edit_cfg" /\ Holds(cq, c)
  /\ LET n == [EntryOf(config, loc[c].gpu) EXCEPT ![loc[c].field] = loc[c].val]
     IN  loc' = [loc EXCEPT ![c].prev = n, ![c].new = n]
  /\ cq' = Release(cq, c)
  /\ gq' = Request(gq, c, "r")
  /\ Goto(c, "edit_gpu")
  /\ UNCHANGED <<settings, tx, msg>>

\* The settings before and after the edit; the guard is dropped again.
ReadConfig(c) ==
  /\ pc[c] = "edit_cfg" /\ Holds(cq, c)
  /\ LET old == EntryOf(config, loc[c].gpu)
     IN  loc' = [loc EXCEPT ![c].prev = old,
                            ![c].new = [old EXCEPT ![loc[c].field] = loc[c].val]]
  /\ cq' = Release(cq, c)
  /\ gq' = Request(gq, c, "r")
  /\ Goto(c, "edit_gpu")
  /\ UNCHANGED <<settings, tx, msg>>

EditClocks(c) ==
  /\ pc[c] = "edit_gpu" /\ Holds(gq, c)
  /\ \/ /\ loc[c].gpu \in present
        /\ Apply(loc[c].gpu, "clocks", loc[c].new,
                 Goto(c, "edit_fan"), Goto(c, "undo"))
        /\ UNCHANGED <<gq, loc>>
     \/ /\ loc[c].gpu \notin present
        /\ gq' = Release(gq, c)
        /\ Return(c)
        /\ UNCHANGED hw
  /\ UNCHANGED <<config, file, present, cq, tx, msg>>

\* Slip: what is stored is not the channel of the task that is spawned.
Slip_WrongSender(c) == \E k \in FreeSlots :
  /\ tx' = c
  /\ msg' = [SenderDropped EXCEPT ![k] = "none"]
  /\ pc' = [pc EXCEPT ![c] = "idle", ![k] = "spawned"]
  /\ loc' = [loc EXCEPT ![k] = loc[c], ![c] = NoLocal]
  /\ gq' = Release(gq, c)

\* wait_config_confirm: store a new sender and spawn the task that listens.
AwaitConfirm(c) == \E k \in FreeSlots :
  /\ tx' = k
  /\ msg' = [SenderDropped EXCEPT ![k] = "none"]
  /\ pc' = [pc EXCEPT ![c] = "idle", ![k] = "spawned"]
  /\ loc' = [loc EXCEPT ![k] = loc[c], ![c] = NoLocal]
  /\ gq' = Release(gq, c)

\* Slip: the outcome of apply_config is ignored.
Slip_IgnoreError(c) ==
  /\ pc[c] = "edit_fan"
  /\ Apply(loc[c].gpu, "fan", loc[c].new, AwaitConfirm(c), AwaitConfirm(c))
  /\ UNCHANGED <<config, file, present, cq>>

EditFan(c) ==
  /\ pc[c] = "edit_fan"
  /\ Apply(loc[c].gpu, "fan", loc[c].new,
           AwaitConfirm(c),
           Goto(c, "undo") /\ UNCHANGED <<gq, tx, msg, loc>>)
  /\ UNCHANGED <<config, file, present, cq>>

\* Where a request that has failed, and a confirmation task, end: the
\* controller is released, and the task clears the stored sender, whosever it is.
FailEdit(c) ==
  /\ Return(c)
  /\ gq' = Release(gq, c)
  /\ UNCHANGED <<tx, msg>>

\* Slip: the sender stays stored.
Slip_KeepSender(k) ==
  /\ Goto(k, "free")
  /\ loc' = [loc EXCEPT ![k] = NoLocal]
  /\ gq' = Release(gq, k)
  /\ UNCHANGED <<tx, msg>>

EndConfirm(k) ==
  /\ tx' = None
  /\ msg' = SenderDropped
  /\ Goto(k, "free")
  /\ loc' = [loc EXCEPT ![k] = NoLocal]
  /\ gq' = Release(gq, k)

\* The previous settings are applied, by the request after an error and by
\* the confirmation task after a revert.
Undone(t) == (t \in Conn /\ FailEdit(t)) \/ (t \in Slot /\ EndConfirm(t))

UndoClocks(t) ==
  /\ pc[t] = "undo"
  /\ Apply(loc[t].gpu, "clocks", loc[t].prev,
           Goto(t, "undo_fan") /\ UNCHANGED <<gq, tx, msg, loc>>,
           Undone(t))
  /\ UNCHANGED <<config, file, present, cq>>

UndoFan(t) ==
  /\ pc[t] = "undo_fan"
  /\ Apply(loc[t].gpu, "fan", loc[t].prev, Undone(t), Undone(t))
  /\ UNCHANGED <<config, file, present, cq>>

-----------------------------------------------------------------------------
(***************************************************************************)
(* The task that waits for the confirmation.  It holds the controller, and *)
(* with it the read lock of gpu_controllers, until it ends.                *)
(***************************************************************************)
SpawnedPoll(k) ==
  /\ pc[k] = "spawned"
  /\ gq' = Request(gq, k, "r")
  /\ Goto(k, "confirm_gpu")
  /\ UNCHANGED <<settings, cq, tx, msg, loc>>

\* expect("GPU controller disappeared"): the task dies, its sender stays stored.
HoldController(k) ==
  /\ pc[k] = "confirm_gpu" /\ Holds(gq, k)
  /\ \/ /\ loc[k].gpu \in present
        /\ Goto(k, "confirm_wait")
        /\ UNCHANGED <<gq, msg, loc>>
     \/ /\ loc[k].gpu \notin present
        /\ Goto(k, "panicked")
        /\ gq' = Release(gq, k)
        /\ msg' = [msg EXCEPT ![k] = "none"]
        /\ loc' = [loc EXCEPT ![k] = NoLocal]
  /\ UNCHANGED <<settings, cq, tx>>

\* The branches of the select!.  When the timer has run out and a message has
\* come, either may be taken.
TimerExpires(k) ==
  /\ pc[k] = "confirm_wait"
  /\ Goto(k, "undo")
  /\ msg' = [msg EXCEPT ![k] = "none"]
  /\ UNCHANGED <<settings, locks, tx, loc>>

ReceiveConfirm(k) ==
  /\ pc[k] = "confirm_wait" /\ msg[k] = "confirm"
  /\ cq' = Request(cq, k, "w")
  /\ Goto(k, "save_cfg")
  /\ msg' = [msg EXCEPT ![k] = "none"]
  /\ UNCHANGED <<settings, gq, tx, loc>>

ReceiveRevert(k) ==
  /\ pc[k] = "confirm_wait" /\ msg[k] \in {"revert", "dropped"}
  /\ Goto(k, "undo")
  /\ msg' = [msg EXCEPT ![k] = "none"]
  /\ UNCHANGED <<settings, locks, tx, loc>>

\* Slip: the new settings are not saved.
Slip_NoSave(k) ==
  /\ pc[k] = "save_cfg" /\ Holds(cq, k)
  /\ config' = Insert(config, loc[k].gpu, loc[k].new)
  /\ cq' = Release(cq, k)
  /\ EndConfirm(k)
  /\ UNCHANGED <<file, hw, present>>

SaveConfirmed(k) ==
  /\ pc[k] = "save_cfg" /\ Holds(cq, k)
  /\ config' = Insert(config, loc[k].gpu, loc[k].new)
  /\ Save
  /\ cq' = Release(cq, k)
  /\ EndConfirm(k)
  /\ UNCHANGED <<hw, present>>

\* confirm_pending_config takes the sender; nothing is awaited.
ConfirmPending(c) ==
  /\ NewRequest(c, "confirm")
  /\ tx # None
  /\ tx' = None
  /\ \E command \in {"confirm", "revert"} :
       msg' = IF pc[tx] \in Listening THEN [msg EXCEPT ![tx] = command] ELSE msg
  /\ UNCHANGED <<settings, locks, pc, loc>>

-----------------------------------------------------------------------------
(***************************************************************************)
(* Requests that read: get_gpu_stats and get_power_states hold the         *)
(* configuration while they wait for the controllers.                      *)
(***************************************************************************)
StartStats(c) ==
  /\ NewRequest(c, "stats")
  /\ cq' = Request(cq, c, "r")
  /\ Goto(c, "stats_cfg")
  /\ UNCHANGED <<settings, gq, tx, msg, loc>>

StatsController(c) ==
  /\ pc[c] = "stats_cfg" /\ Holds(cq, c)
  /\ gq' = Request(gq, c, "r")
  /\ Goto(c, "stats_gpu")
  /\ UNCHANGED <<settings, cq, tx, msg, loc>>

\* Slip: the guard of the configuration is leaked.
Slip_LeakGuard(c) ==
  /\ pc[c] = "stats_gpu" /\ Holds(gq, c)
  /\ gq' = Release(gq, c)
  /\ Return(c)
  /\ UNCHANGED <<settings, cq, tx, msg>>

ReadStats(c) ==
  /\ pc[c] = "stats_gpu" /\ Holds(gq, c)
  /\ gq' = Release(gq, c)
  /\ cq' = Release(cq, c)
  /\ Return(c)
  /\ UNCHANGED <<settings, tx, msg>>

\* list_devices, get_device_info, get_clocks_info, get_power_profile_modes and
\* vbios_dump.
StartInfo(c) ==
  /\ NewRequest(c, "info")
  /\ gq' = Request(gq, c, "r")
  /\ Goto(c, "info_gpu")
  /\ UNCHANGED <<settings, cq, tx, msg, loc>>

ReadInfo(c) ==
  /\ pc[c] = "info_gpu" /\ Holds(gq, c)
  /\ gq' = Release(gq, c)
  /\ Return(c)
  /\ UNCHANGED <<settings, cq, tx, msg>>

\* generate_snapshot holds the controllers, waits for journalctl, and asks for
\* them a second time in generate_snapshot_device_info.
StartSnapshot(c) ==
  /\ NewRequest(c, "snapshot")
  /\ gq' = Request(gq, c, "r")
  /\ Goto(c, "snapshot_gpu")
  /\ UNCHANGED <<settings, cq, tx, msg, loc>>

SnapshotFiles(c) ==
  /\ pc[c] = "snapshot_gpu" /\ Holds(gq, c)
  /\ \/ Goto(c, "snapshot_cmd") /\ UNCHANGED <<gq, loc>>
     \/ Return(c) /\ gq' = Release(gq, c)  \* a file could not be archived
  /\ UNCHANGED <<settings, cq, tx, msg>>

SnapshotDevices(c) ==
  /\ pc[c] = "snapshot_cmd"
  /\ gq' = Request(gq, c, "r")
  /\ Goto(c, "snapshot_gpu2")
  /\ UNCHANGED <<settings, cq, tx, msg, loc>>

SnapshotConfig(c) ==
  /\ pc[c] = "snapshot_gpu2" /\ Holds(gq, c)
  /\ cq' = Request(cq, c, "r")
  /\ Goto(c, "snapshot_cfg")
  /\ UNCHANGED <<settings, gq, tx, msg, loc>>

EndSnapshot(c) ==
  /\ pc[c] = "snapshot_cfg" /\ Holds(cq, c)
  /\ cq' = Release(cq, c)
  /\ gq' = Release(Release(gq, c), c)
  /\ Return(c)
  /\ UNCHANGED <<settings, tx, msg>>

-----------------------------------------------------------------------------
(***************************************************************************)
(* reset_config: every controller is put back to the defaults (cleanup),   *)
(* then the configuration is cleared.  A change that waits for its         *)
(* confirmation goes on waiting.                                           *)
(***************************************************************************)
StartCleanup(c) ==
  /\ NewRequest(c, "clear")
  /\ cq' = Request(cq, c, "r")
  /\ Goto(c, "clean_cfg")
  /\ UNCHANGED <<settings, gq, tx, msg, loc>>

CleanupControllers(c) ==
  /\ pc[c] = "clean_cfg" /\ Holds(cq, c)
  /\ cq' = Release(cq, c)
  /\ gq' = Request(gq, c, "r")
  /\ Goto(c, "clean_gpu")
  /\ UNCHANGED <<settings, tx, msg, loc>>

\* The loop of cleanup goes on with the controllers of todo, or is over.
CleanupNext(c, todo) ==
  /\ loc' = [loc EXCEPT ![c].todo = todo]
  /\ IF todo # {}
     THEN /\ Goto(c, "clean")
          /\ UNCHANGED <<cq, gq>>
     ELSE /\ Goto(c, "clear_cfg")
          /\ gq' = Release(gq, c)
          /\ cq' = Request(cq, c, "w")

CleanupStart(c) ==
  /\ pc[c] = "clean_gpu" /\ Holds(gq, c)
  /\ CleanupNext(c, present)
  /\ UNCHANGED <<settings, tx, msg>>

\* cleanup_clocks, reset_pmfw_settings and the start of apply_config(default).
CleanClocks(c) == \E g \in loc[c].todo :
  /\ pc[c] = "clean"
  /\ \/ /\ hw' = [hw EXCEPT ![g] = DefaultCfg]
        /\ loc' = [loc EXCEPT ![c].gpu = g]
        /\ Goto(c, "clean_fan")
        /\ UNCHANGED locks
     \/ /\ Flaky
        /\ hw' = [hw EXCEPT ![g]["fan"] = Default]
        /\ CleanupNext(c, loc[c].todo \ {g})
  /\ UNCHANGED <<config, file, present, tx, msg>>

CleanFan(c) ==
  /\ pc[c] = "clean_fan"
  /\ LET next == CleanupNext(c, loc[c].todo \ {loc[c].gpu})
     IN  Apply(loc[c].gpu, "fan", DefaultCfg, next, next)
  /\ UNCHANGED <<config, file, present, tx, msg>>

ClearConfig(c) ==
  /\ pc[c] = "clear_cfg" /\ Holds(cq, c)
  /\ config' = Empty
  /\ Save
  /\ cq' = Release(cq, c)
  /\ Return(c)
  /\ UNCHANGED <<hw, present, gq, tx, msg>>

-----------------------------------------------------------------------------
(***************************************************************************)
(* The listeners.  Each of them ends with apply_current_config, which      *)
(* holds both locks while it applies the entries of the configuration.     *)
(***************************************************************************)
ApplyCurrentConfig(t, q) ==
  /\ cq' = Request(q, t, "r")
  /\ Goto(t, "apply_cfg")

\* load_controllers finds some of the GPUs; the map is replaced when it is free.
StartReload ==
  /\ "reload" \in Ops /\ pc[Reloader] = "idle"
  /\ \E found \in SUBSET Gpu : loc' = [loc EXCEPT ![Reloader].todo = found]
  /\ gq' = Request(gq, Reloader, "w")
  /\ Goto(Reloader, "reload_gpu")
  /\ UNCHANGED <<settings, cq, tx, msg>>

\* Slip: the map is replaced while others read it.
Slip_ReplaceAtOnce ==
  /\ pc[Reloader] = "reload_gpu"
  /\ present' = loc[Reloader].todo
  /\ hw' = [g \in Gpu |-> IF g \in present' \ present THEN DefaultCfg ELSE hw[g]]
  /\ gq' = Release(gq, Reloader)
  /\ ApplyCurrentConfig(Reloader, cq)
  /\ UNCHANGED <<config, file, tx, msg, loc>>

\* A GPU that was away has lost its settings.
ReplaceControllers ==
  /\ pc[Reloader] = "reload_gpu" /\ Holds(gq, Reloader)
  /\ present' = loc[Reloader].todo
  /\ hw' = [g \in Gpu |-> IF g \in present' \ present THEN DefaultCfg ELSE hw[g]]
  /\ gq' = Release(gq, Reloader)
  /\ ApplyCurrentConfig(Reloader, cq)
  /\ UNCHANGED <<config, file, tx, msg, loc>>

StartResume ==
  /\ "resume" \in Ops /\ pc[Resumer] = "idle"
  /\ ApplyCurrentConfig(Resumer, cq)
  /\ UNCHANGED <<settings, gq, tx, msg, loc>>

\* The user edits the settings of a GPU in the file, or removes its entry.
StartFileChange ==
  /\ "file" \in Ops /\ pc[FileWatcher] = "idle"
  /\ \E g \in Gpu :
       \/ \E n \in GpuCfg : file' = Insert(file, g, n)
       \/ file' = [h \in DOMAIN file \ {g} |-> file[h]]
  /\ loc' = [loc EXCEPT ![FileWatcher].conf = file']
  /\ cq' = Request(cq, FileWatcher, "w")
  /\ Goto(FileWatcher, "file_cfg")
  /\ UNCHANGED <<config, hw, present, gq, tx, msg>>

ReplaceConfig ==
  /\ pc[FileWatcher] = "file_cfg" /\ Holds(cq, FileWatcher)
  /\ config' = loc[FileWatcher].conf
  /\ ApplyCurrentConfig(FileWatcher, Release(cq, FileWatcher))
  /\ UNCHANGED <<file, hw, present, gq, tx, msg, loc>>

ApplyControllers(t) ==
  /\ pc[t] = "apply_cfg" /\ Holds(cq, t)
  /\ gq' = Request(gq, t, "r")
  /\ Goto(t, "apply_gpu")
  /\ UNCHANGED <<settings, cq, tx, msg, loc>>

ApplyNext(t, todo) ==
  IF todo # {}
  THEN /\ Goto(t, "apply")
       /\ loc' = [loc EXCEPT ![t].todo = todo]
       /\ UNCHANGED <<cq, gq>>
  ELSE /\ Return(t)
       /\ cq' = Release(cq, t)
       /\ gq' = Release(gq, t)

ApplyStart(t) ==
  /\ pc[t] = "apply_gpu" /\ Holds(gq, t)
  /\ ApplyNext(t, DOMAIN config \cap present)
  /\ UNCHANGED <<settings, tx, msg>>

ApplyClocks(t) == \E g \in loc[t].todo :
  /\ pc[t] = "apply"
  /\ Apply(g, "clocks", EntryOf(config, g),
           /\ Goto(t, "apply_fan")
           /\ loc' = [loc EXCEPT ![t].gpu = g]
           /\ UNCHANGED locks,
           ApplyNext(t, loc[t].todo \ {g}))
  /\ UNCHANGED <<config, file, present, tx, msg>>

ApplyFan(t) ==
  /\ pc[t] = "apply_fan"
  /\ LET next == ApplyNext(t, loc[t].todo \ {loc[t].gpu})
     IN  Apply(loc[t].gpu, "fan", EntryOf(config, loc[t].gpu), next, next)
  /\ UNCHANGED <<config, file, present, tx, msg>>

-----------------------------------------------------------------------------
\* The daemon has just applied its configuration (Handler::with_base_path).
Init ==
  /\ config \in UNION {[S -> [Field -> Val \ Bad]] : S \in SUBSET Gpu}
  /\ file = config
  /\ hw = [g \in Gpu |-> EntryOf(config, g)]
  /\ present = Gpu
  /\ cq = <<>> /\ gq = <<>>
  /\ tx = None
  /\ msg = [k \in Slot |-> "none"]
  /\ pc = [t \in Task |-> IF t \in Slot THEN "free" ELSE "idle"]
  /\ loc = [t \in Task |-> NoLocal]

\* apply_config waits for a running fan task to stop, and for the GPU to clock
\* down before it lowers the power cap.  On a GPU with firmware fan curves and
\* no power cap it never waits, and then no other task runs before it is done.
Applying == {t \in Task : pc[t] \in {"edit_fan", "undo", "undo_fan", "clean",
                                    "clean_fan", "apply", "apply_fan"}}
Turn(t) == Suspends \/ Applying \subseteq {t}

\* What clients and the system may do, at any time or never.
Arrive(c) == Turn(c) /\
  ( \/ StartEdit(c) \/ StartFan(c) \/ StartReset(c) \/ ConfirmPending(c)
    \/ StartStats(c) \/ StartInfo(c) \/ StartSnapshot(c) \/ StartCleanup(c) )
Event ==
  \/ Turn(Reloader) /\ StartReload
  \/ Turn(Resumer) /\ StartResume
  \/ Turn(FileWatcher) /\ StartFileChange

\* What the runtime does with a task that can go on.
ServeEdit(c) ==
  \/ FanEntry(c) \/ ResetHardware(c)
  \/ ReadConfig(c) \/ EditClocks(c) \/ EditFan(c) \/ UndoClocks(c) \/ UndoFan(c)
ServeRead(c) ==
  \/ StatsController(c) \/ ReadStats(c) \/ ReadInfo(c)
  \/ SnapshotFiles(c) \/ SnapshotDevices(c) \/ SnapshotConfig(c) \/ EndSnapshot(c)
ServeClear(c) ==
  \/ CleanupControllers(c) \/ CleanupStart(c)
  \/ CleanClocks(c) \/ CleanFan(c) \/ ClearConfig(c)
Serve(c) == Turn(c) /\ (ServeEdit(c) \/ ServeRead(c) \/ ServeClear(c))
Decide(k) == Turn(k) /\
  ( \/ SpawnedPoll(k) \/ HoldController(k)
    \/ TimerExpires(k) \/ ReceiveConfirm(k) \/ ReceiveRevert(k)
    \/ SaveConfirmed(k) \/ UndoClocks(k) \/ UndoFan(k) )
Listen(t) == Turn(t) /\
  ( \/ t = Reloader /\ ReplaceControllers
    \/ t = FileWatcher /\ ReplaceConfig
    \/ ApplyControllers(t) \/ ApplyStart(t) \/ ApplyClocks(t) \/ ApplyFan(t) )

Next ==
  \/ \E c \in Conn : Arrive(c) \/ Serve(c)
  \/ \E k \in Slot : Decide(k)
  \/ \E t \in Listener : Listen(t)
  \/ Event

\* tokio polls every task that has been woken, timers fire, and what
\* apply_config waits for ends; clients and events owe nothing.
Fairness ==
  /\ \A c \in Conn : WF_vars(Serve(c))
  /\ \A k \in Slot : WF_vars(Decide(k))
  /\ \A t \in Listener : WF_vars(Listen(t))

Spec == Init /\ [][Next]_vars /\ Fairness

-----------------------------------------------------------------------------
(***************************************************************************)
(* Properties.                                                             *)
(***************************************************************************)
ConnLabels == {"idle", "fan_cfg", "reset_gpu", "edit_cfg", "edit_gpu", "edit_fan",
  "undo", "undo_fan", "stats_cfg", "stats_gpu", "info_gpu", "snapshot_gpu",
  "snapshot_cmd", "snapshot_gpu2", "snapshot_cfg", "clean_cfg", "clean_gpu",
  "clean", "clean_fan", "clear_cfg"}
SlotLabels == {"free", "spawned", "confirm_gpu", "confirm_wait", "save_cfg",
  "undo", "undo_fan", "panicked"}
ListenerLabels == {"idle", "reload_gpu", "file_cfg", "apply_cfg", "apply_gpu",
  "apply", "apply_fan"}
Labels == ConnLabels \cup SlotLabels \cup ListenerLabels

\* Every variable has its type (the fields of Handler and the tasks' locals).
TypeOK ==
  /\ config \in Config /\ file \in Config
  /\ hw \in [Gpu -> GpuCfg]
  /\ present \in SUBSET Gpu
  /\ cq \in Seq(LockRequests(Task)) /\ gq \in Seq(LockRequests(Task))
  /\ tx \in Slot \cup {None}
  /\ msg \in [Slot -> {"none", "confirm", "revert", "dropped"}]
  /\ pc \in [Task -> Labels]
  /\ loc \in [Task -> Local]

\* Once every task is at rest, each GPU runs with the settings in memory, and
\* these are the settings a restart would read from the file: whatever was
\* confirmed, reverted, refused or timed out has left no trace on one side only.
AtRest == \A t \in Task : pc[t] \in {"idle", "free"}
SettledAgree ==
  AtRest => \A g \in present :
    /\ hw[g] = EntryOf(config, g)
    /\ EntryOf(file, g) = EntryOf(config, g)

\* What a revert or a timeout restores is what the configuration holds: nobody
\* has saved other settings of that GPU since edit_gpu_config read them.
RevertsToSaved ==
  \A k \in Slot : pc[k] \in SlotLabels \ {"free", "panicked"} =>
    loc[k].prev = EntryOf(config, loc[k].gpu)

\* Settings the hardware refuses never reach the configuration or the file,
\* unless the user writes them to the file: wait_config_confirm comes after
\* apply_config has returned Ok.
Accepted(n) == \A f \in Field : n[f] \notin Bad
SavedIsAccepted ==
  "file" \notin Ops =>
    /\ \A g \in DOMAIN config : Accepted(config[g])
    /\ \A g \in DOMAIN file : Accepted(file[g])

\* The controllers and entries a task works on are still in the maps: neither
\* map changes while one of its guards is alive, however the tasks interleave.
ControllersStay ==
  \A t \in Task :
    /\ pc[t] \in {"edit_fan", "undo", "undo_fan", "confirm_wait", "save_cfg",
                  "clean_fan", "apply_fan"} => loc[t].gpu \in present
    /\ pc[t] \in {"clean", "clean_fan", "apply", "apply_fan"} =>
         loc[t].todo # {} /\ loc[t].todo \subseteq present
    /\ pc[t] \in {"apply", "apply_fan"} => loc[t].todo \subseteq DOMAIN config

\* docs/API.md: the daemon returns an answer for every request.
EveryRequestAnswered == \A c \in Conn : pc[c] # "idle" ~> pc[c] = "idle"

\* A change is confirmed or reverted in the end: its task ends, and later
\* edits are no longer refused on its account.
ChangesAreDecided == \A k \in Slot : pc[k] = "spawned" ~> pc[k] = "free" /\ tx # k
=============================================================================
