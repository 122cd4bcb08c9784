# A formal model of LACT

LACT configures GPUs under Linux. A daemon (`lact-daemon`) owns the hardware and
a configuration file; a user interface (`lact-gui`), a command line and other
programs talk to it over a socket, through a client library (`lact-client`).
This directory holds TLA+ modules that model the daemon, the library and the
user interface, the TLC configurations that check them and proofs for TLAPS.

Paths below are relative to `src/`; `handler.rs` is
`lact-daemon/src/server/handler.rs`, `header.rs` is
`lact-gui/src/app/header.rs`, `amd.rs`, `nvidia.rs` and `intel.rs` are in
`lact-daemon/src/server/gpu_controller/`.

1. [The system](#1-the-system)
2. [The modules](#2-the-modules)
3. [Properties and runs](#3-properties-and-runs)
4. [Proofs](#4-proofs)
5. [Not modelled](#5-not-modelled) and [what is left](#6-plan)

## 1. The system

The daemon is **one thread**. `lib.rs` starts a tokio current-thread runtime with
a `LocalSet`; every connection, listener and timer is a task of it. Two tasks
never run at the same time, but every `.await` that is not ready is a point where
others run, so what a task has read before an await may be stale after it. The
user interface is one thread as well: a component (relm4) handles its messages
one after the other, while clicks and signals of the widgets go on whenever a
message waits for the daemon.

| part | state | operations | interacts with | hard behaviour | what makes it correct |
|---|---|---|---|---|---|
| Settings transactions (`server/handler.rs`) | `config`, `gpu_controllers` (each behind a fair `RwLock`), `confirm_config_tx` | the setters, all through `edit_gpu_config`; `confirm_pending_config`; `reset_config`; `reload_gpus`; `apply_current_config` | clients, controllers, file, listeners | awaits between check and use, a task per change, timer against message, locks in both orders | hardware, configuration and file agree; a revert restores what is saved; refused settings are never saved; requests are answered |
| Profiles and watcher (`server/profiles.rs`) | `profiles`, `current_profile`, the command channel, the watcher's state | switch, create, delete, move, rules; start, stop and update of the watcher | handler, process events, gamemode | lookup and use apart, a channel of five, a watcher that restarts itself | the profile in use exists and its settings are applied; one watcher, which can be stopped |
| Process list (`lact-schema/src/profiles.rs`) | processes by pid, pids by name | push, remove | watcher | reused pids, missed exits | the two maps are inverse of each other |
| Configuration file (`config.rs`) | the file, the time of the last save, a queue of loaded configurations | load, save, watch, migrate | handler, user | events of its own saves, debounce, a crash while writing | an edit of the user is not lost; a stale file does not replace newer settings |
| AMD, Nvidia and Intel controllers (`server/gpu_controller/`) | the hardware, a record of clock offsets (Nvidia), the first power cap (Intel) | `apply_config`, `cleanup_clocks`, reads | handler, fan task | a sequence of writes of which each may fail | the hardware has the settings of the configuration; cleanup brings back the defaults of what the code resets |
| Fan control (`amd.rs`, `nvidia.rs`, `fan_control.rs`) | handle and notify of a task, last speed and temperature | start, stop, tick | controller | take, await, store; a task that panics | at most one task writes the speed; a stopped one no longer does |
| Server and client (`server.rs`, `lact-client`) | a stream with buffers on both sides, a mutex | request, reconnect | handler, user interface | a repeated request after a lost answer, an aborted call | an answer for every request, its own |
| Start, devices (`lib.rs`, `socket.rs`) | the socket file, a notification | start, signal, debounce, reload | handler | a crash, a stream of events | the daemon can be started again; a change of the GPUs is seen in the end |
| User interface, main component (`lact-gui/src/app.rs`) | the message in progress, dialogs with countdowns | apply, reset, reload, confirm | client, pages | its countdown against the daemon's timer, an apply of several edits | what is shown is what is saved, clocks are kept only by the user |
| Pages (`app/pages/`) | values of the widgets, whether they were changed | show, change, collect | main component | a reload while the user goes on, reads that fail one by one | a change can be applied |
| Header and rule window (`app/header.rs`, `app/header/`) | rows, selection, buffers of the window | select, toggle, create, delete, move, edit a rule | main component, daemon | signals of rows that are rebuilt, polling | the selected row is the profile in use; only a click sets one |

`PROJECT.json` lists the components with their status and the hazards of this
code, each at its line, with the properties that would catch it, or why none does.

## 2. The modules

| module | stands for |
|---|---|
| `Locks` | `tokio::sync::RwLock`, from how the daemon uses it |
| `Handler` | the settings transactions, with listeners, timer and clients |
| `FanCurve` | `pwm_at_temp` of `fan_control.rs` |
| `FanControl` | the fans of one GPU: `apply_config` as far as it concerns them, and the task that follows a curve |
| `FanOwner` | the abstract specification of `FanControl` |
| `ProcessList` | `ProfileWatcherState`, and the evaluation of the rules |
| `Profiles` | the requests for profiles, `set_current_profile`, the watcher tasks |
| `GpuController` | the trait of the three controllers: calls, writes that fail |
| `AmdApply`, `NvidiaApply`, `IntelApply` | `apply_config` and cleanup of each vendor |
| `GpuApply` | one GPU with the controller of its driver |
| `Client` | the client library, its tasks, and the server's loop of a connection |
| `Daemon` | start, end and crash of the daemon, the configuration file and its watcher, kernel events |
| `Pages` | what the settings pages show, change and send |
| `App` | the main component of the user interface, dialogs, and a daemon with one change to be confirmed |
| `RuleWindow` | the window for the rule of a profile |
| `Header` | the header with the profile selector, and the requests made for it |
| `MCHandler`, `MCFanControl`, `MCProfiles`, `MCGpuApply`, `MCDaemon`, `MCHeader` | values of the constants for TLC |
| `HandlerProofs` (with the facts about `Locks`), `FanProofs`, `ProfilesProofs`, `GpuProofs`, `ClientProofs`, `DaemonProofs`, `AppProofs`, `HeaderProofs` | the proofs |

`Handler` uses `Locks`; `Profiles` extends `ProcessList`; `GpuApply` composes the
three vendors over `GpuController`; `App` composes `Pages` with the daemon's side
of a change, `Header` composes `RuleWindow` with the daemon's side of profiles.
`FanControl` implements `FanOwner` by a refinement mapping.

The same code appears in several views where its parts ask different questions.
`apply_config` is one place to wait in `Handler`, a wait for a particular task in
`FanControl`, and a sequence of writes in `GpuApply`. `set_current_profile` is
four steps in `Profiles`, whose inner locks are those of `Handler`. A change that
waits for its confirmation is a task in `Handler` and one variable in `App`.

### Locks

A lock is a queue of requests. `Request` is the first poll of `read().await` or
`write().await`, `Holds` says that it is granted, `Release` is the drop of a
guard. The lock is fair: a reader waits behind a writer that came first, even
while other readers hold the lock. This is what makes a second read by the same
task dangerous.

### Handler

`pc[t]` is the await at which task `t` is, `loc[t]` its local variables. An
action is what a task does from one await to the next; the label says what it
waits for (`_cfg` the configuration's lock, `_gpu` the controllers' lock).

| variable | code |
|---|---|
| `config` | the GPU map of the profile in use (`Config::gpus`) |
| `file` | `/etc/lact/config.yaml` |
| `hw` | what the GPUs run with |
| `present` | the keys of `gpu_controllers` |
| `cq`, `gq` | the locks of `config` and `gpu_controllers` |
| `tx`, `msg` | `confirm_config_tx`: the task whose sender is stored, and what was sent to each task |

* **Clients.** A connection has one request at a time, as in `handle_stream`.
  The setters differ only in what they write and in what they do first, so there
  are three: `edit` (power cap, performance level, clocks, power states, profile
  modes), `fan` (`set_fan_control`, which makes an entry for the GPU before the
  edit) and `reset` (`reset_pmfw` and the reset of the clocks, which touch the
  hardware before the edit). `reads` are `stats`, `info` and `snapshot`; `clear`
  is `reset_config`.
* **An edit** goes through `StartEdit`, `ReadConfig`, `EditClocks`, `EditFan` and
  then either `AwaitConfirm`, which stores a sender and spawns a task, or
  `UndoClocks`, `UndoFan`.
* **A confirmation task** is a `Slot`: `SpawnedPoll`, `HoldController`, then
  `TimerExpires`, `ReceiveConfirm` or `ReceiveRevert`, `SaveConfirmed` or the
  undo, `EndConfirm`.
* **`apply_config`** writes two groups of settings, `clocks` (power cap,
  performance level, clocks) and then `fan`, with the place between them where
  it may wait: `stop_fan_control` awaits the fan task, and before a lower power
  cap the GPU gets up to three seconds to clock down. Each group is accepted or
  refused; `Bad` values are always refused, and with `Flaky` any may be.
* **Listeners** reload the GPUs (`Reloader`), the settings after suspend and
  resume (`Resumer`) and the file (`FileWatcher`).

`Suspends = FALSE` describes a GPU with fan curves in firmware and without a
lower power cap: nothing in `apply_config` waits, and `Turn` lets no other task
run until it is done. `Sequential = TRUE` is a single client that sends its next
request after the reply; the tasks that the last request woke have been polled
by then.

Left out of `Handler`: the content of settings (`GpuApply`), answers and errors
(an answer is `pc[c] = "idle"`), profiles (`Profiles`), `disable_clocks_cleanup`,
the time of the timer (it may expire whenever the task waits), the start and the
shutdown of the daemon and the window in which the watcher of the file ignores
events (`Daemon`).

### FanCurve

`PwmAt` is the set of values that `pwm_at_temp` may return. Temperatures are
whole degrees, as after the cast in the code, and speeds are hundredths. The
conversion to a byte truncates and saturates. Between two points the code
computes in `f32`: a result that should be a whole number may come out just
below it and lose one by the truncation, so there are two values then. An empty
curve has none: the code panics.

### FanControl and FanOwner

One GPU, of three kinds: AMD whose fans are written through hwmon, AMD with
curves in firmware (`pmfw`), Nvidia with several fans.

| variable | code |
|---|---|
| `handle` | `fan_control_handle` |
| `task` | the spawned tasks with their locals: `last` and `temp` are `last_pwm` and `last_temp`, `works` is `control_available`, `told` is the `Notify`, `late` says that `spindown_delay` has passed since the last write |
| `at`, `want`, `waits` | the calls of `apply_config` that await a task in `stop_fan_control` |
| `mode`, `pwm`, `fw` | the hardware |
| `temp` | the sensor |
| `applied` | the settings of the last call that returned `Ok`, or `None` once an error was returned or logged or a call is under way |

A call refuses its settings (`Refuse`), finds no running task (`ApplyNow`), or
tells the task to stop (`ApplyWait`) and goes on when it has ended (`Stopped`).
`Proceed` is the rest of the call for each kind of GPU and each setting, with
the places where it may fail. A tick of the task is one of `TickPanics`,
`TickNear` (within the threshold), `TickWaits` (a slower speed within the
delay), `TickWrites` and `TickFails`; `select!` chooses between a tick and
`Notified`.

`FanOwner` says what this promises: a curve is in charge or none is; only the
one in charge writes, its own speeds; a new curve or a static speed comes only
after the last one has resigned.

Left out: milliseconds (`LongDelay` says whether the delay is longer than the
interval of the ticks), temperatures below one degree, the choice of the
sensor, the points of the firmware curve, a device that disappears from NVML,
and `get_fan_control_method` failing, which skips the return to automatic mode
without an error. An error of `pmfw` settings is one step, no task is involved.
The other firmware options are in `AmdApply`.

### ProcessList and Profiles

`ProcessList` has the two maps and the games of the watcher's state as one
record: `PushProcess`, `RemoveProcess` and `Load` (`load_full_process_list`), and
`EvaluateCurrentProfile` with the four kinds of rules.

| variable | code |
|---|---|
| `profiles`, `cur`, `auto` | `Config::profiles`, `current_profile`, `auto_switch_profiles` |
| `tx` | `profile_watcher_tx`: the watcher whose channel it is |
| `state` | `profile_watcher_state` |
| `lock`, `queue` | `PROFILE_WATCHER_LOCK`, the mutex a watcher keeps from its first step to its last |
| `pc`, `goal`, `op`, `to` | where each task is, the profile it is about to set, the request of a client, the channel it waits to send to |
| `chan`, `events` | the channels of commands (five in the code) and of events (128) |
| `draft`, `local` | the state a watcher prepares before it publishes it; whether it listens to processes and games, its probe, whether it restarts |
| `applied`, `broken` | the profile the hardware has the settings of; the last apply has failed |
| `installed` | `listen_config_changes` is between `lib.rs:133` and `:134` |
| `running`, `games` | the system |
| `unnoticed` | not in the code: the profiles changed with no word to the watcher since it looked |

A client's request is `Request` and then `Handle`, its steps. Setting a profile
is `CheckProfile`, `Cleanup`, `WriteProfile`, `ApplyProfile`, by a client or by a
watcher, with others in between. A request that has changed the profiles and then
cannot save them answers with an error and sends no Update (`EditProfiles`, its
second outcome), and a configuration from the file replaces profiles, rules and
automatic switching with no word to any watcher (`InstallFile`, `ApplyFile`).
A watcher starts (`LockWatcher`,
`StartListener`, `ConnectGamemode`, `PublishState`), evaluates the rules
(`Evaluate`, `Compare`), and waits for commands (`ReceiveCommand`), events
(`ReceiveEvent`, `DebounceEnds`) and its timers (`ProbeListener`,
`QuietRestart`); gamemode appearing, and a listener that has gone quiet, make it
restart itself: it sends Stop to its own channel and starts another watcher.

Processes start, become another program, exit and register as games at any time;
an event reaches the watchers that listen, and a process may be gone when it is
looked up. Left out: the parsing of `/proc`, D-Bus itself, and the order in
which a full channel of events blocks its sender (`Room`).

### GpuController, AmdApply, NvidiaApply, IntelApply, GpuApply

`GpuController` holds one call at a time: `job` (apply or cleanup), `cfg` its
configuration, a function with `None` for what is absent, `step` where it is,
`outcome` what it has returned, `clean` that nothing has failed in it. `Write`
is one write that may fail and end the call; `hw` is the value every setting has.

* `AmdApply` follows `apply_config` of `amd.rs` in the order of its writes: the
  power cap with the lowest level forced before it (`ReadUsage`, `ClockDown`,
  `SetCap`, `RestoreLevel`), the reset of clocks and level, clocks, level,
  profile mode, fan, the firmware options, the commit of what was `staged`, the
  power states. Cleanup resets the clocks and the firmware first. A failure that the
  code logs and goes on after (a reset of the clocks or the level, of the firmware
  curve at `amd.rs:313`) leaves the call going, with `clean` off.
* `NvidiaApply` has the record of clock offsets (`recorded`) beside the real
  ones (`offset`), and drivers that report offsets or do not (`reports`).
  `NvidiaRecreate` is a new controller, whose record is empty.
* `IntelApply` writes only what is set; `initial` is the power cap the
  controller has read when it was created.

`GpuApply` chooses the vendor by driver, as `init_controller` does.

### Client

| variable | code |
|---|---|
| `pc`, `req`, `answer` | each task that calls `make_request`, its request, what the call has returned |
| `holder`, `queue` | the mutex around the stream |
| `buffer`, `socket` | answers in the `BufReader` of the client and in the socket |
| `sent`, `inbox` | requests in the socket and in the reader of the daemon |
| `peer`, `up` | the connection is open, closed or reset; the daemon runs |
| `executed` | how often each request was carried out |
| `dialog` | the reconnect dialog |

A call takes the mutex, writes, and reads an answer. An end of the stream is an
empty answer, which is an error of the call (`ReadEnd`); any other error makes it
reconnect (`NewConnection`) and call itself again, behind the others; requests of
aborted calls that are still in the old socket may be carried out then
(`ReplaceStream`). `Abort` is
what `update_gpu_data` does to the task for the statistics: its future is dropped
wherever it waits. `Embedded` is a daemon in the process of the user interface,
whose socket cannot be connected to again.

### Daemon

A configuration is a set of edits with a version; `Resets` gives the edits a
migration removes, `Migrated` applies the versions that are missing.

| variable | code |
|---|---|
| `proc`, `socket` | where the process is in its life; the socket file |
| `file`, `mem` | the file, with `torn` for one that was written halfway; `Handler::config` |
| `recent` | less than a second since `config_last_saved` |
| `events`, `watcher` | the channel of file events, and `start_watcher_task`: waits, or debounces |
| `loaded`, `incoming` | the channel of loaded configurations, and the one that waits for the lock |
| `device`, `permit` | `listen_device_events` and its `Notify` |

`Startup` is the start: load and migrate, socket, controllers, listeners. A
signal lets the process clean up and remove its socket (`Exit`), a `Crash` does
not and may tear the file. `UserEdits` writes the file by hand, `Save` is any
request that is confirmed. `accepted` and `overtaken` are history: what was saved,
and what of it while a loaded configuration waited.

### Pages and App

`Pages` is what the widgets of the settings pages do, with one setting for each
kind of widget: a slider that knows whether it was changed, a switch, a curve, a
drop-down, rows of power states. `ShowStats` and its parts are what a reload
does, `Requested` what each request of `apply_settings` asks for.

| variable | code |
|---|---|
| `saved`, `pending`, `left` | the daemon: its configuration, the change to be confirmed, the seconds of its timer |
| `widgets`, `wired`, `revealer` | the pages; the points of the fan curve are connected; the buttons Apply and Revert are shown |
| `queue`, `handler` | messages of the component, and the one in progress with its step |
| `collected` | clocks and power states `apply_settings` has read before it sends them |
| `dialogs` | confirmation dialogs with their countdowns |

An apply is `Steps`, each an edit (`SetGroup`) and its confirmation
(`ConfirmGroup`), and at last the clocks, which a dialog asks about (`SetClocks`,
`Countdown`, `Answer`, `SendAnswer`). `Fail` is a request that returns an error
and ends what the component does. A reload is four reads. If the first fails the
reload has failed (`ReadStatsFails`); the errors of the others are only logged
(`app.rs:498-527`): clocks and modes then show no rows (`ShowNoClocks`,
`ShowNoModes`), the power states what they showed, and the reload ends as a success
that hides the buttons (`StatesAreRead`). `unread` and `hidden` are history: the
groups the last reload did not read, and the changes it has hidden the buttons
over. The user changes widgets, clicks and answers at any time (`Edit`,
`ClickApply`, `ClickRevert`, the two resets).

### RuleWindow and Header

`RuleWindow`: `Show` fills the widgets from a rule, `GetRule` reads a rule back
from them, `Changes` is what the user can make of the widgets. `Header`:

| variable | code |
|---|---|
| `daemon` | profiles, current profile and automatic switching in the daemon |
| `switch` | where in `set_current_profile` the requests of this window, of another client and of the watcher are |
| `applied` | the profile the hardware has the settings of, `None` while they are replaced |
| `info`, `rows`, `selected`, `gpu` | `profiles_info`, the rows of the list box, the selected row and device |
| `inbox`, `queue`, `app` | messages to the header, to the main component, and the request it waits for |
| `shown` | of which device and profile the pages show values; `None` if they were read in the middle of a switch |
| `panicked` | the window has ended in a panic |
| `polling` | the loop that reads the statistics and asks for the profiles |
| `rule` | the window for rules |
| `told` | not in the code: what the last message about the profiles said |

`Handle` is a message of the header, `Take` one of the main component, with a
request that may fail; `Others` is another client or the watcher. A switch of the
profile is what it is in `handler.rs`: the lookup and the cleanup (`CleanUp`),
`current_profile` (`Store`, line 784), the settings (`ApplyCurrent`, line 786), and
the rest of the request (`Finish`); the daemon answers other requests in between.
The list then names a profile whose settings the hardware does not have yet, or,
if it was deleted after the lookup, one that is not in the list: a window that is
told so panics (`Panic`, `header.rs:343`), as it does for a click on a row that is
gone (`header.rs:283`).

## 3. Properties and runs

| run | instance | shows | states |
|---|---|---|---|
| `atomic` | 1 client, 2 tasks, 1 GPU, 3 values, no waits in `apply_config` | `TypeOK`, `SettledAgree`, `RevertsToSaved` | 1,500 |
| `edits` | 1 client, 2 tasks, waits, one value refused | `EveryRequestAnswered`, `ChangesAreDecided` | 4,600 |
| `listeners` | 1 client, 2 GPUs, reload and resume, one value refused, failures at any time | `ControllersStay`, `SavedIsAccepted` | 5,300,000 |
| `reads` | 2 clients, file edits, no reload | `EveryRequestAnswered`: the two lock orders are harmless while nobody writes the map of GPUs | 14,700 |
| `settles` | 1 caller, 2 tasks, 2 fans, 3 curves, 3 temperatures, all failures | all of `FanControl` | 296,000 |
| `profiles` | 1 client, 3 watchers, 2 processes, a channel of one command | all of `Profiles` | 843,000 |
| `apply` | a GPU of each vendor, 6 configurations, 4 calls, 2 failures | all of `GpuApply` | 95,500 |
| `client` | 3 tasks, 5 requests, 1 stop of the daemon, 2 aborts | all of `Client` | 281,000 |
| `config` | 2 versions, 4 edits, 1 signal, 1 crash, 2 kernel events | all of `Daemon` | 218,000 |
| `gui` | 2 values; 2 edits, 2 applies, 1 other click and 1 failure, 5 of these together | all of `App` | 1,200,000 |
| `selector` | 2 profiles, 2 devices, 3 events of 2 clicks, 1 switch, 1 failure | all of `Header` | 5,700,000 |
| `deadlock` | 1 client, reload and resume | a **violation** of `EveryRequestAnswered` | - |

The configurations are `Handler_<run>.cfg`, `Fan_settles.cfg`,
`Profiles_switch.cfg`, `Gpu_apply.cfg`, `Client_shared.cfg`,
`Daemon_config.cfg`, `App_gui.cfg` and `Header_selector.cfg`.

`Handler`:

* `TypeOK` - the types.
* `SettledAgree` - when every task is at rest, hardware, configuration and file agree.
* `RevertsToSaved` - what a revert restores is what is saved.
* `SavedIsAccepted` - refused settings never reach configuration or file.
* `ControllersStay` - the controllers and entries a task works on are in the maps.
* `EveryRequestAnswered`, `ChangesAreDecided` - liveness.

`FanControl`:

* `TypeOK` - the types.
* `OneTask` - at most one task follows a curve.
* `SettledFan` - while no error has come since the last `apply_config`, the fans
  are controlled as its settings say, and by nobody else.
* `FansHaveOneOwner` - `FanControl` implements `FanOwner`.
* `HotterIsFaster` - with a curve that rises, a task never lowers the speed when
  the GPU is hotter than at the last write.
* `ApplyReturns`, `FollowsTemperature` - liveness: a call that awaits a task
  returns; once the temperature has settled the fans get to a speed of the curve
  for it, or for one within the threshold.

`Profiles`:

* `ListAgrees` - the list of processes and the names the rules are matched with
  are inverse of each other, whatever ids are reused and events are missed.
* `OneWatcher` - one watcher at a time works on the shared state.
* `RestFollowsRules` - a watcher that waits, with nothing queued for it, has the
  profile in use that the rules give for the processes it knows. It is told of
  every edit that was answered with Ok; of an edit whose save failed, a
  configuration from the file, and a profile that went while it was being set it
  is not, and the property waits until it looks again (`unnoticed`). With two clients
  it fails: one deletes the profile that the other is about to set while it turns
  automatic switching on.
* `SetIsApplied` - when nobody is about to set a profile, the hardware has the
  settings of the one in use or the last apply has failed.
* `WatcherStarts` - a watcher that is started gets to work (`NeverFull`: no
  sender ever finds the channel of commands full).
* `DeletedIsLeft` - a profile that was deleted while the watcher switched to it
  is left again as long as there is a watcher.

`GpuApply`:

* `OkMeansApplied` - after a call that returned `Ok` without an ignored error,
  the hardware has the settings. For AMD this includes absent ones for the power
  cap, clocks, level and fans; the other absent ones are left as they were. The
  firmware options other than zero RPM are only part of it without fan control:
  with it the code does not write them.
* `OffsetsAreShown` - the clock offsets Nvidia users are shown are those of the
  hardware, unless the controller has lost a record (`forgot`).
* `CleanupResets` - cleanup brings back the defaults of every setting but those
  the code never resets (`AmdKept`, `IntelKept`): zero RPM, profile mode and power
  states of AMD, the power cap of Intel, and Nvidia's offsets that are no longer
  recorded. These stay as the last settings have put them, also in a profile that
  does not mention them.

`Client`:

* `AtMostOnce` - no request is carried out twice, although it is repeated.
* `AnswersOwn` - as long as nothing was aborted, a call returns its own answer or an
  error. After an abort it claims nothing of any task.
* `CallReturns`, `DialogHides` - liveness: calls return, the reconnect dialog
  goes away; not for a daemon in the process (`Embedded`), and the dialog not
  when the call that reconnects is aborted.

`Daemon`:

* `RestAgrees` - at rest the memory agrees with the file; not for an edit in the
  ignored second or while no watcher runs (`unseen`), nor after a save that
  overtook a loaded configuration (`stale`).
* `SavedStays` - what was saved stays in the file through edits, stops, crashes
  and migrations, unless the file was torn, or it was saved while a loaded
  configuration waited (`overtaken`): installing that one takes the save out of the
  memory, and the next save out of the file.
* `StartsAgain` - the daemon runs again and again as long as it ends with its
  cleanup (`rough`).
* `DevicesAreSeen` - after every kernel event the GPUs are listed, if the events
  are finitely many.

`App`:

* `ShownIsSaved` - when nothing is under way, every group of widgets shows what
  is saved, was changed by the user, or could not be read by the last reload
  (`unread`); clocks and modes that could not be read show no rows.
* `AppliedIsSaved` - an apply that meets no error has saved what was shown.
* `ChangesAreRevealed` - the button Apply is hidden only if there is nothing to
  apply, or if the last reload has hidden it over a change (`hidden`): of the fans, in
  the middle of the reload, or of power states it could not read.
* `ClocksAreKeptByUser` - clocks are saved only by a Yes or a reset.
* `ComesToRest` - every dialog closes and every change is decided, even if the
  user does not answer.

`Header`:

* `RestShowsCurrent` - when everything is handled and nobody is in the middle of a
  switch, the selected row is the profile in use, and the pages show the selected
  device and that profile's settings, or what the hardware was like in the middle
  of a switch or after one that could not be applied; never another profile's. Not
  after a failure nothing makes up for (`lost`), nor when a profile left and came
  back between two polls (`missed`).
* `SwitchesOnlyOnClick` - selecting a profile is asked for only if its row was
  the last one clicked, although the rows are rebuilt and selected by the program.
* `RuleIsKept` - a rule that is shown and left alone is read back as the same
  one; not a game with an empty name, which is shown as any game.

Every property has a mutant in `PROJECT.json`: a definition named `Slip_...` is a
faulty variant of an operation that, put in its place, breaks the property.

### Where the code does something else

`deadlock` is a run because the documents promise otherwise (`docs/API.md:5`): a
confirmation task holds the controllers and wants the configuration; a resume
holds the configuration and wants the controllers; a reload waits to write them.
`EveryRequestAnswered` also fails when `Ops` is `{"snapshot", "reload"}`:
`generate_snapshot` holds a read guard of the controllers while it asks for
another one, behind a reload that waits to write.

The rest has no run of its own. Each item says how to see it.

* **Two clients pass the check of `confirm_config_tx`** (`handler.rs:237`) before
  either has stored its sender: `atomic` with two clients, `Sequential = FALSE`
  and `CHECK_DEADLOCK FALSE` (they may find no free `Slot`) breaks
  `RevertsToSaved`, and `SettledAgree` as well.
* **A revert overlaps the next edit** (`handler.rs:324`): the sender is taken when
  the command arrives. `atomic` with `Suspends = TRUE` breaks `SettledAgree`.
* **A reload before the confirmation task looks up its controller**
  (`handler.rs:294`) makes it panic, and its sender stays: with `Ops` of
  `{"edit", "confirm", "reload"}` in `edits`, `pc` becomes `"panicked"` and
  `ChangesAreDecided` fails.
* **A reset, `reset_config`, a reload, a resume or a change of the file** touches
  the hardware while a change is unconfirmed: add `reset`, `clear`, `reload`,
  `resume` or `file` to the `Ops` of `atomic` to break `SettledAgree` (or, with
  `clear`, `RevertsToSaved` before it). `SettledAgree` fails for `{"file"}`
  alone as well: `apply_current_config` goes through the entries, so the GPU of an
  entry removed from the file keeps its settings.
* **A reload drops the handle of a fan task** (`handler.rs:204`), the task goes
  on, and the new controller starts another one. `FanControl` has one controller;
  an action that sets `handle' = None` while a task runs breaks `OneTask`.
* **Two calls of `apply_config`** for one GPU, which the guards for reading allow:
  the second finds no handle while the first awaits the task, both start one.
  `settles` with two callers breaks `OneTask` and `FansHaveOneOwner`.
* **`spindown_delay` counts from the last write**, not from the moment the target
  fell (`docs/CONFIG.md:74-76`): if the temperature stays within the threshold for
  longer than the delay, the first tick that finds a lower target slows the fan.
* **A failed first write** (`amd.rs:282`) ends the fan task and leaves the fans in
  manual mode at the speed they have.
* **A revert applies the old settings without cleanup.** It does not take back an
  option only the reverted settings had: firmware options, profile mode and power
  states of AMD, clocks and power cap of Intel (`IntelApply`: an absent value is
  left alone).
* **Nvidia forgets a record** when the controller is created anew, or when a
  performance state cannot be read during cleanup (`nvidia.rs:645`): with a driver
  that does not report offsets the user is shown none although the hardware has
  them (`forgot`).
* **A watcher sends Stop into its own full channel** (`profiles.rs:204`) and waits
  for itself: `WatcherStarts` without `NeverFull` fails for two requests (two
  watchers, `Operations` of `{"set", "rule"}`).
* **A switch decided on before automatic switching was turned off still comes**
  (`profiles.rs:253`; `docs/CONFIG.md:198` says what the option is for): `cur`
  changes in `WriteProfile(w)` with `auto = FALSE`.
* **A profile is deleted between its lookup and its use** (`handler.rs:779`):
  without a watcher, `DeletedIsLeft` fails (drop its premise on `tx`), and requests
  for settings with it.
* **The window panics when that profile is reported** (`header.rs:343`): the window
  selects a profile, another client deletes it after the lookup, and `panicked` is
  reached in `selector`; so is the panic for a row that is gone (`header.rs:283`).
* **Pages that are read in the middle of a switch stay as they are**
  (`handler.rs:784`, `:786`): `RestShowsCurrent` without `None` in `selector` fails,
  since nothing asks for a reload when the settings have been applied.
* **The watcher is not told** of an edit whose save failed (`handler.rs:804`, `:825`,
  `:849`, `:873`) and of a configuration from the file (`lib.rs:133`), which may also
  turn automatic switching on without a watcher: `RestFollowsRules` without
  `unnoticed` fails for each of the two.
* **A crash in `fs::write` leaves a file that cannot be read** (`config.rs:218`),
  and a kill leaves the socket file (`socket.rs:31`): the daemon then does not
  start until somebody removes it. `SavedStays` and `StartsAgain` exclude both.
* **An edit within a second after a save is ignored**, and **a save overtakes a
  configuration that waits to be installed** (`config.rs:357`, `:388`), which then
  replaces the newer one in memory: `RestAgrees` without `unseen`, or `stale`, and
  `SavedStays` without `overtaken`, fail.
* **An aborted call leaves its answer in the socket** (`app.rs:477`), and every
  later call on the connection returns the answer of the one before, until the
  connection is made anew: `AnswersOwn` without its premise fails.
* **A failed select leaves its row selected**, a failed reload the pages of the
  device before (`header.rs:301`): `RestShowsCurrent` without `lost`.
* **A reload ends as a success although a read has failed** (`app.rs:498-527`):
  `ShownIsSaved` without `unread` and `ChangesAreRevealed` without `hidden` fail in
  `gui`. Once the modes could not be read none is selected, and the next apply sends
  no mode: the saved one is lost.
* **The name of a game is kept** when its check button is cleared while the one
  for the arguments is set (`profile_rule_window.rs:332`, `GetRule`).
* Seen while reading, not part of a model: the memory-clock rows lose their
  changed flag when the ratio is sent to them (`clocks_frame.rs:171`), the row of
  the lowest core clock of AMD shows the one of the memory
  (`clocks_frame.rs:209`), every reload connects the widgets of the OC page once
  more (`oc_page.rs:203`), and two power readings of Intel in one millisecond
  divide by zero (`intel.rs:302`).

### Bounds

* `Handler`: two clients are the fewest that race; one client is used where the
  property fails with two, as above. Two confirmation tasks let an older one
  overlap with the next change. A request that finds no free `Slot` waits for one,
  which the daemon never does; with two clients it could wait for ever, so the
  liveness run has one client, which is the only one to take a slot. Three values
  are the default, another good one and a refused one; the runs on locks and maps
  need one or two. Two GPUs in `listeners` make the loops of `cleanup` and
  `apply_current_config` go round more than once while the other GPU comes and
  goes. `Ops` limits each run to the requests its question is about; between them
  the passing runs take every action.
* `FanControl`: one caller awaits one task while no other is alive, so two tasks
  are enough to let a second one exist (with a slip). Two fans are the fewest of
  which one fails. The curves are a rising one of two points, one point with a
  speed above 1 and an empty one, which only the file can contain; the
  temperatures are below, between and above the points, the first two within the
  threshold of each other and the last beyond the critical one.
* `Profiles`: three watchers are one that ends, one that works and one that waits
  for the guard; a request that finds none free waits (`Free`). A channel of one
  command (five in the code) makes it full after one update; two events wait
  (128). One request, and one change of the system or of the file, at any point of a watcher's
  start, round and restart, with the restart by the probe at any time; the system
  starts with a process, a game or none, automatic switching on or off. One of
  the ids is of a short-lived process that is gone when it is looked up.
* `GpuApply`: a configuration without settings, two with many, one with firmware
  options, two that are refused half way; three calls after a first one, with two
  failures, so that a failed call, another failed one and a good one follow each
  other.
* `Client`: three tasks are one that is aborted, one in progress and one that
  waits; five requests leave one after every fault.
* `Daemon`: two versions are the fewest of which one is skipped; `First` is a file
  of version 0 with an edit that the migration removes. Four edits are by the user
  or by a save, two kernel events come while the first is debounced or listed.
* `App`: two values, two power states, a timer of two seconds; two edits of the
  user before, during or after two applies, one of which may still have its
  dialog open; one other click, and one request or one read of a
  reload that fails; five of these together (`MaxEvents`), so that a behaviour
  lacks only one of all of them.
* `Header`: two profiles of the two kinds of rules and a name for a third one,
  two devices; three events (`MaxEvents`) of at most two clicks, one change
  by the daemon or another client and one failure, where a new profile is two
  clicks (the menu and its dialog); a switch takes its steps at any
  time. It starts with everything handled.

`CHECK_DEADLOCK FALSE` is set where a bounded system comes to an end (`profiles`,
`apply`, `client`, `config`, `gui`, `selector`) and where the daemon really can
stop (`deadlock`, `listeners`).

### Fairness and assumptions

Weak fairness of each task's own actions: tokio polls a woken task in the end,
the lock is granted in order of arrival, a timer fires, a fan task that was told
to stop ends, and the wait for lower clocks has a timeout. Nothing is assumed of
clients and events: no request, confirmation, reload, resume or edit of the file
ever has to come. The timer is what makes `ChangesAreDecided` hold without a
client that confirms.

* `FanControl`: fair are the ticks, the notification, the passing of the delay and
  the call that a task's end wakes. No sensor has to fail: otherwise a tick that
  changes nothing would be owed a panic, and `FollowsTemperature` would hold for
  that reason.
* `Profiles`: the steps of a request that was made, the steps of a watcher and its
  two timers; no request and no change of the system.
* `Client`: a call goes on, the daemon answers and is started again by whoever
  has stopped it, as with the `systemctl restart` the user interface asks for
  (`Restart=on-failure` of `res/lactd.service` does nothing after a regular stop);
  no stop and no abort has to come.
* `Daemon`: the start, the end after a signal, the watcher, the listeners, the
  second after a save. No signal, crash, edit or kernel event.
* `App`: the messages, the timer of the daemon, the clock and the countdowns. The
  user never has to click; an answer that was clicked is sent.
* `GpuApply` and `Header` are checked for safety only and state no fairness.

Two models of the user interface assume something about time. In `App` the timer
of the daemon starts before the dialog's countdown and is served first, and a
dialog is at most one second behind; a daemon that is late is not modelled. In
`App` the core states are written before those of the memory, although the code
goes through a map without an order. In `Header` the loop's next poll comes after
the header has handled the one before, the window for rules is shown before the
user acts on it, and the two signals of a list box whose selected row is replaced
are one message.

## 4. Proofs

`Handler`, for any number of connections, confirmation tasks, GPUs and values,
and for any `Bad`, `Flaky`, `Suspends`, `Sequential` and `Ops`:

* `HandlerProofs!WriterExcludesOthers` - a task that holds a lock for writing is
  alone. A request in the queue is granted if it is the first or if everything up
  to it reads, so nothing is granted behind a writer. `RequestKeepsOthers` and
  `ReleaseKeepsOthers` say that no step of one task takes a lock from another;
  for `Release` this needs the index arithmetic of `RemoveAtProperties`.
* `HandlerProofs!TypeCorrect == Spec => []TypeOK` - one step per action and
  under it one per variable.
* `HandlerProofs!SavedIsSafe == Spec => []SavedIsAccepted`. `SavedIsAccepted` is
  not inductive: it does not speak of settings on their way to the configuration.
  `AcceptedInv` adds that the clocks of an edit that has come to the fan settings
  were accepted, that every confirmation task that may still save holds accepted
  settings, and that no edit of the file is under way. Most actions belong to a
  task that has no new settings under way afterwards (`Passes`); the ones that
  hand settings on have steps of their own.
* `HandlerProofs!ControllersAreSafe == Spec => []ControllersStay`.
  `ControllersStay` does not say why the maps cannot change. `GuardInv` adds it:
  a task at a place where it uses a map holds that map's lock, and a task about
  to replace a map has asked for it in writing. A step of one task keeps the
  guards of the others (`LockSteps`, from `RequestKeeps` and `ReleaseKeeps`), so
  most actions are a `Moves` of one task; the three that replace a map use
  `WriterExcludesOthers`: nobody else can be where the map is in use.
* `HandlerProofs!ChangesLeaveNoTrace` and `HandlerProofs!RevertRestoresSaved`:
  `Spec => []SettledAgree` and `Spec => []RevertsToSaved` under `OneAfterAnother`,
  still for any number of GPUs, values and confirmation tasks. The hypothesis is
  the setting of `atomic`: one client that waits for its replies, hardware and
  disk that do not fail at random, an `apply_config` that does not wait, and no
  reset, reload, resume or change of the file. TLC refutes one of the two as soon
  as any single one of these is dropped (see "Where the code does something
  else"). Requests that read, snapshots and refused settings are included.
  The two say nothing of a change under way; `SettledInv` does. `PlacesInv` is
  where the tasks can be; `ConfigQueue` that one task at a time asks for the
  configuration and `GpuQueue` that the controllers are only read, so nobody waits
  long; `PendingInv` that at most one change is made, waits or is decided, and
  that a change that is decided but not carried out keeps the client from its next
  request; `HardwareInv` that every GPU has its saved settings but for that of the
  change, which knows what the GPU had (`prev`) and has (`new`). That an undo
  cannot be refused comes from `AcceptedInv`: what was saved was accepted.

`FanControl`, for any curves, static speeds, temperatures, critical temperature,
threshold, delay, number of fans and tasks, and any failures:

* `FanProofs!FanTypeCorrect == Spec => []TypeOK` - `FanInv` adds that a running
  task has a curve and a waiting call a setting.
* `FanProofs!HotterIsNeverSlower == Spec => HotterIsFaster`. The arithmetic is in
  `PwmAtMonotone`: along a rising curve `pwm_at_temp` does not fall with the
  temperature. If a point lies between the two temperatures it separates the
  results (`PointBounds`); otherwise both lie on one segment, and the numerators
  are ordered (`ExactMonotone`), strictly where a value may lose one in `f32`.
  The invariant `LastFollows` says that the last speed of a task is a value of
  its curve for the temperature it remembers. First and last points of a curve
  exist because naturals are well founded (`FirstIsLeast`, `LastIsGreatest`).
* `FanProofs!OneTaskRuns == Spec => []OneTask`, for one caller (`OneCall`).
  `OneTask` is not inductive: `TaskIsOwned` adds that every running task is the
  one of the handle or is awaited, `HandleIsTaken` that the handle is empty
  meanwhile.
* `FanProofs!AppliedStaysInForce == Spec => []SettledFan`, for one caller. With
  `TaskIsOwned` and `HandleIsTaken`, what is missing is `FirmwareHasNoTask`: a
  GPU with curves in firmware has no fan task. The rest of a call is one step, so
  `SettledFan` is kept kind by kind and setting by setting.
* `FanProofs!FanImplementsOwner == Spec => FansHaveOneOwner`, for one caller: a
  call that starts a task is `TakeOver`, one that does not is `Fix`, a tick is
  `Drive`, the end of the task is `Resign`, and everything else stutters.

`Profiles`, for any number of clients and watchers, any processes, names, rules,
profiles and sizes of the channels:

* `ProfilesProofs!ListIsRight == Spec => []ListAgrees` and
  `ProfilesProofs!OneWatcherWorks == Spec => []OneWatcher`, from one invariant,
  `WatcherInv`. For the list, `ForgottenProcess` says what a removal leaves of the
  names, and `PushedAgrees`, `RemovedAgrees`, `LoadedAgrees` and `GamesAgree` that
  the operations keep the two maps inverse; a process that is pushed again under
  another name is forgotten under the old one first. A state that a watcher still
  prepares agrees as well (`DraftsAgree`). For the watchers: whoever works has the
  guard (`WorkersHold`), and the state is there only while one works
  (`StateAgrees`), because it is taken before the guard is dropped.
* `ProfilesProofs!SetProfileIsApplied == Spec => []SetIsApplied`. The property is
  inductive: a step of a task that does not set a profile leaves hardware, profile
  and the set of tasks about to set one alone (`Aside`), and the four steps of
  `set_current_profile` are cases of `SwitchKeepsSet`. The reason the last one
  applies the right settings is that it reads `current_profile` again.
* `ProfilesProofs!RulesAreFollowed == Spec => []RestFollowsRules`, for one client
  (`OneClient`; TLC refutes it for two). A watcher at rest has compared the rules
  with the profile in use at some time before; `RuleInv` follows what happened
  since. A watcher that evaluates or sets a profile aims at the one the rules
  give (`Aims`), one that waits has it in use (`Stays`), or a command that makes it
  evaluate again is queued or about to be sent (`Told`), which every request that
  changes profiles, rules or the profile in use and succeeds sees to (`Asked`); the
  changes nobody is told of set `unnoticed`, and evaluating clears it.

`GpuApply`, for any offsets, configurations and drivers, any number of calls and
failures:

* `GpuProofs!ShownOffsetsAreRight == Spec => []OffsetsAreShown`. `RecordsFit` says
  that a record is the offset, or empty while the driver reports offsets; what is
  shown is then the hardware's. Resets with unread performance states
  (`ResetFits`), a call that stops half way (`TakingFits`) and a new controller
  (`RecreatingFits`) keep it or set `forgot`.
* `GpuProofs!OkIsApplied == Spec => []OkMeansApplied` and
  `GpuProofs!CleanupIsComplete == Spec => []CleanupResets`, for any earlier calls.
  `GpuInv` says for each place of a call what the writes before it have brought
  about (`AmdInv`, `NvidiaInv`, `IntelInv`; `AfterCap` and the others are the
  places after a write), as long as no failure was met: that no later write takes
  it back, and that a firmware option is staged before the commit.

`Client`, for any number of tasks, requests, stops and aborts:

* `ClientProofs!AnswersAreOwn == Spec => []AnswersOwn`. The mutex admits one call
  at a time (`HoldersHold`). While nothing was aborted, everything on the way -
  in the buffers, the sockets or the daemon - is nothing, or the one request of
  the call that reads, or its answer (`OwnIsOnItsWay`); a call that ends or
  reconnects takes it with it, also when the daemon stops (`ClosedIsEmpty`).
* `ClientProofs!CarriedOutAtMostOnce == Spec => []AtMostOnce`, with aborts. A call
  that waits to write was not carried out and is nowhere on the way
  (`WaitingAreNot`, `SentOnce`, `ArrivedOnce`), and the request of the call that
  reads is the last one sent (`ReaderIsLast`): an end of the stream that makes it
  repeat itself has come before the daemon took it.

`Daemon`, for any edits, versions, migrations and length of the channel, and any
number of stops and crashes; both from `DaemonInv`:

* `DaemonProofs!SavedIsNeverLost == Spec => []SavedStays`. `SavedInv`: what was
  saved and not overtaken (`Safe`) is in the file, which has the newest version unless it is the first one,
  and in everything that can be written over it: the configuration in memory, the
  one that waits for the lock and those in the channel.
* `DaemonProofs!FileIsFollowed == Spec => []RestAgrees`. `AgreeInv`: the file is
  what the daemon will end up with (`AtLast`: the last configuration loaded, or the
  one that waits, or the one in memory), or an event of the file is on its way that
  is not taken for one of the daemon's own saves, or one of `unseen`, `stale`
  holds.

`App`, for any values, power states and length of the daemon's timer, and any
number of edits, applies, clicks and failures:

* `AppProofs!ChangesAreAnnounced == Spec => []ChangesAreRevealed`. `RevealInv`:
  while a reload goes on, what the user has changed is announced, is in `hidden`, or
  will be read (`ToRead`), and the points of a fan curve are only unconnected while the
  buttons are shown.
* `AppProofs!AppliedStays == Spec => []AppliedIsSaved`. `ApplyInv` says what the
  steps before the current one have made of the settings (`Saves`), `PendingInv`
  what the unconfirmed change adds to it.
* `AppProofs!ClocksNeedTheUser == Spec => ClocksAreKeptByUser`, an action property,
  from `PendingInv`: a change that another step confirms has the saved clocks.
* `AppProofs!PagesShowWhatIsSaved == Spec => []ShownIsSaved`. `ShownInv`: the pages
  show what is saved but for what is still to be read or could not be, or a reload is queued or
  will be (`Ahead`). A timer that reverts a change after the reload would break it;
  `OwnerInv` excludes it: a change that waits for the user has a dialog whose
  countdown does not end after that timer.

`Header`, for any profiles, rules and devices, and any number of clicks, switches
and failures, from one invariant, `HeaderInv`:

* `HeaderProofs!PagesFollowTheProfile == Spec => []RestShowsCurrent`. At rest
  nothing is on its way, so the invariant is about messages. `ToldInv`: the last
  message about the profiles (`told`) is the last of its kind in the queue, or was
  handled, and what differs between the daemon and the header is `News` to come.
  `RowInv`, `SelectedInv`: the selected row is the profile in use, or a click or a
  message that repairs it is on its way. `PagesInv`: the pages show the
  profile in use or the middle of a switch, or a reload is queued, or `News` will
  queue one. They can show no other profile since the hardware never has the
  settings of one (`SwitchInv`: `applied` is the profile in use or `None`);
  a selected row whose profile the daemon is about to store is `Selecting`.
* `HeaderProofs!OnlyClicksSwitch == Spec => SwitchesOnlyOnClick`, an action property.
* `HeaderProofs!RulesAreKept == Spec => []RuleIsKept`: a window that was shown and
  left alone has the widgets of its rule (`Fresh`), whatever it showed before, and
  `GetRule` of these widgets is the rule (`FreshIsKept`).

Assumptions, all named in the modules and evaluated by TLC in the runs: tasks are
distinct (`TasksAreDistinct`), the default is accepted by the hardware
(`DefaultIsAccepted`), there is a GPU (`SomeGpu`), flags are Boolean
(`FlagsAreBoolean`, `DelayIsBoolean`); curves are maps from `i32` to numbers
(`CurvesAreMaps`), speeds, temperatures and threshold are numbers and there is a
fan (`NumbersAreIntegers`), `None` is no task and no curve (`NoneIsNoTask`,
`NoneIsNoCurve`); clients are no watchers and `None` is none (`Ids`), the first
profiles are a list (`Listed`), what runs is processes (`Processes`); the
configuration without settings is one (`DefaultIsConfig`) and sets nothing
(`NothingIsSet`); the tasks of the user interface are tasks (`TasksAreTasks`), the
bounds of `Client` are numbers (`BoundsAreNumbers`); every version has its
migration and the first file is of one of them (`VersionsKnown`), the channel of
file events holds one (`EventsWait`); the timer is not zero (`DelayIsPositive`),
values are numbers (`ValueAssumption`) and the pages start with widgets
(`PageStarts`); the profile in use is one of the first profiles or the default
(`FirstProfiles`); "whatever" is not the name of a process (`NamesAreTexts`).

Six theorems have a hypothesis beside them: `OneCall` (one call of `apply_config`
for a GPU at a time) for `OneTaskRuns`, `AppliedStaysInForce` and
`FanImplementsOwner`, `OneClient` for `RulesAreFollowed`, and `OneAfterAnother` for
`ChangesLeaveNoTrace` and `RevertRestoresSaved`. Each describes the run the
property is checked in, and without it the property is false, as said above. The
fairness conjunct of a `Spec` is never used.

Only model-checked: the liveness properties (`EveryRequestAnswered`,
`ChangesAreDecided`, `ApplyReturns`, `FollowsTemperature`, `WatcherStarts`,
`DeletedIsLeft`, `CallReturns`, `DialogHides`, `StartsAgain`, `DevicesAreSeen`,
`ComesToRest`), since liveness under fairness and `ENABLED` are out of the
prover's reach, and the type invariants of the modules whose proofs need only a
part of them or a stronger one of their own. No module uses recursion, so nothing
rests on induction over data.

## 5. Not modelled

* The **render thread** of the plots: one slot, one condition variable and two
  threads; the last request wins and nothing else reads the slot.
* **Overdrive and initramfs**, system and Vulkan information: they run external
  programs and rewrite boot files; there is no state others rely on.
* The **command line** prints the answers to single requests; the **schema** is
  data types, except `ProfileWatcherState`, which is `ProcessList`.
* **Statistics and device information**: reads of sysfs, NVML and performance
  counters; pages that only display.
* Of the server: the **TCP listener** and the rights of the socket file.

## 6. Plan

1. `SettingsTxn`, an abstract specification of one transaction (apply, then
   confirm or revert, in one step each), implemented by `Handler` for one client
   without waits.
2. `Profiles` composed with the change that waits in `Handler`: what is confirmed
   after a switch.
3. The type invariants of `Profiles`, `GpuApply`, `Client`, `Daemon`, `App` and
   `Header` as theorems of their own.
4. `RenderThread`, if it comes to keep state.

## Running

    tlc -workers 2 -config Handler_atomic.cfg MCHandler
    tlc -workers 2 -config Fan_settles.cfg MCFanControl
    tlc -workers 2 -config Profiles_switch.cfg MCProfiles
    tlc -workers 2 -config Gpu_apply.cfg MCGpuApply
    tlc -workers 2 -config Client_shared.cfg Client
    tlc -workers 2 -config Daemon_config.cfg MCDaemon
    tlc -workers 2 -config App_gui.cfg App
    tlc -workers 2 -config Header_selector.cfg MCHeader
    tlapm HandlerProofs.tla   # FanProofs, ProfilesProofs, GpuProofs, ClientProofs,
                              # DaemonProofs, AppProofs, HeaderProofs

The longest runs are `selector`, `gui`, `settles`, `profiles` and `listeners`, of one
to three minutes each;
the others take seconds to a minute. The proofs of a module take between one and
three minutes.
