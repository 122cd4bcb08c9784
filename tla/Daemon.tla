------------------------------- MODULE Daemon -------------------------------
(* The life of the daemon (lact-daemon/src/lib.rs, socket.rs) and its         *)
(* configuration file (config.rs): start, migration, the socket, saves by the *)
(* daemon, edits by the user and the watcher that loads them, kernel events,  *)
(* stops by a signal and crashes. A configuration is the set of the edits     *)
(* that are in it.                                                            *)
EXTENDS Integers, Sequences, FiniteSets, SequencesExt
CONSTANTS
    Latest,     \* the newest version of the configuration
    Resets,     \* for each version, the edits that the migration to it removes
    First,      \* the configuration file there is at first
    MaxEdits, MaxStops, MaxKills, MaxKernelEvents,  \* bounds
    MaxEvents   \* file events that can wait (64 in the code)

ASSUME VersionsKnown ==
    /\ Latest \in Nat /\ DOMAIN Resets = 1..Latest
    /\ First = [edits |-> First.edits, version |-> First.version] /\ First.version \in 0..Latest
ASSUME EventsWait == MaxEvents \in Nat \ {0}

VARIABLES
    proc,       \* "down", "uptime", "loading", "applying", "running" or "cleaning"
    socket,     \* the socket file exists
    file,       \* the file: edits, version, and whether it was written halfway
    mem,        \* Handler::config
    recent,     \* less than a second since config_last_saved
    events,     \* file events for the watcher
    watcher,    \* "off", "wait" or "debounce"
    loaded,     \* configurations for listen_config_changes
    incoming,   \* the one it waits for the lock with
    accepted,   \* history: edits the daemon has saved
    overtaken,  \* history: those it saved while a loaded configuration waited
    unseen, stale,  \* history: an edit of the file came too early; a save overtook a loaded file
    rough,      \* history: the process has ended without its cleanup
    device,     \* listen_device_events: "idle", "quiet" or "reload"
    permit,     \* its Notify
    fresh,      \* history: a kernel event came since the GPUs were listed
    edit, stops, kills, kernel  \* counters of the bounds
life == <<proc, socket, rough, stops, kills>>
store == <<file, mem, accepted, overtaken>>
watch == <<recent, events, watcher, loaded, incoming, unseen, stale>>
devices == <<device, permit, fresh, kernel>>
vars == <<life, store, watch, devices, edit>>

Alive == proc \in {"running", "cleaning"}

(* The process ends, and what it had in memory with it. *)
Gone ==
    /\ proc' = "down"
    /\ recent' = FALSE /\ events' = 0 /\ watcher' = "off" /\ loaded' = <<>> /\ incoming' = <<>>
    /\ device' = "idle" /\ permit' = FALSE /\ fresh' = FALSE
-----------------------------------------------------------------------------
(* Start: load_or_create, migrate_versions and a save if that changed the     *)
(* file; an unreadable file is an error.                                      *)

(* Slip: the version is not advanced. *)
Slip_KeepVersion(c) ==
    [edits |-> c.edits \ UNION {Resets[v] : v \in c.version + 1..Latest}, version |-> c.version]

Migrated(c) ==
    [edits |-> c.edits \ UNION {Resets[v] : v \in c.version + 1..Latest},
     version |-> IF c.version > Latest THEN c.version ELSE Latest]

Content(f) == [edits |-> f.edits, version |-> f.version]
Written(c) == [edits |-> c.edits, version |-> c.version, torn |-> FALSE]

Start ==
    /\ proc = "down" /\ ~file.torn
    /\ proc' = "uptime"
    /\ mem' = Migrated(Content(file)) /\ file' = Written(mem')
    /\ unseen' = FALSE /\ stale' = FALSE
    /\ UNCHANGED <<socket, rough, stops, kills, accepted, overtaken, recent, events, watcher, loaded,
                   incoming, devices, edit>>

(* socket::listen, after the wait for the uptime of the system: a file that is *)
(* already there is taken for another instance.                                *)
Listen ==
    /\ proc = "uptime"
    /\ IF socket THEN proc' = "down" /\ UNCHANGED socket
       ELSE proc' = "loading" /\ socket' = TRUE
    /\ UNCHANGED <<rough, stops, kills, store, watch, devices, edit>>

(* Handler::new: GPUs are listed, for some time if there are none yet, and the *)
(* configuration is applied.                                                   *)
LoadControllers ==
    /\ proc = "loading" /\ proc' = "applying" /\ recent' = TRUE
    /\ UNCHANGED <<socket, rough, stops, kills, store, events, watcher, loaded, incoming, unseen,
                   stale, devices, edit>>

(* The port of the TCP listener is taken, or the GPUs cannot be listed: the    *)
(* process ends, and its socket stays.                                         *)
StartFails ==
    /\ proc = "loading" /\ Gone /\ rough' = TRUE
    /\ UNCHANGED <<socket, stops, kills, store, unseen, stale, kernel, edit>>

StartListeners ==
    /\ proc = "applying" /\ proc' = "running"
    /\ watcher' = "wait"
    /\ UNCHANGED <<socket, rough, stops, kills, store, recent, events, loaded, incoming, unseen,
                   stale, devices, edit>>
-----------------------------------------------------------------------------
(* The end. Signals are handled once the listeners run; before that, and by a  *)
(* crash, the process is gone at once.                                         *)

Signal ==
    /\ stops > 0 /\ stops' = stops - 1
    /\ \/ /\ proc = "running" /\ proc' = "cleaning"
          /\ UNCHANGED <<rough, watch, device, permit, fresh>>
       \/ /\ proc \in {"uptime", "loading", "applying"} /\ Gone
          /\ rough' = (rough \/ socket) /\ UNCHANGED <<unseen, stale>>
    /\ UNCHANGED <<socket, kills, store, kernel, edit>>

(* Slip: the process exits without removing the socket. *)
Slip_LeaveSocket ==
    /\ proc = "cleaning" /\ Gone
    /\ UNCHANGED <<socket, rough, stops, kills, store, unseen, stale, kernel, edit>>

(* The other tasks go on until cleanup is done; what follows has no wait. *)
Exit ==
    /\ proc = "cleaning" /\ Gone /\ socket' = FALSE
    /\ UNCHANGED <<rough, stops, kills, store, unseen, stale, kernel, edit>>

(* A crash, perhaps in the middle of fs::write. *)
Crash ==
    /\ proc # "down" /\ kills > 0 /\ kills' = kills - 1
    /\ Gone /\ rough' = TRUE
    /\ \/ UNCHANGED file
       \/ Alive /\ file' = [file EXCEPT !.torn = TRUE]
    /\ UNCHANGED <<socket, stops, mem, accepted, overtaken, unseen, stale, kernel, edit>>
-----------------------------------------------------------------------------
(* The file. *)

FileEvent == events' = IF Alive /\ events < MaxEvents THEN events + 1 ELSE events

(* An edit of the user; a file that is repaired has this edit only.            *)
UserEdits ==
    /\ edit < MaxEdits /\ edit' = edit + 1
    /\ file' = IF file.torn THEN Written([edits |-> {edit}, version |-> Latest])
               ELSE [file EXCEPT !.edits = @ \cup {edit}]
    /\ accepted' = IF file.torn THEN {} ELSE accepted
    /\ overtaken' = IF file.torn THEN {} ELSE overtaken
    /\ FileEvent
    /\ unseen' = (unseen \/ recent \/ ~Alive)
    /\ UNCHANGED <<life, mem, recent, watcher, loaded, incoming, stale, devices>>

(* A request that is confirmed: the configuration in memory is edited and      *)
(* saved with its lock held.                                                   *)
Save ==
    /\ Alive /\ edit < MaxEdits /\ edit' = edit + 1
    /\ mem' = [mem EXCEPT !.edits = @ \cup {edit}] /\ file' = Written(mem')
    /\ accepted' = accepted \cup {edit}
    /\ LET overtakes == loaded # <<>> \/ incoming # <<>>
       IN /\ overtaken' = IF overtakes THEN overtaken \cup {edit} ELSE overtaken
          /\ stale' = (stale \/ overtakes)
    /\ recent' = TRUE /\ FileEvent
    /\ UNCHANGED <<life, watcher, loaded, incoming, unseen, devices>>

SecondPasses ==
    /\ recent /\ recent' = FALSE
    /\ UNCHANGED <<life, store, events, watcher, loaded, incoming, unseen, stale, devices, edit>>
-----------------------------------------------------------------------------
(* start_watcher: events shortly after a save are the daemon's own; else the   *)
(* file is loaded when no event has come for a while.                          *)

TakeEvent ==
    /\ watcher = "wait" /\ events > 0
    /\ events' = events - 1
    /\ watcher' = IF recent THEN "wait" ELSE "debounce"
    /\ UNCHANGED <<life, store, recent, loaded, incoming, unseen, stale, devices, edit>>

AnotherEvent ==
    /\ watcher = "debounce" /\ events > 0
    /\ events' = events - 1
    /\ UNCHANGED <<life, store, recent, watcher, loaded, incoming, unseen, stale, devices, edit>>

(* Slip: a configuration is dropped while another one waits. *)
Slip_TrySend ==
    /\ watcher = "debounce" /\ watcher' = "wait"
    /\ loaded' = IF file.torn \/ loaded # <<>> THEN loaded ELSE <<Content(file)>>
    /\ UNCHANGED <<life, store, recent, events, incoming, unseen, stale, devices, edit>>

LoadFile ==
    /\ watcher = "debounce" /\ watcher' = "wait"
    /\ loaded' = IF file.torn THEN loaded ELSE Append(loaded, Content(file))
    /\ UNCHANGED <<life, store, recent, events, incoming, unseen, stale, devices, edit>>

(* listen_config_changes: the lock is awaited with the new configuration in    *)
(* hand; apply_current_config keeps the listener from the next one.            *)
ReceiveConfig ==
    /\ Alive /\ loaded # <<>> /\ incoming = <<>>
    /\ incoming' = <<Head(loaded)>> /\ loaded' = Tail(loaded)
    /\ UNCHANGED <<life, store, recent, events, watcher, unseen, stale, devices, edit>>

InstallConfig ==
    /\ incoming # <<>> /\ incoming' = <<>> /\ mem' = incoming[1]
    /\ UNCHANGED <<life, file, accepted, overtaken, recent, events, watcher, loaded, unseen, stale,
                   devices, edit>>
-----------------------------------------------------------------------------
(* listen_device_events: a kernel event stores a permit; the GPUs are listed   *)
(* again when no event has come for a while.                                   *)

(* Slip: notify_waiters, which stores no permit. *)
Slip_NoPermit ==
    /\ Alive /\ kernel > 0 /\ kernel' = kernel - 1
    /\ permit' = (permit \/ device # "reload") /\ fresh' = TRUE
    /\ UNCHANGED <<life, store, watch, device, edit>>

KernelEvent ==
    /\ Alive /\ kernel > 0 /\ kernel' = kernel - 1
    /\ permit' = TRUE /\ fresh' = TRUE
    /\ UNCHANGED <<life, store, watch, device, edit>>

Notified ==
    /\ Alive /\ device \in {"idle", "quiet"} /\ permit
    /\ permit' = FALSE /\ device' = "quiet"
    /\ UNCHANGED <<life, store, watch, fresh, kernel, edit>>

ListDevices ==
    /\ Alive /\ device = "quiet" /\ ~permit
    /\ device' = "reload" /\ fresh' = FALSE
    /\ UNCHANGED <<life, store, watch, permit, kernel, edit>>

ReloadEnds ==
    /\ Alive /\ device = "reload" /\ device' = "idle"
    /\ UNCHANGED <<life, store, watch, permit, fresh, kernel, edit>>
-----------------------------------------------------------------------------
Init ==
    /\ proc = "down" /\ socket = FALSE /\ rough = FALSE
    /\ file = Written(First) /\ mem = First /\ accepted = {} /\ overtaken = {}
    /\ recent = FALSE /\ events = 0 /\ watcher = "off" /\ loaded = <<>> /\ incoming = <<>>
    /\ unseen = FALSE /\ stale = FALSE
    /\ device = "idle" /\ permit = FALSE /\ fresh = FALSE
    /\ edit = 1 /\ stops = MaxStops /\ kills = MaxKills /\ kernel = MaxKernelEvents

Startup == Start \/ Listen \/ LoadControllers \/ StartListeners
WatchFile == TakeEvent \/ AnotherEvent \/ LoadFile
Reload == ReceiveConfig \/ InstallConfig
Devices == Notified \/ ListDevices \/ ReloadEnds

Next ==
    \/ Startup \/ StartFails \/ Signal \/ Exit \/ Crash
    \/ UserEdits \/ Save \/ SecondPasses
    \/ WatchFile \/ Reload \/ KernelEvent \/ Devices

(* The service manager starts the daemon again; each task is polled; no call   *)
(* of cleanup waits for ever.                                                  *)
Fairness ==
    /\ WF_vars(Startup) /\ WF_vars(Exit)
    /\ WF_vars(WatchFile) /\ WF_vars(Reload) /\ WF_vars(Devices) /\ WF_vars(SecondPasses)

Spec == Init /\ [][Next]_vars /\ Fairness
-----------------------------------------------------------------------------
AtRest ==
    /\ proc = "running" /\ watcher = "wait" /\ events = 0 /\ loaded = <<>> /\ incoming = <<>>
    /\ ~file.torn

(* When the watcher has nothing left to do, the daemon works with what is in   *)
(* the file, however edits of the user, saves and reloads interleave: except   *)
(* for edits in the second after a save, or at the start, and for saves that   *)
(* overtake a loaded file.                                                     *)
RestAgrees == AtRest /\ ~unseen /\ ~stale => mem = Content(file)

(* What the daemon has saved stays in the file, over edits, stops, crashes and *)
(* migrations, unless a crash has cut the file. Saves that overtake a loaded   *)
(* configuration are not among these: when that older one is installed, the    *)
(* next save writes it, and the code loses the edit it had answered with Ok.   *)
SavedStays == ~file.torn => accepted \ overtaken \subseteq file.edits

(* As long as the process ends with its cleanup it can be started again.       *)
StartsAgain == [](~rough) => []<>(proc = "running")

(* Every kernel event leads to a list of the GPUs that is newer.               *)
DevicesAreSeen == []<>(~fresh)

=============================================================================
