------------------------------ MODULE Profiles ------------------------------
(* Profiles of settings and the watcher that switches between them: the       *)
(* requests of lact-daemon/src/server/handler.rs and the task run_watcher of  *)
(* lact-daemon/src/server/profiles.rs, which follows the processes and games  *)
(* of the system.                                                             *)
EXTENDS ProcessList, Sequences, SequencesExt
CONSTANTS
    Client,     \* connections of clients
    Watcher,    \* watcher tasks that can exist at a time
    Capacity,   \* commands a watcher can have pending (5 in the code)
    Events,     \* events that can wait for a watcher (128 in the code)
    Infos,      \* what a process may be
    Running,    \* the processes that run at first
    ShortLived, \* the id of a process that is gone when it is looked up
    Initial,    \* the profiles there are at first, a sequence of [name, rule]
    NewNames,   \* names of profiles that are created
    Rules,      \* rules that profiles are given
    Operations, \* kinds of requests the clients make
    Files,      \* configurations that users write to the file, as [profiles, cur, auto]
    MaxRequests, MaxChanges, \* bounds on requests and on changes of processes and the file
    Default,    \* no profile: the settings at the top level
    None        \* no task, no state, no settings applied

ASSUME Ids ==
    ShortLived \notin Pids /\ None \notin Watcher /\ Client \cap Watcher = {}
ASSUME Listed ==
    /\ Initial \in Seq({Initial[i] : i \in DOMAIN Initial})
    /\ \A f \in Files : f.profiles \in Seq({f.profiles[i] : i \in DOMAIN f.profiles})
ASSUME Processes == Infos \subseteq Info /\ Load(Running) \in States

VARIABLES
    profiles, cur, auto,    \* of the configuration
    tx,         \* profile_watcher_tx: the watcher that gets commands
    state,      \* profile_watcher_state
    lock,       \* who holds PROFILE_WATCHER_LOCK
    queue,      \* and who waits for it
    pc,         \* where each task is
    goal,       \* the profile a task is about to set
    op,         \* the request of a client
    to,         \* the watcher a task sends a command to
    chan,       \* commands to each watcher
    events,     \* events for each watcher
    draft,      \* the state a watcher prepares
    local,      \* each watcher: listens, follows games, is suspiciously quiet, should reload
    applied,    \* the profile whose settings the hardware has, None after cleanup
    broken,     \* the last settings could not be applied
    running, games,     \* the processes of the system, and the games among them
    installed,  \* the configuration has been replaced from the file, and is to be applied
    unnoticed,  \* history: the profiles have changed with no word to the watcher since it looked
    requests, changes   \* what is left of the bounds
settings == <<profiles, cur, auto>>
hardware == <<applied, broken>>
world == <<running, games, changes>>
system == <<world, installed, unnoticed>>
watch == <<state, lock, queue, chan, events, draft, local>>
control == <<pc, goal, op, to, tx, requests>>
vars == <<settings, hardware, system, watch, control>>

Task == Client \cup Watcher
NewLocal == [listens |-> FALSE, follows |-> FALSE, quiet |-> FALSE, reload |-> FALSE]
Exists(name) == \E i \in DOMAIN profiles : profiles[i].name = name
Known(name) == name = Default \/ Exists(name)
Position(name) == CHOOSE i \in DOMAIN profiles : profiles[i].name = name
NoRequest == [kind |-> "none"]

(* A task goes on at a point; a client at "idle" has answered its request. *)
Goto(t, at) ==
    /\ pc' = [pc EXCEPT ![t] = at]
    /\ op' = IF t \in Client /\ at = "idle" THEN [op EXCEPT ![t] = NoRequest] ELSE op
Idle(c) == pc[c] = "idle"
-----------------------------------------------------------------------------
(* set_current_profile, by a client or a watcher: the name is looked up, the  *)
(* hardware is cleaned up, the name is stored, the settings are applied.      *)
(* apply_current_config keeps the configuration locked to its end, and is one *)
(* step here.                                                                 *)

CheckProfile(t, failed) ==
    /\ pc[t] = "check"
    /\ IF Known(goal[t])
       THEN Goto(t, "cleanup") /\ UNCHANGED goal
       ELSE Goto(t, failed) /\ goal' = [goal EXCEPT ![t] = Default]
    /\ UNCHANGED <<settings, hardware, system, watch, to, tx, requests>>

Cleanup(t) ==
    /\ pc[t] = "cleanup"
    /\ applied' = None /\ Goto(t, "write")
    /\ UNCHANGED <<settings, broken, system, watch, goal, to, tx, requests>>

(* Slip: the settings are applied before the profile is stored. *)
Slip_ApplyFirst(t) ==
    /\ pc[t] = "write"
    /\ cur' = goal[t] /\ applied' = cur /\ broken' = FALSE /\ Goto(t, "set")
    /\ unnoticed' = (unnoticed \/ ~Known(goal[t]))
    /\ UNCHANGED <<profiles, auto, world, installed, watch, goal, to, tx, requests>>

(* The profile may have gone since it was looked up. *)
WriteProfile(t) ==
    /\ pc[t] = "write"
    /\ cur' = goal[t] /\ goal' = [goal EXCEPT ![t] = Default]
    /\ Goto(t, "apply")
    /\ unnoticed' = (unnoticed \/ ~Known(goal[t]))
    /\ UNCHANGED <<profiles, auto, hardware, world, installed, watch, to, tx, requests>>

ApplyCurrent ==
    /\ applied' = IF Known(cur) THEN cur ELSE applied
    /\ broken' = ~Known(cur)

ApplyProfile(t, done, failed) ==
    /\ pc[t] = "apply" /\ ApplyCurrent
    /\ Goto(t, IF Known(cur) THEN done ELSE failed)
    /\ UNCHANGED <<settings, system, watch, goal, to, tx, requests>>
-----------------------------------------------------------------------------
(* stop_profile_watcher and start_profile_watcher: the sender is taken, Stop  *)
(* is sent, and a new watcher gets a channel of its own. The task is          *)
(* suspended in between only if the channel is full.                          *)

Ended(w) == pc[w] = "ended"
Deliverable(w) == w # None => (Ended(w) \/ Len(chan[w]) < Capacity)
Posted(w, cmd) == IF w = None \/ Ended(w) THEN chan ELSE [chan EXCEPT ![w] = Append(@, cmd)]

(* Slip: the sender is dropped, which the select! of the watcher overlooks. *)
Slip_OnlyDrop(w) == chan

SendStop(w) == Posted(w, "stop")

(* The channel is full: the task waits, with the sender it has taken. *)
StopWaits(t) ==
    /\ pc[t] = "take" /\ ~Deliverable(tx)
    /\ to' = [to EXCEPT ![t] = tx] /\ tx' = None
    /\ Goto(t, "stop")
    /\ UNCHANGED <<settings, hardware, system, watch, goal, requests>>

Receiver(t) == IF pc[t] = "take" THEN tx ELSE to[t]
CanStop(t) == pc[t] \in {"take", "stop"} /\ Deliverable(Receiver(t))

StopWatcher(t, next) ==
    /\ CanStop(t)
    /\ chan' = SendStop(Receiver(t))
    /\ tx' = IF pc[t] = "take" THEN None ELSE tx
    /\ to' = [to EXCEPT ![t] = None]
    /\ Goto(t, next)
    /\ UNCHANGED <<settings, hardware, system, state, lock, queue, events, draft, local, goal,
                   requests>>

(* A watcher that ended is a task nobody refers to any more. *)
Free(w) == Ended(w) /\ tx # w /\ \A t \in Task : to[t] # w

StartWatcher(t, next) ==
    /\ CanStop(t)
    /\ \E v \in Watcher : Free(v)
    /\ LET w == CHOOSE v \in Watcher : Free(v)
       IN /\ pc' = [pc EXCEPT ![w] = "lock", ![t] = next]
          /\ queue' = Append(queue, w)
          /\ chan' = [SendStop(Receiver(t)) EXCEPT ![w] = <<>>]
          /\ tx' = w
    /\ to' = [to EXCEPT ![t] = None]
    /\ UNCHANGED <<settings, hardware, system, state, lock, events, draft, local, goal, op,
                   requests>>
-----------------------------------------------------------------------------
(* The requests.                                                              *)

Begin(c, kind, first) ==
    /\ Idle(c) /\ requests > 0 /\ kind \in Operations
    /\ requests' = requests - 1
    /\ pc' = [pc EXCEPT ![c] = first]
    /\ UNCHANGED <<settings, hardware, system, watch, to, tx>>

BeginSetProfile(c) ==
    \E name \in {Default} \cup NewNames \cup {profiles[i].name : i \in DOMAIN profiles},
       switch \in BOOLEAN :
        /\ Begin(c, "set", "take")
        /\ op' = [op EXCEPT ![c] = [kind |-> "set", auto |-> switch]]
        /\ goal' = [goal EXCEPT ![c] = IF switch THEN Default ELSE name]

BeginEdit(c) ==
    \E name \in {profiles[i].name : i \in DOMAIN profiles} \cup NewNames,
       kind \in {"create", "delete", "move", "rule"} :
        /\ Begin(c, kind, IF kind = "delete" THEN "delete" ELSE "edit")
        /\ op' = [op EXCEPT ![c] = [kind |-> kind, name |-> name]]
        /\ goal' = [goal EXCEPT ![c] = Default]

(* delete_profile first leaves the profile if it is in use. *)
DeleteLeaves(c) ==
    /\ pc[c] = "delete"
    /\ Goto(c, IF cur = op[c].name THEN "check" ELSE "edit")
    /\ UNCHANGED <<settings, hardware, system, watch, goal, to, tx, requests>>

(* create_profile, move_profile (two profiles change places) and              *)
(* set_profile_rule refuse names that are taken or unknown.                   *)
Refused(o) ==
    CASE o.kind = "create" -> Exists(o.name)
      [] o.kind \in {"move", "rule"} -> ~Exists(o.name)
      [] o.kind = "delete" -> FALSE

Edited(o) ==
    CASE o.kind = "create" -> {Append(profiles, [name |-> o.name, rule |-> [type |-> "none"]])}
      [] o.kind = "delete" ->
            {IF Exists(o.name) THEN RemoveAt(profiles, Position(o.name)) ELSE profiles}
      [] o.kind = "move" ->
            {[profiles EXCEPT ![Position(o.name)] = profiles[j],
                              ![j] = profiles[Position(o.name)]] : j \in DOMAIN profiles}
      [] o.kind = "rule" ->
            {[profiles EXCEPT ![Position(o.name)].rule = r] : r \in Rules \cup {[type |-> "none"]}}

(* The profiles in memory are edited, then saved: if the file cannot be        *)
(* written, the request ends with the profiles edited and the watcher not told.*)
EditProfiles(c) ==
    /\ pc[c] = "edit"
    /\ \/ Refused(op[c]) /\ Goto(c, "idle") /\ UNCHANGED <<settings, unnoticed>>
       \/ /\ ~Refused(op[c])
          /\ profiles' \in Edited(op[c]) /\ UNCHANGED <<cur, auto>>
          /\ \/ Goto(c, "notify") /\ UNCHANGED unnoticed
             \/ Goto(c, "idle") /\ unnoticed' = TRUE
    /\ UNCHANGED <<hardware, world, installed, watch, goal, to, tx, requests>>

(* Slip: the watcher is not told of the edit. *)
Slip_NoUpdate(c) ==
    /\ pc[c] = "notify" /\ Goto(c, "idle")
    /\ UNCHANGED <<settings, hardware, system, watch, goal, to, tx, requests>>

(* The sender is cloned, and Update is sent as soon as there is room. *)
Notify(c) ==
    LET w == IF pc[c] = "notify" THEN tx ELSE to[c]
    IN /\ pc[c] \in {"notify", "update"}
       /\ IF Deliverable(w)
          THEN chan' = Posted(w, "update") /\ Goto(c, "idle") /\ to' = [to EXCEPT ![c] = None]
          ELSE /\ pc[c] = "notify" /\ Goto(c, "update") /\ to' = [to EXCEPT ![c] = tx]
               /\ UNCHANGED chan
       /\ UNCHANGED <<settings, hardware, system, state, lock, queue, events, draft, local, goal,
                      tx, requests>>

(* set_profile ends with auto_switch_profiles. *)
MarkAuto(c) ==
    /\ pc[c] = "mark"
    /\ auto' = op[c].auto /\ Goto(c, "idle")
    /\ UNCHANGED <<profiles, cur, hardware, system, watch, goal, to, tx, requests>>

(* listen_config_changes: a configuration that was loaded from the file takes  *)
(* the place of the one in memory, its profiles, the profile in use and the    *)
(* automatic switching with it, and is applied. No watcher is told, started or *)
(* stopped.                                                                    *)
InstallFile ==
    /\ ~installed /\ changes > 0 /\ changes' = changes - 1
    /\ \E f \in Files : profiles' = f.profiles /\ cur' = f.cur /\ auto' = f.auto
    /\ installed' = TRUE /\ unnoticed' = TRUE
    /\ UNCHANGED <<hardware, running, games, watch, control>>

ApplyFile ==
    /\ installed /\ installed' = FALSE /\ ApplyCurrent
    /\ UNCHANGED <<settings, world, unnoticed, watch, control>>

Request(c) == BeginSetProfile(c) \/ BeginEdit(c)

Handle(c) ==
    LET sets == op[c].kind = "set"
    IN \/ StopWaits(c)
       \/ sets /\ CanStop(c) /\ op[c].auto /\ StartWatcher(c, "mark")
       \/ sets /\ CanStop(c) /\ ~op[c].auto /\ StopWatcher(c, "check")
       \/ CheckProfile(c, "idle") \/ Cleanup(c) \/ WriteProfile(c)
       \/ ApplyProfile(c, IF sets THEN "mark" ELSE "edit", "idle")
       \/ DeleteLeaves(c) \/ EditProfiles(c)
       \/ Notify(c)
       \/ MarkAuto(c)
-----------------------------------------------------------------------------
(* run_watcher. The processes are listed before the listener starts; what     *)
(* happens in between, or if the listener cannot start, is missed.            *)

(* Slip: the guard is dropped as soon as it is taken (let _ = lock().await). *)
Slip_DropGuard(w) ==
    /\ pc[w] = "lock" /\ Head(queue) = w
    /\ queue' = Tail(queue) /\ UNCHANGED lock
    /\ draft' = [draft EXCEPT ![w] = Load(running)]
    /\ Goto(w, "listen")
    /\ UNCHANGED <<settings, hardware, system, state, chan, events, local, goal, to, tx,
                   requests>>

LockWatcher(w) ==
    /\ pc[w] = "lock" /\ lock = None /\ Head(queue) = w
    /\ lock' = w /\ queue' = Tail(queue)
    /\ draft' = [draft EXCEPT ![w] = Load(running)]
    /\ Goto(w, "listen")
    /\ UNCHANGED <<settings, hardware, system, state, chan, events, local, goal, to, tx,
                   requests>>

StartListener(w) ==
    /\ pc[w] = "listen"
    /\ \E works \in BOOLEAN : local' = [local EXCEPT ![w].listens = works]
    /\ Goto(w, "connect")
    /\ UNCHANGED <<settings, hardware, system, state, lock, queue, chan, events, draft, goal, to,
                   tx, requests>>

(* gamemode::connect may fail; else games are listed, and followed afterwards. *)
ConnectGamemode(w) ==
    /\ pc[w] = "connect"
    /\ \/ Goto(w, "publish") /\ UNCHANGED draft
       \/ Goto(w, "follow") /\ draft' = [draft EXCEPT ![w].games = games]
    /\ UNCHANGED <<settings, hardware, system, state, lock, queue, chan, events, local, goal, to,
                   tx, requests>>

PublishState(w) ==
    /\ pc[w] \in {"publish", "follow"}
    /\ local' = [local EXCEPT ![w].follows = pc[w] = "follow"]
    /\ state' = draft[w] /\ draft' = [draft EXCEPT ![w] = None]
    /\ Goto(w, "eval")
    /\ UNCHANGED <<settings, hardware, system, lock, queue, chan, events, goal, to, tx,
                   requests>>

(* update_profile: the rules are evaluated, then the result is compared with  *)
(* the profile in use, each with the configuration locked for itself.         *)
RuledProfile ==
    IF state = None THEN Default ELSE EvaluateCurrentProfile(state, profiles, Default)

(* Slip: without a match the profile is kept. *)
Slip_KeepProfile(w) ==
    /\ pc[w] = "eval"
    /\ goal' = [goal EXCEPT ![w] =
                    IF state = None THEN cur
                    ELSE EvaluateCurrentProfile(state, profiles, cur)]
    /\ unnoticed' = FALSE /\ Goto(w, "compare")
    /\ UNCHANGED <<settings, hardware, world, installed, watch, to, tx, requests>>

Evaluate(w) ==
    /\ pc[w] = "eval"
    /\ goal' = [goal EXCEPT ![w] = RuledProfile]
    /\ unnoticed' = FALSE /\ Goto(w, "compare")
    /\ UNCHANGED <<settings, hardware, world, installed, watch, to, tx, requests>>

AfterUpdate(w) == IF local[w].reload THEN "take" ELSE "loop"

Compare(w) ==
    /\ pc[w] = "compare"
    /\ IF cur # goal[w] THEN Goto(w, "check") /\ UNCHANGED goal
       ELSE Goto(w, AfterUpdate(w)) /\ goal' = [goal EXCEPT ![w] = Default]
    /\ UNCHANGED <<settings, hardware, system, watch, to, tx, requests>>
-----------------------------------------------------------------------------
(* The loop of the watcher.                                                   *)

ReceiveCommand(w) ==
    /\ pc[w] = "loop" /\ chan[w] # <<>>
    /\ chan' = [chan EXCEPT ![w] = Tail(@)]
    /\ Goto(w, IF Head(chan[w]) = "stop" THEN "drop" ELSE "eval")
    /\ UNCHANGED <<settings, hardware, system, state, lock, queue, events, draft, local, goal, to,
                   tx, requests>>

(* handle_profile_event: a process that starts is looked up in /proc. *)
AfterEvent(e) ==
    IF state = None THEN None ELSE
    CASE e.type = "exec" /\ e.pid \in DOMAIN running ->
            PushProcess(state, e.pid, running[e.pid])
      [] e.type = "exit" -> RemoveProcess(state, e.pid)
      [] e.type = "game" -> [state EXCEPT !.games = @ \cup {e.pid}]
      [] e.type = "no_game" -> [state EXCEPT !.games = @ \ {e.pid}]
      [] OTHER -> state

Restarts(e) == e.type = "exec" /\ e.pid \in DOMAIN running /\ running[e.pid].name = "gamemoded"

(* More events restart the wait, up to a limit, and no command is received;   *)
(* the end of the wait is DebounceEnds.                                       *)
ReceiveEvent(w) ==
    /\ pc[w] \in {"loop", "debounce"} /\ events[w] # <<>>
    /\ LET e == Head(events[w])
       IN /\ state' = AfterEvent(e)
          /\ local' = [local EXCEPT
                ![w].quiet = IF pc[w] = "loop" THEN FALSE ELSE @,
                ![w].reload = @ \/ Restarts(e)]
    /\ events' = [events EXCEPT ![w] = Tail(@)]
    /\ Goto(w, "debounce")
    /\ UNCHANGED <<settings, hardware, system, lock, queue, chan, draft, goal, to, tx, requests>>

DebounceEnds(w) ==
    /\ pc[w] = "debounce" /\ Goto(w, "eval")
    /\ UNCHANGED <<settings, hardware, system, watch, goal, to, tx, requests>>

(* Half a minute without an event: a process is started, whose event must     *)
(* come; without one the watcher restarts. The process may fail to start.     *)
ProbeListener(w) ==
    /\ pc[w] = "loop" /\ events[w] = <<>> /\ chan[w] = <<>> /\ ~local[w].quiet
    /\ local' = [local EXCEPT ![w].quiet = TRUE]
    /\ events' = IF local[w].listens
                 THEN [events EXCEPT ![w] = Append(@, [type |-> "exec", pid |-> ShortLived])]
                 ELSE events
    /\ UNCHANGED <<settings, hardware, system, state, lock, queue, chan, draft, control>>

QuietRestart(w) ==
    /\ pc[w] = "loop" /\ events[w] = <<>> /\ chan[w] = <<>> /\ local[w].quiet
    /\ local' = [local EXCEPT ![w].reload = TRUE]
    /\ Goto(w, "take")
    /\ UNCHANGED <<settings, hardware, system, state, lock, queue, chan, events, draft, goal, to,
                   tx, requests>>

(* The state is taken, the task of the games is stopped and awaited, and the   *)
(* guard is dropped.                                                           *)
EndWatcher(w) ==
    /\ pc[w] = "drop"
    /\ state' = None /\ lock' = None /\ Goto(w, "ended")
    /\ chan' = [chan EXCEPT ![w] = <<>>] /\ events' = [events EXCEPT ![w] = <<>>]
    /\ local' = [local EXCEPT ![w] = NewLocal]
    /\ goal' = [goal EXCEPT ![w] = Default]
    /\ UNCHANGED <<settings, hardware, system, queue, draft, to, tx, requests>>

(* Without the two timers, which fire when nothing else happens for long. *)
Work(w) ==
    \/ LockWatcher(w) \/ StartListener(w)
    \/ ConnectGamemode(w) \/ PublishState(w)
    \/ Evaluate(w) \/ Compare(w)
    \/ CheckProfile(w, AfterUpdate(w)) \/ Cleanup(w) \/ WriteProfile(w)
    \/ ApplyProfile(w, AfterUpdate(w), AfterUpdate(w))
    \/ ReceiveCommand(w) \/ ReceiveEvent(w) \/ DebounceEnds(w)
    \/ StopWaits(w) \/ StartWatcher(w, "drop")
    \/ EndWatcher(w)
-----------------------------------------------------------------------------
(* The system: processes start (or become another program) and exit, games    *)
(* are registered with gamemode and leave it.                                 *)

Deliver(e, to_whom) ==
    events' = [w \in Watcher |-> IF to_whom[w] THEN Append(events[w], e) ELSE events[w]]

(* A full channel blocks the listener; here, what would cause another event. *)
Room == \A w \in Watcher : Len(events[w]) < Events

ProcessStarts(p, info) ==
    /\ running' = Put(running, p, info) /\ UNCHANGED games
    /\ Deliver([type |-> "exec", pid |-> p], [w \in Watcher |-> local[w].listens])

ProcessExits(p) ==
    /\ p \in DOMAIN running
    /\ running' = Drop(running, p) /\ UNCHANGED games
    /\ Deliver([type |-> "exit", pid |-> p], [w \in Watcher |-> local[w].listens])

GameRegisters(p) ==
    /\ p \in DOMAIN running \ games
    /\ games' = games \cup {p} /\ UNCHANGED running
    /\ Deliver([type |-> "game", pid |-> p], [w \in Watcher |-> local[w].follows])

GameLeaves(p) ==
    /\ p \in games
    /\ games' = games \ {p} /\ UNCHANGED running
    /\ Deliver([type |-> "no_game", pid |-> p], [w \in Watcher |-> local[w].follows])

SystemChanges ==
    /\ changes > 0 /\ Room /\ changes' = changes - 1
    /\ \E p \in Pids :
        \/ \E info \in Infos : ProcessStarts(p, info)
        \/ ProcessExits(p) \/ GameRegisters(p) \/ GameLeaves(p)
    /\ UNCHANGED <<settings, hardware, installed, unnoticed, state, lock, queue, chan, draft, local,
                   control>>
-----------------------------------------------------------------------------
(* Handler::with_base_path starts a watcher if the configuration says so. *)
Init ==
    /\ profiles = Initial /\ cur = Default /\ auto \in BOOLEAN
    /\ LET w == CHOOSE v \in Watcher : TRUE
       IN
        /\ tx = IF auto THEN w ELSE None
        /\ queue = IF auto THEN <<w>> ELSE <<>>
        /\ pc = [t \in Task |-> IF t \in Client THEN "idle"
                              ELSE IF auto /\ t = w THEN "lock" ELSE "ended"]
    /\ state = None /\ lock = None
    /\ goal = [t \in Task |-> Default]
    /\ op = [c \in Client |-> NoRequest]
    /\ to = [t \in Task |-> None]
    /\ chan = [w \in Watcher |-> <<>>] /\ events = [w \in Watcher |-> <<>>]
    /\ local = [w \in Watcher |-> NewLocal] /\ draft = [w \in Watcher |-> None]
    /\ applied = Default /\ broken = FALSE
    /\ running = Running /\ games \in SUBSET DOMAIN Running
    /\ installed = FALSE /\ unnoticed = FALSE
    /\ requests = MaxRequests /\ changes = MaxChanges

Next ==
    \/ SystemChanges \/ InstallFile \/ ApplyFile
    \/ \E c \in Client : Request(c) \/ Handle(c)
    \/ \E w \in Watcher : Work(w) \/ ProbeListener(w) \/ QuietRestart(w)

(* The runtime polls every task that can go on, and timers fire. *)
Fairness ==
    /\ WF_vars(ApplyFile)
    /\ \A c \in Client : WF_vars(Handle(c))
    /\ \A w \in Watcher :
        /\ WF_vars(Work(w)) /\ WF_vars(ProbeListener(w)) /\ WF_vars(QuietRestart(w))

Spec == Init /\ [][Next]_vars /\ Fairness
-----------------------------------------------------------------------------
Works(w) == pc[w] \notin {"lock", "ended"}
BetweenSets == ~installed /\ \A t \in Task : pc[t] \notin {"write", "apply"}
(* However processes start, take the id of another one, become another program *)
(* and exit, and events are missed: the names the rules are matched with and   *)
(* the list of processes of the watcher say the same.                          *)
ListAgrees == state # None => MapsAgree(state)

(* Watchers replace each other by message, one may still work when the next is *)
(* started: only one at a time works on the shared state and switches          *)
(* profiles, and the state is there only while one does.                       *)
OneWatcher ==
    /\ \A v, w \in Watcher : Works(v) /\ Works(w) => v = w
    /\ state # None => \E w \in Watcher : Works(w)

(* A watcher at rest that gets the commands has the profile in use that the    *)
(* rules say of the processes it knows: no event and no edit of the profiles   *)
(* that was answered with Ok goes unnoticed. What the code does not tell the   *)
(* watcher of is named by unnoticed, until the watcher looks at the rules again *)
(* for another reason: an edit whose save failed, a configuration that was     *)
(* loaded from the file, a profile that has gone while it was being set.       *)
RestFollowsRules ==
    \A w \in Watcher :
        (/\ auto /\ tx = w /\ pc[w] = "loop" /\ chan[w] = <<>> /\ events[w] = <<>>
         /\ ~unnoticed /\ \A c \in Client : Idle(c))
        => cur = RuledProfile

(* When neither a client nor the watcher is about to set a profile, and no     *)
(* configuration from the file is about to be applied, the hardware has the    *)
(* settings of the profile in use, unless these could not be applied, however  *)
(* the three have been setting profiles at once.                               *)
SetIsApplied == BetweenSets /\ ~broken => applied = cur

(* No task ever finds the channel of a watcher full. *)
NeverFull == [](\A t \in Task : to[t] = None)

(* A watcher that is started gets to work: the one before it stops.            *)
WatcherStarts ==
    NeverFull => \A w \in Watcher : []<>(pc[w] # "lock")

(* A profile that is deleted while the watcher switches to it is left again,   *)
(* as long as there is a watcher.                                              *)
DeletedIsLeft ==
    NeverFull /\ <>[](tx # None) => []<>(cur = Default \/ Exists(cur))

=============================================================================
