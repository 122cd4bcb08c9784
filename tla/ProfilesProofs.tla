--------------------------- MODULE ProfilesProofs ---------------------------
(* What the watcher knows of the processes, for all processes, names, events  *)
(* and watchers; and that one watcher at a time works, which rests on the     *)
(* guard that a watcher keeps from its first to its last step.                *)
EXTENDS Profiles, WellFoundedInduction, TLAPS

-----------------------------------------------------------------------------
(* The lists of processes: what is pushed, removed and loaded agrees.          *)
Shaped(s) == s = [list |-> s.list, names |-> s.names, games |-> s.games]
Agrees(s) == Shaped(s) /\ MapsAgree(s)

(* The names without p are those of the other processes.                       *)
Others(s, p, names) ==
  /\ DOMAIN names = {s.list[q].name : q \in DOMAIN s.list \ {p}}
  /\ \A n \in DOMAIN names : names[n] = {q \in DOMAIN s.list \ {p} : s.list[q].name = n}

LEMMA ForgottenProcess ==
  ASSUME NEW s, Agrees(s), NEW p, p \in DOMAIN s.list
  PROVE  Others(s, p, Forget(s.names, s.list[p].name, p))
<1> DEFINE n == s.list[p].name
           names == Forget(s.names, n, p)
<1>1. n \in DOMAIN s.names /\ s.names[n] = {q \in DOMAIN s.list : s.list[q].name = n}
  BY DEF Agrees, MapsAgree
<1>2. p \in s.names[n]
  BY <1>1
<1>3. CASE s.names[n] \subseteq {p}
  <2>1. names = [m \in DOMAIN s.names \ {n} |-> s.names[m]]
    BY <1>1, <1>3 DEF Forget, Drop
  <2>2. \A q \in DOMAIN s.list \ {p} : s.list[q].name # n
    BY <1>1, <1>3
  <2>3. DOMAIN names = {s.list[q].name : q \in DOMAIN s.list \ {p}}
    BY <2>1, <2>2 DEF Agrees, MapsAgree
  <2>4. ASSUME NEW m \in DOMAIN names
        PROVE  names[m] = {q \in DOMAIN s.list \ {p} : s.list[q].name = m}
    BY <2>1, <2>4 DEF Agrees, MapsAgree
  <2> QED
    BY <2>3, <2>4 DEF Others
<1>4. CASE ~(s.names[n] \subseteq {p})
  <2>1. names = [m \in DOMAIN s.names |-> IF m = n THEN s.names[m] \ {p} ELSE s.names[m]]
    BY <1>1, <1>4 DEF Forget
  <2>2. PICK r \in DOMAIN s.list \ {p} : s.list[r].name = n
    BY <1>1, <1>4
  <2>3. DOMAIN names = {s.list[q].name : q \in DOMAIN s.list \ {p}}
    BY <2>1, <2>2 DEF Agrees, MapsAgree
  <2>4. ASSUME NEW m \in DOMAIN names
        PROVE  names[m] = {q \in DOMAIN s.list \ {p} : s.list[q].name = m}
    BY <2>1, <2>4 DEF Agrees, MapsAgree
  <2> QED
    BY <2>3, <2>4 DEF Others
<1> QED
  BY <1>3, <1>4

LEMMA OtherNames ==
  ASSUME NEW s, Agrees(s), NEW p
  PROVE  Others(s, p, NamesWithout(s, p))
<1>1. CASE p \in DOMAIN s.list
  BY <1>1, ForgottenProcess DEF NamesWithout
<1>2. CASE p \notin DOMAIN s.list
  BY <1>2 DEF NamesWithout, Others, Agrees, MapsAgree
<1> QED
  BY <1>1, <1>2

LEMMA RemovedAgrees ==
  ASSUME NEW s, Agrees(s), NEW p
  PROVE  Agrees(RemoveProcess(s, p))
<1> DEFINE r == RemoveProcess(s, p)
<1>1. r = [list |-> Drop(s.list, p), names |-> NamesWithout(s, p), games |-> s.games]
  BY DEF RemoveProcess, Agrees, Shaped
<1>2. DOMAIN r.list = DOMAIN s.list \ {p} /\ \A q \in DOMAIN r.list : r.list[q] = s.list[q]
  BY <1>1 DEF Drop
<1>3. Others(s, p, r.names)
  BY <1>1, OtherNames
<1> QED
  BY <1>1, <1>2, <1>3 DEF Others, Agrees, Shaped, MapsAgree

LEMMA PushedAgrees ==
  ASSUME NEW s, Agrees(s), NEW p, NEW info
  PROVE  Agrees(PushProcess(s, p, info))
<1> DEFINE r == PushProcess(s, p, info)
           old == NamesWithout(s, p)
           n == info.name
<1>1. r = [list |-> Put(s.list, p, info), names |-> Learn(old, n, p), games |-> s.games]
  BY DEF PushProcess, Agrees, Shaped
<1>2. /\ DOMAIN r.list = DOMAIN s.list \cup {p}
      /\ r.list[p] = info
      /\ \A q \in DOMAIN s.list \ {p} : r.list[q] = s.list[q]
  BY <1>1 DEF Put
<1>3. Others(s, p, old)
  BY OtherNames
<1>4. r.names = [m \in DOMAIN old \cup {n} |->
                    IF m = n THEN (IF n \in DOMAIN old THEN old[n] ELSE {}) \cup {p} ELSE old[m]]
  BY <1>1 DEF Learn, Put
<1>5. DOMAIN r.names = {r.list[q].name : q \in DOMAIN r.list}
  BY <1>2, <1>3, <1>4 DEF Others
<1>6. ASSUME NEW m \in DOMAIN r.names
      PROVE  r.names[m] = {q \in DOMAIN r.list : r.list[q].name = m}
  <2>1. CASE m # n
    BY <1>2, <1>3, <1>4, <2>1 DEF Others
  <2>2. CASE m = n /\ n \in DOMAIN old
    BY <1>2, <1>3, <1>4, <2>2 DEF Others
  <2>3. CASE m = n /\ n \notin DOMAIN old
    BY <1>2, <1>3, <1>4, <2>3 DEF Others
  <2> QED
    BY <2>1, <2>2, <2>3
<1> QED
  BY <1>1, <1>5, <1>6 DEF Agrees, Shaped, MapsAgree

LEMMA LoadedAgrees ==
  ASSUME NEW processes
  PROVE  Agrees(Load(processes))
  BY DEF Load, Agrees, Shaped, MapsAgree

LEMMA GamesAgree ==
  ASSUME NEW s, Agrees(s), NEW g
  PROVE  Agrees([s EXCEPT !.games = g])
<1>1. [s EXCEPT !.games = g] = [list |-> s.list, names |-> s.names, games |-> g]
  BY DEF Agrees, Shaped
<1> QED
  BY <1>1 DEF Agrees, Shaped, MapsAgree
-----------------------------------------------------------------------------
(* A watcher works from the moment it has the guard to the moment it drops it: *)
(* whoever works has the lock. While it starts it has a draft of the state;    *)
(* the state is there while one works.                                         *)
Starting == {"listen", "connect", "publish", "follow"}
Domains == DOMAIN pc = Task /\ DOMAIN draft = Watcher
WorkersHold == \A w \in Watcher : Works(w) => lock = w
DraftsAgree == \A w \in Watcher : pc[w] \in Starting => Agrees(draft[w])
StateAgrees == state # None => Agrees(state) /\ \E w \in Watcher : Works(w)
WatcherInv == Domains /\ WorkersHold /\ DraftsAgree /\ StateAgrees

LEMMA InvIsEnough == WatcherInv => ListAgrees /\ OneWatcher
  BY DEF WatcherInv, WorkersHold, StateAgrees, Agrees, ListAgrees, OneWatcher

LEMMA InitInv == Init => WatcherInv
<1> SUFFICES ASSUME Init
             PROVE  WatcherInv
  OBVIOUS
<1>1. DOMAIN pc = Task /\ DOMAIN draft = Watcher /\ state = None
  BY DEF Init
<1>2. \A w \in Watcher : pc[w] \in {"lock", "ended"}
  BY Ids DEF Init, Task
<1> QED
  BY <1>1, <1>2 DEF WatcherInv, Domains, WorkersHold, DraftsAgree, StateAgrees, Works, Starting

(* Most steps only move one task, a watcher among those at work, to a place    *)
(* where it goes on working.                                                   *)
Moves(t) ==
  /\ UNCHANGED <<lock, state, draft>>
  /\ t \in Watcher => Works(t)
  /\ \E at : at \notin Starting \cup {"lock", "ended"} /\ pc' = [pc EXCEPT ![t] = at]

LEMMA MovingKeepsInv ==
  ASSUME WatcherInv, NEW t \in Task, Moves(t)
  PROVE  WatcherInv'
<1>1. PICK at : at \notin Starting \cup {"lock", "ended"} /\ pc' = [pc EXCEPT ![t] = at]
  BY DEF Moves
<1>2. Domains'
  BY <1>1 DEF WatcherInv, Domains, Moves
<1>3. ASSUME NEW w \in Watcher
      PROVE  (Works(w)' <=> Works(w)) /\ (pc'[w] \in Starting => pc[w] \in Starting)
  BY <1>1 DEF WatcherInv, Domains, Moves, Works, Task
<1> QED
  BY <1>2, <1>3 DEF WatcherInv, WorkersHold, DraftsAgree, StateAgrees, Moves

LEMMA SettingMoves ==
  ASSUME NEW t \in Task, NEW done, NEW failed,
         done \notin Starting \cup {"lock", "ended"}, failed \notin Starting \cup {"lock", "ended"},
         \/ CheckProfile(t, failed) \/ Cleanup(t) \/ WriteProfile(t) \/ ApplyProfile(t, done, failed)
         \/ StopWaits(t)
  PROVE  Moves(t)
<1> USE DEF Moves, Works, Goto, watch, Starting
<1>1. CASE CheckProfile(t, failed)
  BY <1>1 DEF CheckProfile
<1>2. CASE Cleanup(t)
  BY <1>2 DEF Cleanup
<1>3. CASE WriteProfile(t)
  BY <1>3 DEF WriteProfile
<1>4. CASE ApplyProfile(t, done, failed)
  BY <1>4 DEF ApplyProfile
<1>5. CASE StopWaits(t)
  BY <1>5 DEF StopWaits
<1> QED
  BY <1>1, <1>2, <1>3, <1>4, <1>5

(* The watcher that is started is one that had ended, and it waits.            *)
LEMMA StartingKeepsInv ==
  ASSUME WatcherInv, NEW t \in Task, NEW next,
         next \notin Starting \cup {"lock", "ended"}, StartWatcher(t, next)
  PROVE  WatcherInv'
<1>1. PICK w \in Watcher : Free(w) /\ pc' = [pc EXCEPT ![w] = "lock", ![t] = next]
  BY DEF StartWatcher
<1>2. pc[w] = "ended" /\ pc[t] \in {"take", "stop"} /\ UNCHANGED <<lock, state, draft>>
  BY <1>1 DEF Free, Ended, StartWatcher, CanStop
<1>3. Domains'
  BY <1>1, <1>2 DEF WatcherInv, Domains
<1>4. ASSUME NEW v \in Watcher
      PROVE  (Works(v)' <=> Works(v)) /\ (pc'[v] \in Starting => pc[v] \in Starting)
  BY <1>1, <1>2 DEF WatcherInv, Domains, Works, Task, Starting
<1> QED
  BY <1>2, <1>3, <1>4 DEF WatcherInv, WorkersHold, DraftsAgree, StateAgrees

LEMMA ClientKeepsInv ==
  ASSUME WatcherInv, NEW c \in Client, Request(c) \/ Handle(c)
  PROVE  WatcherInv'
<1>1. c \in Task /\ c \notin Watcher
  BY Ids DEF Task
<1>2. CASE Request(c)
  <2>1. PICK first \in {"take", "delete", "edit"} : \E kind : Begin(c, kind, first)
    <3>1. CASE BeginSetProfile(c)
      BY <3>1 DEF BeginSetProfile
    <3>2. CASE BeginEdit(c)
      <4>1. PICK kind : Begin(c, kind, IF kind = "delete" THEN "delete" ELSE "edit")
        BY <3>2 DEF BeginEdit
      <4> QED
        BY <4>1
    <3> QED
      BY <1>2, <3>1, <3>2 DEF Request
  <2>2. Moves(c)
    <3>1. UNCHANGED <<lock, state, draft>> /\ pc' = [pc EXCEPT ![c] = first]
      BY <2>1 DEF Begin, watch
    <3> QED
      BY <1>1, <3>1 DEF Moves, Starting
  <2> QED
    BY <1>1, <2>2, MovingKeepsInv
<1>3. CASE StartWatcher(c, "mark")
  BY <1>1, <1>3, StartingKeepsInv DEF Starting
<1>4. CASE \/ StopWaits(c) \/ CheckProfile(c, "idle") \/ Cleanup(c) \/ WriteProfile(c)
           \/ ApplyProfile(c, IF op[c].kind = "set" THEN "mark" ELSE "edit", "idle")
  <2>1. PICK done \in {"mark", "edit"} :
          \/ StopWaits(c) \/ CheckProfile(c, "idle") \/ Cleanup(c) \/ WriteProfile(c)
          \/ ApplyProfile(c, done, "idle")
    <3>1. CASE op[c].kind = "set"
      BY <1>4, <3>1
    <3>2. CASE op[c].kind # "set"
      BY <1>4, <3>2
    <3> QED
      BY <3>1, <3>2
  <2>2. done \notin Starting \cup {"lock", "ended"} /\ "idle" \notin Starting \cup {"lock", "ended"}
    BY <2>1 DEF Starting
  <2>3. Moves(c)
    BY <1>1, <2>1, <2>2, SettingMoves
  <2> QED
    BY <1>1, <2>3, MovingKeepsInv
<1>5. CASE \/ StopWatcher(c, "check") \/ DeleteLeaves(c) \/ EditProfiles(c) \/ Notify(c)
           \/ MarkAuto(c)
  <2> USE DEF Moves, Goto, watch, Starting
  <2>1. CASE StopWatcher(c, "check")
    BY <1>1, <2>1, MovingKeepsInv DEF StopWatcher
  <2>2. CASE DeleteLeaves(c)
    BY <1>1, <2>2, MovingKeepsInv DEF DeleteLeaves
  <2>3. CASE EditProfiles(c)
    BY <1>1, <2>3, MovingKeepsInv DEF EditProfiles
  <2>4. CASE Notify(c)
    BY <1>1, <2>4, MovingKeepsInv DEF Notify
  <2>5. CASE MarkAuto(c)
    BY <1>1, <2>5, MovingKeepsInv DEF MarkAuto
  <2> QED
    BY <1>5, <2>1, <2>2, <2>3, <2>4, <2>5
<1> QED
  BY <1>2, <1>3, <1>4, <1>5 DEF Handle

(* The steps with which a watcher starts: it takes the guard, prepares a       *)
(* draft, and publishes it.                                                    *)
LEMMA LockingKeepsInv ==
  ASSUME WatcherInv, NEW w \in Watcher, LockWatcher(w)
  PROVE  WatcherInv'
<1>1. /\ lock = None /\ lock' = w /\ UNCHANGED state
      /\ draft' = [draft EXCEPT ![w] = Load(running)]
      /\ pc' = [pc EXCEPT ![w] = "listen"]
  BY DEF LockWatcher, Goto
<1>2. \A v \in Watcher : ~Works(v)
  BY <1>1, Ids DEF WatcherInv, WorkersHold
<1>3. state = None
  BY <1>2 DEF WatcherInv, StateAgrees
<1>4. Agrees(Load(running))
  BY LoadedAgrees
<1> QED
  BY <1>1, <1>2, <1>3, <1>4
  DEF WatcherInv, Domains, WorkersHold, DraftsAgree, StateAgrees, Works, Starting, Task

LEMMA PreparingKeepsInv ==
  ASSUME WatcherInv, NEW w \in Watcher, StartListener(w) \/ ConnectGamemode(w)
  PROVE  WatcherInv'
<1>1. /\ pc[w] \in Starting /\ UNCHANGED <<lock, state>>
      /\ \E at \in Starting : pc' = [pc EXCEPT ![w] = at]
  BY DEF StartListener, ConnectGamemode, Goto, Starting
<1>2. Agrees(draft[w])
  BY <1>1 DEF WatcherInv, DraftsAgree
<1>3. draft' = draft \/ draft' = [draft EXCEPT ![w] = [draft[w] EXCEPT !.games = games]]
  BY DEF StartListener, ConnectGamemode
<1>4. Agrees(draft'[w]) /\ DOMAIN draft' = Watcher
      /\ \A v \in Watcher \ {w} : draft'[v] = draft[v]
  BY <1>2, <1>3, GamesAgree DEF WatcherInv, Domains
<1> QED
  BY <1>1, <1>4
  DEF WatcherInv, Domains, WorkersHold, DraftsAgree, StateAgrees, Works, Starting, Task

LEMMA PublishingKeepsInv ==
  ASSUME WatcherInv, NEW w \in Watcher, PublishState(w)
  PROVE  WatcherInv'
<1>1. /\ pc[w] \in Starting /\ lock' = lock /\ state' = draft[w]
      /\ draft' = [draft EXCEPT ![w] = None]
      /\ pc' = [pc EXCEPT ![w] = "eval"]
  BY DEF PublishState, Goto, Starting
<1>2. Agrees(draft[w])
  BY <1>1 DEF WatcherInv, DraftsAgree
<1> QED
  BY <1>1, <1>2
  DEF WatcherInv, Domains, WorkersHold, DraftsAgree, StateAgrees, Works, Starting, Task

(* An event changes the state only while the watcher has the guard.            *)
LEMMA EventAgrees ==
  ASSUME state # None => Agrees(state), NEW e
  PROVE  AfterEvent(e) # None => Agrees(AfterEvent(e))
<1> SUFFICES ASSUME state # None
             PROVE  Agrees(AfterEvent(e))
  BY DEF AfterEvent
<1>1. CASE e.type = "exec" /\ e.pid \in DOMAIN running
  BY <1>1, PushedAgrees DEF AfterEvent
<1>2. CASE e.type = "exit"
  BY <1>2, RemovedAgrees DEF AfterEvent
<1>3. CASE e.type = "game"
  BY <1>3, GamesAgree DEF AfterEvent
<1>4. CASE e.type = "no_game"
  BY <1>4, GamesAgree DEF AfterEvent
<1>5. CASE /\ ~(e.type = "exec" /\ e.pid \in DOMAIN running)
           /\ e.type \notin {"exit", "game", "no_game"}
  BY <1>5 DEF AfterEvent
<1> QED
  BY <1>1, <1>2, <1>3, <1>4, <1>5

LEMMA EventKeepsInv ==
  ASSUME WatcherInv, NEW w \in Watcher, ReceiveEvent(w)
  PROVE  WatcherInv'
<1>1. /\ pc[w] \in {"loop", "debounce"} /\ UNCHANGED <<lock, draft>>
      /\ state' = AfterEvent(Head(events[w]))
      /\ pc' = [pc EXCEPT ![w] = "debounce"]
  BY DEF ReceiveEvent, Goto
<1>2. state' # None => Agrees(state')
  BY <1>1, EventAgrees DEF WatcherInv, StateAgrees
<1> QED
  BY <1>1, <1>2
  DEF WatcherInv, Domains, WorkersHold, DraftsAgree, StateAgrees, Works, Starting, Task

LEMMA EndingKeepsInv ==
  ASSUME WatcherInv, NEW w \in Watcher, EndWatcher(w)
  PROVE  WatcherInv'
<1>1. /\ pc[w] = "drop" /\ state' = None /\ lock' = None /\ draft' = draft
      /\ pc' = [pc EXCEPT ![w] = "ended"]
  BY DEF EndWatcher, Goto
<1>2. \A v \in Watcher \ {w} : ~Works(v)
  BY <1>1 DEF WatcherInv, WorkersHold, Works
<1> QED
  BY <1>1, <1>2
  DEF WatcherInv, Domains, WorkersHold, DraftsAgree, StateAgrees, Works, Starting, Task

LEMMA RoundMoves ==
  ASSUME NEW w \in Watcher,
         \/ Evaluate(w) \/ Compare(w) \/ ReceiveCommand(w) \/ DebounceEnds(w) \/ QuietRestart(w)
  PROVE  Moves(w)
<1> USE DEF Moves, Works, Goto, watch, Starting
<1>1. CASE Evaluate(w)
  BY <1>1 DEF Evaluate
<1>2. CASE Compare(w)
  BY <1>2 DEF Compare, AfterUpdate
<1>3. CASE ReceiveCommand(w)
  BY <1>3 DEF ReceiveCommand
<1>4. CASE DebounceEnds(w)
  BY <1>4 DEF DebounceEnds
<1>5. CASE QuietRestart(w)
  BY <1>5 DEF QuietRestart
<1> QED
  BY <1>1, <1>2, <1>3, <1>4, <1>5

LEMMA WatcherKeepsInv ==
  ASSUME WatcherInv, NEW w \in Watcher, Work(w) \/ QuietRestart(w)
  PROVE  WatcherInv'
<1>1. w \in Task
  BY DEF Task
<1>2. CASE \/ LockWatcher(w) \/ StartListener(w) \/ ConnectGamemode(w) \/ PublishState(w)
           \/ ReceiveEvent(w) \/ EndWatcher(w)
  BY <1>2, LockingKeepsInv, PreparingKeepsInv, PublishingKeepsInv, EventKeepsInv, EndingKeepsInv
<1>3. CASE \/ Evaluate(w) \/ Compare(w) \/ ReceiveCommand(w) \/ DebounceEnds(w) \/ QuietRestart(w)
  BY <1>1, <1>3, RoundMoves, MovingKeepsInv
<1>4. CASE \/ CheckProfile(w, AfterUpdate(w)) \/ Cleanup(w) \/ WriteProfile(w)
           \/ ApplyProfile(w, AfterUpdate(w), AfterUpdate(w)) \/ StopWaits(w)
  <2>1. AfterUpdate(w) \notin Starting \cup {"lock", "ended"}
    BY DEF AfterUpdate, Starting
  <2> QED
    BY <1>1, <1>4, <2>1, SettingMoves, MovingKeepsInv
<1>5. CASE StartWatcher(w, "drop")
  BY <1>1, <1>5, StartingKeepsInv DEF Starting
<1> QED
  BY <1>2, <1>3, <1>4, <1>5 DEF Work

LEMMA KeepingKeepsInv ==
  ASSUME WatcherInv, UNCHANGED <<lock, state, draft, pc>>
  PROVE  WatcherInv'
  BY DEF WatcherInv, Domains, WorkersHold, DraftsAgree, StateAgrees, Works

LEMMA StepKeepsInv == WatcherInv /\ [Next]_vars => WatcherInv'
<1> SUFFICES ASSUME WatcherInv, [Next]_vars
             PROVE  WatcherInv'
  OBVIOUS
<1>1. CASE SystemChanges \/ InstallFile \/ ApplyFile
  BY <1>1, KeepingKeepsInv DEF SystemChanges, InstallFile, ApplyFile, watch, control
<1>2. ASSUME NEW c \in Client, Request(c) \/ Handle(c)
      PROVE  WatcherInv'
  BY <1>2, ClientKeepsInv
<1>3. ASSUME NEW w \in Watcher, Work(w) \/ QuietRestart(w)
      PROVE  WatcherInv'
  BY <1>3, WatcherKeepsInv
<1>4. ASSUME NEW w \in Watcher, ProbeListener(w)
      PROVE  WatcherInv'
  BY <1>4, KeepingKeepsInv DEF ProbeListener, control
<1>5. CASE UNCHANGED vars
  BY <1>5, KeepingKeepsInv DEF vars, watch, control
<1> QED
  BY <1>1, <1>2, <1>3, <1>4, <1>5 DEF Next

LEMMA InvHolds == Spec => []WatcherInv
  BY InitInv, StepKeepsInv, PTL DEF Spec

(* ListAgrees for all processes, names and events, also events that are        *)
(* missed, repeated or of a process that was never seen                        *)
(* (ProfileWatcherState in lact-schema/src/profiles.rs).                       *)
THEOREM ListIsRight == Spec => []ListAgrees
<1>1. WatcherInv => ListAgrees
  BY InvIsEnough
<1> QED
  BY <1>1, InvHolds, PTL

(* OneWatcher for any number of watchers and clients: however watchers are     *)
(* stopped, started and restart themselves, only one works (run_watcher in     *)
(* lact-daemon/src/server/profiles.rs).                                        *)
THEOREM OneWatcherWorks == Spec => []OneWatcher
<1>1. WatcherInv => OneWatcher
  BY InvIsEnough
<1> QED
  BY <1>1, InvHolds, PTL

-----------------------------------------------------------------------------
(* The settings of the profile in use. SetIsApplied is inductive: whoever      *)
(* touches the hardware or the profile is not done before it has applied what  *)
(* is then in use.                                                             *)
Setting(t) == pc[t] \in {"write", "apply"}
SetInv == DOMAIN pc = Task /\ SetIsApplied

(* Most steps change neither profile nor hardware, and end no switch.          *)
Aside ==
  /\ UNCHANGED <<cur, applied, broken, installed>>
  /\ DOMAIN pc' = DOMAIN pc /\ \A t \in Task : Setting(t) => pc'[t] = pc[t]

LEMMA AsideKeepsSet ==
  ASSUME SetInv, Aside
  PROVE  SetInv'
  BY DEF SetInv, SetIsApplied, BetweenSets, Aside, Setting

LEMMA SwitchKeepsSet ==
  ASSUME SetInv, NEW t \in Task, NEW done, NEW failed,
         Cleanup(t) \/ WriteProfile(t) \/ ApplyProfile(t, done, failed)
  PROVE  SetInv'
<1>1. CASE Cleanup(t)
  <2>1. DOMAIN pc' = Task /\ pc'[t] = "write"
    BY <1>1 DEF Cleanup, Goto, SetInv
  <2> QED
    BY <2>1 DEF SetInv, SetIsApplied, BetweenSets
<1>2. CASE WriteProfile(t)
  <2>1. DOMAIN pc' = Task /\ pc'[t] = "apply"
    BY <1>2 DEF WriteProfile, Goto, SetInv
  <2> QED
    BY <2>1 DEF SetInv, SetIsApplied, BetweenSets
<1>3. CASE ApplyProfile(t, done, failed)
  <2>1. DOMAIN pc' = Task /\ (broken' \/ applied' = cur')
    BY <1>3 DEF ApplyProfile, ApplyCurrent, Goto, SetInv, settings
  <2> QED
    BY <2>1 DEF SetInv, SetIsApplied
<1> QED
  BY <1>1, <1>2, <1>3

LEMMA RestIsAside ==
  ASSUME DOMAIN pc = Task, NEW t \in Task, NEW next,
         \/ CheckProfile(t, next) \/ StopWaits(t) \/ StopWatcher(t, next) \/ StartWatcher(t, next)
  PROVE  Aside
<1> USE DEF Aside, Setting, Goto, settings, hardware, system
<1>1. CASE CheckProfile(t, next)
  BY <1>1 DEF CheckProfile
<1>2. CASE StopWaits(t)
  BY <1>2 DEF StopWaits
<1>3. CASE StopWatcher(t, next)
  BY <1>3 DEF StopWatcher, CanStop
<1>4. CASE StartWatcher(t, next)
  <2>1. PICK w \in Watcher : Free(w) /\ pc' = [pc EXCEPT ![w] = "lock", ![t] = next]
    BY <1>4 DEF StartWatcher
  <2>2. pc[w] = "ended" /\ pc[t] \in {"take", "stop"} /\ UNCHANGED <<cur, applied, broken, installed>>
    BY <1>4, <2>1 DEF Free, Ended, StartWatcher, CanStop
  <2> QED
    BY <2>1, <2>2
<1> QED
  BY <1>1, <1>2, <1>3, <1>4

LEMMA ClientKeepsSet ==
  ASSUME SetInv, NEW c \in Client, Request(c) \/ Handle(c)
  PROVE  SetInv'
<1>1. c \in Task /\ DOMAIN pc = Task
  BY DEF Task, SetInv
<1>2. CASE Request(c)
  <2>1. PICK kind, first : Begin(c, kind, first)
    BY <1>2 DEF Request, BeginSetProfile, BeginEdit
  <2>2. Aside
    BY <1>1, <2>1 DEF Begin, Idle, Aside, Setting, settings, hardware, system
  <2> QED
    BY <2>2, AsideKeepsSet
<1>3. CASE \/ StopWaits(c) \/ CheckProfile(c, "idle")
           \/ StartWatcher(c, "mark") \/ StopWatcher(c, "check")
  BY <1>1, <1>3, RestIsAside, AsideKeepsSet
<1>4. CASE \/ Cleanup(c) \/ WriteProfile(c)
           \/ ApplyProfile(c, IF op[c].kind = "set" THEN "mark" ELSE "edit", "idle")
  BY <1>1, <1>4, SwitchKeepsSet
<1>5. CASE DeleteLeaves(c) \/ EditProfiles(c) \/ Notify(c) \/ MarkAuto(c)
  <2> USE <1>1 DEF Aside, Setting, Goto, settings, hardware, system
  <2>1. CASE DeleteLeaves(c)
    BY <2>1, AsideKeepsSet DEF DeleteLeaves
  <2>2. CASE EditProfiles(c)
    BY <2>2, AsideKeepsSet DEF EditProfiles
  <2>3. CASE Notify(c)
    BY <2>3, AsideKeepsSet DEF Notify
  <2>4. CASE MarkAuto(c)
    BY <2>4, AsideKeepsSet DEF MarkAuto
  <2> QED
    BY <1>5, <2>1, <2>2, <2>3, <2>4
<1> QED
  BY <1>2, <1>3, <1>4, <1>5 DEF Handle

LEMMA WatcherKeepsSet ==
  ASSUME SetInv, NEW w \in Watcher, Work(w) \/ ProbeListener(w) \/ QuietRestart(w)
  PROVE  SetInv'
<1>1. w \in Task /\ DOMAIN pc = Task
  BY DEF Task, SetInv
<1>2. CASE StopWaits(w) \/ CheckProfile(w, AfterUpdate(w)) \/ StartWatcher(w, "drop")
  BY <1>1, <1>2, RestIsAside, AsideKeepsSet
<1>3. CASE Cleanup(w) \/ WriteProfile(w) \/ ApplyProfile(w, AfterUpdate(w), AfterUpdate(w))
  BY <1>1, <1>3, SwitchKeepsSet
<1>4. CASE \/ LockWatcher(w) \/ StartListener(w) \/ ConnectGamemode(w) \/ PublishState(w)
           \/ EndWatcher(w)
  <2> USE <1>1 DEF Aside, Setting, Goto, settings, hardware, system
  <2>1. CASE LockWatcher(w)
    BY <2>1, AsideKeepsSet DEF LockWatcher
  <2>2. CASE StartListener(w)
    BY <2>2, AsideKeepsSet DEF StartListener
  <2>3. CASE ConnectGamemode(w)
    BY <2>3, AsideKeepsSet DEF ConnectGamemode
  <2>4. CASE PublishState(w)
    BY <2>4, AsideKeepsSet DEF PublishState
  <2>5. CASE EndWatcher(w)
    BY <2>5, AsideKeepsSet DEF EndWatcher
  <2> QED
    BY <1>4, <2>1, <2>2, <2>3, <2>4, <2>5
<1>5. CASE \/ Evaluate(w) \/ Compare(w) \/ ReceiveCommand(w) \/ ReceiveEvent(w)
           \/ DebounceEnds(w) \/ QuietRestart(w) \/ ProbeListener(w)
  <2> USE <1>1 DEF Aside, Setting, Goto, settings, hardware, system
  <2>1. CASE Evaluate(w)
    BY <2>1, AsideKeepsSet DEF Evaluate
  <2>2. CASE Compare(w)
    BY <2>2, AsideKeepsSet DEF Compare
  <2>3. CASE ReceiveCommand(w)
    BY <2>3, AsideKeepsSet DEF ReceiveCommand
  <2>4. CASE ReceiveEvent(w)
    BY <2>4, AsideKeepsSet DEF ReceiveEvent
  <2>5. CASE DebounceEnds(w)
    BY <2>5, AsideKeepsSet DEF DebounceEnds
  <2>6. CASE QuietRestart(w)
    BY <2>6, AsideKeepsSet DEF QuietRestart
  <2>7. CASE ProbeListener(w)
    BY <2>7, AsideKeepsSet DEF ProbeListener, control
  <2> QED
    BY <1>5, <2>1, <2>2, <2>3, <2>4, <2>5, <2>6, <2>7
<1> QED
  BY <1>2, <1>3, <1>4, <1>5 DEF Work

LEMMA StepKeepsSet == SetInv /\ [Next]_vars => SetInv'
<1> SUFFICES ASSUME SetInv, [Next]_vars
             PROVE  SetInv'
  OBVIOUS
<1>1. CASE SystemChanges \/ UNCHANGED vars
  <2>1. Aside
    BY <1>1 DEF SystemChanges, vars, settings, hardware, system, control, Aside, Setting
  <2> QED
    BY <2>1, AsideKeepsSet
<1>2. CASE InstallFile \/ ApplyFile
  <2>1. DOMAIN pc' = Task /\ (installed' \/ broken' \/ applied' = cur')
    BY <1>2 DEF InstallFile, ApplyFile, ApplyCurrent, SetInv, settings, control
  <2> QED
    BY <2>1 DEF SetInv, SetIsApplied, BetweenSets
<1> QED
  BY <1>1, <1>2, ClientKeepsSet, WatcherKeepsSet DEF Next

LEMMA InitSet == Init => SetInv
  BY DEF Init, SetInv, SetIsApplied

(* SetIsApplied for any number of clients and watchers that set profiles at    *)
(* once (set_current_profile in lact-daemon/src/server/handler.rs).            *)
THEOREM SetProfileIsApplied == Spec => []SetIsApplied
<1>1. SetInv => SetIsApplied
  BY DEF SetInv
<1> QED
  BY <1>1, InitSet, StepKeepsSet, PTL DEF Spec
-----------------------------------------------------------------------------
(* The profile the rules say. With one client, whose requests follow each      *)
(* other (a profile that one client deletes while another sets it leaves the   *)
(* watcher at rest with a profile the rules do not say, until it is next       *)
(* told): what the watcher is about to set, and then the profile in use, is    *)
(* what the rules say, or the watcher is told to look again, or the client is  *)
(* about to tell it, or to end the switching.                                  *)
OneClient == \A c, d \in Client : c = d

Sequence(s) == s \in Seq({s[i] : i \in DOMAIN s})
RuleDomains ==
  /\ DOMAIN pc = Task /\ DOMAIN goal = Task /\ DOMAIN to = Task
  /\ DOMAIN op = Client /\ DOMAIN chan = Watcher
  /\ Sequence(profiles)

Edits == {"create", "delete", "move", "rule"}

(* A client that sets a profile by itself does so to delete it, or on a        *)
(* request to set it that ends the switching, and the profile is there.        *)
Asked ==
  \A c \in Client :
    /\ pc[c] = "delete" => op[c].kind = "delete"
    /\ pc[c] = "edit" => op[c].kind \in Edits
    /\ pc[c] \in {"check", "cleanup", "write", "apply"} =>
         op[c].kind = "delete" \/ (op[c].kind = "set" /\ ~op[c].auto)

Told(w) ==
  \/ chan[w] # <<>> \/ unnoticed
  \/ \E c \in Client : pc[c] = "notify" \/ (pc[c] = "update" /\ to[c] = w)
AboutTo(c) ==
  \/ pc[c] = "apply" /\ Known(cur)
  \/ pc[c] = "edit" /\ op[c].kind = "delete"
  \/ pc[c] = "mark" /\ ~op[c].auto
Switches == auto \/ \E c \in Client : pc[c] = "mark" /\ op[c].auto

Aiming == {"compare", "check", "cleanup", "write"}
Settled == {"apply", "loop"}
Aims(w) == tx = w /\ pc[w] \in Aiming => goal[w] = RuledProfile \/ Told(w)
Stays(w) ==
  Switches /\ tx = w /\ pc[w] \in Settled =>
    cur = RuledProfile \/ Told(w) \/ \E c \in Client : AboutTo(c)
RuleInv == RuleDomains /\ Asked /\ \A w \in Watcher : Aims(w) /\ Stays(w)

LEMMA SequenceOf ==
  ASSUME NEW T, NEW s \in Seq(T)
  PROVE  Sequence(s)
<1>1. s = [i \in 1..Len(s) |-> s[i]] /\ Len(s) \in Nat
  OBVIOUS
<1> QED
  BY <1>1 DEF Sequence

LEMMA EditedSequence ==
  ASSUME Sequence(profiles), NEW o, ~Refused(o), NEW s \in Edited(o),
         o.kind \in Edits
  PROVE  Sequence(s)
<1> DEFINE R == {profiles[i] : i \in DOMAIN profiles}
<1>1. profiles \in Seq(R) /\ DOMAIN profiles = 1..Len(profiles) /\ Len(profiles) \in Nat
  BY DEF Sequence
<1>2. Exists(o.name) => Position(o.name) \in DOMAIN profiles
  BY DEF Exists, Position
<1>3. CASE o.kind = "create"
  <2> DEFINE p == [name |-> o.name, rule |-> [type |-> "none"]]
  <2>1. s = Append(profiles, p)
    BY <1>3 DEF Edited
  <2>2. profiles \in Seq(R \cup {p})
    BY <1>1
  <2>3. s \in Seq(R \cup {p})
    BY <2>1, <2>2
  <2> QED
    BY <2>3, SequenceOf
<1>4. CASE o.kind = "delete"
  <2>1. CASE Exists(o.name)
    <3> DEFINE k == Position(o.name)
    <3>1. s = SubSeq(profiles, 1, k - 1) \o SubSeq(profiles, k + 1, Len(profiles))
      BY <1>4, <2>1 DEF Edited, RemoveAt
    <3>2. k \in 1..Len(profiles)
      BY <1>1, <1>2, <2>1
    <3> HIDE DEF k, R
    <3>3. /\ SubSeq(profiles, 1, k - 1) \in Seq(R)
          /\ SubSeq(profiles, k + 1, Len(profiles)) \in Seq(R)
      BY <1>1, <3>2
    <3>4. s \in Seq(R)
      BY <3>1, <3>3
    <3> QED
      BY <3>4, SequenceOf
  <2>2. CASE ~Exists(o.name)
    BY <1>4, <2>2 DEF Edited
  <2> QED
    BY <2>1, <2>2
<1>5. CASE o.kind = "move"
  <2>1. PICK j \in DOMAIN profiles :
          s = [profiles EXCEPT ![Position(o.name)] = profiles[j],
                               ![j] = profiles[Position(o.name)]]
    BY <1>5 DEF Edited
  <2>2. Position(o.name) \in DOMAIN profiles
    BY <1>2, <1>5 DEF Refused
  <2>3. s \in Seq(R)
    BY <1>1, <2>1, <2>2
  <2> QED
    BY <2>3, SequenceOf
<1>6. CASE o.kind = "rule"
  <2>1. PICK r : s = [profiles EXCEPT ![Position(o.name)].rule = r]
    BY <1>6 DEF Edited
  <2> DEFINE p == [profiles[Position(o.name)] EXCEPT !.rule = r]
  <2>2. Position(o.name) \in DOMAIN profiles
    BY <1>2, <1>6 DEF Refused
  <2>3. s = [profiles EXCEPT ![Position(o.name)] = p]
    BY <2>1
  <2>4. profiles \in Seq(R \cup {p})
    BY <1>1
  <2> HIDE DEF p, R
  <2>5. s \in Seq(R \cup {p})
    BY <2>2, <2>3, <2>4
  <2> QED
    BY <2>5, SequenceOf
<1> QED
  BY <1>3, <1>4, <1>5, <1>6 DEF Edits

LEMMA LeastPosition ==
  ASSUME NEW S \in SUBSET Nat, S # {}
  PROVE  \E m \in S : \A n \in S : m <= n
<1>1. PICK m \in S : \A n \in S : ~(<<n, m>> \in OpToRel(<, Nat))
  BY NatLessThanWellFounded, WFMin
<1> SUFFICES ASSUME NEW n \in S
             PROVE  m <= n
  BY <1>1
<1>2. n < m => <<n, m>> \in OpToRel(<, Nat)
  BY DEF OpToRel
<1>3. m \in Nat /\ n \in Nat
  OBVIOUS
<1>4. ~(n < m)
  BY <1>1, <1>2
<1> QED
  BY <1>3, <1>4

(* What the rules say is a profile there is, or none.                          *)
LEMMA RuledIsGood ==
  ASSUME Sequence(profiles)
  PROVE  Known(RuledProfile)
<1> DEFINE hits == {i \in DOMAIN profiles : ProfileRuleMatches(state, profiles[i].rule)}
           least == CHOOSE i \in hits : \A j \in hits : i <= j
<1>1. CASE state = None \/ hits = {}
  BY <1>1 DEF RuledProfile, EvaluateCurrentProfile, Known
<1>2. CASE state # None /\ hits # {}
  <2>1. RuledProfile = profiles[least].name
    BY <1>2 DEF RuledProfile, EvaluateCurrentProfile
  <2>2. hits \in SUBSET Nat
    BY DEF Sequence
  <2> HIDE DEF hits
  <2>3. least \in hits
    BY <1>2, <2>2, LeastPosition
  <2>4. least \in DOMAIN profiles
    BY <2>3 DEF hits
  <2> QED
    BY <2>1, <2>4 DEF Known, Exists
<1> QED
  BY <1>1, <1>2

LEMMA RuledStays ==
  ASSUME UNCHANGED <<state, profiles>>
  PROVE  RuledProfile' = RuledProfile
  BY DEF RuledProfile

LEMMA GoodStays ==
  ASSUME UNCHANGED profiles
  PROVE  \A name : Known(name)' <=> Known(name)
  BY DEF Known, Exists

LEMMA InitRules == Init => RuleInv
<1> SUFFICES ASSUME Init
             PROVE  RuleInv
  OBVIOUS
<1>1. RuleDomains
  BY Listed DEF Init, RuleDomains, Sequence
<1>2. \A c \in Client : pc[c] = "idle"
  BY Ids DEF Init, Task
<1>3. \A w \in Watcher : pc[w] \in {"lock", "ended"}
  BY Ids DEF Init, Task
<1> QED
  BY <1>1, <1>2, <1>3 DEF RuleInv, Asked, Aims, Stays, Aiming, Settled

(* A step of a watcher moves no client and edits no profile, and if the        *)
(* watcher that gets the commands is at work afterwards, the step was its own. *)
Alone(v) ==
  /\ UNCHANGED <<profiles, auto, op>>
  /\ RuleDomains'
  /\ \A c \in Client : pc'[c] = pc[c] /\ to'[c] = to[c] /\ goal'[c] = goal[c]
  /\ \A w \in Watcher : tx' = w /\ pc'[w] \in Aiming \cup Settled => w = v /\ tx = w

LEMMA WorkerIsAlone ==
  ASSUME WatcherInv, NEW v \in Watcher, Works(v), NEW w \in Watcher, pc[w] \in Aiming \cup Settled
  PROVE  w = v
  BY DEF WatcherInv, WorkersHold, Works, Aiming, Settled

(* Most steps change only what is the watcher's own.                           *)
Own(v) ==
  /\ UNCHANGED <<profiles, auto, op>>
  /\ tx' \in {tx, None}
  /\ RuleDomains'
  /\ \A t \in Task \ {v} : pc'[t] = pc[t] /\ to'[t] = to[t] /\ goal'[t] = goal[t]

LEMMA OwnIsAlone ==
  ASSUME WatcherInv, NEW v \in Watcher, Works(v), Own(v)
  PROVE  Alone(v)
<1>1. Client \cap Watcher = {} /\ None \notin Watcher
  BY Ids
<1>2. ASSUME NEW w \in Watcher, tx' = w, pc'[w] \in Aiming \cup Settled
      PROVE  w = v /\ tx = w
  BY <1>1, <1>2, WorkerIsAlone DEF Own, Task
<1> QED
  BY <1>1, <1>2 DEF Own, Alone, Task

LEMMA SettingIsOwn ==
  ASSUME RuleDomains, NEW v \in Watcher, NEW done, NEW failed,
         \/ CheckProfile(v, failed) \/ Cleanup(v) \/ WriteProfile(v) \/ ApplyProfile(v, done, failed)
         \/ StopWaits(v)
  PROVE  Own(v) /\ Works(v)
<1> USE Ids DEF Own, Works, Goto, watch, settings, hardware, RuleDomains, Task
<1>1. CASE CheckProfile(v, failed)
  BY <1>1 DEF CheckProfile
<1>2. CASE Cleanup(v)
  BY <1>2 DEF Cleanup
<1>3. CASE WriteProfile(v)
  BY <1>3 DEF WriteProfile
<1>4. CASE ApplyProfile(v, done, failed)
  BY <1>4 DEF ApplyProfile
<1>5. CASE StopWaits(v)
  BY <1>5 DEF StopWaits
<1> QED
  BY <1>1, <1>2, <1>3, <1>4, <1>5

LEMMA RoundIsOwn ==
  ASSUME RuleDomains, NEW v \in Watcher,
         \/ StartListener(v) \/ ConnectGamemode(v) \/ PublishState(v) \/ Evaluate(v) \/ Compare(v)
         \/ ReceiveCommand(v) \/ ReceiveEvent(v) \/ DebounceEnds(v)
         \/ ProbeListener(v) \/ QuietRestart(v) \/ EndWatcher(v)
  PROVE  Own(v) /\ Works(v)
<1> USE Ids DEF Own, Works, Goto, watch, settings, hardware, control, RuleDomains, Task
<1>1. CASE StartListener(v)
  BY <1>1 DEF StartListener
<1>2. CASE ConnectGamemode(v)
  BY <1>2 DEF ConnectGamemode
<1>3. CASE PublishState(v)
  BY <1>3 DEF PublishState
<1>4. CASE Evaluate(v)
  BY <1>4 DEF Evaluate
<1>5. CASE Compare(v)
  BY <1>5 DEF Compare
<1>6. CASE ReceiveCommand(v)
  BY <1>6 DEF ReceiveCommand
<1>7. CASE ReceiveEvent(v)
  BY <1>7 DEF ReceiveEvent
<1>8. CASE DebounceEnds(v)
  BY <1>8 DEF DebounceEnds
<1>9. CASE ProbeListener(v)
  BY <1>9 DEF ProbeListener
<1>10. CASE QuietRestart(v)
  BY <1>10 DEF QuietRestart
<1>11. CASE EndWatcher(v)
  BY <1>11 DEF EndWatcher
<1> QED
  BY <1>1, <1>2, <1>3, <1>4, <1>5, <1>6, <1>7, <1>8, <1>9, <1>10, <1>11

(* The commands a watcher has are there until it takes them or ends.           *)
LEMMA PostedKeeps ==
  ASSUME DOMAIN chan = Watcher, NEW w, NEW cmd
  PROVE  /\ DOMAIN Posted(w, cmd) = Watcher
         /\ \A v \in Watcher : chan[v] # <<>> => Posted(w, cmd)[v] # <<>>
<1>1. \A s : Append(s, cmd) # <<>>
  OBVIOUS
<1> QED
  BY <1>1 DEF Posted

(* A watcher that is started waits for the one before it.                      *)
LEMMA StartedWaits ==
  ASSUME RuleDomains, NEW t \in Task, NEW next, StartWatcher(t, next)
  PROVE  /\ UNCHANGED <<settings, state, goal, op>>
         /\ RuleDomains'
         /\ tx' \in Watcher /\ pc'[tx'] \in {"lock", next}
         /\ \A u \in Task \ {t} : to'[u] = to[u] /\ (u = tx' \/ pc'[u] = pc[u])
<1>1. PICK w \in Watcher :
        /\ Free(w) /\ tx' = w
        /\ pc' = [pc EXCEPT ![w] = "lock", ![t] = next]
        /\ chan' = [SendStop(Receiver(t)) EXCEPT ![w] = <<>>]
        /\ to' = [to EXCEPT ![t] = None]
        /\ UNCHANGED <<settings, state, goal, op>>
  BY DEF StartWatcher
<1>2. DOMAIN chan' = Watcher
  BY <1>1, PostedKeeps DEF RuleDomains, SendStop
<1>3. RuleDomains'
  BY <1>1, <1>2 DEF RuleDomains, settings
<1> QED
  BY <1>1, <1>3 DEF RuleDomains, Task

LEMMA WatchersAreAlone ==
  ASSUME WatcherInv, RuleDomains, NEW v \in Watcher,
         Work(v) \/ ProbeListener(v) \/ QuietRestart(v)
  PROVE  Alone(v)
<1>1. CASE LockWatcher(v)
  <2>1. \A w \in Watcher : pc[w] \notin Aiming \cup Settled
    BY <1>1, Ids DEF LockWatcher, WatcherInv, WorkersHold, Works, Aiming, Settled
  <2>2. /\ UNCHANGED <<profiles, auto, op, tx, to, goal, chan>>
        /\ pc' = [pc EXCEPT ![v] = "listen"]
    BY <1>1, Ids DEF LockWatcher, Goto, settings
  <2> QED
    BY <2>1, <2>2, Ids DEF Alone, RuleDomains, Task, Aiming, Settled
<1>2. CASE StartWatcher(v, "drop")
  <2>1. v \in Task /\ Client \cap Watcher = {}
    BY Ids DEF Task
  <2>2. /\ UNCHANGED <<settings, state, goal, op>> /\ RuleDomains'
        /\ tx' \in Watcher /\ pc'[tx'] \in {"lock", "drop"}
        /\ \A u \in Task \ {v} : to'[u] = to[u] /\ (u = tx' \/ pc'[u] = pc[u])
    BY <1>2, <2>1, StartedWaits
  <2> QED
    BY <2>1, <2>2 DEF Alone, Aiming, Settled, settings, Task
<1>3. CASE \/ CheckProfile(v, AfterUpdate(v)) \/ Cleanup(v) \/ WriteProfile(v)
           \/ ApplyProfile(v, AfterUpdate(v), AfterUpdate(v)) \/ StopWaits(v)
  BY <1>3, SettingIsOwn, OwnIsAlone
<1>4. CASE ~LockWatcher(v) /\ ~StartWatcher(v, "drop")
           /\ ~(\/ CheckProfile(v, AfterUpdate(v)) \/ Cleanup(v) \/ WriteProfile(v)
                \/ ApplyProfile(v, AfterUpdate(v), AfterUpdate(v)) \/ StopWaits(v))
  BY <1>4, RoundIsOwn, OwnIsAlone DEF Work
<1> QED
  BY <1>1, <1>2, <1>3, <1>4

(* What a watcher that is told to look again has done so far does not matter.  *)
LEMMA AloneKeeps ==
  ASSUME RuleInv, NEW v \in Watcher, Alone(v)
  PROVE  /\ Asked'
         /\ UNCHANGED <<chan, unnoticed>> => \A w : Told(w)' <=> Told(w)
         /\ UNCHANGED cur => \A c \in Client : AboutTo(c)' <=> AboutTo(c)
         /\ Switches' <=> Switches
  BY GoodStays DEF Alone, RuleInv, Asked, Told, AboutTo, Switches

LEMMA AloneIsEnough ==
  ASSUME RuleInv, NEW v \in Watcher, Alone(v), tx = v => Aims(v)' /\ Stays(v)'
  PROVE  RuleInv'
<1>1. \A w \in Watcher \ {v} : Aims(w)' /\ Stays(w)'
  BY DEF Alone, Aims, Stays
<1>2. tx # v => Aims(v)' /\ Stays(v)'
  BY DEF Alone, Aims, Stays
<1> QED
  BY <1>1, <1>2, AloneKeeps DEF Alone, RuleInv

LEMMA WatcherKeepsRules ==
  ASSUME WatcherInv, RuleInv, NEW v \in Watcher,
         Work(v) \/ ProbeListener(v) \/ QuietRestart(v)
  PROVE  RuleInv'
<1>1. Alone(v)
  BY WatchersAreAlone DEF RuleInv
<1> SUFFICES ASSUME tx = v
             PROVE  Aims(v)' /\ Stays(v)'
  BY <1>1, AloneIsEnough
<1>2. v \in Task /\ v \notin Client /\ DOMAIN pc = Task /\ DOMAIN goal = Task
  BY Ids DEF Task, RuleInv, RuleDomains
<1>3. Aims(v) /\ Stays(v)
  BY DEF RuleInv
<1>4. /\ UNCHANGED <<chan, unnoticed>> => (Told(v)' <=> Told(v))
      /\ UNCHANGED cur => \A c \in Client : AboutTo(c)' <=> AboutTo(c)
      /\ Switches' <=> Switches
  BY <1>1, AloneKeeps
<1>5. CASE pc'[v] \notin Aiming \cup Settled
  BY <1>5 DEF Aims, Stays
<1>6. CASE Evaluate(v)
  <2>1. /\ goal'[v] = RuledProfile /\ pc'[v] = "compare" /\ UNCHANGED <<state, profiles>>
    BY <1>2, <1>6 DEF Evaluate, Goto, settings, watch
  <2> QED
    BY <2>1, RuledStays DEF Aims, Stays, Settled
<1>7. CASE Compare(v)
  <2>1. /\ UNCHANGED <<state, profiles, chan, unnoticed, cur, tx>> /\ pc[v] = "compare"
        /\ \/ cur # goal[v] /\ goal' = goal /\ pc'[v] = "check"
           \/ cur = goal[v] /\ pc'[v] \in {"take", "loop"}
    BY <1>2, <1>7 DEF Compare, Goto, AfterUpdate, settings, system, watch
  <2>2. goal[v] = RuledProfile' \/ Told(v)'
    BY <1>3, <1>4, <2>1, RuledStays DEF Aims, Aiming
  <2> QED
    BY <2>1, <2>2 DEF Aims, Stays, Aiming, Settled
<1>8. CASE CheckProfile(v, AfterUpdate(v))
  <2>1. /\ UNCHANGED <<state, profiles, chan, unnoticed, cur, tx>> /\ pc[v] = "check"
        /\ \/ Known(goal[v]) /\ goal' = goal /\ pc'[v] = "cleanup"
           \/ ~Known(goal[v]) /\ pc'[v] \in {"take", "loop"}
    BY <1>2, <1>8 DEF CheckProfile, Goto, AfterUpdate, settings, system, watch, Known
  <2>2. goal[v] = RuledProfile' \/ Told(v)'
    BY <1>3, <1>4, <2>1, RuledStays DEF Aims, Aiming
  <2>3. Known(RuledProfile)
    BY RuledIsGood DEF RuleInv, RuleDomains
  <2>4. ~Known(goal[v]) => Told(v)'
    BY <2>1, <2>2, <2>3, RuledStays
  <2> QED
    BY <2>1, <2>2, <2>4 DEF Aims, Stays, Aiming, Settled
<1>9. CASE Cleanup(v)
  <2>1. /\ UNCHANGED <<state, profiles, chan, unnoticed, goal, tx>> /\ pc[v] = "cleanup" /\ pc'[v] = "write"
    BY <1>2, <1>9 DEF Cleanup, Goto, settings, system, watch
  <2> QED
    BY <1>3, <1>4, <2>1, RuledStays DEF Aims, Stays, Aiming, Settled
<1>10. CASE WriteProfile(v)
  <2>1. /\ UNCHANGED <<state, profiles, chan, tx>> /\ pc[v] = "write" /\ pc'[v] = "apply"
        /\ cur' = goal[v] /\ (unnoticed => unnoticed')
    BY <1>2, <1>10 DEF WriteProfile, Goto, watch
  <2>2. Told(v) => Told(v)'
    BY <1>1, <2>1 DEF Told, Alone
  <2> QED
    BY <1>3, <2>1, <2>2, RuledStays DEF Aims, Stays, Aiming, Settled
<1>11. CASE ApplyProfile(v, AfterUpdate(v), AfterUpdate(v))
  <2>1. /\ UNCHANGED <<state, profiles, chan, unnoticed, cur, tx>> /\ pc[v] = "apply"
        /\ pc'[v] \in {"take", "loop"}
    BY <1>2, <1>11 DEF ApplyProfile, Goto, AfterUpdate, settings, system, watch
  <2> QED
    BY <1>3, <1>4, <2>1, RuledStays DEF Aims, Stays, Aiming, Settled
<1>12. CASE ProbeListener(v)
  <2>1. UNCHANGED <<state, profiles, chan, unnoticed, cur, tx, pc, goal>>
    BY <1>12 DEF ProbeListener, settings, system, control
  <2> QED
    BY <1>3, <1>4, <2>1, RuledStays DEF Aims, Stays
<1>13. CASE \/ LockWatcher(v) \/ StartListener(v) \/ ConnectGamemode(v) \/ PublishState(v)
            \/ ReceiveCommand(v) \/ ReceiveEvent(v) \/ DebounceEnds(v) \/ QuietRestart(v)
            \/ EndWatcher(v)
  <2>1. pc'[v] \notin Aiming \cup Settled
    BY <1>2, <1>13
    DEF LockWatcher, StartListener, ConnectGamemode, PublishState, ReceiveCommand, ReceiveEvent,
        DebounceEnds, QuietRestart, EndWatcher, Goto, Aiming, Settled
  <2> QED
    BY <1>5, <2>1
<1>14. CASE StopWaits(v)
  <2>1. tx' # v
    BY <1>14, Ids DEF StopWaits
  <2> QED
    BY <2>1 DEF Aims, Stays
<1>15. CASE StartWatcher(v, "drop")
  <2>1. tx' \in Watcher /\ pc'[tx'] \in {"lock", "drop"}
    BY <1>2, <1>15, StartedWaits DEF RuleInv
  <2> QED
    BY <2>1 DEF Aims, Stays, Aiming, Settled
<1> QED
  BY <1>6, <1>7, <1>8, <1>9, <1>10, <1>11, <1>12, <1>13, <1>14, <1>15 DEF Work

(* A step of the client moves no watcher that is at work, and what it means    *)
(* for the watcher is decided by what it does to the two claims.               *)
Serves(c) ==
  /\ state' = state
  /\ RuleDomains'
  /\ \A w \in Watcher :
       tx' = w /\ pc'[w] \in Aiming \cup Settled =>
         tx = w /\ pc'[w] = pc[w] /\ goal'[w] = goal[w]
AsksRight(c) ==
  /\ pc[c] = "delete" => op[c].kind = "delete"
  /\ pc[c] = "edit" => op[c].kind \in Edits
  /\ pc[c] \in {"check", "cleanup", "write", "apply"} =>
       op[c].kind = "delete" \/ (op[c].kind = "set" /\ ~op[c].auto)
Tells(w) == tx = w /\ pc[w] \in Aiming \cup Settled /\ Told(w) => Told(w)'

LEMMA ServingIsEnough ==
  ASSUME OneClient, RuleInv, NEW c \in Client, Serves(c), AsksRight(c)',
         \A w \in Watcher : Tells(w), UNCHANGED profiles,
         Switches' => Switches,
         \/ cur' = cur /\ (AboutTo(c) => AboutTo(c)')
         \/ AboutTo(c)'
  PROVE  RuleInv'
<1>1. Asked'
  BY DEF OneClient, Asked, AsksRight
<1>2. RuledProfile' = RuledProfile
  BY RuledStays DEF Serves
<1>3. ASSUME NEW w \in Watcher
      PROVE  Aims(w)'
  BY <1>2 DEF RuleInv, Aims, Serves, Tells
<1>4. ASSUME NEW w \in Watcher
      PROVE  Stays(w)'
  <2> SUFFICES ASSUME Switches', tx' = w, pc'[w] \in Settled
               PROVE  cur' = RuledProfile' \/ Told(w)' \/ \E d \in Client : AboutTo(d)'
    BY DEF Stays
  <2>1. tx = w /\ pc[w] \in Settled /\ (Told(w) => Told(w)')
    BY DEF Serves, Tells
  <2>2. cur = RuledProfile \/ Told(w) \/ \E d \in Client : AboutTo(d)
    BY <2>1 DEF RuleInv, Stays
  <2>3. (\E d \in Client : AboutTo(d)) => AboutTo(c)
    BY DEF OneClient
  <2> QED
    BY <1>2, <2>1, <2>2, <2>3
<1> QED
  BY <1>1, <1>3, <1>4 DEF RuleInv, Serves

(* The watchers are left alone: the client only moves itself.                  *)
LEMMA MovesItself ==
  ASSUME RuleDomains, NEW c \in Client, UNCHANGED <<state, tx>>, RuleDomains',
         \A w \in Watcher : pc'[w] = pc[w] /\ goal'[w] = goal[w]
  PROVE  Serves(c)
  BY DEF Serves

LEMMA PostingTells ==
  ASSUME RuleDomains, NEW c \in Client, pc[c] \notin {"notify", "update"}, OneClient,
         NEW w \in Watcher, chan[w] # <<>> => chan'[w] # <<>>, unnoticed => unnoticed'
  PROVE  Tells(w)
  BY DEF Tells, Told, OneClient

LEMMA RequestKeepsRules ==
  ASSUME OneClient, RuleInv, NEW c \in Client, Request(c)
  PROVE  RuleInv'
<1>1. c \in Task /\ c \notin Watcher /\ RuleDomains /\ DOMAIN pc = Task /\ DOMAIN goal = Task
      /\ DOMAIN op = Client /\ \A w \in Watcher : w \in Task
  BY Ids DEF Task, RuleInv, RuleDomains
<1>2. /\ pc[c] = "idle" /\ UNCHANGED <<settings, unnoticed, state, chan, to, tx>>
      /\ \E n, r : goal' = [goal EXCEPT ![c] = n] /\ op' = [op EXCEPT ![c] = r]
      /\ \/ pc' = [pc EXCEPT ![c] = "delete"] /\ op'[c].kind = "delete"
         \/ pc' = [pc EXCEPT ![c] = "edit"] /\ op'[c].kind \in Edits
         \/ pc' = [pc EXCEPT ![c] = "take"]
  <2>1. CASE BeginSetProfile(c)
    BY <2>1 DEF BeginSetProfile, Begin, Idle, system, watch
  <2>2. CASE BeginEdit(c)
    <3>1. PICK name \in {profiles[i].name : i \in DOMAIN profiles} \cup NewNames, kind \in Edits :
            /\ Begin(c, kind, IF kind = "delete" THEN "delete" ELSE "edit")
            /\ op' = [op EXCEPT ![c] = [kind |-> kind, name |-> name]]
            /\ goal' = [goal EXCEPT ![c] = Default]
      BY <2>2 DEF BeginEdit, Edits
    <3>2. op'[c].kind = kind
      BY <1>1, <3>1
    <3>3. \E n, r : goal' = [goal EXCEPT ![c] = n] /\ op' = [op EXCEPT ![c] = r]
      BY <3>1
    <3>4. /\ pc[c] = "idle" /\ UNCHANGED <<settings, unnoticed, state, chan, to, tx>>
          /\ pc' = [pc EXCEPT ![c] = IF kind = "delete" THEN "delete" ELSE "edit"]
      BY <3>1 DEF Begin, Idle, system, watch
    <3> QED
      BY <3>2, <3>3, <3>4
  <2> QED
    BY <2>1, <2>2 DEF Request
<1>3. Serves(c)
  <2>1. RuleDomains'
    BY <1>1, <1>2 DEF RuleDomains, settings
  <2> QED
    BY <1>1, <1>2, <2>1, MovesItself
<1>4. AsksRight(c)' /\ (Switches' => Switches) /\ ~AboutTo(c)
  BY <1>1, <1>2 DEF AsksRight, Switches, AboutTo, OneClient, settings
<1>5. \A w \in Watcher : Tells(w)
  BY <1>1, <1>2, PostingTells
<1> QED
  BY <1>2, <1>3, <1>4, <1>5, ServingIsEnough DEF settings

LEMMA NewWatcherKeepsRules ==
  ASSUME OneClient, RuleInv, NEW c \in Client, StartWatcher(c, "mark")
  PROVE  RuleInv'
<1>1. c \in Task /\ c \notin Watcher /\ RuleDomains
  BY Ids DEF Task, RuleInv
<1>2. /\ RuleDomains' /\ tx' \in Watcher /\ pc'[tx'] \in {"lock", "mark"}
  BY <1>1, StartedWaits
<1>3. pc'[c] = "mark"
  BY <1>1, Ids DEF StartWatcher, RuleDomains, Task
<1>4. Asked'
  BY <1>3 DEF Asked, OneClient
<1> QED
  BY <1>2, <1>4 DEF RuleInv, Aims, Stays, Aiming, Settled

LEMMA StoppingKeepsRules ==
  ASSUME OneClient, RuleInv, NEW c \in Client,
         \/ StopWaits(c)
         \/ StopWatcher(c, "check") /\ op[c].kind = "set" /\ ~op[c].auto
  PROVE  RuleInv'
<1>1. c \in Task /\ c \notin Watcher /\ RuleDomains /\ DOMAIN pc = Task
      /\ None \notin Watcher /\ \A w \in Watcher : w \in Task
  BY Ids DEF Task, RuleInv, RuleDomains
<1>2. /\ UNCHANGED <<settings, unnoticed, state, goal, op>> /\ pc[c] \in {"take", "stop"}
      /\ tx' \in {tx, None} /\ \E w : to' = [to EXCEPT ![c] = w]
      /\ \/ pc' = [pc EXCEPT ![c] = "stop"] /\ chan' = chan
         \/ /\ pc' = [pc EXCEPT ![c] = "check"] /\ op[c].kind = "set" /\ ~op[c].auto
            /\ chan' = SendStop(Receiver(c))
  <2>1. CASE StopWaits(c)
    BY <2>1 DEF StopWaits, Goto, system, watch
  <2>2. CASE StopWatcher(c, "check") /\ op[c].kind = "set" /\ ~op[c].auto
    BY <2>2 DEF StopWatcher, CanStop, Goto, system
  <2> QED
    BY <2>1, <2>2
<1>3. DOMAIN chan' = Watcher /\ \A w \in Watcher : chan[w] # <<>> => chan'[w] # <<>>
  BY <1>1, <1>2, PostedKeeps DEF RuleDomains, SendStop
<1>4. Serves(c)
  <2>1. RuleDomains'
    BY <1>1, <1>2, <1>3 DEF RuleDomains, settings
  <2> QED
    BY <1>1, <1>2, <2>1 DEF Serves
<1>5. AsksRight(c)' /\ (Switches' => Switches) /\ ~AboutTo(c)
  BY <1>1, <1>2 DEF AsksRight, Switches, AboutTo, OneClient, settings
<1>6. \A w \in Watcher : Tells(w)
  BY <1>1, <1>2, <1>3, PostingTells
<1> QED
  BY <1>2, <1>4, <1>5, <1>6, ServingIsEnough DEF settings

LEMMA SettingKeepsRules ==
  ASSUME OneClient, RuleInv, NEW c \in Client,
         \/ CheckProfile(c, "idle") \/ Cleanup(c) \/ WriteProfile(c)
         \/ ApplyProfile(c, IF op[c].kind = "set" THEN "mark" ELSE "edit", "idle")
         \/ DeleteLeaves(c)
  PROVE  RuleInv'
<1>1. c \in Task /\ c \notin Watcher /\ RuleDomains /\ DOMAIN pc = Task /\ DOMAIN op = Client
      /\ DOMAIN goal = Task /\ \A w \in Watcher : w \in Task
  BY Ids DEF Task, RuleInv, RuleDomains
<1>2. AsksRight(c)
  BY DEF RuleInv, Asked, AsksRight
<1> DEFINE Steps(at, next) ==
      /\ pc[c] = at /\ pc'[c] = next
      /\ UNCHANGED <<profiles, auto, state, chan, tx>> /\ (unnoticed => unnoticed')
      /\ next # "idle" => op' = op
<1>3. ASSUME NEW at, NEW next, Steps(at, next), at \notin {"notify", "update"},
             RuleDomains', \A w \in Watcher : pc'[w] = pc[w] /\ goal'[w] = goal[w],
             next = "mark" => ~op[c].auto
      PROVE  /\ Serves(c) /\ \A w \in Watcher : Tells(w)
             /\ Switches' => Switches
  <2>1. Serves(c) /\ \A w \in Watcher : Tells(w)
    BY <1>1, <1>3, MovesItself, PostingTells
  <2>2. Switches' => Switches
    BY <1>3 DEF Switches, OneClient
  <2> QED
    BY <2>1, <2>2
<1>4. CASE CheckProfile(c, "idle")
  <2>1. /\ Steps("check", "cleanup") /\ Known(goal[c]) /\ goal' = goal
        \/ Steps("check", "idle")
    BY <1>1, <1>4 DEF CheckProfile, Goto, Known, settings, system, watch
  <2>2. cur' = cur /\ RuleDomains' /\ \A w \in Watcher : pc'[w] = pc[w] /\ goal'[w] = goal[w]
    BY <1>1, <1>4 DEF CheckProfile, Goto, RuleDomains, settings, watch
  <2>3. AsksRight(c)' /\ ~AboutTo(c)
    BY <1>2, <2>1, GoodStays DEF AsksRight, AboutTo
  <2> QED
    BY <1>3, <2>1, <2>2, <2>3, ServingIsEnough
<1>5. CASE Cleanup(c)
  <2>1. Steps("cleanup", "write") /\ goal' = goal
    BY <1>1, <1>5 DEF Cleanup, Goto, settings, system, watch
  <2>2. cur' = cur /\ RuleDomains' /\ \A w \in Watcher : pc'[w] = pc[w] /\ goal'[w] = goal[w]
    BY <1>1, <1>5 DEF Cleanup, Goto, RuleDomains, settings, watch
  <2>3. AsksRight(c)' /\ ~AboutTo(c)
    BY <1>2, <2>1, GoodStays DEF AsksRight, AboutTo
  <2> QED
    BY <1>3, <2>1, <2>2, <2>3, ServingIsEnough
<1>6. CASE WriteProfile(c)
  <2>1. Steps("write", "apply") /\ cur' = goal[c] /\ (Known(goal[c]) \/ unnoticed')
    BY <1>1, <1>6 DEF WriteProfile, Goto, watch
  <2>2. RuleDomains' /\ \A w \in Watcher : pc'[w] = pc[w] /\ goal'[w] = goal[w]
    BY <1>1, <1>6 DEF WriteProfile, Goto, RuleDomains, watch
  <2>3. AsksRight(c)'
    BY <1>2, <2>1 DEF AsksRight
  <2>4. CASE Known(goal[c])
    <3>1. AboutTo(c)'
      BY <2>1, <2>4, GoodStays DEF AboutTo
    <3> QED
      BY <1>3, <2>1, <2>2, <2>3, <3>1, ServingIsEnough
  <2>5. CASE unnoticed'
    <3>1. Asked'
      BY <2>3 DEF OneClient, Asked, AsksRight
    <3> QED
      BY <2>2, <2>5, <3>1 DEF RuleInv, Aims, Stays, Told
  <2> QED
    BY <2>1, <2>4, <2>5
<1>7. CASE ApplyProfile(c, IF op[c].kind = "set" THEN "mark" ELSE "edit", "idle")
  <2>1. \/ Steps("apply", "mark") /\ op[c].kind = "set"
        \/ Steps("apply", "edit") /\ op[c].kind # "set"
        \/ Steps("apply", "idle") /\ ~Known(cur)
    BY <1>1, <1>7 DEF ApplyProfile, ApplyCurrent, Goto, Known, settings, system, watch
  <2>2. cur' = cur /\ RuleDomains' /\ \A w \in Watcher : pc'[w] = pc[w] /\ goal'[w] = goal[w]
    BY <1>1, <1>7 DEF ApplyProfile, Goto, RuleDomains, settings, watch
  <2>3. op[c].kind = "delete" \/ (op[c].kind = "set" /\ ~op[c].auto)
    BY <1>2, <2>1 DEF AsksRight
  <2>4. AsksRight(c)' /\ (AboutTo(c) => AboutTo(c)')
    BY <2>1, <2>3 DEF AsksRight, AboutTo, Edits
  <2> QED
    BY <1>3, <2>1, <2>2, <2>3, <2>4, ServingIsEnough
<1>8. CASE DeleteLeaves(c)
  <2>1. Steps("delete", "check") \/ Steps("delete", "edit")
    BY <1>1, <1>8 DEF DeleteLeaves, Goto, settings, system, watch
  <2>2. cur' = cur /\ RuleDomains' /\ \A w \in Watcher : pc'[w] = pc[w] /\ goal'[w] = goal[w]
    BY <1>1, <1>8 DEF DeleteLeaves, Goto, RuleDomains, settings, watch
  <2>3. AsksRight(c)' /\ ~AboutTo(c)
    BY <1>2, <2>1 DEF AsksRight, AboutTo, Edits
  <2> QED
    BY <1>3, <2>1, <2>2, <2>3, ServingIsEnough
<1> QED
  BY <1>4, <1>5, <1>6, <1>7, <1>8

(* An edit is followed by the word to the watcher.                             *)
LEMMA EditingKeepsRules ==
  ASSUME OneClient, RuleInv, NEW c \in Client, EditProfiles(c)
  PROVE  RuleInv'
<1>1. c \in Task /\ c \notin Watcher /\ RuleDomains /\ DOMAIN pc = Task
      /\ \A w \in Watcher : w \in Task
  BY Ids DEF Task, RuleInv, RuleDomains
<1>2. /\ pc[c] = "edit" /\ op[c].kind \in Edits
      /\ UNCHANGED <<cur, auto, state, chan, goal, to, tx>>
  BY <1>1 DEF EditProfiles, settings, watch, RuleInv, Asked
<1>3. CASE Refused(op[c]) /\ Goto(c, "idle") /\ UNCHANGED <<settings, unnoticed>>
  <2>1. pc' = [pc EXCEPT ![c] = "idle"] /\ DOMAIN op' = Client
        /\ UNCHANGED <<profiles, cur, auto, unnoticed>>
    BY <1>1, <1>3 DEF Goto, RuleDomains, settings
  <2>2. RuleDomains'
    BY <1>1, <1>2, <2>1 DEF RuleDomains
  <2>3. Serves(c)
    BY <1>1, <1>2, <2>1, <2>2, MovesItself
  <2>4. op[c].kind # "delete"
    BY <1>3 DEF Refused
  <2>5. AsksRight(c)' /\ (Switches' => Switches) /\ ~AboutTo(c)
    BY <1>1, <1>2, <2>1, <2>4 DEF AsksRight, Switches, AboutTo, OneClient
  <2>6. \A w \in Watcher : Tells(w)
    BY <1>1, <1>2, <2>1, PostingTells
  <2> QED
    BY <2>1, <2>3, <2>5, <2>6, ServingIsEnough
<1>4. CASE /\ ~Refused(op[c]) /\ profiles' \in Edited(op[c])
           /\ Goto(c, "notify") \/ (Goto(c, "idle") /\ unnoticed' = TRUE)
  <2>1. /\ DOMAIN op' = Client
        /\ \/ pc' = [pc EXCEPT ![c] = "notify"]
           \/ pc' = [pc EXCEPT ![c] = "idle"] /\ unnoticed'
    BY <1>1, <1>4 DEF Goto, RuleDomains
  <2>2. Sequence(profiles)'
    BY <1>1, <1>2, <1>4, EditedSequence DEF RuleDomains, Sequence
  <2>3. RuleDomains'
    BY <1>1, <1>2, <2>1, <2>2 DEF RuleDomains
  <2>4. \A w \in Watcher : Told(w)'
    BY <1>1, <2>1 DEF Told
  <2>5. Asked'
    BY <1>1, <2>1 DEF Asked, OneClient
  <2> QED
    BY <2>3, <2>4, <2>5 DEF RuleInv, Aims, Stays
<1> QED
  BY <1>3, <1>4 DEF EditProfiles

LEMMA NotifyingKeepsRules ==
  ASSUME OneClient, RuleInv, NEW c \in Client, Notify(c)
  PROVE  RuleInv'
<1>1. c \in Task /\ c \notin Watcher /\ RuleDomains /\ DOMAIN pc = Task /\ DOMAIN to = Task
      /\ \A w \in Watcher : w \in Task
  BY Ids DEF Task, RuleInv, RuleDomains
<1> DEFINE u == IF pc[c] = "notify" THEN tx ELSE to[c]
<1>2. pc[c] \in {"notify", "update"} /\ UNCHANGED <<settings, unnoticed, state, goal, tx>>
  BY DEF Notify, system
<1>3. \/ /\ pc' = [pc EXCEPT ![c] = "idle"] /\ DOMAIN op' = Client
         /\ chan' = Posted(u, "update") /\ to' = [to EXCEPT ![c] = None]
      \/ /\ pc[c] = "notify" /\ pc' = [pc EXCEPT ![c] = "update"] /\ op' = op
         /\ to' = [to EXCEPT ![c] = tx] /\ chan' = chan
  BY <1>1 DEF Notify, Goto, RuleDomains
<1>4. DOMAIN chan' = Watcher /\ \A w \in Watcher : chan[w] # <<>> => chan'[w] # <<>>
  BY <1>1, <1>3, PostedKeeps DEF RuleDomains
<1>5. Serves(c)
  <2>1. RuleDomains'
    BY <1>1, <1>2, <1>3, <1>4 DEF RuleDomains, settings
  <2> QED
    BY <1>1, <1>2, <1>3, <2>1, MovesItself
<1>6. ASSUME NEW w \in Watcher
      PROVE  Tells(w)
  <2> SUFFICES ASSUME tx = w, pc[w] \in Aiming \cup Settled, Told(w)
               PROVE  Told(w)'
    BY DEF Tells
  <2>1. CASE chan[w] # <<>> \/ unnoticed
    BY <1>2, <1>4, <2>1 DEF Told
  <2>2. CASE chan[w] = <<>> /\ ~unnoticed
    <3>1. pc[c] = "notify" \/ (pc[c] = "update" /\ to[c] = w)
      BY <2>2 DEF Told, OneClient
    <3>2. CASE chan' = Posted(u, "update")
      <4>1. u = w /\ w # None /\ ~Ended(w)
        BY <1>2, <3>1, Ids DEF Ended, Aiming, Settled
      <4>2. chan'[w] = Append(chan[w], "update")
        BY <1>1, <3>2, <4>1 DEF Posted, RuleDomains
      <4> QED
        BY <2>2, <4>2 DEF Told
    <3>3. CASE pc' = [pc EXCEPT ![c] = "update"] /\ to' = [to EXCEPT ![c] = tx]
      BY <1>1, <3>3 DEF Told
    <3> QED
      BY <1>3, <3>2, <3>3
  <2> QED
    BY <2>1, <2>2
<1>7. AsksRight(c)' /\ (Switches' => Switches) /\ ~AboutTo(c)
  BY <1>1, <1>2, <1>3 DEF AsksRight, Switches, AboutTo, OneClient, settings
<1> QED
  BY <1>2, <1>5, <1>6, <1>7, ServingIsEnough DEF settings

LEMMA MarkingKeepsRules ==
  ASSUME OneClient, RuleInv, NEW c \in Client, MarkAuto(c)
  PROVE  RuleInv'
<1>1. c \in Task /\ c \notin Watcher /\ RuleDomains /\ DOMAIN pc = Task
      /\ \A w \in Watcher : w \in Task
  BY Ids DEF Task, RuleInv, RuleDomains
<1>2. /\ pc[c] = "mark" /\ pc' = [pc EXCEPT ![c] = "idle"] /\ DOMAIN op' = Client
      /\ auto' = op[c].auto /\ UNCHANGED <<profiles, cur, unnoticed, state, chan, goal, to, tx>>
  BY <1>1 DEF MarkAuto, Goto, system, watch, RuleDomains
<1>3. Serves(c)
  <2>1. RuleDomains'
    BY <1>1, <1>2 DEF RuleDomains
  <2> QED
    BY <1>1, <1>2, <2>1, MovesItself
<1>4. AsksRight(c)' /\ \A w \in Watcher : Tells(w)
  BY <1>1, <1>2, PostingTells DEF AsksRight
<1>5. CASE op[c].auto
  <2>1. Switches /\ ~AboutTo(c)
    BY <1>2, <1>5 DEF Switches, AboutTo
  <2> QED
    BY <1>2, <1>3, <1>4, <2>1, ServingIsEnough
<1>6. CASE ~op[c].auto
  <2>1. ~Switches'
    BY <1>1, <1>2, <1>6 DEF Switches, OneClient
  <2>2. RuledProfile' = RuledProfile
    BY <1>2, RuledStays
  <2>3. Asked'
    BY <1>4 DEF OneClient, Asked, AsksRight
  <2>4. \A w \in Watcher : Aims(w)'
    BY <1>3, <1>4, <2>2 DEF RuleInv, Aims, Serves, Tells
  <2> QED
    BY <1>3, <2>1, <2>3, <2>4 DEF RuleInv, Stays, Serves
<1> QED
  BY <1>5, <1>6

LEMMA ClientKeepsRules ==
  ASSUME OneClient, RuleInv, NEW c \in Client, Request(c) \/ Handle(c)
  PROVE  RuleInv'
<1>1. CASE Request(c)
  BY <1>1, RequestKeepsRules
<1>2. CASE StartWatcher(c, "mark")
  BY <1>2, NewWatcherKeepsRules
<1>3. CASE \/ StopWaits(c)
           \/ StopWatcher(c, "check") /\ op[c].kind = "set" /\ ~op[c].auto
  BY <1>3, StoppingKeepsRules
<1>4. CASE \/ CheckProfile(c, "idle") \/ Cleanup(c) \/ WriteProfile(c)
           \/ ApplyProfile(c, IF op[c].kind = "set" THEN "mark" ELSE "edit", "idle")
           \/ DeleteLeaves(c)
  BY <1>4, SettingKeepsRules
<1>5. CASE EditProfiles(c) \/ Notify(c) \/ MarkAuto(c)
  BY <1>5, EditingKeepsRules, NotifyingKeepsRules, MarkingKeepsRules
<1> QED
  BY <1>1, <1>2, <1>3, <1>4, <1>5 DEF Handle

LEMMA StepKeepsRules ==
  ASSUME OneClient
  PROVE  WatcherInv /\ RuleInv /\ [Next]_vars => RuleInv'
<1> SUFFICES ASSUME WatcherInv, RuleInv, [Next]_vars
             PROVE  RuleInv'
  OBVIOUS
<1>1. CASE SystemChanges \/ UNCHANGED vars
  <2>1. UNCHANGED <<settings, unnoticed, state, chan, pc, goal, op, to, tx>>
    BY <1>1 DEF SystemChanges, vars, system, watch, control
  <2>2. RuledProfile' = RuledProfile /\ \A name : Known(name)' <=> Known(name)
    BY <2>1, RuledStays, GoodStays DEF settings
  <2> QED
    BY <2>1, <2>2
    DEF RuleInv, RuleDomains, Asked, Aims, Stays, Told, AboutTo, Switches, settings
<1>2. CASE InstallFile
  <2>1. /\ unnoticed' /\ UNCHANGED <<chan, pc, goal, op, to, tx>>
        /\ \E f \in Files : profiles' = f.profiles
    BY <1>2 DEF InstallFile, watch, control
  <2>2. RuleDomains'
    BY <2>1, Listed DEF RuleInv, RuleDomains, Sequence
  <2> QED
    BY <2>1, <2>2 DEF RuleInv, Asked, Aims, Stays, Told
<1>3. CASE ApplyFile
  <2>1. UNCHANGED <<settings, unnoticed, state, chan, pc, goal, op, to, tx>>
    BY <1>3 DEF ApplyFile, watch, control
  <2>2. RuledProfile' = RuledProfile /\ \A name : Known(name)' <=> Known(name)
    BY <2>1, RuledStays, GoodStays DEF settings
  <2> QED
    BY <2>1, <2>2
    DEF RuleInv, RuleDomains, Asked, Aims, Stays, Told, AboutTo, Switches, settings
<1> QED
  BY <1>1, <1>2, <1>3, ClientKeepsRules, WatcherKeepsRules DEF Next

LEMMA RulesAreEnough == RuleInv => RestFollowsRules
  BY DEF RuleInv, Stays, RestFollowsRules, Idle, Told, AboutTo, Switches, Settled

(* RestFollowsRules for one client and any number of watchers, processes,      *)
(* profiles, rules and events (update_profile and the commands in              *)
(* lact-daemon/src/server/profiles.rs and handler.rs): a watcher at rest has   *)
(* the profile in use that the rules say, unless the profiles have changed     *)
(* with no word to it since it looked: by an edit whose save failed, by a      *)
(* configuration from the file, or by a switch to a profile that has gone.     *)
THEOREM RulesAreFollowed ==
  ASSUME OneClient
  PROVE  Spec => []RestFollowsRules
<1>1. Init => RuleInv
  BY InitRules
<1>2. WatcherInv /\ RuleInv /\ [Next]_vars => RuleInv'
  BY StepKeepsRules
<1>3. RuleInv => RestFollowsRules
  BY RulesAreEnough
<1> QED
  BY <1>1, <1>2, <1>3, InvHolds, PTL DEF Spec
=============================================================================
