---------------------------- MODULE DaemonProofs ----------------------------
(* The configuration and its file, for all edits, versions, migrations,       *)
(* events and numbers of stops and crashes: what the daemon has saved stays   *)
(* (but for saves that overtake a loaded file), and when the watcher of the   *)
(* file has nothing left to do, the daemon works with what is in the file.    *)
EXTENDS Daemon, SequenceTheorems, TLAPS

(* Saves that overtook nothing, the configurations of the newest version that  *)
(* have them, and what the daemon works with once everything that was loaded   *)
(* has been installed.                                                         *)
Edit == Nat \cup First.edits
Safe == accepted \ overtaken
Kept == {c \in [edits : SUBSET Edit, version : {Latest}] : Safe \subseteq c.edits}
AtLast ==
  IF loaded # <<>> THEN loaded[Len(loaded)]
  ELSE IF incoming # <<>> THEN incoming[1] ELSE mem

(* What the variables hold, and what is not there while the process is down    *)
(* or its listeners do not run yet.                                            *)
DaemonTypes ==
  /\ proc \in {"down", "uptime", "loading", "applying", "running", "cleaning"}
  /\ file \in [edits : SUBSET Edit, version : 0..Latest, torn : BOOLEAN]
  /\ mem \in [edits : SUBSET Edit, version : 0..Latest]
  /\ edit \in Nat /\ events \in Nat /\ watcher \in {"off", "wait", "debounce"}
  /\ recent \in BOOLEAN /\ unseen \in BOOLEAN /\ stale \in BOOLEAN
  /\ loaded \in Seq(Kept) /\ incoming \in Seq(Kept) /\ Len(incoming) \in {0, 1}
  /\ ~Alive => events = 0 /\ watcher = "off" /\ loaded = <<>> /\ incoming = <<>>

(* What was saved is in the file, which migrations leave alone once it has the *)
(* newest version, and in all that can be written over it.                     *)
SavedInv ==
  /\ Safe \subseteq file.edits
  /\ Safe # {} => file.version = Latest
  /\ proc # "down" => ~file.torn /\ file.version = Latest /\ mem \in Kept

(* The file is what the daemon ends up with, or an event of the file is yet to *)
(* be taken, which is not taken for the daemon's own.                          *)
AgreeInv ==
  proc # "down" /\ ~unseen /\ ~stale =>
    \/ AtLast = Content(file)
    \/ Alive /\ ~recent /\ (events > 0 \/ watcher = "debounce")

DaemonInv == DaemonTypes /\ SavedInv /\ AgreeInv

-----------------------------------------------------------------------------
(* The configurations that are loaded, one after the other.                    *)
LEMMA LoadedIsLast ==
  ASSUME NEW S, NEW s \in Seq(S), NEW c \in S
  PROVE  /\ Append(s, c) \in Seq(S) /\ Append(s, c) # <<>>
         /\ Append(s, c)[Len(Append(s, c))] = c
  OBVIOUS

LEMMA LastOfTail ==
  ASSUME NEW n \in Nat, NEW m \in Nat, m = n - 1,
         NEW s, NEW t, \A i \in 1..m : t[i] = s[i + 1]
  PROVE  /\ m # 0 => t[m] = s[n]
         /\ m = 0 => s[n] = s[1]
<1>1. n = m + 1
  OBVIOUS
<1>2. m # 0 => m \in 1..m
  OBVIOUS
<1>3. m # 0 => t[m] = s[m + 1]
  BY <1>2
<1> QED
  BY <1>1, <1>3

LEMMA FirstIsTaken ==
  ASSUME NEW S, NEW s \in Seq(S), s # <<>>
  PROVE  /\ Head(s) \in S /\ Tail(s) \in Seq(S) /\ <<Head(s)>> \in Seq(S)
         /\ Len(<<Head(s)>>) = 1 /\ <<Head(s)>>[1] = Head(s)
         /\ IF Tail(s) = <<>> THEN s[Len(s)] = Head(s)
            ELSE Tail(s)[Len(Tail(s))] = s[Len(s)]
<1>1. /\ Head(s) \in S /\ Tail(s) \in Seq(S) /\ Len(Tail(s)) = Len(s) - 1
      /\ \A i \in 1..Len(Tail(s)) : Tail(s)[i] = s[i + 1]
  BY HeadTailProperties
<1>2. /\ <<Head(s)>> \in Seq(S) /\ Len(<<Head(s)>>) = 1 /\ <<Head(s)>>[1] = Head(s)
      /\ s[1] = Head(s)
  BY <1>1
<1>3. Len(s) \in Nat /\ Len(Tail(s)) \in Nat
  BY <1>1, LenProperties
<1>4. (Tail(s) # <<>> => Len(Tail(s)) # 0) /\ (Tail(s) = <<>> => Len(Tail(s)) = 0)
  BY <1>1, EmptySeq
<1>5. /\ Len(Tail(s)) # 0 => Tail(s)[Len(Tail(s))] = s[Len(s)]
      /\ Len(Tail(s)) = 0 => s[Len(s)] = s[1]
  BY <1>1, <1>3, LastOfTail
<1> QED
  BY <1>1, <1>2, <1>4, <1>5

LEMMA OneWaits ==
  ASSUME NEW S, NEW s \in Seq(S), Len(s) \in {0, 1}, s # <<>>
  PROVE  s[1] \in S
  OBVIOUS

LEMMA SeqsGrow ==
  ASSUME NEW S, NEW T, S \subseteq T
  PROVE  Seq(S) \subseteq Seq(T)
  OBVIOUS

LEMMA RecordOfFile ==
  ASSUME DaemonTypes
  PROVE  /\ Content(file) \in [edits : SUBSET Edit, version : 0..Latest]
         /\ Content(Written(mem)) = mem
         /\ Written(mem) \in [edits : SUBSET Edit, version : 0..Latest, torn : BOOLEAN]
  BY DEF DaemonTypes, Content, Written

LEMMA InitInv == Init => DaemonInv
<1> SUFFICES ASSUME Init
             PROVE  DaemonInv
  OBVIOUS
<1>1. First \in [edits : SUBSET Edit, version : 0..Latest]
  BY VersionsKnown DEF Edit
<1>2. Written(First) \in [edits : SUBSET Edit, version : 0..Latest, torn : BOOLEAN]
  BY <1>1 DEF Written
<1>3. <<>> \in Seq(Kept) /\ Len(<<>>) = 0
  OBVIOUS
<1> QED
  BY <1>1, <1>2, <1>3, VersionsKnown
  DEF Init, DaemonInv, DaemonTypes, SavedInv, Safe, AgreeInv, Alive, Written
-----------------------------------------------------------------------------
(* The process ends, with the file as it was or cut: what it had loaded is     *)
(* gone, and nothing is said of it until it starts again.                      *)
LEMMA GoneKeepsInv ==
  ASSUME DaemonInv, Gone, UNCHANGED <<mem, accepted, overtaken, unseen, stale, edit>>,
         file' = file \/ file' = [file EXCEPT !.torn = TRUE]
  PROVE  DaemonInv'
<1>1. /\ file' \in [edits : SUBSET Edit, version : 0..Latest, torn : BOOLEAN]
      /\ file'.edits = file.edits /\ file'.version = file.version
  BY DEF DaemonInv, DaemonTypes
<1>2. <<>> \in Seq(Kept)' /\ Len(<<>>) = 0
  OBVIOUS
<1> QED
  BY <1>1, <1>2 DEF DaemonInv, DaemonTypes, SavedInv, Safe, AgreeInv, Gone, Alive

(* Nothing but the stage of the process changes.                               *)
LEMMA StageKeepsInv ==
  ASSUME DaemonInv, UNCHANGED <<file, mem, accepted, overtaken, events, loaded, incoming, unseen, stale, edit>>,
         \/ proc = "loading" /\ proc' = "applying" /\ recent' = TRUE /\ watcher' = watcher
         \/ proc = "uptime" /\ proc' \in {"loading", "down"} /\ UNCHANGED <<recent, watcher>>
         \/ proc = "applying" /\ proc' = "running" /\ recent' = recent /\ watcher' = "wait"
         \/ proc = "running" /\ proc' = "cleaning" /\ UNCHANGED <<recent, watcher>>
  PROVE  DaemonInv'
<1>1. Kept' = Kept /\ AtLast' = AtLast
  BY DEF Kept, Safe, AtLast
<1>2. Alive \/ proc \in {"uptime", "loading", "applying"}
  BY DEF Alive
<1>3. DaemonTypes'
  <2>1. /\ proc' \in {"down", "uptime", "loading", "applying", "running", "cleaning"}
        /\ watcher' \in {"off", "wait", "debounce"} /\ recent' \in BOOLEAN
    BY DEF DaemonInv, DaemonTypes
  <2>2. Alive' \/ (~Alive /\ watcher' = watcher)
    BY DEF Alive
  <2> QED
    BY <1>1, <2>1, <2>2 DEF DaemonInv, DaemonTypes
<1>4. SavedInv'
  BY <1>1, <1>2 DEF DaemonInv, SavedInv, Safe, Alive
<1>5. AgreeInv'
  BY <1>1, <1>2 DEF DaemonInv, AgreeInv, DaemonTypes, Alive
<1> QED
  BY <1>3, <1>4, <1>5 DEF DaemonInv

(* What is known of a migration: a configuration that has been saved once is   *)
(* of the newest version, and none is left to be done.                         *)
LEMMA MigrationKeeps ==
  ASSUME DaemonInv
  PROVE  LET c == Migrated(Content(file))
         IN /\ c \in [edits : SUBSET Edit, version : {Latest}]
            /\ Safe \subseteq c.edits
<1> DEFINE old == Content(file)
           c == Migrated(old)
<1>1. old.version \in 0..Latest /\ old.edits \in SUBSET Edit /\ old.version = file.version
      /\ old.edits = file.edits
  BY DEF DaemonInv, DaemonTypes, Content
<1>2. /\ c.version = IF old.version > Latest THEN old.version ELSE Latest
      /\ c.edits = old.edits \ UNION {Resets[v] : v \in old.version + 1..Latest}
      /\ c = [edits |-> c.edits, version |-> c.version]
  BY DEF Migrated
<1>3. c.version = Latest
  BY <1>1, <1>2, VersionsKnown
<1>4. c.edits \in SUBSET Edit
  BY <1>1, <1>2
<1>5. Safe \subseteq c.edits
  <2>1. CASE Safe = {}
    BY <2>1
  <2>2. CASE file.version = Latest
    <3>1. Latest + 1..Latest = {}
      BY VersionsKnown
    <3> QED
      BY <1>1, <1>2, <2>2, <3>1 DEF DaemonInv, SavedInv, Safe
  <2> QED
    BY <2>1, <2>2 DEF DaemonInv, SavedInv, Safe
<1> HIDE DEF c
<1>6. c \in [edits : SUBSET Edit, version : {Latest}]
  BY <1>2, <1>3, <1>4
<1> QED
  BY <1>5, <1>6 DEF c

LEMMA StartKeepsInv ==
  ASSUME DaemonInv, Start
  PROVE  DaemonInv'
<1>1. /\ proc = "down" /\ proc' = "uptime" /\ mem' = Migrated(Content(file)) /\ file' = Written(mem')
      /\ UNCHANGED <<accepted, overtaken, recent, events, watcher, loaded, incoming, edit>>
      /\ unseen' = FALSE /\ stale' = FALSE
  BY DEF Start
<1>2. mem' \in [edits : SUBSET Edit, version : {Latest}] /\ Safe' \subseteq mem'.edits
  BY <1>1, MigrationKeeps DEF Safe
<1>3. file' = [edits |-> mem'.edits, version |-> Latest, torn |-> FALSE]
  BY <1>1, <1>2 DEF Written
<1>4. Kept' = Kept /\ mem' \in Kept /\ Content(file') = mem'
  BY <1>1, <1>2, <1>3 DEF Kept, Safe, Content
<1>5. DaemonTypes'
  <2>1. mem' \in [edits : SUBSET Edit, version : 0..Latest]
    BY <1>2, VersionsKnown
  <2>2. file' \in [edits : SUBSET Edit, version : 0..Latest, torn : BOOLEAN]
    BY <1>3, <2>1, VersionsKnown
  <2>3. events' = 0 /\ watcher' = "off" /\ loaded' = <<>> /\ incoming' = <<>>
    BY <1>1 DEF DaemonInv, DaemonTypes, Alive
  <2> QED
    BY <1>1, <1>4, <2>1, <2>2, <2>3 DEF DaemonInv, DaemonTypes
<1>6. SavedInv'
  BY <1>1, <1>2, <1>3, <1>4 DEF SavedInv, Safe
<1>7. AgreeInv'
  <2>1. loaded' = <<>> /\ incoming' = <<>>
    BY <1>1 DEF DaemonInv, DaemonTypes, Alive
  <2> QED
    BY <1>4, <2>1 DEF AgreeInv, AtLast
<1> QED
  BY <1>5, <1>6, <1>7 DEF DaemonInv

(* An edit of the user, which the daemon gets an event of, if it watches, or   *)
(* misses.                                                                     *)
LEMMA EditKeepsInv ==
  ASSUME DaemonInv, UserEdits
  PROVE  DaemonInv'
<1>1. /\ edit \in Nat /\ edit' = edit + 1 /\ edit \in Edit
      /\ UNCHANGED <<proc, mem, recent, watcher, loaded, incoming, stale>>
      /\ events' = IF Alive /\ events < MaxEvents THEN events + 1 ELSE events
      /\ unseen' = (unseen \/ recent \/ ~Alive)
  BY DEF UserEdits, FileEvent, life, DaemonInv, DaemonTypes, Edit
<1>2. CASE file.torn
  <2>1. file' = [edits |-> {edit}, version |-> Latest, torn |-> FALSE] /\ Safe' = {}
    BY <1>2 DEF UserEdits, Written, Safe
  <2>2. proc = "down" /\ loaded = <<>> /\ incoming = <<>> /\ events = 0 /\ watcher = "off"
    BY <1>2 DEF DaemonInv, SavedInv, Safe, DaemonTypes, Alive
  <2>3. <<>> \in Seq(Kept)' /\ Len(<<>>) = 0
    OBVIOUS
  <2>4. file' \in [edits : SUBSET Edit, version : 0..Latest, torn : BOOLEAN]
    BY <1>1, <2>1, VersionsKnown
  <2> QED
    BY <1>1, <2>1, <2>2, <2>3, <2>4 DEF DaemonInv, DaemonTypes, SavedInv, Safe, AgreeInv, Alive
<1>3. CASE ~file.torn
  <2>1. file' = [file EXCEPT !.edits = @ \cup {edit}] /\ Safe' = Safe
    BY <1>3 DEF UserEdits, Safe
  <2>2. /\ file' \in [edits : SUBSET Edit, version : 0..Latest, torn : BOOLEAN]
        /\ file'.edits = file.edits \cup {edit} /\ file'.version = file.version
        /\ file'.torn = file.torn
    BY <1>1, <2>1 DEF DaemonInv, DaemonTypes
  <2>3. Kept' = Kept
    BY <2>1 DEF Kept, Safe
  <2>4. DaemonTypes'
    BY <1>1, <2>2, <2>3 DEF DaemonInv, DaemonTypes, Alive
  <2>5. SavedInv'
    BY <1>1, <2>1, <2>2, <2>3 DEF DaemonInv, SavedInv, Safe
  <2>6. Alive /\ ~recent => events' > 0
    BY <1>1, EventsWait DEF DaemonInv, DaemonTypes
  <2>7. AgreeInv'
    BY <1>1, <2>6 DEF AgreeInv, Alive, DaemonInv, DaemonTypes
  <2> QED
    BY <2>4, <2>5, <2>7 DEF DaemonInv
<1> QED
  BY <1>2, <1>3

(* A save writes over what was in the file: what has been saved before is in   *)
(* memory. If a configuration waits that was loaded, the save is stale.        *)
LEMMA SaveKeepsInv ==
  ASSUME DaemonInv, Save
  PROVE  DaemonInv'
<1> DEFINE overtakes == loaded # <<>> \/ incoming # <<>>
<1>1. /\ Alive /\ edit \in Nat /\ edit' = edit + 1 /\ edit \in Edit
      /\ mem' = [mem EXCEPT !.edits = @ \cup {edit}] /\ file' = Written(mem')
      /\ accepted' = accepted \cup {edit}
      /\ overtaken' = IF overtakes THEN overtaken \cup {edit} ELSE overtaken
      /\ stale' = (stale \/ overtakes) /\ recent' = TRUE
      /\ events' = IF events < MaxEvents THEN events + 1 ELSE events
      /\ UNCHANGED <<proc, watcher, loaded, incoming, unseen>>
  BY DEF Save, FileEvent, life, DaemonInv, DaemonTypes, Edit
<1>2. mem \in Kept
  BY <1>1 DEF DaemonInv, SavedInv, Safe, Alive
<1>3. /\ mem' \in [edits : SUBSET Edit, version : {Latest}]
      /\ mem'.edits = mem.edits \cup {edit}
  BY <1>1, <1>2 DEF Kept, Safe
<1>4. mem' \in Kept' /\ Safe' \subseteq mem'.edits
  BY <1>1, <1>2, <1>3 DEF Kept, Safe
<1>5. file' = [edits |-> mem'.edits, version |-> Latest, torn |-> FALSE]
  BY <1>1, <1>3 DEF Written
<1>6. loaded' \in Seq(Kept)' /\ incoming' \in Seq(Kept)'
  <2>1. CASE overtakes
    <3>1. Kept \subseteq Kept'
      BY <1>1, <2>1 DEF Kept, Safe
    <3>2. Seq(Kept) \subseteq Seq(Kept')
      BY <3>1, SeqsGrow
    <3> QED
      BY <1>1, <3>2 DEF DaemonInv, DaemonTypes
  <2>2. CASE ~overtakes
    <3>1. loaded' = <<>> /\ incoming' = <<>>
      BY <1>1, <2>2
    <3>2. <<>> \in Seq(Kept)'
      OBVIOUS
    <3> QED
      BY <3>1, <3>2
  <2> QED
    BY <2>1, <2>2
<1>7. DaemonTypes'
  <2>1. mem' \in [edits : SUBSET Edit, version : 0..Latest]
    BY <1>3, VersionsKnown
  <2>2. file' \in [edits : SUBSET Edit, version : 0..Latest, torn : BOOLEAN]
    BY <1>5, <2>1, VersionsKnown
  <2>3. events' \in Nat /\ stale' \in BOOLEAN /\ recent' \in BOOLEAN /\ edit' \in Nat
    BY <1>1 DEF DaemonInv, DaemonTypes
  <2>4. Alive'
    BY <1>1 DEF Alive
  <2> QED
    BY <1>1, <1>6, <2>1, <2>2, <2>3, <2>4 DEF DaemonInv, DaemonTypes
<1>8. SavedInv'
  BY <1>4, <1>5 DEF SavedInv, Safe
<1>9. AgreeInv'
  <2>1. Content(file') = mem'
    BY <1>3, <1>5 DEF Content
  <2>2. ~stale' => AtLast' = mem'
    BY <1>1 DEF AtLast
  <2> QED
    BY <2>1, <2>2 DEF AgreeInv
<1> QED
  BY <1>7, <1>8, <1>9 DEF DaemonInv

(* The watcher of the file takes an event, or lets a second pass.              *)
LEMMA WatchingKeepsInv ==
  ASSUME DaemonInv, TakeEvent \/ AnotherEvent \/ SecondPasses
  PROVE  DaemonInv'
<1>1. /\ UNCHANGED <<proc, file, mem, accepted, overtaken, loaded, incoming, unseen, stale, edit>>
      /\ \/ /\ watcher = "wait" /\ events > 0 /\ events' = events - 1 /\ recent' = recent
            /\ watcher' = IF recent THEN "wait" ELSE "debounce"
         \/ watcher = "debounce" /\ events > 0 /\ events' = events - 1 /\ UNCHANGED <<recent, watcher>>
         \/ recent /\ recent' = FALSE /\ UNCHANGED <<events, watcher>>
  BY DEF TakeEvent, AnotherEvent, SecondPasses, life, store
<1>2. Kept' = Kept /\ AtLast' = AtLast
  BY <1>1 DEF Kept, Safe, AtLast
<1>3. DaemonTypes'
  <2>1. events' \in Nat
    BY <1>1 DEF DaemonInv, DaemonTypes
  <2>4. recent' \in BOOLEAN /\ watcher' \in {"off", "wait", "debounce"}
    BY <1>1 DEF DaemonInv, DaemonTypes
  <2>2. Alive' <=> Alive
    BY <1>1 DEF Alive
  <2>3. ~Alive => events' = 0 /\ watcher' = "off"
    BY <1>1 DEF DaemonInv, DaemonTypes
  <2> QED
    BY <1>1, <1>2, <2>1, <2>2, <2>3, <2>4 DEF DaemonInv, DaemonTypes
<1> QED
  BY <1>1, <1>2, <1>3 DEF DaemonInv, SavedInv, Safe, AgreeInv, Alive

LEMMA LoadKeepsInv ==
  ASSUME DaemonInv, LoadFile
  PROVE  DaemonInv'
<1>1. /\ watcher = "debounce" /\ watcher' = "wait"
      /\ UNCHANGED <<proc, file, mem, accepted, overtaken, recent, events, incoming, unseen, stale, edit>>
      /\ loaded' = IF file.torn THEN loaded ELSE Append(loaded, Content(file))
  BY DEF LoadFile, life, store
<1>2. Alive /\ ~file.torn /\ Content(file) \in Kept
  BY <1>1 DEF DaemonInv, DaemonTypes, SavedInv, Safe, Alive, Content, Kept
<1>3. Kept' = Kept
  BY <1>1 DEF Kept, Safe
<1>4. loaded' \in Seq(Kept) /\ loaded' # <<>> /\ loaded'[Len(loaded')] = Content(file)
  BY <1>1, <1>2, LoadedIsLast DEF DaemonInv, DaemonTypes
<1>5. DaemonTypes'
  BY <1>1, <1>2, <1>3, <1>4 DEF DaemonInv, DaemonTypes, Alive
<1>6. SavedInv'
  BY <1>1, <1>3 DEF DaemonInv, SavedInv, Safe
<1>7. AgreeInv'
  BY <1>1, <1>4 DEF AgreeInv, AtLast
<1> QED
  BY <1>5, <1>6, <1>7 DEF DaemonInv

LEMMA ReloadKeepsInv ==
  ASSUME DaemonInv, Reload
  PROVE  DaemonInv'
<1>1. CASE ReceiveConfig
  <2>1. /\ Alive /\ loaded # <<>> /\ incoming = <<>>
        /\ incoming' = <<Head(loaded)>> /\ loaded' = Tail(loaded)
        /\ UNCHANGED <<proc, file, mem, accepted, overtaken, recent, events, watcher, unseen, stale, edit>>
    BY <1>1 DEF ReceiveConfig, life, store
  <2>2. Kept' = Kept
    BY <2>1 DEF Kept, Safe
  <2>3. /\ incoming' \in Seq(Kept) /\ Len(incoming') = 1 /\ loaded' \in Seq(Kept)
        /\ incoming'[1] = Head(loaded) /\ incoming' # <<>>
    BY <2>1, FirstIsTaken DEF DaemonInv, DaemonTypes
  <2>4. AtLast' = AtLast
    BY <2>1, <2>3, FirstIsTaken DEF AtLast, DaemonInv, DaemonTypes
  <2>5. DaemonTypes'
    BY <2>1, <2>2, <2>3 DEF DaemonInv, DaemonTypes, Alive
  <2> QED
    BY <2>1, <2>2, <2>4, <2>5 DEF DaemonInv, SavedInv, Safe, AgreeInv, Alive
<1>2. CASE InstallConfig
  <2>1. /\ incoming # <<>> /\ incoming' = <<>> /\ mem' = incoming[1]
        /\ UNCHANGED <<proc, file, accepted, overtaken, recent, events, watcher, loaded, unseen, stale, edit>>
    BY <1>2 DEF InstallConfig, life
  <2>2. Kept' = Kept /\ AtLast' = AtLast
    BY <2>1 DEF Kept, Safe, AtLast
  <2>3. mem' \in Kept
    BY <2>1, OneWaits DEF DaemonInv, DaemonTypes
  <2>4. mem' \in [edits : SUBSET Edit, version : 0..Latest]
    BY <2>3, VersionsKnown DEF Kept, Safe
  <2>5. incoming' \in Seq(Kept) /\ Len(incoming') = 0
    BY <2>1
  <2>6. DaemonTypes'
    BY <2>1, <2>2, <2>4, <2>5 DEF DaemonInv, DaemonTypes, Alive
  <2> QED
    BY <2>1, <2>2, <2>3, <2>6 DEF DaemonInv, SavedInv, Safe, AgreeInv, Alive
<1> QED
  BY <1>1, <1>2 DEF Reload

LEMMA AsideKeepsInv ==
  ASSUME DaemonInv, UNCHANGED <<proc, file, mem, accepted, overtaken, recent, events, watcher, loaded, incoming,
                                unseen, stale, edit>>
  PROVE  DaemonInv'
<1>1. Kept' = Kept /\ AtLast' = AtLast
  BY DEF Kept, Safe, AtLast
<1> QED
  BY <1>1 DEF DaemonInv, DaemonTypes, SavedInv, Safe, AgreeInv, Alive

LEMMA StepKeepsInv == DaemonInv /\ [Next]_vars => DaemonInv'
<1> SUFFICES ASSUME DaemonInv, [Next]_vars
             PROVE  DaemonInv'
  OBVIOUS
<1> USE DEF life, store, watch, devices
<1>1. CASE Start
  BY <1>1, StartKeepsInv
<1>2. CASE Listen
  BY <1>2, StageKeepsInv DEF Listen
<1>3. CASE LoadControllers
  BY <1>3, StageKeepsInv DEF LoadControllers
<1>4. CASE StartListeners
  BY <1>4, StageKeepsInv DEF StartListeners
<1>5. CASE StartFails
  BY <1>5, GoneKeepsInv DEF StartFails
<1>6. CASE Signal
  BY <1>6, StageKeepsInv, GoneKeepsInv DEF Signal
<1>7. CASE Exit
  BY <1>7, GoneKeepsInv DEF Exit
<1>8. CASE Crash
  BY <1>8, GoneKeepsInv DEF Crash
<1>9. CASE UserEdits
  BY <1>9, EditKeepsInv
<1>10. CASE Save
  BY <1>10, SaveKeepsInv
<1>11. CASE TakeEvent \/ AnotherEvent \/ SecondPasses
  BY <1>11, WatchingKeepsInv
<1>12. CASE LoadFile
  BY <1>12, LoadKeepsInv
<1>13. CASE Reload
  BY <1>13, ReloadKeepsInv
<1>14. CASE KernelEvent \/ Devices \/ UNCHANGED vars
  BY <1>14, AsideKeepsInv DEF KernelEvent, Devices, Notified, ListDevices, ReloadEnds, vars
<1> QED
  BY <1>1, <1>2, <1>3, <1>4, <1>5, <1>6, <1>7, <1>8, <1>9, <1>10, <1>11, <1>12, <1>13, <1>14
  DEF Next, Startup, WatchFile

LEMMA InvHolds == Spec => []DaemonInv
  BY InitInv, StepKeepsInv, PTL DEF Spec

(* SavedStays for all edits, versions and migrations, any number of stops and  *)
(* crashes (Config::save and migrate_versions in lact-daemon/src/config.rs):   *)
(* what the daemon has saved is in a file that is whole, unless it was saved    *)
(* while a configuration loaded from the file was still waiting.                *)
THEOREM SavedIsNeverLost == Spec => []SavedStays
<1>1. DaemonInv => SavedStays
  BY DEF DaemonInv, SavedInv, Safe, SavedStays
<1> QED
  BY <1>1, InvHolds, PTL

(* RestAgrees for all edits, any length of the queues of events and loaded     *)
(* configurations (start_watcher in lact-daemon/src/config.rs and              *)
(* listen_config_changes in lact-daemon/src/lib.rs).                           *)
THEOREM FileIsFollowed == Spec => []RestAgrees
<1>1. DaemonInv => RestAgrees
  BY DEF DaemonInv, AgreeInv, RestAgrees, AtRest, AtLast
<1> QED
  BY <1>1, InvHolds, PTL
=============================================================================
