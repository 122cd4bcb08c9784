--------------------------- MODULE HandlerProofs ---------------------------
(***************************************************************************)
(* Safety of the settings transactions, for any number of connections,     *)
(* confirmation tasks, GPUs and values, with hardware and disk that fail   *)
(* at any time and every request and event enabled.                        *)
(***************************************************************************)
EXTENDS Handler, TLAPS

-----------------------------------------------------------------------------
(***************************************************************************)
(* What the fair lock of Locks guarantees, for queues of any length.       *)
(***************************************************************************)

\* Removing the i-th element moves the later ones forward by one place.
LEMMA RemoveAtProperties ==
  ASSUME NEW S, NEW q \in Seq(S), NEW i \in DOMAIN q
  PROVE  /\ RemoveAt(q, i) \in Seq(S)
         /\ DOMAIN RemoveAt(q, i) = 1..(Len(q) - 1)
         /\ \A j \in 1..(Len(q) - 1) :
              RemoveAt(q, i)[j] = IF j < i THEN q[j] ELSE q[j + 1]
<1> DEFINE a == SubSeq(q, 1, i - 1)
           b == SubSeq(q, i + 1, Len(q))
<1>1. a \in Seq(S) /\ Len(a) = i - 1 /\ \A j \in 1..(i - 1) : a[j] = q[j]
  OBVIOUS
<1>2. /\ b \in Seq(S) /\ Len(b) = Len(q) - i
      /\ \A j \in 1..(Len(q) - i) : b[j] = q[i + j]
  OBVIOUS
<1>3. RemoveAt(q, i) = a \o b
  BY DEF RemoveAt
<1> HIDE DEF a, b
<1>4. i \in 1..Len(q) /\ Len(q) \in Nat
  OBVIOUS
<1>5. a \o b \in Seq(S)
  BY <1>1, <1>2
<1>6. Len(a \o b) = Len(q) - 1
  BY <1>1, <1>2, <1>4
<1>7. \A j \in 1..(Len(q) - 1) :
        (a \o b)[j] = IF j < i THEN q[j] ELSE q[j + 1]
  BY <1>1, <1>2, <1>4
<1> QED
  BY <1>3, <1>4, <1>5, <1>6, <1>7

-----------------------------------------------------------------------------
\* The queue stays a queue of requests when one arrives.
LEMMA RequestType ==
  ASSUME NEW Waiters, NEW q \in Seq(LockRequests(Waiters)), NEW t \in Waiters, NEW m \in {"r", "w"}
  PROVE  Request(q, t, m) \in Seq(LockRequests(Waiters))
  BY DEF Request, LockRequest, LockRequests

\* So it does when a guard is dropped.
LEMMA ReleaseType ==
  ASSUME NEW Waiters, NEW q \in Seq(LockRequests(Waiters)), NEW t
  PROVE  Release(q, t) \in Seq(LockRequests(Waiters))
<1>1. CASE RequestsOf(q, t) = {}
  BY <1>1 DEF Release
<1>2. CASE RequestsOf(q, t) # {}
  <2> DEFINE i == CHOOSE j \in RequestsOf(q, t) : TRUE
  <2>1. i \in DOMAIN q
    BY <1>2 DEF RequestsOf
  <2> HIDE DEF i
  <2>2. RemoveAt(q, i) \in Seq(LockRequests(Waiters))
    BY <2>1, RemoveAtProperties
  <2> QED
    BY <1>2, <2>2 DEF Release, i
<1> QED
  BY <1>1, <1>2

-----------------------------------------------------------------------------
\* A request that arrives takes nothing from the tasks that hold the lock.
LEMMA RequestKeepsOthers ==
  ASSUME NEW Waiters, NEW q \in Seq(LockRequests(Waiters)), NEW t, NEW m,
         NEW u, u # t
  PROVE  Holds(Request(q, t, m), u) <=> Holds(q, u)
<1> DEFINE r == Request(q, t, m)
<1>1. /\ DOMAIN q = 1..Len(q) /\ Len(q) \in Nat
      /\ DOMAIN r = 1..(Len(q) + 1)
      /\ \A i \in 1..Len(q) : r[i] = q[i]
      /\ r[Len(q) + 1] = LockRequest(t, m)
  BY DEF Request
<1> HIDE DEF r
<1>2. RequestsOf(r, u) = RequestsOf(q, u)
  BY <1>1 DEF RequestsOf, LockRequest
<1>3. \A i \in RequestsOf(q, u) : GrantedAt(r, i) <=> GrantedAt(q, i)
  BY <1>1 DEF RequestsOf, GrantedAt
<1> QED
  BY <1>2, <1>3 DEF Holds, r

\* A task that drops its guard takes nothing from the tasks that hold the lock.
LEMMA ReleaseKeepsOthers ==
  ASSUME NEW Waiters, NEW q \in Seq(LockRequests(Waiters)), NEW t,
         NEW u, u # t, Holds(q, u)
  PROVE  Holds(Release(q, t), u)
<1>1. CASE RequestsOf(q, t) = {}
  BY <1>1 DEF Release
<1>2. CASE RequestsOf(q, t) # {}
  <2> DEFINE i == CHOOSE j \in RequestsOf(q, t) : TRUE
             r == RemoveAt(q, i)
  <2>1. i \in DOMAIN q /\ q[i].task = t
    BY <1>2 DEF RequestsOf
  <2>2. Release(q, t) = r
    BY <1>2 DEF Release
  <2> HIDE DEF i
  <2>3. /\ DOMAIN r = 1..(Len(q) - 1)
        /\ \A j \in 1..(Len(q) - 1) : r[j] = IF j < i THEN q[j] ELSE q[j + 1]
    BY <2>1, RemoveAtProperties
  <2> HIDE DEF r
  <2>4. DOMAIN q = 1..Len(q) /\ Len(q) \in Nat
    OBVIOUS
  <2>5. RequestsOf(r, u) # {}
    <3>1. PICK j \in DOMAIN q : q[j].task = u
      BY DEF Holds, RequestsOf
    <3>2. j # i
      BY <2>1, <3>1
    <3>3. CASE j < i
      BY <2>1, <2>3, <2>4, <3>1, <3>3 DEF RequestsOf
    <3>4. CASE j > i
      <4>1. j - 1 \in DOMAIN r /\ r[j - 1] = q[j]
        BY <2>1, <2>3, <2>4, <3>4
      <4> QED
        BY <3>1, <4>1 DEF RequestsOf
    <3> QED
      BY <2>1, <2>4, <3>2, <3>3, <3>4
  <2>6. ASSUME NEW j \in RequestsOf(r, u)
        PROVE  GrantedAt(r, j)
    <3>1. j \in 1..(Len(q) - 1) /\ r[j].task = u
      BY <2>3, <2>6 DEF RequestsOf
    <3>2. CASE j < i
      <4>1. j \in RequestsOf(q, u)
        BY <2>3, <2>4, <3>1, <3>2 DEF RequestsOf
      <4>2. GrantedAt(q, j)
        BY <4>1 DEF Holds
      <4> QED
        BY <2>1, <2>3, <2>4, <3>1, <3>2, <4>2 DEF GrantedAt
    <3>3. CASE ~(j < i)
      <4>1. j + 1 \in RequestsOf(q, u)
        BY <2>3, <2>4, <3>1, <3>3 DEF RequestsOf
      <4>2. GrantedAt(q, j + 1)
        BY <4>1 DEF Holds
      <4>3. \A l \in 1..(j + 1) : q[l].mode = "r"
        BY <2>4, <3>1, <4>2 DEF GrantedAt
      <4> QED
        BY <2>1, <2>3, <2>4, <3>1, <4>3 DEF GrantedAt
    <3> QED
      BY <3>2, <3>3
  <2> QED
    BY <2>2, <2>5, <2>6 DEF Holds
<1> QED
  BY <1>1, <1>2

-----------------------------------------------------------------------------
\* A task that holds the lock for writing is alone: a write request is only
\* granted at the head of the queue, and nothing behind it is granted.
WantsToWrite(q, t) == \E i \in RequestsOf(q, t) : q[i].mode = "w"

THEOREM WriterExcludesOthers ==
  ASSUME NEW Waiters, NEW q \in Seq(LockRequests(Waiters)), NEW t, NEW u, t # u,
         Holds(q, t), WantsToWrite(q, t)
  PROVE  ~Holds(q, u)
<1>1. PICK i \in DOMAIN q : q[i].task = t /\ q[i].mode = "w" /\ GrantedAt(q, i)
  BY DEF WantsToWrite, Holds, RequestsOf
<1>2. DOMAIN q = 1..Len(q) /\ Len(q) \in Nat
  OBVIOUS
<1>3. i = 1
  BY <1>1, <1>2 DEF GrantedAt
<1>4. ASSUME NEW j \in RequestsOf(q, u), GrantedAt(q, j)
      PROVE  FALSE
  <2>1. j \in 1..Len(q) /\ j # 1
    BY <1>1, <1>2, <1>3, <1>4 DEF RequestsOf
  <2>2. q[1].mode = "r"
    BY <1>4, <2>1 DEF GrantedAt
  <2> QED
    BY <1>1, <1>3, <2>2
<1> QED
  BY <1>4 DEF Holds

-----------------------------------------------------------------------------
(***************************************************************************)
(* Type correctness: each action keeps each variable in its type, by one   *)
(* step per action and, under it, one per variable.                        *)
(***************************************************************************)

\* Inserting an entry yields a configuration.
LEMMA InsertType ==
  ASSUME NEW conf \in Config, NEW g \in Gpu, NEW n \in GpuCfg
  PROVE  Insert(conf, g, n) \in Config
<1>1. PICK S \in SUBSET Gpu : conf \in [S -> GpuCfg]
  BY DEF Config
<1>2. S \cup {g} \in SUBSET Gpu
  OBVIOUS
<1>3. Insert(conf, g, n) \in [S \cup {g} -> GpuCfg]
  BY <1>1 DEF Insert
<1> QED
  BY <1>2, <1>3 DEF Config

\* Removing one keeps it a configuration.
LEMMA RemoveType ==
  ASSUME NEW conf \in Config, NEW g \in Gpu
  PROVE  [h \in DOMAIN conf \ {g} |-> conf[h]] \in Config
<1>1. PICK S \in SUBSET Gpu : conf \in [S -> GpuCfg]
  BY DEF Config
<1>2. S \ {g} \in SUBSET Gpu
  OBVIOUS
<1>3. [h \in DOMAIN conf \ {g} |-> conf[h]] \in [S \ {g} -> GpuCfg]
  BY <1>1
<1> QED
  BY <1>2, <1>3 DEF Config

\* The settings of a GPU without an entry.
LEMMA DefaultType == DefaultCfg \in GpuCfg
  BY DefaultIsAccepted DEF DefaultCfg, GpuCfg

\* The configuration of a daemon that was reset.
LEMMA EmptyType == Empty \in Config
<1>1. Empty \in [{} -> GpuCfg]
  BY DEF Empty
<1> QED
  BY <1>1 DEF Config

\* The settings a GPU is given, with an entry or without one.
LEMMA EntryType ==
  ASSUME NEW conf \in Config, NEW g \in Gpu
  PROVE  EntryOf(conf, g) \in GpuCfg
<1>1. PICK S \in SUBSET Gpu : conf \in [S -> GpuCfg]
  BY DEF Config
<1> QED
  BY <1>1, DefaultType DEF EntryOf

\* Entries are entries of GPUs.
LEMMA DomainType ==
  ASSUME NEW conf \in Config
  PROVE  DOMAIN conf \subseteq Gpu
  BY DEF Config

\* The locals of a task that has nothing to do.
LEMMA NoLocalType == NoLocal \in Local
<1>1. (CHOOSE g \in Gpu : TRUE) \in Gpu
  BY SomeGpu
<1>2. Default \in Val
  BY DefaultIsAccepted
<1> QED
  BY <1>1, <1>2, DefaultType, EmptyType DEF NoLocal, Local, Field

-----------------------------------------------------------------------------
\* Writing one group of settings of one GPU keeps the settings well formed.
LEMMA EditType ==
  ASSUME NEW n \in GpuCfg, NEW f \in Field, NEW v \in Val
  PROVE  [n EXCEPT ![f] = v] \in GpuCfg
  BY DEF GpuCfg

\* A write to one group of settings of one GPU.
LEMMA WriteType ==
  ASSUME NEW h \in [Gpu -> GpuCfg], NEW g \in Gpu, NEW f \in Field, NEW v \in Val
  PROVE  [h EXCEPT ![g][f] = v] \in [Gpu -> GpuCfg]
  BY DEF GpuCfg

\* What apply_config leaves in the hardware, whether it succeeds or fails.
LEMMA ApplyType ==
  ASSUME hw \in [Gpu -> GpuCfg], NEW g \in Gpu, NEW f \in Field, NEW n \in GpuCfg,
         Accepts(g, f, n) \/ Refuses(f, n)
  PROVE  hw' \in [Gpu -> GpuCfg]
<1>1. n[f] \in Val
  BY DEF GpuCfg
<1> QED
  BY <1>1, WriteType DEF Accepts, Refuses

\* The messages after the stored sender is dropped.
LEMMA DroppedType ==
  ASSUME TypeOK
  PROVE  SenderDropped \in [Slot -> {"none", "confirm", "revert", "dropped"}]
  BY DEF TypeOK, SenderDropped

\* The locals a request starts with, and those it reads from the configuration.
LEMMA SelectType ==
  ASSUME loc \in [Task -> Local], NEW c \in Task,
         NEW g \in Gpu, NEW f \in Field, NEW v \in Val, Select(c, g, f, v)
  PROVE  loc' \in [Task -> Local]
<1>1. [loc[c] EXCEPT !.gpu = g, !.field = f, !.val = v] \in Local
  BY DEF Local
<1> QED
  BY <1>1 DEF Select

\* The settings before and after an edit.
LEMMA ReadType ==
  ASSUME loc \in [Task -> Local], NEW t \in Task, NEW p \in GpuCfg, NEW n \in GpuCfg
  PROVE  [loc EXCEPT ![t].prev = p, ![t].new = n] \in [Task -> Local]
<1>1. [loc[t] EXCEPT !.prev = p, !.new = n] \in Local
  BY DEF Local
<1> QED
  BY <1>1

\* The locals of the tasks that go through all controllers.
LEMMA TodoType ==
  ASSUME loc \in [Task -> Local], NEW t \in Task
  PROVE  /\ \A s \in SUBSET Gpu : [loc EXCEPT ![t].todo = s] \in [Task -> Local]
         /\ \A g \in Gpu : [loc EXCEPT ![t].gpu = g] \in [Task -> Local]
         /\ \A n \in Config : [loc EXCEPT ![t].conf = n] \in [Task -> Local]
<1>1. \A s \in SUBSET Gpu : [loc[t] EXCEPT !.todo = s] \in Local
  BY DEF Local
<1>2. \A g \in Gpu : [loc[t] EXCEPT !.gpu = g] \in Local
  BY DEF Local
<1>3. \A n \in Config : [loc[t] EXCEPT !.conf = n] \in Local
  BY DEF Local
<1> QED
  BY <1>1, <1>2, <1>3

\* A request hands its locals to the confirmation task, and a task drops them.
LEMMA MoveType ==
  ASSUME loc \in [Task -> Local], NEW t \in Task, NEW u \in Task
  PROVE  /\ [loc EXCEPT ![t] = NoLocal] \in [Task -> Local]
         /\ [loc EXCEPT ![t] = loc[u], ![u] = NoLocal] \in [Task -> Local]
  BY NoLocalType

\* The locals of a task.
LEMMA LocalFields ==
  ASSUME loc \in [Task -> Local], NEW t \in Task
  PROVE  /\ loc[t].gpu \in Gpu /\ loc[t].field \in Field /\ loc[t].val \in Val
         /\ loc[t].prev \in GpuCfg /\ loc[t].new \in GpuCfg
         /\ loc[t].todo \subseteq Gpu /\ loc[t].conf \in Config
  BY DEF Local

\* The awaits of the tasks.
LEMMA LabelTypes ==
  /\ "idle" \in Labels /\ "fan_cfg" \in Labels /\ "reset_gpu" \in Labels
  /\ "edit_cfg" \in Labels /\ "edit_gpu" \in Labels /\ "edit_fan" \in Labels
  /\ "undo" \in Labels /\ "undo_fan" \in Labels /\ "stats_cfg" \in Labels
  /\ "stats_gpu" \in Labels /\ "info_gpu" \in Labels /\ "snapshot_gpu" \in Labels
  /\ "snapshot_cmd" \in Labels /\ "snapshot_gpu2" \in Labels /\ "snapshot_cfg" \in Labels
  /\ "clean_cfg" \in Labels /\ "clean_gpu" \in Labels /\ "clean" \in Labels
  /\ "clean_fan" \in Labels /\ "clear_cfg" \in Labels /\ "free" \in Labels
  /\ "spawned" \in Labels /\ "confirm_gpu" \in Labels /\ "confirm_wait" \in Labels
  /\ "save_cfg" \in Labels /\ "panicked" \in Labels /\ "reload_gpu" \in Labels
  /\ "file_cfg" \in Labels /\ "apply_cfg" \in Labels /\ "apply_gpu" \in Labels
  /\ "apply" \in Labels /\ "apply_fan" \in Labels
  BY DEF Labels, ConnLabels, SlotLabels, ListenerLabels

\* How the operators that end an action leave the tasks and the locks.
QueueType == cq' \in Seq(LockRequests(Task)) /\ gq' \in Seq(LockRequests(Task))
TaskType == pc' \in [Task -> Labels] /\ loc' \in [Task -> Local]
MsgType == /\ tx' \in Slot \cup {None}
           /\ msg' \in [Slot -> {"none", "confirm", "revert", "dropped"}]

\* What the tasks of the handler do with a lock keeps it a queue.
LEMMA LockTypes ==
  ASSUME TypeOK, NEW t \in Task
  PROVE  \A q \in Seq(LockRequests(Task)) :
           /\ Request(q, t, "r") \in Seq(LockRequests(Task))
           /\ Request(q, t, "w") \in Seq(LockRequests(Task))
           /\ Release(q, t) \in Seq(LockRequests(Task))
  BY RequestType, ReleaseType

\* A task that is done.
LEMMA ReturnType ==
  ASSUME TypeOK, NEW t \in Task, Return(t)
  PROVE  TaskType
  BY LabelTypes, MoveType DEF TypeOK, Return, Goto, TaskType

\* wait_config_confirm.
LEMMA AwaitConfirmType ==
  ASSUME TypeOK, NEW c \in Conn, AwaitConfirm(c)
  PROVE  TaskType /\ MsgType /\ gq' \in Seq(LockRequests(Task))
<1>1. c \in Task
  BY DEF Task
<1>2. PICK k \in FreeSlots :
        /\ tx' = k
        /\ msg' = [SenderDropped EXCEPT ![k] = "none"]
        /\ pc' = [pc EXCEPT ![c] = "idle", ![k] = "spawned"]
        /\ loc' = [loc EXCEPT ![k] = loc[c], ![c] = NoLocal]
        /\ gq' = Release(gq, c)
  BY DEF AwaitConfirm
<1>3. k \in Slot /\ k \in Task
  BY DEF FreeSlots, Task
<1>4. loc' \in [Task -> Local]
  BY <1>1, <1>2, <1>3, MoveType DEF TypeOK
<1>5. pc' \in [Task -> Labels]
  BY <1>1, <1>2, <1>3, LabelTypes DEF TypeOK
<1>6. MsgType
  BY <1>2, <1>3, DroppedType DEF MsgType
<1> QED
  BY <1>1, <1>2, <1>4, <1>5, <1>6, LockTypes DEF TaskType, TypeOK

\* The end of the confirmation task.
LEMMA EndConfirmType ==
  ASSUME TypeOK, NEW k \in Task, EndConfirm(k)
  PROVE  TaskType /\ MsgType /\ gq' \in Seq(LockRequests(Task))
<1>1. TaskType
  BY LabelTypes, MoveType DEF TypeOK, EndConfirm, Goto, TaskType
<1>2. MsgType
  BY DroppedType DEF EndConfirm, MsgType
<1> QED
  BY <1>1, <1>2, LockTypes DEF EndConfirm, TypeOK

\* The end of an undo, by the request or by the confirmation task.
LEMMA UndoneType ==
  ASSUME TypeOK, NEW t \in Task, Undone(t)
  PROVE  TaskType /\ MsgType /\ gq' \in Seq(LockRequests(Task))
<1>1. CASE EndConfirm(t)
  BY <1>1, EndConfirmType
<1>2. CASE FailEdit(t)
  BY <1>2, ReturnType, LockTypes DEF FailEdit, TypeOK, MsgType
<1> QED
  BY <1>1, <1>2 DEF Undone

\* The loop of cleanup goes on or ends.
LEMMA CleanupNextType ==
  ASSUME TypeOK, NEW c \in Task, NEW todo \in SUBSET Gpu, CleanupNext(c, todo)
  PROVE  TaskType /\ QueueType
<1>1. TaskType
  BY LabelTypes, TodoType DEF TypeOK, CleanupNext, Goto, TaskType
<1> QED
  BY <1>1, LockTypes DEF CleanupNext, TypeOK, QueueType

\* The loop of apply_current_config goes on or ends.
LEMMA ApplyNextType ==
  ASSUME TypeOK, NEW t \in Task, NEW todo \in SUBSET Gpu, ApplyNext(t, todo)
  PROVE  TaskType /\ QueueType
<1>1. CASE todo # {}
  <2>1. Goto(t, "apply") /\ loc' = [loc EXCEPT ![t].todo = todo] /\ UNCHANGED <<cq, gq>>
    BY <1>1 DEF ApplyNext
  <2>2. TaskType
    BY <2>1, LabelTypes, TodoType DEF TypeOK, Goto, TaskType
  <2> QED
    BY <2>1, <2>2 DEF TypeOK, QueueType
<1>2. CASE todo = {}
  BY <1>2, ReturnType, LockTypes DEF ApplyNext, TypeOK, QueueType
<1> QED
  BY <1>1, <1>2

\* Every action keeps every variable in its type.
LEMMA TypeStep ==
  ASSUME TypeOK, Next
  PROVE  TypeOK'
<1> USE DEF TypeOK
<1>tasks. Conn \subseteq Task /\ Slot \subseteq Task /\ Listener \subseteq Task
  BY DEF Task
<1>locks. \A q \in Seq(LockRequests(Task)), t \in Task :
        /\ Request(q, t, "r") \in Seq(LockRequests(Task))
        /\ Request(q, t, "w") \in Seq(LockRequests(Task))
        /\ Release(q, t) \in Seq(LockRequests(Task))
  BY RequestType, ReleaseType
<1>listeners. Reloader \in Task /\ Resumer \in Task /\ FileWatcher \in Task
  BY DEF Task, Listener
<1>consts. /\ DefaultCfg \in GpuCfg /\ Default \in Val /\ Empty \in Config
      /\ "clocks" \in Field /\ "fan" \in Field
  BY DefaultType, DefaultIsAccepted, EmptyType DEF Field
<1>1. ASSUME NEW c \in Conn, StartEdit(c)
      PROVE  TypeOK'
  <2>1. loc' \in [Task -> Local]
    BY <1>tasks, <1>1, SelectType, <1>consts DEF StartEdit, settings
  <2>2. cq' \in Seq(LockRequests(Task)) /\ gq' \in Seq(LockRequests(Task))
    BY <1>tasks, <1>1, <1>locks DEF StartEdit, settings
  <2>3. pc' \in [Task -> Labels]
    BY <1>tasks, <1>1, LabelTypes DEF StartEdit, settings, Goto
  <2> QED
    BY <2>1, <2>2, <2>3, <1>1 DEF StartEdit, settings
<1>2. ASSUME NEW c \in Conn, StartFan(c)
      PROVE  TypeOK'
  <2>1. loc' \in [Task -> Local]
    BY <1>tasks, <1>2, SelectType, <1>consts DEF StartFan, settings
  <2>2. cq' \in Seq(LockRequests(Task)) /\ gq' \in Seq(LockRequests(Task))
    BY <1>tasks, <1>2, <1>locks DEF StartFan, settings
  <2>3. pc' \in [Task -> Labels]
    BY <1>tasks, <1>2, LabelTypes DEF StartFan, settings, Goto
  <2> QED
    BY <2>1, <2>2, <2>3, <1>2 DEF StartFan, settings
<1>3. ASSUME NEW c \in Conn, FanEntry(c)
      PROVE  TypeOK'
  <2>1. loc' \in [Task -> Local]
    BY <1>tasks, <1>3, MoveType DEF FanEntry, EnterEdit, Return
  <2>2. config' \in Config /\ file' \in Config
    BY <1>tasks, <1>3, InsertType, EntryType, LocalFields
       DEF FanEntry, EnterEdit, Return
  <2>3. cq' \in Seq(LockRequests(Task)) /\ gq' \in Seq(LockRequests(Task))
    BY <1>tasks, <1>3, <1>locks DEF FanEntry, EnterEdit, Return
  <2>4. pc' \in [Task -> Labels]
    BY <1>tasks, <1>3, LabelTypes DEF FanEntry, EnterEdit, Return, Goto
  <2> QED
    BY <2>1, <2>2, <2>3, <2>4, <1>3 DEF FanEntry, EnterEdit, Return
<1>4. ASSUME NEW c \in Conn, StartReset(c)
      PROVE  TypeOK'
  <2>1. loc' \in [Task -> Local]
    BY <1>tasks, <1>4, SelectType, <1>consts DEF StartReset, settings
  <2>2. cq' \in Seq(LockRequests(Task)) /\ gq' \in Seq(LockRequests(Task))
    BY <1>tasks, <1>4, <1>locks DEF StartReset, settings
  <2>3. pc' \in [Task -> Labels]
    BY <1>tasks, <1>4, LabelTypes DEF StartReset, settings, Goto
  <2> QED
    BY <2>1, <2>2, <2>3, <1>4 DEF StartReset, settings
<1>5. ASSUME NEW c \in Conn, ResetHardware(c)
      PROVE  TypeOK'
  <2>1. loc' \in [Task -> Local]
    BY <1>tasks, <1>5, MoveType DEF ResetHardware, EnterEdit, Return
  <2>2. hw' \in [Gpu -> GpuCfg]
    BY <1>tasks, <1>5, WriteType, LocalFields, <1>consts
       DEF ResetHardware, EnterEdit, Return
  <2>3. cq' \in Seq(LockRequests(Task)) /\ gq' \in Seq(LockRequests(Task))
    <3>1. gq' = Release(gq, c) /\ (cq' = cq \/ EnterEdit(c, cq))
      BY <1>5 DEF ResetHardware
    <3>2. cq' \in {cq, Request(cq, c, "r")}
      BY <3>1 DEF EnterEdit
    <3> QED
      BY <1>tasks, <1>locks, <3>1, <3>2
  <2>4. pc' \in [Task -> Labels]
    BY <1>tasks, <1>5, LabelTypes DEF ResetHardware, EnterEdit, Return, Goto
  <2> QED
    BY <2>1, <2>2, <2>3, <2>4, <1>5 DEF ResetHardware, EnterEdit, Return
<1>6. ASSUME NEW c \in Conn, ReadConfig(c)
      PROVE  TypeOK'
  <2>1. loc' \in [Task -> Local]
    BY <1>tasks, <1>6, ReadType, EntryType, EditType, LocalFields
       DEF ReadConfig, settings
  <2>2. cq' \in Seq(LockRequests(Task)) /\ gq' \in Seq(LockRequests(Task))
    BY <1>tasks, <1>6, <1>locks DEF ReadConfig, settings
  <2>3. pc' \in [Task -> Labels]
    BY <1>tasks, <1>6, LabelTypes DEF ReadConfig, settings, Goto
  <2> QED
    BY <2>1, <2>2, <2>3, <1>6 DEF ReadConfig, settings
<1>7. ASSUME NEW c \in Conn, EditClocks(c)
      PROVE  TypeOK'
  <2>1. loc' \in [Task -> Local]
    BY <1>tasks, <1>7, MoveType DEF EditClocks, Apply, Return
  <2>2. hw' \in [Gpu -> GpuCfg]
    BY <1>tasks, <1>7, ApplyType, LocalFields, <1>consts
       DEF EditClocks, Apply, Return
  <2>3. cq' \in Seq(LockRequests(Task)) /\ gq' \in Seq(LockRequests(Task))
    BY <1>tasks, <1>7, <1>locks DEF EditClocks, Apply, Return
  <2>4. pc' \in [Task -> Labels]
    BY <1>tasks, <1>7, LabelTypes DEF EditClocks, Apply, Return, Goto
  <2> QED
    BY <2>1, <2>2, <2>3, <2>4, <1>7 DEF EditClocks, Apply, Return
<1>8. ASSUME NEW c \in Conn, EditFan(c)
      PROVE  TypeOK'
  <2>1. CASE Accepts(loc[c].gpu, "fan", loc[c].new) /\ AwaitConfirm(c)
    BY <1>tasks, <1>8, <2>1, AwaitConfirmType, ApplyType, LocalFields,
       <1>consts
       DEF EditFan, TaskType, MsgType
  <2>2. CASE Refuses("fan", loc[c].new) /\ Goto(c, "undo") /\ UNCHANGED <<gq, tx, msg, loc>>
    BY <1>tasks, <1>8, <2>2, LabelTypes, ApplyType, LocalFields, <1>consts
       DEF EditFan, Goto
  <2> QED
    BY <2>1, <2>2, <1>8 DEF EditFan, Apply
<1>9. ASSUME NEW c \in Conn, ConfirmPending(c)
      PROVE  TypeOK'
  <2>1. tx' \in Slot \cup {None} /\ msg' \in [Slot -> {"none", "confirm", "revert", "dropped"}]
    BY <1>tasks, <1>9 DEF ConfirmPending, settings, locks
  <2> QED
    BY <2>1, <1>9 DEF ConfirmPending, settings, locks
<1>10. ASSUME NEW c \in Conn, StartStats(c)
      PROVE  TypeOK'
  <2>1. cq' \in Seq(LockRequests(Task)) /\ gq' \in Seq(LockRequests(Task))
    BY <1>tasks, <1>10, <1>locks DEF StartStats, settings
  <2>2. pc' \in [Task -> Labels]
    BY <1>tasks, <1>10, LabelTypes DEF StartStats, settings, Goto
  <2> QED
    BY <2>1, <2>2, <1>10 DEF StartStats, settings
<1>11. ASSUME NEW c \in Conn, StatsController(c)
      PROVE  TypeOK'
  <2>1. cq' \in Seq(LockRequests(Task)) /\ gq' \in Seq(LockRequests(Task))
    BY <1>tasks, <1>11, <1>locks DEF StatsController, settings
  <2>2. pc' \in [Task -> Labels]
    BY <1>tasks, <1>11, LabelTypes DEF StatsController, settings, Goto
  <2> QED
    BY <2>1, <2>2, <1>11 DEF StatsController, settings
<1>12. ASSUME NEW c \in Conn, ReadStats(c)
      PROVE  TypeOK'
  <2>1. loc' \in [Task -> Local]
    BY <1>tasks, <1>12, MoveType DEF ReadStats, settings, Return
  <2>2. cq' \in Seq(LockRequests(Task)) /\ gq' \in Seq(LockRequests(Task))
    BY <1>tasks, <1>12, <1>locks DEF ReadStats, settings, Return
  <2>3. pc' \in [Task -> Labels]
    BY <1>tasks, <1>12, LabelTypes DEF ReadStats, settings, Return, Goto
  <2> QED
    BY <2>1, <2>2, <2>3, <1>12 DEF ReadStats, settings, Return
<1>13. ASSUME NEW c \in Conn, StartInfo(c)
      PROVE  TypeOK'
  <2>1. cq' \in Seq(LockRequests(Task)) /\ gq' \in Seq(LockRequests(Task))
    BY <1>tasks, <1>13, <1>locks DEF StartInfo, settings
  <2>2. pc' \in [Task -> Labels]
    BY <1>tasks, <1>13, LabelTypes DEF StartInfo, settings, Goto
  <2> QED
    BY <2>1, <2>2, <1>13 DEF StartInfo, settings
<1>14. ASSUME NEW c \in Conn, ReadInfo(c)
      PROVE  TypeOK'
  <2>1. loc' \in [Task -> Local]
    BY <1>tasks, <1>14, MoveType DEF ReadInfo, settings, Return
  <2>2. cq' \in Seq(LockRequests(Task)) /\ gq' \in Seq(LockRequests(Task))
    BY <1>tasks, <1>14, <1>locks DEF ReadInfo, settings, Return
  <2>3. pc' \in [Task -> Labels]
    BY <1>tasks, <1>14, LabelTypes DEF ReadInfo, settings, Return, Goto
  <2> QED
    BY <2>1, <2>2, <2>3, <1>14 DEF ReadInfo, settings, Return
<1>15. ASSUME NEW c \in Conn, StartSnapshot(c)
      PROVE  TypeOK'
  <2>1. cq' \in Seq(LockRequests(Task)) /\ gq' \in Seq(LockRequests(Task))
    BY <1>tasks, <1>15, <1>locks DEF StartSnapshot, settings
  <2>2. pc' \in [Task -> Labels]
    BY <1>tasks, <1>15, LabelTypes DEF StartSnapshot, settings, Goto
  <2> QED
    BY <2>1, <2>2, <1>15 DEF StartSnapshot, settings
<1>16. ASSUME NEW c \in Conn, SnapshotFiles(c)
      PROVE  TypeOK'
  <2>1. loc' \in [Task -> Local]
    BY <1>tasks, <1>16, MoveType DEF SnapshotFiles, settings, Return
  <2>2. cq' \in Seq(LockRequests(Task)) /\ gq' \in Seq(LockRequests(Task))
    BY <1>tasks, <1>16, <1>locks DEF SnapshotFiles, settings, Return
  <2>3. pc' \in [Task -> Labels]
    BY <1>tasks, <1>16, LabelTypes DEF SnapshotFiles, settings, Return, Goto
  <2> QED
    BY <2>1, <2>2, <2>3, <1>16 DEF SnapshotFiles, settings, Return
<1>17. ASSUME NEW c \in Conn, SnapshotDevices(c)
      PROVE  TypeOK'
  <2>1. cq' \in Seq(LockRequests(Task)) /\ gq' \in Seq(LockRequests(Task))
    BY <1>tasks, <1>17, <1>locks DEF SnapshotDevices, settings
  <2>2. pc' \in [Task -> Labels]
    BY <1>tasks, <1>17, LabelTypes DEF SnapshotDevices, settings, Goto
  <2> QED
    BY <2>1, <2>2, <1>17 DEF SnapshotDevices, settings
<1>18. ASSUME NEW c \in Conn, SnapshotConfig(c)
      PROVE  TypeOK'
  <2>1. cq' \in Seq(LockRequests(Task)) /\ gq' \in Seq(LockRequests(Task))
    BY <1>tasks, <1>18, <1>locks DEF SnapshotConfig, settings
  <2>2. pc' \in [Task -> Labels]
    BY <1>tasks, <1>18, LabelTypes DEF SnapshotConfig, settings, Goto
  <2> QED
    BY <2>1, <2>2, <1>18 DEF SnapshotConfig, settings
<1>19. ASSUME NEW c \in Conn, EndSnapshot(c)
      PROVE  TypeOK'
  <2>1. loc' \in [Task -> Local]
    BY <1>tasks, <1>19, MoveType DEF EndSnapshot, settings, Return
  <2>2. cq' \in Seq(LockRequests(Task)) /\ gq' \in Seq(LockRequests(Task))
    BY <1>tasks, <1>19, <1>locks DEF EndSnapshot, settings, Return
  <2>3. pc' \in [Task -> Labels]
    BY <1>tasks, <1>19, LabelTypes DEF EndSnapshot, settings, Return, Goto
  <2> QED
    BY <2>1, <2>2, <2>3, <1>19 DEF EndSnapshot, settings, Return
<1>20. ASSUME NEW c \in Conn, StartCleanup(c)
      PROVE  TypeOK'
  <2>1. cq' \in Seq(LockRequests(Task)) /\ gq' \in Seq(LockRequests(Task))
    BY <1>tasks, <1>20, <1>locks DEF StartCleanup, settings
  <2>2. pc' \in [Task -> Labels]
    BY <1>tasks, <1>20, LabelTypes DEF StartCleanup, settings, Goto
  <2> QED
    BY <2>1, <2>2, <1>20 DEF StartCleanup, settings
<1>21. ASSUME NEW c \in Conn, CleanupControllers(c)
      PROVE  TypeOK'
  <2>1. cq' \in Seq(LockRequests(Task)) /\ gq' \in Seq(LockRequests(Task))
    BY <1>tasks, <1>21, <1>locks DEF CleanupControllers, settings
  <2>2. pc' \in [Task -> Labels]
    BY <1>tasks, <1>21, LabelTypes DEF CleanupControllers, settings, Goto
  <2> QED
    BY <2>1, <2>2, <1>21 DEF CleanupControllers, settings
<1>22. ASSUME NEW c \in Conn, CleanupStart(c)
      PROVE  TypeOK'
  <2>1. TaskType /\ QueueType
    BY <1>tasks, <1>22, CleanupNextType DEF CleanupStart
  <2> QED
    BY <2>1, <1>22 DEF CleanupStart, TaskType, QueueType, settings
<1>23. ASSUME NEW c \in Conn, CleanClocks(c)
      PROVE  TypeOK'
  <2>1. PICK g \in loc[c].todo :
            \/ /\ hw' = [hw EXCEPT ![g] = DefaultCfg]
               /\ loc' = [loc EXCEPT ![c].gpu = g]
               /\ Goto(c, "clean_fan")
               /\ UNCHANGED locks
            \/ /\ hw' = [hw EXCEPT ![g]["fan"] = Default]
               /\ CleanupNext(c, loc[c].todo \ {g})
    BY <1>tasks, <1>23 DEF CleanClocks
  <2>2. g \in Gpu /\ loc[c].todo \ {g} \in SUBSET Gpu
    BY <1>tasks, <1>23, LocalFields
  <2>3. hw' \in [Gpu -> GpuCfg]
    BY <1>tasks, <1>23, <2>1, <2>2, WriteType, <1>consts
  <2>4. TaskType /\ QueueType
    BY <1>tasks, <1>23, <2>1, <2>2, CleanupNextType, TodoType, LabelTypes
       DEF TaskType, QueueType, Goto, locks
  <2> QED
    BY <2>1, <2>2, <2>3, <2>4, <1>23 DEF CleanClocks, TaskType, QueueType
<1>24. ASSUME NEW c \in Conn, CleanFan(c)
      PROVE  TypeOK'
  <2>1. CleanupNext(c, loc[c].todo \ {loc[c].gpu})
    BY <1>tasks, <1>24 DEF CleanFan, Apply
  <2>2. loc[c].gpu \in Gpu /\ loc[c].todo \ {loc[c].gpu} \in SUBSET Gpu
    BY <1>tasks, <1>24, LocalFields
  <2>3. hw' \in [Gpu -> GpuCfg]
    BY <1>tasks, <1>24, <2>2, ApplyType, <1>consts DEF CleanFan, Apply
  <2>4. TaskType /\ QueueType
    BY <1>tasks, <1>24, <2>1, <2>2, CleanupNextType
  <2> QED
    BY <2>1, <2>2, <2>3, <2>4, <1>24 DEF CleanFan, TaskType, QueueType
<1>25. ASSUME NEW c \in Conn, ClearConfig(c)
      PROVE  TypeOK'
  <2>1. loc' \in [Task -> Local]
    BY <1>tasks, <1>25, MoveType DEF ClearConfig, Save, Return
  <2>2. config' \in Config /\ file' \in Config
    BY <1>tasks, <1>25, <1>consts DEF ClearConfig, Save, Return
  <2>3. cq' \in Seq(LockRequests(Task)) /\ gq' \in Seq(LockRequests(Task))
    <3>1. cq' = Release(cq, c) /\ gq' = gq
      BY <1>25 DEF ClearConfig
    <3> QED
      BY <1>tasks, <1>locks, <3>1
  <2>4. pc' \in [Task -> Labels]
    BY <1>tasks, <1>25, LabelTypes DEF ClearConfig, Save, Return, Goto
  <2> QED
    BY <2>1, <2>2, <2>3, <2>4, <1>25 DEF ClearConfig, Save, Return
<1>26. ASSUME NEW k \in Slot, SpawnedPoll(k)
      PROVE  TypeOK'
  <2>1. cq' \in Seq(LockRequests(Task)) /\ gq' \in Seq(LockRequests(Task))
    BY <1>tasks, <1>26, <1>locks DEF SpawnedPoll, settings
  <2>2. pc' \in [Task -> Labels]
    BY <1>tasks, <1>26, LabelTypes DEF SpawnedPoll, settings, Goto
  <2> QED
    BY <2>1, <2>2, <1>26 DEF SpawnedPoll, settings
<1>27. ASSUME NEW k \in Slot, HoldController(k)
      PROVE  TypeOK'
  <2>1. loc' \in [Task -> Local]
    BY <1>tasks, <1>27, MoveType DEF HoldController, settings
  <2>2. tx' \in Slot \cup {None} /\ msg' \in [Slot -> {"none", "confirm", "revert", "dropped"}]
    BY <1>tasks, <1>27 DEF HoldController, settings
  <2>3. cq' \in Seq(LockRequests(Task)) /\ gq' \in Seq(LockRequests(Task))
    BY <1>tasks, <1>27, <1>locks DEF HoldController, settings
  <2>4. pc' \in [Task -> Labels]
    BY <1>tasks, <1>27, LabelTypes DEF HoldController, settings, Goto
  <2> QED
    BY <2>1, <2>2, <2>3, <2>4, <1>27 DEF HoldController, settings
<1>28. ASSUME NEW k \in Slot, TimerExpires(k)
      PROVE  TypeOK'
  <2>1. tx' \in Slot \cup {None} /\ msg' \in [Slot -> {"none", "confirm", "revert", "dropped"}]
    BY <1>tasks, <1>28 DEF TimerExpires, settings, locks
  <2>2. pc' \in [Task -> Labels]
    BY <1>tasks, <1>28, LabelTypes DEF TimerExpires, settings, locks, Goto
  <2> QED
    BY <2>1, <2>2, <1>28 DEF TimerExpires, settings, locks
<1>29. ASSUME NEW k \in Slot, ReceiveConfirm(k)
      PROVE  TypeOK'
  <2>1. tx' \in Slot \cup {None} /\ msg' \in [Slot -> {"none", "confirm", "revert", "dropped"}]
    BY <1>tasks, <1>29 DEF ReceiveConfirm, settings
  <2>2. cq' \in Seq(LockRequests(Task)) /\ gq' \in Seq(LockRequests(Task))
    BY <1>tasks, <1>29, <1>locks DEF ReceiveConfirm, settings
  <2>3. pc' \in [Task -> Labels]
    BY <1>tasks, <1>29, LabelTypes DEF ReceiveConfirm, settings, Goto
  <2> QED
    BY <2>1, <2>2, <2>3, <1>29 DEF ReceiveConfirm, settings
<1>30. ASSUME NEW k \in Slot, ReceiveRevert(k)
      PROVE  TypeOK'
  <2>1. tx' \in Slot \cup {None} /\ msg' \in [Slot -> {"none", "confirm", "revert", "dropped"}]
    BY <1>tasks, <1>30 DEF ReceiveRevert, settings, locks
  <2>2. pc' \in [Task -> Labels]
    BY <1>tasks, <1>30, LabelTypes DEF ReceiveRevert, settings, locks, Goto
  <2> QED
    BY <2>1, <2>2, <1>30 DEF ReceiveRevert, settings, locks
<1>31. ASSUME NEW k \in Slot, SaveConfirmed(k)
      PROVE  TypeOK'
  <2>1. config' \in Config /\ file' \in Config
    BY <1>tasks, <1>31, InsertType, LocalFields DEF SaveConfirmed, Save
  <2>2. TaskType /\ MsgType /\ gq' \in Seq(LockRequests(Task))
    BY <1>tasks, <1>31, EndConfirmType DEF SaveConfirmed
  <2>3. cq' \in Seq(LockRequests(Task))
    BY <1>tasks, <1>31, <1>locks DEF SaveConfirmed
  <2> QED
    BY <2>1, <2>2, <2>3, <1>31 DEF SaveConfirmed, TaskType, MsgType
<1>32. ASSUME NEW t \in Task, UndoClocks(t)
      PROVE  TypeOK'
  <2>1. loc[t].gpu \in Gpu /\ loc[t].prev \in GpuCfg
    BY <1>tasks, <1>32, LocalFields
  <2>2. hw' \in [Gpu -> GpuCfg]
    BY <1>tasks, <1>32, <2>1, ApplyType, <1>consts DEF UndoClocks, Apply
  <2>3. \/ Undone(t)
        \/ Goto(t, "undo_fan") /\ UNCHANGED <<gq, tx, msg, loc>>
    BY <1>tasks, <1>32 DEF UndoClocks, Apply
  <2>4. TaskType /\ MsgType /\ gq' \in Seq(LockRequests(Task))
    BY <1>tasks, <1>32, <2>3, UndoneType, LabelTypes DEF TaskType, MsgType, Goto
  <2> QED
    BY <2>1, <2>2, <2>3, <2>4, <1>32 DEF UndoClocks, TaskType, MsgType
<1>33. ASSUME NEW t \in Task, UndoFan(t)
      PROVE  TypeOK'
  <2>1. loc[t].gpu \in Gpu /\ loc[t].prev \in GpuCfg
    BY <1>tasks, <1>33, LocalFields
  <2>2. hw' \in [Gpu -> GpuCfg]
    BY <1>tasks, <1>33, <2>1, ApplyType, <1>consts DEF UndoFan, Apply
  <2>3. Undone(t)
    BY <1>tasks, <1>33 DEF UndoFan, Apply
  <2>4. TaskType /\ MsgType /\ gq' \in Seq(LockRequests(Task))
    BY <1>tasks, <1>33, <2>3, UndoneType
  <2> QED
    BY <2>1, <2>2, <2>3, <2>4, <1>33 DEF UndoFan, TaskType, MsgType
<1>34. ASSUME StartReload
      PROVE  TypeOK'
  <2>1. PICK found \in SUBSET Gpu : loc' = [loc EXCEPT ![Reloader].todo = found]
    BY <1>listeners, <1>34 DEF StartReload
  <2>2. loc' \in [Task -> Local]
    BY <1>listeners, <1>34, <2>1, TodoType
  <2>3. QueueType
    BY <1>listeners, <1>34, <1>locks DEF StartReload, QueueType, settings
  <2>4. pc' \in [Task -> Labels]
    BY <1>listeners, <1>34, LabelTypes DEF StartReload, Goto
  <2> QED
    BY <2>1, <2>2, <2>3, <2>4, <1>34 DEF StartReload, QueueType, settings
<1>35. ASSUME ReplaceControllers
      PROVE  TypeOK'
  <2>1. present' \in SUBSET Gpu
    BY <1>listeners, <1>35, LocalFields DEF ReplaceControllers
  <2>2. hw' \in [Gpu -> GpuCfg]
    BY <1>listeners, <1>35, <1>consts DEF ReplaceControllers
  <2>3. QueueType
    BY <1>listeners, <1>35, <1>locks
       DEF ReplaceControllers, ApplyCurrentConfig, QueueType
  <2>4. pc' \in [Task -> Labels]
    BY <1>listeners, <1>35, LabelTypes
       DEF ReplaceControllers, ApplyCurrentConfig, Goto
  <2> QED
    BY <2>1, <2>2, <2>3, <2>4, <1>35 DEF ReplaceControllers, QueueType
<1>36. ASSUME StartResume
      PROVE  TypeOK'
  <2>1. cq' \in Seq(LockRequests(Task)) /\ gq' \in Seq(LockRequests(Task))
    BY <1>listeners, <1>36, <1>locks
       DEF StartResume, settings, ApplyCurrentConfig
  <2>2. pc' \in [Task -> Labels]
    BY <1>listeners, <1>36, LabelTypes
       DEF StartResume, settings, ApplyCurrentConfig, Goto
  <2> QED
    BY <2>1, <2>2, <1>36 DEF StartResume, settings, ApplyCurrentConfig
<1>37. ASSUME StartFileChange
      PROVE  TypeOK'
  <2>1. file' \in Config
    BY <1>listeners, <1>37, InsertType, RemoveType DEF StartFileChange
  <2>2. loc' \in [Task -> Local]
    BY <1>listeners, <1>37, <2>1, TodoType DEF StartFileChange
  <2>3. QueueType
    BY <1>listeners, <1>37, <1>locks DEF StartFileChange, QueueType
  <2>4. pc' \in [Task -> Labels]
    BY <1>listeners, <1>37, LabelTypes DEF StartFileChange, Goto
  <2> QED
    BY <2>1, <2>2, <2>3, <2>4, <1>37 DEF StartFileChange, QueueType
<1>38. ASSUME ReplaceConfig
      PROVE  TypeOK'
  <2>1. config' \in Config
    BY <1>listeners, <1>38, LocalFields DEF ReplaceConfig
  <2>2. QueueType
    BY <1>listeners, <1>38, <1>locks
       DEF ReplaceConfig, ApplyCurrentConfig, QueueType
  <2>3. pc' \in [Task -> Labels]
    BY <1>listeners, <1>38, LabelTypes
       DEF ReplaceConfig, ApplyCurrentConfig, Goto
  <2> QED
    BY <2>1, <2>2, <2>3, <1>38 DEF ReplaceConfig, QueueType
<1>39. ASSUME NEW t \in Listener, ApplyControllers(t)
      PROVE  TypeOK'
  <2>1. cq' \in Seq(LockRequests(Task)) /\ gq' \in Seq(LockRequests(Task))
    BY <1>tasks, <1>39, <1>locks DEF ApplyControllers, settings
  <2>2. pc' \in [Task -> Labels]
    BY <1>tasks, <1>39, LabelTypes DEF ApplyControllers, settings, Goto
  <2> QED
    BY <2>1, <2>2, <1>39 DEF ApplyControllers, settings
<1>40. ASSUME NEW t \in Listener, ApplyStart(t)
      PROVE  TypeOK'
  <2>1. DOMAIN config \cap present \in SUBSET Gpu
    BY <1>tasks, <1>40
  <2>2. TaskType /\ QueueType
    BY <1>tasks, <1>40, <2>1, ApplyNextType DEF ApplyStart
  <2> QED
    BY <2>1, <2>2, <1>40 DEF ApplyStart, TaskType, QueueType, settings
<1>41. ASSUME NEW t \in Listener, ApplyClocks(t)
      PROVE  TypeOK'
  <2>1. PICK g \in loc[t].todo :
             Apply(g, "clocks", EntryOf(config, g),
                   /\ Goto(t, "apply_fan")
                   /\ loc' = [loc EXCEPT ![t].gpu = g]
                   /\ UNCHANGED locks,
                   ApplyNext(t, loc[t].todo \ {g}))
    BY <1>tasks, <1>41 DEF ApplyClocks
  <2>2. g \in Gpu /\ loc[t].todo \ {g} \in SUBSET Gpu /\ EntryOf(config, g) \in GpuCfg
    BY <1>tasks, <1>41, LocalFields, EntryType
  <2>3. hw' \in [Gpu -> GpuCfg]
    BY <1>tasks, <1>41, <2>1, <2>2, ApplyType, <1>consts DEF Apply
  <2>4. CASE ApplyNext(t, loc[t].todo \ {g})
    BY <1>tasks, <1>41, <2>2, <2>3, <2>4, ApplyNextType
       DEF ApplyClocks, TaskType, QueueType
  <2>5. CASE /\ Goto(t, "apply_fan")
             /\ loc' = [loc EXCEPT ![t].gpu = g]
             /\ UNCHANGED locks
    BY <1>tasks, <1>41, <2>2, <2>3, <2>5, TodoType, LabelTypes
       DEF ApplyClocks, Goto, locks
  <2> QED
    BY <2>1, <2>2, <2>3, <2>4, <2>5, <1>41 DEF Apply
<1>42. ASSUME NEW t \in Listener, ApplyFan(t)
      PROVE  TypeOK'
  <2>1. ApplyNext(t, loc[t].todo \ {loc[t].gpu})
    BY <1>tasks, <1>42 DEF ApplyFan, Apply
  <2>2. /\ loc[t].gpu \in Gpu /\ loc[t].todo \ {loc[t].gpu} \in SUBSET Gpu
        /\ EntryOf(config, loc[t].gpu) \in GpuCfg
    BY <1>tasks, <1>42, LocalFields, EntryType
  <2>3. hw' \in [Gpu -> GpuCfg]
    BY <1>tasks, <1>42, <2>2, ApplyType, <1>consts DEF ApplyFan, Apply
  <2>4. TaskType /\ QueueType
    BY <1>tasks, <1>42, <2>1, <2>2, ApplyNextType
  <2> QED
    BY <2>1, <2>2, <2>3, <2>4, <1>42 DEF ApplyFan, TaskType, QueueType
<1> QED
  BY <1>1, <1>2, <1>3, <1>4, <1>5, <1>6, <1>7, <1>8, <1>9, <1>10, <1>11, <1>12,
     <1>13, <1>14, <1>15, <1>16, <1>17, <1>18, <1>19, <1>20, <1>21, <1>22,
     <1>23, <1>24, <1>25, <1>26, <1>27, <1>28, <1>29, <1>30, <1>31, <1>32,
     <1>33, <1>34, <1>35, <1>36, <1>37, <1>38, <1>39, <1>40, <1>41, <1>42,
     <1>tasks
     DEF Next, Arrive, Serve, ServeEdit, ServeRead, ServeClear, Decide, Listen,
         Event, Listener

\* The daemon starts with its configuration applied.
LEMMA TypeInit == Init => TypeOK
<1> SUFFICES ASSUME Init
             PROVE  TypeOK
  OBVIOUS
<1>1. config \in Config /\ file \in Config
  <2>1. PICK S \in SUBSET Gpu : config \in [S -> [Field -> Val \ Bad]]
    BY DEF Init
  <2>2. config \in [S -> GpuCfg]
    BY <2>1 DEF GpuCfg
  <2> QED
    BY <2>2 DEF Init, Config
<1>2. hw \in [Gpu -> GpuCfg]
  BY <1>1, EntryType DEF Init
<1>3. pc \in [Task -> Labels]
  BY LabelTypes DEF Init
<1>4. loc \in [Task -> Local]
  BY NoLocalType DEF Init
<1> QED
  BY <1>1, <1>2, <1>3, <1>4 DEF TypeOK, Init

\* Whatever clients, hardware and events do, every variable keeps its type.
THEOREM TypeCorrect == Spec => []TypeOK
<1>1. TypeOK /\ [Next]_vars => TypeOK'
  <2>1. CASE UNCHANGED vars
    BY <2>1 DEF vars, TypeOK
  <2> QED
    BY <2>1, TypeStep
<1> QED
  BY <1>1, TypeInit, PTL DEF Spec

-----------------------------------------------------------------------------
(***************************************************************************)
(* SavedIsAccepted is not inductive: it says nothing of the settings that  *)
(* are on their way to the configuration.  These are accepted as well,     *)
(* from the moment apply_config has written them until they are saved.     *)
(***************************************************************************)
OnTheirWay == {"spawned", "confirm_gpu", "confirm_wait", "save_cfg"}

ConfigAccepted(conf) == \A g \in DOMAIN conf : Accepted(conf[g])

AcceptedInv ==
  /\ ConfigAccepted(config) /\ ConfigAccepted(file)
  /\ \A c \in Conn : pc[c] = "edit_fan" => loc[c].new["clocks"] \notin Bad
  /\ \A k \in Slot : pc[k] \in OnTheirWay => Accepted(loc[k].new)
  /\ pc[FileWatcher] # "file_cfg"

\* The step is one of task t, which is not about to write new settings after it.
Passes(t) ==
  /\ \A u \in Task \ {t} : pc'[u] = pc[u] /\ loc'[u] = loc[u]
  /\ pc'[t] \notin OnTheirWay \cup {"edit_fan", "file_cfg"}

\* So are the settings of a GPU without an entry.
LEMMA DefaultAccepted == Accepted(DefaultCfg)
  BY DefaultIsAccepted DEF Accepted, DefaultCfg

\* Inserting accepted settings leaves a configuration of accepted settings.
LEMMA InsertAccepted ==
  ASSUME NEW conf \in Config, ConfigAccepted(conf), NEW g \in Gpu,
         NEW n \in GpuCfg, Accepted(n)
  PROVE  ConfigAccepted(Insert(conf, g, n))
  BY DEF ConfigAccepted, Insert

\* What a GPU is given, with an entry or without one, is accepted.
LEMMA EntryAccepted ==
  ASSUME NEW conf \in Config, ConfigAccepted(conf), NEW g \in Gpu
  PROVE  Accepted(EntryOf(conf, g))
  BY DefaultAccepted DEF ConfigAccepted, EntryOf

\* Steps of a task that has no new settings under way.
LEMMA PassesKeeps ==
  ASSUME AcceptedInv, NEW t \in Task, Passes(t), UNCHANGED <<config, file>>
  PROVE  AcceptedInv'
  BY
     DEF AcceptedInv, Passes, Task, Listener, OnTheirWay, ConfigAccepted,
         Accepted

\* Every action keeps the settings that are saved, or about to be, accepted.
LEMMA AcceptedStep ==
  ASSUME TypeOK, AcceptedInv, Next, "file" \notin Ops
  PROVE  AcceptedInv'
<1>tasks. Conn \subseteq Task /\ Slot \subseteq Task /\ Listener \subseteq Task
  BY DEF Task
<1>apart. Conn \cap Slot = {} /\ FileWatcher \notin Conn \cup Slot
  BY TasksAreDistinct DEF Listener
<1>listeners. {Reloader, Resumer} \subseteq Task \ {FileWatcher}
  BY TasksAreDistinct DEF Task, Listener
<1>types. pc \in [Task -> Labels] /\ loc \in [Task -> Local]
  BY DEF TypeOK
<1>1. ASSUME NEW c \in Conn, StartEdit(c)
      PROVE  AcceptedInv'
  <2>1. Passes(c)
    BY <1>1, <1>tasks, <1>types
       DEF StartEdit, Passes, Goto, OnTheirWay, Select, settings
  <2> QED
    BY <1>1, <2>1, <1>tasks, PassesKeeps DEF StartEdit, settings
<1>2. ASSUME NEW c \in Conn, StartFan(c)
      PROVE  AcceptedInv'
  <2>1. Passes(c)
    BY <1>2, <1>tasks, <1>types
       DEF StartFan, Passes, Goto, OnTheirWay, Select, settings
  <2> QED
    BY <1>2, <2>1, <1>tasks, PassesKeeps DEF StartFan, settings
<1>3. ASSUME NEW c \in Conn, FanEntry(c)
      PROVE  AcceptedInv'
  <2>1. ConfigAccepted(config') /\ file' = file
    BY <1>3, InsertAccepted, EntryAccepted, EntryType, LocalFields
       DEF FanEntry, TypeOK, AcceptedInv, Task
  <2>2. Passes(c)
    BY <1>3, <1>tasks, <1>types
       DEF FanEntry, EnterEdit, Passes, Goto, Return, OnTheirWay
  <2> QED
    BY <1>3, <1>tasks, <1>apart, <2>1, <2>2
       DEF Passes, AcceptedInv, Accepted, OnTheirWay, ConfigAccepted, Task,
           Listener
<1>4. ASSUME NEW c \in Conn, StartReset(c)
      PROVE  AcceptedInv'
  <2>1. Passes(c)
    BY <1>4, <1>tasks, <1>types
       DEF StartReset, Passes, Goto, OnTheirWay, Select, settings
  <2> QED
    BY <1>4, <2>1, <1>tasks, PassesKeeps DEF StartReset, settings
<1>5. ASSUME NEW c \in Conn, ResetHardware(c)
      PROVE  AcceptedInv'
  <2>1. Passes(c)
    BY <1>5, <1>tasks, <1>types
       DEF ResetHardware, Passes, Goto, OnTheirWay, EnterEdit, Return
  <2> QED
    BY <1>5, <2>1, <1>tasks, PassesKeeps DEF ResetHardware
<1>6. ASSUME NEW c \in Conn, ReadConfig(c)
      PROVE  AcceptedInv'
  <2>1. Passes(c)
    BY <1>6, <1>tasks, <1>types
       DEF ReadConfig, Passes, Goto, OnTheirWay, settings
  <2> QED
    BY <1>6, <2>1, <1>tasks, PassesKeeps DEF ReadConfig, settings
<1>7. ASSUME NEW c \in Conn, EditClocks(c)
      PROVE  AcceptedInv'
  <2>1. CASE Passes(c)
    BY <1>7, <2>1, <1>tasks, PassesKeeps DEF EditClocks
  <2>2. CASE /\ Accepts(loc[c].gpu, "clocks", loc[c].new)
             /\ Goto(c, "edit_fan")
             /\ UNCHANGED <<config, file, loc>>
    BY <2>2, <1>tasks, <1>apart, <1>types
       DEF Accepts, Goto, AcceptedInv, OnTheirWay, Accepted, ConfigAccepted,
           Task, Listener
  <2> QED
    BY <1>7, <2>1, <2>2, <1>tasks, <1>types
       DEF EditClocks, Apply, Passes, Goto, Return, OnTheirWay
<1>8. ASSUME NEW c \in Conn, EditFan(c)
      PROVE  AcceptedInv'
  <2>1. CASE Refuses("fan", loc[c].new) /\ Goto(c, "undo") /\ UNCHANGED loc
    <3>1. Passes(c)
      BY <2>1, <1>tasks, <1>types DEF Passes, Goto, OnTheirWay
    <3> QED
      BY <1>8, <3>1, <1>tasks, PassesKeeps DEF EditFan
  <2>2. CASE Accepts(loc[c].gpu, "fan", loc[c].new) /\ AwaitConfirm(c)
    <3>1. PICK k \in Slot :
            /\ pc' = [pc EXCEPT ![c] = "idle", ![k] = "spawned"]
            /\ loc' = [loc EXCEPT ![k] = loc[c], ![c] = NoLocal]
      BY <2>2 DEF AwaitConfirm, FreeSlots
    <3>2. Accepted(loc[c].new)
      BY <1>8, <2>2 DEF EditFan, Accepts, AcceptedInv, Accepted, Field
    <3>3. loc'[k] = loc[c] /\ pc'[c] = "idle"
      BY <3>1, <1>tasks, <1>apart, <1>types
    <3>4. \A u \in Task \ {c, k} : pc'[u] = pc[u] /\ loc'[u] = loc[u]
      BY <3>1, <1>tasks, <1>types
    <3>5. UNCHANGED <<config, file>>
      BY <1>8 DEF EditFan
    <3> QED
      BY <3>2, <3>3, <3>4, <3>5, <1>apart
         DEF AcceptedInv, OnTheirWay, Accepted, ConfigAccepted, Task, Listener
  <2> QED
    BY <1>8, <2>1, <2>2 DEF EditFan, Apply
<1>9. ASSUME NEW c \in Conn, ConfirmPending(c)
      PROVE  AcceptedInv'
  BY <1>9 DEF ConfirmPending, settings, AcceptedInv, ConfigAccepted, Accepted
<1>10. ASSUME NEW c \in Conn, StartStats(c)
      PROVE  AcceptedInv'
  <2>1. Passes(c)
    BY <1>10, <1>tasks, <1>types
       DEF StartStats, Passes, Goto, OnTheirWay, settings
  <2> QED
    BY <1>10, <2>1, <1>tasks, PassesKeeps DEF StartStats, settings
<1>11. ASSUME NEW c \in Conn, StatsController(c)
      PROVE  AcceptedInv'
  <2>1. Passes(c)
    BY <1>11, <1>tasks, <1>types
       DEF StatsController, Passes, Goto, OnTheirWay, settings
  <2> QED
    BY <1>11, <2>1, <1>tasks, PassesKeeps DEF StatsController, settings
<1>12. ASSUME NEW c \in Conn, ReadStats(c)
      PROVE  AcceptedInv'
  <2>1. Passes(c)
    BY <1>12, <1>tasks, <1>types
       DEF ReadStats, Passes, Goto, OnTheirWay, Return, settings
  <2> QED
    BY <1>12, <2>1, <1>tasks, PassesKeeps DEF ReadStats, settings
<1>13. ASSUME NEW c \in Conn, StartInfo(c)
      PROVE  AcceptedInv'
  <2>1. Passes(c)
    BY <1>13, <1>tasks, <1>types
       DEF StartInfo, Passes, Goto, OnTheirWay, settings
  <2> QED
    BY <1>13, <2>1, <1>tasks, PassesKeeps DEF StartInfo, settings
<1>14. ASSUME NEW c \in Conn, ReadInfo(c)
      PROVE  AcceptedInv'
  <2>1. Passes(c)
    BY <1>14, <1>tasks, <1>types
       DEF ReadInfo, Passes, Goto, OnTheirWay, Return, settings
  <2> QED
    BY <1>14, <2>1, <1>tasks, PassesKeeps DEF ReadInfo, settings
<1>15. ASSUME NEW c \in Conn, StartSnapshot(c)
      PROVE  AcceptedInv'
  <2>1. Passes(c)
    BY <1>15, <1>tasks, <1>types
       DEF StartSnapshot, Passes, Goto, OnTheirWay, settings
  <2> QED
    BY <1>15, <2>1, <1>tasks, PassesKeeps DEF StartSnapshot, settings
<1>16. ASSUME NEW c \in Conn, SnapshotFiles(c)
      PROVE  AcceptedInv'
  <2>1. Passes(c)
    BY <1>16, <1>tasks, <1>types
       DEF SnapshotFiles, Passes, Goto, OnTheirWay, Return, settings
  <2> QED
    BY <1>16, <2>1, <1>tasks, PassesKeeps DEF SnapshotFiles, settings
<1>17. ASSUME NEW c \in Conn, SnapshotDevices(c)
      PROVE  AcceptedInv'
  <2>1. Passes(c)
    BY <1>17, <1>tasks, <1>types
       DEF SnapshotDevices, Passes, Goto, OnTheirWay, settings
  <2> QED
    BY <1>17, <2>1, <1>tasks, PassesKeeps DEF SnapshotDevices, settings
<1>18. ASSUME NEW c \in Conn, SnapshotConfig(c)
      PROVE  AcceptedInv'
  <2>1. Passes(c)
    BY <1>18, <1>tasks, <1>types
       DEF SnapshotConfig, Passes, Goto, OnTheirWay, settings
  <2> QED
    BY <1>18, <2>1, <1>tasks, PassesKeeps DEF SnapshotConfig, settings
<1>19. ASSUME NEW c \in Conn, EndSnapshot(c)
      PROVE  AcceptedInv'
  <2>1. Passes(c)
    BY <1>19, <1>tasks, <1>types
       DEF EndSnapshot, Passes, Goto, OnTheirWay, Return, settings
  <2> QED
    BY <1>19, <2>1, <1>tasks, PassesKeeps DEF EndSnapshot, settings
<1>20. ASSUME NEW c \in Conn, StartCleanup(c)
      PROVE  AcceptedInv'
  <2>1. Passes(c)
    BY <1>20, <1>tasks, <1>types
       DEF StartCleanup, Passes, Goto, OnTheirWay, settings
  <2> QED
    BY <1>20, <2>1, <1>tasks, PassesKeeps DEF StartCleanup, settings
<1>21. ASSUME NEW c \in Conn, CleanupControllers(c)
      PROVE  AcceptedInv'
  <2>1. Passes(c)
    BY <1>21, <1>tasks, <1>types
       DEF CleanupControllers, Passes, Goto, OnTheirWay, settings
  <2> QED
    BY <1>21, <2>1, <1>tasks, PassesKeeps DEF CleanupControllers, settings
<1>22. ASSUME NEW c \in Conn, CleanupStart(c)
      PROVE  AcceptedInv'
  <2>1. Passes(c)
    BY <1>22, <1>tasks, <1>types
       DEF CleanupStart, Passes, Goto, OnTheirWay, CleanupNext, settings
  <2> QED
    BY <1>22, <2>1, <1>tasks, PassesKeeps DEF CleanupStart, settings
<1>23. ASSUME NEW c \in Conn, CleanClocks(c)
      PROVE  AcceptedInv'
  <2>1. Passes(c)
    BY <1>23, <1>tasks, <1>types
       DEF CleanClocks, Passes, Goto, OnTheirWay, CleanupNext
  <2> QED
    BY <1>23, <2>1, <1>tasks, PassesKeeps DEF CleanClocks
<1>24. ASSUME NEW c \in Conn, CleanFan(c)
      PROVE  AcceptedInv'
  <2>1. Passes(c)
    BY <1>24, <1>tasks, <1>types
       DEF CleanFan, Passes, Goto, OnTheirWay, Apply, CleanupNext
  <2> QED
    BY <1>24, <2>1, <1>tasks, PassesKeeps DEF CleanFan
<1>25. ASSUME NEW c \in Conn, ClearConfig(c)
      PROVE  AcceptedInv'
  <2>1. ConfigAccepted(config') /\ ConfigAccepted(file')
    BY <1>25 DEF ClearConfig, Save, AcceptedInv, ConfigAccepted, Empty
  <2>2. Passes(c)
    BY <1>25, <1>tasks, <1>types
       DEF ClearConfig, Passes, Goto, Return, OnTheirWay
  <2> QED
    BY <1>25, <1>tasks, <1>apart, <2>1, <2>2
       DEF Passes, AcceptedInv, Accepted, OnTheirWay, ConfigAccepted, Task,
           Listener
<1>26. ASSUME NEW k \in Slot, SpawnedPoll(k)
      PROVE  AcceptedInv'
  BY <1>26, <1>tasks, <1>apart, <1>types
     DEF SpawnedPoll, settings, Goto, AcceptedInv, OnTheirWay, Accepted,
         ConfigAccepted
<1>27. ASSUME NEW k \in Slot, HoldController(k)
      PROVE  AcceptedInv'
  <2>1. CASE Passes(k)
    BY <1>27, <2>1, <1>tasks, PassesKeeps DEF HoldController, settings
  <2>2. CASE Goto(k, "confirm_wait") /\ UNCHANGED loc
    BY <1>27, <2>2, <1>tasks, <1>apart, <1>types
       DEF HoldController, settings, Goto, AcceptedInv, OnTheirWay, Accepted,
           ConfigAccepted
  <2> QED
    BY <1>27, <2>1, <2>2, <1>tasks, <1>types
       DEF HoldController, Passes, Goto, OnTheirWay
<1>28. ASSUME NEW k \in Slot, TimerExpires(k)
      PROVE  AcceptedInv'
  <2>1. Passes(k)
    BY <1>28, <1>tasks, <1>types
       DEF TimerExpires, Passes, Goto, OnTheirWay, settings
  <2> QED
    BY <1>28, <2>1, <1>tasks, PassesKeeps DEF TimerExpires, settings
<1>29. ASSUME NEW k \in Slot, ReceiveConfirm(k)
      PROVE  AcceptedInv'
  BY <1>29, <1>tasks, <1>apart, <1>types
     DEF ReceiveConfirm, settings, Goto, AcceptedInv, OnTheirWay, Accepted,
         ConfigAccepted
<1>30. ASSUME NEW k \in Slot, ReceiveRevert(k)
      PROVE  AcceptedInv'
  <2>1. Passes(k)
    BY <1>30, <1>tasks, <1>types
       DEF ReceiveRevert, Passes, Goto, OnTheirWay, settings
  <2> QED
    BY <1>30, <2>1, <1>tasks, PassesKeeps DEF ReceiveRevert, settings
<1>31. ASSUME NEW k \in Slot, SaveConfirmed(k)
      PROVE  AcceptedInv'
  <2>1. Accepted(loc[k].new)
    BY <1>31 DEF SaveConfirmed, AcceptedInv, OnTheirWay
  <2>2. ConfigAccepted(config') /\ ConfigAccepted(file')
    BY <1>31, <1>tasks, <2>1, InsertAccepted, LocalFields
       DEF SaveConfirmed, Save, TypeOK, AcceptedInv, ConfigAccepted
  <2>3. Passes(k)
    BY <1>31, <1>tasks, <1>types
       DEF SaveConfirmed, EndConfirm, Passes, Goto, OnTheirWay
  <2> QED
    BY <1>31, <1>tasks, <1>apart, <2>2, <2>3
       DEF Passes, AcceptedInv, Accepted, OnTheirWay, ConfigAccepted, Task,
           Listener
<1>32. ASSUME NEW t \in Task, UndoClocks(t)
      PROVE  AcceptedInv'
  <2>1. Passes(t)
    BY <1>32, <1>tasks, <1>types
       DEF UndoClocks, Passes, Goto, OnTheirWay, Apply, Undone, FailEdit,
           EndConfirm, Return
  <2> QED
    BY <1>32, <2>1, <1>tasks, PassesKeeps DEF UndoClocks
<1>33. ASSUME NEW t \in Task, UndoFan(t)
      PROVE  AcceptedInv'
  <2>1. Passes(t)
    BY <1>33, <1>tasks, <1>types
       DEF UndoFan, Passes, Goto, OnTheirWay, Apply, Undone, FailEdit,
           EndConfirm, Return
  <2> QED
    BY <1>33, <2>1, <1>tasks, PassesKeeps DEF UndoFan
<1>34. ASSUME StartReload
      PROVE  AcceptedInv'
  <2>1. Passes(Reloader)
    BY <1>34, <1>listeners, <1>types
       DEF StartReload, Passes, Goto, OnTheirWay, settings
  <2> QED
    BY <1>34, <2>1, <1>listeners, PassesKeeps DEF StartReload, settings
<1>35. ASSUME ReplaceControllers
      PROVE  AcceptedInv'
  <2>1. Passes(Reloader)
    BY <1>35, <1>listeners, <1>types
       DEF ReplaceControllers, Passes, Goto, OnTheirWay, ApplyCurrentConfig
  <2> QED
    BY <1>35, <2>1, <1>listeners, PassesKeeps DEF ReplaceControllers
<1>36. ASSUME StartResume
      PROVE  AcceptedInv'
  <2>1. Passes(Resumer)
    BY <1>36, <1>listeners, <1>types
       DEF StartResume, Passes, Goto, OnTheirWay, ApplyCurrentConfig, settings
  <2> QED
    BY <1>36, <2>1, <1>listeners, PassesKeeps DEF StartResume, settings
<1>37. ASSUME StartFileChange
      PROVE  AcceptedInv'
  BY <1>37 DEF StartFileChange
<1>38. ASSUME ReplaceConfig
      PROVE  AcceptedInv'
  BY <1>38 DEF ReplaceConfig, AcceptedInv
<1>39. ASSUME NEW t \in Listener, ApplyControllers(t)
      PROVE  AcceptedInv'
  <2>1. Passes(t)
    BY <1>39, <1>tasks, <1>types
       DEF ApplyControllers, Passes, Goto, OnTheirWay, settings
  <2> QED
    BY <1>39, <2>1, <1>tasks, PassesKeeps DEF ApplyControllers, settings
<1>40. ASSUME NEW t \in Listener, ApplyStart(t)
      PROVE  AcceptedInv'
  <2>1. Passes(t)
    BY <1>40, <1>tasks, <1>types
       DEF ApplyStart, Passes, Goto, OnTheirWay, ApplyNext, Return, settings
  <2> QED
    BY <1>40, <2>1, <1>tasks, PassesKeeps DEF ApplyStart, settings
<1>41. ASSUME NEW t \in Listener, ApplyClocks(t)
      PROVE  AcceptedInv'
  <2>1. Passes(t)
    BY <1>41, <1>tasks, <1>types
       DEF ApplyClocks, Passes, Goto, OnTheirWay, ApplyNext, Apply, Return
  <2> QED
    BY <1>41, <2>1, <1>tasks, PassesKeeps DEF ApplyClocks
<1>42. ASSUME NEW t \in Listener, ApplyFan(t)
      PROVE  AcceptedInv'
  <2>1. Passes(t)
    BY <1>42, <1>tasks, <1>types
       DEF ApplyFan, Passes, Goto, OnTheirWay, ApplyNext, Apply, Return
  <2> QED
    BY <1>42, <2>1, <1>tasks, PassesKeeps DEF ApplyFan
<1> QED
  BY <1>1, <1>2, <1>3, <1>4, <1>5, <1>6, <1>7, <1>8, <1>9, <1>10, <1>11,
     <1>12, <1>13, <1>14, <1>15, <1>16, <1>17, <1>18, <1>19, <1>20, <1>21,
     <1>22, <1>23, <1>24, <1>25, <1>26, <1>27, <1>28, <1>29, <1>30, <1>31,
     <1>32, <1>33, <1>34, <1>35, <1>36, <1>37, <1>38, <1>39, <1>40, <1>41,
     <1>42, <1>tasks
     DEF Next, Arrive, Serve, ServeEdit, ServeRead, ServeClear, Decide, Listen,
         Event,
         Listener

\* The daemon starts with settings the hardware has accepted.
LEMMA AcceptedInit == Init => AcceptedInv
<1> SUFFICES ASSUME Init
             PROVE  AcceptedInv
  OBVIOUS
<1>1. PICK S \in SUBSET Gpu : config \in [S -> [Field -> Val \ Bad]]
  BY DEF Init
<1>2. ConfigAccepted(config) /\ ConfigAccepted(file)
  BY <1>1 DEF Init, ConfigAccepted, Accepted
<1>3. /\ \A t \in Task : pc[t] \in {"free", "idle"}
      /\ Conn \subseteq Task /\ Slot \subseteq Task /\ FileWatcher \in Task
  BY DEF Init, Task, Listener
<1> QED
  BY <1>2, <1>3 DEF AcceptedInv, OnTheirWay

\* Settings the hardware refuses never reach the configuration or the file, as
\* long as the user does not write them there.
THEOREM SavedIsSafe == Spec => []SavedIsAccepted
<1>1. CASE "file" \in Ops
  <2>1. SavedIsAccepted
    BY <1>1 DEF SavedIsAccepted
  <2> QED
    BY <2>1, PTL
<1>2. CASE "file" \notin Ops
  <2>1. TypeOK /\ AcceptedInv /\ [Next]_vars => AcceptedInv'
    <3>1. ASSUME AcceptedInv, UNCHANGED vars
          PROVE  AcceptedInv'
      BY <3>1 DEF vars, AcceptedInv, ConfigAccepted, Accepted
    <3> QED
      BY <3>1, <1>2, AcceptedStep
  <2>2. AcceptedInv => SavedIsAccepted
    BY DEF AcceptedInv, ConfigAccepted, SavedIsAccepted
  <2> QED
    BY <2>1, <2>2, AcceptedInit, TypeCorrect, PTL DEF Spec
<1> QED
  BY <1>1, <1>2

-----------------------------------------------------------------------------
(***************************************************************************)
(* The locks of the daemon do what they are for: the maps of GPUs and of   *)
(* settings do not change under a task that uses them, for any number of   *)
(* tasks and for queues of any length.                                     *)
(***************************************************************************)

(***************************************************************************)
(* ControllersStay is not inductive: it does not say why the maps cannot   *)
(* change.  They cannot because a task that uses them has a guard, and     *)
(* because whoever replaces them has asked to write.                       *)
(***************************************************************************)
UsesControllers == {"edit_fan", "undo", "undo_fan", "confirm_wait", "save_cfg",
  "clean", "clean_fan", "apply", "apply_fan"}
UsesConfig == {"apply_gpu", "apply", "apply_fan"}
Watched == UsesControllers \cup UsesConfig
  \cup {"reload_gpu", "clear_cfg", "file_cfg"}

\* What a task t at the place l has asked of the locks.
Guarded(t, l) ==
  /\ l \in UsesControllers => Holds(gq, t)
  /\ l \in UsesConfig => Holds(cq, t)
  /\ l = "reload_gpu" => WantsToWrite(gq, t)
  /\ l \in {"clear_cfg", "file_cfg"} => WantsToWrite(cq, t)

\* What a task at the place l, with the locals v, finds in the maps.
InMaps(l, v) ==
  /\ l \in {"edit_fan", "undo", "undo_fan", "confirm_wait", "save_cfg",
            "clean_fan", "apply_fan"} => v.gpu \in present
  /\ l \in {"clean", "clean_fan", "apply", "apply_fan"} =>
       v.todo # {} /\ v.todo \subseteq present
  /\ l \in {"apply", "apply_fan"} => v.todo \subseteq DOMAIN config

Secure(t) == Guarded(t, pc[t]) /\ InMaps(pc[t], loc[t])

GuardInv == \A t \in Task : Secure(t)

-----------------------------------------------------------------------------
(***************************************************************************)
(* A step takes nothing from the tasks outside S.                          *)
(***************************************************************************)
Keeps(q, r, S) == \A u \in Task \ S :
  /\ Holds(q, u) => Holds(r, u)
  /\ WantsToWrite(q, u) => WantsToWrite(r, u)

Moves(S) ==
  /\ \A u \in Task \ S : pc'[u] = pc[u] /\ loc'[u] = loc[u]
  /\ Keeps(gq, gq', S) /\ Keeps(cq, cq', S)
  /\ present' = present /\ DOMAIN config \subseteq DOMAIN config'

\* A lock that is not touched.
LEMMA SameKeeps == \A q, S : Keeps(q, q, S)
  BY DEF Keeps

\* Two uses of a lock in one step.
LEMMA KeepsTwice ==
  ASSUME NEW q, NEW r, NEW s, NEW S, Keeps(q, r, S), Keeps(r, s, S)
  PROVE  Keeps(q, s, S)
  BY DEF Keeps

\* A task that asks for a lock.
LEMMA RequestKeeps ==
  ASSUME NEW q \in Seq(LockRequests(Task)), NEW t \in Task, NEW m \in {"r", "w"}
  PROVE  /\ Keeps(q, Request(q, t, m), {t})
         /\ m = "w" => WantsToWrite(Request(q, t, m), t)
<1> DEFINE r == Request(q, t, m)
<1>1. /\ DOMAIN q = 1..Len(q) /\ Len(q) \in Nat
      /\ DOMAIN r = 1..(Len(q) + 1)
      /\ \A i \in 1..Len(q) : r[i] = q[i]
      /\ r[Len(q) + 1] = LockRequest(t, m)
  BY DEF Request
<1> HIDE DEF r
<1>2. ASSUME NEW u \in Task \ {t}, Holds(q, u)
      PROVE  Holds(r, u)
  BY <1>2, RequestKeepsOthers DEF r
<1>3. ASSUME NEW u \in Task \ {t}, WantsToWrite(q, u)
      PROVE  WantsToWrite(r, u)
  BY <1>1, <1>3 DEF WantsToWrite, RequestsOf
<1>4. m = "w" => WantsToWrite(r, t)
  BY <1>1 DEF WantsToWrite, RequestsOf, LockRequest
<1> QED
  BY <1>2, <1>3, <1>4 DEF Keeps, r

\* A task that drops a guard.
LEMMA ReleaseKeeps ==
  ASSUME NEW q \in Seq(LockRequests(Task)), NEW t \in Task
  PROVE  Keeps(q, Release(q, t), {t})
<1>1. ASSUME NEW u \in Task \ {t}, Holds(q, u)
      PROVE  Holds(Release(q, t), u)
  BY <1>1, ReleaseKeepsOthers
<1>2. ASSUME NEW u \in Task \ {t}, WantsToWrite(q, u)
      PROVE  WantsToWrite(Release(q, t), u)
  <2>1. CASE RequestsOf(q, t) = {}
    BY <1>2, <2>1 DEF Release
  <2>2. CASE RequestsOf(q, t) # {}
    <3> DEFINE i == CHOOSE j \in RequestsOf(q, t) : TRUE
               r == RemoveAt(q, i)
    <3>1. i \in DOMAIN q /\ q[i].task = t /\ Release(q, t) = r
      BY <2>2 DEF RequestsOf, Release
    <3> HIDE DEF i
    <3>2. /\ DOMAIN r = 1..(Len(q) - 1)
          /\ \A j \in 1..(Len(q) - 1) : r[j] = IF j < i THEN q[j] ELSE q[j + 1]
      BY <3>1, RemoveAtProperties
    <3> HIDE DEF r
    <3>3. DOMAIN q = 1..Len(q) /\ Len(q) \in Nat
      OBVIOUS
    <3>4. PICK j \in DOMAIN q : q[j].task = u /\ q[j].mode = "w"
      BY <1>2 DEF WantsToWrite, RequestsOf
    <3>5. j # i
      BY <3>1, <3>4
    <3>6. CASE j < i
      BY <3>1, <3>2, <3>3, <3>4, <3>6 DEF WantsToWrite, RequestsOf
    <3>7. CASE j > i
      <4>1. j - 1 \in DOMAIN r /\ r[j - 1] = q[j]
        BY <3>1, <3>2, <3>3, <3>7
      <4> QED
        BY <3>1, <3>4, <4>1 DEF WantsToWrite, RequestsOf
    <3> QED
      BY <3>1, <3>3, <3>5, <3>6, <3>7
  <2> QED
    BY <2>1, <2>2
<1> QED
  BY <1>1, <1>2 DEF Keeps

\* A task at a place where it relies on nothing is secure.
LEMMA UnwatchedIsSecure ==
  ASSUME NEW t \in Task, pc'[t] \notin Watched
  PROVE  Secure(t)'
  BY DEF Secure, Guarded, InMaps, Watched, UsesControllers, UsesConfig

\* If a step only moves tasks of S, the others stay secure.
LEMMA OthersStaySecure ==
  ASSUME GuardInv, NEW S, Moves(S), \A t \in S \cap Task : Secure(t)'
  PROVE  GuardInv'
<1>1. ASSUME NEW u \in Task \ S
      PROVE  Secure(u)'
  <2>1. Secure(u) /\ pc'[u] = pc[u] /\ loc'[u] = loc[u]
    BY DEF GuardInv, Moves
  <2>2. Guarded(u, pc[u])'
    BY <2>1 DEF Secure, Guarded, Moves, Keeps
  <2>3. InMaps(pc[u], loc[u])'
    BY <2>1 DEF Secure, InMaps, Moves
  <2> QED
    BY <2>2, <2>3 DEF Secure
<1> QED
  BY <1>1 DEF GuardInv

\* What one task does with the locks in one step takes nothing from the others.
LEMMA LockSteps ==
  ASSUME TypeOK, NEW t \in Task
  PROVE  /\ Keeps(gq, gq, {t}) /\ Keeps(cq, cq, {t})
         /\ Keeps(gq, Request(gq, t, "r"), {t}) /\ Keeps(gq, Request(gq, t, "w"), {t})
         /\ Keeps(cq, Request(cq, t, "r"), {t}) /\ Keeps(cq, Request(cq, t, "w"), {t})
         /\ Keeps(gq, Release(gq, t), {t}) /\ Keeps(cq, Release(cq, t), {t})
         /\ Keeps(gq, Release(Release(gq, t), t), {t})
         /\ Keeps(cq, Request(Release(cq, t), t, "r"), {t})
         /\ WantsToWrite(Request(gq, t, "w"), t)
         /\ WantsToWrite(Request(cq, t, "w"), t)
<1>1. gq \in Seq(LockRequests(Task)) /\ cq \in Seq(LockRequests(Task))
  BY DEF TypeOK
<1>2. Release(gq, t) \in Seq(LockRequests(Task)) /\ Release(cq, t) \in Seq(LockRequests(Task))
  BY <1>1, ReleaseType
<1>3. Keeps(gq, Request(gq, t, "r"), {t}) /\ Keeps(cq, Request(cq, t, "r"), {t})
  BY <1>1, RequestKeeps
<1>4. /\ Keeps(gq, Request(gq, t, "w"), {t}) /\ WantsToWrite(Request(gq, t, "w"), t)
      /\ Keeps(cq, Request(cq, t, "w"), {t}) /\ WantsToWrite(Request(cq, t, "w"), t)
  BY <1>1, RequestKeeps
<1>5. Keeps(gq, Release(gq, t), {t}) /\ Keeps(cq, Release(cq, t), {t})
  BY <1>1, ReleaseKeeps
<1>6. Keeps(Release(gq, t), Release(Release(gq, t), t), {t})
  BY <1>2, ReleaseKeeps
<1>7. Keeps(Release(cq, t), Request(Release(cq, t), t, "r"), {t})
  BY <1>2, RequestKeeps
<1> QED
  BY <1>3, <1>4, <1>5, <1>6, <1>7, KeepsTwice, SameKeeps

\* Setting the GPU or the GPUs left to do of a task leaves the rest alone.
LEMMA TodoFields ==
  ASSUME loc \in [Task -> Local], NEW t \in Task, NEW x
  PROVE  /\ [loc EXCEPT ![t].todo = x][t].todo = x
         /\ [loc EXCEPT ![t].todo = x][t].gpu = loc[t].gpu
         /\ [loc EXCEPT ![t].gpu = x][t].gpu = x
         /\ [loc EXCEPT ![t].gpu = x][t].todo = loc[t].todo
  BY DEF Local

\* What the loops of cleanup and apply_current_config leave for the next turn.
LEMMA CleanupNextSecure ==
  ASSUME pc \in [Task -> Labels], loc \in [Task -> Local], TypeOK,
         NEW c \in Task, NEW todo \in SUBSET present,
         Holds(gq, c), CleanupNext(c, todo), present' = present
  PROVE  Secure(c)'
<1>1. CASE todo # {}
  <2>1. /\ pc'[c] = "clean" /\ gq' = gq
        /\ loc'[c].todo = todo
    BY <1>1, TodoFields DEF CleanupNext, Goto
  <2> QED
    BY <1>1, <2>1 DEF Secure, Guarded, InMaps, UsesControllers, UsesConfig
<1>2. CASE todo = {}
  <2>1. pc'[c] = "clear_cfg" /\ cq' = Request(cq, c, "w")
    BY <1>2 DEF CleanupNext, Goto
  <2>2. WantsToWrite(cq', c)
    BY <2>1, LockSteps
  <2> QED
    BY <2>1, <2>2 DEF Secure, Guarded, InMaps, UsesControllers, UsesConfig
<1> QED
  BY <1>1, <1>2

\* The same for the GPUs that have both an entry and a controller.
LEMMA ApplyNextSecure ==
  ASSUME pc \in [Task -> Labels], loc \in [Task -> Local],
         NEW t \in Task, NEW todo \in SUBSET (DOMAIN config \cap present),
         Holds(gq, t), Holds(cq, t), ApplyNext(t, todo),
         UNCHANGED <<present, config>>
  PROVE  Secure(t)'
<1>1. CASE todo # {}
  <2>1. /\ Goto(t, "apply") /\ loc' = [loc EXCEPT ![t].todo = todo]
        /\ UNCHANGED <<cq, gq>>
    BY <1>1 DEF ApplyNext
  <2>2. pc'[t] = "apply" /\ loc'[t].todo = todo
    BY <2>1, TodoFields DEF Goto
  <2>3. Holds(gq, t)' /\ Holds(cq, t)'
    BY <2>1
  <2> QED
    BY <1>1, <2>2, <2>3 DEF Secure, Guarded, InMaps, UsesControllers, UsesConfig
<1>2. CASE todo = {}
  <2>1. pc'[t] = "idle"
    BY <1>2 DEF ApplyNext, Return, Goto
  <2> QED
    BY <2>1, UnwatchedIsSecure DEF Watched, UsesControllers, UsesConfig
<1> QED
  BY <1>1, <1>2

-----------------------------------------------------------------------------
\* Every action keeps the tasks secure.
LEMMA GuardStep ==
  ASSUME TypeOK, GuardInv, Next
  PROVE  GuardInv'
<1>tasks. Conn \subseteq Task /\ Slot \subseteq Task /\ Listener \subseteq Task
  BY DEF Task
<1>listeners. {Reloader, Resumer, FileWatcher} \subseteq Task
  BY DEF Task, Listener
<1>types. pc \in [Task -> Labels] /\ loc \in [Task -> Local]
  BY DEF TypeOK
<1>1. ASSUME NEW c \in Conn, StartEdit(c)
      PROVE  GuardInv'
  <2>1. Moves({c})
    BY <1>1, <1>tasks, <1>types, LockSteps
       DEF StartEdit, Goto, Select, settings, Moves
  <2>2. pc'[c] \notin Watched
    BY <1>1, <1>tasks, <1>types
       DEF StartEdit, Goto, Select, settings, Watched, UsesControllers,
           UsesConfig
  <2> QED
    BY <2>1, <2>2, <1>tasks, UnwatchedIsSecure, OthersStaySecure
<1>2. ASSUME NEW c \in Conn, StartFan(c)
      PROVE  GuardInv'
  <2>1. Moves({c})
    BY <1>2, <1>tasks, <1>types, LockSteps
       DEF StartFan, Goto, Select, settings, Moves
  <2>2. pc'[c] \notin Watched
    BY <1>2, <1>tasks, <1>types
       DEF StartFan, Goto, Select, settings, Watched, UsesControllers,
           UsesConfig
  <2> QED
    BY <2>1, <2>2, <1>tasks, UnwatchedIsSecure, OthersStaySecure
<1>3. ASSUME NEW c \in Conn, FanEntry(c)
      PROVE  GuardInv'
  <2>1. Moves({c})
    BY <1>3, <1>tasks, <1>types, LockSteps
       DEF FanEntry, EnterEdit, Goto, Return, Insert, Moves
  <2>2. pc'[c] \notin Watched
    BY <1>3, <1>tasks, <1>types
       DEF FanEntry, EnterEdit, Goto, Return, Insert, Watched, UsesControllers,
           UsesConfig
  <2> QED
    BY <2>1, <2>2, <1>tasks, UnwatchedIsSecure, OthersStaySecure
<1>4. ASSUME NEW c \in Conn, StartReset(c)
      PROVE  GuardInv'
  <2>1. Moves({c})
    BY <1>4, <1>tasks, <1>types, LockSteps
       DEF StartReset, Goto, Select, settings, Moves
  <2>2. pc'[c] \notin Watched
    BY <1>4, <1>tasks, <1>types
       DEF StartReset, Goto, Select, settings, Watched, UsesControllers,
           UsesConfig
  <2> QED
    BY <2>1, <2>2, <1>tasks, UnwatchedIsSecure, OthersStaySecure
<1>5. ASSUME NEW c \in Conn, ResetHardware(c)
      PROVE  GuardInv'
  <2>1. Moves({c})
    BY <1>5, <1>tasks, <1>types, LockSteps
       DEF ResetHardware, EnterEdit, Goto, Return, Moves
  <2>2. pc'[c] \notin Watched
    BY <1>5, <1>tasks, <1>types
       DEF ResetHardware, EnterEdit, Goto, Return, Watched, UsesControllers,
           UsesConfig
  <2> QED
    BY <2>1, <2>2, <1>tasks, UnwatchedIsSecure, OthersStaySecure
<1>6. ASSUME NEW c \in Conn, ReadConfig(c)
      PROVE  GuardInv'
  <2>1. Moves({c})
    BY <1>6, <1>tasks, <1>types, LockSteps
       DEF ReadConfig, Goto, settings, Moves
  <2>2. pc'[c] \notin Watched
    BY <1>6, <1>tasks, <1>types
       DEF ReadConfig, Goto, settings, Watched, UsesControllers, UsesConfig
  <2> QED
    BY <2>1, <2>2, <1>tasks, UnwatchedIsSecure, OthersStaySecure
<1>7. ASSUME NEW c \in Conn, EditClocks(c)
      PROVE  GuardInv'
  <2>1. Moves({c})
    BY <1>7, <1>tasks, <1>types, LockSteps
       DEF EditClocks, Apply, Goto, Return, Moves
  <2>2. Secure(c)'
    BY <1>7, <1>tasks, <1>types, LockSteps
       DEF EditClocks, Apply, Goto, Return, Secure, Guarded, InMaps, GuardInv,
           Watched, UsesControllers, UsesConfig
  <2> QED
    BY <2>1, <2>2, <1>tasks, OthersStaySecure
<1>8. ASSUME NEW c \in Conn, EditFan(c)
      PROVE  GuardInv'
  <2>1. CASE Goto(c, "undo") /\ UNCHANGED <<gq, loc>>
    <3>1. Moves({c})
      BY <1>8, <2>1, <1>tasks, <1>types, LockSteps DEF EditFan, Goto, Moves
    <3>2. Secure(c)'
      BY <1>8, <2>1, <1>tasks, <1>types
         DEF EditFan, Goto, Secure, Guarded, InMaps, GuardInv, UsesControllers,
             UsesConfig
    <3> QED
      BY <3>1, <3>2, <1>tasks, OthersStaySecure
  <2>2. CASE AwaitConfirm(c)
    <3>1. PICK k \in Slot :
            /\ pc' = [pc EXCEPT ![c] = "idle", ![k] = "spawned"]
            /\ loc' = [loc EXCEPT ![k] = loc[c], ![c] = NoLocal]
            /\ gq' = Release(gq, c)
      BY <2>2 DEF AwaitConfirm, FreeSlots
    <3>2. \A u \in Task \ {c, k} : pc'[u] = pc[u] /\ loc'[u] = loc[u]
      BY <3>1, <1>tasks, <1>types
    <3>3. Keeps(gq, gq', {c, k}) /\ Keeps(cq, cq', {c, k})
      BY <1>8, <3>1, <1>tasks, LockSteps DEF EditFan, Keeps
    <3>4. Moves({c, k})
      BY <1>8, <3>2, <3>3 DEF EditFan, Moves
    <3>5. pc'[c] \notin Watched /\ pc'[k] \notin Watched
      BY <3>1, <1>tasks, <1>types DEF Watched, UsesControllers, UsesConfig
    <3> QED
      BY <3>4, <3>5, <1>tasks, UnwatchedIsSecure, OthersStaySecure
  <2> QED
    BY <1>8, <2>1, <2>2 DEF EditFan, Apply
<1>9. ASSUME NEW c \in Conn, ConfirmPending(c)
      PROVE  GuardInv'
  BY <1>9 DEF ConfirmPending, settings, locks, GuardInv, Secure, Guarded, InMaps
<1>10. ASSUME NEW c \in Conn, StartStats(c)
      PROVE  GuardInv'
  <2>1. Moves({c})
    BY <1>10, <1>tasks, <1>types, LockSteps
       DEF StartStats, Goto, settings, Moves
  <2>2. pc'[c] \notin Watched
    BY <1>10, <1>tasks, <1>types
       DEF StartStats, Goto, settings, Watched, UsesControllers, UsesConfig
  <2> QED
    BY <2>1, <2>2, <1>tasks, UnwatchedIsSecure, OthersStaySecure
<1>11. ASSUME NEW c \in Conn, StatsController(c)
      PROVE  GuardInv'
  <2>1. Moves({c})
    BY <1>11, <1>tasks, <1>types, LockSteps
       DEF StatsController, Goto, settings, Moves
  <2>2. pc'[c] \notin Watched
    BY <1>11, <1>tasks, <1>types
       DEF StatsController, Goto, settings, Watched, UsesControllers, UsesConfig
  <2> QED
    BY <2>1, <2>2, <1>tasks, UnwatchedIsSecure, OthersStaySecure
<1>12. ASSUME NEW c \in Conn, ReadStats(c)
      PROVE  GuardInv'
  <2>1. Moves({c})
    BY <1>12, <1>tasks, <1>types, LockSteps
       DEF ReadStats, Goto, Return, settings, Moves
  <2>2. pc'[c] \notin Watched
    BY <1>12, <1>tasks, <1>types
       DEF ReadStats, Goto, Return, settings, Watched, UsesControllers,
           UsesConfig
  <2> QED
    BY <2>1, <2>2, <1>tasks, UnwatchedIsSecure, OthersStaySecure
<1>13. ASSUME NEW c \in Conn, StartInfo(c)
      PROVE  GuardInv'
  <2>1. Moves({c})
    BY <1>13, <1>tasks, <1>types, LockSteps
       DEF StartInfo, Goto, settings, Moves
  <2>2. pc'[c] \notin Watched
    BY <1>13, <1>tasks, <1>types
       DEF StartInfo, Goto, settings, Watched, UsesControllers, UsesConfig
  <2> QED
    BY <2>1, <2>2, <1>tasks, UnwatchedIsSecure, OthersStaySecure
<1>14. ASSUME NEW c \in Conn, ReadInfo(c)
      PROVE  GuardInv'
  <2>1. Moves({c})
    BY <1>14, <1>tasks, <1>types, LockSteps
       DEF ReadInfo, Goto, Return, settings, Moves
  <2>2. pc'[c] \notin Watched
    BY <1>14, <1>tasks, <1>types
       DEF ReadInfo, Goto, Return, settings, Watched, UsesControllers,
           UsesConfig
  <2> QED
    BY <2>1, <2>2, <1>tasks, UnwatchedIsSecure, OthersStaySecure
<1>15. ASSUME NEW c \in Conn, StartSnapshot(c)
      PROVE  GuardInv'
  <2>1. Moves({c})
    BY <1>15, <1>tasks, <1>types, LockSteps
       DEF StartSnapshot, Goto, settings, Moves
  <2>2. pc'[c] \notin Watched
    BY <1>15, <1>tasks, <1>types
       DEF StartSnapshot, Goto, settings, Watched, UsesControllers, UsesConfig
  <2> QED
    BY <2>1, <2>2, <1>tasks, UnwatchedIsSecure, OthersStaySecure
<1>16. ASSUME NEW c \in Conn, SnapshotFiles(c)
      PROVE  GuardInv'
  <2>1. Moves({c})
    BY <1>16, <1>tasks, <1>types, LockSteps
       DEF SnapshotFiles, Goto, Return, settings, Moves
  <2>2. pc'[c] \notin Watched
    BY <1>16, <1>tasks, <1>types
       DEF SnapshotFiles, Goto, Return, settings, Watched, UsesControllers,
           UsesConfig
  <2> QED
    BY <2>1, <2>2, <1>tasks, UnwatchedIsSecure, OthersStaySecure
<1>17. ASSUME NEW c \in Conn, SnapshotDevices(c)
      PROVE  GuardInv'
  <2>1. Moves({c})
    BY <1>17, <1>tasks, <1>types, LockSteps
       DEF SnapshotDevices, Goto, settings, Moves
  <2>2. pc'[c] \notin Watched
    BY <1>17, <1>tasks, <1>types
       DEF SnapshotDevices, Goto, settings, Watched, UsesControllers, UsesConfig
  <2> QED
    BY <2>1, <2>2, <1>tasks, UnwatchedIsSecure, OthersStaySecure
<1>18. ASSUME NEW c \in Conn, SnapshotConfig(c)
      PROVE  GuardInv'
  <2>1. Moves({c})
    BY <1>18, <1>tasks, <1>types, LockSteps
       DEF SnapshotConfig, Goto, settings, Moves
  <2>2. pc'[c] \notin Watched
    BY <1>18, <1>tasks, <1>types
       DEF SnapshotConfig, Goto, settings, Watched, UsesControllers, UsesConfig
  <2> QED
    BY <2>1, <2>2, <1>tasks, UnwatchedIsSecure, OthersStaySecure
<1>19. ASSUME NEW c \in Conn, EndSnapshot(c)
      PROVE  GuardInv'
  <2>1. Moves({c})
    BY <1>19, <1>tasks, <1>types, LockSteps
       DEF EndSnapshot, Goto, Return, settings, Moves
  <2>2. pc'[c] \notin Watched
    BY <1>19, <1>tasks, <1>types
       DEF EndSnapshot, Goto, Return, settings, Watched, UsesControllers,
           UsesConfig
  <2> QED
    BY <2>1, <2>2, <1>tasks, UnwatchedIsSecure, OthersStaySecure
<1>20. ASSUME NEW c \in Conn, StartCleanup(c)
      PROVE  GuardInv'
  <2>1. Moves({c})
    BY <1>20, <1>tasks, <1>types, LockSteps
       DEF StartCleanup, Goto, settings, Moves
  <2>2. pc'[c] \notin Watched
    BY <1>20, <1>tasks, <1>types
       DEF StartCleanup, Goto, settings, Watched, UsesControllers, UsesConfig
  <2> QED
    BY <2>1, <2>2, <1>tasks, UnwatchedIsSecure, OthersStaySecure
<1>21. ASSUME NEW c \in Conn, CleanupControllers(c)
      PROVE  GuardInv'
  <2>1. Moves({c})
    BY <1>21, <1>tasks, <1>types, LockSteps
       DEF CleanupControllers, Goto, settings, Moves
  <2>2. pc'[c] \notin Watched
    BY <1>21, <1>tasks, <1>types
       DEF CleanupControllers, Goto, settings, Watched, UsesControllers,
           UsesConfig
  <2> QED
    BY <2>1, <2>2, <1>tasks, UnwatchedIsSecure, OthersStaySecure
<1>22. ASSUME NEW c \in Conn, CleanupStart(c)
      PROVE  GuardInv'
  <2>1. Moves({c})
    BY <1>22, <1>tasks, <1>types, LockSteps
       DEF CleanupStart, CleanupNext, Goto, settings, Moves
  <2>2. Secure(c)'
    BY <1>22, <1>tasks, <1>types, CleanupNextSecure DEF CleanupStart, settings
  <2> QED
    BY <2>1, <2>2, <1>tasks, OthersStaySecure
<1>23. ASSUME NEW c \in Conn, CleanClocks(c)
      PROVE  GuardInv'
  <2>1. Moves({c})
    BY <1>23, <1>tasks, <1>types, LockSteps
       DEF CleanClocks, CleanupNext, Goto, locks, Moves
  <2>2. Secure(c)'
    <3>0. /\ Holds(gq, c) /\ present' = present
          /\ loc[c].todo # {} /\ loc[c].todo \subseteq present
      BY <1>23, <1>tasks
         DEF CleanClocks, GuardInv, Secure, Guarded, InMaps, UsesControllers
    <3>1. PICK g \in loc[c].todo :
            \/ /\ loc' = [loc EXCEPT ![c].gpu = g]
               /\ Goto(c, "clean_fan") /\ UNCHANGED locks
            \/ CleanupNext(c, loc[c].todo \ {g})
      BY <1>23 DEF CleanClocks
    <3>2. CASE CleanupNext(c, loc[c].todo \ {g})
      BY <3>0, <3>2, <1>tasks, <1>types, CleanupNextSecure
    <3>3. CASE /\ loc' = [loc EXCEPT ![c].gpu = g]
               /\ Goto(c, "clean_fan") /\ UNCHANGED locks
      <4>1. loc'[c].gpu = g /\ loc'[c].todo = loc[c].todo
        BY <3>3, <1>tasks, <1>types, TodoFields
      <4>2. pc'[c] = "clean_fan" /\ gq' = gq
        BY <3>3, <1>tasks, <1>types DEF Goto, locks
      <4> QED
        BY <3>0, <4>1, <4>2
           DEF Secure, Guarded, InMaps, UsesControllers, UsesConfig
    <3> QED
      BY <3>1, <3>2, <3>3
  <2> QED
    BY <2>1, <2>2, <1>tasks, OthersStaySecure
<1>24. ASSUME NEW c \in Conn, CleanFan(c)
      PROVE  GuardInv'
  <2>1. Moves({c})
    BY <1>24, <1>tasks, <1>types, LockSteps
       DEF CleanFan, CleanupNext, Goto, Apply, Moves
  <2>2. Secure(c)'
    <3>1. /\ Holds(gq, c) /\ present' = present
          /\ loc[c].todo \subseteq present
      BY <1>24, <1>tasks
         DEF CleanFan, GuardInv, Secure, Guarded, InMaps, UsesControllers
    <3>2. CleanupNext(c, loc[c].todo \ {loc[c].gpu})
      BY <1>24 DEF CleanFan, Apply
    <3> QED
      BY <3>1, <3>2, <1>tasks, <1>types, CleanupNextSecure
  <2> QED
    BY <2>1, <2>2, <1>tasks, OthersStaySecure
<1>25. ASSUME NEW c \in Conn, ClearConfig(c)
      PROVE  GuardInv'
  <2>1. \A u \in Task \ {c} : ~Holds(cq, u)
    BY <1>25, <1>tasks, WriterExcludesOthers
       DEF ClearConfig, GuardInv, Secure, Guarded, TypeOK
  <2>2. pc' = [pc EXCEPT ![c] = "idle"] /\ loc' = [loc EXCEPT ![c] = NoLocal]
    BY <1>25 DEF ClearConfig, Return, Goto
  <2>3. Keeps(cq, cq', {c}) /\ UNCHANGED <<gq, present>>
    BY <1>25, <1>tasks, LockSteps DEF ClearConfig
  <2>4. ASSUME NEW u \in Task \ {c}
        PROVE  Secure(u)'
    <3>1. Secure(u) /\ pc[u] \notin UsesConfig
      BY <2>1 DEF GuardInv, Secure, Guarded
    <3>2. pc'[u] = pc[u] /\ loc'[u] = loc[u]
      BY <2>2, <1>types
    <3> QED
      BY <2>3, <3>1, <3>2 DEF Secure, Guarded, InMaps, Keeps, UsesConfig
  <2>5. Secure(c)'
    BY <2>2, <1>tasks, <1>types, UnwatchedIsSecure
       DEF Watched, UsesControllers, UsesConfig
  <2> QED
    BY <2>4, <2>5 DEF GuardInv
<1>26. ASSUME NEW k \in Slot, SpawnedPoll(k)
      PROVE  GuardInv'
  <2>1. Moves({k})
    BY <1>26, <1>tasks, <1>types, LockSteps
       DEF SpawnedPoll, Goto, settings, Moves
  <2>2. pc'[k] \notin Watched
    BY <1>26, <1>tasks, <1>types
       DEF SpawnedPoll, Goto, settings, Watched, UsesControllers, UsesConfig
  <2> QED
    BY <2>1, <2>2, <1>tasks, UnwatchedIsSecure, OthersStaySecure
<1>27. ASSUME NEW k \in Slot, HoldController(k)
      PROVE  GuardInv'
  <2>1. Moves({k})
    BY <1>27, <1>tasks, <1>types, LockSteps
       DEF HoldController, Goto, settings, Moves
  <2>2. Secure(k)'
    BY <1>27, <1>tasks, <1>types, LockSteps
       DEF HoldController, Goto, settings, Secure, Guarded, InMaps, GuardInv,
           Watched, UsesControllers, UsesConfig
  <2> QED
    BY <2>1, <2>2, <1>tasks, OthersStaySecure
<1>28. ASSUME NEW k \in Slot, TimerExpires(k)
      PROVE  GuardInv'
  <2>1. Moves({k})
    BY <1>28, <1>tasks, <1>types, LockSteps
       DEF TimerExpires, Goto, settings, locks, Moves
  <2>2. Secure(k)'
    BY <1>28, <1>tasks, <1>types, LockSteps
       DEF TimerExpires, Goto, settings, locks, Secure, Guarded, InMaps,
           GuardInv, Watched, UsesControllers, UsesConfig
  <2> QED
    BY <2>1, <2>2, <1>tasks, OthersStaySecure
<1>29. ASSUME NEW k \in Slot, ReceiveConfirm(k)
      PROVE  GuardInv'
  <2>1. Moves({k})
    BY <1>29, <1>tasks, <1>types, LockSteps
       DEF ReceiveConfirm, Goto, settings, Moves
  <2>2. Secure(k)'
    BY <1>29, <1>tasks, <1>types, LockSteps
       DEF ReceiveConfirm, Goto, settings, Secure, Guarded, InMaps, GuardInv,
           Watched, UsesControllers, UsesConfig
  <2> QED
    BY <2>1, <2>2, <1>tasks, OthersStaySecure
<1>30. ASSUME NEW k \in Slot, ReceiveRevert(k)
      PROVE  GuardInv'
  <2>1. Moves({k})
    BY <1>30, <1>tasks, <1>types, LockSteps
       DEF ReceiveRevert, Goto, settings, locks, Moves
  <2>2. Secure(k)'
    BY <1>30, <1>tasks, <1>types, LockSteps
       DEF ReceiveRevert, Goto, settings, locks, Secure, Guarded, InMaps,
           GuardInv, Watched, UsesControllers, UsesConfig
  <2> QED
    BY <2>1, <2>2, <1>tasks, OthersStaySecure
<1>31. ASSUME NEW k \in Slot, SaveConfirmed(k)
      PROVE  GuardInv'
  <2>1. Moves({k})
    BY <1>31, <1>tasks, <1>types, LockSteps
       DEF SaveConfirmed, EndConfirm, Goto, Insert, Moves
  <2>2. pc'[k] \notin Watched
    BY <1>31, <1>tasks, <1>types
       DEF SaveConfirmed, EndConfirm, Goto, Insert, Watched, UsesControllers,
           UsesConfig
  <2> QED
    BY <2>1, <2>2, <1>tasks, UnwatchedIsSecure, OthersStaySecure
<1>32. ASSUME NEW t \in Task, UndoClocks(t)
      PROVE  GuardInv'
  <2>1. Moves({t})
    BY <1>32, <1>tasks, <1>types, LockSteps
       DEF UndoClocks, Apply, Undone, FailEdit, EndConfirm, Goto, Return, Moves
  <2>2. Secure(t)'
    BY <1>32, <1>tasks, <1>types, LockSteps
       DEF UndoClocks, Apply, Undone, FailEdit, EndConfirm, Goto, Return,
           Secure, Guarded, InMaps, GuardInv, Watched, UsesControllers,
           UsesConfig
  <2> QED
    BY <2>1, <2>2, <1>tasks, OthersStaySecure
<1>33. ASSUME NEW t \in Task, UndoFan(t)
      PROVE  GuardInv'
  <2>1. Moves({t})
    BY <1>33, <1>tasks, <1>types, LockSteps
       DEF UndoFan, Apply, Undone, FailEdit, EndConfirm, Goto, Return, Moves
  <2>2. pc'[t] \notin Watched
    BY <1>33, <1>tasks, <1>types
       DEF UndoFan, Apply, Undone, FailEdit, EndConfirm, Goto, Return, Watched,
           UsesControllers, UsesConfig
  <2> QED
    BY <2>1, <2>2, <1>tasks, UnwatchedIsSecure, OthersStaySecure
<1>34. ASSUME StartReload
      PROVE  GuardInv'
  <2>1. Moves({Reloader})
    BY <1>34, <1>listeners, <1>types, LockSteps
       DEF StartReload, Goto, settings, Moves
  <2>2. Secure(Reloader)'
    BY <1>34, <1>listeners, <1>types, LockSteps
       DEF StartReload, Goto, settings, Secure, Guarded, InMaps, GuardInv,
           Watched, UsesControllers, UsesConfig
  <2> QED
    BY <2>1, <2>2, <1>listeners, OthersStaySecure
<1>35. ASSUME ReplaceControllers
      PROVE  GuardInv'
  <2>1. \A u \in Task \ {Reloader} : ~Holds(gq, u)
    BY <1>35, <1>listeners, WriterExcludesOthers
       DEF ReplaceControllers, GuardInv, Secure, Guarded, TypeOK
  <2>2. pc' = [pc EXCEPT ![Reloader] = "apply_cfg"] /\ UNCHANGED <<loc, config>>
    BY <1>35 DEF ReplaceControllers, ApplyCurrentConfig, Goto
  <2>3. Keeps(gq, gq', {Reloader}) /\ Keeps(cq, cq', {Reloader})
    BY <1>35, <1>listeners, LockSteps DEF ReplaceControllers, ApplyCurrentConfig
  <2>4. ASSUME NEW u \in Task \ {Reloader}
        PROVE  Secure(u)'
    <3>1. Secure(u) /\ pc[u] \notin UsesControllers
      BY <2>1 DEF GuardInv, Secure, Guarded
    <3>2. pc'[u] = pc[u]
      BY <2>2, <1>types
    <3> QED
      BY <2>2, <2>3, <3>1, <3>2
         DEF Secure, Guarded, InMaps, Keeps, UsesControllers
  <2>5. Secure(Reloader)'
    BY <2>2, <1>listeners, <1>types, UnwatchedIsSecure
       DEF Watched, UsesControllers, UsesConfig
  <2> QED
    BY <2>4, <2>5 DEF GuardInv
<1>36. ASSUME StartResume
      PROVE  GuardInv'
  <2>1. Moves({Resumer})
    BY <1>36, <1>listeners, <1>types, LockSteps
       DEF StartResume, ApplyCurrentConfig, Goto, settings, Moves
  <2>2. pc'[Resumer] \notin Watched
    BY <1>36, <1>listeners, <1>types
       DEF StartResume, ApplyCurrentConfig, Goto, settings, Watched,
           UsesControllers, UsesConfig
  <2> QED
    BY <2>1, <2>2, <1>listeners, UnwatchedIsSecure, OthersStaySecure
<1>37. ASSUME StartFileChange
      PROVE  GuardInv'
  <2>1. Moves({FileWatcher})
    BY <1>37, <1>listeners, <1>types, LockSteps
       DEF StartFileChange, Goto, Moves
  <2>2. Secure(FileWatcher)'
    BY <1>37, <1>listeners, <1>types, LockSteps
       DEF StartFileChange, Goto, Secure, Guarded, InMaps, GuardInv,
           Watched, UsesControllers, UsesConfig
  <2> QED
    BY <2>1, <2>2, <1>listeners, OthersStaySecure
<1>38. ASSUME ReplaceConfig
      PROVE  GuardInv'
  <2>1. \A u \in Task \ {FileWatcher} : ~Holds(cq, u)
    BY <1>38, <1>listeners, WriterExcludesOthers
       DEF ReplaceConfig, GuardInv, Secure, Guarded, TypeOK
  <2>2. pc' = [pc EXCEPT ![FileWatcher] = "apply_cfg"]
    BY <1>38 DEF ReplaceConfig, ApplyCurrentConfig, Goto
  <2>3. Keeps(cq, cq', {FileWatcher}) /\ UNCHANGED <<gq, present, loc>>
    BY <1>38, <1>listeners, LockSteps DEF ReplaceConfig, ApplyCurrentConfig
  <2>4. ASSUME NEW u \in Task \ {FileWatcher}
        PROVE  Secure(u)'
    <3>1. Secure(u) /\ pc[u] \notin UsesConfig
      BY <2>1 DEF GuardInv, Secure, Guarded
    <3>2. pc'[u] = pc[u]
      BY <2>2, <1>types
    <3> QED
      BY <2>3, <3>1, <3>2 DEF Secure, Guarded, InMaps, Keeps, UsesConfig
  <2>5. Secure(FileWatcher)'
    BY <2>2, <1>listeners, <1>types, UnwatchedIsSecure
       DEF Watched, UsesControllers, UsesConfig
  <2> QED
    BY <2>4, <2>5 DEF GuardInv
<1>39. ASSUME NEW t \in Listener, ApplyControllers(t)
      PROVE  GuardInv'
  <2>1. Moves({t})
    BY <1>39, <1>tasks, <1>types, LockSteps
       DEF ApplyControllers, Goto, settings, Moves
  <2>2. Secure(t)'
    BY <1>39, <1>tasks, <1>types, LockSteps
       DEF ApplyControllers, Goto, settings, Secure, Guarded, InMaps, GuardInv,
           Watched, UsesControllers, UsesConfig
  <2> QED
    BY <2>1, <2>2, <1>tasks, OthersStaySecure
<1>40. ASSUME NEW t \in Listener, ApplyStart(t)
      PROVE  GuardInv'
  <2>1. Moves({t})
    BY <1>40, <1>tasks, <1>types, LockSteps
       DEF ApplyStart, ApplyNext, Goto, Return, settings, Moves
  <2>2. Secure(t)'
    BY <1>40, <1>tasks, <1>types, ApplyNextSecure
       DEF ApplyStart, settings, GuardInv, Secure, Guarded, UsesConfig
  <2> QED
    BY <2>1, <2>2, <1>tasks, OthersStaySecure
<1>41. ASSUME NEW t \in Listener, ApplyClocks(t)
      PROVE  GuardInv'
  <2>1. Moves({t})
    BY <1>41, <1>tasks, <1>types, LockSteps
       DEF ApplyClocks, Apply, ApplyNext, Goto, Return, locks, Moves
  <2>2. Secure(t)'
    <3>0. /\ Holds(gq, t) /\ Holds(cq, t) /\ UNCHANGED <<present, config>>
          /\ loc[t].todo # {} /\ loc[t].todo \subseteq DOMAIN config \cap present
      BY <1>41, <1>tasks
         DEF ApplyClocks, GuardInv, Secure, Guarded, InMaps, UsesControllers,
             UsesConfig
    <3>1. PICK g \in loc[t].todo :
            \/ /\ loc' = [loc EXCEPT ![t].gpu = g]
               /\ Goto(t, "apply_fan") /\ UNCHANGED locks
            \/ ApplyNext(t, loc[t].todo \ {g})
      BY <1>41 DEF ApplyClocks, Apply
    <3>2. CASE ApplyNext(t, loc[t].todo \ {g})
      BY <3>0, <3>2, <1>tasks, <1>types, ApplyNextSecure
    <3>3. CASE /\ loc' = [loc EXCEPT ![t].gpu = g]
               /\ Goto(t, "apply_fan") /\ UNCHANGED locks
      <4>1. loc'[t].gpu = g /\ loc'[t].todo = loc[t].todo
        BY <3>3, <1>tasks, <1>types, TodoFields
      <4>2. pc'[t] = "apply_fan" /\ gq' = gq /\ cq' = cq
        BY <3>3, <1>tasks, <1>types DEF Goto, locks
      <4> QED
        BY <3>0, <4>1, <4>2
           DEF Secure, Guarded, InMaps, UsesControllers, UsesConfig
    <3> QED
      BY <3>1, <3>2, <3>3
  <2> QED
    BY <2>1, <2>2, <1>tasks, OthersStaySecure
<1>42. ASSUME NEW t \in Listener, ApplyFan(t)
      PROVE  GuardInv'
  <2>1. Moves({t})
    BY <1>42, <1>tasks, <1>types, LockSteps
       DEF ApplyFan, Apply, ApplyNext, Goto, Return, Moves
  <2>2. Secure(t)'
    <3>1. /\ Holds(gq, t) /\ Holds(cq, t) /\ UNCHANGED <<present, config>>
          /\ loc[t].todo \subseteq DOMAIN config \cap present
      BY <1>42, <1>tasks
         DEF ApplyFan, GuardInv, Secure, Guarded, InMaps, UsesControllers,
             UsesConfig
    <3>2. ApplyNext(t, loc[t].todo \ {loc[t].gpu})
      BY <1>42 DEF ApplyFan, Apply
    <3> QED
      BY <3>1, <3>2, <1>tasks, <1>types, ApplyNextSecure
  <2> QED
    BY <2>1, <2>2, <1>tasks, OthersStaySecure
<1> QED
  BY <1>1, <1>2, <1>3, <1>4, <1>5, <1>6, <1>7, <1>8, <1>9, <1>10, <1>11,
     <1>12, <1>13, <1>14, <1>15, <1>16, <1>17, <1>18, <1>19, <1>20, <1>21,
     <1>22, <1>23, <1>24, <1>25, <1>26, <1>27, <1>28, <1>29, <1>30, <1>31,
     <1>32, <1>33, <1>34, <1>35, <1>36, <1>37, <1>38, <1>39, <1>40, <1>41,
     <1>42, <1>tasks
     DEF Next, Arrive, Serve, ServeEdit, ServeRead, ServeClear, Decide, Listen,
         Event, Listener

\* When the daemon starts, no task uses anything.
LEMMA GuardInit == Init => GuardInv
<1> SUFFICES ASSUME Init
             PROVE  GuardInv
  OBVIOUS
<1>1. \A t \in Task : pc[t] \in {"free", "idle"}
  BY DEF Init
<1> QED
  BY <1>1 DEF GuardInv, Secure, Guarded, InMaps, UsesControllers, UsesConfig

\* The controllers and entries a task works on stay in the maps, whatever
\* reloads, resets, resumes and changes of the file come in between.
THEOREM ControllersAreSafe == Spec => []ControllersStay
<1>1. TypeOK /\ GuardInv /\ [Next]_vars => GuardInv'
  <2>1. ASSUME GuardInv, UNCHANGED vars
        PROVE  GuardInv'
    BY <2>1 DEF vars, GuardInv, Secure, Guarded, InMaps
  <2> QED
    BY <2>1, GuardStep
<1>2. GuardInv => ControllersStay
  BY DEF GuardInv, Secure, InMaps, ControllersStay
<1> QED
  BY <1>1, <1>2, GuardInit, TypeCorrect, PTL DEF Spec

-----------------------------------------------------------------------------
(***************************************************************************)
(* What the transactions leave behind.  With one client that waits for its *)
(* replies, on GPUs whose settings are applied without a wait and accepted *)
(* again when they were accepted before, and with no reset, reload, resume *)
(* or change of the file in between, at most one change is under way at a  *)
(* time.  The hypothesis is that of the run atomic; each of the events it  *)
(* excludes can leave the hardware and the configuration apart.            *)
(***************************************************************************)
OneAfterAnother ==
  /\ Sequential /\ ~Suspends /\ ~Flaky
  /\ \A c, d \in Conn : c = d
  /\ Ops \subseteq {"edit", "fan", "confirm", "stats", "info", "snapshot"}

\* The places of a request that changes settings, of one that reads, of the
\* task that waits for a confirmation, and of those that use the configuration.
Editing == {"edit_cfg", "edit_gpu", "edit_fan", "undo", "undo_fan"}
Reading == {"stats_cfg", "stats_gpu", "info_gpu", "snapshot_gpu", "snapshot_cmd",
  "snapshot_gpu2", "snapshot_cfg"}
Waiting == Listening \cup {"save_cfg"}
Undoing == {"undo", "undo_fan"}
AtConfig == {"fan_cfg", "edit_cfg", "stats_cfg", "stats_gpu", "snapshot_cfg", "save_cfg"}

ClientsIdle == \A c \in Conn : pc[c] = "idle"

\* Where the tasks can be.
PlacesInv ==
  /\ \A c \in Conn : pc[c] \in {"idle", "fan_cfg"} \cup Editing \cup Reading
  /\ \A k \in Slot : pc[k] \in {"free"} \cup Waiting \cup Undoing
  /\ \A t \in Listener : pc[t] = "idle"
  /\ present = Gpu

\* The configuration is asked for by one task at a time, and the controllers
\* are only read.
ReadsOnly(q) == \A i \in DOMAIN q : q[i].mode = "r"
ConfigQueue ==
  \/ cq = <<>> /\ \A t \in Task : pc[t] \notin AtConfig
  \/ \E t \in Task, m \in {"r", "w"} :
       /\ cq = <<LockRequest(t, m)>> /\ pc[t] \in AtConfig
       /\ \A u \in Task \ {t} : pc[u] \notin AtConfig
GpuQueue == /\ ReadsOnly(gq)
            /\ \A k \in Slot : pc[k] = "confirm_gpu" => Holds(gq, k)

\* One change at a time: made, waiting for its confirmation, or being decided.
\* One that is decided but not carried out keeps the client from going on.
PendingInv ==
  /\ \A k, l \in Slot : pc[k] # "free" /\ pc[l] # "free" => k = l
  /\ \A k \in Slot : pc[k] # "free" =>
       /\ \A c \in Conn : pc[c] \notin Editing
       /\ pc[k] \in Listening => \/ tx = k /\ msg[k] = "none"
                                 \/ msg[k] # "none" /\ ClientsIdle
       /\ pc[k] = "save_cfg" => ClientsIdle
  /\ tx # None => pc[tx] # "free"

\* The GPUs have the settings of the configuration, but for the GPU of the
\* change, and of that one the change knows what it was and what it is.
Changing == {"edit_fan"} \cup Waiting \cup Undoing
HardwareInv ==
  /\ \A g \in Gpu : EntryOf(file, g) = EntryOf(config, g)
  /\ \A g \in Gpu : \/ hw[g] = EntryOf(config, g)
                    \/ \E t \in Task : pc[t] \in Changing /\ loc[t].gpu = g
  /\ \A t \in Task :
       /\ pc[t] \in Changing \cup {"edit_gpu"} => loc[t].prev = EntryOf(config, loc[t].gpu)
       /\ pc[t] = "edit_fan" => hw[loc[t].gpu]["clocks"] = loc[t].new["clocks"]
       /\ pc[t] \in Waiting => hw[loc[t].gpu] = loc[t].new
       /\ pc[t] = "undo_fan" => hw[loc[t].gpu]["clocks"] = loc[t].prev["clocks"]

SettledInv == PlacesInv /\ ConfigQueue /\ GpuQueue /\ PendingInv /\ HardwareInv

\* The step is one of task t alone.
Alone(t) == \A u \in Task \ {t} : pc'[u] = pc[u] /\ loc'[u] = loc[u]

-----------------------------------------------------------------------------
\* A queue of one request grants it, and is empty once its guard is dropped.
LEMMA OneRequest ==
  ASSUME NEW t, NEW m
  PROVE  /\ Holds(<<LockRequest(t, m)>>, t)
         /\ Release(<<LockRequest(t, m)>>, t) = <<>>
         /\ Request(<<>>, t, m) = <<LockRequest(t, m)>>
<1> DEFINE q == <<LockRequest(t, m)>>
<1>1. q \in Seq({LockRequest(t, m)}) /\ Len(q) = 1 /\ DOMAIN q = {1} /\ q[1] = LockRequest(t, m)
  OBVIOUS
<1>2. Request(<<>>, t, m) = q
  BY DEF Request
<1> HIDE DEF q
<1>3. RequestsOf(q, t) = {1}
  BY <1>1 DEF RequestsOf, LockRequest
<1>4. Holds(q, t)
  BY <1>3 DEF Holds, GrantedAt
<1>5. (CHOOSE i \in RequestsOf(q, t) : TRUE) = 1
  BY <1>3
<1>6. Release(q, t) = RemoveAt(q, 1)
  BY <1>3, <1>5 DEF Release
<1>7. RemoveAt(q, 1) \in Seq({LockRequest(t, m)}) /\ DOMAIN RemoveAt(q, 1) = 1..0
  BY <1>1, RemoveAtProperties
<1>8. RemoveAt(q, 1) = <<>>
  BY <1>7
<1> QED
  BY <1>2, <1>4, <1>6, <1>8 DEF q

\* Readers wait for nobody when there is no writer.
LEMMA ReadersGoOn ==
  ASSUME NEW q \in Seq(LockRequests(Task)), ReadsOnly(q), NEW t \in Task
  PROVE  /\ ReadsOnly(Request(q, t, "r")) /\ Holds(Request(q, t, "r"), t)
         /\ ReadsOnly(Release(q, t))
<1> DEFINE r == Request(q, t, "r")
<1>1. /\ DOMAIN q = 1..Len(q) /\ Len(q) \in Nat
      /\ DOMAIN r = 1..(Len(q) + 1)
      /\ \A i \in 1..Len(q) : r[i] = q[i]
      /\ r[Len(q) + 1] = LockRequest(t, "r")
  BY DEF Request
<1> HIDE DEF r
<1>2. ReadsOnly(r)
  BY <1>1 DEF ReadsOnly, LockRequest
<1>3. Len(q) + 1 \in RequestsOf(r, t)
  BY <1>1 DEF RequestsOf, LockRequest
<1>4. \A i \in RequestsOf(r, t) : GrantedAt(r, i)
  BY <1>1, <1>2 DEF RequestsOf, GrantedAt, ReadsOnly
<1>5. ReadsOnly(Release(q, t))
  <2>1. CASE RequestsOf(q, t) = {}
    BY <2>1 DEF Release
  <2>2. CASE RequestsOf(q, t) # {}
    <3> DEFINE i == CHOOSE j \in RequestsOf(q, t) : TRUE
    <3>1. i \in DOMAIN q
      BY <2>2 DEF RequestsOf
    <3>2. Release(q, t) = RemoveAt(q, i)
      BY <2>2 DEF Release
    <3> HIDE DEF i
    <3>3. /\ DOMAIN RemoveAt(q, i) = 1..(Len(q) - 1)
          /\ \A j \in 1..(Len(q) - 1) :
               RemoveAt(q, i)[j] = IF j < i THEN q[j] ELSE q[j + 1]
      BY <3>1, RemoveAtProperties
    <3>4. ASSUME NEW j \in 1..(Len(q) - 1)
          PROVE  RemoveAt(q, i)[j].mode = "r"
      <4>1. q[j].mode = "r" /\ q[j + 1].mode = "r"
        BY <1>1 DEF ReadsOnly
      <4> QED
        BY <3>3, <4>1
    <3> QED
      BY <3>2, <3>3, <3>4 DEF ReadsOnly
  <2> QED
    BY <2>1, <2>2
<1> QED
  BY <1>2, <1>3, <1>4, <1>5 DEF Holds, r

\* A step that uses the configuration as before, takes it, gives it back, or
\* gives it back and asks again.
LEMMA ConfigQueueStays ==
  ASSUME ConfigQueue, UNCHANGED cq,
         \A u \in Task : pc'[u] \in AtConfig <=> pc[u] \in AtConfig
  PROVE  ConfigQueue'
  BY DEF ConfigQueue

LEMMA ConfigQueueTaken ==
  ASSUME ConfigQueue, NEW t \in Task, NEW m \in {"r", "w"}, cq' = Request(cq, t, m),
         \A u \in Task : pc[u] \notin AtConfig, pc'[t] \in AtConfig,
         \A u \in Task \ {t} : pc'[u] = pc[u]
  PROVE  ConfigQueue'
<1>1. cq = <<>>
  BY DEF ConfigQueue
<1> QED
  BY <1>1, OneRequest DEF ConfigQueue

LEMMA ConfigQueueGiven ==
  ASSUME ConfigQueue, NEW t \in Task, pc[t] \in AtConfig
  PROVE  /\ Release(cq, t) = <<>> /\ Holds(cq, t)
         /\ \A u \in Task \ {t} : pc[u] \notin AtConfig
  BY OneRequest DEF ConfigQueue

LEMMA ConfigQueueLeft ==
  ASSUME ConfigQueue, NEW t \in Task, pc[t] \in AtConfig, pc'[t] \notin AtConfig,
         cq' = Release(cq, t), \A u \in Task \ {t} : pc'[u] = pc[u]
  PROVE  ConfigQueue'
  BY ConfigQueueGiven DEF ConfigQueue

LEMMA ConfigQueueAgain ==
  ASSUME ConfigQueue, NEW t \in Task, NEW m \in {"r", "w"}, pc[t] \in AtConfig,
         cq' = Request(Release(cq, t), t, m), pc'[t] \in AtConfig,
         \A u \in Task \ {t} : pc'[u] = pc[u]
  PROVE  ConfigQueue'
<1>1. cq' = <<LockRequest(t, m)>> /\ \A u \in Task \ {t} : pc'[u] \notin AtConfig
  BY ConfigQueueGiven, OneRequest
<1> QED
  BY <1>1 DEF ConfigQueue

\* A step of one task that changes its own read requests for the controllers.
LEMMA GpuQueueStays ==
  ASSUME TypeOK, GpuQueue, NEW t \in Task,
         gq' \in {gq, Request(gq, t, "r"), Release(gq, t), Release(Release(gq, t), t)},
         \A k \in Slot \ {t} : pc'[k] = "confirm_gpu" => pc[k] = "confirm_gpu",
         t \in Slot => \/ pc'[t] # "confirm_gpu"
                       \/ gq' = Request(gq, t, "r")
  PROVE  GpuQueue'
<1>1. gq \in Seq(LockRequests(Task)) /\ Release(gq, t) \in Seq(LockRequests(Task))
  BY LockTypes DEF TypeOK
<1>2. ReadsOnly(gq')
  BY <1>1, ReadersGoOn DEF GpuQueue
<1>3. ASSUME NEW k \in Slot \ {t}, pc'[k] = "confirm_gpu"
      PROVE  Holds(gq', k)
  <2>1. Holds(gq, k)
    BY <1>3 DEF GpuQueue
  <2> QED
    BY <1>1, <2>1, RequestKeepsOthers, ReleaseKeepsOthers
<1>4. ASSUME t \in Slot, pc'[t] = "confirm_gpu"
      PROVE  Holds(gq', t)
  BY <1>1, <1>4, ReadersGoOn DEF GpuQueue
<1> QED
  BY <1>2, <1>3, <1>4 DEF GpuQueue

-----------------------------------------------------------------------------
\* The tasks are what they are.
LEMMA TasksApart ==
  /\ Conn \subseteq Task /\ Slot \subseteq Task /\ Listener \subseteq Task
  /\ \A t \in Task : \/ t \in Conn /\ t \notin Slot
                     \/ t \in Slot /\ t \notin Conn
                     \/ t \in Listener /\ t \notin Conn /\ t \notin Slot
  /\ \A c \in Conn : c \notin Slot /\ c \notin Listener
  /\ \A k \in Slot : k \notin Conn /\ k \notin Listener
  /\ \A t \in Listener : t \notin Conn /\ t \notin Slot
  BY TasksAreDistinct DEF Task

\* When the client sends a request, a change waits for its confirmation at most.
LEMMA ClientAsks ==
  ASSUME OneAfterAnother, TypeOK, PlacesInv, ConfigQueue, GpuQueue, PendingInv,
         NEW c \in Conn, NEW op, NewRequest(c, op), Turn(c)
  PROVE  /\ ClientsIdle
         /\ \A k \in Slot : \/ pc[k] = "free"
                            \/ pc[k] = "confirm_wait" /\ tx = k /\ msg[k] = "none"
         /\ \A u \in Task : pc[u] \notin AtConfig
<1>1. ClientsIdle /\ \A k \in Slot : ~Runnable(k)
  BY DEF NewRequest, OneAfterAnother, ClientsIdle
<1>2. ASSUME NEW k \in Slot
      PROVE  pc[k] = "free" \/ (pc[k] = "confirm_wait" /\ tx = k /\ msg[k] = "none")
  <2>1. k \in Task /\ k # c
    BY TasksApart
  <2>2. pc[k] \notin Undoing
    BY <2>1 DEF Turn, OneAfterAnother, Applying, Undoing
  <2>3. pc[k] # "spawned" /\ pc[k] # "confirm_gpu"
    BY <1>1 DEF Runnable, GpuQueue
  <2>4. pc[k] # "save_cfg"
    BY <1>1, <2>1, ConfigQueueGiven DEF Runnable, AtConfig
  <2>5. pc[k] = "confirm_wait" => msg[k] = "none"
    BY <1>1 DEF Runnable
  <2> QED
    BY <2>2, <2>3, <2>4, <2>5 DEF PlacesInv, PendingInv, Waiting, Listening
<1>3. ASSUME NEW u \in Task
      PROVE  pc[u] \notin AtConfig
  BY <1>1, <1>2, TasksApart DEF ClientsIdle, PlacesInv, AtConfig
<1> QED
  BY <1>1, <1>2, <1>3

\* A step of the client that starts a change only when there is none, and
\* answers before it goes on.
LEMMA ClientPlaces ==
  ASSUME OneAfterAnother, TypeOK, PlacesInv, PendingInv, NEW c \in Conn, Alone(c),
         UNCHANGED <<tx, msg, present>>,
         pc'[c] \in {"idle", "fan_cfg"} \cup Editing \cup Reading,
         pc'[c] \in Editing => \A k \in Slot : pc[k] = "free",
         \/ pc[c] # "idle"
         \/ \A k \in Slot : pc[k] = "free" \/ (pc[k] = "confirm_wait" /\ tx = k /\ msg[k] = "none")
  PROVE  PlacesInv' /\ PendingInv'
<1>1. \A u \in Task \ {c} : pc'[u] = pc[u]
  BY DEF Alone
<1>2. \A k \in Slot : pc'[k] = pc[k]
  BY <1>1, TasksApart
<1>3. \A t \in Listener : pc'[t] = pc[t]
  BY <1>1, TasksApart
<1>4. \A d \in Conn : d = c
  BY DEF OneAfterAnother
<1>5. PlacesInv'
  BY <1>2, <1>3, <1>4 DEF PlacesInv
<1>6. ASSUME NEW k \in Slot, pc'[k] # "free"
      PROVE  /\ \A d \in Conn : pc'[d] \notin Editing
             /\ pc'[k] \in Listening => \/ tx' = k /\ msg'[k] = "none"
                                        \/ msg'[k] # "none" /\ ClientsIdle'
             /\ pc'[k] = "save_cfg" => ClientsIdle'
  <2>1. pc[k] # "free" /\ pc[k] = pc'[k]
    BY <1>2, <1>6
  <2>2. \A d \in Conn : pc'[d] \notin Editing
    BY <1>4, <2>1
  <2>3. CASE pc[c] # "idle"
    BY <2>1, <2>2, <2>3 DEF PendingInv, ClientsIdle
  <2>4. CASE pc[k] = "confirm_wait" /\ tx = k /\ msg[k] = "none"
    BY <2>1, <2>2, <2>4 DEF Listening
  <2> QED
    BY <2>1, <2>3, <2>4
<1>7. /\ \A k, l \in Slot : pc'[k] # "free" /\ pc'[l] # "free" => k = l
      /\ tx' # None => pc'[tx'] # "free"
  <2>1. tx # None => pc[tx] # "free"
    BY DEF PendingInv
  <2>2. tx \in Slot => pc'[tx] = pc[tx]
    BY <1>2
  <2> QED
    BY <1>2, <2>1, <2>2 DEF PendingInv, TypeOK
<1> QED
  BY <1>5, <1>6, <1>7 DEF PendingInv

-----------------------------------------------------------------------------
\* At most one task is changing settings.
LEMMA OneChange ==
  ASSUME OneAfterAnother, PlacesInv, PendingInv
  PROVE  \A t, u \in Task : /\ pc[t] \in Changing \cup {"edit_gpu"}
                            /\ pc[u] \in Changing \cup {"edit_gpu"}
                            => t = u
<1>1. ASSUME NEW t \in Task, pc[t] \in Changing \cup {"edit_gpu"}
      PROVE  (t \in Conn /\ pc[t] \in Editing) \/ (t \in Slot /\ pc[t] # "free")
  BY <1>1, TasksApart DEF PlacesInv, Changing, Waiting, Listening, Undoing, Editing, Reading
<1> QED
  BY <1>1 DEF OneAfterAnother, PendingInv

\* Settings that agree on both groups.
LEMMA SameSettings ==
  ASSUME NEW m \in GpuCfg, NEW n \in GpuCfg, m["clocks"] = n["clocks"], m["fan"] = n["fan"]
  PROVE  m = n
<1>1. \A f \in Field : m[f] = n[f]
  BY DEF Field
<1> QED
  BY <1>1 DEF GpuCfg

\* An entry that is inserted is found, and the others are as they were.
LEMMA InsertEntry ==
  ASSUME NEW conf \in Config, NEW g \in Gpu, NEW n \in GpuCfg, NEW h \in Gpu
  PROVE  EntryOf(Insert(conf, g, n), h) = IF h = g THEN n ELSE EntryOf(conf, h)
  BY DEF Insert, EntryOf

\* A write of one group of settings.
LEMMA WrittenSettings ==
  ASSUME NEW h \in [Gpu -> GpuCfg], NEW g \in Gpu, NEW f \in Field, NEW v \in Val
  PROVE  LET w == [h EXCEPT ![g][f] = v]
         IN  /\ w[g][f] = v
             /\ \A e \in Field \ {f} : w[g][e] = h[g][e]
             /\ \A o \in Gpu \ {g} : w[o] = h[o]
  BY DEF GpuCfg

-----------------------------------------------------------------------------
\* A step that has nothing to do with a change.
LEMMA HardwareStays ==
  ASSUME TypeOK, HardwareInv, NEW t \in Task, Alone(t), UNCHANGED <<file, hw>>,
         \A g \in Gpu : EntryOf(config', g) = EntryOf(config, g),
         pc[t] \notin Changing, pc'[t] \notin Changing \cup {"edit_gpu"}
  PROVE  HardwareInv'
<1>1. \A u \in Task : loc[u].gpu \in Gpu
  BY LocalFields DEF TypeOK
<1>2. \A g \in Gpu : EntryOf(file', g) = EntryOf(config', g)
  BY DEF HardwareInv
<1>3. ASSUME NEW g \in Gpu, hw'[g] # EntryOf(config', g)
      PROVE  \E u \in Task : pc'[u] \in Changing /\ loc'[u].gpu = g
  <2>1. PICK u \in Task : pc[u] \in Changing /\ loc[u].gpu = g
    BY <1>3 DEF HardwareInv
  <2>2. u # t
    BY <2>1
  <2> QED
    BY <2>1, <2>2 DEF Alone
<1>4. ASSUME NEW u \in Task
      PROVE  /\ pc'[u] \in Changing \cup {"edit_gpu"} =>
                  loc'[u].prev = EntryOf(config', loc'[u].gpu)
             /\ pc'[u] = "edit_fan" => hw'[loc'[u].gpu]["clocks"] = loc'[u].new["clocks"]
             /\ pc'[u] \in Waiting => hw'[loc'[u].gpu] = loc'[u].new
             /\ pc'[u] = "undo_fan" => hw'[loc'[u].gpu]["clocks"] = loc'[u].prev["clocks"]
  <2>1. CASE u = t
    BY <2>1 DEF Changing, Waiting, Undoing
  <2>2. CASE u # t
    BY <1>1, <2>2 DEF HardwareInv, Alone
  <2> QED
    BY <2>1, <2>2
<1> QED
  BY <1>2, <1>3, <1>4 DEF HardwareInv

\* A step of the change of task t, which task u goes on with.
LEMMA HardwareChanges ==
  ASSUME OneAfterAnother, TypeOK, PlacesInv, PendingInv, HardwareInv,
         NEW t \in Task, NEW u \in Task,
         pc[t] \in Changing \cup {"edit_gpu"}, pc'[u] \in Changing,
         loc'[u].gpu = loc[t].gpu, loc'[u].prev = loc[t].prev,
         UNCHANGED <<config, file>>,
         \A g \in Gpu \ {loc[t].gpu} : hw'[g] = hw[g],
         \A v \in Task \ {t, u} : pc'[v] = pc[v],
         t # u => pc'[t] \notin Changing \cup {"edit_gpu"},
         pc'[u] = "edit_fan" => hw'[loc'[u].gpu]["clocks"] = loc'[u].new["clocks"],
         pc'[u] \in Waiting => hw'[loc'[u].gpu] = loc'[u].new,
         pc'[u] = "undo_fan" => hw'[loc'[u].gpu]["clocks"] = loc'[u].prev["clocks"]
  PROVE  HardwareInv'
<1>1. \A v \in Task \ {t} : pc[v] \notin Changing \cup {"edit_gpu"}
  BY OneChange
<1>2. \A v \in Task \ {u} : pc'[v] \notin Changing \cup {"edit_gpu"}
  BY <1>1
<1>3. \A g \in Gpu : EntryOf(file', g) = EntryOf(config', g)
  BY DEF HardwareInv
<1>4. ASSUME NEW g \in Gpu, hw'[g] # EntryOf(config', g)
      PROVE  \E v \in Task : pc'[v] \in Changing /\ loc'[v].gpu = g
  <2>1. CASE g = loc[t].gpu
    BY <2>1
  <2>2. CASE g # loc[t].gpu
    <3>1. hw[g] # EntryOf(config, g)
      BY <1>4, <2>2
    <3>2. PICK v \in Task : pc[v] \in Changing /\ loc[v].gpu = g
      BY <3>1 DEF HardwareInv
    <3>3. v = t
      BY <1>1, <3>2
    <3> QED
      BY <2>2, <3>2, <3>3
  <2> QED
    BY <2>1, <2>2
<1>5. loc'[u].prev = EntryOf(config', loc'[u].gpu)
  BY DEF HardwareInv
<1>6. ASSUME NEW v \in Task
      PROVE  /\ pc'[v] \in Changing \cup {"edit_gpu"} =>
                  loc'[v].prev = EntryOf(config', loc'[v].gpu)
             /\ pc'[v] = "edit_fan" => hw'[loc'[v].gpu]["clocks"] = loc'[v].new["clocks"]
             /\ pc'[v] \in Waiting => hw'[loc'[v].gpu] = loc'[v].new
             /\ pc'[v] = "undo_fan" => hw'[loc'[v].gpu]["clocks"] = loc'[v].prev["clocks"]
  <2>1. CASE v = u
    BY <1>5, <2>1
  <2>2. CASE v # u
    BY <1>2, <2>2 DEF Changing, Waiting, Undoing
  <2> QED
    BY <2>1, <2>2
<1> QED
  BY <1>3, <1>4, <1>6 DEF HardwareInv

\* The end of a change.
LEMMA HardwareSettles ==
  ASSUME \A g \in Gpu : hw'[g] = EntryOf(config', g) /\ EntryOf(file', g) = EntryOf(config', g),
         \A u \in Task : pc'[u] \notin Changing \cup {"edit_gpu"}
  PROVE  HardwareInv'
<1>1. \A u \in Task : pc'[u] # "edit_fan" /\ pc'[u] \notin Waiting /\ pc'[u] # "undo_fan"
  BY DEF Changing, Undoing
<1> QED
  BY <1>1 DEF HardwareInv

-----------------------------------------------------------------------------
\* The steps there are when nothing is reset, reloaded, resumed or read again.
ClientStep(c) ==
  \/ StartEdit(c) \/ StartFan(c) \/ ConfirmPending(c)
  \/ StartStats(c) \/ StartInfo(c) \/ StartSnapshot(c)
  \/ FanEntry(c) \/ ReadConfig(c) \/ EditClocks(c) \/ EditFan(c)
  \/ UndoClocks(c) \/ UndoFan(c)
  \/ StatsController(c) \/ ReadStats(c) \/ ReadInfo(c)
  \/ SnapshotFiles(c) \/ SnapshotDevices(c) \/ SnapshotConfig(c) \/ EndSnapshot(c)
ConfirmStep(k) ==
  \/ SpawnedPoll(k) \/ HoldController(k)
  \/ TimerExpires(k) \/ ReceiveConfirm(k) \/ ReceiveRevert(k)
  \/ SaveConfirmed(k) \/ UndoClocks(k) \/ UndoFan(k)

LEMMA LiveSteps ==
  ASSUME OneAfterAnother, PlacesInv, Next
  PROVE  \/ \E c \in Conn : Turn(c) /\ ClientStep(c)
         \/ \E k \in Slot : Turn(k) /\ ConfirmStep(k)
<1>1. ASSUME NEW c \in Conn, Arrive(c)
      PROVE  Turn(c) /\ ClientStep(c)
  <2>1. ~StartReset(c) /\ ~StartCleanup(c)
    BY DEF StartReset, StartCleanup, NewRequest, OneAfterAnother
  <2> QED
    BY <1>1, <2>1 DEF Arrive, ClientStep
<1>2. ASSUME NEW c \in Conn, Serve(c)
      PROVE  Turn(c) /\ ClientStep(c)
  <2>1. pc[c] \in {"idle", "fan_cfg"} \cup Editing \cup Reading
    BY DEF PlacesInv
  <2>2. ~ResetHardware(c)
    BY <2>1 DEF ResetHardware, Editing, Reading
  <2>3. ~ServeClear(c)
    BY <2>1 DEF ServeClear, CleanupControllers, CleanupStart, CleanClocks, CleanFan,
                ClearConfig, Editing, Reading
  <2> QED
    BY <1>2, <2>2, <2>3 DEF Serve, ServeEdit, ServeRead, ClientStep
<1>3. ASSUME NEW t \in Listener
      PROVE  ~Listen(t)
  <2>1. pc[t] = "idle" /\ pc[Reloader] = "idle" /\ pc[FileWatcher] = "idle"
    BY DEF PlacesInv, Listener
  <2> QED
    BY <2>1 DEF Listen, ReplaceControllers, ReplaceConfig, ApplyControllers, ApplyStart,
                ApplyClocks, ApplyFan
<1>4. ~Event
  BY DEF Event, StartReload, StartResume, StartFileChange, OneAfterAnother
<1> QED
  BY <1>1, <1>2, <1>3, <1>4 DEF Next, Decide, ConfirmStep

-----------------------------------------------------------------------------
\* Steps of the client that leave the settings and the change alone.
LEMMA ClientReads ==
  ASSUME OneAfterAnother, TypeOK, SettledInv, NEW c \in Conn, Alone(c),
         UNCHANGED <<settings, tx, msg>>, ConfigQueue',
         gq' \in {gq, Request(gq, c, "r"), Release(gq, c), Release(Release(gq, c), c)},
         pc[c] \in {"idle", "fan_cfg"} \cup Reading,
         pc'[c] \in {"idle", "fan_cfg", "edit_cfg"} \cup Reading,
         pc'[c] = "edit_cfg" => \A k \in Slot : pc[k] = "free",
         \/ pc[c] # "idle"
         \/ \A k \in Slot : pc[k] = "free" \/ (pc[k] = "confirm_wait" /\ tx = k /\ msg[k] = "none")
  PROVE  SettledInv'
<1>1. c \in Task /\ c \notin Slot /\ Slot \subseteq Task
  BY TasksApart
<1>2. PlacesInv /\ ConfigQueue /\ GpuQueue /\ PendingInv /\ HardwareInv
  BY DEF SettledInv
<1>3. PlacesInv' /\ PendingInv'
  <2>1. pc'[c] \in {"idle", "fan_cfg"} \cup Editing \cup Reading
    BY DEF Editing
  <2>2. pc'[c] \in Editing => pc'[c] = "edit_cfg"
    BY DEF Editing, Reading
  <2> QED
    BY <1>2, <2>1, <2>2, ClientPlaces DEF settings
<1>4. GpuQueue'
  BY <1>1, <1>2, GpuQueueStays DEF Alone
<1>5. HardwareInv'
  <2>1. pc[c] \notin Changing /\ pc'[c] \notin Changing \cup {"edit_gpu"}
    BY DEF Changing, Waiting, Listening, Undoing, Reading
  <2> QED
    BY <1>1, <1>2, <2>1, HardwareStays DEF settings
<1> QED
  BY <1>3, <1>4, <1>5 DEF SettledInv

\* What a request that changes settings, and is the only change, has around it.
LEMMA ClientEdits ==
  ASSUME OneAfterAnother, TypeOK, SettledInv, NEW c \in Conn, pc[c] \in Editing,
         \A u \in Task \ {c} : pc'[u] = pc[u], UNCHANGED <<tx, msg, present>>,
         pc'[c] \in Editing \cup {"idle"},
         gq' \in {gq, Request(gq, c, "r"), Release(gq, c)}
  PROVE  /\ PlacesInv' /\ PendingInv' /\ GpuQueue'
         /\ pc[c] # "edit_cfg" /\ pc'[c] # "edit_cfg" /\ UNCHANGED cq => ConfigQueue'
<1>1. c \in Task /\ c \notin Slot /\ Slot \subseteq Task /\ \A d \in Conn : d = c
  BY TasksApart DEF OneAfterAnother
<1>2. PlacesInv /\ ConfigQueue /\ GpuQueue /\ PendingInv
  BY DEF SettledInv
<1>3. \A k \in Slot : pc[k] = "free"
  BY <1>2 DEF PendingInv
<1>4. \A k \in Slot : pc'[k] = "free"
  BY <1>1, <1>3
<1>5. tx = None
  BY <1>2, <1>3 DEF PendingInv, TypeOK
<1>6. PendingInv'
  BY <1>4, <1>5 DEF PendingInv
<1>7. PlacesInv'
  <2>1. \A t \in Listener : pc'[t] = pc[t]
    BY TasksApart
  <2> QED
    BY <1>1, <1>2, <1>4, <2>1 DEF PlacesInv
<1>8. GpuQueue'
  BY <1>1, <1>2, GpuQueueStays
<1>9. ASSUME pc[c] # "edit_cfg", pc'[c] # "edit_cfg", UNCHANGED cq
      PROVE  ConfigQueue'
  <2>1. pc[c] \notin AtConfig /\ pc'[c] \notin AtConfig
    BY <1>9 DEF AtConfig, Editing
  <2>2. \A u \in Task : pc'[u] \in AtConfig <=> pc[u] \in AtConfig
    BY <2>1
  <2> QED
    BY <1>2, <1>9, <2>2, ConfigQueueStays
<1> QED
  BY <1>6, <1>7, <1>8, <1>9

\* A step of the confirmation task while the change is there.
LEMMA ConfirmPlaces ==
  ASSUME OneAfterAnother, TypeOK, SettledInv, NEW k \in Slot, pc[k] # "free",
         \A u \in Task \ {k} : pc'[u] = pc[u], UNCHANGED <<tx, present>>,
         pc'[k] \in Waiting \cup Undoing,
         pc'[k] \in Listening => pc[k] \in Listening /\ UNCHANGED msg,
         pc'[k] = "save_cfg" => ClientsIdle
  PROVE  PlacesInv' /\ PendingInv'
<1>1. k \in Task /\ \A l \in Slot \ {k} : pc[l] = "free" /\ pc'[l] = pc[l]
  BY TasksApart DEF SettledInv, PendingInv
<1>2. \A c \in Conn : pc'[c] = pc[c]
  BY TasksApart
<1>3. \A t \in Listener : pc'[t] = pc[t]
  BY TasksApart
<1>4. PlacesInv'
  BY <1>1, <1>2, <1>3 DEF SettledInv, PlacesInv
<1>5. pc'[k] # "free"
  BY DEF Waiting, Listening, Undoing
<1>6. ClientsIdle => ClientsIdle'
  BY <1>2 DEF ClientsIdle
<1>7. /\ \A c \in Conn : pc'[c] \notin Editing
      /\ pc'[k] \in Listening => \/ tx' = k /\ msg'[k] = "none"
                                 \/ msg'[k] # "none" /\ ClientsIdle'
      /\ pc'[k] = "save_cfg" => ClientsIdle'
  BY <1>2, <1>6 DEF SettledInv, PendingInv
<1>8. tx' # None => pc'[tx'] # "free"
  <2>1. tx # None => pc[tx] # "free"
    BY DEF SettledInv, PendingInv
  <2>2. tx # None => tx = k
    BY <1>1, <2>1 DEF TypeOK
  <2> QED
    BY <1>5, <2>2
<1> QED
  BY <1>1, <1>4, <1>5, <1>7, <1>8 DEF PendingInv

\* The confirmation task ends.
LEMMA ConfirmEnds ==
  ASSUME OneAfterAnother, TypeOK, SettledInv, NEW k \in Slot, pc[k] # "free",
         EndConfirm(k), UNCHANGED present
  PROVE  /\ PlacesInv' /\ PendingInv' /\ GpuQueue' /\ Alone(k) /\ pc'[k] = "free"
         /\ \A u \in Task : pc'[u] \notin Changing \cup {"edit_gpu"}
<1>1. k \in Task /\ \A l \in Slot \ {k} : pc[l] = "free"
  BY TasksApart DEF SettledInv, PendingInv
<1>2. Alone(k) /\ pc'[k] = "free" /\ tx' = None /\ gq' = Release(gq, k)
  BY <1>1 DEF EndConfirm, Goto, Alone, TypeOK
<1>3. PlacesInv /\ ConfigQueue /\ GpuQueue /\ PendingInv
  BY DEF SettledInv
<1>4. \A l \in Slot : pc'[l] = "free"
  BY <1>1, <1>2, TasksApart DEF Alone
<1>5. PendingInv'
  BY <1>2, <1>4 DEF PendingInv
<1>6. \A c \in Conn : pc'[c] = pc[c]
  BY <1>2, TasksApart DEF Alone
<1>7. \A t \in Listener : pc'[t] = pc[t]
  BY <1>2, TasksApart DEF Alone
<1>8. PlacesInv'
  BY <1>3, <1>4, <1>6, <1>7 DEF PlacesInv
<1>9. GpuQueue'
  BY <1>1, <1>2, <1>3, TasksApart, GpuQueueStays DEF Alone
<1>10. \A c \in Conn : pc[c] \notin Editing
  BY <1>3 DEF PendingInv
<1>11. \A u \in Task : pc'[u] \notin Changing \cup {"edit_gpu"}
  BY <1>3, <1>4, <1>6, <1>7, <1>10, TasksApart
     DEF PlacesInv, Changing, Waiting, Listening, Undoing, Editing, Reading
<1> QED
  BY <1>2, <1>5, <1>8, <1>9, <1>11

\* What the hardware had is accepted again.
LEMMA UndoAccepted ==
  ASSUME OneAfterAnother, TypeOK, AcceptedInv, HardwareInv, NEW t \in Task,
         pc[t] \in Undoing, NEW f \in Field
  PROVE  ~Refuses(f, loc[t].prev)
<1>1. loc[t].gpu \in Gpu /\ config \in Config
  BY LocalFields DEF TypeOK
<1>2. loc[t].prev = EntryOf(config, loc[t].gpu)
  BY DEF HardwareInv, Changing
<1>3. Accepted(loc[t].prev)
  BY <1>1, <1>2, EntryAccepted DEF AcceptedInv
<1> QED
  BY <1>3 DEF Accepted, Refuses, OneAfterAnother

\* The clocks are put back, the fan is next.
LEMMA UndoClocksStep ==
  ASSUME OneAfterAnother, TypeOK, AcceptedInv, SettledInv, NEW t \in Task, UndoClocks(t)
  PROVE  /\ Alone(t) /\ pc[t] = "undo" /\ pc'[t] = "undo_fan"
         /\ UNCHANGED <<present, cq, gq, tx, msg>> /\ HardwareInv'
<1>1. PlacesInv /\ PendingInv /\ HardwareInv
  BY DEF SettledInv
<1>2. pc[t] = "undo" /\ UNCHANGED <<config, file, present, cq>>
  BY DEF UndoClocks
<1>3. /\ Accepts(loc[t].gpu, "clocks", loc[t].prev)
      /\ Goto(t, "undo_fan") /\ UNCHANGED <<gq, tx, msg, loc>>
  BY <1>1, <1>2, UndoAccepted DEF UndoClocks, Apply, Field, Undoing
<1>4. Alone(t) /\ pc'[t] = "undo_fan"
  BY <1>3 DEF Goto, Alone, TypeOK
<1>5. loc[t].gpu \in Gpu /\ loc[t].prev \in GpuCfg /\ loc[t].prev["clocks"] \in Val
  BY LocalFields DEF TypeOK, GpuCfg, Field
<1>6. /\ hw'[loc[t].gpu]["clocks"] = loc[t].prev["clocks"]
      /\ \A g \in Gpu \ {loc[t].gpu} : hw'[g] = hw[g]
  BY <1>3, <1>5, WrittenSettings DEF Accepts, Field, TypeOK
<1>7. HardwareInv'
  <2>1. pc[t] \in Changing \cup {"edit_gpu"} /\ pc'[t] \in Changing
    BY <1>2, <1>4 DEF Changing, Undoing
  <2>2. pc'[t] # "edit_fan" /\ pc'[t] \notin Waiting
    BY <1>4 DEF Waiting, Listening
  <2> QED
    BY <1>1, <1>2, <1>3, <1>4, <1>6, <2>1, <2>2, HardwareChanges DEF Alone
<1> QED
  BY <1>2, <1>3, <1>4, <1>7

\* The fan is put back: the GPU has the settings of the configuration again.
LEMMA UndoFanStep ==
  ASSUME OneAfterAnother, TypeOK, AcceptedInv, SettledInv, NEW t \in Task, UndoFan(t)
  PROVE  /\ pc[t] = "undo_fan" /\ Undone(t) /\ UNCHANGED <<config, file, present, cq>>
         /\ \A g \in Gpu : hw'[g] = EntryOf(config', g) /\ EntryOf(file', g) = EntryOf(config', g)
<1>1. PlacesInv /\ PendingInv /\ HardwareInv
  BY DEF SettledInv
<1>2. pc[t] = "undo_fan" /\ UNCHANGED <<config, file, present, cq>>
  BY DEF UndoFan
<1>3. Accepts(loc[t].gpu, "fan", loc[t].prev) /\ Undone(t)
  BY <1>1, <1>2, UndoAccepted DEF UndoFan, Apply, Field, Undoing
<1>4. /\ loc[t].gpu \in Gpu /\ loc[t].prev \in GpuCfg /\ loc[t].prev["fan"] \in Val
      /\ hw \in [Gpu -> GpuCfg]
  BY LocalFields DEF TypeOK, GpuCfg, Field
<1>5. /\ hw'[loc[t].gpu]["fan"] = loc[t].prev["fan"]
      /\ hw'[loc[t].gpu]["clocks"] = hw[loc[t].gpu]["clocks"]
      /\ \A g \in Gpu \ {loc[t].gpu} : hw'[g] = hw[g]
  BY <1>3, <1>4, WrittenSettings DEF Accepts, Field
<1>6. hw' \in [Gpu -> GpuCfg]
  BY <1>3, <1>4, WriteType DEF Accepts, Field
<1>7. /\ hw[loc[t].gpu]["clocks"] = loc[t].prev["clocks"]
      /\ loc[t].prev = EntryOf(config, loc[t].gpu)
  BY <1>1, <1>2 DEF HardwareInv, Changing, Undoing
<1>8. hw'[loc[t].gpu] = loc[t].prev
  BY <1>4, <1>5, <1>6, <1>7, SameSettings
<1>9. ASSUME NEW g \in Gpu \ {loc[t].gpu}
      PROVE  hw[g] = EntryOf(config, g)
  <2>1. \A u \in Task : pc[u] \in Changing => u = t
    BY <1>1, <1>2, OneChange DEF Changing, Undoing
  <2> QED
    BY <1>1, <2>1 DEF HardwareInv
<1>10. \A g \in Gpu : EntryOf(file, g) = EntryOf(config, g)
  BY <1>1 DEF HardwareInv
<1> QED
  BY <1>2, <1>3, <1>5, <1>7, <1>8, <1>9, <1>10

-----------------------------------------------------------------------------
\* Every step of the client keeps the invariant.
LEMMA ClientSettled ==
  ASSUME OneAfterAnother, TypeOK, AcceptedInv, SettledInv,
         NEW c \in Conn, Turn(c), ClientStep(c)
  PROVE  SettledInv'
<1>inv. PlacesInv /\ ConfigQueue /\ GpuQueue /\ PendingInv /\ HardwareInv
  BY DEF SettledInv
<1>task. c \in Task /\ c \notin Slot /\ Slot \subseteq Task /\ Conn \subseteq Task
  BY TasksApart
<1>types. pc \in [Task -> Labels] /\ loc \in [Task -> Local]
  BY DEF TypeOK
<1>asks. ASSUME NEW op, NewRequest(c, op)
         PROVE  /\ pc[c] = "idle" /\ ClientsIdle
                /\ \A k \in Slot : \/ pc[k] = "free"
                                   \/ pc[k] = "confirm_wait" /\ tx = k /\ msg[k] = "none"
                /\ \A u \in Task : pc[u] \notin AtConfig
  BY <1>asks, <1>inv, ClientAsks DEF NewRequest
<1>1. CASE StartEdit(c)
  <2>1. /\ NewRequest(c, "edit") /\ tx = None /\ UNCHANGED <<settings, gq, tx, msg>>
        /\ cq' = Request(cq, c, "r")
    BY <1>1 DEF StartEdit, NoChangePending
  <2>2. Alone(c) /\ pc'[c] = "edit_cfg"
    BY <1>1, <1>task, <1>types DEF StartEdit, Select, Goto, Alone
  <2>3. \A k \in Slot : pc[k] = "free"
    BY <1>asks, <2>1, TasksAreDistinct
  <2>4. ConfigQueue'
    BY <1>asks, <1>inv, <1>task, <2>1, <2>2, ConfigQueueTaken DEF Alone, AtConfig
  <2> QED
    BY <1>asks, <2>1, <2>2, <2>3, <2>4, ClientReads
<1>2. CASE StartFan(c)
  <2>1. /\ NewRequest(c, "fan") /\ UNCHANGED <<settings, gq, tx, msg>>
        /\ cq' = Request(cq, c, "w")
    BY <1>2 DEF StartFan
  <2>2. Alone(c) /\ pc'[c] = "fan_cfg"
    BY <1>2, <1>task, <1>types DEF StartFan, Select, Goto, Alone
  <2>3. ConfigQueue'
    BY <1>asks, <1>inv, <1>task, <2>1, <2>2, ConfigQueueTaken DEF Alone, AtConfig
  <2> QED
    BY <1>asks, <2>1, <2>2, <2>3, ClientReads
<1>3. CASE StartStats(c)
  <2>1. /\ NewRequest(c, "stats") /\ UNCHANGED <<settings, gq, tx, msg>>
        /\ cq' = Request(cq, c, "r")
    BY <1>3 DEF StartStats
  <2>2. Alone(c) /\ pc'[c] = "stats_cfg"
    BY <1>3, <1>task, <1>types DEF StartStats, Goto, Alone
  <2>3. ConfigQueue'
    BY <1>asks, <1>inv, <1>task, <2>1, <2>2, ConfigQueueTaken DEF Alone, AtConfig
  <2> QED
    BY <1>asks, <2>1, <2>2, <2>3, ClientReads DEF Reading
<1>4. CASE StartInfo(c) \/ StartSnapshot(c)
  <2>1. PICK op \in {"info", "snapshot"} : NewRequest(c, op)
    BY <1>4 DEF StartInfo, StartSnapshot
  <2>2. UNCHANGED <<settings, cq, tx, msg>> /\ gq' = Request(gq, c, "r")
    BY <1>4 DEF StartInfo, StartSnapshot
  <2>3. Alone(c) /\ pc'[c] \in {"info_gpu", "snapshot_gpu"}
    BY <1>4, <1>task, <1>types DEF StartInfo, StartSnapshot, Goto, Alone
  <2>4. ConfigQueue'
    <3>1. \A u \in Task : pc'[u] \in AtConfig <=> pc[u] \in AtConfig
      BY <1>asks, <2>1, <2>3 DEF Alone, AtConfig
    <3> QED
      BY <1>inv, <2>2, <3>1, ConfigQueueStays
  <2> QED
    BY <1>asks, <2>1, <2>2, <2>3, <2>4, ClientReads DEF Reading
<1>5. CASE ConfirmPending(c)
  <2>1. /\ NewRequest(c, "confirm") /\ tx # None /\ tx' = None
        /\ UNCHANGED <<settings, locks, pc, loc>>
    BY <1>5 DEF ConfirmPending
  <2>2. PICK command \in {"confirm", "revert"} :
          msg' = IF pc[tx] \in Listening THEN [msg EXCEPT ![tx] = command] ELSE msg
    BY <1>5 DEF ConfirmPending
  <2>3. tx \in Slot /\ pc[tx] # "free" /\ pc[tx] = "confirm_wait"
    BY <1>asks, <1>inv, <2>1 DEF TypeOK, PendingInv
  <2>4. msg'[tx] # "none"
    BY <2>2, <2>3 DEF Listening, TypeOK
  <2>5. PendingInv'
    <3>1. ClientsIdle'
      BY <1>asks, <2>1 DEF ClientsIdle
    <3>2. \A k \in Slot : pc'[k] # "free" => k = tx
      BY <1>inv, <2>1, <2>3 DEF PendingInv
    <3>3. pc'[tx] = "confirm_wait"
      BY <2>1, <2>3
    <3>4. \A d \in Conn : pc'[d] \notin Editing
      BY <3>1 DEF ClientsIdle, Editing
    <3> QED
      BY <2>1, <2>4, <3>1, <3>2, <3>3, <3>4 DEF PendingInv
  <2>6. PlacesInv' /\ ConfigQueue' /\ GpuQueue' /\ HardwareInv'
    BY <1>inv, <2>1 DEF PlacesInv, ConfigQueue, GpuQueue, HardwareInv, settings, locks
  <2> QED
    BY <2>5, <2>6 DEF SettledInv
<1>6. CASE FanEntry(c)
  <2>1. /\ pc[c] = "fan_cfg" /\ UNCHANGED <<file, hw, present, gq, tx, msg>>
        /\ config' = Insert(config, loc[c].gpu, EntryOf(config, loc[c].gpu))
    BY <1>6 DEF FanEntry
  <2>2. \/ /\ tx = None /\ cq' = Request(Release(cq, c), c, "r")
           /\ Goto(c, "edit_cfg") /\ UNCHANGED loc
        \/ cq' = Release(cq, c) /\ Return(c)
    BY <1>6 DEF FanEntry, EnterEdit, NoChangePending
  <2>3. /\ Alone(c)
        /\ \/ pc'[c] = "edit_cfg" /\ tx = None /\ cq' = Request(Release(cq, c), c, "r")
           \/ pc'[c] = "idle" /\ cq' = Release(cq, c)
    BY <2>2, <1>task, <1>types DEF Goto, Return, Alone
  <2>4. ASSUME tx = None
        PROVE  \A k \in Slot : pc[k] = "free"
    <3>1. ~ClientsIdle
      BY <2>1 DEF ClientsIdle
    <3>2. \A k \in Slot : pc[k] \notin Undoing
      BY TasksApart DEF Turn, OneAfterAnother, Applying, Undoing
    <3> QED
      BY <1>inv, <2>4, <3>1, <3>2, TasksAreDistinct DEF PlacesInv, PendingInv, Waiting
  <2>5. PlacesInv' /\ PendingInv'
    <3>1. pc'[c] \in {"idle", "fan_cfg"} \cup Editing \cup Reading
      BY <2>3 DEF Editing
    <3>2. pc'[c] \in Editing => \A k \in Slot : pc[k] = "free"
      BY <2>3, <2>4 DEF Editing
    <3> QED
      BY <1>inv, <2>1, <2>3, <3>1, <3>2, ClientPlaces
  <2>6. ConfigQueue'
    BY <1>inv, <1>task, <2>1, <2>3, ConfigQueueAgain, ConfigQueueLeft DEF AtConfig, Alone
  <2>7. GpuQueue'
    BY <1>inv, <1>task, <2>1, <2>3, GpuQueueStays DEF Alone
  <2>8. HardwareInv'
    <3>1. loc[c].gpu \in Gpu /\ config \in Config /\ EntryOf(config, loc[c].gpu) \in GpuCfg
      BY <1>task, LocalFields, EntryType DEF TypeOK
    <3>2. \A g \in Gpu : EntryOf(config', g) = EntryOf(config, g)
      BY <2>1, <3>1, InsertEntry
    <3>3. pc[c] \notin Changing /\ pc'[c] \notin Changing \cup {"edit_gpu"}
      BY <2>1, <2>3 DEF Changing, Waiting, Listening, Undoing
    <3> QED
      BY <1>inv, <1>task, <2>1, <2>3, <3>2, <3>3, HardwareStays
  <2> QED
    BY <2>5, <2>6, <2>7, <2>8 DEF SettledInv
<1>7. CASE ReadConfig(c)
  <2>1. /\ pc[c] = "edit_cfg" /\ UNCHANGED <<settings, tx, msg>>
        /\ cq' = Release(cq, c) /\ gq' = Request(gq, c, "r") /\ Goto(c, "edit_gpu")
    BY <1>7 DEF ReadConfig
  <2>2. loc' = [loc EXCEPT ![c].prev = EntryOf(config, loc[c].gpu),
                           ![c].new = [EntryOf(config, loc[c].gpu)
                                         EXCEPT ![loc[c].field] = loc[c].val]]
    BY <1>7 DEF ReadConfig
  <2>3. pc'[c] = "edit_gpu" /\ \A u \in Task \ {c} : pc'[u] = pc[u]
    BY <2>1, <1>task, <1>types DEF Goto
  <2>4. \A u \in Task \ {c} : loc'[u] = loc[u]
    BY <2>2, <1>task, <1>types
  <2>5. loc'[c].prev = EntryOf(config, loc[c].gpu) /\ loc'[c].gpu = loc[c].gpu
    BY <2>2, <1>task, <1>types DEF Local
  <2>6. PlacesInv' /\ PendingInv' /\ GpuQueue'
    BY <2>1, <2>3, ClientEdits DEF Editing, settings
  <2>7. ConfigQueue'
    BY <1>inv, <1>task, <2>1, <2>3, ConfigQueueLeft DEF AtConfig
  <2>8. HardwareInv'
    <3>1. \A k \in Slot : pc[k] = "free"
      BY <1>inv, <2>1 DEF PendingInv, Editing
    <3>2. \A u \in Task \ {c} : pc'[u] \notin Changing \cup {"edit_gpu"}
      <4>1. ASSUME NEW u \in Task \ {c}
            PROVE  u \in Slot \/ u \in Listener
        BY <4>1, TasksApart DEF OneAfterAnother
      <4> QED
        BY <1>inv, <2>3, <3>1, <4>1
           DEF PlacesInv, Changing, Waiting, Listening, Undoing
    <3>3. \A u \in Task : pc[u] \notin Changing
      BY <2>1, <2>3, <3>2 DEF Changing, Waiting, Listening, Undoing
    <3>4. \A g \in Gpu : hw'[g] = EntryOf(config', g) /\ EntryOf(file', g) = EntryOf(config', g)
      BY <1>inv, <2>1, <3>3 DEF HardwareInv, settings
    <3>5. ASSUME NEW u \in Task
          PROVE  /\ pc'[u] \in Changing \cup {"edit_gpu"} =>
                      loc'[u].prev = EntryOf(config', loc'[u].gpu)
                 /\ pc'[u] # "edit_fan" /\ pc'[u] \notin Waiting /\ pc'[u] # "undo_fan"
      BY <2>1, <2>3, <2>5, <3>2 DEF settings, Changing, Waiting, Listening, Undoing
    <3> QED
      BY <3>4, <3>5 DEF HardwareInv
  <2> QED
    BY <2>6, <2>7, <2>8 DEF SettledInv
<1>8. CASE EditClocks(c)
  <2>1. pc[c] = "edit_gpu" /\ UNCHANGED <<config, file, present, cq, tx, msg>>
    BY <1>8 DEF EditClocks
  <2>2. loc[c].gpu \in present
    BY <1>inv, <1>task, LocalFields DEF TypeOK, PlacesInv
  <2>3. /\ UNCHANGED <<gq, loc>>
        /\ \/ Accepts(loc[c].gpu, "clocks", loc[c].new) /\ Goto(c, "edit_fan")
           \/ Refuses("clocks", loc[c].new) /\ Goto(c, "undo")
    BY <1>8, <2>2 DEF EditClocks, Apply
  <2>4. pc'[c] \in {"edit_fan", "undo"} /\ \A u \in Task \ {c} : pc'[u] = pc[u]
    BY <2>3, <1>task, <1>types DEF Goto
  <2>5. PlacesInv' /\ PendingInv' /\ GpuQueue' /\ ConfigQueue'
    BY <2>1, <2>3, <2>4, ClientEdits DEF Editing
  <2>6. /\ \A g \in Gpu \ {loc[c].gpu} : hw'[g] = hw[g]
        /\ pc'[c] = "edit_fan" => hw'[loc[c].gpu]["clocks"] = loc[c].new["clocks"]
    <3>1. CASE Accepts(loc[c].gpu, "clocks", loc[c].new)
      <4>1. /\ loc[c].gpu \in Gpu /\ loc[c].new["clocks"] \in Val
            /\ hw \in [Gpu -> GpuCfg] /\ "clocks" \in Field
        BY <1>task, LocalFields DEF TypeOK, GpuCfg, Field
      <4> QED
        BY <3>1, <4>1, WrittenSettings DEF Accepts
    <3>2. CASE Refuses("clocks", loc[c].new) /\ Goto(c, "undo")
      BY <3>2, <1>task, <1>types DEF Refuses, Goto
    <3> QED
      BY <2>3, <3>1, <3>2
  <2>7. HardwareInv'
    <3>1. pc[c] \in Changing \cup {"edit_gpu"} /\ pc'[c] \in Changing
      BY <2>1, <2>4 DEF Changing, Undoing
    <3>2. pc'[c] \notin Waiting /\ pc'[c] # "undo_fan"
      BY <2>4 DEF Waiting, Listening
    <3> QED
      BY <1>inv, <1>task, <2>1, <2>3, <2>4, <2>6, <3>1, <3>2, HardwareChanges
  <2> QED
    BY <2>5, <2>7 DEF SettledInv
<1>9. CASE EditFan(c)
  <2>1. pc[c] = "edit_fan" /\ UNCHANGED <<config, file, present, cq>>
    BY <1>9 DEF EditFan
  <2>2. \A k \in Slot : pc[k] = "free"
    BY <1>inv, <2>1 DEF PendingInv, Editing
  <2>3. CASE /\ Refuses("fan", loc[c].new)
             /\ Goto(c, "undo") /\ UNCHANGED <<gq, tx, msg, loc>>
    <3>1. pc'[c] = "undo" /\ \A u \in Task \ {c} : pc'[u] = pc[u]
      BY <2>3, <1>task, <1>types DEF Goto
    <3>2. PlacesInv' /\ PendingInv' /\ GpuQueue' /\ ConfigQueue'
      BY <2>1, <2>3, <3>1, ClientEdits DEF Editing
    <3>3. HardwareInv'
      <4>1. pc[c] \in Changing \cup {"edit_gpu"} /\ pc'[c] \in Changing
        BY <2>1, <3>1 DEF Changing, Undoing
      <4>2. pc'[c] # "edit_fan" /\ pc'[c] \notin Waiting /\ pc'[c] # "undo_fan"
        BY <3>1 DEF Waiting, Listening
      <4> QED
        BY <1>inv, <1>task, <2>1, <2>3, <3>1, <4>1, <4>2, HardwareChanges DEF Refuses
    <3> QED
      BY <3>2, <3>3 DEF SettledInv
  <2>4. CASE Accepts(loc[c].gpu, "fan", loc[c].new) /\ AwaitConfirm(c)
    <3>1. PICK k \in Slot :
            /\ tx' = k
            /\ msg' = [SenderDropped EXCEPT ![k] = "none"]
            /\ pc' = [pc EXCEPT ![c] = "idle", ![k] = "spawned"]
            /\ loc' = [loc EXCEPT ![k] = loc[c], ![c] = NoLocal]
            /\ gq' = Release(gq, c)
      BY <2>4 DEF AwaitConfirm, FreeSlots
    <3>2. k \in Task /\ k # c
      BY <1>task
    <3>3. /\ pc'[c] = "idle" /\ pc'[k] = "spawned"
          /\ \A u \in Task \ {c, k} : pc'[u] = pc[u]
          /\ loc'[k] = loc[c]
      BY <3>1, <3>2, <1>task, <1>types
    <3>4. msg'[k] = "none"
      BY <3>1, DroppedType
    <3>5. \A d \in Conn : pc'[d] = "idle"
      BY <3>3 DEF OneAfterAnother
    <3>6. \A l \in Slot \ {k} : pc'[l] = "free"
      BY <1>task, <2>2, <3>3
    <3>7. PlacesInv'
      <4>1. \A t \in Listener : pc'[t] = pc[t]
        BY <3>3, <1>task, TasksApart
      <4> QED
        BY <1>inv, <2>1, <3>3, <3>5, <3>6, <4>1 DEF PlacesInv, Waiting, Listening
    <3>8. PendingInv'
      BY <3>1, <3>3, <3>4, <3>5, <3>6 DEF PendingInv, Editing
    <3>9. ConfigQueue'
      <4>1. \A u \in Task : pc'[u] \in AtConfig <=> pc[u] \in AtConfig
        BY <2>1, <2>2, <3>3 DEF AtConfig
      <4> QED
        BY <1>inv, <2>1, <4>1, ConfigQueueStays
    <3>10. GpuQueue'
      BY <1>inv, <1>task, <3>1, <3>3, <3>6, GpuQueueStays
    <3>11. HardwareInv'
      <4>1. /\ loc[c].gpu \in Gpu /\ loc[c].new \in GpuCfg /\ loc[c].new["fan"] \in Val
            /\ hw \in [Gpu -> GpuCfg]
        BY <1>task, LocalFields DEF TypeOK, GpuCfg, Field
      <4>2. /\ hw'[loc[c].gpu]["fan"] = loc[c].new["fan"]
            /\ hw'[loc[c].gpu]["clocks"] = hw[loc[c].gpu]["clocks"]
            /\ \A g \in Gpu \ {loc[c].gpu} : hw'[g] = hw[g]
        BY <2>4, <4>1, WrittenSettings DEF Accepts, Field
      <4>3. hw' \in [Gpu -> GpuCfg]
        BY <2>4, <4>1, WriteType DEF Accepts, Field
      <4>4. hw[loc[c].gpu]["clocks"] = loc[c].new["clocks"]
        BY <1>inv, <1>task, <2>1 DEF HardwareInv
      <4>5. hw'[loc[c].gpu] = loc[c].new
        BY <4>1, <4>2, <4>3, <4>4, SameSettings
      <4>6. pc[c] \in Changing \cup {"edit_gpu"} /\ pc'[k] \in Changing
        BY <2>1, <3>3 DEF Changing, Waiting, Listening
      <4>7. /\ pc'[k] # "edit_fan" /\ pc'[k] # "undo_fan"
            /\ pc'[c] \notin Changing \cup {"edit_gpu"}
        BY <3>3 DEF Changing, Waiting, Listening, Undoing
      <4> QED
        BY <1>inv, <1>task, <2>1, <3>2, <3>3, <4>2, <4>5, <4>6, <4>7, HardwareChanges
    <3> QED
      BY <3>7, <3>8, <3>9, <3>10, <3>11 DEF SettledInv
  <2> QED
    BY <1>9, <2>3, <2>4 DEF EditFan, Apply
<1>10. CASE UndoClocks(c)
  <2>1. /\ Alone(c) /\ pc[c] = "undo" /\ pc'[c] = "undo_fan"
        /\ UNCHANGED <<present, cq, gq, tx, msg>> /\ HardwareInv'
    BY <1>10, <1>task, UndoClocksStep
  <2>2. PlacesInv' /\ PendingInv' /\ GpuQueue' /\ ConfigQueue'
    BY <2>1, ClientEdits DEF Editing, Alone
  <2> QED
    BY <2>1, <2>2 DEF SettledInv
<1>11. CASE UndoFan(c)
  <2>1. /\ pc[c] = "undo_fan" /\ Undone(c) /\ UNCHANGED <<config, file, present, cq>>
        /\ \A g \in Gpu : hw'[g] = EntryOf(config', g) /\ EntryOf(file', g) = EntryOf(config', g)
    BY <1>11, <1>task, UndoFanStep
  <2>2. FailEdit(c)
    BY <2>1, <1>task DEF Undone
  <2>3. /\ pc'[c] = "idle" /\ \A u \in Task \ {c} : pc'[u] = pc[u]
        /\ gq' = Release(gq, c) /\ UNCHANGED <<tx, msg>>
    BY <2>2, <1>task, <1>types DEF FailEdit, Return, Goto
  <2>4. PlacesInv' /\ PendingInv' /\ GpuQueue' /\ ConfigQueue'
    BY <2>1, <2>3, ClientEdits DEF Editing
  <2>5. \A u \in Task : pc'[u] \notin Changing \cup {"edit_gpu"}
    <3>1. pc[c] \in Changing \cup {"edit_gpu"}
      BY <2>1 DEF Changing, Undoing
    <3>2. pc'[c] \notin Changing \cup {"edit_gpu"}
      BY <2>3 DEF Changing, Waiting, Listening, Undoing
    <3> QED
      BY <1>inv, <1>task, <2>3, <3>1, <3>2, OneChange
  <2> QED
    BY <2>1, <2>4, <2>5, HardwareSettles DEF SettledInv
<1>12. CASE StatsController(c) \/ SnapshotDevices(c)
  <2>1. /\ \/ pc[c] = "stats_cfg" /\ Goto(c, "stats_gpu")
           \/ pc[c] = "snapshot_cmd" /\ Goto(c, "snapshot_gpu2")
        /\ gq' = Request(gq, c, "r") /\ UNCHANGED <<settings, cq, tx, msg, loc>>
    BY <1>12 DEF StatsController, SnapshotDevices
  <2>2. /\ Alone(c)
        /\ \/ pc[c] = "stats_cfg" /\ pc'[c] = "stats_gpu"
           \/ pc[c] = "snapshot_cmd" /\ pc'[c] = "snapshot_gpu2"
    BY <2>1, <1>task, <1>types DEF Goto, Alone
  <2>3. ConfigQueue'
    <3>1. \A u \in Task : pc'[u] \in AtConfig <=> pc[u] \in AtConfig
      BY <2>2 DEF Alone, AtConfig
    <3> QED
      BY <1>inv, <2>1, <3>1, ConfigQueueStays
  <2> QED
    BY <2>1, <2>2, <2>3, ClientReads DEF Reading
<1>13. CASE ReadStats(c) \/ EndSnapshot(c)
  <2>1. /\ pc[c] \in {"stats_gpu", "snapshot_cfg"} /\ cq' = Release(cq, c)
        /\ gq' \in {Release(gq, c), Release(Release(gq, c), c)}
        /\ Return(c) /\ UNCHANGED <<settings, tx, msg>>
    BY <1>13 DEF ReadStats, EndSnapshot
  <2>2. Alone(c) /\ pc'[c] = "idle"
    BY <2>1, <1>task, <1>types DEF Return, Goto, Alone
  <2>3. ConfigQueue'
    BY <1>inv, <1>task, <2>1, <2>2, ConfigQueueLeft DEF AtConfig, Alone
  <2>4. pc[c] \in Reading /\ pc[c] # "idle"
    BY <2>1 DEF Reading
  <2> QED
    BY <2>1, <2>2, <2>3, <2>4, ClientReads
<1>14. CASE ReadInfo(c) \/ SnapshotFiles(c)
  <2>1. /\ pc[c] \in {"info_gpu", "snapshot_gpu"}
        /\ gq' \in {gq, Release(gq, c)} /\ UNCHANGED <<settings, cq, tx, msg>>
        /\ Return(c) \/ (Goto(c, "snapshot_cmd") /\ UNCHANGED loc)
    BY <1>14 DEF ReadInfo, SnapshotFiles
  <2>2. Alone(c) /\ pc'[c] \in {"idle", "snapshot_cmd"}
    BY <2>1, <1>task, <1>types DEF Return, Goto, Alone
  <2>3. ConfigQueue'
    <3>1. \A u \in Task : pc'[u] \in AtConfig <=> pc[u] \in AtConfig
      BY <2>1, <2>2 DEF Alone, AtConfig
    <3> QED
      BY <1>inv, <2>1, <3>1, ConfigQueueStays
  <2>4. pc[c] \in Reading /\ pc[c] # "idle"
    BY <2>1 DEF Reading
  <2>5. pc'[c] \in {"idle", "fan_cfg", "edit_cfg"} \cup Reading /\ pc'[c] # "edit_cfg"
    BY <2>2 DEF Reading
  <2> QED
    BY <2>1, <2>2, <2>3, <2>4, <2>5, ClientReads
<1>15. CASE SnapshotConfig(c)
  <2>1. /\ pc[c] = "snapshot_gpu2" /\ cq' = Request(cq, c, "r") /\ Goto(c, "snapshot_cfg")
        /\ UNCHANGED <<settings, gq, tx, msg, loc>>
    BY <1>15 DEF SnapshotConfig
  <2>2. Alone(c) /\ pc'[c] = "snapshot_cfg"
    BY <2>1, <1>task, <1>types DEF Goto, Alone
  <2>3. \A u \in Task : pc[u] \notin AtConfig
    <3>1. \A d \in Conn : pc[d] = "snapshot_gpu2"
      BY <2>1 DEF OneAfterAnother
    <3>2. ~ClientsIdle
      BY <2>1 DEF ClientsIdle
    <3>3. \A k \in Slot : pc[k] \notin AtConfig
      BY <1>inv, <3>2 DEF PlacesInv, PendingInv, AtConfig, Waiting, Listening, Undoing
    <3>4. \A t \in Listener : pc[t] \notin AtConfig
      BY <1>inv DEF PlacesInv, AtConfig
    <3>5. \A d \in Conn : pc[d] \notin AtConfig
      BY <3>1 DEF AtConfig
    <3> QED
      BY <3>3, <3>4, <3>5, TasksApart
  <2>4. ConfigQueue'
    BY <1>inv, <1>task, <2>1, <2>2, <2>3, ConfigQueueTaken DEF Alone, AtConfig
  <2> QED
    BY <2>1, <2>2, <2>4, ClientReads DEF Reading
<1> QED
  BY <1>1, <1>2, <1>3, <1>4, <1>5, <1>6, <1>7, <1>8, <1>9, <1>10, <1>11, <1>12,
     <1>13, <1>14, <1>15 DEF ClientStep

-----------------------------------------------------------------------------
\* Every step of the confirmation task keeps the invariant.
LEMMA ConfirmSettled ==
  ASSUME OneAfterAnother, TypeOK, AcceptedInv, SettledInv,
         NEW k \in Slot, ConfirmStep(k)
  PROVE  SettledInv'
<1>inv. PlacesInv /\ ConfigQueue /\ GpuQueue /\ PendingInv /\ HardwareInv
  BY DEF SettledInv
<1>task. k \in Task /\ k \notin Conn /\ Slot \subseteq Task
  BY TasksApart
<1>types. pc \in [Task -> Labels] /\ loc \in [Task -> Local]
  BY DEF TypeOK
<1>goes. ASSUME pc[k] \in Listening, Alone(k), loc' = loc, UNCHANGED settings,
                pc'[k] \in Waiting \cup {"undo"}
         PROVE  HardwareInv'
  <2>1. pc[k] \in Changing \cup {"edit_gpu"} /\ pc'[k] \in Changing
    BY <1>goes DEF Changing, Waiting, Undoing
  <2>2. pc'[k] # "edit_fan" /\ pc'[k] # "undo_fan"
    BY <1>goes DEF Waiting, Listening
  <2>3. hw'[loc'[k].gpu] = loc'[k].new
    BY <1>inv, <1>task, <1>goes DEF HardwareInv, Waiting, settings
  <2> QED
    BY <1>inv, <1>task, <1>goes, <2>1, <2>2, <2>3, HardwareChanges DEF Alone, settings
<1>1. CASE SpawnedPoll(k)
  <2>1. /\ pc[k] = "spawned" /\ gq' = Request(gq, k, "r") /\ Goto(k, "confirm_gpu")
        /\ UNCHANGED <<settings, cq, tx, msg, loc>>
    BY <1>1 DEF SpawnedPoll
  <2>2. Alone(k) /\ pc'[k] = "confirm_gpu"
    BY <2>1, <1>task, <1>types DEF Goto, Alone
  <2>3. PlacesInv' /\ PendingInv'
    BY <2>1, <2>2, ConfirmPlaces DEF Alone, Waiting, Listening, settings
  <2>4. ConfigQueue'
    <3>1. \A u \in Task : pc'[u] \in AtConfig <=> pc[u] \in AtConfig
      BY <2>1, <2>2 DEF Alone, AtConfig
    <3> QED
      BY <1>inv, <2>1, <3>1, ConfigQueueStays
  <2>5. GpuQueue'
    BY <1>inv, <1>task, <2>1, <2>2, GpuQueueStays DEF Alone
  <2>6. HardwareInv'
    BY <1>goes, <2>1, <2>2 DEF Waiting, Listening
  <2> QED
    BY <2>3, <2>4, <2>5, <2>6 DEF SettledInv
<1>2. CASE HoldController(k)
  <2>1. loc[k].gpu \in present
    BY <1>inv, <1>task, LocalFields DEF TypeOK, PlacesInv
  <2>2. /\ pc[k] = "confirm_gpu" /\ Goto(k, "confirm_wait")
        /\ UNCHANGED <<settings, cq, gq, tx, msg, loc>>
    BY <1>2, <2>1 DEF HoldController
  <2>3. Alone(k) /\ pc'[k] = "confirm_wait"
    BY <2>2, <1>task, <1>types DEF Goto, Alone
  <2>4. PlacesInv' /\ PendingInv'
    BY <2>2, <2>3, ConfirmPlaces DEF Alone, Waiting, Listening, settings
  <2>5. ConfigQueue'
    <3>1. \A u \in Task : pc'[u] \in AtConfig <=> pc[u] \in AtConfig
      BY <2>2, <2>3 DEF Alone, AtConfig
    <3> QED
      BY <1>inv, <2>2, <3>1, ConfigQueueStays
  <2>6. GpuQueue'
    BY <1>inv, <1>task, <2>2, <2>3, GpuQueueStays DEF Alone
  <2>7. HardwareInv'
    BY <1>goes, <2>2, <2>3 DEF Waiting, Listening
  <2> QED
    BY <2>4, <2>5, <2>6, <2>7 DEF SettledInv
<1>3. CASE TimerExpires(k) \/ ReceiveRevert(k)
  <2>1. /\ pc[k] = "confirm_wait" /\ Goto(k, "undo")
        /\ UNCHANGED <<settings, locks, tx, loc>>
    BY <1>3 DEF TimerExpires, ReceiveRevert
  <2>2. Alone(k) /\ pc'[k] = "undo"
    BY <2>1, <1>task, <1>types DEF Goto, Alone
  <2>3. PlacesInv' /\ PendingInv'
    BY <2>1, <2>2, ConfirmPlaces DEF Alone, Waiting, Listening, Undoing, settings
  <2>4. ConfigQueue'
    <3>1. \A u \in Task : pc'[u] \in AtConfig <=> pc[u] \in AtConfig
      BY <2>1, <2>2 DEF Alone, AtConfig
    <3> QED
      BY <1>inv, <2>1, <3>1, ConfigQueueStays DEF locks
  <2>5. GpuQueue'
    BY <1>inv, <1>task, <2>1, <2>2, GpuQueueStays DEF Alone, locks
  <2>6. HardwareInv'
    BY <1>goes, <2>1, <2>2 DEF Listening
  <2> QED
    BY <2>3, <2>4, <2>5, <2>6 DEF SettledInv
<1>4. CASE ReceiveConfirm(k)
  <2>1. /\ pc[k] = "confirm_wait" /\ msg[k] = "confirm" /\ Goto(k, "save_cfg")
        /\ cq' = Request(cq, k, "w") /\ UNCHANGED <<settings, gq, tx, loc>>
    BY <1>4 DEF ReceiveConfirm
  <2>2. Alone(k) /\ pc'[k] = "save_cfg"
    BY <2>1, <1>task, <1>types DEF Goto, Alone
  <2>3. ClientsIdle
    BY <1>inv, <2>1 DEF PendingInv, Listening
  <2>4. PlacesInv' /\ PendingInv'
    BY <2>1, <2>2, <2>3, ConfirmPlaces DEF Alone, Waiting, Listening, settings
  <2>5. \A u \in Task : pc[u] \notin AtConfig
    <3>1. \A l \in Slot : pc[l] \notin AtConfig
      BY <1>inv, <2>1 DEF PendingInv, AtConfig
    <3>2. \A t \in Listener : pc[t] \notin AtConfig
      BY <1>inv DEF PlacesInv, AtConfig
    <3>3. \A d \in Conn : pc[d] \notin AtConfig
      BY <2>3 DEF ClientsIdle, AtConfig
    <3> QED
      BY <3>1, <3>2, <3>3, TasksApart
  <2>6. ConfigQueue'
    BY <1>inv, <1>task, <2>1, <2>2, <2>5, ConfigQueueTaken DEF Alone, AtConfig
  <2>7. GpuQueue'
    BY <1>inv, <1>task, <2>1, <2>2, GpuQueueStays DEF Alone
  <2>8. HardwareInv'
    BY <1>goes, <2>1, <2>2 DEF Waiting, Listening
  <2> QED
    BY <2>4, <2>6, <2>7, <2>8 DEF SettledInv
<1>5. CASE SaveConfirmed(k)
  <2>1. /\ pc[k] = "save_cfg" /\ cq' = Release(cq, k) /\ EndConfirm(k)
        /\ config' = Insert(config, loc[k].gpu, loc[k].new)
        /\ Save /\ UNCHANGED <<hw, present>>
    BY <1>5 DEF SaveConfirmed
  <2>2. file' = config'
    BY <2>1 DEF Save, OneAfterAnother
  <2>3. /\ PlacesInv' /\ PendingInv' /\ GpuQueue' /\ Alone(k) /\ pc'[k] = "free"
        /\ \A u \in Task : pc'[u] \notin Changing \cup {"edit_gpu"}
    BY <2>1, ConfirmEnds
  <2>4. ConfigQueue'
    BY <1>inv, <1>task, <2>1, <2>3, ConfigQueueLeft DEF AtConfig, Alone
  <2>5. /\ pc[k] \in Changing \cup {"edit_gpu"} /\ pc[k] \in Changing
        /\ hw[loc[k].gpu] = loc[k].new
    BY <1>inv, <1>task, <2>1 DEF HardwareInv, Changing, Waiting
  <2>6. \A u \in Task : pc[u] \in Changing => u = k
    BY <1>inv, <1>task, <2>5, OneChange
  <2>7. \A g \in Gpu \ {loc[k].gpu} : hw[g] = EntryOf(config, g)
    BY <1>inv, <2>6 DEF HardwareInv
  <2>8. loc[k].gpu \in Gpu /\ loc[k].new \in GpuCfg /\ config \in Config
    BY <1>task, LocalFields DEF TypeOK
  <2>9. \A g \in Gpu : hw'[g] = EntryOf(config', g)
    BY <2>1, <2>5, <2>7, <2>8, InsertEntry
  <2>10. HardwareInv'
    BY <2>2, <2>3, <2>9, HardwareSettles
  <2> QED
    BY <2>3, <2>4, <2>10 DEF SettledInv
<1>6. CASE UndoClocks(k)
  <2>1. /\ Alone(k) /\ pc[k] = "undo" /\ pc'[k] = "undo_fan"
        /\ UNCHANGED <<present, cq, gq, tx, msg>> /\ HardwareInv'
    BY <1>6, <1>task, UndoClocksStep
  <2>2. PlacesInv' /\ PendingInv'
    BY <2>1, ConfirmPlaces DEF Alone, Waiting, Listening, Undoing
  <2>3. ConfigQueue'
    <3>1. \A u \in Task : pc'[u] \in AtConfig <=> pc[u] \in AtConfig
      BY <2>1 DEF Alone, AtConfig
    <3> QED
      BY <1>inv, <2>1, <3>1, ConfigQueueStays
  <2>4. GpuQueue'
    BY <1>inv, <1>task, <2>1, GpuQueueStays DEF Alone
  <2> QED
    BY <2>1, <2>2, <2>3, <2>4 DEF SettledInv
<1>7. CASE UndoFan(k)
  <2>1. /\ pc[k] = "undo_fan" /\ Undone(k) /\ UNCHANGED <<config, file, present, cq>>
        /\ \A g \in Gpu : hw'[g] = EntryOf(config', g) /\ EntryOf(file', g) = EntryOf(config', g)
    BY <1>7, <1>task, UndoFanStep
  <2>2. EndConfirm(k)
    BY <2>1, <1>task DEF Undone
  <2>3. /\ PlacesInv' /\ PendingInv' /\ GpuQueue' /\ Alone(k) /\ pc'[k] = "free"
        /\ \A u \in Task : pc'[u] \notin Changing \cup {"edit_gpu"}
    BY <2>1, <2>2, ConfirmEnds
  <2>4. ConfigQueue'
    <3>1. \A u \in Task : pc'[u] \in AtConfig <=> pc[u] \in AtConfig
      BY <2>1, <2>3 DEF Alone, AtConfig
    <3> QED
      BY <1>inv, <2>1, <3>1, ConfigQueueStays
  <2> QED
    BY <2>1, <2>3, <2>4, HardwareSettles DEF SettledInv
<1> QED
  BY <1>1, <1>2, <1>3, <1>4, <1>5, <1>6, <1>7 DEF ConfirmStep

\* The daemon starts with the configuration it has applied.
LEMMA SettledInit == Init => SettledInv
<1> SUFFICES ASSUME Init
             PROVE  SettledInv
  OBVIOUS
<1>1. \A t \in Task : pc[t] = IF t \in Slot THEN "free" ELSE "idle"
  BY DEF Init
<1>2. PlacesInv
  BY <1>1, TasksApart DEF Init, PlacesInv
<1>3. ConfigQueue /\ GpuQueue
  BY <1>1, TasksApart DEF Init, ConfigQueue, GpuQueue, ReadsOnly, AtConfig
<1>4. PendingInv
  BY <1>1, TasksApart DEF Init, PendingInv
<1>5. HardwareInv
  BY <1>1 DEF Init, HardwareInv, Changing, Waiting, Listening, Undoing
<1> QED
  BY <1>2, <1>3, <1>4, <1>5 DEF SettledInv

\* The invariant of the transactions of a single client.
LEMMA SettledAlways ==
  ASSUME OneAfterAnother
  PROVE  Spec => []SettledInv
<1>1. "file" \notin Ops
  BY DEF OneAfterAnother
<1>2. TypeOK /\ AcceptedInv /\ SettledInv /\ [Next]_vars => AcceptedInv' /\ SettledInv'
  <2>1. ASSUME AcceptedInv, SettledInv, UNCHANGED vars
        PROVE  AcceptedInv' /\ SettledInv'
    <3>1. AcceptedInv'
      BY <2>1 DEF vars, AcceptedInv, ConfigAccepted, Accepted
    <3>2. SettledInv'
      BY <2>1 DEF vars, SettledInv, PlacesInv, ConfigQueue, GpuQueue, PendingInv,
                  ClientsIdle, HardwareInv
    <3> QED
      BY <3>1, <3>2
  <2>2. ASSUME TypeOK, AcceptedInv, SettledInv, Next
        PROVE  AcceptedInv' /\ SettledInv'
    <3>1. PlacesInv
      BY <2>2 DEF SettledInv
    <3> QED
      BY <1>1, <2>2, <3>1, AcceptedStep, LiveSteps, ClientSettled, ConfirmSettled
  <2> QED
    BY <2>1, <2>2
<1> QED
  BY <1>2, AcceptedInit, SettledInit, TypeCorrect, PTL DEF Spec

\* Whatever is confirmed, reverted, refused or runs out of time leaves the
\* GPUs, the configuration and the file with the same settings once no task is
\* busy (edit_gpu_config, wait_config_confirm).
THEOREM ChangesLeaveNoTrace ==
  ASSUME OneAfterAnother
  PROVE  Spec => []SettledAgree
<1>1. SettledInv => SettledAgree
  <2> SUFFICES ASSUME SettledInv, AtRest, NEW g \in present
               PROVE  hw[g] = EntryOf(config, g) /\ EntryOf(file, g) = EntryOf(config, g)
    BY DEF SettledAgree
  <2>1. g \in Gpu /\ HardwareInv
    BY DEF SettledInv, PlacesInv
  <2>2. \A t \in Task : pc[t] \notin Changing
    BY DEF AtRest, Changing, Waiting, Listening, Undoing
  <2> QED
    BY <2>1, <2>2 DEF HardwareInv
<1> QED
  BY <1>1, SettledAlways, PTL

\* What a revert or a timeout applies is what the configuration holds for that
\* GPU at that time.
THEOREM RevertRestoresSaved ==
  ASSUME OneAfterAnother
  PROVE  Spec => []RevertsToSaved
<1>1. SettledInv => RevertsToSaved
  <2> SUFFICES ASSUME SettledInv, NEW k \in Slot, pc[k] \in SlotLabels \ {"free", "panicked"}
               PROVE  loc[k].prev = EntryOf(config, loc[k].gpu)
    BY DEF RevertsToSaved
  <2>1. pc[k] \in Changing /\ k \in Task
    BY TasksApart DEF SlotLabels, Changing, Waiting, Listening, Undoing
  <2> QED
    BY <2>1 DEF SettledInv, HardwareInv
<1> QED
  BY <1>1, SettledAlways, PTL
=============================================================================
