---------------------------- MODULE ClientProofs ----------------------------
(* Every call returns its own answer, for any number of tasks, requests and   *)
(* restarts of the daemon, as long as no call is aborted. The mutex around    *)
(* the stream admits one call at a time, and a call takes everything with it  *)
(* that it has put on the way: when the next one writes, nothing is left to   *)
(* read. Then, with aborted calls as well: no request is carried out twice.   *)
EXTENDS Client, TLAPS

NoAborts == aborts = MaxAborts
Places == {"idle", "lock", "write", "read", "reconnect"}
Typed ==
  /\ pc \in [Task -> Places]
  /\ DOMAIN req = Task /\ DOMAIN answer = Task
  /\ aborts \in Nat /\ aborts <= MaxAborts
HoldersHold == \A t \in Task : pc[t] \in {"write", "read", "reconnect"} => holder = t
ClosedIsEmpty == peer # "open" => sent = <<>> /\ inbox = <<>>

(* The request or the answer of r is on its way, or nothing is. *)
Empty == buffer = <<>> /\ socket = <<>> /\ sent = <<>> /\ inbox = <<>>
OnItsWay(r) ==
  /\ buffer = <<>>
  /\ \/ socket = <<r>> /\ sent = <<>> /\ inbox = <<>>
     \/ socket = <<>> /\ sent = <<r>> /\ inbox = <<>>
     \/ socket = <<>> /\ sent = <<>> /\ inbox = <<r>>
OwnIsOnItsWay == Empty \/ \E t \in Task : pc[t] = "read" /\ OnItsWay(req[t])

ClientInv == /\ Typed /\ HoldersHold /\ ClosedIsEmpty
             /\ NoAborts => OwnIsOnItsWay
             /\ AnswersOwn

LEMMA InitClientInv == Init => ClientInv
  BY BoundsAreNumbers
  DEF Init, ClientInv, Typed, Places, HoldersHold, ClosedIsEmpty, OwnIsOnItsWay, Empty, AnswersOwn

(* What is on its way belongs to the call that holds the mutex. *)
LEMMA OnlyTheHolderWaits ==
  ASSUME ClientInv, NoAborts, NEW t \in Task, pc[t] \in {"write", "read", "reconnect"}
  PROVE  Empty \/ (pc[t] = "read" /\ OnItsWay(req[t]))
  BY DEF ClientInv, HoldersHold, OwnIsOnItsWay

LEMMA CallKeeps ==
  ASSUME ClientInv, NEW t \in Task, Call(t) \/ LockStream(t)
  PROVE  ClientInv'
<1>1. Typed'
  BY DEF Call, LockStream, ClientInv, Typed, Places, bounds
<1>2. HoldersHold'
  BY TasksAreTasks DEF Call, LockStream, ClientInv, Typed, Places, HoldersHold
<1>3. UNCHANGED <<connection, aborts, answer>>
  BY DEF Call, LockStream, bounds
<1>4. ClosedIsEmpty'
  BY <1>3 DEF ClientInv, ClosedIsEmpty, connection
<1>5. \A u \in Task : pc[u] = "read" => pc'[u] = "read" /\ req'[u] = req[u]
  BY DEF Call, LockStream, ClientInv, Typed
<1>6. NoAborts' => OwnIsOnItsWay'
  BY <1>3, <1>5 DEF ClientInv, NoAborts, OwnIsOnItsWay, Empty, OnItsWay, connection
<1>7. AnswersOwn'
  BY <1>3 DEF Call, LockStream, ClientInv, Typed, AnswersOwn
<1> QED
  BY <1>1, <1>2, <1>4, <1>6, <1>7 DEF ClientInv

LEMMA WriteKeeps ==
  ASSUME ClientInv, NEW t \in Task, WriteRequest(t)
  PROVE  ClientInv'
<1>1. /\ pc[t] = "write"
      /\ UNCHANGED <<req, answer, mutex, buffer, socket, inbox, peer, bounds>>
      /\ \/ pc' = [pc EXCEPT ![t] = "reconnect"] /\ sent' = sent
         \/ pc' = [pc EXCEPT ![t] = "read"] /\ sent' = Append(sent, req[t]) /\ peer = "open"
  BY DEF WriteRequest, Reconnect
<1>2. Typed' /\ HoldersHold' /\ ClosedIsEmpty'
  BY <1>1 DEF ClientInv, Typed, Places, HoldersHold, ClosedIsEmpty, mutex, bounds
<1>3. AnswersOwn'
  BY <1>1 DEF ClientInv, Typed, AnswersOwn, bounds
<1>4. ASSUME NoAborts
      PROVE  OwnIsOnItsWay'
  <2>1. Empty
    BY <1>1, <1>4, OnlyTheHolderWaits
  <2>2. CASE pc' = [pc EXCEPT ![t] = "reconnect"] /\ sent' = sent
    BY <1>1, <2>1, <2>2 DEF OwnIsOnItsWay, Empty
  <2>3. CASE pc' = [pc EXCEPT ![t] = "read"] /\ sent' = Append(sent, req[t])
    <3>1. sent' = <<req'[t]>>
      BY <1>1, <2>1, <2>3 DEF Empty
    <3>2. OnItsWay(req[t])'
      BY <1>1, <2>1, <3>1 DEF Empty, OnItsWay
    <3>3. pc'[t] = "read"
      BY <2>3 DEF ClientInv, Typed
    <3> QED
      BY <3>2, <3>3 DEF OwnIsOnItsWay
  <2> QED
    BY <1>1, <2>2, <2>3
<1> QED
  BY <1>1, <1>2, <1>3, <1>4 DEF ClientInv, NoAborts, bounds

LEMMA ReadKeeps ==
  ASSUME ClientInv, NEW t \in Task, ReadAnswer(t)
  PROVE  ClientInv'
<1>1. /\ pc[t] = "read" /\ socket # <<>>
      /\ pc' = [pc EXCEPT ![t] = "idle"] /\ answer' = [answer EXCEPT ![t] = Head(socket)]
      /\ holder' = None /\ UNCHANGED <<req, sent, inbox, peer, aborts>>
  BY DEF ReadAnswer, Answered, Unlock, bounds
<1>2. PICK n \in 1..Len(socket) : /\ buffer' = SubSeq(socket, 2, n)
                                  /\ socket' = SubSeq(socket, n + 1, Len(socket))
  BY DEF ReadAnswer
<1>3. Typed' /\ HoldersHold' /\ ClosedIsEmpty'
  BY <1>1 DEF ClientInv, Typed, Places, HoldersHold, ClosedIsEmpty
<1>4. ASSUME NoAborts
      PROVE  OwnIsOnItsWay' /\ AnswersOwn'
  <2>1. socket = <<req[t]>> /\ sent = <<>> /\ inbox = <<>>
    BY <1>1, <1>4, OnlyTheHolderWaits DEF Empty, OnItsWay
  <2>2. n = 1 /\ buffer' = <<>> /\ socket' = <<>>
    BY <1>2, <2>1
  <2>3. Head(socket) = req[t]
    BY <2>1
  <2>4. AnswersOwn'
    BY <1>1, <1>4, <2>3 DEF ClientInv, Typed, AnswersOwn, NoAborts
  <2> QED
    BY <1>1, <2>1, <2>2, <2>4 DEF OwnIsOnItsWay, Empty
<1> QED
  BY <1>1, <1>3, <1>4 DEF ClientInv, NoAborts, AnswersOwn

LEMMA EndKeeps ==
  ASSUME ClientInv, NEW t \in Task, ReadEnd(t)
  PROVE  ClientInv'
<1>1. /\ pc[t] = "read" /\ socket = <<>> /\ peer # "open"
      /\ UNCHANGED <<req, connection, aborts>>
      /\ \/ pc' = [pc EXCEPT ![t] = "reconnect"] /\ UNCHANGED <<answer, mutex>>
         \/ /\ pc' = [pc EXCEPT ![t] = "idle"] /\ holder' = None
            /\ answer' = [answer EXCEPT ![t] = NoAnswer]
  BY DEF ReadEnd, Reconnect, Answered, Unlock, bounds
<1>2. Typed' /\ HoldersHold' /\ ClosedIsEmpty'
  BY <1>1 DEF ClientInv, Typed, Places, HoldersHold, ClosedIsEmpty, mutex, connection
<1>3. ASSUME NoAborts
      PROVE  OwnIsOnItsWay'
  <2>1. Empty
    BY <1>1, <1>3, OnlyTheHolderWaits DEF ClientInv, ClosedIsEmpty, Empty, OnItsWay
  <2> QED
    BY <1>1, <2>1 DEF OwnIsOnItsWay, Empty, connection
<1>4. AnswersOwn'
  BY <1>1 DEF ClientInv, Typed, AnswersOwn
<1> QED
  BY <1>1, <1>2, <1>3, <1>4 DEF ClientInv, NoAborts

LEMMA ConnectKeeps ==
  ASSUME ClientInv, NEW t \in Task, NewConnection(t)
  PROVE  ClientInv'
<1>1. /\ pc[t] = "reconnect" /\ pc' = [pc EXCEPT ![t] = "lock"] /\ holder' = None
      /\ Empty' /\ peer' = "open" /\ UNCHANGED <<req, answer, aborts>>
  BY DEF NewConnection, ReplaceStream, Empty, bounds
<1>2. Typed' /\ HoldersHold' /\ ClosedIsEmpty'
  BY <1>1 DEF ClientInv, Typed, Places, HoldersHold, ClosedIsEmpty
<1>3. AnswersOwn'
  BY <1>1 DEF ClientInv, Typed, AnswersOwn
<1> QED
  BY <1>1, <1>2, <1>3 DEF ClientInv, OwnIsOnItsWay

(* After an abort nothing is promised any more. *)
LEMMA AbortKeeps ==
  ASSUME ClientInv, NEW t \in Task, Abort(t)
  PROVE  ClientInv'
<1>1. /\ aborts > 0 /\ aborts' = aborts - 1 /\ pc' = [pc EXCEPT ![t] = "idle"]
      /\ holder' = IF holder = t THEN None ELSE holder
      /\ answer' = [answer EXCEPT ![t] = req[t]] /\ UNCHANGED <<req, connection>>
  BY DEF Abort
<1>2. Typed' /\ ~NoAborts'
  BY <1>1, BoundsAreNumbers DEF ClientInv, Typed, Places, NoAborts
<1>3. HoldersHold' /\ ClosedIsEmpty'
  BY <1>1 DEF ClientInv, Typed, HoldersHold, ClosedIsEmpty, connection
<1> QED
  BY <1>2, <1>3 DEF ClientInv, AnswersOwn, NoAborts

LEMMA DaemonKeeps ==
  ASSUME ClientInv, Serve \/ Stop \/ Restart
  PROVE  ClientInv'
<1>1. UNCHANGED <<pc, req, answer, mutex, aborts, buffer>>
  BY DEF Serve, ReadRequests, WriteAnswer, Stop, Restart, bounds, connection
<1>2. Typed' /\ HoldersHold' /\ AnswersOwn'
  BY <1>1 DEF ClientInv, Typed, HoldersHold, AnswersOwn, mutex
<1>3. CASE ReadRequests
  <2>1. sent # <<>> /\ inbox' = sent /\ sent' = <<>> /\ UNCHANGED <<socket, peer>> /\ peer = "open"
    BY <1>3 DEF ReadRequests
  <2>2. ASSUME NEW r, OnItsWay(r)
        PROVE  OnItsWay(r)'
    BY <1>1, <2>1, <2>2 DEF OnItsWay
  <2> QED
    BY <1>1, <1>2, <2>1, <2>2
    DEF ClientInv, ClosedIsEmpty, NoAborts, OwnIsOnItsWay, Empty
<1>4. CASE WriteAnswer
  <2>1. /\ inbox # <<>> /\ socket' = Append(socket, Head(inbox)) /\ inbox' = Tail(inbox)
        /\ UNCHANGED <<sent, peer>> /\ peer = "open"
    BY <1>4 DEF WriteAnswer
  <2>2. ASSUME NEW r, OnItsWay(r)
        PROVE  OnItsWay(r)'
    <3>1. socket = <<>> /\ sent = <<>> /\ inbox = <<r>>
      BY <2>1, <2>2 DEF OnItsWay
    <3>2. socket' = <<r>> /\ inbox' = <<>>
      BY <2>1, <3>1
    <3> QED
      BY <1>1, <2>1, <2>2, <3>1, <3>2 DEF OnItsWay
  <2> QED
    BY <1>1, <1>2, <2>1, <2>2
    DEF ClientInv, ClosedIsEmpty, NoAborts, OwnIsOnItsWay, Empty
<1>5. CASE Stop
  <2>1. sent' = <<>> /\ inbox' = <<>> /\ UNCHANGED socket
    BY <1>5 DEF Stop
  <2>2. ASSUME NEW r, OnItsWay(r)
        PROVE  Empty' \/ OnItsWay(r)'
    BY <1>1, <2>1, <2>2 DEF OnItsWay, Empty
  <2> QED
    BY <1>1, <1>2, <2>1, <2>2
    DEF ClientInv, ClosedIsEmpty, NoAborts, OwnIsOnItsWay, Empty
<1>6. CASE Restart
  BY <1>1, <1>2, <1>6
  DEF Restart, connection, ClientInv, ClosedIsEmpty, NoAborts, OwnIsOnItsWay, Empty, OnItsWay
<1> QED
  BY <1>3, <1>4, <1>5, <1>6 DEF Serve

LEMMA ClientStep == ClientInv /\ [Next]_vars => ClientInv'
<1> SUFFICES ASSUME ClientInv, [Next]_vars
             PROVE  ClientInv'
  OBVIOUS
<1>1. ASSUME NEW t \in Task, Call(t) \/ Calling(t) \/ Abort(t)
      PROVE  ClientInv'
  BY <1>1, CallKeeps, WriteKeeps, ReadKeeps, EndKeeps, ConnectKeeps, AbortKeeps DEF Calling
<1>2. CASE Serve \/ Stop \/ Restart
  BY <1>2, DaemonKeeps
<1>3. CASE UNCHANGED vars
  BY <1>3 DEF vars, mutex, connection, bounds, ClientInv, Typed, HoldersHold, ClosedIsEmpty,
              NoAborts, OwnIsOnItsWay, Empty, OnItsWay, AnswersOwn
<1> QED
  BY <1>1, <1>2, <1>3 DEF Next

(* AnswersOwn for any tasks that share the connection, any requests, and a     *)
(* daemon that stops and starts at any time (lact-client/src/lib.rs): until    *)
(* the first call is aborted.                                                  *)
THEOREM AnswersAreOwn == Spec => []AnswersOwn
<1>1. ClientInv => AnswersOwn
  BY DEF ClientInv
<1> QED
  BY <1>1, InitClientInv, ClientStep, PTL DEF Spec
-----------------------------------------------------------------------------
(* No request is carried out twice, with any calls that are aborted. What is   *)
(* repeated is a request that has not been read: one that was not written, or  *)
(* one that was in the socket when the connection was reset. The call that     *)
(* waits for an answer has written last, so that a reset means that its own    *)
(* request was among those the daemon has left.                                *)
Made == 1..next - 1
Numbered ==
  /\ next \in Nat \ {0} /\ next <= MaxRequests + 1
  /\ executed \in [Request -> Nat]
  /\ sent \in Seq(Made) /\ inbox \in Seq(Made)
  /\ \A r \in Request : r >= next => executed[r] = 0
OwnRequests ==
  /\ \A t \in Task : pc[t] # "idle" => req[t] \in Made
  /\ \A t, u \in Task : pc[t] # "idle" /\ pc[u] # "idle" /\ req[t] = req[u] => t = u

(* What has arrived, but for the first of the inbox, is not carried out yet. *)
SentOnce ==
  /\ \A i \in 1..Len(sent) : executed[sent[i]] = 0
  /\ \A i, j \in 1..Len(sent) : sent[i] = sent[j] => i = j
ArrivedOnce ==
  /\ \A i \in 2..Len(inbox) : executed[inbox[i]] = 0
  /\ \A i, j \in 1..Len(inbox) : inbox[i] = inbox[j] => i = j
  /\ \A i \in 1..Len(inbox), j \in 1..Len(sent) : inbox[i] # sent[j]

NotCarriedOut(r) ==
  /\ executed[r] = 0
  /\ \A i \in 1..Len(sent) : sent[i] # r
  /\ \A i \in 1..Len(inbox) : inbox[i] # r
WaitingAreNot == \A t \in Task : pc[t] \in {"lock", "write", "reconnect"} => NotCarriedOut(req[t])
ReaderIsLast ==
  \A t \in Task : pc[t] = "read" =>
    /\ peer = "open" /\ sent # <<>> => sent[Len(sent)] = req[t]
    /\ peer = "reset" => executed[req[t]] = 0

OnceInv == /\ Numbered /\ OwnRequests /\ SentOnce /\ ArrivedOnce
           /\ WaitingAreNot /\ ReaderIsLast /\ AtMostOnce

LEMMA InitOnceInv == Init => OnceInv
  BY BoundsAreNumbers
  DEF Init, OnceInv, Numbered, OwnRequests, SentOnce, ArrivedOnce, WaitingAreNot, ReaderIsLast,
      AtMostOnce, Made, Request

LEMMA LargerSeq ==
  ASSUME NEW S, NEW T, S \subseteq T, NEW s \in Seq(S)
  PROVE  s \in Seq(T)
  OBVIOUS

(* The number of a request is new when it is made. *)
LEMMA CallOnce ==
  ASSUME ClientInv, OnceInv, NEW t \in Task, Call(t)
  PROVE  OnceInv'
<1>1. /\ pc[t] = "idle" /\ next <= MaxRequests /\ next' = next + 1
      /\ req' = [req EXCEPT ![t] = next] /\ pc' = [pc EXCEPT ![t] = "lock"]
      /\ UNCHANGED <<sent, inbox, peer, executed>>
  BY DEF Call, connection
<1>2. next \in Request /\ next \in Made' /\ Made \subseteq Made' /\ next \notin Made
  BY <1>1, BoundsAreNumbers DEF OnceInv, Numbered, Made, Request
<1>3. DOMAIN req = Task /\ DOMAIN pc = Task
  BY DEF ClientInv, Typed
<1>4. Numbered'
  <2>1. sent \in Seq(Made') /\ inbox \in Seq(Made')
    BY <1>2, LargerSeq DEF OnceInv, Numbered
  <2> QED
    BY <1>1, <1>2, <2>1, BoundsAreNumbers DEF OnceInv, Numbered, Request
<1>5. OwnRequests'
  BY <1>1, <1>2, <1>3 DEF OnceInv, OwnRequests
<1>6. NotCarriedOut(next)
  BY <1>1, <1>2 DEF OnceInv, Numbered, NotCarriedOut
<1>7. WaitingAreNot'
  BY <1>1, <1>3, <1>6 DEF OnceInv, WaitingAreNot, NotCarriedOut
<1>8. ReaderIsLast'
  BY <1>1, <1>3 DEF OnceInv, ReaderIsLast
<1>9. SentOnce' /\ ArrivedOnce' /\ AtMostOnce'
  BY <1>1 DEF OnceInv, SentOnce, ArrivedOnce, AtMostOnce
<1> QED
  BY <1>4, <1>5, <1>7, <1>8, <1>9 DEF OnceInv

(* Steps that change where a call is, and nothing that the daemon has. *)
LEMMA MovedOnce ==
  ASSUME ClientInv, OnceInv, NEW t \in Task, NEW place \in Places, pc' = [pc EXCEPT ![t] = place],
         UNCHANGED <<req, sent, inbox, peer, executed, next>>,
         pc[t] # "idle" \/ place = "idle", place # "read",
         place \in {"lock", "write", "reconnect"} => NotCarriedOut(req[t])
  PROVE  OnceInv'
<1>1. DOMAIN pc = Task
  BY DEF ClientInv, Typed
<1>2. Numbered' /\ SentOnce' /\ ArrivedOnce' /\ AtMostOnce'
  BY DEF OnceInv, Numbered, Made, SentOnce, ArrivedOnce, AtMostOnce
<1>3. OwnRequests'
  BY <1>1 DEF OnceInv, OwnRequests, Made
<1>4. WaitingAreNot'
  BY <1>1 DEF OnceInv, WaitingAreNot, NotCarriedOut
<1>5. ReaderIsLast'
  BY <1>1 DEF OnceInv, ReaderIsLast
<1> QED
  BY <1>2, <1>3, <1>4, <1>5 DEF OnceInv

(* A request is written once: it is behind all that was written before, and    *)
(* not among it.                                                               *)
LEMMA WriteOnce ==
  ASSUME ClientInv, OnceInv, NEW t \in Task, WriteRequest(t)
  PROVE  OnceInv'
<1>1. pc[t] = "write" /\ NotCarriedOut(req[t]) /\ DOMAIN pc = Task
  BY DEF WriteRequest, ClientInv, Typed, OnceInv, WaitingAreNot
<1>2. CASE buffer # <<>> \/ peer # "open"
  <2>1. pc' = [pc EXCEPT ![t] = "reconnect"] /\ UNCHANGED <<req, sent, inbox, peer, executed, next>>
    BY <1>2 DEF WriteRequest, Reconnect, bounds
  <2> QED
    BY <1>1, <2>1, MovedOnce DEF Places
<1>3. CASE ~(buffer # <<>> \/ peer # "open")
  <2>1. /\ pc' = [pc EXCEPT ![t] = "read"] /\ sent' = Append(sent, req[t]) /\ peer = "open"
        /\ UNCHANGED <<req, inbox, peer, executed, next>>
    BY <1>3 DEF WriteRequest, bounds
  <2>2. req[t] \in Made
    BY <1>1 DEF OnceInv, OwnRequests
  <2>3. /\ sent \in Seq(Made) /\ Len(sent') = Len(sent) + 1
        /\ sent'[Len(sent')] = req[t]
        /\ \A i \in 1..Len(sent) : sent'[i] = sent[i]
    BY <2>1, <2>2 DEF OnceInv, Numbered
  <2>4. Numbered' /\ AtMostOnce'
    BY <2>1, <2>2 DEF OnceInv, Numbered, AtMostOnce, Made
  <2>5. SentOnce'
    <3>1. ASSUME NEW i \in 1..Len(sent')
          PROVE  executed[sent'[i]] = 0
      BY <1>1, <2>3, <3>1 DEF OnceInv, SentOnce, NotCarriedOut
    <3>2. ASSUME NEW i \in 1..Len(sent'), NEW j \in 1..Len(sent'), sent'[i] = sent'[j]
          PROVE  i = j
      <4>1. i \in 1..Len(sent) \/ i = Len(sent')
        BY <2>3
      <4>2. j \in 1..Len(sent) \/ j = Len(sent')
        BY <2>3
      <4> QED
        BY <1>1, <2>3, <3>2, <4>1, <4>2 DEF OnceInv, SentOnce, NotCarriedOut
    <3> QED
      BY <2>1, <3>1, <3>2 DEF SentOnce
  <2>6. ArrivedOnce'
    BY <1>1, <2>1, <2>3 DEF OnceInv, ArrivedOnce, NotCarriedOut
  <2>7. OwnRequests'
    BY <1>1, <2>1 DEF OnceInv, OwnRequests, Made
  <2>8. WaitingAreNot'
    <3> SUFFICES ASSUME NEW u \in Task, pc'[u] \in {"lock", "write", "reconnect"}
                 PROVE  NotCarriedOut(req[u])'
      BY <2>1 DEF WaitingAreNot
    <3>1. u # t /\ pc'[u] = pc[u] /\ NotCarriedOut(req[u]) /\ req'[u] = req[u]
      BY <1>1, <2>1 DEF OnceInv, WaitingAreNot
    <3>2. req[u] # req[t]
      BY <1>1, <3>1 DEF OnceInv, OwnRequests
    <3> QED
      BY <2>1, <2>3, <3>1, <3>2 DEF NotCarriedOut
  <2>9. ReaderIsLast'
    <3> SUFFICES ASSUME NEW u \in Task, pc'[u] = "read"
                 PROVE  u = t
      BY <2>1, <2>3 DEF ReaderIsLast
    <3> QED
      BY <1>1, <2>1 DEF ClientInv, HoldersHold
  <2> QED
    BY <2>4, <2>5, <2>6, <2>7, <2>8, <2>9 DEF OnceInv
<1> QED
  BY <1>2, <1>3

LEMMA LockOnce ==
  ASSUME ClientInv, OnceInv, NEW t \in Task, LockStream(t)
  PROVE  OnceInv'
<1>1. pc[t] = "lock" /\ NotCarriedOut(req[t])
  BY DEF LockStream, OnceInv, WaitingAreNot
<1>2. pc' = [pc EXCEPT ![t] = "write"] /\ UNCHANGED <<req, sent, inbox, peer, executed, next>>
  BY DEF LockStream, connection, bounds
<1> QED
  BY <1>1, <1>2, MovedOnce DEF Places

(* An error after the request was written: the connection was reset. *)
LEMMA ReadOnce ==
  ASSUME ClientInv, OnceInv, NEW t \in Task, ReadAnswer(t) \/ ReadEnd(t)
  PROVE  OnceInv'
<1>1. pc[t] = "read" /\ UNCHANGED <<req, sent, inbox, peer, executed, next>>
  BY DEF ReadAnswer, ReadEnd, connection, bounds
<1>2. CASE pc' = [pc EXCEPT ![t] = "idle"]
  BY <1>1, <1>2, MovedOnce DEF Places
<1>3. CASE pc' = [pc EXCEPT ![t] = "reconnect"] /\ peer = "reset"
  <2>1. NotCarriedOut(req[t])
    BY <1>1, <1>3 DEF OnceInv, ReaderIsLast, ClientInv, ClosedIsEmpty, NotCarriedOut
  <2> QED
    BY <1>1, <1>3, <2>1, MovedOnce DEF Places
<1> QED
  BY <1>2, <1>3 DEF ReadAnswer, ReadEnd, Answered, Reconnect

LEMMA ConnectOnce ==
  ASSUME ClientInv, OnceInv, NEW t \in Task, NewConnection(t)
  PROVE  OnceInv'
<1>1. /\ pc[t] = "reconnect" /\ pc' = [pc EXCEPT ![t] = "lock"]
      /\ sent' = <<>> /\ inbox' = <<>> /\ UNCHANGED <<req, next>>
  BY DEF NewConnection, ReplaceStream, bounds
<1>2. DOMAIN pc = Task /\ \A u \in Task : pc[u] # "read"
  BY <1>1 DEF ClientInv, Typed, HoldersHold
<1>7. PICK late \in SUBSET LeftBehind :
        executed' = [r \in Request |-> IF r \in late THEN executed[r] + 1 ELSE executed[r]]
  BY DEF NewConnection, ReplaceStream
<1>8. ASSUME NEW r \in late
      PROVE  r \in Made /\ executed[r] = 0 /\ \A q : NotCarriedOut(q) => q # r
  <2>1. sent \in Seq(Made) /\ inbox \in Seq(Made)
    BY DEF OnceInv, Numbered
  <2>2. CASE \E i \in 1..Len(sent) : r = sent[i]
    BY <2>1, <2>2 DEF OnceInv, SentOnce, NotCarriedOut
  <2>3. CASE \E i \in 2..Len(inbox) : r = inbox[i]
    <3>1. PICK i \in 2..Len(inbox) : r = inbox[i]
      BY <2>3
    <3>2. i \in 1..Len(inbox)
      BY <2>1
    <3> QED
      BY <2>1, <3>1, <3>2 DEF OnceInv, ArrivedOnce, NotCarriedOut
  <2> QED
    BY <1>8, <2>2, <2>3 DEF LeftBehind, ToSet
<1>3. Numbered' /\ SentOnce' /\ ArrivedOnce' /\ AtMostOnce'
  BY <1>1, <1>7, <1>8 DEF OnceInv, Numbered, Made, SentOnce, ArrivedOnce, AtMostOnce
<1>4. OwnRequests'
  BY <1>1, <1>2 DEF OnceInv, OwnRequests, Made
<1>5. WaitingAreNot'
  <2> SUFFICES ASSUME NEW u \in Task, pc'[u] \in {"lock", "write", "reconnect"}
               PROVE  NotCarriedOut(req[u])'
    BY <1>1 DEF WaitingAreNot
  <2>1. NotCarriedOut(req[u]) /\ req[u] \in Made
    BY <1>1, <1>2 DEF OnceInv, WaitingAreNot, OwnRequests
  <2>2. req[u] \in Request /\ req[u] \notin late
    BY <1>8, <2>1, BoundsAreNumbers DEF OnceInv, Numbered, Made, Request
  <2> QED
    BY <1>1, <1>7, <2>1, <2>2 DEF NotCarriedOut
<1>6. ReaderIsLast'
  BY <1>1, <1>2 DEF ReaderIsLast
<1> QED
  BY <1>3, <1>4, <1>5, <1>6 DEF OnceInv

LEMMA AbortOnce ==
  ASSUME ClientInv, OnceInv, NEW t \in Task, Abort(t)
  PROVE  OnceInv'
<1>1. pc' = [pc EXCEPT ![t] = "idle"] /\ UNCHANGED <<req, sent, inbox, peer, executed, next>>
  BY DEF Abort, connection
<1> QED
  BY <1>1, MovedOnce DEF Places

(* The daemon carries out what it takes up next. *)
LEMMA CarryOutOnce ==
  ASSUME OnceInv, NEW r \in Made, executed[r] = 0, executed' = [executed EXCEPT ![r] = @ + 1],
         UNCHANGED <<pc, req, peer, next>>
  PROVE  /\ AtMostOnce' /\ OwnRequests' /\ r \in Request
         /\ executed' \in [Request -> Nat]
         /\ \A q \in Request : q >= next' => executed'[q] = 0
         /\ \A q \in Request : q # r => executed'[q] = executed[q]
<1>1. r \in Request /\ r < next /\ executed \in [Request -> Nat]
  BY BoundsAreNumbers DEF OnceInv, Numbered, Made, Request
<1> QED
  BY <1>1 DEF OnceInv, Numbered, OwnRequests, AtMostOnce, Made, Request

LEMMA ReadRequestsOnce ==
  ASSUME ClientInv, OnceInv, ReadRequests
  PROVE  OnceInv'
<1>1. /\ peer = "open" /\ inbox = <<>> /\ sent # <<>> /\ inbox' = sent /\ sent' = <<>>
      /\ executed' = [executed EXCEPT ![sent[1]] = @ + 1]
      /\ UNCHANGED <<pc, req, peer, next>>
  BY DEF ReadRequests, bounds
<1>2. sent \in Seq(Made) /\ Len(sent) \in Nat /\ 1 \in 1..Len(sent) /\ Made \subseteq Request
  BY <1>1, BoundsAreNumbers DEF OnceInv, Numbered, Made, Request
<1>3. sent[1] \in Made /\ executed[sent[1]] = 0
  BY <1>2 DEF OnceInv, SentOnce
<1>4. /\ AtMostOnce' /\ OwnRequests'
      /\ executed' \in [Request -> Nat]
      /\ \A q \in Request : q >= next' => executed'[q] = 0
      /\ \A q \in Request : q # sent[1] => executed'[q] = executed[q]
  BY <1>1, <1>3, CarryOutOnce
<1>5. Numbered' /\ SentOnce'
  BY <1>1, <1>2, <1>4 DEF OnceInv, Numbered, Made, SentOnce
<1>6. ArrivedOnce'
  <2>1. ASSUME NEW i \in 2..Len(sent)
        PROVE  executed'[sent[i]] = 0
    <3>1. i \in 1..Len(sent) /\ i # 1
      BY <1>2
    <3>2. sent[i] # sent[1] /\ sent[i] \in Request /\ executed[sent[i]] = 0
      BY <1>2, <3>1 DEF OnceInv, SentOnce
    <3> QED
      BY <1>4, <3>2
  <2> QED
    BY <1>1, <2>1 DEF OnceInv, SentOnce, ArrivedOnce
<1>7. WaitingAreNot'
  <2> SUFFICES ASSUME NEW t \in Task, pc[t] \in {"lock", "write", "reconnect"}
               PROVE  NotCarriedOut(req[t])'
    BY <1>1 DEF WaitingAreNot
  <2>1. NotCarriedOut(req[t]) /\ req[t] \in Request
    BY <1>2 DEF OnceInv, WaitingAreNot, OwnRequests
  <2> QED
    BY <1>1, <1>2, <1>4, <2>1 DEF NotCarriedOut
<1>8. ReaderIsLast'
  BY <1>1 DEF ReaderIsLast
<1> QED
  BY <1>4, <1>5, <1>6, <1>7, <1>8 DEF OnceInv

LEMMA WriteAnswerOnce ==
  ASSUME ClientInv, OnceInv, WriteAnswer
  PROVE  OnceInv'
<1>1. /\ peer = "open" /\ inbox # <<>> /\ inbox' = Tail(inbox)
      /\ executed' = [executed EXCEPT ![inbox[IF Len(inbox) > 1 THEN 2 ELSE 1]] =
                        IF Len(inbox) > 1 THEN @ + 1 ELSE @]
      /\ UNCHANGED <<pc, req, peer, sent, next>>
  BY DEF WriteAnswer, bounds
<1>2. inbox \in Seq(Made) /\ Len(inbox) \in Nat /\ Len(inbox) > 0 /\ Made \subseteq Request
      /\ sent \in Seq(Made)
  <2>1. inbox \in Seq(Made) /\ sent \in Seq(Made)
    BY DEF OnceInv, Numbered
  <2>2. Made \subseteq Request
    BY BoundsAreNumbers DEF OnceInv, Numbered, Made, Request
  <2> QED
    BY <1>1, <2>1, <2>2
<1>3. /\ inbox' \in Seq(Made) /\ Len(inbox') = Len(inbox) - 1
      /\ \A i \in 1..Len(inbox') : inbox'[i] = inbox[i + 1]
  BY <1>1, <1>2
<1>4. CASE Len(inbox) = 1
  <2>1. executed' = executed
    BY <1>1, <1>4 DEF OnceInv, Numbered
  <2>2. Len(inbox') = 0
    BY <1>3, <1>4
  <2>3. Numbered' /\ OwnRequests' /\ AtMostOnce' /\ ReaderIsLast'
    BY <1>1, <1>3, <2>1 DEF OnceInv, Numbered, OwnRequests, AtMostOnce, ReaderIsLast, Made
  <2>4. SentOnce' /\ ArrivedOnce' /\ WaitingAreNot'
    BY <1>1, <2>1, <2>2 DEF OnceInv, SentOnce, ArrivedOnce, WaitingAreNot, NotCarriedOut
  <2> QED
    BY <2>3, <2>4 DEF OnceInv
<1>5. CASE Len(inbox) > 1
  <2>1. 2 \in 1..Len(inbox) /\ 2 \in 2..Len(inbox)
    BY <1>2, <1>5
  <2>2. inbox[2] \in Made /\ executed[inbox[2]] = 0
    BY <1>2, <2>1 DEF OnceInv, ArrivedOnce
  <2>3. executed' = [executed EXCEPT ![inbox[2]] = @ + 1]
    BY <1>1, <1>5
  <2>4. /\ AtMostOnce' /\ OwnRequests'
        /\ executed' \in [Request -> Nat]
        /\ \A q \in Request : q >= next' => executed'[q] = 0
        /\ \A q \in Request : q # inbox[2] => executed'[q] = executed[q]
    BY <1>1, <2>2, <2>3, CarryOutOnce
  <2>5. Numbered'
    BY <1>1, <1>3, <2>4 DEF OnceInv, Numbered, Made
  <2>6. SentOnce'
    <3>1. ASSUME NEW i \in 1..Len(sent)
          PROVE  executed'[sent[i]] = 0
      BY <1>2, <2>1, <2>4 DEF OnceInv, SentOnce, ArrivedOnce
    <3> QED
      BY <1>1, <3>1 DEF OnceInv, SentOnce
  <2>7. ArrivedOnce'
    <3>1. ASSUME NEW i \in 2..Len(inbox')
          PROVE  executed'[inbox'[i]] = 0
      <4>1. i \in 1..Len(inbox') /\ i + 1 \in 2..Len(inbox) /\ i + 1 \in 1..Len(inbox) /\ i + 1 # 2
        BY <1>3, <1>2
      <4>2. inbox[i + 1] # inbox[2] /\ inbox[i + 1] \in Request /\ executed[inbox[i + 1]] = 0
        BY <1>2, <2>1, <4>1 DEF OnceInv, ArrivedOnce
      <4> QED
        BY <1>3, <2>4, <4>1, <4>2
    <3>2. ASSUME NEW i \in 1..Len(inbox'), NEW j \in 1..Len(inbox'), inbox'[i] = inbox'[j]
          PROVE  i = j
      <4>1. i + 1 \in 1..Len(inbox) /\ j + 1 \in 1..Len(inbox) /\ inbox[i + 1] = inbox[j + 1]
        BY <1>2, <1>3, <3>2
      <4> QED
        BY <4>1 DEF OnceInv, ArrivedOnce
    <3>3. ASSUME NEW i \in 1..Len(inbox'), NEW j \in 1..Len(sent)
          PROVE  inbox'[i] # sent[j]
      <4>1. i + 1 \in 1..Len(inbox)
        BY <1>2, <1>3
      <4> QED
        BY <1>3, <4>1 DEF OnceInv, ArrivedOnce
    <3> QED
      BY <1>1, <3>1, <3>2, <3>3 DEF ArrivedOnce
  <2>8. WaitingAreNot'
    <3> SUFFICES ASSUME NEW t \in Task, pc[t] \in {"lock", "write", "reconnect"}
                 PROVE  NotCarriedOut(req[t])'
      BY <1>1 DEF WaitingAreNot
    <3>1. NotCarriedOut(req[t]) /\ req[t] \in Request
      BY <1>2 DEF OnceInv, WaitingAreNot, OwnRequests
    <3>2. \A i \in 1..Len(inbox') : inbox'[i] # req[t]
      BY <1>2, <1>3, <3>1 DEF NotCarriedOut
    <3> QED
      BY <1>1, <2>1, <2>4, <3>1, <3>2 DEF NotCarriedOut
  <2>9. ReaderIsLast'
    BY <1>1 DEF OnceInv, ReaderIsLast
  <2> QED
    BY <2>4, <2>5, <2>6, <2>7, <2>8, <2>9 DEF OnceInv
<1>6. Len(inbox) = 1 \/ Len(inbox) > 1
  <2>1. \A n \in Nat : n > 0 => n = 1 \/ n > 1
    OBVIOUS
  <2>2. Len(inbox) \in Nat /\ Len(inbox) > 0
    BY <1>2
  <2> QED
    BY <2>1, <2>2, Zenon
<1> QED
  BY <1>4, <1>5, <1>6

LEMMA OnceKept ==
  ASSUME OnceInv, UNCHANGED <<pc, req, sent, inbox, peer, executed, next>>
  PROVE  OnceInv'
<1>1. Numbered' /\ SentOnce' /\ ArrivedOnce' /\ AtMostOnce'
  BY DEF OnceInv, Numbered, Made, SentOnce, ArrivedOnce, AtMostOnce
<1>2. OwnRequests' /\ ReaderIsLast'
  BY DEF OnceInv, OwnRequests, Made, ReaderIsLast
<1>3. WaitingAreNot'
  BY DEF OnceInv, WaitingAreNot, NotCarriedOut
<1> QED
  BY <1>1, <1>2, <1>3 DEF OnceInv

(* The daemon leaves requests unread only if the last of them is the one that  *)
(* its client waits for.                                                       *)
LEMMA StopOnce ==
  ASSUME ClientInv, OnceInv, Stop \/ Restart
  PROVE  OnceInv'
<1>1. CASE Stop
  <2>1. /\ sent' = <<>> /\ inbox' = <<>> /\ UNCHANGED <<pc, req, executed, next>>
        /\ peer' = IF peer # "open" THEN peer ELSE IF sent = <<>> THEN "closed" ELSE "reset"
    BY <1>1 DEF Stop
  <2>2. Numbered' /\ OwnRequests' /\ SentOnce' /\ ArrivedOnce' /\ AtMostOnce' /\ WaitingAreNot'
    BY <2>1 DEF OnceInv, Numbered, Made, OwnRequests, SentOnce, ArrivedOnce, AtMostOnce,
                WaitingAreNot, NotCarriedOut
  <2>3. ReaderIsLast'
    <3> SUFFICES ASSUME NEW t \in Task, pc[t] = "read", peer' = "reset"
                 PROVE  executed[req[t]] = 0
      BY <2>1 DEF ReaderIsLast
    <3>1. CASE peer = "reset"
      BY <3>1 DEF OnceInv, ReaderIsLast
    <3>2. CASE peer = "open" /\ sent # <<>>
      <4>1. sent \in Seq(Made) /\ Len(sent) \in 1..Len(sent) /\ sent[Len(sent)] = req[t]
        BY <3>2 DEF OnceInv, Numbered, ReaderIsLast
      <4> QED
        BY <4>1 DEF OnceInv, SentOnce
    <3> QED
      BY <2>1, <3>1, <3>2
  <2> QED
    BY <2>2, <2>3 DEF OnceInv
<1>2. CASE Restart
  <2>1. UNCHANGED <<pc, req, sent, inbox, peer, executed, next>>
    BY <1>2 DEF Restart, connection, bounds
  <2> QED
    BY <2>1, OnceKept
<1> QED
  BY <1>1, <1>2

LEMMA OnceStep == ClientInv /\ OnceInv /\ [Next]_vars => OnceInv'
<1> SUFFICES ASSUME ClientInv, OnceInv, [Next]_vars
             PROVE  OnceInv'
  OBVIOUS
<1>1. ASSUME NEW t \in Task, Call(t) \/ Calling(t) \/ Abort(t)
      PROVE  OnceInv'
  BY <1>1, CallOnce, LockOnce, WriteOnce, ReadOnce, ConnectOnce, AbortOnce DEF Calling
<1>2. CASE Serve \/ Stop \/ Restart
  BY <1>2, ReadRequestsOnce, WriteAnswerOnce, StopOnce DEF Serve
<1>3. CASE UNCHANGED vars
  <2>1. UNCHANGED <<pc, req, sent, inbox, peer, executed, next>>
    BY <1>3 DEF vars, connection, bounds
  <2> QED
    BY <2>1, OnceKept
<1> QED
  BY <1>1, <1>2, <1>3 DEF Next

(* AtMostOnce for any tasks and requests, any stops of the daemon and any       *)
(* aborted calls: the request that make_request repeats after an error has not *)
(* been carried out (lact-client/src/lib.rs).                                   *)
THEOREM CarriedOutAtMostOnce == Spec => []AtMostOnce
<1>1. Spec => []ClientInv
  BY InitClientInv, ClientStep, PTL DEF Spec
<1>2. OnceInv => AtMostOnce
  BY DEF OnceInv
<1> QED
  BY <1>1, <1>2, InitOnceInv, OnceStep, PTL DEF Spec
=============================================================================
