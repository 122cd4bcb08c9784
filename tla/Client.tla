------------------------------- MODULE Client -------------------------------
(* The client library (lact-client/src/lib.rs and connection.rs) and the      *)
(* server loop of a connection (handle_stream in lact-daemon/src/server.rs).  *)
(* All tasks of the user interface share one connection behind a mutex; the   *)
(* daemon stops and starts again, and the statistics task is aborted in the   *)
(* middle of a request (app.rs, update_gpu_data).                             *)
EXTENDS Integers, Sequences, SequencesExt, FiniteSets
CONSTANTS
    Task,       \* tasks that make requests
    Abortable,  \* those that are aborted
    Embedded,   \* the daemon runs in the process: the socket has no path to connect to again
    MaxRequests, MaxStops, MaxAborts,     \* bounds
    None

ASSUME TasksAreTasks == Abortable \subseteq Task /\ None \notin Task /\ Embedded \in BOOLEAN
ASSUME BoundsAreNumbers == MaxRequests \in Nat /\ MaxAborts \in Nat

Request == 1..MaxRequests
NoAnswer == 0   \* an error: nothing was read, or it could not be deserialized

VARIABLES
    pc, req,    \* of each task: where it is, and its request
    answer,     \* what the last call of a task has returned: the request that was answered
    holder, queue,      \* of the mutex around the stream
    buffer,     \* answers in the BufReader of the client
    socket,     \* answers in the socket
    sent,       \* requests in the socket
    inbox,      \* requests in the BufReader of the daemon, the first one in progress
    up,         \* the daemon runs
    peer,       \* the connection is "open", "closed" by the daemon, or "reset"
    executed,   \* how often each request was carried out
    dialog,     \* the reconnect dialog: the last status message was Disconnected
    next, stops, aborts
mutex == <<holder, queue>>
connection == <<buffer, socket, sent, inbox, peer>>
bounds == <<next, stops, aborts>>
vars == <<pc, req, answer, mutex, connection, up, executed, dialog, bounds>>
-----------------------------------------------------------------------------
(* make_request: the mutex is taken, in order of arrival.                     *)

Call(t) ==
    /\ pc[t] = "idle" /\ next <= MaxRequests
    /\ next' = next + 1 /\ req' = [req EXCEPT ![t] = next]
    /\ pc' = [pc EXCEPT ![t] = "lock"] /\ queue' = Append(queue, t)
    /\ UNCHANGED <<answer, holder, connection, up, executed, dialog, stops, aborts>>

LockStream(t) ==
    /\ pc[t] = "lock" /\ holder = None /\ Head(queue) = t
    /\ holder' = t /\ queue' = Tail(queue)
    /\ pc' = [pc EXCEPT ![t] = "write"]
    /\ UNCHANGED <<req, answer, connection, up, executed, dialog, bounds>>

Unlock == holder' = None /\ UNCHANGED queue

(* The error of a request: Disconnected is announced, and the lock is kept. *)
Reconnect(t) ==
    /\ pc' = [pc EXCEPT ![t] = "reconnect"] /\ dialog' = TRUE
    /\ UNCHANGED <<answer, mutex>>

Answered(t, r) ==
    /\ pc' = [pc EXCEPT ![t] = "idle"] /\ answer' = [answer EXCEPT ![t] = r]
    /\ Unlock /\ UNCHANGED dialog

(* Slip: the mutex is released while the daemon works. *)
Slip_UnlockEarly(t) ==
    /\ pc[t] = "write"
    /\ IF buffer # <<>> \/ peer # "open" THEN Reconnect(t) /\ UNCHANGED sent
       ELSE /\ sent' = Append(sent, req[t]) /\ pc' = [pc EXCEPT ![t] = "read"]
            /\ Unlock /\ UNCHANGED <<answer, dialog>>
    /\ UNCHANGED <<req, buffer, socket, inbox, peer, up, executed, bounds>>

(* request: a rest of an earlier answer, or a closed socket, is an error. *)
WriteRequest(t) ==
    /\ pc[t] = "write"
    /\ IF buffer # <<>> \/ peer # "open" THEN Reconnect(t) /\ UNCHANGED sent
       ELSE /\ sent' = Append(sent, req[t]) /\ pc' = [pc EXCEPT ![t] = "read"]
            /\ UNCHANGED <<answer, mutex, dialog>>
    /\ UNCHANGED <<req, buffer, socket, inbox, peer, up, executed, bounds>>

(* read_line: answers that have arrived are read together, one is returned. *)
ReadAnswer(t) ==
    /\ pc[t] = "read" /\ socket # <<>>
    /\ \E n \in 1..Len(socket) :
        /\ buffer' = SubSeq(socket, 2, n)
        /\ socket' = SubSeq(socket, n + 1, Len(socket))
    /\ Answered(t, Head(socket))
    /\ UNCHANGED <<req, sent, inbox, peer, up, executed, bounds>>

(* Slip: the end of the stream is an error of the connection, as a reset is. *)
Slip_EofIsError(t) ==
    /\ pc[t] = "read" /\ socket = <<>> /\ peer # "open"
    /\ Reconnect(t)
    /\ UNCHANGED <<req, connection, up, executed, bounds>>

(* The end of the stream is an empty answer, which is not repeated; a reset is *)
(* an error: the kernel reports it if the daemon has left requests unread.     *)
ReadEnd(t) ==
    /\ pc[t] = "read" /\ socket = <<>> /\ peer # "open"
    /\ IF peer = "reset" THEN Reconnect(t) ELSE Answered(t, NoAnswer)
    /\ UNCHANGED <<req, connection, up, executed, bounds>>

(* The old connection is dropped. Requests of aborted calls may be left in it  *)
(* that a daemon which runs still reads: any of them may be carried out.       *)
LeftBehind == ToSet(sent) \cup {inbox[i] : i \in 2..Len(inbox)}
ReplaceStream ==
    /\ up /\ ~Embedded
    /\ buffer' = <<>> /\ socket' = <<>> /\ sent' = <<>> /\ inbox' = <<>> /\ peer' = "open"
    /\ \E late \in SUBSET LeftBehind :
        executed' = [r \in Request |-> IF r \in late THEN executed[r] + 1 ELSE executed[r]]

(* Slip: the lock is still held when the request is made again. *)
Slip_KeepGuard(t) ==
    /\ pc[t] = "reconnect" /\ ReplaceStream
    /\ dialog' = FALSE
    /\ queue' = Append(queue, t) /\ UNCHANGED holder
    /\ pc' = [pc EXCEPT ![t] = "lock"]
    /\ UNCHANGED <<req, answer, up, bounds>>

(* Slip: Reconnected is not announced. *)
Slip_Silent(t) ==
    /\ pc[t] = "reconnect" /\ ReplaceStream
    /\ holder' = None /\ queue' = Append(queue, t)
    /\ pc' = [pc EXCEPT ![t] = "lock"]
    /\ UNCHANGED <<req, answer, up, dialog, bounds>>

(* new_connection, every 250 ms until it succeeds; then the request is made    *)
(* again, and waits for the mutex behind the others.                           *)
NewConnection(t) ==
    /\ pc[t] = "reconnect" /\ ReplaceStream
    /\ dialog' = FALSE
    /\ holder' = None /\ queue' = Append(queue, t)
    /\ pc' = [pc EXCEPT ![t] = "lock"]
    /\ UNCHANGED <<req, answer, up, bounds>>

(* abort: the future is dropped where it waits, its guard with it; what it has *)
(* written stays written.                                                      *)
Abort(t) ==
    /\ t \in Abortable /\ pc[t] \in {"lock", "read", "reconnect"}
    /\ aborts > 0 /\ aborts' = aborts - 1
    /\ pc' = [pc EXCEPT ![t] = "idle"] /\ answer' = [answer EXCEPT ![t] = req[t]]
    /\ holder' = IF holder = t THEN None ELSE holder
    /\ queue' = SelectSeq(queue, LAMBDA u : u # t)
    /\ UNCHANGED <<req, connection, up, executed, dialog, next, stops>>

Calling(t) ==
    LockStream(t) \/ WriteRequest(t) \/ ReadAnswer(t) \/ ReadEnd(t) \/ NewConnection(t)
-----------------------------------------------------------------------------
(* handle_stream: lines that have arrived are read together, and handled one  *)
(* after the other.                                                           *)

ReadRequests ==
    /\ peer = "open" /\ inbox = <<>> /\ sent # <<>>
    /\ inbox' = sent /\ sent' = <<>>
    /\ executed' = [executed EXCEPT ![sent[1]] = @ + 1]
    /\ UNCHANGED <<pc, req, answer, mutex, buffer, socket, peer, up, dialog, bounds>>

WriteAnswer ==
    /\ peer = "open" /\ inbox # <<>>
    /\ socket' = Append(socket, Head(inbox)) /\ inbox' = Tail(inbox)
    /\ executed' = [executed EXCEPT ![inbox[IF Len(inbox) > 1 THEN 2 ELSE 1]] =
                        IF Len(inbox) > 1 THEN @ + 1 ELSE @]
    /\ UNCHANGED <<pc, req, answer, mutex, buffer, sent, peer, up, dialog, bounds>>

Stop ==
    /\ up /\ stops > 0 /\ stops' = stops - 1
    /\ up' = FALSE
    /\ peer' = IF peer # "open" THEN peer ELSE IF sent = <<>> THEN "closed" ELSE "reset"
    /\ sent' = <<>> /\ inbox' = <<>>
    /\ UNCHANGED <<pc, req, answer, mutex, buffer, socket, executed, dialog, next, aborts>>

Restart == ~up /\ up' = TRUE
           /\ UNCHANGED <<pc, req, answer, mutex, connection, executed, dialog, bounds>>

Serve == ReadRequests \/ WriteAnswer
-----------------------------------------------------------------------------
Init ==
    /\ pc = [t \in Task |-> "idle"]
    /\ req = [t \in Task |-> NoAnswer] /\ answer = req
    /\ holder = None /\ queue = <<>>
    /\ buffer = <<>> /\ socket = <<>> /\ sent = <<>> /\ inbox = <<>> /\ peer = "open"
    /\ up = TRUE /\ dialog = FALSE
    /\ executed = [r \in Request |-> 0]
    /\ next = 1 /\ stops = MaxStops /\ aborts = MaxAborts

Next ==
    \/ \E t \in Task : Call(t) \/ Calling(t) \/ Abort(t)
    \/ Serve \/ Stop \/ Restart

(* The runtimes on both sides poll what is ready. Whoever stops the daemon starts *)
(* it again, as with the systemctl restart that README.md and app.rs ask for:     *)
(* Restart=on-failure of res/lactd.service does not, after a regular stop.        *)
Fairness ==
    /\ \A t \in Task : WF_vars(Calling(t))
    /\ WF_vars(Serve) /\ WF_vars(Restart)

Spec == Init /\ [][Next]_vars /\ Fairness
-----------------------------------------------------------------------------
(* A request is carried out at most once, although it is made again after an   *)
(* error: an error only means that the daemon has not read it.                 *)
AtMostOnce == \A r \in Request : executed[r] <= 1

(* As long as no call has been aborted, every call returns the answer to its   *)
(* own request, or an error, whoever shares the connection. After an abort     *)
(* nothing is claimed, of the calls of other tasks neither: the answer of the  *)
(* aborted request stays in the stream, and the next call may return it.       *)
AnswersOwn ==
    aborts = MaxAborts =>
        \A t \in Task : pc[t] = "idle" => answer[t] \in {req[t], NoAnswer}

(* Every call returns, if the socket can be connected to again.                *)
CallReturns == ~Embedded => \A t \in Task : []<>(pc[t] = "idle")

(* The reconnect dialog does not stay, unless the call that reconnects is      *)
(* aborted.                                                                    *)
DialogHides == ~Embedded /\ [](aborts = MaxAborts) => []<>(~dialog)
=============================================================================
