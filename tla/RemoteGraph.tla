----------------------------- MODULE RemoteGraph -----------------------------
(***************************************************************************)
(* Remote execution: RemoteGraphClient over WebSocketPregelProtocol        *)
(* (graphengine/pregel/websocket.go), with its read loops, and the         *)
(* requests of RemoteRunnable and HTTPPregelProtocol (remote.go).  The     *)
(* server and the connections are external: requests are answered in any   *)
(* order, each once and on the connection they came by, and a connection   *)
(* may break at any time; a message is sent when it is read.  A connection *)
(* takes one writer and one reader at a time: it panics when it notices a  *)
(* second writer, and two readers spoil each other's frames.               *)
(*                                                                         *)
(* Connect has no guard: each one dials a connection, forgets the one      *)
(* before and starts another read loop on the one messageChan.             *)
(***************************************************************************)
EXTENDS Integers, Sequences, FiniteSets, SequencesExt

CONSTANTS
    Call,           \* calls of Invoke and Stream; each has its own message ID
    Kinds,          \* what the calls are: functions from Call
    ChanRoom,       \* capacity of messageChan
    MaxConnects,    \* bound: Connects
    MaxChanges      \* bound: Connects, lost connections and Close together

VARIABLES
    conn,           \* the last connection, by number; 0: none
    broken,         \* connections that broke or were closed
    closer,         \* Close: where it is, and the connection it writes to
    atServer,       \* requests that are not answered yet
    loop,           \* the readLoop of each Connect: where it is, the
                    \* connection it reads and the message it has
    messageChan, chanClosed,
    call,           \* call -> where it is, its connection and what it returned
    remotePanic,    \* why the client panicked, or "none"
    begun           \* history: calls in the order they began

remoteVars == <<conn, broken, closer, atServer, loop, messageChan, chanClosed,
                call, remotePanic, begun>>

Conns == 1 .. MaxConnects
NoMessage == [type |-> "none", id |-> "none"]
MessageType == {"execute_response", "state_update", "interrupt"}
Message == [type : MessageType, id : Call]
IsAnswer(m) == m.type \in {"execute_response", "interrupt"}

AtTop == [pc |-> "top", on |-> 0, has |-> NoMessage]

RemoteInit ==
    /\ conn = 0 /\ broken = {} /\ closer = [pc |-> "open", on |-> 0]
    /\ atServer = {}
    /\ loop = [r \in Conns |-> [AtTop EXCEPT !.pc = "off"]]
    /\ messageChan = <<>> /\ chanClosed = FALSE
    /\ \E kinds \in Kinds :
         call = [c \in Call |-> [pc |-> "new", kind |-> kinds[c], on |-> 0, got |-> NoMessage]]
    /\ remotePanic = "none" /\ begun = <<>>

Alive == remotePanic = "none"
isClosed == closer.pc # "open"
Goes(c, pc) == call' = [call EXCEPT ![c].pc = pc]
ClientPanics(why) ==
    /\ remotePanic' = why
    /\ UNCHANGED <<conn, broken, closer, atServer, loop, messageChan, chanClosed,
                   call, begun>>

-----------------------------------------------------------------------------
(* The connection.                                                         *)

MayChange == conn + Cardinality(broken) + (IF isClosed THEN 1 ELSE 0) < MaxChanges

Connect ==
    /\ Alive /\ MayChange /\ conn < MaxConnects /\ conn' = conn + 1
    /\ loop' = [loop EXCEPT ![conn + 1] = AtTop]
    /\ UNCHANGED <<broken, closer, atServer, messageChan, chanClosed, call, remotePanic,
                   begun>>

Break(g) ==
    /\ Alive /\ MayChange /\ g <= conn /\ broken' = broken \cup {g}
    /\ UNCHANGED <<conn, closer, atServer, loop, messageChan, chanClosed, call,
                   remotePanic, begun>>

\* Who is inside WriteMessage of a connection.
Writers(g) == {c \in Call : call[c].pc = "sending" /\ call[c].on = g}

\* The flag and doneChan, under the lock.
Close ==
    /\ Alive /\ MayChange /\ ~isClosed /\ closer' = [closer EXCEPT !.pc = "closed"]
    /\ UNCHANGED <<conn, broken, atServer, loop, messageChan, chanClosed, call,
                   remotePanic, begun>>

\* The close message, without it.
CloseWrites ==
    /\ Alive /\ closer.pc = "closed"
    /\ \/ Writers(conn) # {} /\ ClientPanics("two writers")
       \/ /\ closer' = [pc |-> IF conn = 0 THEN "done" ELSE "writing", on |-> conn]
          /\ UNCHANGED <<conn, broken, atServer, loop, messageChan, chanClosed, call,
                         remotePanic, begun>>

CloseEnds ==
    /\ Alive /\ closer.pc = "writing" /\ closer' = [pc |-> "done", on |-> 0]
    /\ broken' = broken \cup {conn}
    /\ UNCHANGED <<conn, atServer, loop, messageChan, chanClosed, call, remotePanic,
                   begun>>

-----------------------------------------------------------------------------
(* readLoop.                                                               *)

\* Each turn reads the connection of the client, which may be a new one.
ReadBegins(r) ==
    /\ Alive /\ loop[r].pc = "top" /\ ~isClosed
    /\ loop' = [loop EXCEPT ![r] = [AtTop EXCEPT !.pc = "reading", !.on = conn]]
    /\ UNCHANGED <<conn, broken, closer, atServer, messageChan, chanClosed, call,
                   remotePanic, begun>>

\* A message of the server: an answer or an interrupt, which is its last, or an
\* update.  What cannot be parsed is left out, nor is what two loops read at a
\* time sure to be whole.
ReadMessage(r, m) ==
    LET g == loop[r].on IN
    /\ Alive /\ loop[r].pc = "reading" /\ m.id \in atServer /\ call[m.id].on = g
    /\ atServer' = IF IsAnswer(m) THEN atServer \ {m.id} ELSE atServer
    /\ \/ loop' = [loop EXCEPT ![r] = [AtTop EXCEPT !.pc = "has", !.has = m]]
       \/ /\ \E s \in Conns \ {r} : loop[s].pc = "reading" /\ loop[s].on = g
          /\ loop' = [loop EXCEPT ![r] = AtTop]
    /\ UNCHANGED <<conn, broken, closer, messageChan, chanClosed, call, remotePanic,
                   begun>>

ReadGarbage(r) ==
    /\ Alive /\ loop[r].pc = "reading" /\ loop' = [loop EXCEPT ![r] = AtTop]
    /\ UNCHANGED <<conn, broken, closer, atServer, messageChan, chanClosed, call, remotePanic,
                   begun>>

Deliver(r) ==
    /\ Alive /\ loop[r].pc = "has"
    /\ \/ chanClosed /\ ClientPanics("closed channel")
       \/ /\ ~chanClosed /\ Len(messageChan) < ChanRoom
          /\ messageChan' = Append(messageChan, loop[r].has)
          /\ loop' = [loop EXCEPT ![r] = AtTop]
          /\ UNCHANGED <<conn, broken, closer, atServer, chanClosed, call, remotePanic,
                         begun>>

\* The connection that is read is lost, or the client closed: the deferred
\* close of messageChan.
ReadEnds(r) ==
    /\ Alive
    /\ \/ loop[r].pc = "reading" /\ loop[r].on \in broken
       \/ loop[r].pc \in {"top", "has"} /\ isClosed
    /\ \/ chanClosed /\ ClientPanics("closed channel")
       \/ /\ ~chanClosed /\ chanClosed' = TRUE
          /\ loop' = [loop EXCEPT ![r] = [AtTop EXCEPT !.pc = "ended"]]
          /\ UNCHANGED <<conn, broken, closer, atServer, messageChan, call, remotePanic,
                         begun>>

-----------------------------------------------------------------------------
(* Invoke and Stream.                                                      *)

\* Send fails on a closed client, and takes the connection there is.
SendChecks(c) ==
    /\ Alive /\ call[c].pc = "new" /\ call[c].kind # "http"
    /\ call' = [call EXCEPT ![c].pc = IF isClosed THEN "failed" ELSE "checked", ![c].on = conn]
    /\ UNCHANGED <<conn, broken, closer, atServer, loop, messageChan, chanClosed,
                   remotePanic, begun>>

\* Without the lock: a client that was never connected has none to write to.
SendBegins(c) ==
    LET g == call[c].on IN
    /\ Alive /\ call[c].pc = "checked"
    /\ \/ g = 0 /\ ClientPanics("no connection")
       \/ /\ Writers(g) # {} \/ closer = [pc |-> "writing", on |-> g]
          /\ ClientPanics("two writers")
       \/ /\ g # 0 /\ Goes(c, "sending") /\ begun' = Append(begun, c)
          /\ UNCHANGED <<conn, broken, closer, atServer, loop, messageChan, chanClosed,
                         remotePanic>>

\* What is written to a lost connection is lost, whether Send notices or not.
SendEnds(c) ==
    /\ Alive /\ call[c].pc = "sending"
    /\ IF call[c].on \in broken
         THEN (Goes(c, "failed") \/ Goes(c, "waiting")) /\ UNCHANGED atServer
         ELSE atServer' = atServer \cup {c} /\ Goes(c, "waiting")
    /\ UNCHANGED <<conn, broken, closer, loop, messageChan, chanClosed, remotePanic,
                   begun>>

\* Mutant: an update ends an Invoke, too.
Ends_Update(c, m) == call[c].kind = "invoke" \/ m.type = "execute_response"

\* The messages that end a call: a Stream goes on after an interrupt.
Ends(c, m) ==
    \/ m.type = "execute_response"
    \/ m.type = "interrupt" /\ call[c].kind = "invoke"

\* Receive takes the next message, whatever request it answers.
ReceiveMessage(c) ==
    LET m == Head(messageChan) IN
    /\ Alive /\ call[c].pc = "waiting" /\ messageChan # <<>>
    /\ messageChan' = Tail(messageChan)
    /\ call' = IF Ends(c, m) THEN [call EXCEPT ![c].pc = "done", ![c].got = m] ELSE call
    /\ UNCHANGED <<conn, broken, closer, atServer, loop, chanClosed, remotePanic,
                   begun>>

\* From a closed channel it takes nil, which has no type.
ReceiveNil(c) ==
    /\ Alive /\ call[c].pc = "waiting" /\ chanClosed /\ messageChan = <<>>
    /\ ClientPanics("nil message")

\* The context ends, or the client is closed.
GivesUp(c) ==
    /\ Alive /\ call[c].pc = "waiting" /\ Goes(c, "failed")
    /\ UNCHANGED <<conn, broken, closer, atServer, loop, messageChan, chanClosed,
                   remotePanic, begun>>

-----------------------------------------------------------------------------
(* HTTP.                                                                   *)

\* What RemoteRunnable.Execute, and Send and Receive of the HTTP protocol,
\* make of a reply; an empty one is no message.
HttpOutcome(reply) ==
    CASE reply = "output" -> "value"
      [] reply = "empty" -> "nothing"
      [] OTHER -> "error"

HttpRequest(c) ==
    /\ Alive /\ call[c].pc = "new" /\ call[c].kind = "http"
    /\ \E reply \in {"output", "empty", "unreachable", "cut", "status", "garbage", "error"} :
         call' = [call EXCEPT ![c].pc = IF HttpOutcome(reply) = "error" THEN "failed" ELSE "done",
                              ![c].got = IF HttpOutcome(reply) = "value"
                                           THEN [type |-> "execute_response", id |-> c] ELSE @]
    /\ UNCHANGED <<conn, broken, closer, atServer, loop, messageChan, chanClosed,
                   remotePanic, begun>>

RemoteNext ==
    \/ Connect \/ Close \/ CloseWrites \/ CloseEnds
    \/ \E g \in Conns : Break(g)
    \/ \E r \in Conns : \/ ReadBegins(r) \/ ReadGarbage(r) \/ Deliver(r) \/ ReadEnds(r)
                        \/ \E m \in [type : MessageType, id : atServer] : ReadMessage(r, m)
    \/ \E c \in Call : \/ SendChecks(c) \/ SendBegins(c) \/ SendEnds(c)
                       \/ ReceiveMessage(c) \/ ReceiveNil(c) \/ GivesUp(c) \/ HttpRequest(c)

-----------------------------------------------------------------------------
(* Properties.                                                             *)

Before(c) == {begun[i] : i \in {j \in 1 .. Len(begun) : \E k \in j + 1 .. Len(begun) : begun[k] = c}}
Finished(c) == call[c].pc = "done" /\ call[c].kind # "http"

\* A call returns one final answer, which no other call returns; the last call
\* that began returns its own, unless one that began before has not returned its
\* own.  The client panics for a missing message only after a
\* connection was lost or it was closed, for a closed channel only if it was
\* connected twice, and for two writers only if two calls, or a call and Close,
\* overlap.
AnswersAreSound ==
    /\ \A c, d \in Call : Finished(c) /\ Finished(d) /\ c # d => call[c].got # call[d].got
    /\ \A c \in Call : Finished(c) => IsAnswer(call[c].got)
    /\ \A c \in Call : Finished(c) /\ begun # <<>> /\ Last(begun) = c =>
         \/ call[c].got.id = c
         \/ \E d \in Before(c) : call[d].got.id # d
    /\ remotePanic = "nil message" => broken # {} \/ isClosed
    /\ remotePanic = "closed channel" => conn > 1
    /\ remotePanic = "two writers" =>
         \E c \in Call : \/ call[c].pc \in {"checked", "sending"} /\ isClosed
                         \/ \E d \in Writers(call[c].on) \ {c} : call[c].pc = "checked"
==============================================================================
