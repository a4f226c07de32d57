----------------------------- MODULE WebServer -----------------------------
(***************************************************************************)
(* The web server on its TCP: class HttpDaemon and one                     *)
(* HttpDeamonHandleRequest for every TCB, of lib-remoteconfig.  A handler  *)
(* is known by the index of its TCB, not by the connection: it lives on    *)
(* when another client gets the TCB.                                       *)
(*                                                                         *)
(* Of the requests it matters which handler they take and whether the      *)
(* server answers; of an answer, which text it carries.                    *)
(***************************************************************************)
EXTENDS Tcp

VARIABLES
    handlers,   \* pHandleRequest
    dynamic,    \* m_DynamicContent, which all handlers share
    posted      \* history: who sent the bodies that were handled, and who
                \* the headers they were taken for

vars == <<tcpVars, handlers, dynamic, posted>>

-----------------------------------------------------------------------------
(* Messages: GET of a JSON document or of a page, POST with its body, the  *)
(* headers of a POST without it, and a body.                               *)

Kinds == {"json", "page", "post", "headers", "body"}

ASSUME MessagesAssumption == Messages \in [Clients -> SUBSET Kinds]

\* Texts; null is the content of a handler that has not had any.
Texts == {"null", "list", "page", "submit", "error"}

ASSUME AnswersAssumption == Texts \subseteq Answers

\* m_pContent points to the shared buffer, to a page, or nowhere.
Handler == [awaitsBody : BOOLEAN, asker : Clients \cup {Nobody},
            content : {"null", "dynamic", "page"}]

NewHandler == [awaitsBody |-> FALSE, asker |-> Nobody, content |-> "null"]

\* The header of an answer tells its status, and goes out before the text; of
\* an answer only the text is left here.
Text(h, buffer) == IF h.content = "dynamic" THEN buffer ELSE h.content

\* The handlers after a message: the handler, the shared buffer and whether
\* it answers.
Result(h, buffer, answers) ==
    [handler |-> h, dynamic |-> buffer, answers |-> answers]

\* HandlePost leaves m_pContent where the last answer had it.
Submitted(h) == Result([h EXCEPT !.awaitsBody = FALSE], "submit", TRUE)

Failed(h) == Result([h EXCEPT !.awaitsBody = FALSE, !.content = "dynamic"],
                    "error", TRUE)

\* The first message of a request; a text without any line end is no request,
\* but the status is OK.
Initial(h, kind, client) ==
    CASE kind = "json" -> Result([h EXCEPT !.content = "dynamic"], "list", TRUE)
      [] kind = "page" -> Result([h EXCEPT !.content = "page"], dynamic, TRUE)
      [] kind = "post" -> Submitted(h)
      [] kind = "headers" ->
             Result([h EXCEPT !.awaitsBody = TRUE, !.asker = client],
                    dynamic, FALSE)
      [] kind = "body" -> Result(h, dynamic, TRUE)

\* The message after the headers of a POST is its body, whatever it is; what
\* is no body is taken for settings, or refused as an action.
HandleRequest(h, kind, client) ==
    IF ~h.awaitsBody THEN {Initial(h, kind, client)}
    ELSE IF kind = "body" THEN {Submitted(h)} ELSE {Submitted(h), Failed(h)}

\* HttpDaemon::Run, once for every turn of the main loop
Run ==
    LET entry == queue.entries[queue.tail]
        i == entry.tcb
        h == handlers[i]
        peer == tcbs[i].peer
        kind == entry.data.kind IN
    /\ ~NoData
    /\ \E result \in HandleRequest(h, kind, peer) :
           LET start == Work(ReadBy(i)[i], {}, <<>>)
               text == Text(result.handler, result.dynamic)
               work == IF result.answers
                       THEN Written(start, text)
                       ELSE start IN
           /\ tcbs' = [tcbs EXCEPT ![i] = work.tcb]
           /\ leaving' = leaving \cup work.out
           /\ handlers' = [handlers EXCEPT ![i] = result.handler]
           /\ dynamic' = result.dynamic
    /\ queue' = Dequeued
    /\ read' = IF peer = Nobody THEN read
               ELSE [read EXCEPT ![peer] = Append(@, entry.data)]
    /\ posted' = IF h.awaitsBody THEN posted \cup {<<h.asker, peer>>}
                                 ELSE posted
    /\ UNCHANGED <<opened, arriving, clients, before>>

-----------------------------------------------------------------------------

Init == /\ TcpInit
        /\ handlers = [i \in Tcbs |-> NewHandler]
        /\ dynamic = "null"
        /\ posted = {}

Transport == (\/ \E seg \in arriving : Handle(seg)
              \/ ClientStep)
             /\ UNCHANGED <<handlers, dynamic, posted>>

Next == Transport \/ Run

Spec == Init /\ [][Next]_vars

-----------------------------------------------------------------------------
(* Properties *)

TypeOK == /\ TcpTypeOK
          /\ handlers \in [Tcbs -> Handler]
          /\ dynamic \in Texts
          /\ read \in [Clients -> Seq(Message)]
          /\ before \in [Clients -> Nat]

\* Whatever the network loses, repeats or turns around, and whoever had the
\* TCB before: of a connection the application reads what the client has
\* sent, from the first message on, in order and each message once.
ReadsInOrder ==
    \A c \in Clients :
        LET count == Len(read[c]) - before[c] IN
        /\ count \in 0 .. Len(clients[c].sent)
        /\ \A n \in 1 .. count :
               read[c][before[c] + n] = [n |-> n, kind |-> clients[c].sent[n]]

\* A repeated SYN does not open a connection on which a client's old messages
\* are read again.
ReadsOnce == \A c \in Clients : before[c] < Len(read[c]) => before[c] = 0

\* Nothing is acknowledged that the client has not sent, and nothing that it
\* sent after.
Unsent(c, n) == Minus(n, clients[c].nxt) > 0

AcknowledgesSent ==
    \A i \in Tcbs : tcbs[i].peer # Nobody => ~Unsent(tcbs[i].peer, tcbs[i].rcvNxt)

\* How many messages of its connection a TCB has passed on, the one that
\* waits in the queue included
Received(i) == Len(read[tcbs[i].peer]) - before[tcbs[i].peer]
             + IF ~NoData /\ queue.entries[queue.tail].tcb = i THEN 1 ELSE 0

\* How many messages come before the number that a TCB expects
AckedBy(i) == Minus(tcbs[i].rcvNxt, Plus(ClientIss, 1))

\* What an established connection has acknowledged, and the client will not
\* send again, has been read or waits for the application.  tcp_handle stores
\* a message whether or not the ring has room, and a full ring of two entries
\* looks empty: it is the main loop, which reads after every packet, that
\* lets none be lost.
AcknowledgedIsKept ==
    \A i \in Tcbs : tcbs[i].state = "ESTABLISHED" => AckedBy(i) = Received(i)

\* The same of a connection that the client has closed, whose FIN counts one.
AcknowledgedIsReceived ==
    \A i \in Tcbs :
        tcbs[i].state \in {"ESTABLISHED", "CLOSE_WAIT", "LAST_ACK"} =>
            \/ AckedBy(i) <= Received(i)
            \/ /\ clients[tcbs[i].peer].state \in {"FIN_WAIT", "DONE"}
               /\ AckedBy(i) = Len(clients[tcbs[i].peer].sent) + 1
               /\ Received(i) = Len(clients[tcbs[i].peer].sent)

\* tcp_write asserts that there is something to send.
WritesHaveContent == \A seg \in leaving : seg.data # <<"null">>

\* A body that is handled comes from the client whose headers it follows.
BodiesFollowTheirHeaders == \A pair \in posted : pair[1] = pair[2]
=============================================================================
