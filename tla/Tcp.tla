-------------------------------- MODULE Tcp --------------------------------
(***************************************************************************)
(* The TCP of the firmwares that serve web pages: tcp.cpp of lib-network,  *)
(* a server that never opens a connection and has no timers.  It keeps a   *)
(* few transmission control blocks (TCBs) and one ring of received data    *)
(* for the one application, the web server.                                *)
(*                                                                         *)
(* The clients and the network are external: clients do what RFC 9293 asks *)
(* of the side that opens a connection, and a segment once sent may arrive *)
(* at any later time, any number of times or never.  A client opens one    *)
(* connection: the next one of the same host has another port.             *)
(*                                                                         *)
(* A message of the application fills one segment and counts as one in     *)
(* the sequence numbers.                                                   *)
(***************************************************************************)
EXTENDS Integers, Sequences, FiniteSets, Functions

CONSTANTS
    Clients,        \* addresses and ports that connections come from
    Modulus,        \* sequence numbers count modulo this
    Mss,            \* TCP_DATA_SIZE
    LastTcb,        \* TCP_MAX_TCBS_ALLOWED - 1
    ClientIss,      \* initial sequence number of the clients
    ClientWindow,   \* what a client is ready to receive at once
    Messages,       \* what each client sends
    MaxMessages,    \* bound: messages of all clients together
    ClockStep,      \* how far Millis() is on at the next connection
    MaxOpens,       \* bound: connections that the server opens
    Answers,        \* what the application answers
    Nobody          \* no client

ASSUME SequenceAssumption == Modulus \in Nat \ {0} /\ ClientIss \in 0 .. Modulus - 1
ASSUME MssAssumption == Mss \in Nat \ {0}
ASSUME TcbAssumption == LastTcb \in Nat
ASSUME BoundAssumption == {ClientWindow, MaxMessages, ClockStep, MaxOpens} \subseteq Nat
\* A connection takes less than half of the numbers.
ASSUME NumbersAssumption == 2 * (MaxMessages + 3) <= Modulus
ASSUME ClientsAssumption == IsFiniteSet(Clients) /\ Nobody \notin Clients

VARIABLES
    tcbs,       \* s_Port[0].TCB
    queue,      \* s_Port[0].receiveQueue
    opened,     \* how many connections have been opened
    arriving,   \* segments sent to the server
    leaving,    \* segments sent by the server
    clients,    \* the other ends
    read,       \* history: what the application has read from each client,
    before      \* and how much of it before its connection was opened

tcpVars == <<tcbs, queue, opened, arriving, leaving, clients, read, before>>

-----------------------------------------------------------------------------
(* Sequence numbers *)

Number == 0 .. Modulus - 1

Plus(x, n) == (x + n) % Modulus

\* static_cast<int32_t>(x - y)
Minus(x, y) == LET d == (x - y) % Modulus
               IN  IF d < Modulus \div 2 THEN d ELSE d - Modulus

LT(x, y) == Minus(x, y) < 0
LEQ(x, y) == Minus(x, y) <= 0
BETWEEN_L(l, x, h) == LEQ(l, x) /\ LT(x, h)
BETWEEN_H(l, x, h) == LT(l, x) /\ LEQ(x, h)
BETWEEN_LH(l, x, h) == LEQ(l, x) /\ LEQ(x, h)

-----------------------------------------------------------------------------
(* Data *)

Tcbs == 0 .. LastTcb

\* A firmware that is a server only and never closes first reaches no other.
TcbState == {"LISTEN", "SYN_RECEIVED", "ESTABLISHED", "CLOSE_WAIT", "LAST_ACK"}

\* TCP_RX_MAX_ENTRIES and TCP_MAX_RX_WND
RxEntries == 2
FullWindow == RxEntries * Mss

Tcb == [state : TcbState, peer : Clients \cup {Nobody},
        una : Number, nxt : Number, wnd : Int, wl1 : Number, wl2 : Number,
        iss : Number, rcvNxt : Number, rcvWnd : Int]

Control == {"SYN", "ACK", "FIN", "RST"}

\* The n-th message of a client
Message == [n : 1 .. MaxMessages, kind : UNION Range(Messages)]

\* A segment and its client; data is a sequence of no or one message.
Segment(client, ctl, seq, ack, data) ==
    [client |-> client, ctl |-> ctl, seq |-> seq, ack |-> ack, data |-> data]

SegmentOf(datum) ==
    [client : Clients, ctl : SUBSET Control, seq : Number, ack : Number,
     data : {<<>>} \cup {<<d>> : d \in datum}]

Queue == [head : 0 .. RxEntries - 1, tail : 0 .. RxEntries - 1,
          entries : [0 .. RxEntries - 1 ->
                        {<<>>} \cup [data : Message, tcb : Tcbs]]]

NoData == queue.head = queue.tail

-----------------------------------------------------------------------------
(* Replies.  Handling a segment works on its TCB, on what is sent and on   *)
(* what is put into the queue.                                             *)

Work(tcb, out, data) == [tcb |-> tcb, out |-> out, data |-> data]

\* _init_tcb: the initial sequence number is the time.
Iss == (opened * ClockStep) % Modulus

InitTcb == [state |-> "LISTEN", peer |-> Nobody,
            una |-> Iss, nxt |-> Iss, wnd |-> 0, wl1 |-> 0, wl2 |-> Iss,
            iss |-> Iss, rcvNxt |-> 0, rcvWnd |-> FullWindow]

\* send_package with the numbers of the TCB
Sent(t, ctl) == Segment(t.peer, ctl, t.nxt, t.rcvNxt, <<>>)

\* send_reset
Reset(seg) ==
    IF "RST" \in seg.ctl THEN {}
    ELSE LET ack == Plus(seg.seq, (IF "SYN" \in seg.ctl THEN 1 ELSE 0)
                                + (IF "FIN" \in seg.ctl THEN 1 ELSE 0)) IN
         {IF "ACK" \in seg.ctl
          THEN Segment(seg.client, {"RST"}, seg.ack, ack, <<>>)
          ELSE Segment(seg.client, {"RST", "ACK"}, 0, ack, <<>>)}

-----------------------------------------------------------------------------
(* tcp_handle, one operator for each step of RFC 9293 *)

\* A TCB in LISTEN: the SYN|ACK goes out before SND.NXT moves.
Listen(t, seg) ==
    CASE "RST" \in seg.ctl -> Work(t, {}, <<>>)
      [] "RST" \notin seg.ctl /\ "ACK" \in seg.ctl -> Work(t, Reset(seg), <<>>)
      [] seg.ctl \cap {"RST", "ACK"} = {} /\ "SYN" \in seg.ctl ->
             LET syn == [t EXCEPT !.peer = seg.client,
                                  !.nxt = t.iss,
                                  !.rcvNxt = Plus(seg.seq, 1)]
             IN  Work([syn EXCEPT !.state = "SYN_RECEIVED",
                                  !.nxt = Plus(t.iss, 1),
                                  !.una = t.iss],
                      {Sent(syn, {"SYN", "ACK"})}, <<>>)
      [] OTHER -> Work(t, {}, <<>>)

InWindow(t, seq) == BETWEEN_L(t.rcvNxt, seq, Plus(t.rcvNxt, t.rcvWnd))

\* Mutant: every segment is.
IsAcceptableAny(t, seg) == TRUE

\* The first byte or the last one is in the window; no data when it is zero.
IsAcceptable(t, seg) ==
    LET len == Len(seg.data) IN
    IF t.rcvWnd > 0
    THEN \/ InWindow(t, seg.seq)
         \/ len > 0 /\ InWindow(t, Plus(seg.seq, len - 1))
    ELSE len = 0 /\ seg.seq = t.rcvNxt

\* Not acceptable: an RST ends the connection all the same.
Unacceptable(t, seg) ==
    IF "RST" \in seg.ctl THEN Work(InitTcb, {}, <<>>)
                         ELSE Work(t, {Sent(t, {"ACK"})}, <<>>)

WindowUpdated(t, seg) ==
    IF LT(t.wl1, seg.seq) \/ (t.wl1 = seg.seq /\ LEQ(t.wl2, seg.ack))
    THEN [t EXCEPT !.wnd = ClientWindow, !.wl1 = seg.seq, !.wl2 = seg.ack]
    ELSE t

\* The ACK in SYN_RECEIVED; the rest of the segment is dropped.
Establish(t, seg) ==
    [t EXCEPT !.state = "ESTABLISHED", !.una = seg.ack, !.wnd = ClientWindow,
              !.wl1 = seg.seq, !.wl2 = seg.ack]

\* An ACK of what has not been sent
AcksTooMuch(t, seg) == /\ t.state \in {"ESTABLISHED", "CLOSE_WAIT"}
                       /\ ~LEQ(seg.ack, t.una)
                       /\ LT(t.nxt, seg.ack)

\* The ACK of an open connection, and of the server's FIN
Acknowledged(t, seg) ==
    CASE t.state \in {"ESTABLISHED", "CLOSE_WAIT"} ->
             IF BETWEEN_H(t.una, seg.ack, t.nxt)
             THEN WindowUpdated([t EXCEPT !.una = seg.ack], seg)
             ELSE IF seg.ack = t.una THEN WindowUpdated(t, seg) ELSE t
      [] t.state = "LAST_ACK" -> IF seg.ack = t.nxt THEN InitTcb ELSE t
      [] OTHER -> t

\* Mutant: any data inside the window is taken.
IsNextAny(t, seg) == seg.data # <<>>

IsNext(t, seg) == seg.data # <<>> /\ seg.seq = t.rcvNxt

\* FIN: the number that is acknowledged moves on, whatever the FIN's was.
Finished(t, out, data, seg) ==
    LET fin == [t EXCEPT !.rcvNxt = Plus(@, 1)] IN
    Work([fin EXCEPT !.state = IF @ \in {"SYN_RECEIVED", "ESTABLISHED"}
                               THEN "CLOSE_WAIT" ELSE @],
         out \cup {Sent(fin, {"ACK"})}, data)

Fin(work, seg) ==
    IF work.tcb.state = "LISTEN" \/ "FIN" \notin seg.ctl THEN work
    ELSE Finished(work.tcb, work.out, work.data, seg)

\* Text of the segment: taken when it is next, else only acknowledged.
TextAndFin(t, out, seg) ==
    IF t.state # "ESTABLISHED" \/ seg.data = <<>> THEN Fin(Work(t, out, <<>>), seg)
    ELSE IF IsNext(t, seg)
         THEN LET got == [t EXCEPT !.rcvNxt = Plus(@, 1), !.rcvWnd = @ - Mss] IN
              Fin(Work(got, out \cup {Sent(got, {"ACK"})}, seg.data), seg)
         ELSE Work(t, out \cup {Sent(t, {"ACK"})}, <<>>)

\* A SYN resets the other side but the segment is worked on.
Synchronized(t, seg) ==
    LET out == IF "SYN" \in seg.ctl THEN Reset(seg) ELSE {}
    IN CASE "ACK" \notin seg.ctl -> Work(t, out, <<>>)
         [] /\ "ACK" \in seg.ctl
            /\ t.state = "SYN_RECEIVED" ->
                IF BETWEEN_LH(t.una, seg.ack, t.nxt)
                THEN Work(Establish(t, seg), out, <<>>)
                ELSE TextAndFin(t, out \cup Reset(seg), seg)
         [] "ACK" \in seg.ctl /\ AcksTooMuch(t, seg) ->
                Work(t, out \cup {Sent(t, {"ACK"})}, <<>>)
         [] OTHER -> TextAndFin(Acknowledged(t, seg), out, seg)

Handled(t, seg) ==
    IF t.state = "LISTEN" THEN Listen(t, seg)
    ELSE IF ~IsAcceptable(t, seg) THEN Unacceptable(t, seg)
    ELSE IF \/ "RST" \in seg.ctl
            \/ "SYN" \in seg.ctl /\ t.state = "SYN_RECEIVED"
         THEN Work(InitTcb, {}, <<>>)
    ELSE Synchronized(t, seg)

\* tcp_run, called after every segment: close what the client has closed.
TcpRun(work) ==
    IF work.tcb.state = "CLOSE_WAIT"
    THEN Work([work.tcb EXCEPT !.state = "LAST_ACK", !.nxt = Plus(@, 1)],
              work.out \cup {Sent(work.tcb, {"FIN", "ACK"})}, work.data)
    ELSE work

-----------------------------------------------------------------------------
(* The server *)

Matching(seg) ==
    {i \in Tcbs : tcbs[i].state # "LISTEN" /\ tcbs[i].peer = seg.client}

Available == {i \in Tcbs : tcbs[i].state = "LISTEN"}

Lowest(S) == CHOOSE i \in S : \A j \in S : i <= j

\* find_tcb: without a TCB the index is one past the end, and what lies there
\* is the queue, whose bytes are text and no state of a connection.
Found(seg) == IF Matching(seg) # {} THEN {Lowest(Matching(seg))}
              ELSE IF Available # {} THEN {Lowest(Available)} ELSE {}

Enqueued(data, i) ==
    IF data = <<>> THEN queue
    ELSE [queue EXCEPT !.entries[queue.head] = [data |-> data[1], tcb |-> i],
                       !.head = (@ + 1) % RxEntries]

\* A mere ACK only tells a client what it need not send again, and here the
\* network sends everything again.
Telling(out) == {seg \in out : seg.ctl # {"ACK"} \/ seg.data # <<>>}

HandleSegment(seg, i) ==
    LET work == TcpRun(Handled(tcbs[i], seg))
        opens == tcbs[i].state = "LISTEN" /\ work.tcb.state # "LISTEN" IN
    /\ opens => opened < MaxOpens    \* bound
    /\ opened' = IF opens THEN opened + 1 ELSE opened
    /\ tcbs' = [tcbs EXCEPT ![i] = work.tcb]
    /\ leaving' = leaving \cup Telling(work.out)
    /\ queue' = Enqueued(work.data, i)
    /\ before' = IF opens
                 THEN [before EXCEPT ![seg.client] = Len(read[seg.client])]
                 ELSE before
    /\ UNCHANGED <<arriving, clients, read>>

\* net_handle takes one packet, and then the web server reads one message.
\* Mutant: packets are taken as long as there are any.
HandleAll(seg) == \E i \in Found(seg) : HandleSegment(seg, i)

Handle(seg) == NoData /\ \E i \in Found(seg) : HandleSegment(seg, i)

\* tcp_read: the window opens again.
ReadBy(i) == [tcbs EXCEPT ![i].rcvWnd = @ + Mss]

Dequeued == [queue EXCEPT !.tail = (@ + 1) % RxEntries]

\* _write: what does not fit into the window is not sent at all.
Written(work, datum) ==
    LET t == work.tcb IN
    IF 1 > t.wnd THEN work
    ELSE Work([t EXCEPT !.nxt = Plus(@, 1), !.wnd = @ - 1],
              work.out \cup {Segment(t.peer, {"ACK"}, t.nxt, t.rcvNxt, <<datum>>)},
              work.data)

-----------------------------------------------------------------------------
(* The clients *)

Client == [state : {"CLOSED", "SYN_SENT", "ESTABLISHED", "FIN_WAIT", "DONE"},
           nxt : Number, rcv : Number,
           sent : UNION {[1 .. n -> UNION Range(Messages)] :
                             n \in 0 .. MaxMessages}]

Open(c) == clients[c].state \in {"ESTABLISHED", "FIN_WAIT"}

\* A client goes on as client and sends a segment.
Act(c, client, ctl, data) ==
    /\ clients' = [clients EXCEPT ![c] = client]
    /\ arriving' = arriving \cup
           {Segment(c, ctl, clients[c].nxt, client.rcv, data)}
    /\ UNCHANGED <<tcbs, queue, opened, leaving, read, before>>

Connect(c) ==
    /\ clients[c].state = "CLOSED"
    /\ Act(c, [clients[c] EXCEPT !.state = "SYN_SENT", !.nxt = Plus(@, 1)],
           {"SYN"}, <<>>)

GetSynAck(c, seg) ==
    /\ clients[c].state = "SYN_SENT"
    /\ {"SYN", "ACK"} \subseteq seg.ctl /\ seg.ack = clients[c].nxt
    /\ Act(c, [clients[c] EXCEPT !.state = "ESTABLISHED",
                                 !.rcv = Plus(seg.seq, 1)], {"ACK"}, <<>>)

SentMessages == {m \in Clients \X (1 .. MaxMessages) :
                     m[2] <= Len(clients[m[1]].sent)}

\* A message, which may be the last one.
Send(c, kind, last) ==
    LET sent == Append(clients[c].sent, kind) IN
    /\ clients[c].state = "ESTABLISHED"
    /\ Cardinality(SentMessages) < MaxMessages    \* bound
    /\ Act(c, [clients[c] EXCEPT
                  !.state = IF last THEN "FIN_WAIT" ELSE @,
                  !.nxt = Plus(@, IF last THEN 2 ELSE 1),
                  !.sent = sent],
           IF last THEN {"ACK", "FIN"} ELSE {"ACK"},
           <<[n |-> Len(sent), kind |-> kind]>>)

Close(c) ==
    /\ clients[c].state = "ESTABLISHED"
    /\ Act(c, [clients[c] EXCEPT !.state = "FIN_WAIT", !.nxt = Plus(@, 1)],
           {"ACK", "FIN"}, <<>>)

GetAnswer(c, seg) ==
    /\ Open(c)
    /\ seg.data # <<>> /\ seg.seq = clients[c].rcv
    /\ Act(c, [clients[c] EXCEPT !.rcv = Plus(@, 1)], {"ACK"}, <<>>)

GetFin(c, seg) ==
    /\ clients[c].state = "FIN_WAIT"
    /\ "FIN" \in seg.ctl /\ seg.seq = clients[c].rcv
    /\ Act(c, [clients[c] EXCEPT !.state = "DONE", !.rcv = Plus(@, 1)],
           {"ACK"}, <<>>)

GetReset(c, seg) ==
    /\ "RST" \in seg.ctl
    /\ \/ Open(c) /\ seg.seq = clients[c].rcv
       \/ clients[c].state = "SYN_SENT" /\ seg.ack = clients[c].nxt
    /\ clients' = [clients EXCEPT ![c].state = "DONE"]
    /\ UNCHANGED <<tcbs, queue, opened, arriving, leaving, read, before>>

Abort(c) ==
    /\ clients[c].state = "ESTABLISHED"
    /\ Act(c, [clients[c] EXCEPT !.state = "DONE"], {"RST", "ACK"}, <<>>)

\* A client that has closed, or aborted, meets a repeated SYN|ACK.  To other
\* segments it would answer with the RST of Abort once more.
Refuse(c, seg) ==
    /\ clients[c].state = "DONE"
    /\ {"SYN", "ACK"} \subseteq seg.ctl
    /\ arriving' = arriving \cup {Segment(c, {"RST"}, seg.ack, 0, <<>>)}
    /\ UNCHANGED <<tcbs, queue, opened, leaving, clients, read, before>>

Receive(seg) == \/ GetSynAck(seg.client, seg)
                \/ GetAnswer(seg.client, seg)
                \/ GetFin(seg.client, seg)
                \/ GetReset(seg.client, seg)
                \/ Refuse(seg.client, seg)

-----------------------------------------------------------------------------

TcpInit ==
    /\ opened = 0
    /\ tcbs = [i \in Tcbs |-> InitTcb]
    /\ queue = [head |-> 0, tail |-> 0,
                entries |-> [e \in 0 .. RxEntries - 1 |-> <<>>]]
    /\ arriving = {} /\ leaving = {}
    /\ clients = [c \in Clients |->
                     [state |-> "CLOSED", nxt |-> ClientIss, rcv |-> 0,
                      sent |-> <<>>]]
    /\ read = [c \in Clients |-> <<>>]
    /\ before = [c \in Clients |-> 0]

ClientStep == \/ \E c \in Clients : Connect(c) \/ Close(c) \/ Abort(c)
              \/ \E c \in Clients : \E kind \in Messages[c], last \in BOOLEAN :
                     Send(c, kind, last)
              \/ \E seg \in leaving : Receive(seg)

TcpTypeOK ==
    /\ tcbs \in [Tcbs -> Tcb]
    /\ \A i \in Tcbs : tcbs[i].rcvWnd \in {FullWindow, FullWindow - Mss}
    /\ queue \in Queue
    /\ opened \in 0 .. MaxOpens
    /\ arriving \subseteq SegmentOf(Message)
    /\ leaving \subseteq SegmentOf(Answers)
    /\ clients \in [Clients -> Client]
=============================================================================
