-------------------------- MODULE WebServerProofs --------------------------
(***************************************************************************)
(* The web server's TCP, proved for every number of clients, TCBs and      *)
(* messages, and for a network that loses, repeats and reorders segments:  *)
(*                                                                         *)
(*   the inductive invariant  Inv                                          *)
(*   sequence numbers         Distance, AtNext                             *)
(*   outcome of a segment     HandledGoes, ListenGoes, OutcomeCounts       *)
(*   steps of the clients     ClientStepKeeps                              *)
(*   steps of the server      HandleKeeps, RunKeeps                        *)
(*                                                                         *)
(* A TCB is followed by a count: how many messages of its connection were  *)
(* read or wait in the ring.  The number it expects next is the one after  *)
(* them, a segment carries the number of its message, and less than half   *)
(* of all numbers are in use, so that the comparisons of the code, which   *)
(* are of signed differences, compare messages.                            *)
(***************************************************************************)
EXTENDS WebServer, FiniteSetTheorems, WellFoundedInduction, TLAPS

-----------------------------------------------------------------------------
(* Sequence numbers *)

\* The number of the k-th message of every client, and how far it gets
At(k) == Plus(ClientIss, k)
Last == MaxMessages + 2

\* The types of the constants, and that a connection's numbers take less than
\* half of all
LEMMA ConstantTypes ==
    /\ Modulus \in Nat \ {0} /\ ClientIss \in 0 .. Modulus - 1
    /\ Mss \in Nat \ {0} /\ LastTcb \in Nat
    /\ MaxMessages \in Nat /\ ClientWindow \in Nat /\ ClockStep \in Nat
    /\ MaxOpens \in Nat
    /\ Nobody \notin Clients
    /\ Last \in Nat /\ 2 * Last + 2 <= Modulus
<1>1. /\ MaxMessages \in Nat /\ ClientWindow \in Nat /\ ClockStep \in Nat
      /\ MaxOpens \in Nat
  BY BoundAssumption
<1>2. Last \in Nat /\ 2 * Last + 2 <= Modulus
  BY <1>1, NumbersAssumption DEF Last
<1> QED
  BY <1>1, <1>2, SequenceAssumption, MssAssumption, TcbAssumption,
     ClientsAssumption

\* Remainders of what is off by one modulus at most
LEMMA Remainder ==
    ASSUME NEW m \in Nat \ {0}, NEW x \in Int
    PROVE  /\ x % m \in 0 .. m - 1
           /\ x \in 0 .. m - 1 => x % m = x
           /\ x \in m .. 2 * m - 1 => x % m = x - m
           /\ x \in -m .. -1 => x % m = x + m
OBVIOUS

\* A sum or a difference of two numbers, reduced
LEMMA Reduced ==
    ASSUME NEW x \in Int, -Modulus <= x, x < 2 * Modulus
    PROVE  x % Modulus = IF x < 0 THEN x + Modulus
                         ELSE IF x < Modulus THEN x ELSE x - Modulus
<1>1. Modulus \in Nat \ {0}
  BY ConstantTypes
<1>2. /\ x \in 0 .. Modulus - 1 => x % Modulus = x
      /\ x \in Modulus .. 2 * Modulus - 1 => x % Modulus = x - Modulus
      /\ x \in -Modulus .. -1 => x % Modulus = x + Modulus
  BY <1>1, Remainder
<1>3. \/ x \in 0 .. Modulus - 1
      \/ x \in Modulus .. 2 * Modulus - 1
      \/ x \in -Modulus .. -1
  BY <1>1
<1> QED
  BY <1>1, <1>2, <1>3

\* What is not more than half is on both sides of the half.
LEMMA Half ==
    ASSUME NEW m \in Nat \ {0}, NEW h \in Nat, 2 * h <= m
    PROVE  /\ m \div 2 \in Nat
           /\ h <= m \div 2
           /\ m \div 2 <= m - h
OBVIOUS

\* The number of a message, without the remainder
LEMMA AtIs ==
    ASSUME NEW k \in 0 .. Last + 1
    PROVE  /\ At(k) \in Number
           /\ At(k) = IF ClientIss + k < Modulus THEN ClientIss + k
                                                 ELSE ClientIss + k - Modulus
<1> DEFINE x == ClientIss + k
<1>1. x \in Int /\ 0 <= x /\ x < 2 * Modulus
  BY ConstantTypes
<1>2. x % Modulus = IF x < Modulus THEN x ELSE x - Modulus
  BY <1>1, Reduced, ConstantTypes
<1>3. At(k) = x % Modulus
  BY DEF At, Plus
<1> QED
  BY <1>1, <1>2, <1>3, ConstantTypes DEF Number

\* Signed distances of the numbers of one connection are those of the messages,
\* also where the numbers start again at 0.
LEMMA Distance ==
    ASSUME NEW j \in 0 .. Last, NEW k \in 0 .. Last
    PROVE  Minus(At(j), At(k)) = j - k
<1> DEFINE x == At(j) - At(k)
<1>1. x \in Int /\ x \in {j - k, j - k + Modulus, j - k - Modulus}
  BY ConstantTypes, AtIs DEF Number
<1>2. /\ -Modulus < x /\ x < Modulus
  BY ConstantTypes, AtIs DEF Number
<1>3. x % Modulus = IF j >= k THEN j - k ELSE j - k + Modulus
  BY <1>1, <1>2, ConstantTypes, Reduced
<1>4. /\ Modulus \div 2 \in Nat /\ Last + 1 <= Modulus \div 2
      /\ Modulus \div 2 <= Modulus - (Last + 1)
  BY ConstantTypes, Half
<1> QED
  BY <1>3, <1>4, ConstantTypes DEF Minus

\* The numbers of one connection differ.
LEMMA AtDiffers ==
    ASSUME NEW j \in 0 .. Last, NEW k \in 0 .. Last, At(j) = At(k)
    PROVE  j = k
BY ConstantTypes, AtIs

\* The number that follows a message, or a last message and its FIN
LEMMA AtNext ==
    ASSUME NEW n \in {1, 2}, NEW k \in 0 .. Last, k + n <= Last + 1
    PROVE  Plus(At(k), n) = At(k + n)
<1>1. At(k) \in Number /\ At(k + n) \in Number
  BY AtIs, ConstantTypes
<1> DEFINE x == At(k) + n
<1>2. x \in Int /\ 0 <= x /\ -Modulus <= x /\ x < 2 * Modulus
  BY <1>1, ConstantTypes DEF Number
<1>3. Plus(At(k), n) = x % Modulus
  BY DEF Plus
<1>4. x = At(k) + n
  OBVIOUS
<1> HIDE DEF x
<1>5. x % Modulus = IF x < Modulus THEN x ELSE x - Modulus
  BY <1>2, Reduced, ConstantTypes
<1>6. At(k) = IF ClientIss + k < Modulus THEN ClientIss + k
                                        ELSE ClientIss + k - Modulus
  BY AtIs, ConstantTypes
<1>7. At(k + n) = IF ClientIss + (k + n) < Modulus THEN ClientIss + (k + n)
                  ELSE ClientIss + (k + n) - Modulus
  <2>1. k + n \in 0 .. Last + 1
    BY ConstantTypes
  <2> QED
    BY <2>1, AtIs
<1> QED
  BY <1>1, <1>2, <1>3, <1>4, <1>5, <1>6, <1>7, ConstantTypes DEF Number

\* Sums are sequence numbers.
LEMMA PlusIsNumber ==
    ASSUME NEW x \in Int, NEW n \in Int
    PROVE  Plus(x, n) \in Number
BY ConstantTypes, Remainder DEF Plus, Number

\* Sequence numbers are naturals below the modulus.
LEMMA NumberIs ==
    ASSUME NEW x \in Number
    PROVE  x \in Nat /\ x < Modulus /\ Plus(x, 0) = x
BY ConstantTypes, Remainder DEF Plus, Number

-----------------------------------------------------------------------------
(* What a segment does to a TCB *)

\* What the server receives and sends, and an open window
In == SegmentOf(Message)
Out == SegmentOf(Answers)
Full(t) == t.rcvWnd = FullWindow

\* The parts of a segment that a client sends
LEMMA InIs ==
    ASSUME NEW seg \in In
    PROVE  /\ seg.client \in Clients /\ seg.ctl \subseteq Control
           /\ seg.seq \in Number /\ seg.ack \in Number
           /\ seg.data = <<>> \/ \E d \in Message : seg.data = <<d>>
BY DEF In, SegmentOf

\* Segments that the server may send
LEMMA OutHas ==
    ASSUME NEW c \in Clients, NEW ctl \in SUBSET Control, NEW seq \in Number,
           NEW ack \in Number
    PROVE  /\ Segment(c, ctl, seq, ack, <<>>) \in Out
           /\ \A d \in Answers : Segment(c, ctl, seq, ack, <<d>>) \in Out
BY DEF Out, SegmentOf, Segment

\* _init_tcb frees a TCB and opens its window.
LEMMA InitTcbIs ==
    ASSUME opened \in Nat
    PROVE  /\ InitTcb \in Tcb
           /\ InitTcb.state = "LISTEN" /\ InitTcb.peer = Nobody
           /\ Full(InitTcb)
<1>1. opened * ClockStep \in Int
  BY ConstantTypes
<1>2. Iss \in Number /\ 0 \in Number
  BY <1>1, ConstantTypes, Remainder DEF Iss, Number
<1>3. FullWindow \in Int
  BY ConstantTypes DEF FullWindow, RxEntries
<1> QED
  BY <1>2, <1>3 DEF InitTcb, Tcb, TcbState, Full

\* send_package sends a segment to the client of the TCB.
LEMMA SentIs ==
    ASSUME NEW t \in Tcb, t.peer \in Clients, NEW ctl \in SUBSET Control
    PROVE  Sent(t, ctl) \in Out
<1>1. t.nxt \in Number /\ t.rcvNxt \in Number
  BY DEF Tcb
<1> QED
  BY <1>1, OutHas DEF Sent

\* send_reset sends no or one segment.
LEMMA ResetIs ==
    ASSUME NEW seg \in In
    PROVE  Reset(seg) \subseteq Out
<1>0. /\ seg.client \in Clients /\ seg.ack \in Number /\ seg.seq \in Int
      /\ 0 \in Number
  BY InIs, NumberIs, ConstantTypes DEF Number
<1> DEFINE more == (IF "SYN" \in seg.ctl THEN 1 ELSE 0)
                   + (IF "FIN" \in seg.ctl THEN 1 ELSE 0)
           ack == Plus(seg.seq, more)
<1>1. more \in Int
  OBVIOUS
<1>2. ack \in Number
  BY <1>0, <1>1, PlusIsNumber
<1>3. {"RST"} \in SUBSET Control /\ {"RST", "ACK"} \in SUBSET Control
  BY DEF Control
<1>4. Reset(seg) = IF "RST" \in seg.ctl THEN {}
                   ELSE {IF "ACK" \in seg.ctl
                         THEN Segment(seg.client, {"RST"}, seg.ack, ack, <<>>)
                         ELSE Segment(seg.client, {"RST", "ACK"}, 0, ack, <<>>)}
  BY DEF Reset
<1> HIDE DEF ack
<1>5. /\ Segment(seg.client, {"RST"}, seg.ack, ack, <<>>) \in Out
      /\ Segment(seg.client, {"RST", "ACK"}, 0, ack, <<>>) \in Out
  BY <1>0, <1>2, <1>3, OutHas
<1> QED
  BY <1>4, <1>5

\* What becomes of a TCB: it is free, goes on, takes the text, takes the text
\* and the FIN, or takes the FIN.
WorkOK(w) == w.tcb \in Tcb /\ w.out \subseteq Out
Freed(w) == /\ w.tcb.state = "LISTEN" /\ w.tcb.peer = Nobody
            /\ Full(w.tcb) /\ w.data = <<>>
SameEnds(t, w) == w.tcb.peer = t.peer
Stays(t, w) == /\ SameEnds(t, w) /\ w.data = <<>>
               /\ w.tcb.rcvNxt = t.rcvNxt /\ w.tcb.rcvWnd = t.rcvWnd
               /\ \/ w.tcb.state = t.state
                  \/ t.state = "SYN_RECEIVED" /\ w.tcb.state = "ESTABLISHED"
TakesText(t, seg, w) ==
    /\ SameEnds(t, w) /\ t.state = "ESTABLISHED"
    /\ IsNext(t, seg) /\ w.data = seg.data
    /\ w.tcb.rcvWnd = t.rcvWnd - Mss
    /\ \/ /\ w.tcb.state = "ESTABLISHED"
          /\ w.tcb.rcvNxt = Plus(t.rcvNxt, 1)
       \/ /\ w.tcb.state \in {"CLOSE_WAIT", "LAST_ACK"} /\ "FIN" \in seg.ctl
          /\ w.tcb.rcvNxt = Plus(Plus(t.rcvNxt, 1), 1)
TakesFin(t, seg, w) ==
    /\ SameEnds(t, w) /\ w.data = <<>> /\ "FIN" \in seg.ctl
    /\ w.tcb.rcvWnd = t.rcvWnd /\ w.tcb.rcvNxt = Plus(t.rcvNxt, 1)
    /\ w.tcb.state \in {"CLOSE_WAIT", "LAST_ACK"}

Goes(t, seg, w) == \/ Freed(w)
                   \/ Stays(t, w)
                   \/ TakesText(t, seg, w)
                   \/ TakesFin(t, seg, w)

\* The states between the steps of a TCB that has a client
InUse == {"SYN_RECEIVED", "ESTABLISHED", "LAST_ACK"}

\* The FIN step: nothing, or the FIN is acknowledged
LEMMA FinGoes ==
    ASSUME NEW t \in Tcb, NEW seg \in In, t.state \in InUse,
           t.peer \in Clients, NEW out \in SUBSET Out, NEW data
    PROVE  LET w == Fin(Work(t, out, data), seg) IN
           /\ WorkOK(w) /\ w.data = data /\ w.tcb.peer = t.peer
           /\ w.tcb.rcvWnd = t.rcvWnd
           /\ \/ w.tcb = t /\ "FIN" \notin seg.ctl
              \/ /\ "FIN" \in seg.ctl
                 /\ w.tcb.state \in {"CLOSE_WAIT", "LAST_ACK"}
                 /\ w.tcb.rcvNxt = Plus(t.rcvNxt, 1)
<1> DEFINE fin == [t EXCEPT !.rcvNxt = Plus(@, 1)]
           end == [fin EXCEPT !.state =
                      IF @ \in {"SYN_RECEIVED", "ESTABLISHED"}
                      THEN "CLOSE_WAIT" ELSE @]
<1>1. CASE "FIN" \notin seg.ctl
  BY <1>1 DEF Fin, Work, WorkOK
<1>2. CASE "FIN" \in seg.ctl
  <2>1. t.rcvNxt \in Int
    BY NumberIs DEF Tcb
  <2>2. Plus(t.rcvNxt, 1) \in Number
    BY <2>1, PlusIsNumber
  <2>3. /\ fin \in Tcb /\ fin.state = t.state /\ fin.peer = t.peer
        /\ fin.rcvWnd = t.rcvWnd /\ fin.rcvNxt = Plus(t.rcvNxt, 1)
    BY <2>2 DEF Tcb
  <2>4. Sent(fin, {"ACK"}) \in Out
    BY <2>3, SentIs DEF Control
  <2> HIDE DEF fin
  <2>5. /\ end \in Tcb /\ end.peer = fin.peer /\ end.rcvWnd = fin.rcvWnd
        /\ end.rcvNxt = fin.rcvNxt
        /\ end.state \in {"CLOSE_WAIT", "LAST_ACK"}
    BY <2>3 DEF Tcb, TcbState, InUse
  <2>6. Fin(Work(t, out, data), seg)
            = Work(end, out \cup {Sent(fin, {"ACK"})}, data)
    BY <1>2 DEF Fin, Work, Finished, fin, InUse
  <2> HIDE DEF end
  <2> QED
    BY <1>2, <2>3, <2>4, <2>5, <2>6 DEF Work, WorkOK
<1> QED
  BY <1>1, <1>2

\* The steps for the text and for the FIN together
LEMMA TextGoes ==
    ASSUME NEW t \in Tcb, NEW seg \in In, t.state \in InUse,
           t.peer \in Clients, NEW out \in SUBSET Out
    PROVE  LET w == TextAndFin(t, out, seg) IN
           /\ WorkOK(w)
           /\ Stays(t, w) \/ TakesText(t, seg, w) \/ TakesFin(t, seg, w)
<1> DEFINE got == [t EXCEPT !.rcvNxt = Plus(@, 1), !.rcvWnd = @ - Mss]
<1>1. CASE t.state # "ESTABLISHED" \/ seg.data = <<>>
  <2>1. TextAndFin(t, out, seg) = Fin(Work(t, out, <<>>), seg)
    BY <1>1 DEF TextAndFin
  <2> QED
    BY <2>1, FinGoes DEF Stays, TakesFin, SameEnds
<1>2. CASE ~(t.state # "ESTABLISHED" \/ seg.data = <<>>) /\ IsNext(t, seg)
  <2>1. t.rcvNxt \in Int /\ t.rcvWnd \in Int /\ t.rcvWnd - Mss \in Int
    BY NumberIs, ConstantTypes DEF Tcb
  <2>2. Plus(t.rcvNxt, 1) \in Number
    BY <2>1, PlusIsNumber
  <2>3. /\ got \in Tcb /\ got.state = "ESTABLISHED" /\ got.peer = t.peer
        /\ got.rcvWnd = t.rcvWnd - Mss /\ got.rcvNxt = Plus(t.rcvNxt, 1)
    BY <1>2, <2>1, <2>2 DEF Tcb
  <2>4. out \cup {Sent(got, {"ACK"})} \in SUBSET Out
    BY <2>3, SentIs DEF Control
  <2>5. TextAndFin(t, out, seg)
            = Fin(Work(got, out \cup {Sent(got, {"ACK"})}, seg.data), seg)
    BY <1>2 DEF TextAndFin
  <2> HIDE DEF got
  <2> DEFINE w == Fin(Work(got, out \cup {Sent(got, {"ACK"})}, seg.data), seg)
  <2>6. /\ WorkOK(w) /\ w.data = seg.data /\ w.tcb.peer = got.peer
        /\ w.tcb.rcvWnd = got.rcvWnd
        /\ \/ w.tcb = got /\ "FIN" \notin seg.ctl
           \/ /\ "FIN" \in seg.ctl
              /\ w.tcb.state \in {"CLOSE_WAIT", "LAST_ACK"}
              /\ w.tcb.rcvNxt = Plus(got.rcvNxt, 1)
    BY <2>3, <2>4, FinGoes DEF InUse
  <2> HIDE DEF w
  <2>7. TakesText(t, seg, w)
    BY <1>2, <2>3, <2>6 DEF TakesText, SameEnds
  <2> QED
    BY <2>5, <2>6, <2>7 DEF w
<1>3. CASE ~(t.state # "ESTABLISHED" \/ seg.data = <<>>) /\ ~IsNext(t, seg)
  <2>1. TextAndFin(t, out, seg) = Work(t, out \cup {Sent(t, {"ACK"})}, <<>>)
    BY <1>3 DEF TextAndFin
  <2>2. Sent(t, {"ACK"}) \in Out
    BY SentIs DEF Control
  <2> QED
    BY <2>1, <2>2 DEF Work, WorkOK, Stays, SameEnds
<1> QED
  BY <1>1, <1>2, <1>3

\* TCBs that receive alike
Like(t, u) == /\ u.state = t.state /\ u.peer = t.peer
              /\ u.rcvNxt = t.rcvNxt /\ u.rcvWnd = t.rcvWnd

\* The send window matters to none of what is received.
LEMMA WindowUpdatedIs ==
    ASSUME NEW t \in Tcb, NEW seg \in In
    PROVE  WindowUpdated(t, seg) \in Tcb /\ Like(t, WindowUpdated(t, seg))
<1>1. ClientWindow \in Int /\ seg.seq \in Number /\ seg.ack \in Number
  BY InIs, ConstantTypes
<1> QED
  BY <1>1 DEF WindowUpdated, Tcb, Like

\* The step for the ACK frees the TCB or leaves what it receives alone.
LEMMA AcknowledgedIs ==
    ASSUME NEW t \in Tcb, NEW seg \in In, t.state \in InUse, opened \in Nat
    PROVE  LET u == Acknowledged(t, seg) IN
           u \in Tcb /\ (u = InitTcb \/ Like(t, u))
<1> DEFINE acked == [t EXCEPT !.una = seg.ack]
<1>1. acked \in Tcb /\ Like(t, acked)
  BY InIs DEF Tcb, Like
<1>2. /\ WindowUpdated(acked, seg) \in Tcb
      /\ Like(acked, WindowUpdated(acked, seg))
      /\ WindowUpdated(t, seg) \in Tcb /\ Like(t, WindowUpdated(t, seg))
  BY <1>1, WindowUpdatedIs
<1>3. Like(t, t) /\ InitTcb \in Tcb
  BY InitTcbIs DEF Like
<1>4. Acknowledged(t, seg) \in {WindowUpdated(acked, seg),
                                WindowUpdated(t, seg), t, InitTcb}
  BY DEF Acknowledged, InUse
<1> HIDE DEF acked
<1> QED
  BY <1>1, <1>2, <1>3, <1>4 DEF Like

\* What goes on from a TCB goes on from one that receives alike.
LEMMA GoesAlike ==
    ASSUME NEW t, NEW u, NEW seg, NEW w, Like(t, u),
           Stays(u, w) \/ TakesText(u, seg, w) \/ TakesFin(u, seg, w)
    PROVE  Stays(t, w) \/ TakesText(t, seg, w) \/ TakesFin(t, seg, w)
BY DEF Like, Stays, TakesText, TakesFin, SameEnds, IsNext

\* The steps after the check of the sequence number
LEMMA SynchronizedGoes ==
    ASSUME NEW t \in Tcb, NEW seg \in In, t.state \in InUse,
           t.peer \in Clients, opened \in Nat
    PROVE  LET w == Synchronized(t, seg) IN WorkOK(w) /\ Goes(t, seg, w)
<1> DEFINE out == IF "SYN" \in seg.ctl THEN Reset(seg) ELSE {}
           est == Establish(t, seg)
           ack == Sent(t, {"ACK"})
           u == Acknowledged(t, seg)
<1>1. Reset(seg) \subseteq Out /\ out \in SUBSET Out
      /\ out \cup Reset(seg) \in SUBSET Out /\ out \cup {ack} \in SUBSET Out
  BY ResetIs, SentIs DEF Control
<1>2. t.state = "SYN_RECEIVED" =>
          /\ est \in Tcb /\ est.state = "ESTABLISHED" /\ est.peer = t.peer
          /\ est.rcvNxt = t.rcvNxt /\ est.rcvWnd = t.rcvWnd
  <2>1. ClientWindow \in Int /\ seg.seq \in Number /\ seg.ack \in Number
    BY InIs, ConstantTypes
  <2> QED
    BY <2>1 DEF Establish, Tcb, TcbState
<1>3. u \in Tcb /\ (u = InitTcb \/ Like(t, u))
  BY AcknowledgedIs
<1>4. \/ Synchronized(t, seg) = Work(t, out, <<>>)
      \/ Synchronized(t, seg) = Work(t, out \cup {ack}, <<>>)
      \/ t.state = "SYN_RECEIVED" /\ Synchronized(t, seg) = Work(est, out, <<>>)
      \/ Synchronized(t, seg) = TextAndFin(t, out \cup Reset(seg), seg)
      \/ Synchronized(t, seg) = TextAndFin(u, out, seg)
  BY DEF Synchronized
<1> HIDE DEF out, est, ack, u
<1>5. CASE \/ Synchronized(t, seg) = Work(t, out, <<>>)
           \/ Synchronized(t, seg) = Work(t, out \cup {ack}, <<>>)
           \/ /\ t.state = "SYN_RECEIVED"
              /\ Synchronized(t, seg) = Work(est, out, <<>>)
  BY <1>1, <1>2, <1>5 DEF Work, WorkOK, Goes, Stays, SameEnds
<1>6. CASE Synchronized(t, seg) = TextAndFin(t, out \cup Reset(seg), seg)
  BY <1>1, <1>6, TextGoes DEF Goes
<1>7. CASE Synchronized(t, seg) = TextAndFin(u, out, seg) /\ u = InitTcb
  <2>1. TextAndFin(u, out, seg) = Work(InitTcb, out, <<>>)
    BY <1>7, InitTcbIs DEF TextAndFin, Fin, Work
  <2> QED
    BY <1>1, <1>7, <2>1, InitTcbIs DEF Goes, Freed, Work, WorkOK
<1>8. CASE Synchronized(t, seg) = TextAndFin(u, out, seg) /\ Like(t, u)
  <2>1. u.state \in InUse /\ u.peer \in Clients
    BY <1>8 DEF Like
  <2> DEFINE w == TextAndFin(u, out, seg)
  <2>2. /\ WorkOK(w)
        /\ Stays(u, w) \/ TakesText(u, seg, w) \/ TakesFin(u, seg, w)
    BY <1>1, <1>3, <2>1, TextGoes
  <2> HIDE DEF w
  <2>3. Goes(t, seg, w)
    BY <1>8, <2>2, GoesAlike DEF Goes
  <2> QED
    BY <1>8, <2>2, <2>3 DEF w
<1> QED
  BY <1>3, <1>4, <1>5, <1>6, <1>7, <1>8

\* With an open window a segment is acceptable from the next number on only.
LEMMA AcceptableIs ==
    ASSUME NEW t \in Tcb, NEW seg \in In, IsAcceptable(t, seg), Full(t)
    PROVE  LEQ(t.rcvNxt, seg.seq)
<1>1. FullWindow > 0
  BY ConstantTypes DEF FullWindow, RxEntries
<1>2. InWindow(t, seg.seq)
          \/ (/\ Len(seg.data) > 0
              /\ InWindow(t, Plus(seg.seq, Len(seg.data) - 1)))
  BY <1>1 DEF IsAcceptable, Full
<1>3. Len(seg.data) \in {0, 1}
  <2>1. Len(<<>>) = 0 /\ \A d : Len(<<d>>) = 1
    OBVIOUS
  <2> QED
    BY <2>1, InIs
<1>4. Plus(seg.seq, 0) = seg.seq
  BY InIs, NumberIs
<1>5. InWindow(t, seg.seq)
  <2>1. CASE Len(seg.data) = 0
    BY <1>2, <2>1
  <2>2. CASE Len(seg.data) = 1
    <3>1. Len(seg.data) - 1 = 0
      BY <2>2
    <3> QED
      BY <1>2, <1>4, <3>1
  <2> QED
    BY <1>3, <2>1, <2>2
<1> QED
  BY <1>5 DEF InWindow, BETWEEN_L

\* The outcome of a segment for a TCB in use
LEMMA HandledGoes ==
    ASSUME NEW t \in Tcb, NEW seg \in In, t.state \in InUse,
           t.peer \in Clients, Full(t), opened \in Nat
    PROVE  LET w == Handled(t, seg) IN
           /\ WorkOK(w)
           /\ \/ Freed(w) \/ Stays(t, w)
              \/ /\ TakesText(t, seg, w) \/ TakesFin(t, seg, w)
                 /\ LEQ(t.rcvNxt, seg.seq)
<1> DEFINE ack == Sent(t, {"ACK"})
<1>1. ack \in Out /\ InitTcb \in Tcb
  BY SentIs, InitTcbIs DEF Control
<1>2. WorkOK(Work(InitTcb, {}, <<>>)) /\ Freed(Work(InitTcb, {}, <<>>))
  BY InitTcbIs DEF WorkOK, Freed, Work
<1>3. WorkOK(Work(t, {ack}, <<>>)) /\ Stays(t, Work(t, {ack}, <<>>))
  BY <1>1 DEF WorkOK, Stays, Work, SameEnds
<1>4. /\ WorkOK(Synchronized(t, seg)) /\ Goes(t, seg, Synchronized(t, seg))
  BY SynchronizedGoes
<1>5. \/ Handled(t, seg) = Work(InitTcb, {}, <<>>)
      \/ Handled(t, seg) = Work(t, {ack}, <<>>)
      \/ Handled(t, seg) = Synchronized(t, seg) /\ IsAcceptable(t, seg)
  BY DEF Handled, Unacceptable, InUse
<1>6. IsAcceptable(t, seg) => LEQ(t.rcvNxt, seg.seq)
  BY AcceptableIs
<1> HIDE DEF ack
<1> QED
  BY <1>2, <1>3, <1>4, <1>5, <1>6 DEF Goes

\* The SYN of a new client is taken.
Opens(seg, w) ==
    /\ "SYN" \in seg.ctl /\ w.data = <<>> /\ Full(w.tcb)
    /\ w.tcb.state = "SYN_RECEIVED" /\ w.tcb.peer = seg.client
    /\ w.tcb.rcvNxt = Plus(seg.seq, 1)

\* The outcome of a segment for a free TCB
LEMMA ListenGoes ==
    ASSUME NEW t \in Tcb, NEW seg \in In, t.state = "LISTEN",
           t.peer = Nobody, Full(t)
    PROVE  LET w == Handled(t, seg) IN
           WorkOK(w) /\ (Freed(w) \/ Opens(seg, w))
<1> DEFINE syn == [t EXCEPT !.peer = seg.client, !.nxt = t.iss,
                            !.rcvNxt = Plus(seg.seq, 1)]
           opn == [syn EXCEPT !.state = "SYN_RECEIVED",
                              !.nxt = Plus(t.iss, 1), !.una = t.iss]
           out == {Sent(syn, {"SYN", "ACK"})}
<1>1. /\ Plus(seg.seq, 1) \in Number /\ Plus(t.iss, 1) \in Number
      /\ t.iss \in Number /\ seg.client \in Clients
  <2>1. t.iss \in Number /\ t.iss \in Int /\ seg.seq \in Int
    BY InIs, NumberIs DEF Tcb
  <2> QED
    BY <2>1, InIs, PlusIsNumber
<1>2. /\ syn \in Tcb /\ syn.peer = seg.client
      /\ syn.rcvNxt = Plus(seg.seq, 1) /\ syn.rcvWnd = t.rcvWnd
  BY <1>1 DEF Tcb
<1>3. out \subseteq Out
  BY <1>1, <1>2, SentIs DEF Control
<1>4. /\ opn \in Tcb /\ opn.state = "SYN_RECEIVED" /\ opn.peer = seg.client
      /\ opn.rcvNxt = Plus(seg.seq, 1) /\ Full(opn)
  BY <1>1, <1>2 DEF Tcb, TcbState, Full
<1>5. Reset(seg) \subseteq Out
  BY ResetIs
<1>6. \/ Handled(t, seg) = Work(t, {}, <<>>)
      \/ Handled(t, seg) = Work(t, Reset(seg), <<>>)
      \/ "SYN" \in seg.ctl /\ Handled(t, seg) = Work(opn, out, <<>>)
  BY DEF Handled, Listen
<1> HIDE DEF syn, opn, out
<1> QED
  BY <1>3, <1>4, <1>5, <1>6 DEF Work, WorkOK, Freed, Opens

\* tcp_run sends the server's FIN and changes nothing that is received.
LEMMA TcpRunIs ==
    ASSUME NEW w, WorkOK(w),
           w.tcb.state = "CLOSE_WAIT" => w.tcb.peer \in Clients
    PROVE  LET r == TcpRun(w) IN
           /\ WorkOK(r) /\ r.data = w.data
           /\ r.tcb.peer = w.tcb.peer /\ r.tcb.rcvNxt = w.tcb.rcvNxt
           /\ r.tcb.rcvWnd = w.tcb.rcvWnd
           /\ r.tcb.state = IF w.tcb.state = "CLOSE_WAIT" THEN "LAST_ACK"
                                                          ELSE w.tcb.state
<1> DEFINE last == [w.tcb EXCEPT !.state = "LAST_ACK", !.nxt = Plus(@, 1)]
<1>1. CASE w.tcb.state = "CLOSE_WAIT"
  <2>1. w.tcb \in Tcb /\ w.out \subseteq Out
    BY DEF WorkOK
  <2>2. Plus(w.tcb.nxt, 1) \in Number
    <3>1. w.tcb.nxt \in Int
      BY <2>1, NumberIs DEF Tcb
    <3> QED
      BY <3>1, PlusIsNumber
  <2>3. /\ last \in Tcb /\ last.state = "LAST_ACK"
        /\ last.peer = w.tcb.peer /\ last.rcvNxt = w.tcb.rcvNxt
        /\ last.rcvWnd = w.tcb.rcvWnd
    BY <2>1, <2>2 DEF Tcb, TcbState
  <2>4. Sent(w.tcb, {"FIN", "ACK"}) \in Out
    BY <1>1, <2>1, SentIs DEF Control
  <2>5. TcpRun(w) = Work(last, w.out \cup {Sent(w.tcb, {"FIN", "ACK"})}, w.data)
    BY <1>1 DEF TcpRun
  <2> HIDE DEF last
  <2> QED
    BY <1>1, <2>1, <2>3, <2>4, <2>5 DEF Work, WorkOK
<1>2. CASE w.tcb.state # "CLOSE_WAIT"
  BY <1>2 DEF TcpRun
<1> QED
  BY <1>1, <1>2

-----------------------------------------------------------------------------
(* The inductive invariant *)

\* A message of the TCB waits in the ring.
Waits(i) == ~NoData /\ queue.entries[queue.tail].tcb = i

\* What was read on the connection
Count(c) == Len(read[c]) - before[c]

\* A TCB in use has a client of its own.
TcbsAreDistinct ==
    \A i \in Tcbs :
        /\ tcbs[i].state \in {"LISTEN"} \cup InUse
        /\ tcbs[i].state = "LISTEN" <=> tcbs[i].peer = Nobody
        /\ \A j \in Tcbs : tcbs[i].peer = tcbs[j].peer =>
                               i = j \/ tcbs[i].peer = Nobody

\* The window is closed by what waits.
WindowsFit ==
    \A i \in Tcbs : tcbs[i].rcvWnd = IF Waits(i) THEN FullWindow - Mss
                                                 ELSE FullWindow

\* The next number of a client is that of what it has sent.
HasClosed(client) == /\ client.state \in {"FIN_WAIT", "DONE"}
                     /\ client.nxt = At(Len(client.sent) + 2)

ClientCounts(client) ==
    /\ client.state \in {"CLOSED", "SYN_SENT"} => client.sent = <<>>
    /\ client.state = "CLOSED" => client.nxt = At(0)
    /\ client.state \in {"SYN_SENT", "ESTABLISHED"} =>
           client.nxt = At(Len(client.sent) + 1)
    /\ client.state = "FIN_WAIT" => HasClosed(client)
    /\ client.state = "DONE" =>
           HasClosed(client) \/ client.nxt = At(Len(client.sent) + 1)

\* A segment carries the number of what it carries.
SegmentCounts(seg, client) ==
    /\ "SYN" \in seg.ctl => seg.seq = At(0) /\ client.state # "CLOSED"
    /\ seg.data # <<>> => /\ seg.data[1].n \in 1 .. Len(client.sent)
                          /\ seg.data[1].kind = client.sent[seg.data[1].n]
                          /\ seg.seq = At(seg.data[1].n)
    /\ "FIN" \in seg.ctl =>
           /\ HasClosed(client)
           /\ \E k \in 0 .. Len(client.sent) + 1 : seg.seq = At(k)

\* A TCB expects the message after the done ones, which were read or wait.
TcbCounts(t, client, done) ==
    /\ t.state # "LISTEN" => client.state # "CLOSED"
    /\ t.state = "SYN_RECEIVED" => done = 0
    /\ t.state \in {"SYN_RECEIVED", "ESTABLISHED"} =>
           done \in 0 .. Len(client.sent) /\ t.rcvNxt = At(done + 1)
    /\ t.state = "LAST_ACK" =>
           /\ HasClosed(client)
           /\ \E k \in 1 .. Len(client.sent) + 2 : t.rcvNxt = At(k)

\* The messages of a TCB's connection that were read or wait
Done(i) == Count(tcbs[i].peer) + IF Waits(i) THEN 1 ELSE 0

\* A message of a client
IsMessage(datum, client) ==
    /\ datum.n \in 1 .. Len(client.sent)
    /\ datum.kind = client.sent[datum.n]

\* What waits is the next message of its connection.
QueueCounts ==
    \A i \in Tcbs : Waits(i) =>
        LET datum == queue.entries[queue.tail].data
            c == tcbs[i].peer IN
        /\ tcbs[i].state \in {"ESTABLISHED", "LAST_ACK"}
        /\ datum.n = Count(c) + 1 /\ IsMessage(datum, clients[c])

\* What was read on a connection is what the client has sent.
ReadCounts ==
    \A c \in Clients :
        /\ Count(c) \in 0 .. Len(clients[c].sent)
        /\ \A n \in 1 .. Count(c) :
               read[c][before[c] + n] = [n |-> n, kind |-> clients[c].sent[n]]

\* The ring has an entry when it is not empty.
QueueHasTcb == ~NoData => queue.entries[queue.tail] # <<>>

\* What clients, segments, TCBs, the ring and the application count fits.
Counts == /\ \A c \in Clients : ClientCounts(clients[c])
          /\ \A seg \in arriving : SegmentCounts(seg, clients[seg.client])
          /\ \A i \in Tcbs : tcbs[i].state # "LISTEN" =>
                TcbCounts(tcbs[i], clients[tcbs[i].peer], Done(i))
          /\ QueueCounts
          /\ ReadCounts

\* The inductive invariant
Inv == TypeOK /\ TcbsAreDistinct /\ QueueHasTcb /\ WindowsFit /\ Counts

-----------------------------------------------------------------------------
(* The clients *)

\* What messages there are
Sort == UNION Range(Messages)

\* What a client has done stays done.
Later(cl, cm) ==
    /\ Len(cl.sent) <= Len(cm.sent)
    /\ \A n \in 1 .. Len(cl.sent) : cm.sent[n] = cl.sent[n]
    /\ cl.state # "CLOSED" => cm.state # "CLOSED"
    /\ HasClosed(cl) => HasClosed(cm) /\ cm.sent = cl.sent

\* The types of a client
LEMMA ClientIs ==
    ASSUME NEW cl \in Client
    PROVE  /\ cl.state \in {"CLOSED", "SYN_SENT", "ESTABLISHED", "FIN_WAIT",
                            "DONE"}
           /\ cl.nxt \in Number /\ cl.rcv \in Number
           /\ cl.sent \in Seq(Sort) /\ Len(cl.sent) \in 0 .. MaxMessages
<1>1. PICK n \in 0 .. MaxMessages : cl.sent \in [1 .. n -> Sort]
  BY DEF Client, Sort
<1>2. n \in Nat
  BY ConstantTypes
<1>3. cl.sent \in Seq(Sort) /\ Len(cl.sent) = n
  BY <1>1, <1>2
<1> QED
  BY <1>3 DEF Client

\* What a client has sent is within the bound.
LEMMA SentIsTyped ==
    ASSUME NEW q \in Seq(Sort), Len(q) <= MaxMessages
    PROVE  q \in UNION {[1 .. n -> Sort] : n \in 0 .. MaxMessages}
<1>1. q \in [1 .. Len(q) -> Sort] /\ Len(q) \in 0 .. MaxMessages
  BY ConstantTypes
<1> QED
  BY <1>1

\* What a segment carries stays sent.
LEMMA LaterKeepsSegment ==
    ASSUME NEW cl \in Client, NEW cm \in Client, Later(cl, cm), NEW seg,
           SegmentCounts(seg, cl)
    PROVE  SegmentCounts(seg, cm)
<1>1. Len(cl.sent) \in Nat /\ Len(cm.sent) \in Nat
  BY ClientIs
<1> QED
  BY <1>1 DEF SegmentCounts, Later

\* What a TCB expects stays in step with its client.
LEMMA LaterKeepsTcb ==
    ASSUME NEW cl \in Client, NEW cm \in Client, Later(cl, cm), NEW t, NEW done,
           TcbCounts(t, cl, done)
    PROVE  TcbCounts(t, cm, done)
<1>1. Len(cl.sent) \in Nat /\ Len(cm.sent) \in Nat
  BY ClientIs
<1> QED
  BY <1>1 DEF TcbCounts, Later

\* A message stays one of its client.
LEMMA LaterKeepsMessage ==
    ASSUME NEW cl \in Client, NEW cm \in Client, Later(cl, cm), NEW datum,
           IsMessage(datum, cl)
    PROVE  IsMessage(datum, cm)
<1>1. Len(cl.sent) \in Nat /\ Len(cm.sent) \in Nat
  BY ClientIs
<1> QED
  BY <1>1 DEF IsMessage, Later

\* The bound on all messages is one on those of a client.
LEMMA RoomForOne ==
    ASSUME clients \in [Clients -> Client], NEW c \in Clients,
           Cardinality(SentMessages) < MaxMessages
    PROVE  Len(clients[c].sent) < MaxMessages
<1> DEFINE own == {c} \X (1 .. MaxMessages)
           all == Clients \X (1 .. MaxMessages)
<1>1. SUFFICES ASSUME ~(Len(clients[c].sent) < MaxMessages) PROVE FALSE
  OBVIOUS
<1>2. Len(clients[c].sent) = MaxMessages /\ MaxMessages \in Nat
  BY <1>1, ClientIs, ConstantTypes
<1>3. /\ IsFiniteSet(1 .. MaxMessages)
      /\ Cardinality(1 .. MaxMessages) = MaxMessages
  <2>1. Cardinality(1 .. MaxMessages) =
            IF 1 > MaxMessages THEN 0 ELSE MaxMessages - 1 + 1
    BY <1>2, FS_Interval
  <2>2. IsFiniteSet(1 .. MaxMessages)
    BY <1>2, FS_Interval
  <2> QED
    BY <1>2, <2>1, <2>2
<1>4. IsFiniteSet({c}) /\ Cardinality({c}) = 1
  BY FS_Singleton
<1>5. IsFiniteSet(own) /\ Cardinality(own) = MaxMessages
  BY <1>2, <1>3, <1>4, FS_Product
<1>6. IsFiniteSet(all)
  BY <1>3, ClientsAssumption, FS_Product
<1>7. SentMessages \subseteq all /\ IsFiniteSet(SentMessages)
  BY <1>6, FS_Subset DEF SentMessages
<1>8. own \subseteq SentMessages
  <2>1. ASSUME NEW m \in own PROVE m \in SentMessages
    <3>1. m[1] = c /\ m[2] \in 1 .. MaxMessages /\ m \in all
      OBVIOUS
    <3>2. m[2] <= Len(clients[m[1]].sent)
      BY <1>2, <3>1
    <3> QED
      BY <3>1, <3>2 DEF SentMessages
  <2> QED
    BY <2>1
<1>9. Cardinality(own) <= Cardinality(SentMessages)
  BY <1>7, <1>8, FS_Subset
<1>10. Cardinality(SentMessages) \in Nat
  BY <1>7, FS_CardinalityType
<1> QED
  BY <1>2, <1>5, <1>9, <1>10

\* What every step of a client does
ClientsGoOn ==
    /\ clients' \in [Clients -> Client]
    /\ \A c \in Clients : /\ Later(clients[c], clients'[c])
                          /\ ClientCounts(clients'[c])
    /\ arriving' \subseteq In
    /\ \A seg \in arriving' :
          seg \in arriving \/ SegmentCounts(seg, clients'[seg.client])
    /\ UNCHANGED <<tcbs, queue, opened, leaving, read, before>>

\* What the steps of the clients need
ClientsAre == /\ clients \in [Clients -> Client]
              /\ arriving \subseteq In /\ leaving \subseteq Out
              /\ \A c \in Clients : ClientCounts(clients[c])

\* A client that does nothing goes on.
LEMMA LaterSelf ==
    ASSUME NEW cl
    PROVE  Later(cl, cl)
BY DEF Later

\* Segments that a client may send
LEMMA InHas ==
    ASSUME NEW c \in Clients, NEW ctl \in SUBSET Control, NEW seq \in Number,
           NEW ack \in Number, NEW data,
           data = <<>> \/ \E d \in Message : data = <<d>>
    PROVE  /\ Segment(c, ctl, seq, ack, data) \in In
           /\ Segment(c, ctl, seq, ack, data).client = c
BY DEF In, SegmentOf, Segment

\* A client goes on when its numbers do and its segment has them.
LEMMA ActIs ==
    ASSUME ClientsAre, NEW c \in Clients, NEW cm \in Client,
           NEW ctl \in SUBSET Control, NEW data,
           data = <<>> \/ \E d \in Message : data = <<d>>,
           Act(c, cm, ctl, data),
           Later(clients[c], cm), ClientCounts(cm),
           SegmentCounts(Segment(c, ctl, clients[c].nxt, cm.rcv, data), cm)
    PROVE  ClientsGoOn
<1> DEFINE seg == Segment(c, ctl, clients[c].nxt, cm.rcv, data)
<1>1. seg \in In /\ seg.client = c
  BY ClientIs, InHas DEF ClientsAre
<1>2. /\ clients' = [clients EXCEPT ![c] = cm]
      /\ arriving' = arriving \cup {seg}
      /\ UNCHANGED <<tcbs, queue, opened, leaving, read, before>>
  BY DEF Act
<1>3. clients' \in [Clients -> Client] /\ clients'[c] = cm
      /\ \A d \in Clients : d # c => clients'[d] = clients[d]
  BY <1>2 DEF ClientsAre
<1>4. ASSUME NEW d \in Clients
      PROVE  Later(clients[d], clients'[d]) /\ ClientCounts(clients'[d])
  <2>1. CASE d = c
    BY <1>3, <2>1
  <2>2. CASE d # c
    BY <1>3, <2>2, LaterSelf DEF ClientsAre
  <2> QED
    BY <2>1, <2>2
<1>5. SegmentCounts(seg, clients'[seg.client])
  BY <1>1, <1>3
<1> HIDE DEF seg
<1> QED
  BY <1>1, <1>2, <1>3, <1>4, <1>5 DEF ClientsGoOn, ClientsAre

\* The SYN has the first number.
LEMMA ConnectGoesOn ==
    ASSUME ClientsAre, NEW c \in Clients, Connect(c)
    PROVE  ClientsGoOn
<1> DEFINE cl == clients[c]
           cm == [cl EXCEPT !.state = "SYN_SENT", !.nxt = Plus(@, 1)]
<1>1. cl \in Client /\ ClientCounts(cl) /\ cl.state = "CLOSED"
  BY DEF ClientsAre, Connect
<1>2. cl.nxt = At(0) /\ cl.sent = <<>>
  BY <1>1 DEF ClientCounts
<1>3. Plus(cl.nxt, 1) = At(1) /\ At(1) \in Number
  BY <1>2, AtNext, AtIs, ConstantTypes
<1>4. /\ cm \in Client /\ cm.state = "SYN_SENT" /\ cm.nxt = At(1)
      /\ cm.sent = <<>>
  BY <1>1, <1>2, <1>3 DEF Client
<1>5. Act(c, cm, {"SYN"}, <<>>)
  BY DEF Connect
<1>6. {"SYN"} \in SUBSET Control
  BY DEF Control
<1>7. Len(<<>>) = 0
  OBVIOUS
<1> DEFINE seg == Segment(c, {"SYN"}, cl.nxt, cm.rcv, <<>>)
<1>8. seg.ctl = {"SYN"} /\ seg.seq = At(0) /\ seg.data = <<>>
  BY <1>2 DEF Segment
<1> HIDE DEF cm, seg
<1>9. Later(cl, cm)
  BY <1>1, <1>2, <1>4, <1>7 DEF Later, HasClosed
<1>10. ClientCounts(cm)
  BY <1>4, <1>7 DEF ClientCounts
<1>11. SegmentCounts(seg, cm)
  BY <1>4, <1>8 DEF SegmentCounts
<1> QED
  BY <1>4, <1>5, <1>6, <1>9, <1>10, <1>11, ActIs DEF seg

\* Segments that carry neither a SYN, a FIN nor data have any number.
LEMMA BareCounts ==
    ASSUME NEW seg, NEW client, seg.data = <<>>, "SYN" \notin seg.ctl,
           "FIN" \notin seg.ctl
    PROVE  SegmentCounts(seg, client)
BY DEF SegmentCounts

\* What a client receives does not change what it has sent.
LEMMA GetGoesOn ==
    ASSUME ClientsAre, NEW seg \in leaving,
           GetSynAck(seg.client, seg) \/ GetAnswer(seg.client, seg)
               \/ GetFin(seg.client, seg)
    PROVE  ClientsGoOn
<1> DEFINE c == seg.client
           cl == clients[c]
<1>1. c \in Clients /\ cl \in Client /\ ClientCounts(cl) /\ seg.seq \in Int
  <2>1. c \in Clients /\ seg.seq \in Number
    BY DEF ClientsAre, Out, SegmentOf
  <2> QED
    BY <2>1, NumberIs DEF ClientsAre
<1>2. Plus(seg.seq, 1) \in Number /\ Plus(cl.rcv, 1) \in Number
  <2>1. cl.rcv \in Int
    BY <1>1, ClientIs, NumberIs
  <2> QED
    BY <1>1, <2>1, PlusIsNumber
<1>3. \E cm \in Client :
         /\ Act(c, cm, {"ACK"}, <<>>)
         /\ cm.nxt = cl.nxt /\ cm.sent = cl.sent
         /\ \/ cl.state = "SYN_SENT" /\ cm.state = "ESTABLISHED"
            \/ cl.state \in {"ESTABLISHED", "FIN_WAIT"} /\ cm.state = cl.state
            \/ cl.state = "FIN_WAIT" /\ cm.state = "DONE"
  <2>1. CASE GetSynAck(c, seg)
    <3> DEFINE cm1 == [cl EXCEPT !.state = "ESTABLISHED",
                                 !.rcv = Plus(seg.seq, 1)]
    <3>1. cm1 \in Client /\ cm1.nxt = cl.nxt /\ cm1.sent = cl.sent
          /\ cm1.state = "ESTABLISHED"
      BY <1>1, <1>2 DEF Client
    <3>2. Act(c, cm1, {"ACK"}, <<>>) /\ cl.state = "SYN_SENT"
      BY <2>1 DEF GetSynAck
    <3> HIDE DEF cm1
    <3> QED
      BY <3>1, <3>2
  <2>2. CASE GetAnswer(c, seg)
    <3> DEFINE cm2 == [cl EXCEPT !.rcv = Plus(@, 1)]
    <3>1. cm2 \in Client /\ cm2.nxt = cl.nxt /\ cm2.sent = cl.sent
          /\ cm2.state = cl.state
      BY <1>1, <1>2 DEF Client
    <3>2. Act(c, cm2, {"ACK"}, <<>>)
          /\ cl.state \in {"ESTABLISHED", "FIN_WAIT"}
      BY <2>2 DEF GetAnswer, Open
    <3> HIDE DEF cm2
    <3> QED
      BY <3>1, <3>2
  <2>3. CASE GetFin(c, seg)
    <3> DEFINE cm3 == [cl EXCEPT !.state = "DONE", !.rcv = Plus(@, 1)]
    <3>1. cm3 \in Client /\ cm3.nxt = cl.nxt /\ cm3.sent = cl.sent
          /\ cm3.state = "DONE"
      BY <1>1, <1>2 DEF Client
    <3>2. Act(c, cm3, {"ACK"}, <<>>) /\ cl.state = "FIN_WAIT"
      BY <2>3 DEF GetFin
    <3> HIDE DEF cm3
    <3> QED
      BY <3>1, <3>2
  <2> QED
    BY <2>1, <2>2, <2>3
<1> HIDE DEF cl, c
<1>4. PICK cm \in Client :
         /\ Act(c, cm, {"ACK"}, <<>>)
         /\ cm.nxt = cl.nxt /\ cm.sent = cl.sent
         /\ \/ cl.state = "SYN_SENT" /\ cm.state = "ESTABLISHED"
            \/ cl.state \in {"ESTABLISHED", "FIN_WAIT"} /\ cm.state = cl.state
            \/ cl.state = "FIN_WAIT" /\ cm.state = "DONE"
  BY <1>3
<1>5. Later(cl, cm)
  BY <1>4 DEF Later, HasClosed
<1>6. ClientCounts(cm)
  BY <1>1, <1>4 DEF ClientCounts, HasClosed
<1>7. SegmentCounts(Segment(c, {"ACK"}, cl.nxt, cm.rcv, <<>>), cm)
  BY BareCounts DEF Segment
<1>8. {"ACK"} \in SUBSET Control
  BY DEF Control
<1> QED
  BY <1>1, <1>4, <1>5, <1>6, <1>7, <1>8, ActIs DEF cl

\* The FIN has the number after the last message.
LEMMA CloseGoesOn ==
    ASSUME ClientsAre, NEW c \in Clients, Close(c)
    PROVE  ClientsGoOn
<1> DEFINE cl == clients[c]
           cm == [cl EXCEPT !.state = "FIN_WAIT", !.nxt = Plus(@, 1)]
           len == Len(cl.sent)
<1>1. /\ cl \in Client /\ ClientCounts(cl) /\ cl.state = "ESTABLISHED"
      /\ len \in 0 .. MaxMessages
  BY ClientIs DEF ClientsAre, Close
<1>2. cl.nxt = At(len + 1)
  BY <1>1 DEF ClientCounts
<1>3. len + 1 \in 0 .. Last /\ len + 1 + 1 <= Last + 1 /\ len + 1 + 1 = len + 2
      /\ len + 2 \in 0 .. Last + 1
  BY <1>1, ConstantTypes DEF Last
<1>4. Plus(cl.nxt, 1) = At(len + 2) /\ At(len + 2) \in Number
  BY <1>2, <1>3, AtNext, AtIs
<1>5. /\ cm \in Client /\ cm.state = "FIN_WAIT" /\ cm.nxt = At(len + 2)
      /\ cm.sent = cl.sent
  BY <1>1, <1>4 DEF Client
<1>6. Act(c, cm, {"ACK", "FIN"}, <<>>)
  BY DEF Close
<1>7. {"ACK", "FIN"} \in SUBSET Control
  BY DEF Control
<1> DEFINE seg == Segment(c, {"ACK", "FIN"}, cl.nxt, cm.rcv, <<>>)
<1>8. seg.ctl = {"ACK", "FIN"} /\ seg.seq = At(len + 1) /\ seg.data = <<>>
  BY <1>2 DEF Segment
<1> HIDE DEF cm, seg
<1>9. Later(cl, cm)
  BY <1>1, <1>5 DEF Later, HasClosed
<1>10. HasClosed(cm) /\ ClientCounts(cm)
  BY <1>5 DEF ClientCounts, HasClosed
<1>11. SegmentCounts(seg, cm)
  <2>1. len + 1 \in 0 .. Len(cm.sent) + 1
    BY <1>1, <1>5, ConstantTypes
  <2> QED
    BY <1>8, <1>10, <2>1 DEF SegmentCounts
<1> QED
  BY <1>5, <1>6, <1>7, <1>9, <1>10, <1>11, ActIs DEF seg

\* An abort sends no number of its own.
LEMMA AbortGoesOn ==
    ASSUME ClientsAre, NEW c \in Clients, Abort(c)
    PROVE  ClientsGoOn
<1> DEFINE cl == clients[c]
           cm == [cl EXCEPT !.state = "DONE"]
<1>1. cl \in Client /\ ClientCounts(cl) /\ cl.state = "ESTABLISHED"
  BY DEF ClientsAre, Abort
<1>2. /\ cm \in Client /\ cm.state = "DONE" /\ cm.nxt = cl.nxt
      /\ cm.sent = cl.sent
  BY <1>1 DEF Client
<1>3. Act(c, cm, {"RST", "ACK"}, <<>>)
  BY DEF Abort
<1>4. {"RST", "ACK"} \in SUBSET Control
  BY DEF Control
<1> HIDE DEF cm
<1>5. Later(cl, cm)
  BY <1>1, <1>2 DEF Later, HasClosed
<1>6. ClientCounts(cm)
  BY <1>1, <1>2 DEF ClientCounts, HasClosed
<1>7. SegmentCounts(Segment(c, {"RST", "ACK"}, cl.nxt, cm.rcv, <<>>), cm)
  BY BareCounts DEF Segment
<1> QED
  BY <1>2, <1>3, <1>4, <1>5, <1>6, <1>7, ActIs

\* A message, alone or with the FIN, has the next number.
LEMMA SendGoesOn ==
    ASSUME ClientsAre, NEW c \in Clients, NEW kind \in Messages[c],
           NEW last \in BOOLEAN, Send(c, kind, last)
    PROVE  ClientsGoOn
<1> DEFINE cl == clients[c]
           len == Len(cl.sent)
           sent == Append(cl.sent, kind)
           more == IF last THEN 2 ELSE 1
           ctl == IF last THEN {"ACK", "FIN"} ELSE {"ACK"}
           cm == [cl EXCEPT !.state = IF last THEN "FIN_WAIT" ELSE @,
                            !.nxt = Plus(@, more), !.sent = sent]
           datum == [n |-> Len(sent), kind |-> kind]
           seg == Segment(c, ctl, cl.nxt, cm.rcv, <<datum>>)
<1>1. /\ cl \in Client /\ ClientCounts(cl) /\ cl.state = "ESTABLISHED"
      /\ cl.sent \in Seq(Sort) /\ len \in 0 .. MaxMessages
      /\ clients \in [Clients -> Client]
  BY ClientIs DEF ClientsAre, Send
<1>2. len < MaxMessages
  BY <1>1, RoomForOne DEF Send
<1>3. kind \in Sort
  BY MessagesAssumption DEF Sort, Range
<1>4. /\ sent \in Seq(Sort) /\ Len(sent) = len + 1
      /\ \A n \in 1 .. len : sent[n] = cl.sent[n]
      /\ sent[len + 1] = kind
  BY <1>1, <1>3
<1>5. cl.nxt = At(len + 1)
  BY <1>1 DEF ClientCounts
<1>6. /\ more \in {1, 2} /\ len + 1 \in 0 .. Last
      /\ len + 1 + more <= Last + 1 /\ len + 1 + more \in 0 .. Last + 1
  <2>1. more = 1 \/ more = 2
    OBVIOUS
  <2>2. len \in Nat /\ MaxMessages \in Nat /\ len + 1 <= MaxMessages
    BY <1>1, <1>2, ConstantTypes
  <2> HIDE DEF more, len
  <2> QED
    BY <2>1, <2>2 DEF Last
<1>7. Plus(cl.nxt, more) = At(len + 1 + more) /\ At(len + 1 + more) \in Number
  BY <1>5, <1>6, AtNext, AtIs
<1>8. sent \in UNION {[1 .. n -> Sort] : n \in 0 .. MaxMessages}
  <2>1. Len(sent) <= MaxMessages
    BY <1>1, <1>2, <1>4, ConstantTypes
  <2> HIDE DEF sent
  <2> QED
    BY <1>4, <2>1, SentIsTyped
<1>9. datum \in Message
  <2>1. Len(sent) \in 1 .. MaxMessages
    BY <1>1, <1>2, <1>4, ConstantTypes
  <2> HIDE DEF sent
  <2> QED
    BY <1>3, <2>1 DEF Message, Sort
<1>10. Act(c, cm, ctl, <<datum>>)
  BY DEF Send
<1>11. ctl \in SUBSET Control
  BY DEF Control
<1> HIDE DEF sent, more
<1>12. /\ cm \in Client /\ cm.sent = sent /\ cm.nxt = At(len + 1 + more)
       /\ cm.state = IF last THEN "FIN_WAIT" ELSE "ESTABLISHED"
  BY <1>1, <1>7, <1>8 DEF Client, Sort
<1>13. /\ seg.ctl = ctl /\ seg.seq = At(len + 1) /\ seg.data = <<datum>>
       /\ seg.data[1].n = len + 1 /\ seg.data[1].kind = kind
       /\ "SYN" \notin ctl /\ ("FIN" \in ctl => last)
  BY <1>4, <1>5 DEF Segment
<1>14. last => more = 2 /\ len + 1 + more = Len(sent) + 2
  BY <1>1, <1>4, ConstantTypes DEF more
<1>15. ~last => more = 1 /\ len + 1 + more = Len(sent) + 1
  BY <1>1, <1>4, ConstantTypes DEF more
<1> HIDE DEF cm, ctl, datum, seg
<1>16. Later(cl, cm)
  <2>1. len <= Len(sent)
    BY <1>1, <1>4, ConstantTypes
  <2> QED
    BY <1>1, <1>4, <1>12, <2>1 DEF Later, HasClosed
<1>17. ClientCounts(cm) /\ (last => HasClosed(cm))
  BY <1>12, <1>14, <1>15 DEF ClientCounts, HasClosed
<1>18. SegmentCounts(seg, cm)
  <2>1. len + 1 \in 1 .. Len(sent) /\ len + 1 \in 0 .. Len(sent) + 1
    BY <1>1, <1>4, ConstantTypes
  <2> QED
    BY <1>4, <1>12, <1>13, <1>17, <2>1 DEF SegmentCounts
<1> QED
  BY <1>9, <1>10, <1>11, <1>12, <1>16, <1>17, <1>18, ActIs DEF seg

\* A reset ends the client.
LEMMA GetResetGoesOn ==
    ASSUME ClientsAre, NEW seg \in leaving, GetReset(seg.client, seg)
    PROVE  ClientsGoOn
<1> DEFINE c == seg.client
           cl == clients[c]
           cm == [cl EXCEPT !.state = "DONE"]
<1>1. /\ c \in Clients /\ cl \in Client /\ ClientCounts(cl)
      /\ cl.state \in {"SYN_SENT", "ESTABLISHED", "FIN_WAIT"}
  <2>1. c \in Clients
    BY DEF ClientsAre, Out, SegmentOf
  <2> QED
    BY <2>1 DEF ClientsAre, GetReset, Open
<1>2. /\ cm \in Client /\ cm.state = "DONE" /\ cm.nxt = cl.nxt
      /\ cm.sent = cl.sent
  BY <1>1 DEF Client
<1>3. /\ clients' = [clients EXCEPT ![c] = cm]
      /\ UNCHANGED <<tcbs, queue, opened, arriving, leaving, read, before>>
  BY DEF GetReset
<1> HIDE DEF cm, c
<1>4. Later(cl, cm)
  BY <1>1, <1>2 DEF Later, HasClosed
<1>5. ClientCounts(cm)
  BY <1>1, <1>2 DEF ClientCounts, HasClosed
<1>6. clients' \in [Clients -> Client] /\ clients'[c] = cm
      /\ \A d \in Clients : d # c => clients'[d] = clients[d]
  BY <1>1, <1>2, <1>3 DEF ClientsAre
<1>7. ASSUME NEW d \in Clients
      PROVE  Later(clients[d], clients'[d]) /\ ClientCounts(clients'[d])
  <2>1. CASE d = c
    BY <1>4, <1>5, <1>6, <2>1
  <2>2. CASE d # c
    BY <1>6, <2>2, LaterSelf DEF ClientsAre
  <2> QED
    BY <2>1, <2>2
<1> QED
  BY <1>3, <1>6, <1>7 DEF ClientsGoOn, ClientsAre

\* The answer to a repeated SYN|ACK carries nothing.
LEMMA RefuseGoesOn ==
    ASSUME ClientsAre, NEW seg \in leaving, Refuse(seg.client, seg)
    PROVE  ClientsGoOn
<1> DEFINE new == Segment(seg.client, {"RST"}, seg.ack, 0, <<>>)
<1>1. seg.client \in Clients /\ seg.ack \in Number /\ 0 \in Number
  BY ConstantTypes DEF ClientsAre, Out, SegmentOf, Number
<1>2. {"RST"} \in SUBSET Control
  BY DEF Control
<1>3. new \in In
  BY <1>1, <1>2, InHas
<1>4. SegmentCounts(new, clients[new.client])
  BY BareCounts DEF Segment
<1>5. /\ arriving' = arriving \cup {new}
      /\ UNCHANGED <<tcbs, queue, opened, leaving, clients, read, before>>
  BY DEF Refuse
<1> HIDE DEF new
<1> QED
  BY <1>3, <1>4, <1>5, LaterSelf DEF ClientsGoOn, ClientsAre

\* Every step of the clients
LEMMA ClientStepGoesOn ==
    ASSUME ClientsAre, ClientStep
    PROVE  ClientsGoOn
<1>1. ASSUME NEW c \in Clients, Connect(c) \/ Close(c) \/ Abort(c)
      PROVE  ClientsGoOn
  BY <1>1, ConnectGoesOn, CloseGoesOn, AbortGoesOn
<1>2. ASSUME NEW c \in Clients, NEW kind \in Messages[c],
             NEW last \in BOOLEAN, Send(c, kind, last)
      PROVE  ClientsGoOn
  BY <1>2, SendGoesOn
<1>3. ASSUME NEW seg \in leaving, Receive(seg)
      PROVE  ClientsGoOn
  BY <1>3, GetGoesOn, GetResetGoesOn, RefuseGoesOn DEF Receive
<1> QED
  BY <1>1, <1>2, <1>3 DEF ClientStep

\* The part of the invariant that the clients' steps rest on
LEMMA ClientsAreFromInv ==
    ASSUME Inv
    PROVE  ClientsAre
BY DEF Inv, TypeOK, TcpTypeOK, Counts, ClientsAre, In, Out

\* A step of a client keeps the invariant.
LEMMA ClientStepKeeps ==
    ASSUME Inv, ClientStep, UNCHANGED <<handlers, dynamic, posted>>
    PROVE  Inv'
<1>1. ClientsGoOn /\ ClientsAre
  BY ClientsAreFromInv, ClientStepGoesOn
<1>2. UNCHANGED <<tcbs, queue, opened, leaving, read, before, handlers,
                  dynamic>>
  BY <1>1 DEF ClientsGoOn
<1>3. TypeOK'
  <2>1. TypeOK
    BY DEF Inv
  <2> QED
    BY <1>1, <1>2, <2>1 DEF TypeOK, TcpTypeOK, ClientsGoOn, In
<1>4. TcbsAreDistinct' /\ QueueHasTcb' /\ WindowsFit'
  BY <1>2 DEF Inv, TcbsAreDistinct, QueueHasTcb, WindowsFit, Waits, NoData
<1>5. Counts'
  <2>0. \A c \in Clients : /\ clients[c] \in Client /\ clients'[c] \in Client
                           /\ Later(clients[c], clients'[c])
    BY <1>1 DEF ClientsGoOn, ClientsAre
  <2>1. ASSUME NEW seg \in arriving'
        PROVE  SegmentCounts(seg, clients'[seg.client])
    <3>1. CASE seg \in arriving
      <4>1. /\ SegmentCounts(seg, clients[seg.client]) /\ seg.client \in Clients
        BY <1>1, <3>1, InIs DEF Inv, Counts, ClientsAre
      <4> QED
        BY <2>0, <4>1, LaterKeepsSegment
    <3> QED
      BY <1>1, <3>1 DEF ClientsGoOn
  <2>2. ASSUME NEW i \in Tcbs, tcbs[i].state # "LISTEN"
        PROVE  TcbCounts(tcbs[i], clients'[tcbs[i].peer], Done(i))
    <3>1. tcbs[i].peer \in Clients
      BY <2>2 DEF Inv, TypeOK, TcpTypeOK, TcbsAreDistinct, Tcb
    <3>2. TcbCounts(tcbs[i], clients[tcbs[i].peer], Done(i))
      BY <2>2 DEF Inv, Counts
    <3> QED
      BY <2>0, <3>1, <3>2, LaterKeepsTcb
  <2>3. \A i \in Tcbs : Done(i)' = Done(i) /\ (Waits(i)' <=> Waits(i))
    BY <1>2 DEF Done, Count, Waits, NoData
  <2>4. QueueCounts'
    <3>1. ASSUME NEW i \in Tcbs, Waits(i)
          PROVE  LET datum == queue.entries[queue.tail].data IN
                 /\ tcbs[i].state \in {"ESTABLISHED", "LAST_ACK"}
                 /\ datum.n = Count(tcbs[i].peer) + 1
                 /\ IsMessage(datum, clients'[tcbs[i].peer])
      <4>1. /\ tcbs[i].state \in {"ESTABLISHED", "LAST_ACK"}
            /\ queue.entries[queue.tail].data.n = Count(tcbs[i].peer) + 1
            /\ IsMessage(queue.entries[queue.tail].data, clients[tcbs[i].peer])
        BY <3>1 DEF Inv, Counts, QueueCounts
      <4>2. tcbs[i].peer \in Clients
        BY <4>1 DEF Inv, TypeOK, TcpTypeOK, TcbsAreDistinct, Tcb
      <4> QED
        BY <2>0, <4>1, <4>2, LaterKeepsMessage
    <3> QED
      BY <1>2, <2>3, <3>1 DEF QueueCounts, Count
  <2>5. ReadCounts'
    <3>1. ASSUME NEW c \in Clients
          PROVE  /\ Count(c) \in 0 .. Len(clients'[c].sent)
                 /\ \A n \in 1 .. Count(c) :
                       read[c][before[c] + n]
                           = [n |-> n, kind |-> clients'[c].sent[n]]
      <4>1. /\ Count(c) \in 0 .. Len(clients[c].sent)
            /\ \A n \in 1 .. Count(c) :
                  read[c][before[c] + n]
                      = [n |-> n, kind |-> clients[c].sent[n]]
        BY DEF Inv, Counts, ReadCounts
      <4>2. /\ Len(clients[c].sent) \in Nat /\ Len(clients'[c].sent) \in Nat
            /\ Later(clients[c], clients'[c])
        BY <2>0, ClientIs
      <4> QED
        BY <4>1, <4>2 DEF Later
    <3> QED
      BY <1>2, <3>1 DEF ReadCounts, Count
  <2> QED
    BY <1>1, <1>2, <2>1, <2>2, <2>3, <2>4, <2>5 DEF Counts, ClientsGoOn
<1> QED
  BY <1>3, <1>4, <1>5 DEF Inv

-----------------------------------------------------------------------------
(* The server takes a segment *)

\* find_tcb takes one of the TCBs it looks at.
LEMMA LowestIs ==
    ASSUME NEW S \in SUBSET Tcbs, S # {}
    PROVE  Lowest(S) \in S
<1>1. IsWellFoundedOn(OpToRel(<, Nat), Nat)
  BY NatLessThanWellFounded
<1>2. S \subseteq Nat
  BY ConstantTypes DEF Tcbs
<1>3. PICK i \in S : \A j \in S : ~(<<j, i>> \in OpToRel(<, Nat))
  BY <1>1, <1>2, WFMin
<1>4. \A j \in S : j < i => <<j, i>> \in OpToRel(<, Nat)
  BY <1>2 DEF OpToRel
<1>5. \A j \in S : ~(j < i)
  BY <1>3, <1>4, Zenon
<1>6. \A j \in S : i <= j
  BY <1>2, <1>5
<1> QED
  BY <1>6 DEF Lowest

\* The TCB of a segment is its client's, or a free one for a new client.
LEMMA FoundIs ==
    ASSUME Inv, NEW seg \in In, NEW i \in Found(seg)
    PROVE  /\ i \in Tcbs
           /\ \/ tcbs[i].state \in InUse /\ tcbs[i].peer = seg.client
              \/ /\ tcbs[i].state = "LISTEN"
                 /\ \A j \in Tcbs : tcbs[j].peer # seg.client
<1>1. Matching(seg) \subseteq Tcbs /\ Available \subseteq Tcbs
  BY DEF Matching, Available
<1>2. CASE Matching(seg) # {}
  <2>1. i \in Matching(seg)
    BY <1>1, <1>2, LowestIs DEF Found
  <2> QED
    BY <2>1 DEF Matching, Inv, TcbsAreDistinct
<1>3. CASE Matching(seg) = {}
  <2>1. i \in Available
    BY <1>1, <1>3, LowestIs DEF Found
  <2>2. seg.client # Nobody
    BY InIs, ConstantTypes
  <2>3. ASSUME NEW j \in Tcbs PROVE tcbs[j].peer # seg.client
    BY <1>3, <2>2 DEF Matching, Inv, TcbsAreDistinct
  <2> QED
    BY <2>1, <2>3 DEF Available
<1> QED
  BY <1>2, <1>3

\* What becomes of the TCB that find_tcb has found
Outcome(t, seg, w) ==
    \/ Freed(w)
    \/ t.state = "LISTEN" /\ Opens(seg, w)
    \/ t.state # "LISTEN" /\ Stays(t, w)
    \/ /\ t.state # "LISTEN" /\ w.tcb.state # "CLOSE_WAIT"
       /\ TakesText(t, seg, w)
    \/ /\ t.state # "LISTEN" /\ w.tcb.state # "CLOSE_WAIT"
       /\ TakesFin(t, seg, w) /\ LEQ(t.rcvNxt, seg.seq)

\* The outcome of tcp_handle and tcp_run for the TCB that find_tcb has found
LEMMA OutcomeIs ==
    ASSUME NEW t \in Tcb, NEW seg \in In, Full(t), opened \in Nat,
           \/ t.state = "LISTEN" /\ t.peer = Nobody
           \/ t.state \in InUse /\ t.peer = seg.client
    PROVE  LET w == TcpRun(Handled(t, seg)) IN
           WorkOK(w) /\ Outcome(t, seg, w)
<1> DEFINE h == Handled(t, seg)
           w == TcpRun(h)
<1>c. seg.client \in Clients
  BY InIs
<1>1. CASE t.state = "LISTEN" /\ t.peer = Nobody
  <2>1. WorkOK(h) /\ (Freed(h) \/ Opens(seg, h))
    BY <1>1, ListenGoes
  <2>2. h.tcb.state # "CLOSE_WAIT"
    BY <2>1 DEF Freed, Opens
  <2> HIDE DEF h
  <2>3. w = h
    BY <2>2 DEF TcpRun
  <2> QED
    BY <1>1, <2>1, <2>3 DEF Outcome, h
<1>2. CASE t.state \in InUse /\ t.peer = seg.client
  <2>1. /\ WorkOK(h)
        /\ \/ Freed(h) \/ Stays(t, h)
           \/ /\ TakesText(t, seg, h) \/ TakesFin(t, seg, h)
              /\ LEQ(t.rcvNxt, seg.seq)
    BY <1>c, <1>2, HandledGoes
  <2> HIDE DEF h
  <2>2. h.tcb.state = "CLOSE_WAIT" => h.tcb.peer \in Clients
    BY <1>c, <1>2, <2>1 DEF Freed, Stays, TakesText, TakesFin, SameEnds
  <2>3. /\ WorkOK(w) /\ w.data = h.data
        /\ w.tcb.peer = h.tcb.peer /\ w.tcb.rcvNxt = h.tcb.rcvNxt
        /\ w.tcb.rcvWnd = h.tcb.rcvWnd
        /\ w.tcb.state = IF h.tcb.state = "CLOSE_WAIT" THEN "LAST_ACK"
                                                       ELSE h.tcb.state
    BY <2>1, <2>2, TcpRunIs
  <2> HIDE DEF w
  <2>4. t.state \in InUse /\ t.state # "LISTEN" /\ t.state # "CLOSE_WAIT"
    BY <1>2 DEF InUse
  <2>5. Outcome(t, seg, w)
    BY <2>1, <2>3, <2>4
    DEF Outcome, Freed, Stays, TakesText, TakesFin, SameEnds, Full
  <2> QED
    BY <2>3, <2>5 DEF w, h
<1> QED
  BY <1>1, <1>2

\* What a segment does to the count of a connection in use
LEMMA OutcomeCounts ==
    ASSUME NEW t \in Tcb, NEW seg \in In, NEW w, NEW cl \in Client,
           NEW done \in Nat, t.state \in InUse, ClientCounts(cl),
           SegmentCounts(seg, cl), TcbCounts(t, cl, done),
           \/ Stays(t, w)
           \/ w.tcb.state # "CLOSE_WAIT" /\ TakesText(t, seg, w)
           \/ /\ w.tcb.state # "CLOSE_WAIT" /\ TakesFin(t, seg, w)
              /\ LEQ(t.rcvNxt, seg.seq)
    PROVE  \/ w.data = <<>> /\ TcbCounts(w.tcb, cl, done)
           \/ /\ w.data = seg.data /\ w.data # <<>>
              /\ w.tcb.state \in {"ESTABLISHED", "LAST_ACK"}
              /\ TcbCounts(w.tcb, cl, done + 1)
              /\ w.data[1].n = done + 1 /\ IsMessage(w.data[1], cl)
<1> DEFINE len == Len(cl.sent)
<1>1. len \in Nat /\ len + 2 <= Last /\ Last \in Nat
  BY ClientIs, ConstantTypes, SMTT(60) DEF Last
<1>2. CASE Stays(t, w)
  BY <1>2 DEF Stays, TcbCounts, InUse
<1>3. CASE w.tcb.state # "CLOSE_WAIT" /\ TakesText(t, seg, w)
  <2>1. /\ t.state = "ESTABLISHED" /\ w.data = seg.data /\ w.data # <<>>
        /\ seg.seq = t.rcvNxt
    BY <1>3 DEF TakesText, IsNext
  <2>2. done <= len /\ t.rcvNxt = At(done + 1)
    BY <2>1 DEF TcbCounts
  <2> DEFINE n == seg.data[1].n
  <2>3. /\ n \in 1 .. len /\ seg.seq = At(n)
        /\ seg.data[1].kind = cl.sent[n]
    BY <2>1 DEF SegmentCounts
  <2> HIDE DEF n
  <2>4. n = done + 1
    <3>1. n \in 0 .. Last /\ done + 1 \in 0 .. Last /\ At(n) = At(done + 1)
      BY <1>1, <2>1, <2>2, <2>3
    <3> QED
      BY <3>1, AtDiffers
  <2>5. done + 1 <= len
    BY <2>3, <2>4
  <2>6. Plus(At(done + 1), 1) = At(done + 2)
    <3>1. done + 1 \in 0 .. Last /\ done + 1 + 1 <= Last + 1
          /\ done + 1 + 1 = done + 2
      BY <1>1, <2>5
    <3> QED
      BY <3>1, AtNext
  <2>7. Plus(At(done + 2), 1) = At(done + 3)
    <3>1. done + 2 \in 0 .. Last /\ done + 2 + 1 <= Last + 1
          /\ done + 2 + 1 = done + 3
      BY <1>1, <2>5
    <3> QED
      BY <3>1, AtNext
  <2>8. \/ w.tcb.state = "ESTABLISHED" /\ w.tcb.rcvNxt = At(done + 2)
        \/ /\ w.tcb.state = "LAST_ACK" /\ "FIN" \in seg.ctl
           /\ w.tcb.rcvNxt = At(done + 3)
    BY <1>3, <2>2, <2>6, <2>7 DEF TakesText
  <2>9. "FIN" \in seg.ctl => HasClosed(cl)
    BY DEF SegmentCounts
  <2>10. cl.state # "CLOSED"
    BY <2>1 DEF TcbCounts
  <2>11. IsMessage(seg.data[1], cl)
    BY <2>3 DEF IsMessage, n
  <2>12. done + 3 \in 1 .. len + 2 /\ done + 1 \in 0 .. len
         /\ done + 1 + 1 = done + 2
    BY <1>1, <2>5
  <2>13. TcbCounts(w.tcb, cl, done + 1)
    BY <2>8, <2>9, <2>10, <2>12 DEF TcbCounts
  <2> QED
    BY <2>1, <2>4, <2>8, <2>11, <2>13 DEF n
<1>4. CASE /\ w.tcb.state # "CLOSE_WAIT" /\ TakesFin(t, seg, w)
           /\ LEQ(t.rcvNxt, seg.seq)
  <2>1. /\ w.data = <<>> /\ "FIN" \in seg.ctl /\ w.tcb.state = "LAST_ACK"
        /\ w.tcb.rcvNxt = Plus(t.rcvNxt, 1)
    BY <1>4 DEF TakesFin
  <2>2. HasClosed(cl) /\ \E k \in 0 .. len + 1 : seg.seq = At(k)
    BY <2>1 DEF SegmentCounts
  <2>3. PICK k \in 0 .. len + 1 : seg.seq = At(k)
    BY <2>2
  <2>4. \E r \in 1 .. len + 2 : t.rcvNxt = At(r)
    <3>1. CASE t.state = "LAST_ACK"
      BY <3>1 DEF TcbCounts
    <3>2. CASE t.state \in {"SYN_RECEIVED", "ESTABLISHED"}
      <4>1. done \in 0 .. len /\ t.rcvNxt = At(done + 1)
        BY <3>2 DEF TcbCounts
      <4>2. done + 1 \in 1 .. len + 2
        BY <1>1, <4>1
      <4> QED
        BY <4>1, <4>2
    <3> QED
      BY <3>1, <3>2 DEF InUse
  <2>5. PICK r \in 1 .. len + 2 : t.rcvNxt = At(r)
    BY <2>4
  <2>6. Minus(At(r), At(k)) = r - k
    <3>1. r \in 0 .. Last /\ k \in 0 .. Last
      BY <1>1
    <3> QED
      BY <3>1, Distance
  <2>7. r <= k
    BY <1>4, <2>3, <2>5, <2>6 DEF LEQ
  <2>8. r + 1 \in 1 .. len + 2 /\ r \in 0 .. Last /\ r + 1 <= Last + 1
    BY <1>1, <2>7
  <2>9. w.tcb.rcvNxt = At(r + 1)
    BY <2>1, <2>5, <2>8, AtNext
  <2>10. cl.state # "CLOSED"
    BY <2>2 DEF HasClosed
  <2> QED
    BY <2>1, <2>2, <2>8, <2>9, <2>10 DEF TcbCounts
<1> QED
  BY <1>2, <1>3, <1>4

\* The ring takes a message.
LEMMA QueueTakes ==
    ASSUME queue \in Queue, NoData, NEW d \in Message, NEW i \in Tcbs,
           queue' = Enqueued(<<d>>, i)
    PROVE  /\ queue' \in Queue /\ ~NoData'
           /\ queue'.entries[queue'.tail] = [data |-> d, tcb |-> i]
<1> DEFINE h == queue.head
           next == (h + 1) % RxEntries
           entry == [data |-> d, tcb |-> i]
<1>1. /\ h \in {0, 1} /\ queue.tail = h
      /\ queue.entries \in [0 .. 1 -> {<<>>} \cup [data : Message, tcb : Tcbs]]
  BY DEF Queue, RxEntries, NoData
<1>2. next \in {0, 1} /\ next # h
  BY <1>1 DEF RxEntries
<1>3. entry \in [data : Message, tcb : Tcbs] /\ <<d>> # <<>> /\ <<d>>[1] = d
  OBVIOUS
<1>4. queue' = [queue EXCEPT !.entries[h] = entry, !.head = next]
  BY <1>3 DEF Enqueued
<1> HIDE DEF next, entry
<1>5. /\ queue'.head = next /\ queue'.tail = h
      /\ queue'.entries = [queue.entries EXCEPT ![h] = entry]
  BY <1>1, <1>4 DEF Queue
<1>6. /\ queue'.entries \in [0 .. 1 -> {<<>>} \cup [data : Message, tcb : Tcbs]]
      /\ queue'.entries[h] = entry
  BY <1>1, <1>3, <1>5
<1>7. queue' \in Queue
  BY <1>1, <1>2, <1>4, <1>5, <1>6 DEF Queue, RxEntries
<1> QED
  BY <1>2, <1>5, <1>6, <1>7 DEF NoData, entry

\* What Handle does, with the outcome in the place of tcp_handle and tcp_run
Taken(seg, i, w) ==
    /\ seg \in arriving /\ seg \in In /\ i \in Tcbs /\ NoData
    /\ WorkOK(w) /\ Outcome(tcbs[i], seg, w)
    /\ \/ tcbs[i].state \in InUse /\ tcbs[i].peer = seg.client
       \/ /\ tcbs[i].state = "LISTEN"
          /\ \A j \in Tcbs : tcbs[j].peer # seg.client
    /\ tcbs' = [tcbs EXCEPT ![i] = w.tcb]
    /\ queue' = Enqueued(w.data, i)
    /\ opened' \in 0 .. MaxOpens
    /\ leaving' = leaving \cup Telling(w.out)
    /\ before' = IF tcbs[i].state = "LISTEN" /\ w.tcb.state # "LISTEN"
                 THEN [before EXCEPT ![seg.client] = Len(read[seg.client])]
                 ELSE before
    /\ UNCHANGED <<arriving, clients, read>>

\* Handle in terms of its outcome
LEMMA HandleIsTaken ==
    ASSUME Inv, NEW seg \in arriving, Handle(seg)
    PROVE  \E i, w : Taken(seg, i, w)
<1>1. /\ tcbs \in [Tcbs -> Tcb] /\ opened \in 0 .. MaxOpens
      /\ seg \in In /\ opened \in Nat
  BY ConstantTypes DEF Inv, TypeOK, TcpTypeOK, In
<1>2. PICK i \in Found(seg) : HandleSegment(seg, i)
  BY DEF Handle
<1>3. NoData
  BY DEF Handle
<1>4. /\ i \in Tcbs
      /\ \/ tcbs[i].state \in InUse /\ tcbs[i].peer = seg.client
         \/ /\ tcbs[i].state = "LISTEN"
            /\ \A j \in Tcbs : tcbs[j].peer # seg.client
  BY <1>1, FoundIs
<1>5. tcbs[i] \in Tcb /\ Full(tcbs[i])
      /\ (tcbs[i].state = "LISTEN" => tcbs[i].peer = Nobody)
  BY <1>1, <1>3, <1>4 DEF Inv, WindowsFit, Waits, Full, TcbsAreDistinct
<1> DEFINE w == TcpRun(Handled(tcbs[i], seg))
           opens == tcbs[i].state = "LISTEN" /\ w.tcb.state # "LISTEN"
<1>6. WorkOK(w) /\ Outcome(tcbs[i], seg, w)
  BY <1>1, <1>4, <1>5, OutcomeIs
<1>7. /\ opens => opened < MaxOpens
      /\ opened' = IF opens THEN opened + 1 ELSE opened
      /\ tcbs' = [tcbs EXCEPT ![i] = w.tcb]
      /\ leaving' = leaving \cup Telling(w.out)
      /\ queue' = Enqueued(w.data, i)
      /\ before' = IF opens
                   THEN [before EXCEPT ![seg.client] = Len(read[seg.client])]
                   ELSE before
      /\ UNCHANGED <<arriving, clients, read>>
  BY <1>2 DEF HandleSegment
<1>8. before' = IF tcbs[i].state = "LISTEN" /\ w.tcb.state # "LISTEN"
                THEN [before EXCEPT ![seg.client] = Len(read[seg.client])]
                ELSE before
  BY <1>7
<1> HIDE DEF w, opens
<1>9. opened' \in 0 .. MaxOpens
  BY <1>1, <1>7, ConstantTypes
<1>10. Taken(seg, i, w)
  BY <1>1, <1>3, <1>4, <1>6, <1>7, <1>8, <1>9 DEF Taken
<1> QED
  BY <1>10

\* The TCB afterwards is free, or in use by the client of the segment.
LEMMA TakenTcb ==
    ASSUME Inv, NEW seg, NEW i, NEW w, Taken(seg, i, w)
    PROVE  /\ w.tcb \in Tcb /\ w.tcb.rcvWnd \in Int
           /\ \/ /\ w.tcb.state = "LISTEN" /\ w.tcb.peer = Nobody
                 /\ Full(w.tcb) /\ w.data = <<>>
              \/ /\ w.tcb.state \in InUse /\ w.tcb.peer = seg.client
                 /\ seg.client \in Clients
                 /\ \/ Full(w.tcb) /\ w.data = <<>>
                    \/ /\ w.tcb.rcvWnd = FullWindow - Mss
                       /\ w.data = seg.data /\ w.data # <<>>
<1>1. /\ w.tcb \in Tcb /\ tcbs[i] \in Tcb /\ Full(tcbs[i])
      /\ seg.client \in Clients
  BY InIs DEF Taken, WorkOK, Inv, TypeOK, TcpTypeOK, WindowsFit, Waits, Full
<1>2. Outcome(tcbs[i], seg, w)
      /\ \/ tcbs[i].state \in InUse /\ tcbs[i].peer = seg.client
         \/ tcbs[i].state = "LISTEN"
  BY DEF Taken
<1>3. w.tcb.rcvWnd \in Int
  BY <1>1 DEF Tcb
<1> QED
  BY <1>1, <1>2, <1>3
  DEF Outcome, Freed, Opens, Stays, TakesText, TakesFin, SameEnds, IsNext,
      Full, InUse

\* The queue afterwards
LEMMA TakenQueue ==
    ASSUME Inv, NEW seg, NEW i, NEW w, Taken(seg, i, w)
    PROVE  /\ queue' \in Queue /\ QueueHasTcb'
           /\ w.data = <<>> => NoData'
           /\ w.data # <<>> =>
                 /\ ~NoData'
                 /\ queue'.entries[queue'.tail]
                        = [data |-> w.data[1], tcb |-> i]
<1>1. queue \in Queue /\ NoData /\ i \in Tcbs /\ queue' = Enqueued(w.data, i)
  BY DEF Taken, Inv, TypeOK, TcpTypeOK
<1>2. CASE w.data = <<>>
  <2>1. queue' = queue
    BY <1>1, <1>2 DEF Enqueued
  <2> QED
    BY <1>1, <1>2, <2>1 DEF NoData, QueueHasTcb
<1>3. CASE w.data # <<>>
  <2>1. w.data = seg.data
    BY <1>3, TakenTcb
  <2>2. PICK d \in Message : w.data = <<d>>
    BY <1>3, <2>1, InIs DEF Taken
  <2>3. w.data[1] = d
    BY <2>2
  <2>4. /\ queue' \in Queue /\ ~NoData'
        /\ queue'.entries[queue'.tail] = [data |-> d, tcb |-> i]
    BY <1>1, <2>2, QueueTakes
  <2>5. [data |-> d, tcb |-> i] # <<>>
    <3>1. DOMAIN [data |-> d, tcb |-> i] = {"data", "tcb"}
      OBVIOUS
    <3>2. DOMAIN <<>> = {}
      OBVIOUS
    <3> QED
      BY <3>1, <3>2
  <2> QED
    BY <1>3, <2>3, <2>4, <2>5 DEF QueueHasTcb
<1> QED
  BY <1>2, <1>3

\* A segment keeps the types.
LEMMA TakenKeepsTypes ==
    ASSUME Inv, NEW seg, NEW i, NEW w, Taken(seg, i, w),
           UNCHANGED <<handlers, dynamic, posted>>
    PROVE  TypeOK'
<1>1. TypeOK /\ queue' \in Queue
  BY TakenQueue DEF Inv
<1>2. /\ w.tcb \in Tcb /\ w.tcb.rcvWnd \in {FullWindow, FullWindow - Mss}
  BY TakenTcb DEF Full
<1>3. /\ tcbs' \in [Tcbs -> Tcb]
      /\ \A j \in Tcbs : tcbs'[j].rcvWnd \in {FullWindow, FullWindow - Mss}
  BY <1>1, <1>2 DEF Taken, TypeOK, TcpTypeOK
<1>4. leaving' \subseteq Out
  BY <1>1 DEF Taken, WorkOK, Telling, TypeOK, TcpTypeOK, Out
<1>5. before' \in [Clients -> Nat]
  <2>1. \A c \in Clients : Len(read[c]) \in Nat
    BY <1>1 DEF TypeOK
  <2>2. seg.client \in Clients
    BY InIs DEF Taken
  <2> QED
    BY <1>1, <2>1, <2>2 DEF Taken, TypeOK
<1>6. opened' \in 0 .. MaxOpens /\ UNCHANGED <<arriving, clients, read>>
  BY DEF Taken
<1> QED
  BY <1>1, <1>3, <1>4, <1>5, <1>6 DEF TypeOK, TcpTypeOK, Out

\* A segment keeps the TCBs apart and their windows in step with the ring.
LEMMA TakenKeepsTcbs ==
    ASSUME Inv, NEW seg, NEW i, NEW w, Taken(seg, i, w)
    PROVE  /\ TcbsAreDistinct' /\ WindowsFit'
           /\ tcbs' \in [Tcbs -> Tcb] /\ i \in Tcbs /\ tcbs'[i] = w.tcb
           /\ \A j \in Tcbs : j # i =>
                 tcbs'[j] = tcbs[j] /\ tcbs[j].peer # seg.client
           /\ \A j \in Tcbs : Waits(j)' <=> (j = i /\ w.data # <<>>)
<1>1. TcbsAreDistinct /\ WindowsFit /\ tcbs \in [Tcbs -> Tcb]
  BY DEF Inv, TypeOK, TcpTypeOK
<1>2. /\ i \in Tcbs /\ NoData /\ tcbs' = [tcbs EXCEPT ![i] = w.tcb]
      /\ \/ tcbs[i].state \in InUse /\ tcbs[i].peer = seg.client
         \/ /\ tcbs[i].state = "LISTEN"
            /\ \A j \in Tcbs : tcbs[j].peer # seg.client
      /\ seg.client # Nobody
  BY InIs, ConstantTypes DEF Taken
<1>3. /\ w.tcb \in Tcb
      /\ \/ /\ w.tcb.state = "LISTEN" /\ w.tcb.peer = Nobody
            /\ Full(w.tcb) /\ w.data = <<>>
         \/ /\ w.tcb.state \in InUse /\ w.tcb.peer = seg.client
            /\ \/ Full(w.tcb) /\ w.data = <<>>
               \/ w.tcb.rcvWnd = FullWindow - Mss /\ w.data # <<>>
  BY TakenTcb
<1>4. tcbs' \in [Tcbs -> Tcb] /\ tcbs'[i] = w.tcb
      /\ \A j \in Tcbs : j # i => tcbs'[j] = tcbs[j]
  BY <1>1, <1>2, <1>3
<1>5. \A j \in Tcbs : j # i => tcbs[j].peer # seg.client
  BY <1>1, <1>2 DEF TcbsAreDistinct
<1>6. \A j \in Tcbs : Waits(j)' <=> (j = i /\ w.data # <<>>)
  <2>1. /\ w.data = <<>> => NoData'
        /\ w.data # <<>> =>
              /\ ~NoData'
              /\ queue'.entries[queue'.tail] = [data |-> w.data[1], tcb |-> i]
    BY TakenQueue
  <2> QED
    BY <2>1 DEF Waits
<1>7. TcbsAreDistinct'
  <2>1. ASSUME NEW j \in Tcbs
        PROVE  /\ tcbs'[j].state \in {"LISTEN"} \cup InUse
               /\ tcbs'[j].state = "LISTEN" <=> tcbs'[j].peer = Nobody
    BY <1>1, <1>2, <1>3, <1>4 DEF TcbsAreDistinct, InUse
  <2>2. ASSUME NEW j \in Tcbs, NEW k \in Tcbs, tcbs'[j].peer = tcbs'[k].peer
        PROVE  j = k \/ tcbs'[j].peer = Nobody
    BY <1>1, <1>2, <1>3, <1>4, <1>5, <2>2 DEF TcbsAreDistinct
  <2> QED
    BY <2>1, <2>2 DEF TcbsAreDistinct
<1>8. WindowsFit'
  <2>1. ASSUME NEW j \in Tcbs
        PROVE  tcbs'[j].rcvWnd = IF Waits(j)' THEN FullWindow - Mss
                                              ELSE FullWindow
    <3>1. CASE j = i
      BY <1>3, <1>4, <1>6, <3>1 DEF Full
    <3>2. CASE j # i
      <4>1. tcbs[j].rcvWnd = FullWindow
        BY <1>1, <1>2 DEF WindowsFit, Waits
      <4> QED
        BY <1>4, <1>6, <3>2, <4>1
    <3> QED
      BY <3>1, <3>2
  <2> QED
    BY <2>1 DEF WindowsFit
<1> QED
  BY <1>2, <1>4, <1>5, <1>6, <1>7, <1>8

\* What was read on the connection of each client afterwards: nothing on a new
\* one, and the same as before on the others
LEMMA TakenCount ==
    ASSUME Inv, NEW seg, NEW i, NEW w, Taken(seg, i, w), NEW c \in Clients
    PROVE  /\ Count(c) \in Nat
           /\ IF c = seg.client /\ tcbs[i].state = "LISTEN"
                                /\ w.tcb.state # "LISTEN"
              THEN Count(c)' = 0
              ELSE before'[c] = before[c] /\ Count(c)' = Count(c)
<1>1. before \in [Clients -> Nat] /\ Len(read[c]) \in Nat /\ Count(c) \in Nat
  <2>1. read \in [Clients -> Seq(Message)] /\ before \in [Clients -> Nat]
    BY DEF Inv, TypeOK
  <2>2. Len(clients[c].sent) \in Nat
    BY ClientIs DEF Inv, TypeOK, TcpTypeOK
  <2>3. Count(c) \in Nat
    BY <2>2 DEF Inv, Counts, ReadCounts
  <2> QED
    BY <2>1, <2>3
<1>2. /\ read' = read
      /\ before' = IF tcbs[i].state = "LISTEN" /\ w.tcb.state # "LISTEN"
                   THEN [before EXCEPT ![seg.client] = Len(read[seg.client])]
                   ELSE before
  BY DEF Taken
<1>3. CASE c = seg.client /\ tcbs[i].state = "LISTEN" /\ w.tcb.state # "LISTEN"
  <2>1. before'[c] = Len(read[c])
    BY <1>1, <1>2, <1>3
  <2>2. Count(c)' = Len(read[c]) - Len(read[c])
    BY <1>2, <2>1 DEF Count
  <2> QED
    BY <1>1, <1>3, <2>2
<1>4. CASE ~(c = seg.client /\ tcbs[i].state = "LISTEN"
                           /\ w.tcb.state # "LISTEN")
  <2>1. before'[c] = before[c]
    BY <1>1, <1>2, <1>4
  <2> QED
    BY <1>1, <1>2, <1>4, <2>1 DEF Count
<1> QED
  BY <1>3, <1>4

\* The count of the TCB itself
LEMMA TakenTcbCounts ==
    ASSUME Inv, NEW seg, NEW i, NEW w, Taken(seg, i, w),
           w.tcb.state # "LISTEN"
    PROVE  LET c == seg.client
               more == IF w.data # <<>> THEN 1 ELSE 0 IN
           /\ TcbCounts(w.tcb, clients[c], Count(c)' + more)
           /\ w.data # <<>> =>
                 /\ w.tcb.state \in {"ESTABLISHED", "LAST_ACK"}
                 /\ w.data[1].n = Count(c)' + 1
                 /\ IsMessage(w.data[1], clients[c])
<1> DEFINE c == seg.client
           cl == clients[c]
<1>1. /\ seg \in In /\ c \in Clients /\ cl \in Client /\ ClientCounts(cl)
      /\ SegmentCounts(seg, cl) /\ i \in Tcbs /\ tcbs[i] \in Tcb
      /\ Outcome(tcbs[i], seg, w) /\ ~Freed(w)
  <2>1. seg \in In /\ seg \in arriving /\ c \in Clients /\ i \in Tcbs
        /\ Outcome(tcbs[i], seg, w)
    BY InIs DEF Taken
  <2> QED
    BY <2>1 DEF Inv, TypeOK, TcpTypeOK, Counts, Freed
<1>2. CASE tcbs[i].state = "LISTEN"
  <2>1. Opens(seg, w)
    BY <1>1, <1>2 DEF Outcome
  <2>2. Count(c)' = 0
    BY <1>1, <1>2, TakenCount
  <2>3. seg.seq = At(0) /\ cl.state # "CLOSED"
    BY <1>1, <2>1 DEF SegmentCounts, Opens
  <2>4. w.tcb.rcvNxt = At(1)
    <3>1. 0 \in 0 .. Last /\ 0 + 1 <= Last + 1 /\ 0 + 1 = 1
      BY ConstantTypes
    <3>2. Plus(At(0), 1) = At(1)
      BY <3>1, AtNext
    <3> QED
      BY <2>1, <2>3, <3>2 DEF Opens
  <2>5. 0 \in 0 .. Len(cl.sent) /\ Len(cl.sent) \in Nat
    BY <1>1, ClientIs
  <2>6. TcbCounts(w.tcb, cl, 0)
    BY <2>1, <2>3, <2>4, <2>5 DEF TcbCounts, Opens
  <2>7. w.data = <<>>
    BY <2>1 DEF Opens
  <2> QED
    BY <2>2, <2>6, <2>7
<1>3. CASE tcbs[i].state # "LISTEN"
  <2>1. tcbs[i].state \in InUse /\ tcbs[i].peer = c
    BY <1>3 DEF Taken
  <2>2. Count(c) \in Nat /\ Count(c)' = Count(c)
    BY <1>1, <1>3, TakenCount
  <2>3. Done(i) = Count(c)
    BY <2>1, <2>2 DEF Taken, Done, Waits
  <2>4. TcbCounts(tcbs[i], cl, Count(c))
    BY <1>1, <1>3, <2>1, <2>3 DEF Inv, Counts
  <2>5. \/ Stays(tcbs[i], w)
        \/ w.tcb.state # "CLOSE_WAIT" /\ TakesText(tcbs[i], seg, w)
        \/ /\ w.tcb.state # "CLOSE_WAIT" /\ TakesFin(tcbs[i], seg, w)
           /\ LEQ(tcbs[i].rcvNxt, seg.seq)
    BY <1>1, <1>3 DEF Outcome
  <2> HIDE DEF cl, c
  <2> DEFINE done == Count(c)
             t == tcbs[i]
  <2>a. /\ done \in Nat /\ t \in Tcb /\ t.state \in InUse
        /\ TcbCounts(t, cl, done) /\ cl \in Client /\ ClientCounts(cl)
        /\ SegmentCounts(seg, cl) /\ seg \in In
    BY <1>1, <2>1, <2>2, <2>4
  <2>b. \/ Stays(t, w)
        \/ w.tcb.state # "CLOSE_WAIT" /\ TakesText(t, seg, w)
        \/ /\ w.tcb.state # "CLOSE_WAIT" /\ TakesFin(t, seg, w)
           /\ LEQ(t.rcvNxt, seg.seq)
    BY <2>5
  <2> HIDE DEF done, t
  <2>c. \/ w.data = <<>> /\ TcbCounts(w.tcb, cl, done)
        \/ /\ w.data = seg.data /\ w.data # <<>>
           /\ w.tcb.state \in {"ESTABLISHED", "LAST_ACK"}
           /\ TcbCounts(w.tcb, cl, done + 1)
           /\ w.data[1].n = done + 1 /\ IsMessage(w.data[1], cl)
    BY <2>a, <2>b, OutcomeCounts
  <2>6. \/ w.data = <<>> /\ TcbCounts(w.tcb, cl, Count(c))
        \/ /\ w.data # <<>>
           /\ w.tcb.state \in {"ESTABLISHED", "LAST_ACK"}
           /\ TcbCounts(w.tcb, cl, Count(c) + 1)
           /\ w.data[1].n = Count(c) + 1 /\ IsMessage(w.data[1], cl)
    BY <2>c DEF done
  <2>7. Count(c) + 0 = Count(c)
    BY <2>2
  <2> QED
    BY <2>2, <2>6, <2>7 DEF cl, c
<1> QED
  BY <1>2, <1>3

\* A segment keeps the counts.
LEMMA TakenKeepsCounts ==
    ASSUME Inv, NEW seg, NEW i, NEW w, Taken(seg, i, w)
    PROVE  Counts'
<1>0. TcbsAreDistinct /\ Counts /\ tcbs \in [Tcbs -> Tcb] /\ NoData
      /\ UNCHANGED <<arriving, clients, read>> /\ seg.client \in Clients
  BY InIs DEF Inv, TypeOK, TcpTypeOK, Taken
<1>1. /\ i \in Tcbs /\ tcbs'[i] = w.tcb
      /\ \A j \in Tcbs : j # i =>
            tcbs'[j] = tcbs[j] /\ tcbs[j].peer # seg.client
      /\ \A j \in Tcbs : Waits(j)' <=> (j = i /\ w.data # <<>>)
  BY TakenKeepsTcbs
<1>2. w.tcb.state # "LISTEN" => w.tcb.peer = seg.client
  BY TakenTcb
<1>3. ASSUME NEW j \in Tcbs, tcbs'[j].state # "LISTEN"
      PROVE  TcbCounts(tcbs'[j], clients[tcbs'[j].peer], Done(j)')
  <2>1. CASE j = i
    <3>1. Done(i)' = Count(seg.client)' + IF w.data # <<>> THEN 1 ELSE 0
      BY <1>1, <1>2, <1>3, <2>1 DEF Done, Count
    <3> QED
      BY <1>1, <1>2, <1>3, <2>1, <3>1, TakenTcbCounts
  <2>2. CASE j # i
    <3>1. /\ tcbs'[j] = tcbs[j] /\ tcbs[j].peer # seg.client
          /\ tcbs[j].state # "LISTEN" /\ ~Waits(j)' /\ ~Waits(j)
      BY <1>0, <1>1, <1>3, <2>2 DEF Waits
    <3>2. tcbs[j].peer \in Clients
      BY <1>0, <3>1 DEF TcbsAreDistinct, Tcb
    <3>3. Count(tcbs[j].peer)' = Count(tcbs[j].peer)
      BY <3>1, <3>2, TakenCount
    <3>4. Done(j)' = Done(j)
      BY <3>1, <3>3 DEF Done, Count
    <3>5. TcbCounts(tcbs[j], clients[tcbs[j].peer], Done(j))
      BY <1>0, <3>1 DEF Counts
    <3> QED
      BY <3>1, <3>4, <3>5
  <2> QED
    BY <2>1, <2>2
<1>4. QueueCounts'
  <2>1. ASSUME NEW j \in Tcbs, Waits(j)'
        PROVE  LET datum == queue'.entries[queue'.tail].data IN
               /\ tcbs'[j].state \in {"ESTABLISHED", "LAST_ACK"}
               /\ tcbs'[j].peer = seg.client
               /\ datum.n = Count(seg.client)' + 1
               /\ IsMessage(datum, clients'[seg.client])
    <3>1. j = i /\ w.data # <<>>
      BY <1>1, <2>1
    <3>2. queue'.entries[queue'.tail].data = w.data[1]
      <4>1. queue'.entries[queue'.tail] = [data |-> w.data[1], tcb |-> i]
        BY <3>1, TakenQueue
      <4> QED
        BY <4>1
    <3>3. w.tcb.state # "LISTEN"
      BY <3>1, TakenTcb DEF InUse
    <3>4. /\ w.tcb.state \in {"ESTABLISHED", "LAST_ACK"}
          /\ w.data[1].n = Count(seg.client)' + 1
          /\ IsMessage(w.data[1], clients[seg.client])
      BY <3>1, <3>3, TakenTcbCounts
    <3> QED
      BY <1>0, <1>1, <1>2, <3>1, <3>2, <3>3, <3>4
  <2> QED
    BY <2>1 DEF QueueCounts, Count
<1>5. ReadCounts'
  <2>1. ASSUME NEW c \in Clients
        PROVE  /\ Count(c)' \in 0 .. Len(clients[c].sent)
               /\ \A n \in 1 .. Count(c)' :
                     read[c][before'[c] + n]
                         = [n |-> n, kind |-> clients[c].sent[n]]
    <3>1. Len(clients[c].sent) \in Nat
      BY ClientIs DEF Inv, TypeOK, TcpTypeOK
    <3>2. \/ Count(c)' = 0
          \/ before'[c] = before[c] /\ Count(c)' = Count(c)
      BY TakenCount
    <3> QED
      BY <1>0, <3>1, <3>2 DEF Counts, ReadCounts
  <2> QED
    BY <1>0, <2>1 DEF ReadCounts, Count
<1> QED
  BY <1>0, <1>3, <1>4, <1>5 DEF Counts

\* A segment for the server keeps the invariant.
LEMMA HandleKeeps ==
    ASSUME Inv, NEW seg \in arriving, Handle(seg),
           UNCHANGED <<handlers, dynamic, posted>>
    PROVE  Inv'
<1>1. PICK i, w : Taken(seg, i, w)
  BY HandleIsTaken
<1> QED
  BY <1>1, TakenKeepsTypes, TakenKeepsTcbs, TakenQueue, TakenKeepsCounts
  DEF Inv

-----------------------------------------------------------------------------
(* The application reads a message *)

\* The handlers stay handlers, and what they share is a text.
LEMMA RequestIs ==
    ASSUME NEW h \in Handler, NEW kind \in Sort, NEW client \in Clients,
           dynamic \in Texts, NEW result \in HandleRequest(h, kind, client)
    PROVE  /\ result.handler \in Handler /\ result.dynamic \in Texts
           /\ Text(result.handler, result.dynamic) \in Answers
<1>1. kind \in Kinds
  BY MessagesAssumption DEF Sort, Range
<1>2. /\ [h EXCEPT !.awaitsBody = FALSE] \in Handler
      /\ [h EXCEPT !.awaitsBody = FALSE, !.content = "dynamic"] \in Handler
      /\ [h EXCEPT !.awaitsBody = TRUE, !.asker = client] \in Handler
      /\ [h EXCEPT !.content = "dynamic"] \in Handler
      /\ [h EXCEPT !.content = "page"] \in Handler
  <2>1. /\ FALSE \in BOOLEAN /\ TRUE \in BOOLEAN
        /\ client \in Clients \cup {Nobody}
        /\ {"dynamic", "page"} \subseteq {"null", "dynamic", "page"}
    OBVIOUS
  <2> QED
    BY <2>1 DEF Handler
<1>3. {"list", "submit", "error"} \subseteq Texts
  BY DEF Texts
<1>4. result.handler \in Handler /\ result.dynamic \in Texts
  <2>1. result \in {Initial(h, kind, client), Submitted(h), Failed(h)}
    BY DEF HandleRequest
  <2>2. /\ Submitted(h).handler \in Handler /\ Submitted(h).dynamic \in Texts
    BY <1>2, <1>3 DEF Submitted, Result
  <2>3. /\ Failed(h).handler \in Handler /\ Failed(h).dynamic \in Texts
    BY <1>2, <1>3 DEF Failed, Result
  <2>4. CASE result = Initial(h, kind, client)
    <3>1. CASE kind = "json"
      BY <1>2, <1>3, <2>4, <3>1 DEF Initial, Result
    <3>2. CASE kind = "page"
      BY <1>2, <1>3, <2>4, <3>2 DEF Initial, Result
    <3>3. CASE kind = "post"
      BY <2>2, <2>4, <3>3 DEF Initial
    <3>4. CASE kind = "headers"
      BY <1>2, <1>3, <2>4, <3>4 DEF Initial, Result
    <3>5. CASE kind = "body"
      BY <2>4, <3>5 DEF Initial, Result
    <3> QED
      BY <1>1, <3>1, <3>2, <3>3, <3>4, <3>5 DEF Kinds
  <2> QED
    BY <2>1, <2>2, <2>3, <2>4
<1>5. Text(result.handler, result.dynamic) \in Texts
  BY <1>4 DEF Text, Handler, Texts
<1> QED
  BY <1>5, <1>4, AnswersAssumption

\* _write sends an answer and changes nothing that is received.
LEMMA WrittenIs ==
    ASSUME NEW t \in Tcb, t.peer \in Clients, NEW datum \in Answers
    PROVE  LET w == Written(Work(t, {}, <<>>), datum) IN
           WorkOK(w) /\ Like(t, w.tcb)
<1> DEFINE sent == [t EXCEPT !.nxt = Plus(@, 1), !.wnd = @ - 1]
           old == Segment(t.peer, {"ACK"}, t.nxt, t.rcvNxt, <<datum>>)
<1>1. t.nxt \in Number /\ t.rcvNxt \in Number /\ t.wnd \in Int
  BY DEF Tcb
<1>2. Plus(t.nxt, 1) \in Number /\ t.wnd - 1 \in Int
  <2>1. t.nxt \in Int
    BY <1>1, NumberIs
  <2> QED
    BY <1>1, <2>1, PlusIsNumber
<1>3. sent \in Tcb /\ Like(t, sent)
  BY <1>2 DEF Tcb, Like
<1>4. old \in Out
  BY <1>1, OutHas DEF Control
<1> DEFINE w == Written(Work(t, {}, <<>>), datum)
<1>5. w \in {Work(t, {}, <<>>), Work(sent, {old}, <<>>)}
  BY DEF Written, Work
<1> HIDE DEF sent, old, w
<1>6. WorkOK(w) /\ Like(t, w.tcb)
  BY <1>3, <1>4, <1>5 DEF Work, WorkOK, Like
<1> QED
  BY <1>6 DEF w

\* What Run does, with what becomes of the TCB in the place of its writing
Ran(i, datum, t) ==
    /\ i \in Tcbs /\ Waits(i) /\ tcbs[i].peer \in Clients
    /\ datum = queue.entries[queue.tail].data /\ datum \in Message
    /\ t \in Tcb /\ t.state = tcbs[i].state /\ t.peer = tcbs[i].peer
    /\ t.rcvNxt = tcbs[i].rcvNxt /\ t.rcvWnd = FullWindow
    /\ tcbs' = [tcbs EXCEPT ![i] = t]
    /\ leaving' \subseteq Out
    /\ handlers' \in [Tcbs -> Handler] /\ dynamic' \in Texts
    /\ queue' = Dequeued
    /\ read' = [read EXCEPT ![tcbs[i].peer] = Append(@, datum)]
    /\ UNCHANGED <<opened, arriving, clients, before>>

\* Run in terms of what it does to the TCB
LEMMA RunIsRan ==
    ASSUME Inv, Run
    PROVE  \E i, datum, t : Ran(i, datum, t)
<1> DEFINE entry == queue.entries[queue.tail]
           i == entry.tcb
           datum == entry.data
           peer == tcbs[i].peer
<1>1. /\ ~NoData /\ queue \in Queue /\ entry # <<>>
      /\ tcbs \in [Tcbs -> Tcb] /\ handlers \in [Tcbs -> Handler]
      /\ dynamic \in Texts /\ leaving \subseteq Out
  BY DEF Run, Inv, TypeOK, TcpTypeOK, QueueHasTcb, Out
<1>2. entry \in [data : Message, tcb : Tcbs]
  BY <1>1 DEF Queue
<1>3. i \in Tcbs /\ datum \in Message /\ datum.kind \in Sort
  BY <1>2 DEF Message, Sort
<1>4. Waits(i)
  BY <1>1 DEF Waits
<1>5. tcbs[i].state \in {"ESTABLISHED", "LAST_ACK"}
  BY <1>3, <1>4 DEF Inv, Counts, QueueCounts
<1>6. tcbs[i] \in Tcb /\ peer \in Clients /\ peer # Nobody
  BY <1>1, <1>3, <1>5, ConstantTypes DEF Inv, TcbsAreDistinct, Tcb
<1>7. tcbs[i].rcvWnd = FullWindow - Mss
  BY <1>3, <1>4 DEF Inv, WindowsFit
<1> DEFINE start == [tcbs[i] EXCEPT !.rcvWnd = @ + Mss]
<1>8. /\ start \in Tcb /\ start.state = tcbs[i].state /\ start.peer = peer
      /\ start.rcvNxt = tcbs[i].rcvNxt /\ start.rcvWnd = FullWindow
  <2>1. FullWindow - Mss + Mss = FullWindow /\ FullWindow \in Int
    BY ConstantTypes DEF FullWindow, RxEntries
  <2> QED
    BY <1>6, <1>7, <2>1 DEF Tcb
<1>9. ReadBy(i)[i] = start
  BY <1>1, <1>3 DEF ReadBy
<1> HIDE DEF start
<1>10. PICK result \in HandleRequest(handlers[i], datum.kind, peer) :
          LET text == Text(result.handler, result.dynamic)
              work == IF result.answers
                      THEN Written(Work(ReadBy(i)[i], {}, <<>>), text)
                      ELSE Work(ReadBy(i)[i], {}, <<>>) IN
          /\ tcbs' = [tcbs EXCEPT ![i] = work.tcb]
          /\ leaving' = leaving \cup work.out
          /\ handlers' = [handlers EXCEPT ![i] = result.handler]
          /\ dynamic' = result.dynamic
  BY DEF Run
<1>11. handlers[i] \in Handler
  BY <1>1, <1>3
<1>12. /\ result.handler \in Handler /\ result.dynamic \in Texts
       /\ Text(result.handler, result.dynamic) \in Answers
  BY <1>1, <1>3, <1>6, <1>11, RequestIs
<1> DEFINE work == IF result.answers
                   THEN Written(Work(start, {}, <<>>),
                                Text(result.handler, result.dynamic))
                   ELSE Work(start, {}, <<>>)
<1>13. WorkOK(work) /\ Like(start, work.tcb)
  <2>1. CASE result.answers
    BY <1>6, <1>8, <1>12, <2>1, WrittenIs
  <2>2. CASE ~result.answers
    BY <1>8, <2>2 DEF Work, WorkOK, Like
  <2> QED
    BY <2>1, <2>2
<1>14. /\ tcbs' = [tcbs EXCEPT ![i] = work.tcb]
       /\ leaving' = leaving \cup work.out
  BY <1>9, <1>10
<1>15. /\ handlers' \in [Tcbs -> Handler] /\ dynamic' \in Texts
  BY <1>1, <1>10, <1>12
<1>16. /\ queue' = Dequeued
       /\ read' = [read EXCEPT ![peer] = Append(@, datum)]
       /\ UNCHANGED <<opened, arriving, clients, before>>
  BY <1>6 DEF Run
<1> HIDE DEF work
<1>17. Ran(i, datum, work.tcb)
  BY <1>1, <1>3, <1>4, <1>6, <1>8, <1>13, <1>14, <1>15, <1>16
  DEF Ran, WorkOK, Like
<1> QED
  BY <1>17

\* The ring is empty again.
LEMMA QueueGives ==
    ASSUME queue \in Queue, ~NoData, queue' = Dequeued
    PROVE  queue' \in Queue /\ NoData'
<1> DEFINE next == (queue.tail + 1) % RxEntries
<1>1. /\ queue.head \in {0, 1} /\ queue.tail \in {0, 1}
      /\ queue.head # queue.tail
  BY DEF Queue, RxEntries, NoData
<1>2. next = queue.head
  BY <1>1 DEF RxEntries
<1>3. queue' = [queue EXCEPT !.tail = next]
  BY DEF Dequeued
<1> HIDE DEF next
<1>4. queue'.tail = next /\ queue'.head = queue.head
  BY <1>3 DEF Queue
<1>5. queue' \in Queue
  BY <1>2, <1>3 DEF Queue
<1> QED
  BY <1>2, <1>4, <1>5 DEF NoData

\* The state that Run finds and leaves: the TCB's message was all that waited.
LEMMA RanTcbs ==
    ASSUME Inv, NEW i, NEW datum, NEW t, Ran(i, datum, t)
    PROVE  /\ queue' \in Queue /\ NoData'
           /\ tcbs' \in [Tcbs -> Tcb] /\ tcbs'[i] = t
           /\ \A j \in Tcbs : j # i => tcbs'[j] = tcbs[j]
           /\ \A j \in Tcbs : /\ tcbs'[j].state = tcbs[j].state
                              /\ tcbs'[j].peer = tcbs[j].peer
                              /\ tcbs'[j].rcvNxt = tcbs[j].rcvNxt
                              /\ tcbs'[j].rcvWnd = FullWindow
                              /\ ~Waits(j)'
                              /\ Waits(j) <=> j = i
<1>1. /\ queue \in Queue /\ tcbs \in [Tcbs -> Tcb] /\ WindowsFit
      /\ ~NoData /\ queue.entries[queue.tail].tcb = i
      /\ queue' = Dequeued
  BY DEF Inv, TypeOK, TcpTypeOK, Ran, Waits
<1>2. queue' \in Queue /\ NoData'
  BY <1>1, QueueGives
<1>3. /\ tcbs' \in [Tcbs -> Tcb] /\ tcbs'[i] = t
      /\ \A j \in Tcbs : j # i => tcbs'[j] = tcbs[j]
  BY <1>1 DEF Ran
<1>4. ASSUME NEW j \in Tcbs
      PROVE  ~Waits(j)' /\ (Waits(j) <=> j = i)
  BY <1>1, <1>2 DEF Waits
<1>5. ASSUME NEW j \in Tcbs
      PROVE  /\ tcbs'[j].state = tcbs[j].state /\ tcbs'[j].peer = tcbs[j].peer
             /\ tcbs'[j].rcvNxt = tcbs[j].rcvNxt
             /\ tcbs'[j].rcvWnd = FullWindow
  <2>1. CASE j = i
    BY <1>3, <2>1 DEF Ran
  <2>2. CASE j # i
    BY <1>1, <1>3, <1>4, <2>2 DEF WindowsFit
  <2> QED
    BY <2>1, <2>2
<1> QED
  BY <1>2, <1>3, <1>4, <1>5

\* Reading a message keeps the types.
LEMMA RanKeepsTypes ==
    ASSUME Inv, NEW i, NEW datum, NEW t, Ran(i, datum, t)
    PROVE  TypeOK'
<1>1. TypeOK /\ queue' \in Queue /\ tcbs' \in [Tcbs -> Tcb]
      /\ \A j \in Tcbs : tcbs'[j].rcvWnd = FullWindow
  BY RanTcbs DEF Inv
<1>2. read' \in [Clients -> Seq(Message)]
  <2>1. read \in [Clients -> Seq(Message)] /\ datum \in Message
        /\ tcbs[i].peer \in Clients
    BY <1>1 DEF TypeOK, Ran
  <2>2. Append(read[tcbs[i].peer], datum) \in Seq(Message)
    BY <2>1
  <2> QED
    BY <2>1, <2>2 DEF Ran
<1> QED
  BY <1>1, <1>2 DEF Ran, TypeOK, TcpTypeOK, Out

\* Reading a message keeps the TCBs apart and opens the window.
LEMMA RanKeepsTcbs ==
    ASSUME Inv, NEW i, NEW datum, NEW t, Ran(i, datum, t)
    PROVE  TcbsAreDistinct' /\ QueueHasTcb' /\ WindowsFit'
<1>1. /\ NoData'
      /\ \A j \in Tcbs : /\ tcbs'[j].state = tcbs[j].state
                         /\ tcbs'[j].peer = tcbs[j].peer
                         /\ tcbs'[j].rcvWnd = FullWindow
                         /\ ~Waits(j)'
  BY RanTcbs
<1>2. TcbsAreDistinct
  BY DEF Inv
<1> QED
  BY <1>1, <1>2 DEF TcbsAreDistinct, QueueHasTcb, WindowsFit

\* The message that was read is the next one of its client.
LEMMA RanReads ==
    ASSUME Inv, NEW i, NEW datum, NEW t, Ran(i, datum, t)
    PROVE  LET c == tcbs[i].peer IN
           /\ Count(c) \in Nat /\ Count(c) + 1 <= Len(clients[c].sent)
           /\ Len(read'[c]) - before'[c] = Count(c) + 1
           /\ \A d \in Clients : d # c =>
                 Count(d)' = Count(d) /\ read'[d] = read[d]
           /\ \A n \in 1 .. Count(c) + 1 :
                 read'[c][before[c] + n]
                     = [n |-> n, kind |-> clients[c].sent[n]]
<1> DEFINE c == tcbs[i].peer
           q == read[c]
<1>1. /\ c \in Clients /\ datum \in Message /\ i \in Tcbs /\ Waits(i)
      /\ datum = queue.entries[queue.tail].data
      /\ read' = [read EXCEPT ![c] = Append(@, datum)] /\ before' = before
  BY DEF Ran
<1>2. read \in [Clients -> Seq(Message)] /\ before \in [Clients -> Nat]
  BY DEF Inv, TypeOK
<1>3. /\ datum.n = Count(c) + 1 /\ datum.n \in 1 .. Len(clients[c].sent)
      /\ datum.kind = clients[c].sent[datum.n]
  BY <1>1 DEF Inv, Counts, QueueCounts, IsMessage
<1>4. /\ Count(c) \in 0 .. Len(clients[c].sent)
      /\ \A n \in 1 .. Count(c) :
            q[before[c] + n] = [n |-> n, kind |-> clients[c].sent[n]]
  BY <1>1 DEF Inv, Counts, ReadCounts
<1>5. Len(clients[c].sent) \in Nat
  BY <1>1, ClientIs DEF Inv, TypeOK, TcpTypeOK
<1>6. q \in Seq(Message) /\ before[c] \in Nat /\ Len(q) \in Nat
      /\ Count(c) = Len(q) - before[c]
  BY <1>1, <1>2 DEF Count
<1>7. /\ read'[c] = Append(q, datum)
      /\ \A d \in Clients : d # c => read'[d] = read[d]
  BY <1>1, <1>2
<1>8. datum = [n |-> Count(c) + 1, kind |-> clients[c].sent[Count(c) + 1]]
  BY <1>1, <1>3 DEF Message
<1>9. \A d \in Clients : d # c => Count(d)' = Count(d)
  BY <1>1, <1>7 DEF Count
<1> HIDE DEF c, q
<1>10. /\ Len(Append(q, datum)) = Len(q) + 1
       /\ Append(q, datum)[Len(q) + 1] = datum
       /\ \A k \in 1 .. Len(q) : Append(q, datum)[k] = q[k]
  BY <1>1, <1>6
<1>11. Len(read'[c]) - before[c] = Count(c) + 1
  BY <1>6, <1>7, <1>10
<1>12. ASSUME NEW n \in 1 .. Count(c) + 1
       PROVE  read'[c][before[c] + n] = [n |-> n, kind |-> clients[c].sent[n]]
  <2>1. CASE n = Count(c) + 1
    <3>1. before[c] + n = Len(q) + 1
      BY <1>6, <2>1
    <3> QED
      BY <1>7, <1>8, <1>10, <2>1, <3>1
  <2>2. CASE n # Count(c) + 1
    <3>1. n \in 1 .. Count(c) /\ before[c] + n \in 1 .. Len(q)
      BY <1>4, <1>5, <1>6, <2>2
    <3> QED
      BY <1>4, <1>7, <1>10, <3>1
  <2> QED
    BY <2>1, <2>2
<1>13. Count(c) \in Nat /\ Count(c) + 1 <= Len(clients[c].sent)
  BY <1>3, <1>4, <1>5
<1>14. Len(read'[tcbs[i].peer]) - before'[tcbs[i].peer] = Count(c) + 1
  BY <1>1, <1>11 DEF c
<1> QED
  BY <1>7, <1>9, <1>12, <1>13, <1>14 DEF c

\* Reading a message keeps the counts.
LEMMA RanKeepsCounts ==
    ASSUME Inv, NEW i, NEW datum, NEW t, Ran(i, datum, t)
    PROVE  Counts'
<1>1. TcbsAreDistinct /\ Counts /\ tcbs \in [Tcbs -> Tcb]
      /\ i \in Tcbs /\ tcbs[i].peer \in Clients
      /\ UNCHANGED <<arriving, clients, before>>
  BY DEF Inv, TypeOK, TcpTypeOK, Ran
<1>2. \A j \in Tcbs : /\ tcbs'[j].state = tcbs[j].state
                      /\ tcbs'[j].peer = tcbs[j].peer
                      /\ tcbs'[j].rcvNxt = tcbs[j].rcvNxt
                      /\ ~Waits(j)'
                      /\ Waits(j) <=> j = i
  BY RanTcbs
<1> DEFINE c == tcbs[i].peer
<1>3. /\ Count(c) \in Nat /\ Count(c) + 1 <= Len(clients[c].sent)
      /\ Len(read'[c]) - before'[c] = Count(c) + 1
      /\ \A d \in Clients : d # c => Count(d)' = Count(d) /\ read'[d] = read[d]
      /\ \A n \in 1 .. Count(c) + 1 :
            read'[c][before[c] + n] = [n |-> n, kind |-> clients[c].sent[n]]
  BY RanReads
<1>4. ASSUME NEW j \in Tcbs, tcbs'[j].state # "LISTEN"
      PROVE  TcbCounts(tcbs'[j], clients[tcbs'[j].peer], Done(j)')
  <2>1. tcbs[j].state # "LISTEN" /\ tcbs[j].peer \in Clients
        /\ tcbs[j].peer # Nobody
    BY <1>1, <1>2, <1>4 DEF TcbsAreDistinct, Tcb
  <2>2. Done(j)' = Done(j)
    <3>1. CASE j = i
      <4>1. tcbs'[j].peer = c /\ ~Waits(j)' /\ Waits(j)
        BY <1>2, <3>1
      <4>2. Done(j) = Count(c) + 1
        BY <3>1, <4>1 DEF Done
      <4>3. Done(j)' = (Len(read'[c]) - before'[c]) + 0
        BY <4>1 DEF Done, Count
      <4>4. (Len(read'[c]) - before'[c]) + 0 = Count(c) + 1
        BY <1>3
      <4> QED
        BY <4>2, <4>3, <4>4
    <3>2. CASE j # i
      <4>1. tcbs[j].peer # c
        BY <1>1, <2>1, <3>2 DEF TcbsAreDistinct
      <4>2. /\ read'[tcbs[j].peer] = read[tcbs[j].peer]
            /\ before'[tcbs[j].peer] = before[tcbs[j].peer]
        BY <1>1, <1>3, <2>1, <4>1
      <4> QED
        BY <1>2, <3>2, <4>2 DEF Done, Count
    <3> QED
      BY <3>1, <3>2
  <2>3. TcbCounts(tcbs[j], clients[tcbs[j].peer], Done(j))
    BY <1>1, <2>1 DEF Counts
  <2> QED
    BY <1>2, <2>2, <2>3 DEF TcbCounts
<1>5. QueueCounts'
  BY <1>2 DEF QueueCounts
<1>6. ReadCounts'
  <2>1. ASSUME NEW d \in Clients
        PROVE  LET count == Len(read'[d]) - before'[d] IN
               /\ count \in 0 .. Len(clients[d].sent)
               /\ \A n \in 1 .. count :
                     read'[d][before'[d] + n]
                         = [n |-> n, kind |-> clients[d].sent[n]]
    <3>1. Len(clients[d].sent) \in Nat
      BY ClientIs DEF Inv, TypeOK, TcpTypeOK
    <3>2. CASE d = c
      <4>1. Count(c) + 1 \in 0 .. Len(clients[d].sent)
        BY <1>3, <3>1, <3>2
      <4> QED
        BY <1>1, <1>3, <3>2, <4>1
    <3>3. CASE d # c
      BY <1>1, <1>3, <3>3, SMTT(60) DEF Counts, ReadCounts, Count
    <3> QED
      BY <3>2, <3>3
  <2> QED
    BY <1>1, <2>1 DEF ReadCounts, Count
<1> QED
  BY <1>1, <1>4, <1>5, <1>6 DEF Counts

\* A turn of the web server keeps the invariant.
LEMMA RunKeeps ==
    ASSUME Inv, Run
    PROVE  Inv'
<1>1. PICK i, datum, t : Ran(i, datum, t)
  BY RunIsRan
<1> QED
  BY <1>1, RanKeepsTypes, RanKeepsTcbs, RanKeepsCounts DEF Inv

-----------------------------------------------------------------------------
(* The theorems *)

\* At the start all TCBs are free and all clients closed.
LEMMA InitInv ==
    ASSUME Init
    PROVE  Inv
<1>1. /\ opened = 0 /\ tcbs = [i \in Tcbs |-> InitTcb]
      /\ queue = [head |-> 0, tail |-> 0,
                  entries |-> [e \in 0 .. RxEntries - 1 |-> <<>>]]
      /\ arriving = {} /\ leaving = {}
      /\ clients = [c \in Clients |-> [state |-> "CLOSED", nxt |-> ClientIss,
                                       rcv |-> 0, sent |-> <<>>]]
      /\ read = [c \in Clients |-> <<>>] /\ before = [c \in Clients |-> 0]
      /\ handlers = [i \in Tcbs |-> NewHandler] /\ dynamic = "null"
  BY DEF Init, TcpInit
<1>2. NoData /\ queue \in Queue
  BY <1>1 DEF NoData, Queue, RxEntries
<1>3. /\ InitTcb \in Tcb /\ InitTcb.state = "LISTEN"
      /\ InitTcb.peer = Nobody /\ Full(InitTcb)
  BY <1>1, InitTcbIs
<1>4. /\ tcbs \in [Tcbs -> Tcb]
      /\ \A i \in Tcbs : /\ tcbs[i].state = "LISTEN"
                         /\ tcbs[i].peer = Nobody /\ Full(tcbs[i])
  BY <1>1, <1>3
<1> DEFINE cl == [state |-> "CLOSED", nxt |-> ClientIss, rcv |-> 0,
                  sent |-> <<>>]
<1>5. Len(<<>>) = 0 /\ <<>> \in Seq(Sort)
  OBVIOUS
<1>6. <<>> \in UNION {[1 .. n -> Sort] : n \in 0 .. MaxMessages}
  <2>1. Len(<<>>) <= MaxMessages
    BY <1>5, ConstantTypes
  <2> QED
    BY <1>5, <2>1, SentIsTyped
<1>7. cl \in Client
  <2>1. ClientIss \in Number /\ 0 \in Number
    BY ConstantTypes DEF Number
  <2> QED
    BY <1>6, <2>1 DEF Client, Sort
<1>8. ClientCounts(cl)
  <2>1. At(0) = ClientIss
    BY AtIs, ConstantTypes
  <2> QED
    BY <2>1 DEF ClientCounts
<1>9. /\ clients \in [Clients -> Client]
      /\ \A c \in Clients : clients[c] = cl
  BY <1>1, <1>7
<1>10. NewHandler \in Handler /\ "null" \in Texts
  BY DEF NewHandler, Handler, Texts
<1>11. TypeOK
  <2>1. opened \in 0 .. MaxOpens
    BY <1>1, ConstantTypes
  <2>2. read \in [Clients -> Seq(Message)] /\ before \in [Clients -> Nat]
    BY <1>1
  <2>3. handlers \in [Tcbs -> Handler] /\ dynamic \in Texts
    BY <1>1, <1>10
  <2>4. /\ arriving \subseteq SegmentOf(Message)
        /\ leaving \subseteq SegmentOf(Answers)
    BY <1>1
  <2> QED
    BY <1>2, <1>4, <1>9, <2>1, <2>2, <2>3, <2>4 DEF TypeOK, TcpTypeOK, Full
<1>12. TcbsAreDistinct /\ QueueHasTcb /\ WindowsFit
  BY <1>2, <1>4 DEF TcbsAreDistinct, QueueHasTcb, WindowsFit, Waits, Full
<1>13. ReadCounts
  <2>1. ASSUME NEW c \in Clients
        PROVE  Count(c) = 0 /\ 0 \in 0 .. Len(clients[c].sent)
    <3>1. Count(c) = 0 - 0
      BY <1>1, <1>5 DEF Count
    <3>2. Len(clients[c].sent) = 0
      BY <1>5, <1>9
    <3> QED
      BY <3>1, <3>2
  <2> QED
    BY <2>1 DEF ReadCounts
<1>14. Counts
  BY <1>1, <1>2, <1>4, <1>8, <1>9, <1>13 DEF Counts, QueueCounts, Waits
<1> QED
  BY <1>11, <1>12, <1>14 DEF Inv

\* Every step keeps the invariant.
LEMMA InvStep ==
    ASSUME Inv, [Next]_vars
    PROVE  Inv'
<1>1. CASE Transport
  <2>1. UNCHANGED <<handlers, dynamic, posted>>
    BY <1>1 DEF Transport
  <2>2. CASE ClientStep
    BY <2>1, <2>2, ClientStepKeeps
  <2>3. CASE \E seg \in arriving : Handle(seg)
    BY <2>1, <2>3, HandleKeeps
  <2> QED
    BY <1>1, <2>2, <2>3 DEF Transport
<1>2. CASE Run
  BY <1>2, RunKeeps
<1>3. CASE UNCHANGED vars
  BY <1>3 DEF vars, tcpVars, Inv, TypeOK, TcpTypeOK, TcbsAreDistinct,
              QueueHasTcb, WindowsFit, Waits, NoData, Counts, QueueCounts,
              ReadCounts, Done, Count
<1> QED
  BY <1>1, <1>2, <1>3 DEF Next

\* The inductive invariant holds in every state.
THEOREM WebInvariant == Spec => []Inv
<1>1. Init => Inv
  BY InitInv
<1>2. Inv /\ [Next]_vars => Inv'
  BY InvStep
<1> QED
  BY <1>1, <1>2, PTL DEF Spec

\* Type correctness of the TCP and of the web server on it.
THEOREM WebTypeCorrect == Spec => []TypeOK
<1>1. Inv => TypeOK
  BY DEF Inv
<1> QED
  BY <1>1, WebInvariant, PTL

\* What an established connection has acknowledged has been read or waits.
THEOREM ConnectionsKeepAcknowledged == Spec => []AcknowledgedIsKept
<1>1. ASSUME Inv, NEW i \in Tcbs, tcbs[i].state = "ESTABLISHED"
      PROVE  AckedBy(i) = Received(i)
  <2> DEFINE cl == clients[tcbs[i].peer]
             len == Len(cl.sent)
  <2>1. cl \in Client /\ TcbCounts(tcbs[i], cl, Done(i))
    <3>1. tcbs[i].peer \in Clients
      BY <1>1 DEF Inv, TypeOK, TcpTypeOK, TcbsAreDistinct, Tcb
    <3> QED
      BY <1>1, <3>1 DEF Inv, TypeOK, TcpTypeOK, Counts
  <2>2. Done(i) \in 0 .. len /\ tcbs[i].rcvNxt = At(Done(i) + 1)
    BY <1>1, <2>1 DEF TcbCounts
  <2>3. len \in Nat /\ len + 2 <= Last /\ Last \in Nat
    BY <2>1, ClientIs, ConstantTypes DEF Last
  <2>4. Done(i) + 1 \in 0 .. Last /\ 1 \in 0 .. Last /\ Done(i) \in Int
    BY <2>2, <2>3
  <2>5. Minus(At(Done(i) + 1), At(1)) = Done(i) + 1 - 1
    BY <2>4, Distance
  <2>6. AckedBy(i) = Done(i)
    BY <2>2, <2>4, <2>5 DEF AckedBy, At
  <2> QED
    BY <2>6 DEF Received, Done, Count, Waits
<1>2. Inv => AcknowledgedIsKept
  BY <1>1 DEF AcknowledgedIsKept
<1> QED
  BY <1>2, WebInvariant, PTL

\* The server acknowledges nothing that the client has not sent.
THEOREM AcknowledgesOnlySent == Spec => []AcknowledgesSent
<1>1. ASSUME Inv PROVE AcknowledgesSent
  <2>1. SUFFICES ASSUME NEW i \in Tcbs, tcbs[i].peer # Nobody
                 PROVE  ~Unsent(tcbs[i].peer, tcbs[i].rcvNxt)
    BY DEF AcknowledgesSent
  <2> DEFINE cl == clients[tcbs[i].peer]
             len == Len(cl.sent)
  <2>2. /\ tcbs[i].state \in InUse /\ tcbs[i].peer \in Clients
        /\ cl \in Client /\ ClientCounts(cl)
        /\ TcbCounts(tcbs[i], cl, Done(i))
    <3>1. tcbs[i].state \in InUse /\ tcbs[i].peer \in Clients
      BY <1>1, <2>1
      DEF Inv, TypeOK, TcpTypeOK, TcbsAreDistinct, Tcb, InUse
    <3>2. tcbs[i].state # "LISTEN"
      BY <3>1 DEF InUse
    <3> QED
      BY <1>1, <3>1, <3>2 DEF Inv, TypeOK, TcpTypeOK, Counts
  <2> HIDE DEF cl
  <2>3. len \in Nat /\ len + 2 <= Last /\ Last \in Nat
    BY <2>2, ClientIs, ConstantTypes DEF Last
  <2>4. /\ cl.state # "CLOSED"
        /\ \/ HasClosed(cl) /\ cl.nxt = At(len + 2)
           \/ cl.nxt = At(len + 1)
    BY <2>2, ClientIs DEF TcbCounts, ClientCounts, HasClosed, InUse
  <2>5. \/ \E k \in 1 .. len + 1 : tcbs[i].rcvNxt = At(k)
        \/ /\ HasClosed(cl) /\ cl.nxt = At(len + 2)
           /\ \E k \in 1 .. len + 2 : tcbs[i].rcvNxt = At(k)
    <3>1. CASE tcbs[i].state = "LAST_ACK"
      BY <2>2, <3>1 DEF TcbCounts, HasClosed
    <3>2. CASE tcbs[i].state \in {"SYN_RECEIVED", "ESTABLISHED"}
      <4>1. Done(i) \in 0 .. len /\ tcbs[i].rcvNxt = At(Done(i) + 1)
        BY <2>2, <3>2 DEF TcbCounts
      <4>2. Done(i) + 1 \in 1 .. len + 1
        BY <2>3, <4>1
      <4> QED
        BY <4>1, <4>2
    <3> QED
      BY <2>2, <3>1, <3>2 DEF InUse
  <2>6. \E k \in 0 .. Last, m \in 0 .. Last :
            k <= m /\ tcbs[i].rcvNxt = At(k) /\ cl.nxt = At(m)
    <3>1. len + 1 \in 0 .. Last /\ len + 2 \in 0 .. Last
      BY <2>3
    <3>2. CASE \E k \in 1 .. len + 1 : tcbs[i].rcvNxt = At(k)
      <4>1. PICK k \in 1 .. len + 1 : tcbs[i].rcvNxt = At(k)
        BY <3>2
      <4>2. k \in 0 .. Last /\ k <= len + 1 /\ k <= len + 2
        BY <2>3, <4>1
      <4> QED
        BY <2>4, <3>1, <4>1, <4>2
    <3>3. CASE /\ cl.nxt = At(len + 2)
               /\ \E k \in 1 .. len + 2 : tcbs[i].rcvNxt = At(k)
      <4>1. PICK k \in 1 .. len + 2 : tcbs[i].rcvNxt = At(k)
        BY <3>3
      <4>2. k \in 0 .. Last /\ k <= len + 2
        BY <2>3, <4>1
      <4> QED
        BY <3>1, <3>3, <4>1, <4>2
    <3> QED
      BY <2>5, <3>2, <3>3
  <2>7. PICK k \in 0 .. Last, m \in 0 .. Last :
            k <= m /\ tcbs[i].rcvNxt = At(k) /\ cl.nxt = At(m)
    BY <2>6
  <2>8. Minus(At(k), At(m)) = k - m
    BY Distance
  <2>9. ~(Minus(tcbs[i].rcvNxt, cl.nxt) > 0)
    BY <2>7, <2>8, ConstantTypes
  <2> QED
    BY <2>9 DEF Unsent, cl
<1> QED
  BY <1>1, WebInvariant, PTL

\* Of a connection the application reads the messages in order and once.
THEOREM ConnectionsReadInOrder == Spec => []ReadsInOrder
<1>1. Inv => ReadsInOrder
  BY DEF Inv, Counts, ReadCounts, Count, ReadsInOrder
<1> QED
  BY <1>1, WebInvariant, PTL
=============================================================================
