--------------------------- MODULE NetworkProofs ---------------------------
(***************************************************************************)
(* Proofs about the network interface.  First its address alone, for every *)
(* number of servers, addresses, tries, probes, announcements, timers and  *)
(* commands.  Then the interface: what is proved of the address holds of   *)
(* the whole, and no group of the table goes unreported.                   *)
(***************************************************************************)
EXTENDS Network, TLAPS

-----------------------------------------------------------------------------
(* The inductive invariant *)

\* The DHCP client: who waits has its timeout, a transaction and a DISCOVER of
\* it that the servers know; who requests holds an offer of the server it names.
Waits == {"SELECTING", "REQUESTING"}

ClientInv ==
    /\ dhcp.state \in Waits => /\ dhcp.armed
                               /\ dhcp.tries > 0
                               /\ dhcp.xid \in 1 .. MaxXid
                               /\ dhcp.xid \in sent.discovers
    /\ dhcp.state = "REQUESTING" => /\ dhcp.server \in Servers
                                    /\ dhcp.offered = dhcp.server

\* Entries of the timer table: each start of the detector takes at most one,
\* and the first client has its own.
TimersInv ==
    /\ acd.timer => timers.acd > 0
    /\ timers.acd <= commands + 1
    /\ FreeTimers > MaxCommands /\ dhcp.state # "NONE" => timers.dhcp > 0

\* A start of the detector ends in one counted conflict at most.
Contestable == Probing \cup {"ANNOUNCING", "ONGOING"}

ConflictsInv ==
    acd.conflicts <= IF acd.state \in Contestable THEN commands ELSE commands + 1

\* Seconds until the last announcement.
Remaining(d) == d.ttw + (AnnounceNum - 1 - d.sent) * AnnounceInterval

\* What was heard of the address that is probed for and announced.  Who objected
\* to an announcement is remembered longer than the announcing lasts.
ClaimInv ==
    /\ acd.state \in Probing => claim.contest = "none"
    /\ acd.state \in {"ANNOUNCE_WAIT", "ANNOUNCING"} => claim.probed
    /\ acd.state = "ANNOUNCE_WAIT" => acd.sent = 0
    /\ acd.state = "ANNOUNCING" =>
           /\ acd.ttw > 0
           /\ acd.sent < AnnounceNum
           /\ Remaining(acd) <= DefendInterval
           /\ claim.contest # "lost"
           /\ claim.contest = "defended" => acd.lastconflict >= Remaining(acd)

IInv == TypeOK /\ ClientInv /\ RequestNamesOffer /\ TimersInv /\ ConflictsInv
            /\ ClaimInv

-----------------------------------------------------------------------------
(* The client's operations *)

Waiting(d) == /\ d \in Clients
              /\ d.armed
              /\ d.tries > 0

States == {"NONE", "INIT", "SELECTING", "REQUESTING", "BOUND", "BACKING_OFF"}

LEMMA ClientWith ==
    ASSUME NEW d \in Clients, NEW state \in States,
           NEW tries \in 0 .. RequestTries + 1, NEW armed \in BOOLEAN
    PROVE  [d EXCEPT !.state = state, !.tries = tries, !.armed = armed] \in Clients
  BY DEF Clients, States

LEMMA SetStateType ==
    ASSUME NEW d \in Clients, NEW state \in States
    PROVE  /\ SetState(d, state) \in Clients
           /\ SetState(d, state).state = state
           /\ SetState(d, state).xid = d.xid
           /\ SetState(d, state).server = d.server
           /\ SetState(d, state).offered = d.offered
           /\ d.state # state => SetState(d, state).tries = 0
           /\ d.state = state => SetState(d, state).tries = d.tries
  <1>1. 0 \in 0 .. RequestTries + 1
    BY BoundsAssumption
  <1>2. SetState(d, state) \in Clients
    BY <1>1, ClientWith DEF SetState
  <1>3. /\ SetState(d, state).state = state
        /\ SetState(d, state).xid = d.xid
        /\ SetState(d, state).server = d.server
        /\ SetState(d, state).offered = d.offered
        /\ d.state # state => SetState(d, state).tries = 0
        /\ d.state = state => SetState(d, state).tries = d.tries
    BY DEF SetState, Clients
  <1> QED
    BY <1>2, <1>3

LEMMA TriedType ==
    ASSUME NEW d \in Clients
    PROVE  /\ Waiting(Tried(d))
           /\ Tried(d).state = d.state
           /\ Tried(d).xid = d.xid
           /\ Tried(d).server = d.server
           /\ Tried(d).offered = d.offered
  <1> DEFINE tries == IF d.tries <= RequestTries THEN d.tries + 1 ELSE d.tries
  <1>1. tries \in 0 .. RequestTries + 1 /\ tries > 0
    BY BoundsAssumption DEF Clients
  <1> HIDE DEF tries
  <1>2. Tried(d) = [d EXCEPT !.tries = tries, !.armed = TRUE]
    BY DEF Tried, tries
  <1>3. d.state \in States
    BY DEF Clients, States
  <1>4. Tried(d) = [d EXCEPT !.state = d.state, !.tries = tries, !.armed = TRUE]
    BY <1>2 DEF Clients
  <1>5. Tried(d) \in Clients
    BY <1>1, <1>3, <1>4, ClientWith, ZenonT(60)
  <1>6. /\ Tried(d).armed /\ Tried(d).tries = tries
        /\ Tried(d).state = d.state /\ Tried(d).xid = d.xid
        /\ Tried(d).server = d.server /\ Tried(d).offered = d.offered
    BY <1>2 DEF Clients
  <1> QED
    BY <1>1, <1>5, <1>6 DEF Waiting

LEMMA SelectType ==
    ASSUME NEW d \in Clients
    PROVE  /\ Waiting(Select(d))
           /\ Select(d).state = "REQUESTING"
           /\ Select(d).xid = d.xid
           /\ Select(d).server = d.server
           /\ Select(d).offered = d.offered
  BY SetStateType, TriedType DEF Select, States

\* A DISCOVER begins a transaction unless it repeats one.
LEMMA DiscoverType ==
    ASSUME NEW d \in Clients, d.state # "SELECTING" => d.xid < MaxXid,
           d.state = "SELECTING" => d.tries > 0 /\ d.xid \in 1 .. MaxXid
    PROVE  /\ Waiting(Discover(d))
           /\ Discover(d).state = "SELECTING"
           /\ Discover(d).xid \in 1 .. MaxXid
  <1> DEFINE forgot == [d EXCEPT !.offered = IP4_ANY]
             selecting == SetState(forgot, "SELECTING")
             begun == [selecting EXCEPT
                           !.xid = IF selecting.tries = 0 THEN @ + 1 ELSE @]
  <1>1. /\ forgot \in Clients
        /\ forgot.state = d.state /\ forgot.tries = d.tries
        /\ forgot.xid = d.xid
    BY DEF Clients
  <1> HIDE DEF forgot
  <1>2. /\ selecting \in Clients
        /\ selecting.state = "SELECTING"
        /\ selecting.xid = d.xid
        /\ d.state # "SELECTING" => selecting.tries = 0
        /\ d.state = "SELECTING" => selecting.tries = d.tries
    BY <1>1, SetStateType DEF States
  <1> HIDE DEF selecting
  <1>3. begun.xid \in 1 .. MaxXid
    BY <1>2, CountsAssumption DEF Clients
  <1>4. begun \in Clients /\ begun.state = "SELECTING"
    BY <1>2, <1>3 DEF Clients
  <1> HIDE DEF begun
  <1>5. Discover(d) = Tried(begun)
    BY DEF Discover, begun, selecting, forgot
  <1> QED
    BY <1>3, <1>4, <1>5, TriedType

LEMMA NoClientType == /\ NoClient \in Clients
                      /\ NoClient.state = "NONE"
                      /\ NoClient.xid = 0
  BY BoundsAssumption, CountsAssumption DEF NoClient, Clients

LEMMA FirstDiscover == /\ Waiting(Discover(NoClient))
                       /\ Discover(NoClient).state = "SELECTING"
                       /\ Discover(NoClient).xid \in 1 .. MaxXid
  BY NoClientType, DiscoverType, CountsAssumption

-----------------------------------------------------------------------------
(* The messages *)

SentType == sent \in [discovers : SUBSET (1 .. MaxXid), requests : SUBSET Requests]

\* What the steps of the client have to show.
ClientOK == /\ dhcp \in Clients
            /\ SentType
            /\ ClientInv
            /\ RequestNamesOffer

LEMMA SendDiscoverOK ==
    ASSUME ClientOK, NEW d \in Clients, SendDiscover(d),
           d.state # "SELECTING" => d.xid < MaxXid,
           d.state = "SELECTING" => d.tries > 0 /\ d.xid \in 1 .. MaxXid
    PROVE  ClientOK' /\ dhcp'.state = "SELECTING"
  <1>1. /\ Waiting(dhcp')
        /\ dhcp'.state = "SELECTING"
        /\ dhcp'.xid \in 1 .. MaxXid
    BY DiscoverType DEF SendDiscover
  <1>2. /\ SentType'
        /\ sent'.requests = sent.requests
        /\ sent'.discovers = sent.discovers \cup {dhcp'.xid}
    BY <1>1 DEF SendDiscover, ClientOK, SentType
  <1>3. RequestNamesOffer'
    BY <1>2 DEF RequestNamesOffer, ClientOK
  <1>4. ClientInv'
    BY <1>1, <1>2 DEF ClientInv, Waiting
  <1> QED
    BY <1>1, <1>2, <1>3, <1>4 DEF ClientOK, Waiting

LEMMA SendRequestOK ==
    ASSUME ClientOK, NEW d \in Clients, SendRequest(d),
           d.xid \in 1 .. MaxXid, d.xid \in sent.discovers,
           d.server \in Servers, d.offered = d.server
    PROVE  ClientOK' /\ dhcp'.state = "REQUESTING"
  <1> DEFINE request == [xid |-> d.xid, server |-> d.server,
                         address |-> d.offered]
  <1>1. /\ Waiting(dhcp')
        /\ dhcp'.state = "REQUESTING"
        /\ dhcp'.xid = d.xid
        /\ dhcp'.server = d.server
        /\ dhcp'.offered = d.offered
    BY SelectType DEF SendRequest
  <1>2. /\ request \in Requests
        /\ request.server = request.address
        /\ request.xid \in sent.discovers
    BY DEF Requests
  <1> HIDE DEF request
  <1>3. sent' = [sent EXCEPT !.requests = @ \cup {request}]
    BY DEF SendRequest, request
  <1>4. /\ SentType'
        /\ sent'.requests = sent.requests \cup {request}
        /\ sent'.discovers = sent.discovers
    BY <1>2, <1>3 DEF ClientOK, SentType
  <1>5. RequestNamesOffer'
    BY <1>2, <1>4 DEF RequestNamesOffer, ClientOK
  <1>6. ClientInv'
    BY <1>1, <1>4 DEF ClientInv, Waiting
  <1> QED
    BY <1>1, <1>4, <1>5, <1>6 DEF ClientOK, Waiting

LEMMA UnsentOK ==
    ASSUME ClientOK, UNCHANGED sent, dhcp' \in Clients, dhcp'.state \notin Waits
    PROVE  ClientOK'
  BY DEF ClientOK, SentType, ClientInv, RequestNamesOffer, Waits

LEMMA HeardType ==
    ASSUME ClientOK, NEW s \in Servers
    PROVE  /\ Heard(s) \in Clients
           /\ Heard(s).state = dhcp.state
           /\ Heard(s).xid = dhcp.xid
           /\ Heard(s).server = s
           /\ Heard(s).armed = dhcp.armed
           /\ Heard(s).tries = dhcp.tries
  BY DEF Heard, ClientOK, Clients

\* Start and Stop
LEMMA StartOK ==
    ASSUME ClientOK, NEW isNew \in BOOLEAN, Start(isNew)
    PROVE  ClientOK' /\ dhcp'.state # "NONE"
  <1>1. CASE link
    BY <1>1, NoClientType, CountsAssumption, SendDiscoverOK DEF Start
  <1>2. CASE ~ link
    <2>1. /\ dhcp' \in Clients
          /\ dhcp'.state = "INIT"
      BY <1>2, NoClientType, SetStateType DEF Start, States
    <2> QED
      BY <1>2, <2>1, UnsentOK DEF Start, Waits
  <1> QED
    BY <1>1, <1>2

LEMMA StopOK ==
    ASSUME ClientOK, Stop, UNCHANGED sent
    PROVE  ClientOK' /\ dhcp'.state = "NONE"
  BY NoClientType, UnsentOK DEF Stop, Waits

LEMMA DhcpTimerOK ==
    ASSUME ClientOK, DhcpTimer
    PROVE  ClientOK' /\ dhcp'.state # "NONE"
  <1> DEFINE d == [dhcp EXCEPT !.armed = FALSE]
  <1>1. /\ d \in Clients
        /\ d.state = dhcp.state /\ d.tries = dhcp.tries
        /\ d.xid = dhcp.xid
        /\ d.server = dhcp.server /\ d.offered = dhcp.offered
    BY DEF ClientOK, Clients
  <1>2. CASE dhcp.state = "SELECTING" /\ SendDiscover(d)
    <2>1. d.tries > 0 /\ d.xid \in 1 .. MaxXid
      BY <1>1, <1>2 DEF ClientOK, ClientInv, Waits
    <2> HIDE DEF d
    <2> QED
      BY <1>1, <1>2, <2>1, SendDiscoverOK
  <1>3. CASE dhcp.state = "REQUESTING" /\ SendRequest(d)
    <2>1. /\ d.xid \in 1 .. MaxXid /\ d.xid \in sent.discovers
          /\ d.server \in Servers /\ d.offered = d.server
      BY <1>1, <1>3 DEF ClientOK, ClientInv, Waits
    <2> HIDE DEF d
    <2> QED
      BY <1>1, <1>3, <2>1, SendRequestOK
  <1>4. CASE Start(TRUE)
    BY <1>4, StartOK
  <1> QED
    BY <1>2, <1>3, <1>4 DEF DhcpTimer

LEMMA OfferOK ==
    ASSUME ClientOK, NEW s \in Servers, Offer(s)
    PROVE  ClientOK' /\ dhcp'.state # "NONE"
  <1> DEFINE heard == [Heard(s) EXCEPT !.offered = s]
             d == [heard EXCEPT !.armed = FALSE]
  <1>1. /\ heard \in Clients
        /\ heard.state = dhcp.state
        /\ heard.xid = dhcp.xid
        /\ heard.server = s /\ heard.offered = s
        /\ heard.armed = dhcp.armed /\ heard.tries = dhcp.tries
    BY HeardType DEF Clients
  <1> HIDE DEF heard
  <1>2. /\ d \in Clients
        /\ d.xid = dhcp.xid
        /\ d.server = s /\ d.offered = s
    BY <1>1 DEF Clients
  <1> HIDE DEF d
  <1>3. CASE dhcp.state = "SELECTING"
    <2>1. SendRequest(d)
      BY <1>3 DEF Offer, d, heard
    <2>2. d.xid \in 1 .. MaxXid /\ d.xid \in sent.discovers
      BY <1>2, <1>3 DEF ClientOK, ClientInv, Waits
    <2> QED
      BY <1>2, <2>1, <2>2, SendRequestOK
  <1>4. CASE dhcp.state # "SELECTING"
    <2>1. dhcp' = heard /\ UNCHANGED sent
      BY <1>4 DEF Offer, heard
    <2>2. SentType' /\ RequestNamesOffer'
      BY <2>1 DEF ClientOK, SentType, RequestNamesOffer
    <2>3. ClientInv'
      BY <1>1, <2>1 DEF ClientOK, ClientInv
    <2> QED
      BY <1>1, <2>1, <2>2, <2>3 DEF ClientOK, Offer
  <1> QED
    BY <1>3, <1>4

LEMMA RequestType == ASSUME ClientOK, NEW r \in sent.requests
                     PROVE  /\ r.server \in Servers
                            /\ r.address = r.server
  BY DEF ClientOK, SentType, Requests, RequestNamesOffer

\* An answer in a state in which it is not waited for.
LEMMA HeardElsewhere ==
    ASSUME ClientOK, NEW s \in Servers, dhcp.state # "REQUESTING",
           dhcp' = Heard(s), UNCHANGED sent
    PROVE  ClientOK'
  <1>1. SentType' /\ RequestNamesOffer'
    BY DEF ClientOK, SentType, RequestNamesOffer
  <1>2. ClientInv'
    BY HeardType DEF ClientOK, ClientInv
  <1> QED
    BY HeardType, <1>1, <1>2 DEF ClientOK

LEMMA AckOK ==
    ASSUME ClientOK, NEW r \in sent.requests, Ack(r)
    PROVE  /\ ClientOK'
           /\ dhcp'.state # "NONE"
           /\ ip' \in Servers \cup {ip}
  <1>1. r.server \in Servers /\ r.address = r.server
    BY RequestType
  <1>2. CASE dhcp.state = "REQUESTING"
    <2> DEFINE d == [Heard(r.server) EXCEPT !.offered = r.address]
    <2>1. d \in Clients
      BY <1>1, HeardType DEF Clients
    <2>2. dhcp' = SetState(d, "BOUND") /\ ip' = r.address /\ UNCHANGED sent
      BY <1>2 DEF Ack
    <2> HIDE DEF d
    <2>3. dhcp' \in Clients /\ dhcp'.state = "BOUND"
      BY <2>1, <2>2, SetStateType DEF States
    <2> QED
      BY <1>1, <2>2, <2>3, UnsentOK DEF Waits
  <1>3. CASE dhcp.state # "REQUESTING"
    BY <1>1, <1>3, HeardType, HeardElsewhere DEF Ack
  <1> QED
    BY <1>2, <1>3

LEMMA NakOK ==
    ASSUME ClientOK, NEW r \in sent.requests, Nak(r)
    PROVE  /\ ClientOK'
           /\ dhcp'.state # "NONE"
           /\ ip' \in {IP4_ANY, ip}
  <1>1. r.server \in Servers
    BY RequestType
  <1>2. CASE dhcp.state = "REQUESTING"
    <2> DEFINE d == SetState(Heard(r.server), "BACKING_OFF")
    <2>1. d \in Clients /\ d.state = "BACKING_OFF" /\ d.xid = dhcp.xid
      BY <1>1, HeardType, SetStateType DEF States
    <2>2. SendDiscover(d) /\ ip' = IP4_ANY /\ dhcp.xid < MaxXid
      BY <1>2 DEF Nak
    <2> HIDE DEF d
    <2> QED
      BY <2>1, <2>2, SendDiscoverOK
  <1>3. CASE dhcp.state # "REQUESTING"
    BY <1>1, <1>3, HeardType, HeardElsewhere DEF Nak
  <1> QED
    BY <1>2, <1>3

-----------------------------------------------------------------------------
(* The detector's data *)

AcdStates == Probing \cup {"OFF", "ANNOUNCING", "ONGOING", "RATE_LIMIT"}
Counts == 0 .. ProbeNum + AnnounceNum
Intervals == {ProbeMin, AnnounceWait, AnnounceInterval, RateLimitInterval}
Ticks == UNION {0 .. n : n \in Intervals}

LEMMA LessType ==
    /\ \A t \in Ticks : t \in Nat /\ Less(t) \in Ticks /\ Less(t) <= t
    /\ \A n \in 0 .. DefendInterval :
           Less(n) \in 0 .. DefendInterval /\ (n > 0 => Less(n) = n - 1)
    /\ 0 \in Ticks /\ Intervals \subseteq Ticks
  <1>1. \A n \in Intervals : n \in Nat \ {0}
    BY CountsAssumption DEF Intervals
  <1>2. ASSUME NEW t \in Ticks
        PROVE  t \in Nat /\ Less(t) \in Ticks /\ Less(t) <= t
    <2>1. PICK n \in Intervals : t \in 0 .. n
      BY DEF Ticks
    <2>2. t \in Nat /\ Less(t) \in 0 .. n /\ Less(t) <= t
      BY <1>1, <2>1 DEF Less
    <2> QED
      BY <2>2 DEF Ticks
  <1>3. ASSUME NEW n \in 0 .. DefendInterval
        PROVE  Less(n) \in 0 .. DefendInterval /\ (n > 0 => Less(n) = n - 1)
    BY CountsAssumption DEF Less
  <1>4. \A n \in Intervals : 0 \in 0 .. n /\ n \in 0 .. n
    BY <1>1
  <1>5. Intervals \subseteq Ticks
    BY <1>4 DEF Ticks
  <1>6. 0 \in Ticks
    BY <1>4 DEF Ticks, Intervals
  <1> QED
    BY <1>2, <1>3, <1>5, <1>6

LEMMA DetectorWith ==
    ASSUME NEW d \in Detectors, NEW state \in AcdStates, NEW count \in Counts,
           NEW wait \in Ticks, NEW last \in 0 .. DefendInterval,
           NEW conflicts \in 0 .. MaxCommands + 1, NEW timer \in BOOLEAN
    PROVE  [d EXCEPT !.state = state, !.sent = count, !.ttw = wait,
                     !.lastconflict = last, !.conflicts = conflicts,
                     !.timer = timer] \in Detectors
  BY DEF Detectors, AcdStates, Counts, Ticks, Intervals

LEMMA DetectorFields ==
    ASSUME NEW d \in Detectors
    PROVE  /\ d.state \in AcdStates /\ d.sent \in Counts /\ d.ttw \in Ticks
           /\ d.lastconflict \in 0 .. DefendInterval
           /\ d.conflicts \in 0 .. MaxCommands + 1
           /\ d.timer \in BOOLEAN
           /\ d.address \in Claimed \cup {IP4_ANY}
  BY DEF Detectors, AcdStates, Counts, Ticks, Intervals

\* What the steps of the detector have to show.
TimersType == /\ timers \in [dhcp : Nat, acd : Nat]
              /\ timers.dhcp + timers.acd <= FreeTimers

AcdOK == /\ acd \in Detectors
         /\ TimersType
         /\ claim \in Claims
         /\ commands \in 0 .. MaxCommands
         /\ acd.timer => timers.acd > 0
         /\ timers.acd <= commands + 1
         /\ ConflictsInv
         /\ ClaimInv

Ticked == [acd EXCEPT !.lastconflict = Less(@), !.ttw = Less(@)]

LEMMA TickedType ==
    ASSUME acd \in Detectors
    PROVE  /\ Ticked \in Detectors
           /\ Ticked.state = acd.state /\ Ticked.sent = acd.sent
           /\ Ticked.conflicts = acd.conflicts /\ Ticked.timer = acd.timer
           /\ Ticked.address = acd.address
           /\ Ticked.lastconflict = Less(acd.lastconflict)
           /\ Ticked.ttw = Less(acd.ttw)
  <1> DEFINE last == Less(acd.lastconflict)
             wait == Less(acd.ttw)
  <1>1. last \in 0 .. DefendInterval /\ wait \in Ticks
    BY LessType, DetectorFields
  <1> HIDE DEF last, wait
  <1>2. Ticked = [acd EXCEPT !.lastconflict = last, !.ttw = wait]
    BY DEF Ticked, last, wait
  <1>3. Ticked \in Detectors
    BY <1>1, <1>2 DEF Detectors, Ticks, Intervals
  <1>4. /\ Ticked.state = acd.state /\ Ticked.sent = acd.sent
        /\ Ticked.conflicts = acd.conflicts /\ Ticked.timer = acd.timer
        /\ Ticked.address = acd.address
        /\ Ticked.lastconflict = last
        /\ Ticked.ttw = wait
    BY <1>2 DEF Detectors
  <1> QED
    BY <1>3, <1>4 DEF last, wait

-----------------------------------------------------------------------------
(* The detector's operations *)

LEMMA AcdStopOK ==
    ASSUME AcdOK, NEW d \in Detectors, d.timer = acd.timer,
           d.conflicts <= commands + 1, AcdStop(d),
           claim' \in Claims, UNCHANGED commands
    PROVE  AcdOK'
  <1>1. /\ acd' \in Detectors
        /\ acd'.state = "OFF" /\ acd'.timer = FALSE
        /\ acd'.conflicts = d.conflicts
    BY DEF AcdStop, Detectors
  <1>2. /\ TimersType'
        /\ timers'.acd <= timers.acd
    <2>1. d.timer => timers.acd > 0
      BY Zenon DEF AcdOK
    <2>2. timers' = IF d.timer THEN [timers EXCEPT !.acd = @ - 1] ELSE timers
      BY DEF AcdStop
    <2>3. CASE d.timer
      BY <2>1, <2>2, <2>3, CountsAssumption DEF AcdOK, TimersType
    <2>4. CASE ~ d.timer
      BY <2>2, <2>4 DEF AcdOK, TimersType
    <2> QED
      BY <2>3, <2>4
  <1>3. timers'.acd <= commands' + 1
    BY <1>2 DEF AcdOK, TimersType
  <1>4. ConflictsInv' /\ ClaimInv'
    BY <1>1 DEF ConflictsInv, ClaimInv, Contestable, Probing
  <1> QED
    BY <1>1, <1>2, <1>3, <1>4 DEF AcdOK

LEMMA RestartOK ==
    ASSUME AcdOK, acd.state \in Contestable, AcdRestart,
           claim' \in Claims, UNCHANGED commands
    PROVE  AcdOK'
  <1> DEFINE conflicts == acd.conflicts + 1
             d == [acd EXCEPT !.conflicts = conflicts]
  <1>1. /\ conflicts \in 0 .. MaxCommands + 1
        /\ conflicts <= commands + 1
    BY DetectorFields, BoundsAssumption DEF AcdOK, ConflictsInv
  <1> HIDE DEF conflicts
  <1>2. /\ d \in Detectors
        /\ d.conflicts = conflicts /\ d.timer = acd.timer
    BY <1>1 DEF AcdOK, Detectors
  <1>3. d = [acd EXCEPT !.conflicts = @ + 1]
    BY DEF conflicts
  <1> HIDE DEF d
  <1>4. CASE AcdStop(d)
    BY <1>1, <1>2, <1>4, AcdStopOK
  <1>5. CASE /\ acd' = [d EXCEPT !.state = "RATE_LIMIT", !.ttw = RateLimitInterval]
             /\ UNCHANGED timers
    <2>1. RateLimitInterval \in Ticks
      BY LessType DEF Intervals
    <2>2. /\ acd' \in Detectors
          /\ acd'.state = "RATE_LIMIT" /\ acd'.timer = d.timer
          /\ acd'.conflicts = conflicts
      BY <1>2, <1>5, <2>1 DEF Detectors, Ticks, Intervals
    <2>3. ConflictsInv' /\ ClaimInv'
      BY <1>1, <2>2 DEF ConflictsInv, ClaimInv, Contestable, Probing
    <2> QED
      BY <1>2, <1>5, <2>2, <2>3 DEF AcdOK, TimersType
  <1> QED
    BY <1>3, <1>4, <1>5 DEF AcdRestart

LEMMA StartAcdOK ==
    ASSUME AcdOK, NEW a \in Claimed, AcdStart(a), commands < MaxCommands,
           commands' = commands + 1
    PROVE  AcdOK'
  <1>1. Room \in BOOLEAN
    BY DEF Room
  <1>2. 0 \in Ticks
    BY LessType
  <1>3. /\ acd' \in Detectors
        /\ acd'.state = "PROBE_WAIT" /\ acd'.timer = Room
        /\ acd'.conflicts = acd.conflicts
    <2> DEFINE room == Room
    <2>1. acd' = [acd EXCEPT !.used = TRUE, !.address = a,
                             !.state = "PROBE_WAIT", !.ttw = 0, !.timer = room]
      BY DEF AcdStart
    <2>2. room \in BOOLEAN
      BY <1>1
    <2> HIDE DEF room
    <2>3. /\ acd' \in Detectors
          /\ acd'.state = "PROBE_WAIT" /\ acd'.timer = room
          /\ acd'.conflicts = acd.conflicts
      BY <1>2, <2>1, <2>2 DEF AcdOK, Detectors, Ticks, Intervals, Probing
    <2> QED
      BY <2>3 DEF room
  <1>4. /\ TimersType'
        /\ timers'.acd <= timers.acd + 1
        /\ Room => timers'.acd > 0
    BY CountsAssumption DEF AcdStart, AcdOK, TimersType, Room
  <1>5. timers'.acd <= commands' + 1 /\ commands' \in 0 .. MaxCommands
    BY <1>4, BoundsAssumption DEF AcdOK, TimersType
  <1>6. claim' = [probed |-> FALSE, contest |-> "none"] /\ claim' \in Claims
    BY DEF AcdStart, NoClaim, Claims
  <1>7. ClaimInv'
    BY <1>3, <1>6 DEF ClaimInv
  <1>8. ConflictsInv'
    <2>1. acd.conflicts <= commands + 1
      BY DetectorFields DEF AcdOK, ConflictsInv
    <2>2. acd'.state \in Contestable
      BY <1>3 DEF Contestable, Probing
    <2> QED
      BY <1>3, <2>1, <2>2 DEF ConflictsInv
  <1> QED
    BY <1>3, <1>4, <1>5, <1>6, <1>7, <1>8 DEF AcdOK

LEMMA SendProbeOK ==
    ASSUME AcdOK, NEW d \in Detectors, d.state \in {"PROBE_WAIT", "PROBING"},
           d.state = acd.state, d.conflicts = acd.conflicts,
           d.timer = acd.timer, d.sent = acd.sent, SendProbe(d),
           UNCHANGED commands
    PROVE  AcdOK'
  <1>1. /\ claim' \in Claims
        /\ claim'.probed = TRUE /\ claim'.contest = "none"
    BY DEF SendProbe, AcdOK, Claims, ClaimInv, Probing
  <1>2. TimersType' /\ UNCHANGED timers
    BY DEF SendProbe, AcdOK, TimersType
  <1>3. CASE d.sent + 1 >= ProbeNum
    <2>1. 0 \in Counts /\ AnnounceWait \in Ticks
      BY LessType, CountsAssumption DEF Intervals, Counts
    <2>2. /\ acd' \in Detectors
          /\ acd'.state = "ANNOUNCE_WAIT" /\ acd'.sent = 0
          /\ acd'.timer = acd.timer /\ acd'.conflicts = acd.conflicts
      BY <1>3, <2>1 DEF SendProbe, Detectors, Counts, Ticks, Intervals, Probing
    <2>3. ConflictsInv' /\ ClaimInv'
      BY <1>1, <2>2 DEF AcdOK, ConflictsInv, ClaimInv, Contestable, Probing
    <2> QED
      BY <1>1, <1>2, <2>2, <2>3 DEF AcdOK
  <1>4. CASE ~ (d.sent + 1 >= ProbeNum)
    <2> DEFINE count == d.sent + 1
    <2>1. count \in Counts /\ ProbeMin \in Ticks
      BY <1>4, LessType, DetectorFields, CountsAssumption DEF Intervals, Counts
    <2> HIDE DEF count
    <2>2. acd' = [d EXCEPT !.state = "PROBING", !.sent = count, !.ttw = ProbeMin]
      BY <1>4 DEF SendProbe, count
    <2>3. /\ acd' \in Detectors
          /\ acd'.state = "PROBING"
          /\ acd'.timer = acd.timer /\ acd'.conflicts = acd.conflicts
      BY <2>1, <2>2 DEF Detectors, Counts, Ticks, Intervals, Probing
    <2>4. ConflictsInv' /\ ClaimInv'
      BY <1>1, <2>3 DEF AcdOK, ConflictsInv, ClaimInv, Contestable, Probing
    <2> QED
      BY <1>1, <1>2, <2>3, <2>4 DEF AcdOK
  <1> QED
    BY <1>3, <1>4

\* The last announcement is the step that takes the address.
LEMMA SendAnnouncementOK ==
    ASSUME AcdOK, NEW d \in Detectors,
           d.state \in {"ANNOUNCE_WAIT", "ANNOUNCING"},
           d.state = acd.state, d.conflicts = acd.conflicts,
           d.timer = acd.timer, d.sent = acd.sent,
           d.lastconflict = Less(acd.lastconflict),
           acd.ttw <= 1, SendAnnouncement(d), UNCHANGED commands
    PROVE  /\ AcdOK'
           /\ ip' \in {ip, d.address}
           /\ ip' # ip => claim.probed /\ claim.contest # "lost"
  <1> DEFINE conflicts == IF d.sent = 0 THEN 0 ELSE d.conflicts
             count == d.sent + 1
  <1>1. /\ conflicts \in 0 .. MaxCommands + 1
        /\ conflicts <= acd.conflicts
    BY DetectorFields, BoundsAssumption
  <1>2. /\ claim.probed
        /\ claim.contest # "lost"
        /\ acd.state = "ANNOUNCE_WAIT" => claim.contest = "none"
        /\ acd.state = "ANNOUNCE_WAIT" => acd.sent = 0
    BY DEF AcdOK, ClaimInv, Probing
  <1>3. acd.conflicts <= commands + 1
    BY DetectorFields DEF AcdOK, ConflictsInv
  <1> HIDE DEF conflicts
  <1>4. UNCHANGED <<timers, claim>> /\ TimersType'
    BY DEF SendAnnouncement, AcdOK, TimersType
  <1>5. CASE count >= AnnounceNum
    <2>1. /\ acd' = [d EXCEPT !.state = "ONGOING", !.sent = 0, !.ttw = 0,
                              !.conflicts = conflicts]
          /\ ip' = d.address
      BY <1>5 DEF SendAnnouncement, conflicts
    <2>2. 0 \in Counts /\ 0 \in Ticks
      BY LessType, CountsAssumption DEF Counts
    <2>3. /\ acd' \in Detectors
          /\ acd'.state = "ONGOING"
          /\ acd'.timer = d.timer /\ acd'.conflicts = conflicts
      BY <1>1, <2>1, <2>2 DEF Detectors, Counts, Ticks, Intervals, Probing
    <2>4. ConflictsInv'
      <3>1. acd.conflicts <= commands
        BY DEF AcdOK, ConflictsInv, Contestable, Probing
      <3>2. conflicts <= commands
        BY <1>1, <3>1, DetectorFields, BoundsAssumption DEF AcdOK
      <3> QED
        BY <2>3, <3>2 DEF ConflictsInv, Contestable
    <2>5. ClaimInv'
      BY <2>3 DEF ClaimInv, Probing
    <2> QED
      BY <1>2, <1>4, <2>5, <2>1, <2>3, <2>4 DEF AcdOK
  <1>6. CASE ~ (count >= AnnounceNum)
    <2>1. count \in Counts /\ count \in 1 .. (AnnounceNum - 1)
      BY <1>6, DetectorFields, CountsAssumption DEF Counts
    <2> HIDE DEF count
    <2>2. /\ acd' = [d EXCEPT !.state = "ANNOUNCING", !.sent = count,
                              !.ttw = AnnounceInterval, !.conflicts = conflicts]
          /\ UNCHANGED ip
      BY <1>6 DEF SendAnnouncement, conflicts, count
    <2>3. AnnounceInterval \in Ticks
      BY LessType DEF Intervals
    <2>4. /\ acd' \in Detectors
          /\ acd'.state = "ANNOUNCING" /\ acd'.sent = count
          /\ acd'.ttw = AnnounceInterval
          /\ acd'.lastconflict = Less(acd.lastconflict)
          /\ acd'.timer = d.timer /\ acd'.conflicts = conflicts
      BY <1>1, <2>1, <2>2, <2>3 DEF Detectors, Counts, Ticks, Intervals, Probing
    <2>5. Remaining(acd') = (AnnounceNum - count) * AnnounceInterval
      BY <2>1, <2>4, CountsAssumption DEF Remaining
    <2> DEFINE remaining == (AnnounceNum - count) * AnnounceInterval
    <2>6. acd.state = "ANNOUNCE_WAIT" =>
              remaining <= DefendInterval /\ claim.contest = "none"
      <3>1. acd.state = "ANNOUNCE_WAIT" => count = 1
        BY <1>2 DEF count
      <3> QED
        BY <1>2, <3>1, DefendAssumption
    <2>7. acd.state = "ANNOUNCING" =>
              /\ remaining <= DefendInterval
              /\ claim.contest = "defended" => Less(acd.lastconflict) >= remaining
      <3> SUFFICES ASSUME acd.state = "ANNOUNCING"
                   PROVE  /\ remaining <= DefendInterval
                          /\ claim.contest = "defended" =>
                                 Less(acd.lastconflict) >= remaining
        OBVIOUS
      <3>1. /\ acd.ttw = 1
            /\ Remaining(acd) <= DefendInterval
            /\ claim.contest = "defended" => acd.lastconflict >= Remaining(acd)
        BY LessType, DetectorFields, SMTT(60) DEF AcdOK, ClaimInv
      <3>2. Remaining(acd) = 1 + remaining
        BY <2>1, <3>1, DetectorFields, CountsAssumption
        DEF Remaining, count, AcdOK, Counts
      <3>3. remaining \in Nat
        BY <2>1, CountsAssumption
      <3> HIDE DEF remaining
      <3>4. remaining <= DefendInterval
        BY <3>1, <3>2, <3>3, CountsAssumption
      <3>5. acd.lastconflict \in 0 .. DefendInterval
        BY DetectorFields DEF AcdOK
      <3>6. claim.contest = "defended" => Less(acd.lastconflict) >= remaining
        BY <3>1, <3>2, <3>3, <3>5, LessType, CountsAssumption
      <3> QED
        BY <3>4, <3>6
    <2>8. /\ Remaining(acd') = remaining
          /\ AnnounceInterval > 0
          /\ count < AnnounceNum
      BY <2>1, <2>5, CountsAssumption
    <2> HIDE DEF remaining
    <2>9. ConflictsInv'
      <3>1. acd.conflicts <= commands + 1
        BY <1>3
      <3>2. acd.state = "ANNOUNCING" => acd.conflicts <= commands
        BY DEF AcdOK, ConflictsInv, Contestable, Probing
      <3>3. acd.state = "ANNOUNCE_WAIT" => acd.conflicts <= commands
        BY DEF AcdOK, ConflictsInv, Contestable, Probing
      <3>4. conflicts <= commands
        BY <1>1, <3>2, <3>3, DetectorFields, BoundsAssumption DEF AcdOK
      <3> QED
        BY <2>4, <3>4 DEF ConflictsInv, Contestable
    <2>10. ClaimInv'
      BY <1>2, <1>4, <2>4, <2>6, <2>7, <2>8 DEF ClaimInv, Probing
    <2> QED
      BY <1>4, <2>2, <2>4, <2>9, <2>10 DEF AcdOK
  <1> QED
    BY <1>5, <1>6

LEMMA WaitOK ==
    ASSUME AcdOK, acd' = Ticked,
           Ticked.ttw # 0 \/ acd.state \in {"OFF", "ONGOING"},
           UNCHANGED <<timers, claim, commands>>
    PROVE  AcdOK'
  <1>1. /\ acd' \in Detectors
        /\ acd'.state = acd.state /\ acd'.sent = acd.sent
        /\ acd'.conflicts = acd.conflicts /\ acd'.timer = acd.timer
        /\ acd'.lastconflict = Less(acd.lastconflict)
        /\ acd'.ttw = Less(acd.ttw)
    BY TickedType DEF AcdOK
  <1>2. ConflictsInv'
    BY <1>1 DEF AcdOK, ConflictsInv
  <1>3. ClaimInv'
    <2>1. CASE acd.state # "ANNOUNCING"
      BY <1>1, <2>1 DEF AcdOK, ClaimInv
    <2>2. CASE acd.state = "ANNOUNCING"
      <3> DEFINE left == (AnnounceNum - 1 - acd.sent) * AnnounceInterval
      <3>1. /\ acd.ttw \in Nat /\ acd'.ttw \in Nat
            /\ acd'.ttw > 0 /\ acd'.ttw = acd.ttw - 1
        <4>1. acd.ttw \in Nat /\ acd'.ttw # 0
          BY <1>1, <2>2, TickedType, LessType, DetectorFields DEF AcdOK
        <4> QED
          BY <1>1, <4>1 DEF Less
      <3>2. /\ acd.sent < AnnounceNum
            /\ acd.ttw + left <= DefendInterval
            /\ claim.probed /\ claim.contest # "lost"
            /\ claim.contest = "defended" => acd.lastconflict >= acd.ttw + left
        BY <2>2 DEF AcdOK, ClaimInv, Remaining
      <3>3. left \in Nat
        BY <3>2, DetectorFields, CountsAssumption DEF AcdOK, Counts
      <3>4. Remaining(acd') = acd'.ttw + left
        BY <1>1 DEF Remaining
      <3> HIDE DEF left
      <3>5. acd.lastconflict \in 0 .. DefendInterval
        BY DetectorFields DEF AcdOK
      <3>6. claim.contest = "defended" => acd'.lastconflict >= acd'.ttw + left
        BY <1>1, <3>1, <3>2, <3>3, <3>5, LessType, CountsAssumption
      <3>7. acd'.ttw + left <= DefendInterval
        BY <3>1, <3>2, <3>3, CountsAssumption
      <3> QED
        BY <1>1, <2>2, <3>1, <3>2, <3>4, <3>6, <3>7 DEF ClaimInv, Probing
    <2> QED
      BY <2>1, <2>2
  <1> QED
    BY <1>1, <1>2, <1>3 DEF AcdOK, TimersType

LEMMA AcdTimerOK ==
    ASSUME AcdOK, AcdTimer
    PROVE  /\ AcdOK'
           /\ ip' \in Claimed \cup {IP4_ANY, ip}
           /\ ip' # ip => claim.probed /\ claim.contest # "lost"
           /\ UNCHANGED timers.dhcp
  <1>1. UNCHANGED commands
    BY DEF AcdTimer
  <1>2. /\ Ticked \in Detectors
        /\ Ticked.state = acd.state /\ Ticked.sent = acd.sent
        /\ Ticked.conflicts = acd.conflicts /\ Ticked.timer = acd.timer
        /\ Ticked.address = acd.address
        /\ Ticked.lastconflict = Less(acd.lastconflict)
        /\ Ticked.ttw = Less(acd.ttw)
    BY TickedType DEF AcdOK
  <1>3. Ticked.ttw = 0 => acd.ttw <= 1
    BY <1>2, LessType, DetectorFields DEF AcdOK, Less
  <1>4. CASE /\ Ticked.state \in {"PROBE_WAIT", "PROBING"}
             /\ SendProbe(Ticked)
    <2>1. UNCHANGED <<ip, timers>>
      BY <1>4 DEF SendProbe
    <2> QED
      BY <1>1, <1>2, <1>4, <2>1, SendProbeOK
  <1>5. CASE /\ Ticked.ttw = 0
             /\ Ticked.state \in {"ANNOUNCE_WAIT", "ANNOUNCING"}
             /\ SendAnnouncement(Ticked)
    <2>1. UNCHANGED timers
      BY <1>5 DEF SendAnnouncement
    <2>2. Ticked.address \in Claimed \cup {IP4_ANY}
      BY <1>2, DetectorFields
    <2> QED
      BY <1>1, <1>2, <1>3, <1>5, <2>1, <2>2, SendAnnouncementOK
  <1>6. CASE AcdStop(Ticked) /\ UNCHANGED <<ip, claim>>
    <2>1. Ticked.conflicts <= commands + 1 /\ claim' \in Claims
      BY <1>2, <1>6, DetectorFields DEF AcdOK, ConflictsInv
    <2>2. UNCHANGED timers.dhcp
      BY <1>6 DEF AcdStop, AcdOK, TimersType
    <2> QED
      BY <1>1, <1>2, <1>6, <2>1, <2>2, AcdStopOK
  <1>7. CASE /\ Ticked.ttw # 0 \/ Ticked.state \in {"OFF", "ONGOING"}
             /\ acd' = Ticked
             /\ UNCHANGED <<ip, timers, claim>>
    BY <1>1, <1>2, <1>7, WaitOK
  <1> QED
    BY <1>4, <1>5, <1>6, <1>7 DEF AcdTimer, Ticked

LEMMA ConflictOK ==
    ASSUME AcdOK, Conflict
    PROVE  AcdOK' /\ UNCHANGED timers.dhcp
  <1>1. UNCHANGED <<ip, commands>>
    BY DEF Conflict
  <1>2. claim' \in Claims /\ claim'.probed = claim.probed
    BY DEF Conflict, AcdOK, Claims
  <1>3. ASSUME acd.state \in Contestable, AcdRestart
        PROVE  AcdOK' /\ UNCHANGED timers.dhcp
    <2>1. UNCHANGED timers.dhcp
      BY <1>3 DEF AcdRestart, AcdStop, AcdOK, TimersType
    <2> QED
      BY <1>1, <1>2, <1>3, <2>1, RestartOK
  <1>4. CASE acd.state \in Probing
    BY <1>3, <1>4 DEF Conflict, Contestable, Probing
  <1>5. CASE acd.state \in {"ANNOUNCING", "ONGOING"} /\ acd.lastconflict > 0
    BY <1>3, <1>5 DEF Conflict, Contestable, Defend, Probing
  <1>6. CASE acd.state \in {"ANNOUNCING", "ONGOING"} /\ ~ (acd.lastconflict > 0)
    <2>1. acd' = [acd EXCEPT !.lastconflict = DefendInterval] /\ UNCHANGED timers
      BY <1>6 DEF Conflict, Defend, Probing
    <2>2. /\ acd' \in Detectors
          /\ acd'.state = acd.state /\ acd'.sent = acd.sent
          /\ acd'.conflicts = acd.conflicts /\ acd'.timer = acd.timer
          /\ acd'.lastconflict = DefendInterval
          /\ acd'.ttw = acd.ttw
      <3>1. DefendInterval \in 0 .. DefendInterval
        BY CountsAssumption
      <3> QED
        BY <2>1, <3>1 DEF AcdOK, Detectors
    <2>3. ConflictsInv'
      BY <1>1, <2>2 DEF AcdOK, ConflictsInv
    <2>4. ClaimInv'
      <3>1. CASE acd.state = "ONGOING"
        BY <2>2, <3>1 DEF ClaimInv, Probing
      <3>2. CASE acd.state = "ANNOUNCING"
        <4>1. /\ acd.ttw > 0 /\ acd.sent < AnnounceNum
              /\ Remaining(acd) <= DefendInterval
              /\ claim.probed /\ claim.contest # "lost"
              /\ claim.contest = "defended" => acd.lastconflict >= Remaining(acd)
          BY <3>2 DEF AcdOK, ClaimInv
        <4>2. Remaining(acd) \in Nat /\ Remaining(acd) > 0
          <5> DEFINE left == (AnnounceNum - 1 - acd.sent) * AnnounceInterval
          <5>1. left \in Nat
            BY <4>1, DetectorFields, CountsAssumption DEF AcdOK, Counts
          <5>2. acd.ttw \in Nat
            BY LessType, DetectorFields DEF AcdOK
          <5>3. Remaining(acd) = acd.ttw + left
            BY DEF Remaining
          <5> HIDE DEF left
          <5> QED
            BY <4>1, <5>1, <5>2, <5>3
        <4>3. claim.contest = "none"
          <5>1. claim.contest # "defended"
            <6>1. ~ (acd.lastconflict >= Remaining(acd))
              <7>1. acd.lastconflict \in Nat
                BY DetectorFields DEF AcdOK
              <7> QED
                BY <1>6, <4>2, <7>1
            <6> QED
              BY <4>1, <6>1
          <5> QED
            BY <4>1, <5>1 DEF AcdOK, Claims
        <4>4. claim'.contest = "defended"
          BY <3>2, <4>3 DEF Conflict, Probing, AcdOK, Claims
        <4>5. Remaining(acd') = Remaining(acd)
          BY <2>2 DEF Remaining
        <4> QED
          BY <1>2, <2>2, <3>2, <4>1, <4>4, <4>5 DEF ClaimInv, Probing
      <3> QED
        BY <1>6, <3>1, <3>2
    <2> QED
      BY <1>1, <1>2, <2>1, <2>2, <2>3, <2>4 DEF AcdOK, TimersType
  <1> QED
    BY <1>4, <1>5, <1>6 DEF Conflict

-----------------------------------------------------------------------------
(* The invariant *)

LEMMA IInvParts == IInv <=> /\ ClientOK /\ AcdOK
                            /\ link \in BOOLEAN
                            /\ ip \in Addresses \cup {IP4_ANY}
                            /\ FreeTimers > MaxCommands /\ dhcp.state # "NONE"
                                   => timers.dhcp > 0
  BY DEF IInv, TypeOK, TimersInv, ClientOK, SentType, AcdOK, TimersType

LEMMA IInvPartsNext ==
    /\ ClientOK' /\ AcdOK'
    /\ link' \in BOOLEAN
    /\ ip' \in Addresses \cup {IP4_ANY}
    /\ FreeTimers > MaxCommands /\ dhcp'.state # "NONE" => timers'.dhcp > 0
    => IInv'
  BY DEF IInv, TypeOK, TimersInv, ClientOK, SentType, AcdOK, TimersType

LEMMA InitInv == Init => IInv
  <1> SUFFICES ASSUME Init PROVE IInv
    OBVIOUS
  <1>1. /\ link \in BOOLEAN /\ ip = IP4_ANY
        /\ claim = NoClaim /\ commands = 0
    BY DEF Init
  <1>2. /\ NoDetector \in Detectors /\ claim \in Claims
        /\ commands \in 0 .. MaxCommands
    <2>1. 0 \in Ticks /\ 0 \in Counts /\ 0 \in 0 .. DefendInterval
          /\ 0 \in 0 .. MaxCommands + 1
      BY LessType, CountsAssumption, BoundsAssumption DEF Counts
    <2>2. NoDetector \in Detectors
      BY <2>1 DEF NoDetector, Detectors, Ticks, Counts, Intervals
    <2> QED
      BY <1>1, <2>2, BoundsAssumption DEF NoClaim, Claims
  <1>3. CASE ~ link /\ dhcp = NoClient /\ acd = NoDetector
             /\ timers = [dhcp |-> 0, acd |-> 0]
             /\ sent = [discovers |-> {}, requests |-> {}]
    <2>1. ClientOK
      BY <1>3, NoClientType
      DEF ClientOK, SentType, ClientInv, RequestNamesOffer, Waits
    <2>2. AcdOK
      BY <1>1, <1>2, <1>3, CountsAssumption
      DEF AcdOK, TimersType, ConflictsInv, ClaimInv, NoDetector, Contestable,
          Probing
    <2> QED
      BY <1>1, <1>3, <2>1, <2>2, NoClientType, IInvParts
  <1>4. CASE /\ dhcp = Discover(NoClient) /\ acd = NoDetector
             /\ timers = [dhcp |-> 1, acd |-> 0]
             /\ sent = [discovers |-> {1}, requests |-> {}]
    <2>1. dhcp.xid = 1
      BY <1>4, BoundsAssumption DEF Discover, Tried, SetState, NoClient
    <2>2. ClientOK
      BY <1>4, <2>1, FirstDiscover, CountsAssumption
      DEF ClientOK, SentType, ClientInv, RequestNamesOffer, Waiting
    <2>3. AcdOK
      BY <1>1, <1>2, <1>4, CountsAssumption
      DEF AcdOK, TimersType, ConflictsInv, ClaimInv, NoDetector, Contestable,
          Probing
    <2> QED
      BY <1>1, <1>4, <2>2, <2>3, IInvParts
  <1>5. ASSUME NEW a \in Claimed,
               acd = [NoDetector EXCEPT !.used = TRUE, !.address = a,
                                        !.state = "PROBE_WAIT", !.timer = TRUE],
               dhcp = NoClient, timers = [dhcp |-> 0, acd |-> 1],
               sent = [discovers |-> {}, requests |-> {}]
        PROVE  IInv
    <2>1. ClientOK
      BY <1>5, NoClientType
      DEF ClientOK, SentType, ClientInv, RequestNamesOffer, Waits
    <2>2. /\ acd \in Detectors /\ acd.state = "PROBE_WAIT"
          /\ acd.conflicts = 0
      <3>1. acd \in Detectors
        BY <1>2, <1>5 DEF Detectors, Probing
      <3> QED
        BY <1>5, <3>1 DEF NoDetector
    <2>3. claim.contest = "none"
      BY <1>1 DEF NoClaim
    <2>4. AcdOK
      BY <1>1, <1>2, <1>5, <2>2, <2>3, CountsAssumption
      DEF AcdOK, TimersType, ConflictsInv, ClaimInv, Contestable, Probing
    <2> QED
      BY <1>1, <1>5, <2>1, <2>4, NoClientType, IInvParts
  <1> QED
    BY <1>3, <1>4, <1>5 DEF Init

\* Steps of the client leave the detector alone, but may take a timer.
LEMMA AcdKept ==
    ASSUME AcdOK, UNCHANGED <<acd, claim>>, TimersType',
           timers'.acd = timers.acd,
           commands' \in {commands, commands + 1}, commands' <= MaxCommands
    PROVE  AcdOK'
  <1>1. commands' \in 0 .. MaxCommands /\ commands <= commands'
    BY BoundsAssumption DEF AcdOK
  <1>2. timers'.acd <= commands' + 1
    BY <1>1 DEF AcdOK, TimersType
  <1>3. ConflictsInv'
    <2>1. acd.conflicts \in Nat
      BY DetectorFields DEF AcdOK
    <2> QED
      BY <1>1, <2>1 DEF AcdOK, ConflictsInv
  <1>4. ClaimInv'
    BY DEF AcdOK, ClaimInv, Remaining
  <1> QED
    BY <1>1, <1>2, <1>3, <1>4 DEF AcdOK

\* A new client gets its timer, unless the commands may have taken them all.
LEMMA StartTimers ==
    ASSUME IInv, NEW isNew \in BOOLEAN, Start(isNew),
           isNew \/ dhcp.state # "NONE", commands <= MaxCommands,
           isNew /\ dhcp.state = "NONE" => commands < MaxCommands
    PROVE  /\ TimersType'
           /\ timers'.acd = timers.acd
           /\ FreeTimers > MaxCommands => timers'.dhcp > 0
  <1>1. /\ TimersType /\ timers.acd <= commands + 1 /\ commands \in Nat
        /\ FreeTimers > MaxCommands /\ dhcp.state # "NONE" => timers.dhcp > 0
    BY IInvParts, BoundsAssumption DEF AcdOK
  <1>2. CASE isNew /\ Room
    BY <1>1, <1>2, CountsAssumption DEF Start, Room, TimersType
  <1>3. CASE ~ (isNew /\ Room)
    <2>1. UNCHANGED timers
      BY <1>3 DEF Start
    <2>2. ASSUME FreeTimers > MaxCommands, dhcp.state = "NONE"
          PROVE  timers.dhcp > 0
      <3>1. timers.acd <= MaxCommands
        BY <1>1, <2>2, BoundsAssumption DEF TimersType
      <3>2. ~ (timers.dhcp + timers.acd < FreeTimers)
        BY <1>3, <2>2 DEF Room
      <3> QED
        BY <1>1, <2>2, <3>1, <3>2, CountsAssumption, BoundsAssumption
        DEF TimersType
    <2> QED
      BY <1>1, <2>1, <2>2 DEF TimersType
  <1> QED
    BY <1>2, <1>3

\* What every step shows: the invariant, and when an address may be taken.
StepOK == /\ IInv'
          /\ ip' # ip /\ ip' \in Claimed
                 => claim.probed /\ claim.contest # "lost"

LEMMA DhcpStep ==
    ASSUME IInv,
           \/ DhcpTimer
           \/ \E s \in Servers : Offer(s)
           \/ \E r \in sent.requests : Ack(r) \/ Nak(r)
    PROVE  StepOK
  <1>1. /\ ClientOK /\ AcdOK /\ link \in BOOLEAN
        /\ ip \in Addresses \cup {IP4_ANY}
        /\ FreeTimers > MaxCommands /\ dhcp.state # "NONE" => timers.dhcp > 0
        /\ commands <= MaxCommands
    BY IInvParts, BoundsAssumption DEF AcdOK
  <1>2. /\ UNCHANGED <<link, acd, claim, commands>>
        /\ dhcp.state # "NONE"
    BY DEF DhcpTimer, Offer, Ack, Nak
  <1>3. /\ ClientOK' /\ dhcp'.state # "NONE"
        /\ ip' \in Servers \cup {IP4_ANY, ip}
    <2>1. CASE DhcpTimer
      BY <1>1, <2>1, DhcpTimerOK DEF DhcpTimer
    <2>2. ASSUME NEW s \in Servers, Offer(s)
          PROVE  ClientOK' /\ dhcp'.state # "NONE" /\ UNCHANGED ip
      BY <1>1, <2>2, OfferOK DEF Offer
    <2>3. ASSUME NEW r \in sent.requests, Ack(r) \/ Nak(r)
          PROVE  /\ ClientOK' /\ dhcp'.state # "NONE"
                 /\ ip' \in Servers \cup {IP4_ANY, ip}
      BY <1>1, <2>3, AckOK, NakOK
    <2> QED
      BY <2>1, <2>2, <2>3
  <1>4. /\ TimersType' /\ timers'.acd = timers.acd
        /\ FreeTimers > MaxCommands => timers'.dhcp > 0
    <2>1. CASE UNCHANGED timers
      BY <1>1, <1>2, <2>1 DEF AcdOK, TimersType
    <2>2. CASE Start(TRUE)
      BY <1>1, <1>2, <2>2, StartTimers
    <2> QED
      BY <2>1, <2>2 DEF DhcpTimer, Offer, Ack, Nak
  <1>5. AcdOK'
    <2>1. commands' \in {commands, commands + 1} /\ commands' <= MaxCommands
      BY <1>1, <1>2
    <2> QED
      BY <1>1, <1>2, <1>4, <2>1, AcdKept
  <1>6. /\ ip' \in Addresses \cup {IP4_ANY}
        /\ ip' \in Claimed => ip' = ip
    BY <1>1, <1>3, AddressesAssumption DEF Addresses
  <1>7. IInv'
    <2>1. link' \in BOOLEAN
      BY <1>1, <1>2
    <2> QED
      BY <1>3, <1>4, <1>5, <1>6, <2>1, IInvPartsNext
  <1> QED
    BY <1>6, <1>7 DEF StepOK

LEMMA DetectorStep ==
    ASSUME IInv, AcdTimer \/ Conflict
    PROVE  StepOK
  <1>1. /\ ClientOK /\ AcdOK /\ link \in BOOLEAN
        /\ ip \in Addresses \cup {IP4_ANY}
        /\ FreeTimers > MaxCommands /\ dhcp.state # "NONE" => timers.dhcp > 0
    BY IInvParts
  <1>2. UNCHANGED <<link, dhcp, sent>>
    BY DEF AcdTimer, Conflict
  <1>3. /\ AcdOK' /\ UNCHANGED timers.dhcp
        /\ ip' \in Claimed \cup {IP4_ANY, ip}
        /\ ip' # ip => claim.probed /\ claim.contest # "lost"
    <2>1. CASE AcdTimer
      BY <1>1, <2>1, AcdTimerOK
    <2>2. CASE Conflict
      BY <1>1, <2>2, ConflictOK DEF Conflict
    <2> QED
      BY <2>1, <2>2
  <1>4. ClientOK'
    BY <1>1, <1>2 DEF ClientOK, SentType, ClientInv, RequestNamesOffer
  <1>5. ip' \in Addresses \cup {IP4_ANY}
    BY <1>1, <1>3 DEF Addresses
  <1>6. IInv'
    BY <1>1, <1>2, <1>3, <1>4, <1>5, IInvPartsNext
  <1> QED
    BY <1>3, <1>6 DEF StepOK

LEMMA SetIpStep ==
    ASSUME IInv, NEW a \in Statics \cup {IP4_ANY}, SetIp(a)
    PROVE  StepOK
  <1>1. /\ ClientOK /\ AcdOK /\ link \in BOOLEAN
        /\ ip \in Addresses \cup {IP4_ANY}
    BY IInvParts
  <1>2. ClientOK' /\ dhcp'.state = "NONE"
    BY <1>1, StopOK DEF SetIp
  <1>3. AcdOK'
    <2> DEFINE claimed == IF a = IP4_ANY THEN Secondary ELSE a
    <2>1. claimed \in Claimed
      BY DEF Claimed
    <2>2. /\ AcdStart(claimed) /\ commands < MaxCommands
          /\ commands' = commands + 1
      BY DEF SetIp
    <2> HIDE DEF claimed
    <2> QED
      BY <1>1, <2>1, <2>2, StartAcdOK
  <1>4. ip' \in {ip, IP4_ANY} /\ link' \in BOOLEAN
    BY <1>1 DEF SetIp, Stop
  <1>5. IInv'
    BY <1>1, <1>2, <1>3, <1>4, IInvPartsNext
  <1> QED
    BY <1>4, <1>5, AddressesAssumption DEF StepOK, Addresses

LEMMA EnableDhcpStep ==
    ASSUME IInv, EnableDhcp
    PROVE  StepOK
  <1>1. /\ ClientOK /\ AcdOK /\ link \in BOOLEAN
        /\ ip \in Addresses \cup {IP4_ANY}
        /\ commands <= MaxCommands
    BY IInvParts, BoundsAssumption DEF AcdOK
  <1> DEFINE isNew == dhcp.state = "NONE"
  <1>2. /\ Start(isNew) /\ isNew \in BOOLEAN
        /\ commands < MaxCommands /\ commands' = commands + 1
        /\ UNCHANGED <<link, ip, acd, claim>>
    BY DEF EnableDhcp
  <1>3. isNew \/ dhcp.state # "NONE"
    OBVIOUS
  <1> HIDE DEF isNew
  <1>4. ClientOK'
    BY <1>1, <1>2, StartOK
  <1>5. /\ TimersType' /\ timers'.acd = timers.acd
        /\ FreeTimers > MaxCommands => timers'.dhcp > 0
    BY <1>1, <1>2, <1>3, StartTimers
  <1>6. AcdOK'
    <2>1. commands' \in {commands, commands + 1} /\ commands' <= MaxCommands
      BY <1>1, <1>2, BoundsAssumption DEF AcdOK
    <2> QED
      BY <1>1, <1>2, <1>5, <2>1, AcdKept
  <1>7. IInv'
    BY <1>1, <1>2, <1>4, <1>5, <1>6, IInvPartsNext
  <1> QED
    BY <1>2, <1>7 DEF StepOK

LEMMA StepInv ==
    ASSUME IInv, [Next]_vars
    PROVE  StepOK
  <1>1. CASE Next
    BY <1>1, DhcpStep, DetectorStep, SetIpStep, EnableDhcpStep DEF Next
  <1>2. CASE UNCHANGED vars
    BY <1>2 DEF vars, IInv, TypeOK, ClientInv, RequestNamesOffer, TimersInv,
                ConflictsInv, ClaimInv, Remaining, StepOK
  <1> QED
    BY <1>1, <1>2

-----------------------------------------------------------------------------
(* The theorems *)

\* Everything the proofs about the address rest on holds in every state.
THEOREM AddressInvariant == Spec => []IInv
  <1>1. IInv /\ [Next]_vars => IInv'
    BY StepInv DEF StepOK
  <1> QED
    BY <1>1, InitInv, PTL DEF Spec

\* The client, the detector and the timer table keep their types: transaction
\* numbers, tries, probes and conflict counts stay in range.
THEOREM AddressTypeCorrect == Spec => []TypeOK
  <1>1. IInv => TypeOK
    BY DEF IInv
  <1> QED
    BY <1>1, AddressInvariant, PTL

\* No REQUEST mixes up the server and the address it offered.
THEOREM RequestsNameOffers == Spec => []RequestNamesOffer
  <1>1. IInv => RequestNamesOffer
    BY DEF IInv
  <1> QED
    BY <1>1, AddressInvariant, PTL

\* A client that waits will ask again, unless the timer table has been filled.
THEOREM WaitingIsTimed == Spec => []WaitsWithTimer
  <1>1. IInv => WaitsWithTimer
    BY Zenon DEF IInv, TimersInv, ClientInv, WaitsWithTimer, Waits
  <1> QED
    BY <1>1, AddressInvariant, PTL

\* An address of its own is the node's only after it was probed for and if
\* nobody took it from the node before the last announcement.
THEOREM ProbedFirst == Spec => ProbedBeforeUse
  <1>1. IInv /\ [Next]_vars =>
            [ip' # ip /\ ip' \in Claimed
                 => claim.probed /\ claim.contest # "lost"]_vars
    BY StepInv DEF StepOK
  <1> QED
    BY <1>1, AddressInvariant, PTL DEF Spec, ProbedBeforeUse

-----------------------------------------------------------------------------
(* The interface implements its address *)

LEMMA NetworkStep == [NetworkNext]_networkVars => [Next]_vars
  <1>1. AddressStep => Next
    BY DEF AddressStep
  <1>2. MembershipStep => UNCHANGED vars
    BY DEF MembershipStep, vars, Membership!Next, Membership!Join,
           Membership!Leave, Membership!Query, Membership!Timer
  <1>3. UNCHANGED networkVars => UNCHANGED vars
    BY DEF networkVars
  <1> QED
    BY <1>1, <1>2, <1>3 DEF NetworkNext

\* The interface does with its address what the address alone does: groups
\* never get in the way of it.
THEOREM NetworkImplementsAddress == NetworkSpec => Spec
  <1>1. NetworkInit => Init
    BY DEF NetworkInit
  <1> QED
    BY <1>1, NetworkStep, PTL DEF NetworkSpec, Spec

-----------------------------------------------------------------------------
(* The table *)

Slots == Membership!Slots
Delays == Membership!Delays
Entries == [address : Groups \cup {NoGroup},
            state : {"NON_MEMBER", "DELAYING_MEMBER", "IDLE_MEMBER"},
            timer : Delays]

\* An entry whose timer runs will be reported, and one that is in use can be.
EntryInv(e) ==
    /\ e.timer > 0 => e.state = "DELAYING_MEMBER"
    /\ e.address = NoGroup <=> e.state = "NON_MEMBER"
    /\ link /\ ip # IP4_ANY /\ e.address # NoGroup
           => e.address \in reported \/ e.timer > 0

TableInv == /\ Membership!TypeOK
            /\ Membership!MembersAreKept
            /\ \A i \in Slots : EntryInv(groups[i])

LEMMA DelaysType ==
    /\ Delays \subseteq Nat
    /\ \A t \in Delays : t > 0 => t - 1 \in Delays
    /\ 0 \in Delays /\ JoinTimer \in Delays /\ JoinTimer > 0
    /\ 1 .. (ReportDelay - 1) \subseteq Delays
    /\ \A r \in ResponseTimes : 1 + (r \div 2) \in Delays /\ 1 + (r \div 2) > 0
  <1>1. JoinTimer \in Nat \ {0} /\ ReportDelay \in Nat /\ ResponseTimes \subseteq Nat
    BY DelaysAssumption
  <1> DEFINE Answers == UNION {0 .. 1 + (r \div 2) : r \in ResponseTimes}
  <1>2. Delays = (0 .. JoinTimer) \cup (0 .. ReportDelay) \cup Answers
    BY DEF Delays, Membership!Delays
  <1>3. ASSUME NEW r \in ResponseTimes
        PROVE  1 + (r \div 2) \in Nat \ {0} /\ 1 + (r \div 2) \in Answers
    <2>1. r \div 2 \in Nat
      BY <1>1
    <2>2. 1 + (r \div 2) \in 0 .. 1 + (r \div 2)
      BY <2>1
    <2> QED
      BY <2>1, <2>2
  <1>4. ASSUME NEW t \in Answers
        PROVE  t \in Nat /\ (t > 0 => t - 1 \in Answers)
    <2>1. PICK r \in ResponseTimes : t \in 0 .. 1 + (r \div 2)
      OBVIOUS
    <2>2. t \in Nat /\ (t > 0 => t - 1 \in 0 .. 1 + (r \div 2))
      BY <2>1, <1>3
    <2> QED
      BY <2>2
  <1> HIDE DEF Answers
  <1>5. Delays \subseteq Nat
    BY <1>1, <1>2, <1>4
  <1>6. \A t \in Delays : t > 0 => t - 1 \in Delays
    BY <1>1, <1>2, <1>4
  <1>7. 0 \in Delays /\ JoinTimer \in Delays /\ JoinTimer > 0
        /\ 1 .. (ReportDelay - 1) \subseteq Delays
    BY <1>1, <1>2
  <1> QED
    BY <1>2, <1>3, <1>5, <1>6, <1>7

LEMMA TableType ==
    Membership!TypeOK <=> /\ groups \in [Slots -> Entries]
                          /\ members \subseteq Groups
                          /\ reported \subseteq Groups
  BY DEF Membership!TypeOK, Entries, Slots, Delays

\* What the operations on single entries show.
LEMMA EntryType ==
    ASSUME NEW e \in Entries
    PROVE  /\ e.address \in Groups \cup {NoGroup}
           /\ e.timer \in Nat /\ e.timer \in Delays
           /\ e.state \in {"NON_MEMBER", "DELAYING_MEMBER", "IDLE_MEMBER"}
  BY DelaysType DEF Entries

\* A step that changes no address of an entry keeps the members.
LEMMA MembersOK ==
    ASSUME TableInv, groups' \in [Slots -> Entries],
           \A i \in Slots : groups'[i].address = groups[i].address,
           UNCHANGED members
    PROVE  Membership!MembersAreKept'
  BY DEF TableInv, Membership!MembersAreKept, Slots

\* Entries are looked at one by one.
LEMMA TableOK ==
    ASSUME groups' \in [Slots -> Entries], members' \subseteq Groups,
           reported' \subseteq Groups, Membership!MembersAreKept',
           \A i \in Slots : EntryInv(groups[i])'
    PROVE  TableInv'
  BY DEF TableInv, Membership!TypeOK, Entries, Slots, Delays

LEMMA NewEntryType ==
    ASSUME NEW g \in Groups \cup {NoGroup}, NEW t \in Delays,
           NEW state \in {"NON_MEMBER", "DELAYING_MEMBER", "IDLE_MEMBER"}
    PROVE  [address |-> g, state |-> state, timer |-> t] \in Entries
  BY DEF Entries

LEMMA JoinOK ==
    ASSUME TableInv, NEW g \in Groups, Membership!Join(g)
    PROVE  TableInv'
  <1>1. /\ groups \in [Slots -> Entries]
        /\ members \subseteq Groups /\ reported \subseteq Groups
        /\ \A i \in Slots : EntryInv(groups[i])
        /\ UNCHANGED <<link, ip>>
    BY TableType DEF TableInv, Membership!Join
  <1>2. ASSUME NEW i \in Slots, groups[i].address \in {g, NoGroup},
               IF groups[i].address = g THEN UNCHANGED <<groups, reported>>
               ELSE /\ groups' = [groups EXCEPT ![i] =
                           [address |-> g, state |-> "DELAYING_MEMBER",
                            timer |-> JoinTimer]]
                    /\ reported' = reported \cup Membership!Reporting(g),
               members' = members \cup {g}
        PROVE  TableInv'
    <2>1. CASE groups[i].address = g
      <3>1. UNCHANGED <<groups, reported>>
        BY <1>2, <2>1
      <3>2. Membership!MembersAreKept'
        BY <1>2, <2>1, <3>1 DEF TableInv, Membership!MembersAreKept, Slots
      <3>3. \A j \in Slots : EntryInv(groups[j])'
        BY <1>1, <3>1 DEF EntryInv
      <3> QED
        BY <1>1, <1>2, <3>1, <3>2, <3>3, TableOK
    <2>2. CASE groups[i].address # g
      <3> DEFINE e == [address |-> g, state |-> "DELAYING_MEMBER",
                       timer |-> JoinTimer]
      <3>1. /\ e \in Entries /\ e.timer > 0 /\ e.state = "DELAYING_MEMBER"
            /\ e.address = g /\ g # NoGroup
        BY NewEntryType, DelaysType, GroupsAssumption
      <3> HIDE DEF e
      <3>2. /\ groups' = [groups EXCEPT ![i] = e]
            /\ reported' = reported \cup Membership!Reporting(g)
        BY <1>2, <2>2 DEF e
      <3>3. /\ groups' \in [Slots -> Entries]
            /\ members' \subseteq Groups /\ reported' \subseteq Groups
        BY <1>1, <1>2, <3>1, <3>2 DEF Membership!Reporting
      <3>4. Membership!MembersAreKept'
        <4>1. \A j \in Slots : j # i => groups'[j] = groups[j]
          BY <1>1, <3>2
        <4>2. groups'[i] = e
          BY <1>1, <3>2
        <4>3. NoGroup \notin members
          BY <1>1, GroupsAssumption
        <4> QED
          BY <1>2, <2>2, <3>1, <4>1, <4>2, <4>3
          DEF TableInv, Membership!MembersAreKept, Slots
      <3>5. \A j \in Slots : EntryInv(groups[j])'
        <4> SUFFICES ASSUME NEW j \in Slots PROVE EntryInv(groups[j])'
          OBVIOUS
        <4>1. CASE j = i
          BY <1>1, <3>1, <3>2, <4>1 DEF EntryInv
        <4>2. CASE j # i
          <5>1. groups'[j] = groups[j] /\ reported \subseteq reported'
            BY <1>1, <3>2, <4>2
          <5> QED
            BY <1>1, <5>1 DEF EntryInv
        <4> QED
          BY <4>1, <4>2
      <3> QED
        BY <3>3, <3>4, <3>5, TableOK
    <2> QED
      BY <2>1, <2>2
  <1>3. CASE UNCHANGED <<groups, members, reported>>
    <2>1. Membership!MembersAreKept'
      BY <1>3 DEF TableInv, Membership!MembersAreKept, Slots
    <2>2. \A i \in Slots : EntryInv(groups[i])'
      BY <1>1, <1>3 DEF EntryInv
    <2> QED
      BY <1>1, <1>3, <2>1, <2>2, TableOK
  <1> QED
    BY <1>2, <1>3 DEF Membership!Join, Membership!IsFirst, Membership!vars, Slots

LEMMA LeaveOK ==
    ASSUME TableInv, NEW g \in Groups, Membership!Leave(g)
    PROVE  TableInv'
  <1>1. /\ groups \in [Slots -> Entries]
        /\ members \subseteq Groups /\ reported \subseteq Groups
        /\ \A i \in Slots : EntryInv(groups[i])
        /\ UNCHANGED <<link, ip, reported>>
        /\ members' = members \ {g}
    BY TableType DEF TableInv, Membership!Leave
  <1>2. PICK i \in Slots : /\ groups[i].address = g
                           /\ groups' = [groups EXCEPT ![i] = Membership!Free]
    BY DEF Membership!Leave, Membership!IsFirst, Slots
  <1>3. /\ Membership!Free \in Entries
        /\ Membership!Free.address = NoGroup
        /\ Membership!Free.state = "NON_MEMBER"
        /\ Membership!Free.timer = 0
    BY NewEntryType, DelaysType DEF Membership!Free
  <1>4. /\ groups' \in [Slots -> Entries]
        /\ groups'[i] = Membership!Free
        /\ \A j \in Slots : j # i => groups'[j] = groups[j]
    BY <1>1, <1>2, <1>3
  <1>5. Membership!MembersAreKept'
    BY <1>1, <1>2, <1>4 DEF TableInv, Membership!MembersAreKept, Slots
  <1>6. \A j \in Slots : EntryInv(groups[j])'
    <2> SUFFICES ASSUME NEW j \in Slots PROVE EntryInv(groups[j])'
      OBVIOUS
    <2>1. CASE j = i
      BY <1>3, <1>4, <2>1 DEF EntryInv
    <2>2. CASE j # i
      BY <1>1, <1>4, <2>2 DEF EntryInv
    <2> QED
      BY <2>1, <2>2
  <1> QED
    BY <1>1, <1>4, <1>5, <1>6, TableOK

LEMMA QueryOK ==
    ASSUME TableInv, NEW asked \in SUBSET Groups, NEW r \in ResponseTimes,
           Membership!Query(asked, r)
    PROVE  TableInv'
  <1>1. /\ groups \in [Slots -> Entries]
        /\ members \subseteq Groups /\ reported \subseteq Groups
        /\ \A i \in Slots : EntryInv(groups[i])
        /\ UNCHANGED <<link, ip, members, reported>>
    BY TableType DEF TableInv, Membership!Query
  <1> DEFINE Answer(e) == IF e.address \in asked THEN Membership!Answering(e, r)
                                                 ELSE e
  <1>2. ASSUME NEW e \in Entries
        PROVE  /\ Answer(e) \in Entries
               /\ Answer(e).address = e.address
               /\ \/ Answer(e) = e
                  \/ /\ Answer(e).state = "DELAYING_MEMBER"
                     /\ Answer(e).timer > 0 /\ e.address # NoGroup
    <2> DEFINE wait == 1 + (r \div 2)
               asking == [e EXCEPT !.state = "DELAYING_MEMBER", !.timer = wait]
    <2>1. wait \in Delays /\ wait > 0
      BY DelaysType
    <2>2. \/ Answer(e) = e
          \/ Answer(e) = asking /\ e.address # NoGroup
      BY GroupsAssumption DEF Membership!Answering
    <2> HIDE DEF wait, Answer
    <2>3. /\ asking \in Entries
          /\ asking.address = e.address
          /\ asking.state = "DELAYING_MEMBER"
          /\ asking.timer = wait
      BY <2>1 DEF Entries
    <2> HIDE DEF asking
    <2> QED
      BY <2>1, <2>2, <2>3
  <1>3. groups' = [i \in Slots |-> Answer(groups[i])]
    BY DEF Membership!Query, Slots
  <1> HIDE DEF Answer
  <1>4. /\ groups' \in [Slots -> Entries]
        /\ \A i \in Slots : groups'[i].address = groups[i].address
    BY <1>1, <1>2, <1>3
  <1>5. \A i \in Slots : EntryInv(groups[i])'
    <2> SUFFICES ASSUME NEW i \in Slots PROVE EntryInv(groups[i])'
      OBVIOUS
    <2>1. /\ groups'[i].address = groups[i].address
          /\ EntryInv(groups[i])
          /\ \/ groups'[i] = groups[i]
             \/ /\ groups'[i].state = "DELAYING_MEMBER"
                /\ groups'[i].timer > 0 /\ groups[i].address # NoGroup
      BY <1>1, <1>2, <1>3
    <2> QED
      BY <1>1, <2>1 DEF EntryInv
  <1> QED
    BY <1>1, <1>4, <1>5, MembersOK, TableOK

LEMMA TimerOK ==
    ASSUME TableInv, Membership!Timer
    PROVE  TableInv'
  <1>1. /\ groups \in [Slots -> Entries]
        /\ members \subseteq Groups /\ reported \subseteq Groups
        /\ \A i \in Slots : EntryInv(groups[i])
        /\ UNCHANGED <<link, ip, members>>
    BY TableType DEF TableInv, Membership!Timer
  <1> DEFINE Due == Membership!Due
             Passed(i) == [groups[i] EXCEPT
                 !.timer = IF @ > 0 THEN @ - 1 ELSE 0,
                 !.state = IF i \in Due THEN "IDLE_MEMBER" ELSE @]
  <1>2. /\ groups' = [i \in Slots |-> Passed(i)]
        /\ reported' = reported \cup
               UNION {Membership!Reporting(groups[i].address) : i \in Due}
    BY DEF Membership!Timer, Slots
  <1>3. ASSUME NEW i \in Slots
        PROVE  i \in Due <=> /\ groups[i].timer = 1
                             /\ groups[i].state = "DELAYING_MEMBER"
    BY DEF Membership!Due, Slots
  <1> HIDE DEF Due
  <1>4. ASSUME NEW i \in Slots
        PROVE  /\ Passed(i) \in Entries
               /\ Passed(i).address = groups[i].address
               /\ Passed(i).timer = IF groups[i].timer > 0
                                    THEN groups[i].timer - 1 ELSE 0
               /\ Passed(i).state = IF i \in Due THEN "IDLE_MEMBER"
                                    ELSE groups[i].state
    <2> DEFINE wait == IF groups[i].timer > 0 THEN groups[i].timer - 1 ELSE 0
               next == IF i \in Due THEN "IDLE_MEMBER" ELSE groups[i].state
    <2>1. groups[i] \in Entries
      BY <1>1
    <2>2. /\ wait \in Delays
          /\ next \in {"NON_MEMBER", "DELAYING_MEMBER", "IDLE_MEMBER"}
      BY <2>1, EntryType, DelaysType
    <2>3. Passed(i) = [groups[i] EXCEPT !.timer = wait, !.state = next]
      OBVIOUS
    <2> HIDE DEF wait, next, Passed
    <2>4. /\ Passed(i) \in Entries
          /\ Passed(i).address = groups[i].address
          /\ Passed(i).timer = wait
          /\ Passed(i).state = next
      BY <2>1, <2>2, <2>3 DEF Entries
    <2> QED
      BY <2>4 DEF wait, next
  <1> HIDE DEF Passed
  <1>5. /\ groups' \in [Slots -> Entries]
        /\ \A i \in Slots : groups'[i].address = groups[i].address
    BY <1>2, <1>4
  <1>6. ASSUME NEW i \in Due
        PROVE  /\ Membership!Reporting(groups[i].address) \subseteq Groups
               /\ link => groups[i].address \in reported'
    <2>1. i \in Slots
      BY DEF Due, Membership!Due, Slots
    <2>2. groups[i].address \in Groups
      BY <1>1, <1>3, <2>1, EntryType DEF EntryInv
    <2> QED
      BY <1>2, <2>2 DEF Membership!Reporting
  <1>7. reported \subseteq reported' /\ reported' \subseteq Groups
    BY <1>1, <1>2, <1>6
  <1>8. \A i \in Slots : EntryInv(groups[i])'
    <2> SUFFICES ASSUME NEW i \in Slots PROVE EntryInv(groups[i])'
      OBVIOUS
    <2>1. groups[i] \in Entries /\ EntryInv(groups[i]) /\ groups'[i] = Passed(i)
      BY <1>1, <1>2
    <2>2. CASE i \in Due
      BY <1>1, <1>3, <1>4, <1>6, <2>1, <2>2, EntryType DEF EntryInv
    <2>3. CASE i \notin Due
      BY <1>1, <1>3, <1>4, <1>7, <2>1, <2>3, EntryType DEF EntryInv
    <2> QED
      BY <2>2, <2>3
  <1> QED
    BY <1>1, <1>5, <1>7, <1>8, MembersOK, TableOK

\* A report that a new address starts: reported is emptied by the same step.
LEMMA ReportOK ==
    ASSUME TableInv, Membership!ReportGroups, reported' = {}
    PROVE  TableInv'
  <1>1. /\ groups \in [Slots -> Entries]
        /\ members \subseteq Groups /\ UNCHANGED members
        /\ \A i \in Slots : EntryInv(groups[i])
    BY TableType DEF TableInv, Membership!ReportGroups
  <1>2. PICK delay \in [Slots -> 1 .. (ReportDelay - 1)] :
            groups' = [i \in Slots |->
                IF Membership!Hurries(groups[i])
                THEN [groups[i] EXCEPT !.state = "DELAYING_MEMBER",
                                       !.timer = delay[i]]
                ELSE groups[i]]
    BY DEF Membership!ReportGroups, Slots
  <1>3. ASSUME NEW i \in Slots
        PROVE  /\ groups'[i] \in Entries
               /\ groups'[i].address = groups[i].address
               /\ EntryInv(groups[i])'
    <2>1. /\ groups[i] \in Entries
          /\ EntryInv(groups[i])
          /\ delay[i] \in Delays /\ delay[i] \in Nat /\ delay[i] > 0
      BY <1>1, DelaysType, DelaysAssumption
    <2>2. CASE Membership!Hurries(groups[i])
      <3>1. groups'[i] = [groups[i] EXCEPT !.state = "DELAYING_MEMBER",
                                           !.timer = delay[i]]
        BY <1>2, <2>2
      <3>2. /\ groups'[i] \in Entries
            /\ groups'[i].address = groups[i].address
            /\ groups'[i].state = "DELAYING_MEMBER"
            /\ groups'[i].timer = delay[i]
        BY <2>1, <3>1 DEF Entries
      <3>3. groups[i].address # NoGroup
        BY <2>1, <2>2 DEF Membership!Hurries, EntryInv
      <3> QED
        BY <2>1, <3>2, <3>3 DEF EntryInv
    <2>3. CASE ~ Membership!Hurries(groups[i])
      <3>1. groups'[i] = groups[i]
        BY <1>2, <2>3
      <3>2. groups[i].address # NoGroup => groups[i].timer > 0
        BY <2>1, <2>3, EntryType DEF Membership!Hurries, EntryInv
      <3> QED
        BY <2>1, <3>1, <3>2 DEF EntryInv
    <2> QED
      BY <2>2, <2>3
  <1>4. groups' \in [Slots -> Entries]
    <2>1. groups' = [i \in Slots |-> groups'[i]]
      BY <1>2
    <2> QED
      BY <1>3, <2>1
  <1>5. Membership!MembersAreKept'
    BY <1>1, <1>3, <1>4, MembersOK
  <1> QED
    BY <1>1, <1>3, <1>4, <1>5, TableOK

LEMMA InitTable == NetworkInit => TableInv
  <1> SUFFICES ASSUME NetworkInit PROVE TableInv
    OBVIOUS
  <1>1. /\ groups = [i \in Slots |-> Membership!Free]
        /\ members = {} /\ reported = {} /\ ip = IP4_ANY
    BY DEF NetworkInit, Membership!Init, Init, Slots
  <1>2. /\ Membership!Free \in Entries
        /\ Membership!Free.address = NoGroup
        /\ Membership!Free.state = "NON_MEMBER"
        /\ Membership!Free.timer = 0
    BY NewEntryType, DelaysType DEF Membership!Free
  <1>3. groups \in [Slots -> Entries]
    BY <1>1, <1>2
  <1>4. \A i \in Slots : EntryInv(groups[i])
    BY <1>1, <1>2 DEF EntryInv
  <1> QED
    BY <1>1, <1>3, <1>4, TableType DEF TableInv, Membership!MembersAreKept

\* A step of the interface keeps its table, if the address keeps its type.
LEMMA TableStep == TableInv /\ TypeOK /\ [NetworkNext]_networkVars => TableInv'
  <1> SUFFICES ASSUME TableInv, TypeOK, [NetworkNext]_networkVars PROVE TableInv'
    OBVIOUS
  <1>1. /\ groups \in [Slots -> Entries]
        /\ members \subseteq Groups /\ reported \subseteq Groups
        /\ \A i \in Slots : EntryInv(groups[i])
    BY TableType DEF TableInv
  <1>2. ASSUME UNCHANGED <<groups, members>>, reported' \in {reported, {}},
               \A i \in Slots : EntryInv(groups[i])'
        PROVE  TableInv'
    <2>1. groups' \in [Slots -> Entries] /\ members' \subseteq Groups
      BY <1>1, <1>2
    <2>2. Membership!MembersAreKept'
      BY <1>2 DEF TableInv, Membership!MembersAreKept, Slots
    <2> QED
      BY <1>1, <1>2, <2>1, <2>2, TableOK
  <1>3. CASE AddressStep
    <2>1. UNCHANGED link
      BY <1>3 DEF AddressStep, Next, DhcpTimer, Offer, Ack, Nak, AcdTimer,
                  Conflict, SetIp, EnableDhcp
    <2>2. CASE ip' = ip
      <3>1. UNCHANGED <<groups, members, reported>>
        BY <1>3, <2>2 DEF AddressStep, tableVars
      <3>2. \A i \in Slots : EntryInv(groups[i])'
        BY <1>1, <2>1, <2>2, <3>1 DEF EntryInv
      <3> QED
        BY <1>2, <3>1, <3>2
    <2>3. CASE ip' # ip /\ link /\ ip' # IP4_ANY
      BY <1>3, <2>3, ReportOK DEF AddressStep, IssueReports
    <2>4. CASE ip' # ip /\ ~ (link /\ ip' # IP4_ANY)
      <3>1. UNCHANGED <<groups, members>> /\ reported' = {}
        BY <1>3, <2>4 DEF AddressStep, IssueReports
      <3>2. \A i \in Slots : EntryInv(groups[i])'
        BY <1>1, <2>1, <2>4, <3>1 DEF EntryInv
      <3> QED
        BY <1>2, <3>1, <3>2
    <2> QED
      BY <2>2, <2>3, <2>4
  <1>4. CASE MembershipStep
    <2>1. ASSUME NEW g \in Groups PROVE {g} \in SUBSET Groups
      OBVIOUS
    <2> QED
      BY <1>4, <2>1, JoinOK, LeaveOK, QueryOK, TimerOK
      DEF MembershipStep, Membership!Next
  <1>5. CASE UNCHANGED networkVars
    <2>1. UNCHANGED <<link, ip, groups, members, reported>>
      BY <1>5 DEF networkVars, vars, tableVars
    <2>2. \A i \in Slots : EntryInv(groups[i])'
      BY <1>1, <2>1 DEF EntryInv
    <2> QED
      BY <1>2, <2>1, <2>2
  <1> QED
    BY <1>3, <1>4, <1>5 DEF NetworkNext

-----------------------------------------------------------------------------
(* The theorems *)

LEMMA NetworkInvariant == NetworkSpec => [](TypeOK /\ TableInv)
  <1>1. NetworkSpec => []TypeOK
    BY NetworkImplementsAddress, AddressTypeCorrect, PTL
  <1> QED
    BY <1>1, InitTable, TableStep, PTL DEF NetworkSpec

\* The address and the table keep their types.
THEOREM NetworkTypeCorrect == NetworkSpec => []NetworkTypeOK
  <1>1. TypeOK /\ TableInv => NetworkTypeOK
    BY DEF TableInv, NetworkTypeOK
  <1> QED
    BY <1>1, NetworkInvariant, PTL

\* A group that was joined when there was room stays in the table until it is
\* left, whatever the other entries go through.
THEOREM MembersKept == NetworkSpec => []MembersAreKept
  <1>1. TableInv => MembersAreKept
    BY DEF TableInv, MembersAreKept
  <1> QED
    BY <1>1, NetworkInvariant, PTL

\* Once the node has an address, every group in its table has been reported
\* from it, or is about to be.
THEOREM GroupsAnnounced == NetworkSpec => []GroupsAreAnnounced
  <1>1. TableInv => GroupsAreAnnounced
    BY DEF TableInv, GroupsAreAnnounced, EntryInv, Membership!Announced, Slots
  <1> QED
    BY <1>1, NetworkInvariant, PTL

\* What is proved of the address alone holds of the whole interface.
THEOREM NetworkAsksAndProbes ==
    NetworkSpec => [](RequestNamesOffer /\ WaitsWithTimer) /\ ProbedBeforeUse
  BY NetworkImplementsAddress, RequestsNameOffers, WaitingIsTimed, ProbedFirst,
     PTL
============================================================================
