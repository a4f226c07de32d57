------------------------------ MODULE Address ------------------------------
(***************************************************************************)
(* How the node gets its IPv4 address: the DHCP client (dhcp.cpp), address *)
(* conflict detection for a static address (acd.cpp), what net.cpp and     *)
(* network.cpp make of the two, and the table of software timers that both *)
(* take entries from.                                                      *)
(*                                                                         *)
(* The build is the one the H3 Makefiles make: CONFIG_NET_DHCP_USE_ACD and *)
(* CONFIG_NET_DHCP_USE_AUTOIP are not defined, so an ACK binds at once,    *)
(* and no ENET_LINK_CHECK_* is, so the link is read once at boot.  Nothing *)
(* calls dhcp_coarse_tmr: a lease is neither renewed nor given up.         *)
(*                                                                         *)
(* A server has one address to lease and is named by it.  What was sent to *)
(* the servers stays in sent, and an answer to any of it may come at any   *)
(* time and more than once: late, repeated and reordered answers.  Nobody  *)
(* reads RELEASE, DECLINE and INFORM here.  Time is counted in seconds by  *)
(* the ACD timer, and not at all by the DHCP timer.                        *)
(***************************************************************************)
EXTENDS Integers

CONSTANTS
    Servers,            \* DHCP servers, that is, the addresses they lease
    Statics,            \* addresses that SetIp is called with
    Secondary,          \* netif.secondary_ip, taken when SetIp is given 0
    RequestTries,       \* a REQUEST is sent again up to this number of tries
    ProbeNum, AnnounceNum, AnnounceWait, AnnounceInterval,
    ProbeMin, MaxConflicts, RateLimitInterval, DefendInterval,
    FreeTimers,         \* entries the others leave of SOFTWARE_TIMERS_MAX
    MaxXid,             \* transactions of one DHCP client (a bound)
    MaxCommands         \* calls of SetIp and EnableDhcp (a bound)

IP4_ANY == 0
Claimed == Statics \cup {Secondary}
Addresses == Servers \cup Claimed

ASSUME AddressesAssumption ==
    Addresses \subseteq Nat \ {IP4_ANY} /\ Servers \cap Claimed = {}
ASSUME CountsAssumption ==
    \A n \in {ProbeNum, AnnounceNum, AnnounceWait, AnnounceInterval, ProbeMin,
              MaxConflicts, RateLimitInterval, DefendInterval, FreeTimers,
              MaxXid} : n \in Nat \ {0}
ASSUME DefendAssumption == (AnnounceNum - 1) * AnnounceInterval <= DefendInterval
ASSUME BoundsAssumption == RequestTries \in Nat /\ MaxCommands \in Nat

VARIABLES
    link,       \* NETIF_FLAG_LINK_UP
    ip,         \* netif.ip
    dhcp,       \* netif.dhcp: the client, or NONE
    acd,        \* s_acd, and whether netif.acd points to it
    timers,     \* entries of the timer table that call either of the two
    sent,       \* what the servers may answer
    claim,      \* history: what was heard since acd_start, see Claim
    commands    \* calls so far

vars == <<link, ip, dhcp, acd, timers, sent, claim, commands>>

-----------------------------------------------------------------------------
(* Data *)

Clients == [state : {"NONE", "INIT", "SELECTING", "REQUESTING", "BOUND",
                     "BACKING_OFF"},
            tries : 0 .. RequestTries + 1,
            armed : BOOLEAN,                    \* request_timeout is not 0
            xid : 0 .. MaxXid,
            server : Servers \cup {IP4_ANY}, offered : Servers \cup {IP4_ANY}]

NoClient == [state |-> "NONE", tries |-> 0, armed |-> FALSE, xid |-> 0,
             server |-> IP4_ANY, offered |-> IP4_ANY]

Requests == [xid : 1 .. MaxXid, server : Servers, address : Servers]

Probing == {"PROBE_WAIT", "PROBING", "ANNOUNCE_WAIT"}

Detectors == [used : BOOLEAN,                   \* netif.acd is not null
              address : Claimed \cup {IP4_ANY},
              state : Probing \cup {"OFF", "ANNOUNCING", "ONGOING",
                                   "RATE_LIMIT"},
              sent : 0 .. ProbeNum + AnnounceNum,
              ttw : UNION {0 .. n : n \in {ProbeMin, AnnounceWait,
                                           AnnounceInterval, RateLimitInterval}},
              lastconflict : 0 .. DefendInterval,
              conflicts : 0 .. MaxCommands + 1,
              timer : BOOLEAN]                  \* nTimerId is an entry's

NoDetector ==
    [used |-> FALSE, address |-> IP4_ANY, state |-> "OFF", sent |-> 0,
     ttw |-> 0, lastconflict |-> 0, conflicts |-> 0, timer |-> FALSE]

\* A probe for the address has gone out, and what the others said to that.
Claims == [probed : BOOLEAN, contest : {"none", "defended", "lost"}]
NoClaim == [probed |-> FALSE, contest |-> "none"]

\* An address that changes is reported to the rest of the stack: see Network.
TypeOK ==
    /\ link \in BOOLEAN
    /\ ip \in Addresses \cup {IP4_ANY}
    /\ dhcp \in Clients
    /\ acd \in Detectors
    /\ timers \in [dhcp : Nat, acd : Nat]
    /\ timers.dhcp + timers.acd <= FreeTimers
    /\ sent \in [discovers : SUBSET (1 .. MaxXid), requests : SUBSET Requests]
    /\ claim \in Claims
    /\ commands \in 0 .. MaxCommands

-----------------------------------------------------------------------------
(* The DHCP client *)

Room == timers.dhcp + timers.acd < FreeTimers

SetState(d, state) ==
    IF d.state = state THEN d
    ELSE [d EXCEPT !.state = state, !.tries = 0, !.armed = FALSE]

\* Mutant: only the first try sets a timeout.
TriedOnce(d) ==
    [d EXCEPT !.tries = IF @ <= RequestTries THEN @ + 1 ELSE @,
              !.armed = d.tries = 0]

\* tries stops at 255; beyond RequestTries its value makes no difference.
Tried(d) ==
    [d EXCEPT !.tries = IF @ <= RequestTries THEN @ + 1 ELSE @, !.armed = TRUE]

\* dhcp_discover: a first try begins a new transaction.
Discover(d) ==
    LET selecting == SetState([d EXCEPT !.offered = IP4_ANY], "SELECTING")
    IN  Tried([selecting EXCEPT
                   !.xid = IF selecting.tries = 0 THEN @ + 1 ELSE @])

\* dhcp_select
Select(d) == Tried(SetState(d, "REQUESTING"))

SendDiscover(d) ==
    /\ dhcp' = Discover(d)
    /\ sent' = [sent EXCEPT !.discovers = @ \cup {dhcp'.xid}]

\* A REQUEST names the server and the address that the client holds now.
SendRequest(d) ==
    /\ dhcp' = Select(d)
    /\ sent' = [sent EXCEPT !.requests =
                    @ \cup {[xid |-> d.xid, server |-> d.server,
                             address |-> d.offered]}]

\* dhcp_start: the timer is added with the client, and never deleted.
Start(isNew) ==
    /\ timers' = IF isNew /\ Room THEN [timers EXCEPT !.dhcp = @ + 1]
                                  ELSE timers
    /\ IF link THEN SendDiscover(NoClient)
       ELSE /\ dhcp' = SetState(NoClient, "INIT")
            /\ UNCHANGED sent

\* dhcp_release_and_stop
Stop ==
    /\ dhcp' = NoClient
    /\ ip' = IF dhcp.state = "BOUND" THEN IP4_ANY ELSE ip

\* dhcp_fine_tmr, dhcp_timeout
DhcpTimer ==
    /\ timers.dhcp > 0
    /\ dhcp.armed
    /\ \/ /\ dhcp.state = "SELECTING"
          /\ SendDiscover([dhcp EXCEPT !.armed = FALSE])
          /\ UNCHANGED timers
       \/ /\ dhcp.state = "REQUESTING"
          /\ dhcp.tries <= RequestTries
          /\ SendRequest([dhcp EXCEPT !.armed = FALSE])
          /\ UNCHANGED timers
       \/ /\ dhcp.state = "REQUESTING"
          /\ dhcp.tries > RequestTries
          /\ Start(TRUE)
    /\ UNCHANGED <<link, ip, acd, claim, commands>>

\* Mutant: the server of the offer that came first is kept.
HeardFirst(s) ==
    [dhcp EXCEPT !.offered = IP4_ANY, !.server = IF @ = IP4_ANY THEN s ELSE @]

\* What dhcp_process does to every answer of the transaction before it looks
\* at the type: the offer it holds is forgotten, the server is the sender.
Heard(s) == [dhcp EXCEPT !.offered = IP4_ANY, !.server = s]

\* dhcp_run: an answer of another transaction is ignored.
Offer(s) ==
    /\ link
    /\ dhcp.state # "NONE"
    /\ dhcp.xid \in sent.discovers
    /\ LET heard == [Heard(s) EXCEPT !.offered = s]
       IN  IF dhcp.state = "SELECTING"
           THEN SendRequest([heard EXCEPT !.armed = FALSE])
           ELSE dhcp' = heard /\ UNCHANGED sent
    /\ UNCHANGED <<link, ip, acd, timers, claim, commands>>

\* A server acknowledges a request for what it leases.  dhcp_bind
Ack(r) ==
    /\ link
    /\ dhcp.state # "NONE"
    /\ r \in sent.requests
    /\ r.xid = dhcp.xid
    /\ r.server = r.address
    /\ IF dhcp.state = "REQUESTING"
       THEN /\ dhcp' = SetState([Heard(r.server) EXCEPT !.offered = r.address],
                                "BOUND")
            /\ ip' = r.address
       ELSE /\ dhcp' = Heard(r.server)
            /\ UNCHANGED ip
    /\ UNCHANGED <<link, acd, timers, sent, claim, commands>>

\* dhcp_handle_nak
Nak(r) ==
    /\ link
    /\ dhcp.state # "NONE"
    /\ r \in sent.requests
    /\ r.xid = dhcp.xid
    /\ IF dhcp.state = "REQUESTING"
       THEN /\ dhcp.xid < MaxXid
            /\ SendDiscover(SetState(Heard(r.server), "BACKING_OFF"))
            /\ ip' = IP4_ANY
       ELSE /\ dhcp' = Heard(r.server)
            /\ UNCHANGED <<ip, sent>>
    /\ UNCHANGED <<link, acd, timers, claim, commands>>

-----------------------------------------------------------------------------
(* Address conflict detection *)

\* acd_start does not reset sent: probes of a former start count.  The first
\* wait is random and shorter than a second, so that ttw is 0.
AcdStart(a) ==
    /\ acd' = [acd EXCEPT !.used = TRUE, !.address = a,
                          !.state = "PROBE_WAIT", !.ttw = 0, !.timer = Room]
    /\ timers' = IF Room THEN [timers EXCEPT !.acd = @ + 1] ELSE timers
    /\ claim' = NoClaim

\* acd_stop deletes the timer that was added last; d is what s_acd becomes.
AcdStop(d) ==
    /\ acd' = [d EXCEPT !.state = "OFF", !.timer = FALSE]
    /\ timers' = IF d.timer THEN [timers EXCEPT !.acd = @ - 1] ELSE timers

\* Mutant: counts on below 0.
LessAlways(n) == n - 1

Less(n) == IF n > 0 THEN n - 1 ELSE 0

SendProbe(d) ==
    /\ acd' = IF d.sent + 1 >= ProbeNum
              THEN [d EXCEPT !.state = "ANNOUNCE_WAIT", !.sent = 0,
                             !.ttw = AnnounceWait]
              ELSE [d EXCEPT !.state = "PROBING", !.sent = @ + 1,
                             !.ttw = ProbeMin]
    /\ claim' = [claim EXCEPT !.probed = TRUE]
    /\ UNCHANGED <<ip, timers>>

\* The last announcement makes the address the node's: ACD_IP_OK.
SendAnnouncement(d) ==
    LET conflicts == IF d.sent = 0 THEN 0 ELSE d.conflicts
    IN  /\ IF d.sent + 1 >= AnnounceNum
           THEN /\ acd' = [d EXCEPT !.state = "ONGOING", !.sent = 0, !.ttw = 0,
                                    !.conflicts = conflicts]
                /\ ip' = d.address
           ELSE /\ acd' = [d EXCEPT !.state = "ANNOUNCING", !.sent = @ + 1,
                                    !.ttw = AnnounceInterval,
                                    !.conflicts = conflicts]
                /\ UNCHANGED ip
        /\ UNCHANGED <<timers, claim>>

\* acd_timer: the callback of each of the ACD timers.
AcdTimer ==
    /\ timers.acd > 0
    /\ LET d == [acd EXCEPT !.lastconflict = Less(@), !.ttw = Less(@)]
           due == d.ttw = 0
       IN  \/ /\ due
              /\ d.state \in {"PROBE_WAIT", "PROBING"}
              /\ SendProbe(d)
           \/ /\ due
              /\ d.state \in {"ANNOUNCE_WAIT", "ANNOUNCING"}
              /\ SendAnnouncement(d)
           \/ /\ due
              /\ d.state = "RATE_LIMIT"
              /\ AcdStop(d)
              /\ UNCHANGED <<ip, claim>>
           \/ /\ ~ due \/ d.state \in {"OFF", "ONGOING"}
              /\ acd' = d
              /\ UNCHANGED <<ip, timers, claim>>
    /\ UNCHANGED <<link, dhcp, sent, commands>>

\* Mutant: probes for the same address again.
AcdRestartSame ==
    /\ acd' = [acd EXCEPT !.state = "PROBE_WAIT"]
    /\ UNCHANGED timers

\* acd_restart: the client's callback for ACD_DECLINE only clears a flag.
AcdRestart ==
    LET d == [acd EXCEPT !.conflicts = @ + 1]
    IN  IF d.conflicts >= MaxConflicts
        THEN /\ acd' = [d EXCEPT !.state = "RATE_LIMIT",
                                 !.ttw = RateLimitInterval]
             /\ UNCHANGED timers
        ELSE AcdStop(d)

\* acd_handle_arp_conflict
Defend ==
    IF acd.lastconflict > 0 THEN AcdRestart
    ELSE /\ acd' = [acd EXCEPT !.lastconflict = DefendInterval]
         /\ UNCHANGED timers

\* acd_arp_reply: another host says that the address is its own.  One that only
\* probes for the same address changes nothing: the code looks there for a
\* sender with an address, and with the node's own hardware address, where the
\* comment above it asks for another's.
Conflict ==
    /\ link
    /\ acd.used
    /\ \/ /\ acd.state \in Probing
          /\ AcdRestart
          /\ claim' = [claim EXCEPT !.contest = "lost"]
       \/ /\ acd.state \in {"ANNOUNCING", "ONGOING"}
          /\ Defend
          /\ claim' = [claim EXCEPT !.contest =
                           IF acd.state = "ONGOING" THEN @
                           ELSE IF @ = "none" THEN "defended" ELSE "lost"]
    /\ UNCHANGED <<link, ip, dhcp, sent, commands>>

-----------------------------------------------------------------------------
(* Network *)

\* Network::SetIp, net_set_primary_ip
SetIp(a) ==
    /\ commands < MaxCommands
    /\ commands' = commands + 1
    /\ a # ip
    /\ Stop
    /\ AcdStart(IF a = IP4_ANY THEN Secondary ELSE a)
    /\ UNCHANGED <<link, sent>>

EnableDhcp ==
    /\ commands < MaxCommands
    /\ commands' = commands + 1
    /\ Start(dhcp.state = "NONE")
    /\ UNCHANGED <<link, ip, acd, claim>>

\* net_init: what the stored parameters say is begun if the link is up.
Init ==
    /\ link \in BOOLEAN
    /\ ip = IP4_ANY
    /\ claim = NoClaim
    /\ commands = 0
    /\ LET none == [discovers |-> {}, requests |-> {}]
           noTimers == [dhcp |-> 0, acd |-> 0]
       IN  \/ /\ ~ link
              /\ dhcp = NoClient /\ acd = NoDetector
              /\ timers = noTimers /\ sent = none
           \/ /\ link
              /\ dhcp = Discover(NoClient) /\ acd = NoDetector
              /\ timers = [noTimers EXCEPT !.dhcp = 1]
              /\ sent = [none EXCEPT !.discovers = {1}]
           \/ /\ link
              /\ \E a \in Claimed :
                     acd = [NoDetector EXCEPT !.used = TRUE, !.address = a,
                                              !.state = "PROBE_WAIT",
                                              !.timer = TRUE]
              /\ dhcp = NoClient
              /\ timers = [noTimers EXCEPT !.acd = 1] /\ sent = none

Next ==
    \/ DhcpTimer
    \/ \E s \in Servers : Offer(s)
    \/ \E r \in sent.requests : Ack(r) \/ Nak(r)
    \/ AcdTimer
    \/ Conflict
    \/ \E a \in Statics \cup {IP4_ANY} : SetIp(a)
    \/ EnableDhcp

Spec == Init /\ [][Next]_vars

-----------------------------------------------------------------------------
(* Properties *)

\* An address that the node claims by itself becomes its address only after a
\* probe for it was sent, if nobody had it while it was probed for, and if
\* at most one host objected to the announcement, however often SetIp
\* was called, and DHCP started, in between.
ProbedBeforeUse ==
    [][ip' # ip /\ ip' \in Claimed
           => claim.probed /\ claim.contest # "lost"]_vars

\* Every REQUEST names an address and the server that offered it: two servers,
\* late answers of a former transaction and repeated requests do not mix
\* them up.
RequestNamesOffer ==
    \A r \in sent.requests : r.server = r.address /\ r.xid \in sent.discovers

\* A client that waits for an answer will ask again: no order of timeouts, NAKs,
\* late answers and commands leaves it without its timeout or its timer, as long
\* as the commands cannot have filled the timer table first.
WaitsWithTimer ==
    /\ FreeTimers > MaxCommands
    /\ dhcp.state \in {"SELECTING", "REQUESTING"}
    => dhcp.armed /\ timers.dhcp > 0

-----------------------------------------------------------------------------
=============================================================================
