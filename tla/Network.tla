------------------------------ MODULE Network ------------------------------
(***************************************************************************)
(* The node's network interface: its address, and the multicast groups it  *)
(* reports from that address.  netif_do_set_ipaddr hands a new address to  *)
(* the report that igmp.cpp keeps, and then has every group reported.      *)
(***************************************************************************)
EXTENDS Address

CONSTANTS
    Groups, NoGroup, MaxJoins, JoinTimer, ReportDelay, ResponseTimes

ASSUME GroupsAssumption == NoGroup \notin Groups
ASSUME TableAssumption == MaxJoins \in Nat \ {0}
ASSUME DelaysAssumption ==
    /\ JoinTimer \in Nat \ {0}
    /\ ReportDelay \in Nat /\ ReportDelay > 2
    /\ ResponseTimes \subseteq Nat

VARIABLES groups, members, reported

Membership == INSTANCE Igmp

tableVars == <<groups, members, reported>>

\* netif_issue_reports
IssueReports ==
    IF link /\ ip' # IP4_ANY THEN Membership!ReportGroups
    ELSE UNCHANGED <<groups, members>>

\* netif_do_set_ipaddr
AddressStep ==
    /\ Next
    /\ IF ip' = ip THEN UNCHANGED tableVars
       ELSE IssueReports /\ reported' = {}

MembershipStep ==
    /\ Membership!Next
    /\ UNCHANGED <<dhcp, acd, timers, sent, claim, commands>>

NetworkInit == Init /\ Membership!Init

NetworkNext == AddressStep \/ MembershipStep

networkVars == <<vars, tableVars>>

NetworkSpec == NetworkInit /\ [][NetworkNext]_networkVars

-----------------------------------------------------------------------------
(* Properties *)

NetworkTypeOK == TypeOK /\ Membership!TypeOK

MembersAreKept == Membership!MembersAreKept

\* While the node has an address, each group in its table has been reported
\* from that address, or is about to be: whenever the address came, and
\* whatever was joined, asked for or under way by then.
GroupsAreAnnounced ==
    link /\ ip # IP4_ANY =>
        \A i \in Membership!Slots :
            groups[i].address = NoGroup \/ Membership!Announced(groups[i].address)
=============================================================================
