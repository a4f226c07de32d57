-------------------------------- MODULE Igmp --------------------------------
(***************************************************************************)
(* The table of multicast groups: lib-network/src/net/igmp.cpp.  A group   *)
(* is reported when it is joined, once more a little later, when a router  *)
(* asks, and when the node's address changes.  The address and the link    *)
(* belong to another module; see Network.                                  *)
(***************************************************************************)
EXTENDS Naturals

CONSTANTS
    Groups,             \* multicast addresses
    NoGroup,            \* nGroupAddress of a free entry
    MaxJoins,           \* IGMP_MAX_JOINS_ALLOWED
    JoinTimer,          \* ticks until a joined group is reported again
    ReportDelay,        \* IGMP_JOIN_DELAYING_MEMBER_TMR
    ResponseTimes       \* max_resp_time of a query

VARIABLES
    link, ip,
    groups,             \* s_groups
    members,            \* history: groups somebody joined and has not left
    reported            \* history: groups reported from the present address

vars == <<groups, members, reported>>

Slots == 1 .. MaxJoins
Delays == (0 .. JoinTimer) \cup (0 .. ReportDelay)
              \cup UNION {0 .. 1 + (r \div 2) : r \in ResponseTimes}

Free == [address |-> NoGroup, state |-> "NON_MEMBER", timer |-> 0]

TypeOK ==
    /\ groups \in [Slots -> [address : Groups \cup {NoGroup},
                             state : {"NON_MEMBER", "DELAYING_MEMBER",
                                      "IDLE_MEMBER"},
                             timer : Delays]]
    /\ members \subseteq Groups
    /\ reported \subseteq Groups

\* igmp_send_report: what is sent while the link is down reaches nobody.
Reporting(g) == IF link THEN {g} ELSE {}

\* igmp_join takes the first entry that is the group's or free; if the table
\* is full, nothing is done.
IsFirst(i, accepted) ==
    /\ groups[i].address \in accepted
    /\ \A j \in 1 .. (i - 1) : groups[j].address \notin accepted

\* Mutant: the last entry is overwritten if the table is full.
JoinOver(g) ==
    /\ \E i \in Slots :
           /\ \/ IsFirst(i, {g, NoGroup})
              \/ i = MaxJoins /\ \A j \in Slots : groups[j].address # NoGroup
           /\ groups' = [groups EXCEPT ![i] =
                  [address |-> g, state |-> "DELAYING_MEMBER",
                   timer |-> JoinTimer]]
           /\ reported' = reported \cup Reporting(g)
    /\ members' = members \cup {g}
    /\ UNCHANGED <<link, ip>>

Join(g) ==
    /\ \/ \E i \in Slots :
              /\ IsFirst(i, {g, NoGroup})
              /\ IF groups[i].address = g THEN UNCHANGED <<groups, reported>>
                 ELSE /\ groups' = [groups EXCEPT ![i] =
                             [address |-> g, state |-> "DELAYING_MEMBER",
                              timer |-> JoinTimer]]
                      /\ reported' = reported \cup Reporting(g)
              /\ members' = members \cup {g}
       \/ /\ \A i \in Slots : groups[i].address \notin {g, NoGroup}
          /\ UNCHANGED vars
    /\ UNCHANGED <<link, ip>>

\* igmp_leave frees the first entry of the group.
Leave(g) ==
    /\ \E i \in Slots :
           /\ IsFirst(i, {g})
           /\ groups' = [groups EXCEPT ![i] = Free]
    /\ members' = members \ {g}
    /\ UNCHANGED <<link, ip, reported>>

\* igmp_handle: a query for one group, or for all.
Answering(e, r) ==
    IF e.state # "DELAYING_MEMBER" \/ r < e.timer
    THEN [e EXCEPT !.state = "DELAYING_MEMBER", !.timer = 1 + r \div 2]
    ELSE e

Query(asked, r) ==
    /\ link
    /\ groups' = [i \in Slots |-> IF groups[i].address \in asked
                                  THEN Answering(groups[i], r) ELSE groups[i]]
    /\ UNCHANGED <<link, ip, members, reported>>

\* igmp_timer, igmp_timeout
Due == {i \in Slots : groups[i].timer = 1 /\ groups[i].state = "DELAYING_MEMBER"}

Timer ==
    /\ groups' = [i \in Slots |->
           [groups[i] EXCEPT !.timer = IF @ > 0 THEN @ - 1 ELSE 0,
                             !.state = IF i \in Due THEN "IDLE_MEMBER" ELSE @]]
    /\ reported' = reported \cup UNION {Reporting(groups[i].address) : i \in Due}
    /\ UNCHANGED <<link, ip, members>>

\* Mutant: a group that has been reported is not reported again.
HurriesWaiting(e) ==
    e.state = "DELAYING_MEMBER" /\ (e.timer = 0 \/ ReportDelay < e.timer)

\* igmp_report_groups: igmp_delaying_member of every entry, by an address that
\* has just changed.
Hurries(e) ==
    \/ e.state = "IDLE_MEMBER"
    \/ e.state = "DELAYING_MEMBER" /\ (e.timer = 0 \/ ReportDelay < e.timer)

ReportGroups ==
    /\ \E delay \in [Slots -> 1 .. (ReportDelay - 1)] :
           groups' = [i \in Slots |->
               IF Hurries(groups[i])
               THEN [groups[i] EXCEPT !.state = "DELAYING_MEMBER",
                                      !.timer = delay[i]]
               ELSE groups[i]]
    /\ UNCHANGED members

Init ==
    /\ groups = [i \in Slots |-> Free]
    /\ members = {}
    /\ reported = {}

Next ==
    \/ \E g \in Groups : Join(g) \/ Leave(g)
    \/ \E r \in ResponseTimes :
           \/ Query(Groups, r)
           \/ \E g \in Groups : Query({g}, r)
    \/ Timer

-----------------------------------------------------------------------------
(* Properties *)

\* A group that was joined, and not left since, is in the table, if there was
\* room when it was joined: entries that are freed, taken twice or refused in
\* between do not cost it its own.
MembersAreKept == members \subseteq {groups[i].address : i \in Slots}

\* Every group in the table has been reported from the address that the node
\* has now, or will be by its timer.
Announced(g) ==
    g \in reported \/ \E i \in Slots : groups[i].address = g /\ groups[i].timer > 0
=============================================================================
