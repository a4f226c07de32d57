------------------------- MODULE RdmDiscoveryProofs -------------------------
(***************************************************************************)
(* Proofs about RDM discovery (RdmDiscovery), for every number of devices, *)
(* every size of the table and of the UIDs, and every number of losses     *)
(* that is smaller than the counters: the types, that discovery forgets no *)
(* device and publishes no ghost, and that its stack never overflows.      *)
(*                                                                         *)
(* A device that waits to be found lies in a branch that is left, is not   *)
(* muted, and will be heard: as long as it may still be asked in vain, the *)
(* counter in use is larger than the number of losses that are left.  For  *)
(* that to be inductive one must know what may be on the line: which       *)
(* answers to a mute are late ones, and that these are of no device that   *)
(* waits.  The stack has room because its branches are disjoint and        *)
(* ordered, and those at depth i are no larger than the i-th of the sizes  *)
(* StackAssumption speaks of.                                              *)
(***************************************************************************)
EXTENDS RdmDiscovery, FiniteSetTheorems, TLAPS

-----------------------------------------------------------------------------
(* The inductive invariant: the control state and the branches *)

\* The states in which a branch is being searched
Busy == {"DISCOVERY_SINGLE_DEVICE", "DUB", "QUICKFIND", "QUICKFIND_DISCOVERY"}

\* A branch is being searched.
Active == Doing \in Busy \/ Waits("DISCOVERY")

InBranch(d, b) == d \in b.lower .. b.upper

\* d lies in a branch that is still to be searched: the union of Left.
IsLeft(d) ==
    \/ \E i \in 1 .. Len(disc.stack) : InBranch(d, disc.stack[i])
    \/ Active /\ InBranch(d, disc.branch)

\* What the state says of the other members: the counters are at their start
\* in all states but those that count them.
Control ==
    /\ disc.saved \in {"IDLE", "DISCOVERY", "DISCOVERY_SINGLE_DEVICE",
                       "QUICKFIND", "FINISHED"}
    /\ disc.finished => In("IDLE")
    /\ disc.finished \/ Doing = "FINISHED" => disc.stack = <<>>
    /\ Doing \in {"UNMUTE", "MUTE"} => disc.stack = <<Whole>>
    /\ Doing = "UNMUTE" => disc.mute = MuteCounter
    /\ Doing = "QUICKFIND" => disc.target \in UIDs
    /\ disc.running => ~In("LATE_RESPONSE")
    /\ Waits("UNMUTE") => disc.unmute > 0
    /\ Waits("MUTE") => disc.entries > 0
    /\ Waits("QUICKFIND_DISCOVERY") => disc.quick > 0
    /\ Waits("DISCOVERY_SINGLE_DEVICE") => disc.target = disc.branch.lower
    /\ Doing \notin {"IDLE", "QUICKFIND_DISCOVERY"} =>
          disc.quick = QuickFindDiscoveryCounter
    /\ Doing \notin {"IDLE", "DISCOVERY_SINGLE_DEVICE"} =>
          disc.single > MaxLosses

\* The largest branches the stack holds, by depth
Sizes == CHOOSE size \in [1 .. TableSize -> 0 .. Last + 1] :
            /\ size[1] = Last + 1 /\ size[TableSize] <= 1
            /\ \A i \in 1 .. TableSize - 1 : size[i + 1] >= size[i] \div 2
Size(b) == b.upper + 1 - b.lower

\* The branches of the stack lie one behind the other.
StackFits(s) ==
    /\ Len(s) <= TableSize
    /\ \A i \in 1 .. Len(s) :
          /\ s[i].lower <= s[i].upper /\ Size(s[i]) <= Sizes[i]
          /\ \A j \in i + 1 .. Len(s) : s[i].upper < s[j].lower

\* The branch that is searched lies behind all of the stack.
BranchFits(s, b) ==
    /\ Len(s) < TableSize /\ Size(b) <= Sizes[Len(s) + 1]
    /\ \A i \in 1 .. Len(s) : s[i].upper < b.lower

Branches ==
    /\ StackFits(disc.stack)
    /\ Active =>
          /\ BranchFits(disc.stack, disc.branch)
          /\ IF Doing = "DISCOVERY_SINGLE_DEVICE"
             THEN disc.branch.lower = disc.branch.upper
             ELSE disc.branch.lower < disc.branch.upper

-----------------------------------------------------------------------------
(* The inductive invariant: the table and the line *)

\* Answers that tell a UID tell one of S.
LineOf(S) == \A i \in DOMAIN line :
                line[i].kind \in {"branch", "mute"} => line[i].uid \in S

\* Entries of the table are distinct, and like answers they are of devices.
Distinct == \A i, j \in DOMAIN tod : tod[i] = tod[j] => i = j

TableOK == Distinct /\ Table \subseteq Devices /\ LineOf(Devices)

\* What the table and the line hold has been seen, but for what an incremental
\* discovery has not looked at yet: entries 1 .. disc.entries of the table.
History ==
    /\ past.steady \subseteq present /\ present \subseteq past.seen
    /\ disc.incremental /\ ~In("IDLE") => past.steady = present
    /\ Doing = "UNMUTE" =>
          IF disc.incremental THEN disc.entries = Len(tod) ELSE tod = <<>>
    /\ Doing = "MUTE" =>
          /\ disc.incremental /\ disc.entries <= Len(tod)
          /\ disc.running => disc.target = tod[disc.entries]
          /\ \A i \in disc.entries + 1 .. Len(tod) : tod[i] \in past.seen
    /\ Doing \notin {"UNMUTE", "MUTE"} => Table \subseteq past.seen
    /\ ~(Doing = "UNMUTE" /\ disc.unmute = UnmuteCounter) => LineOf(past.seen)

\* The answer to DISC_MUTE
MuteOf(uid) == [kind |-> "mute", uid |-> uid]

\* While an incremental discovery looks at its entries there is nothing on the
\* line but the answer it waits for.
CalmLine ==
    disc.incremental /\ Doing \in {"UNMUTE", "MUTE"} =>
       /\ ~gateway
       /\ line # <<>> =>
             /\ Waits("MUTE") /\ disc.target \in present
             /\ line = <<MuteOf(disc.target)>>

IsMute(i) == line[i].kind = "mute"

\* A mute is stale that came too late: it is the oldest answer, and its device
\* is not left.
NoMutes == \A i \in DOMAIN line : ~IsMute(i)
OneMute == \A i, j \in DOMAIN line : IsMute(i) /\ IsMute(j) => i = j
StaleMute(i) == i = 1 /\ ~IsLeft(line[i].uid)

\* Where there may be answers to a mute on the line
MutesFit ==
    /\ Doing = "UNMUTE" /\ disc.unmute < UnmuteCounter => NoMutes
    /\ Doing \in {"DUB", "QUICKFIND_DISCOVERY"} => NoMutes
    /\ Doing = "QUICKFIND" =>
          IF disc.running
          THEN /\ OneMute
               /\ \A i \in DOMAIN line : IsMute(i) => line[i].uid = disc.target
          ELSE NoMutes
    /\ Doing \in {"DISCOVERY", "DISCOVERY_SINGLE_DEVICE"} /\ ~disc.running =>
          \A i \in DOMAIN line : IsMute(i) => StaleMute(i)
    /\ Waits("DISCOVERY") =>
          \A i \in DOMAIN line :
             IsMute(i) => i = 1 /\ disc.discovery = DiscoveryCounter
    /\ Waits("DISCOVERY_SINGLE_DEVICE") =>
          /\ \A i \in DOMAIN line : IsMute(i) =>
                /\ line[i].uid = disc.target \/ StaleMute(i)
                /\ disc.single = 0 => i = 1
          /\ \A i, j \in DOMAIN line :
                line[i] = MuteOf(disc.target) /\ line[j] = MuteOf(disc.target)
                   => i = j

-----------------------------------------------------------------------------
(* The inductive invariant: patience *)

\* The devices that are to be found
Waiting == past.steady \ Table

\* No answer to discovery, or none of the device it mutes, has come.
Silent == \A i \in DOMAIN line : line[i] = Foreign
Unheard == \A i \in DOMAIN line : line[i] # MuteOf(disc.target)

\* The counter outlasts the losses: one that is missed counts already.
Patience(count, missed) ==
    count > past.losses + (IF disc.running /\ missed THEN 1 ELSE 0)

\* Who is still muted will hear an unmute.
PatientUnmute ==
    Doing = "UNMUTE" =>
       \A d \in past.steady \cap muted : Patience(disc.unmute, TRUE)

\* A device that is there will answer to its mute.
PatientMute ==
    Doing = "MUTE" => \/ Waits("MUTE") /\ disc.target \notin present
                      \/ Patience(disc.mute, line = <<>>)

\* A device that waits is not muted, unless its own mute is under way.
Unmuted(d) ==
    /\ Doing \in {"MUTE", "DISCOVERY", "DUB", "QUICKFIND_DISCOVERY"}
          => d \notin muted
    /\ Doing = "QUICKFIND" => d \notin muted \/ d = disc.target
    /\ Doing = "DISCOVERY_SINGLE_DEVICE" =>
          d \notin muted \/ (disc.running /\ d = disc.target)

\* A device in the branch that is searched will be heard there.
WillBeHeard(d) ==
    InBranch(d, disc.branch) =>
       /\ Waits("DISCOVERY") => Patience(disc.discovery, Silent)
       /\ Doing = "DUB" => disc.response # Nothing
       /\ Doing = "QUICKFIND_DISCOVERY" => Patience(disc.quick, Silent)
       /\ Doing = "DISCOVERY_SINGLE_DEVICE" => Patience(disc.single, Unheard)

Patient == /\ PatientUnmute /\ PatientMute
           /\ \A d \in Waiting : IsLeft(d) /\ Unmuted(d) /\ WillBeHeard(d)

\* All this is claimed of a discovery that is sound.
SoundInv == Sound => History /\ CalmLine /\ MutesFit /\ Patient

IInv == TypeOK /\ Control /\ Branches /\ TableOK /\ SoundInv

-----------------------------------------------------------------------------
(* Constants and sequences *)

\* The sizes of the ranges and counters
LEMMA ConstantTypes ==
    /\ Quarter \in Nat \ {0} /\ Half = 2 * Quarter
    /\ Last = 4 * Quarter - 2 /\ All = 4 * Quarter - 1
    /\ Last \in Nat /\ All \in Nat /\ UIDs = 0 .. Last /\ All \notin UIDs
    /\ UnmuteCounter \in Nat \ {0} /\ MuteCounter \in Nat \ {0}
    /\ DiscoveryCounter \in Nat \ {0}
    /\ QuickFindDiscoveryCounter \in Nat \ {0}
    /\ TableSize \in Nat \ {0} /\ MaxLosses \in Nat /\ MaxMoves \in Nat
    /\ MaxLosses < UnmuteCounter /\ MaxLosses < MuteCounter
    /\ MaxLosses < DiscoveryCounter /\ MaxLosses < QuickFindDiscoveryCounter
    /\ Devices \subseteq UIDs
<1>1. /\ Quarter \in Nat \ {0} /\ Half = 2 * Quarter
      /\ Last = 4 * Quarter - 2 /\ All = 4 * Quarter - 1
  BY QuarterAssumption DEF Half, Last, All
<1>2. Last \in Nat /\ All \in Nat /\ UIDs = 0 .. Last /\ All \notin UIDs
  BY <1>1 DEF UIDs
<1>3. /\ UnmuteCounter \in Nat \ {0} /\ MuteCounter \in Nat \ {0}
      /\ DiscoveryCounter \in Nat \ {0}
      /\ QuickFindDiscoveryCounter \in Nat \ {0}
      /\ TableSize \in Nat \ {0}
  BY CountersAssumption
<1>4. /\ MaxLosses \in Nat /\ MaxMoves \in Nat
      /\ MaxLosses < UnmuteCounter /\ MaxLosses < MuteCounter
      /\ MaxLosses < DiscoveryCounter
      /\ MaxLosses < QuickFindDiscoveryCounter
  BY BoundsAssumption, LossesAssumption
<1> QED
  BY <1>1, <1>2, <1>3, <1>4, DevicesAssumption

\* What the stack has room for
LEMMA SizesAre ==
    /\ Sizes \in [1 .. TableSize -> 0 .. Last + 1]
    /\ Sizes[1] = Last + 1 /\ Sizes[TableSize] <= 1
    /\ \A i \in 1 .. TableSize - 1 : Sizes[i + 1] >= Sizes[i] \div 2
BY StackAssumption DEF Sizes

\* A stack without its top
LEMMA Front ==
    ASSUME NEW S, NEW s \in Seq(S), s # <<>>
    PROVE  /\ SubSeq(s, 1, Len(s) - 1) \in Seq(S)
           /\ Len(SubSeq(s, 1, Len(s) - 1)) = Len(s) - 1
           /\ \A i \in 1 .. Len(s) - 1 : SubSeq(s, 1, Len(s) - 1)[i] = s[i]
           /\ Len(s) \in 1 .. Len(s) /\ s[Len(s)] \in S
<1> DEFINE n == Len(s) - 1
<1>1. Len(s) \in Nat \ {0}
  OBVIOUS
<1>2. s[Len(s)] \in S
  BY <1>1
<1>3. SubSeq(s, 1, Len(s) - 1) = [i \in 1 .. Len(s) - 1 |-> s[i]]
  BY <1>1
<1>4. n \in Nat /\ \A i \in 1 .. n : s[i] \in S
  BY <1>1
<1>5. [i \in 1 .. n |-> s[i]] \in Seq(S) /\ Len([i \in 1 .. n |-> s[i]]) = n
  BY <1>4
<1>6. Len(s) \in 1 .. Len(s)
  BY <1>1
<1> QED
  BY <1>2, <1>3, <1>5, <1>6

\* A sequence without its n-th entry
LEMMA Removed ==
    ASSUME NEW S, NEW s \in Seq(S), NEW n \in 1 .. Len(s),
           NEW t, t = [i \in 1 .. Len(s) - 1 |->
                          IF i < n THEN s[i] ELSE s[i + 1]]
    PROVE  /\ t \in Seq(S) /\ Len(t) = Len(s) - 1
           /\ \A i \in 1 .. n - 1 : t[i] = s[i]
           /\ \A i \in n .. Len(s) - 1 : t[i] = s[i + 1]
<1> DEFINE m == Len(s) - 1
<1>1. Len(s) \in Nat \ {0} /\ m \in Nat
  OBVIOUS
<1>2. \A i \in 1 .. m : (IF i < n THEN s[i] ELSE s[i + 1]) \in S
  BY <1>1
<1>3. t \in [1 .. m -> S]
  BY <1>2
<1>4. t \in Seq(S) /\ Len(t) = m
  BY <1>1, <1>3
<1> QED
  BY <1>1, <1>4

\* A sequence with one more entry
LEMMA Appended ==
    ASSUME NEW S, NEW s \in Seq(S), NEW a \in S
    PROVE  /\ Append(s, a) \in Seq(S)
           /\ Len(Append(s, a)) = Len(s) + 1
           /\ DOMAIN Append(s, a) = 1 .. Len(s) + 1
           /\ DOMAIN s = 1 .. Len(s) /\ Len(s) \in Nat
           /\ \A i \in 1 .. Len(s) : Append(s, a)[i] = s[i]
           /\ Append(s, a)[Len(s) + 1] = a
           /\ Append(s, a) # <<>>
OBVIOUS

\* A sequence without its first entry
LEMMA Shifted ==
    ASSUME NEW S, NEW s \in Seq(S), s # <<>>
    PROVE  /\ Tail(s) \in Seq(S) /\ Head(s) \in S /\ Head(s) = s[1]
           /\ Len(Tail(s)) = Len(s) - 1 /\ Len(s) \in Nat \ {0}
           /\ DOMAIN Tail(s) = 1 .. Len(s) - 1 /\ DOMAIN s = 1 .. Len(s)
           /\ \A i \in 1 .. Len(s) - 1 : Tail(s)[i] = s[i + 1]
OBVIOUS

\* Entries before and behind one that is put on a sequence
LEMMA Put ==
    ASSUME NEW S, NEW s \in Seq(S), NEW a \in S
    PROVE  s \o <<a>> = Append(s, a) /\ s \o <<>> = s
OBVIOUS

\* The entries of a sequence that differ are finitely many, and as long as
\* their number is not 0 there are some.
LEMMA Counted ==
    ASSUME NEW S, NEW s \in Seq(S), NEW a
    PROVE  LET n == Cardinality({i \in DOMAIN s : s[i] # a})
           IN  n \in Nat /\ ((\E i \in DOMAIN s : s[i] # a) => n > 0)
<1> DEFINE differ == {i \in DOMAIN s : s[i] # a}
<1>1. Len(s) \in Nat /\ DOMAIN s = 1 .. Len(s)
  OBVIOUS
<1>2. IsFiniteSet(DOMAIN s)
  BY <1>1, FS_Interval
<1>3. differ \in SUBSET (DOMAIN s)
  OBVIOUS
<1>4. IsFiniteSet(differ)
  BY <1>2, <1>3, FS_Subset
<1>5. Cardinality(differ) \in Nat /\ (Cardinality(differ) = 0 <=> differ = {})
  BY <1>4, FS_CardinalityType, FS_EmptySet
<1> QED
  BY <1>5

\* A table without two equal entries that lacks a device has room for it.
LEMMA Room ==
    ASSUME NEW t \in Seq(Devices), NEW d \in Devices,
           \A i, j \in DOMAIN t : t[i] = t[j] => i = j,
           \A i \in DOMAIN t : t[i] # d
    PROVE  Len(t) < TableSize
<1> DEFINE rest == Devices \ {d}
<1>1. Len(t) \in Nat /\ DOMAIN t = 1 .. Len(t)
  OBVIOUS
<1>2. IsFiniteSet(Devices) /\ Cardinality(Devices) \in Nat
  BY TableAssumption, FS_CardinalityType
<1>3. IsFiniteSet(rest) /\ Cardinality(rest) = Cardinality(Devices) - 1
  BY <1>2, FS_RemoveElement
<1>4. t \in [1 .. Len(t) -> rest]
  BY <1>1
<1>5. t \in Injection(1 .. Len(t), rest)
  BY <1>1, <1>4 DEF Injection, IsInjective
<1>6. Cardinality(1 .. Len(t)) <= Cardinality(rest)
  BY <1>3, <1>5, FS_Injection
<1>7. Cardinality(1 .. Len(t)) = IF 1 > Len(t) THEN 0 ELSE Len(t) - 1 + 1
  BY <1>1, FS_Interval, SMTT(60)
<1> QED
  BY <1>1, <1>2, <1>3, <1>6, <1>7, TableAssumption, ConstantTypes

\* The middle of a branch parts it into two that are not empty, and the upper
\* one is no larger than half.
LEMMA Middle ==
    ASSUME NEW b \in Branch, b.lower < b.upper
    PROVE  /\ MidPosition(b) \in b.lower .. b.upper - 1
           /\ b.upper - MidPosition(b) <= Size(b) \div 2
<1>1. b.lower \in 0 .. Last /\ b.upper \in 0 .. Last
  BY DEF Branch, UIDs
<1>2. /\ Quarter \in Nat \ {0} /\ Half = 2 * Quarter
      /\ Last = 4 * Quarter - 2
  BY ConstantTypes
<1>3. MidPosition(b) = (b.lower + b.upper) \div 2
  BY <1>1, <1>2 DEF MidPosition, Low
<1> QED
  BY <1>1, <1>2, <1>3 DEF Size

-----------------------------------------------------------------------------
(* What the operators do *)

\* Some states, and the answers there may be
LEMMA DataTypes ==
    /\ Whole \in Branch /\ Noise \in Answer /\ Foreign \in Answer
    /\ Foreign # Noise /\ Foreign.kind = "rdm" /\ Noise.kind = "noise"
    /\ Nothing.kind = "none"
    /\ \A uid \in UIDs : MuteOf(uid) \in Answer
    /\ \A uid \in UIDs : [kind |-> "branch", uid |-> uid] \in Answer
    /\ \A r \in Answer : /\ r.kind \in {"branch", "mute", "noise", "rdm"}
                         /\ r.kind \in {"branch", "mute"} => r.uid \in UIDs
                         /\ r.kind = "mute" => r = MuteOf(r.uid)
                         /\ r # Nothing
<1>1. Whole \in Branch
  BY ConstantTypes DEF Whole, Branch
<1>2. /\ Noise \in Answer /\ Foreign \in Answer
      /\ Foreign # Noise /\ Foreign.kind = "rdm" /\ Noise.kind = "noise"
      /\ Nothing.kind = "none"
  BY DEF Noise, Foreign, Answer, Nothing
<1>3. /\ \A uid \in UIDs : MuteOf(uid) \in Answer
      /\ \A uid \in UIDs : [kind |-> "branch", uid |-> uid] \in Answer
  BY DEF Answer, MuteOf
<1>4. ASSUME NEW r \in Answer
      PROVE  /\ r.kind \in {"branch", "mute", "noise", "rdm"}
             /\ r.kind \in {"branch", "mute"} => r.uid \in UIDs
             /\ r.kind = "mute" => r = MuteOf(r.uid)
             /\ r # Nothing
  <2>1. CASE r \in [kind : {"branch", "mute"}, uid : UIDs]
    BY <2>1 DEF MuteOf, Nothing
  <2>2. CASE r \in {Noise, Foreign}
    BY <2>2 DEF Noise, Foreign, Nothing
  <2> QED
    BY <1>4, <2>1, <2>2 DEF Answer
<1> QED
  BY <1>1, <1>2, <1>3, <1>4

\* NewState
LEMMA EnterType ==
    ASSUME disc \in Discovery, NEW s \in States
    PROVE  Enter(s) \in Discovery
BY DataTypes DEF Discovery, Enter

\* LateResponse: the state to come back to is saved.
LEMMA EnterLateType ==
    ASSUME disc \in Discovery, NEW s \in States
    PROVE  EnterLate(s) \in Discovery
<1>1. Enter(s) \in Discovery
  BY EnterType
<1> DEFINE d == Enter(s)
<1> HIDE DEF d
<1>2. [d EXCEPT !.state = "LATE_RESPONSE", !.saved = s] \in Discovery
  BY <1>1 DEF Discovery, States, d
<1> QED
  BY <1>2 DEF EnterLate, d

\* What a request takes from the history: losses
PastLoses ==
    /\ past' \in Past /\ past'.losses <= past.losses
    /\ past'.steady = past.steady /\ past'.seen = past.seen
    /\ past'.flushed = past.flushed /\ past'.moves = past.moves

\* A request that is lost is the only thing that is counted.
LEMMA LostLoses ==
    ASSUME past \in Past, Lost(1)
    PROVE  /\ PastLoses /\ past'.quiet = past.quiet
           /\ past'.losses < past.losses
<1>1. past.losses \in 0 .. MaxLosses /\ MaxLosses \in Nat
  BY ConstantTypes DEF Past
<1>2. past.losses - 1 \in 0 .. MaxLosses /\ past.losses - 1 < past.losses
  BY <1>1 DEF Lost
<1>3. past' = [past EXCEPT !.losses = past.losses - 1]
  BY DEF Lost
<1>4. past' \in Past /\ past'.losses = past.losses - 1
      /\ past'.steady = past.steady /\ past'.seen = past.seen
      /\ past'.flushed = past.flushed /\ past'.moves = past.moves
      /\ past'.quiet = past.quiet
  BY <1>2, <1>3 DEF Past
<1> QED
  BY <1>1, <1>2, <1>4 DEF PastLoses

\* A request to a device that does not hear it is lost.
LEMMA HearsLoses ==
    ASSUME past \in Past, NEW heard, Hears(heard)
    PROVE  /\ PastLoses /\ past'.quiet = past.quiet /\ heard \subseteq present
           /\ \A d \in present : d \in heard \/ past'.losses < past.losses
<1>1. CASE heard = present /\ UNCHANGED past
  BY <1>1 DEF PastLoses, Past
<1>2. CASE \E d \in present : heard = present \ {d} /\ Lost(1)
  <2>1. PastLoses /\ past'.quiet = past.quiet /\ past'.losses < past.losses
    BY <1>2, LostLoses
  <2> QED
    BY <1>2, <2>1
<1> QED
  BY <1>1, <1>2 DEF Hears

\* DISC_UN_MUTE
LEMMA UnmuteSent ==
    ASSUME past \in Past, line \in Seq(Answer), SendUnmute
    PROVE  /\ PastLoses /\ past'.quiet = past.quiet
           /\ muted' \subseteq muted /\ line' \in {line, <<>>}
           /\ \A d \in present : d \notin muted' \/ past'.losses < past.losses
<1>1. PICK heard \in SUBSET present :
          Hears(heard) /\ muted' = muted \ heard /\ Comes(<<>>)
  BY DEF SendUnmute
<1>2. PastLoses /\ past'.quiet = past.quiet
      /\ \A d \in present : d \in heard \/ past'.losses < past.losses
  BY <1>1, HearsLoses
<1>3. line' \in {line, <<>>}
  BY <1>1, Put DEF Comes
<1> QED
  BY <1>1, <1>2, <1>3

\* DISC_MUTE
LEMMA MuteSent ==
    ASSUME past \in Past, line \in Seq(Answer), Devices \subseteq UIDs,
           present \subseteq Devices, muted \subseteq present,
           NEW uid, SendMute(uid)
    PROVE  /\ PastLoses /\ past'.quiet = past.quiet
           /\ muted \subseteq muted' /\ muted' \subseteq present
           /\ uid # All => muted' \subseteq muted \cup {uid}
           /\ \E kept \in {line, <<>>} :
                 \/ line' = kept
                    /\ (uid \in present => past'.losses < past.losses)
                 \/ uid \in present /\ line' = Append(kept, MuteOf(uid))
<1>1. PICK heard \in SUBSET present :
         LET mutes == {d \in heard : uid \in {d, All}}
         IN  /\ muted' = muted \cup mutes
             /\ \/ /\ Hears(heard)
                   /\ Comes(IF uid \in mutes THEN <<MuteOf(uid)>> ELSE <<>>)
                \/ heard = present /\ uid \in mutes /\ Lost(1) /\ Comes(<<>>)
  BY DEF SendMute, MuteOf
<1> DEFINE mutes == {d \in heard : uid \in {d, All}}
<1>2. /\ muted \subseteq muted' /\ muted' \subseteq present
      /\ uid # All => muted' \subseteq muted \cup {uid}
  BY <1>1
<1>3. CASE Hears(heard)
           /\ Comes(IF uid \in mutes THEN <<MuteOf(uid)>> ELSE <<>>)
  <2>1. PastLoses /\ past'.quiet = past.quiet
        /\ \A d \in present : d \in heard \/ past'.losses < past.losses
    BY <1>3, HearsLoses
  <2>2. CASE uid \in mutes
    <3>1. uid \in present /\ MuteOf(uid) \in Answer
      BY <2>2, DataTypes
    <3>2. PICK kept \in {line, <<>>} : line' = kept \o <<MuteOf(uid)>>
      BY <1>3, <2>2 DEF Comes
    <3>3. line' = Append(kept, MuteOf(uid))
      BY <3>1, <3>2, Put
    <3> QED
      BY <1>2, <2>1, <3>1, <3>3
  <2>3. CASE uid \notin mutes
    <3>1. PICK kept \in {line, <<>>} : line' = kept \o <<>>
      BY <1>3, <2>3 DEF Comes
    <3>2. line' = kept
      BY <3>1
    <3>3. uid \in present => past'.losses < past.losses
      BY <2>1, <2>3
    <3> QED
      BY <1>2, <2>1, <3>2, <3>3
  <2> QED
    BY <2>2, <2>3
<1>4. CASE heard = present /\ uid \in mutes /\ Lost(1) /\ Comes(<<>>)
  <2>1. PastLoses /\ past'.quiet = past.quiet /\ past'.losses < past.losses
    BY <1>4, LostLoses
  <2>2. PICK kept \in {line, <<>>} : line' = kept \o <<>>
    BY <1>4 DEF Comes
  <2>3. line' = kept
    BY <2>2
  <2> QED
    BY <1>2, <2>1, <2>3
<1> QED
  BY <1>1, <1>3, <1>4

\* An answer to DISC_UNIQUE_BRANCH: of one device, or of several at once
BranchAnswer(a) == /\ a \in Answer /\ a.kind \in {"branch", "noise"}
                   /\ a.kind = "branch" => a.uid \in present
                   /\ a # Foreign

\* DISC_UNIQUE_BRANCH: an answer comes last, or a device that should have
\* answered costs a loss.
LEMMA BranchSent ==
    ASSUME past \in Past, line \in Seq(Answer), Devices \subseteq UIDs,
           present \subseteq Devices,
           NEW b, SendBranch(b)
    PROVE  /\ PastLoses /\ past'.quiet = past.quiet /\ muted' = muted
           /\ \E kept \in {line, <<>>} :
                 \/ line' = kept
                    /\ \A d \in present \ muted :
                          InBranch(d, b) => past'.losses < past.losses
                 \/ \E a \in Answer : BranchAnswer(a) /\ line' = Append(kept, a)
<1>1. PICK heard \in SUBSET present :
         LET answer == {d \in heard \ muted : d \in b.lower .. b.upper}
         IN  /\ UNCHANGED muted
             /\ \/ /\ Hears(heard)
                   /\ \/ answer = {} /\ Comes(<<>>)
                      \/ Cardinality(answer) > 1 /\ Comes(<<Noise>>)
                      \/ \E d \in answer :
                            Comes(<< [kind |-> "branch", uid |-> d] >>)
                \/ heard = present /\ answer # {} /\ Lost(1) /\ Comes(<<>>)
  BY DEF SendBranch
<1> DEFINE answer == {d \in heard \ muted : d \in b.lower .. b.upper}
<1>2. CASE Hears(heard) /\ answer = {} /\ Comes(<<>>)
  <2>1. PastLoses /\ past'.quiet = past.quiet
        /\ \A d \in present : d \in heard \/ past'.losses < past.losses
    BY <1>2, HearsLoses
  <2>2. PICK kept \in {line, <<>>} : line' = kept \o <<>>
    BY <1>2 DEF Comes
  <2>3. line' = kept
    BY <2>2
  <2>4. \A d \in present \ muted : InBranch(d, b) => past'.losses < past.losses
    BY <1>2, <2>1 DEF InBranch
  <2> QED
    BY <1>1, <2>1, <2>3, <2>4
<1>3. CASE Hears(heard) /\ Comes(<<Noise>>)
  <2>1. PastLoses /\ past'.quiet = past.quiet
    BY <1>3, HearsLoses
  <2>2. PICK kept \in {line, <<>>} : line' = kept \o <<Noise>>
    BY <1>3 DEF Comes
  <2>3. line' = Append(kept, Noise) /\ BranchAnswer(Noise)
    BY <2>2, Put, DataTypes DEF BranchAnswer
  <2> QED
    BY <1>1, <2>1, <2>3, DataTypes
<1>4. CASE Hears(heard)
           /\ \E d \in answer : Comes(<< [kind |-> "branch", uid |-> d] >>)
  <2>1. PastLoses /\ past'.quiet = past.quiet
    BY <1>4, HearsLoses
  <2>2. PICK d \in answer : Comes(<< [kind |-> "branch", uid |-> d] >>)
    BY <1>4
  <2> DEFINE a == [kind |-> "branch", uid |-> d]
  <2>3. PICK kept \in {line, <<>>} : line' = kept \o <<a>>
    BY <2>2 DEF Comes
  <2>4. d \in present /\ a \in Answer /\ a.kind = "branch" /\ a.uid = d
    BY DataTypes
  <2>5. BranchAnswer(a)
    BY <2>4, DataTypes DEF BranchAnswer
  <2> HIDE DEF a
  <2>6. line' = Append(kept, a)
    BY <2>3, <2>4, Put
  <2> QED
    BY <1>1, <2>1, <2>4, <2>5, <2>6
<1>5. CASE heard = present /\ Lost(1) /\ Comes(<<>>)
  <2>1. PastLoses /\ past'.quiet = past.quiet /\ past'.losses < past.losses
    BY <1>5, LostLoses
  <2>2. PICK kept \in {line, <<>>} : line' = kept \o <<>>
    BY <1>5 DEF Comes
  <2>3. line' = kept
    BY <2>2
  <2> QED
    BY <1>1, <2>1, <2>3
<1> QED
  BY <1>1, <1>2, <1>3, <1>4, <1>5

\* An answer is read.
LEMMA Received ==
    ASSUME line \in Seq(Answer), NEW r, Receives(r)
    PROVE  /\ r \in Answer /\ r = line[1] /\ line # <<>>
           /\ line' \in Seq(Answer) /\ Len(line) \in Nat \ {0}
           /\ Len(line') = Len(line) - 1
           /\ DOMAIN line = 1 .. Len(line) /\ DOMAIN line' = 1 .. Len(line')
           /\ \A i \in DOMAIN line' : i + 1 \in DOMAIN line
                                      /\ line'[i] = line[i + 1]
<1>1. r = Head(line) /\ line' = Tail(line) /\ line # <<>>
  BY DEF Receives
<1> QED
  BY <1>1, Shifted

\* CopyUidEntry, AddUid and Delete
LEMMA EntryType ==
    ASSUME tod \in Seq(UIDs), NEW n
    PROVE  Entry(n) \in UIDs \cup {All}
BY DEF Entry

\* AddUid puts a UID that the table lacks behind its last entry.
LEMMA Added ==
    ASSUME tod \in Seq(UIDs), Len(tod) <= TableSize,
           NEW uid \in UIDs, AddUid(uid)
    PROVE  /\ tod' \in Seq(UIDs) /\ Len(tod') <= TableSize
           /\ Table \subseteq Table' /\ Table' \subseteq Table \cup {uid}
           /\ Len(tod) < TableSize => uid \in Table'
           /\ (\A i, j \in DOMAIN tod : tod[i] = tod[j] => i = j)
                 => \A i, j \in DOMAIN tod' : tod'[i] = tod'[j] => i = j
<1>1. CASE Len(tod) = TableSize \/ uid \in Table
  BY <1>1, ConstantTypes DEF AddUid, Table
<1>2. CASE ~(Len(tod) = TableSize \/ uid \in Table)
  <2>1. tod' = Append(tod, uid) /\ uid \notin Table
    BY <1>2 DEF AddUid
  <2>2. /\ tod' \in Seq(UIDs) /\ Len(tod') = Len(tod) + 1
        /\ DOMAIN tod' = 1 .. Len(tod) + 1
        /\ DOMAIN tod = 1 .. Len(tod) /\ Len(tod) \in Nat
        /\ \A i \in 1 .. Len(tod) : tod'[i] = tod[i]
        /\ tod'[Len(tod) + 1] = uid
    BY <2>1, Appended
  <2>3. \A i \in 1 .. Len(tod) : tod[i] # uid
    BY <2>1, <2>2 DEF Table
  <2>4. Table \subseteq Table' /\ Table' \subseteq Table \cup {uid}
        /\ uid \in Table'
    BY <2>2 DEF Table
  <2>5. Len(tod') <= TableSize
    <3>1. TableSize \in Nat
      BY ConstantTypes
    <3>2. Len(tod) # TableSize /\ Len(tod) \in Nat
          /\ Len(tod') = Len(tod) + 1
      BY <1>2, <2>2
    <3> QED
      BY <3>1, <3>2
  <2>6. (\A i, j \in DOMAIN tod : tod[i] = tod[j] => i = j)
           => \A i, j \in DOMAIN tod' : tod'[i] = tod'[j] => i = j
    BY <2>2, <2>3
  <2> QED
    BY <2>2, <2>4, <2>5, <2>6
<1> QED
  BY <1>1, <1>2

\* Delete takes one UID out of the table and keeps the order of the others.
LEMMA Deleted ==
    ASSUME tod \in Seq(UIDs), Len(tod) <= TableSize, NEW uid, Delete(uid),
           \A i, j \in DOMAIN tod : tod[i] = tod[j] => i = j
    PROVE  /\ tod' \in Seq(UIDs) /\ Len(tod') <= TableSize
           /\ \A i, j \in DOMAIN tod' : tod'[i] = tod'[j] => i = j
           /\ Table \ {uid} \subseteq Table' /\ Table' \subseteq Table
           /\ \A n \in DOMAIN tod : tod[n] = uid =>
                 /\ Len(tod') = Len(tod) - 1
                 /\ \A i \in n .. Len(tod') : tod'[i] = tod[i + 1]
<1>0. Len(tod) \in Nat /\ DOMAIN tod = 1 .. Len(tod)
  OBVIOUS
<1>1. CASE uid \notin Table
  BY <1>0, <1>1 DEF Delete, Table
<1>2. CASE uid \in Table
  <2>1. PICK n \in DOMAIN tod :
           /\ tod[n] = uid
           /\ tod' = [i \in 1 .. Len(tod) - 1 |->
                        IF i < n THEN tod[i] ELSE tod[i + 1]]
    BY <1>2 DEF Delete
  <2>2. /\ tod' \in Seq(UIDs) /\ Len(tod') = Len(tod) - 1
        /\ \A i \in 1 .. n - 1 : tod'[i] = tod[i]
        /\ \A i \in n .. Len(tod) - 1 : tod'[i] = tod[i + 1]
    BY <1>0, <2>1, Removed
  <2>3. DOMAIN tod' = 1 .. Len(tod) - 1
    BY <2>2
  <2>4. \A i, j \in DOMAIN tod' : tod'[i] = tod'[j] => i = j
    <3> DEFINE from(i) == IF i < n THEN i ELSE i + 1
    <3>1. \A i \in DOMAIN tod' :
             from(i) \in DOMAIN tod /\ tod'[i] = tod[from(i)]
      BY <1>0, <2>1, <2>2, <2>3
    <3>2. \A i, j \in DOMAIN tod' : from(i) = from(j) => i = j
      BY <1>0, <2>1, <2>3
    <3> HIDE DEF from
    <3> QED
      BY <3>1, <3>2
  <2>5. Table' \subseteq Table
    <3>1. \A i \in DOMAIN tod' : tod'[i] \in Table
      BY <1>0, <2>2, <2>3, SMTT(30) DEF Table
    <3> QED
      BY <3>1 DEF Table
  <2>6. Table \ {uid} \subseteq Table'
    <3>1. ASSUME NEW i \in DOMAIN tod, tod[i] # uid
          PROVE  \E j \in DOMAIN tod' : tod'[j] = tod[i]
      <4>1. CASE i < n
        BY <1>0, <2>1, <2>2, <2>3, <3>1, <4>1
      <4>2. CASE i > n
        <5>1. i - 1 \in DOMAIN tod' /\ tod'[i - 1] = tod[i]
          BY <1>0, <2>1, <2>2, <2>3, <4>2
        <5> QED
          BY <5>1
      <4> QED
        BY <1>0, <2>1, <3>1, <4>1, <4>2
    <3> QED
      BY <3>1 DEF Table
  <2>7. \A m \in DOMAIN tod : tod[m] = uid => m = n
    BY <2>1
  <2> QED
    BY <1>0, <2>2, <2>4, <2>5, <2>6, <2>7, ConstantTypes
<1> QED
  BY <1>1, <1>2

-----------------------------------------------------------------------------
(* Types *)

\* The type invariant in parts
LEMMA TypeParts ==
    ASSUME TypeOK
    PROVE  /\ disc \in Discovery /\ past \in Past
           /\ tod \in Seq(UIDs) /\ Len(tod) <= TableSize
           /\ line \in Seq(Answer) /\ Devices \subseteq UIDs
           /\ present \subseteq Devices /\ muted \subseteq present
BY ConstantTypes DEF TypeOK

\* The members of RDMDiscovery
LEMMA DiscTypes ==
    ASSUME disc \in Discovery
    PROVE  /\ disc.state \in States /\ disc.saved \in States
           /\ disc.unmute \in 0 .. UnmuteCounter
           /\ disc.mute \in 0 .. MuteCounter
           /\ disc.discovery \in 0 .. DiscoveryCounter
           /\ disc.single \in 0 .. (MuteCounter + QuickFindDiscoveryCounter)
           /\ disc.quick \in 0 .. QuickFindDiscoveryCounter
           /\ disc.entries \in 0 .. TableSize
           /\ disc.target \in UIDs \cup {All}
           /\ disc.branch \in Branch /\ disc.stack \in Seq(Branch)
           /\ disc.response \in Answer \cup {Nothing}
           /\ disc.running \in BOOLEAN /\ disc.finished \in BOOLEAN
           /\ disc.incremental \in BOOLEAN
BY DEF Discovery

\* A counter that is counted down
LEMMA CountedDown ==
    ASSUME NEW n \in Nat, NEW c \in 0 .. n, c > 0
    PROVE  c - 1 \in 0 .. n
OBVIOUS

\* Popped and Push
LEMMA PoppedType ==
    ASSUME disc \in Discovery, disc.stack # <<>>
    PROVE  /\ Popped \in Discovery /\ Top \in Branch
           /\ Popped.branch = Top
           /\ Len(Popped.stack) = Len(disc.stack) - 1
           /\ Len(disc.stack) \in Nat \ {0} /\ Top = disc.stack[Len(disc.stack)]
           /\ \A i \in 1 .. Len(disc.stack) - 1 :
                 Popped.stack[i] = disc.stack[i]
<1> DEFINE s == disc.stack
           t == SubSeq(s, 1, Len(s) - 1)
<1>1. s \in Seq(Branch) /\ s # <<>>
  BY DEF Discovery
<1>2. /\ t \in Seq(Branch) /\ Len(t) = Len(s) - 1
      /\ \A i \in 1 .. Len(s) - 1 : t[i] = s[i]
      /\ s[Len(s)] \in Branch
  BY <1>1, Front
<1>3. Len(s) \in Nat \ {0}
  BY <1>1
<1>4. Popped = [disc EXCEPT !.branch = s[Len(s)], !.stack = t]
  BY DEF Popped, Top
<1>5. Popped \in Discovery /\ Popped.branch = s[Len(s)] /\ Popped.stack = t
  BY <1>2, <1>4 DEF Discovery
<1> QED
  BY <1>2, <1>3, <1>5 DEF Top

\* A branch on the stack
LEMMA PushedType ==
    ASSUME disc \in Discovery, disc.branch.lower < disc.branch.upper
    PROVE  Push(Push(disc.stack, LowerHalf(disc.branch)),
                UpperHalf(disc.branch)) \in Seq(Branch)
<1> DEFINE b == disc.branch
<1>1. b \in Branch /\ disc.stack \in Seq(Branch)
  BY DEF Discovery
<1>2. b.lower \in 0 .. Last /\ b.upper \in 0 .. Last /\ Last \in Nat
  BY <1>1, ConstantTypes DEF Branch, UIDs
<1>3. MidPosition(b) \in b.lower .. b.upper - 1
  BY <1>1, Middle
<1>4. LowerHalf(b) \in Branch /\ UpperHalf(b) \in Branch
  BY <1>2, <1>3 DEF LowerHalf, UpperHalf, Branch, UIDs
<1>5. \A s \in Seq(Branch), c \in Branch : Push(s, c) \in Seq(Branch)
  BY DEF Push
<1> QED
  BY <1>1, <1>4, <1>5

\* Only these change the table, ask the devices, or read an answer.
Tables == MuteGone \/ SingleAnswered \/ QuickFindAnswered
Asks == \/ UnmuteSend \/ MuteSend \/ MuteTimeout \/ DiscoverySend
        \/ DiscoveryTimeout \/ SingleSend \/ SingleTimeout \/ QuickFindSend
        \/ QuickFindDiscoverySend
Reads == \/ MuteAnswered \/ DiscoveryAnswered \/ SingleAnswered
         \/ SingleIgnored \/ QuickFindIgnored \/ QuickFindAnswered
         \/ QuickFindDiscoveryAnswered

\* What a call of Process may change besides the members
LEMMA ProcessTouches ==
    ASSUME line \in Seq(Answer), Process
    PROVE  /\ gateway' = gateway /\ present' = present
           /\ tod' = tod \/ Tables
           /\ Asks \/ (muted' = muted /\ past' = past)
           /\ Asks \/ Reads \/ line' \in {line, <<>>}
           /\ Reads => \E r \in Answer : Receives(r)
<1>1. gateway' = gateway /\ present' = present
  BY DEF Process
<1>2. tod' = tod \/ Tables
  BY DEF Process, Tables, LateResponse, UnmuteSend, UnmuteTimeout,
         UnmuteDone, MuteDone, MuteSend, MuteAnswered, MuteTimeout,
         DiscoverySend, DiscoverySingle, DiscoveryEmpty, DiscoveryAnswered,
         DiscoveryGivesUp, DiscoveryTimeout, SingleGone, SingleSend,
         SingleIgnored, SingleTimeout, DubSilent, DubFound, DubSplit,
         QuickFindSend, QuickFindIgnored, QuickFindTimeout,
         QuickFindDiscoverySend, QuickFindDiscoveryAnswered,
         QuickFindDiscoveryTimeout, QuickFindDiscoveryDone, Finished
<1>3. Asks \/ (muted' = muted /\ past' = past)
  BY DEF Process, Asks, LateResponse, UnmuteTimeout, UnmuteDone, MuteDone,
         MuteGone, MuteAnswered, DiscoverySingle, DiscoveryEmpty,
         DiscoveryAnswered, DiscoveryGivesUp, SingleGone, SingleAnswered,
         SingleIgnored, DubSilent, DubFound, DubSplit, QuickFindIgnored,
         QuickFindAnswered, QuickFindTimeout, QuickFindDiscoveryAnswered,
         QuickFindDiscoveryTimeout, QuickFindDiscoveryDone, Finished
<1>4. Asks \/ Reads \/ line' \in {line, <<>>}
  BY DEF Process, Asks, Reads, LateResponse, UnmuteTimeout, UnmuteDone,
         MuteDone, MuteGone, DiscoverySingle, DiscoveryEmpty,
         DiscoveryGivesUp, SingleGone, DubSilent, DubFound, DubSplit,
         QuickFindTimeout, QuickFindDiscoveryTimeout,
         QuickFindDiscoveryDone, Finished
<1>5. Reads => \E r \in Answer : Receives(r)
  <2>1. MuteAnswered \/ DiscoveryAnswered \/ SingleIgnored
        \/ QuickFindIgnored \/ QuickFindDiscoveryAnswered
           => \E r \in Answer : Receives(r)
    BY DEF MuteAnswered, DiscoveryAnswered, SingleIgnored, QuickFindIgnored,
           QuickFindDiscoveryAnswered
  <2>2. SingleAnswered => \E r \in Answer : Receives(r)
    BY Received DEF SingleAnswered
  <2>3. QuickFindAnswered => \E r \in Answer : Receives(r)
    BY DEF QuickFindAnswered
  <2> QED
    BY <2>1, <2>2, <2>3 DEF Reads
<1> QED
  BY <1>1, <1>2, <1>3, <1>4, <1>5

\* A line with an answer of a request behind what was kept
LEMMA KeptTypes ==
    ASSUME line \in Seq(Answer), NEW kept \in {line, <<>>}, NEW a \in Answer
    PROVE  kept \in Seq(Answer) /\ Append(kept, a) \in Seq(Answer)
<1>0. <<>> \in Seq(Answer)
  OBVIOUS
<1>1. kept \in Seq(Answer)
  BY <1>0
<1> QED
  BY <1>1, Appended

\* The three requests keep the types of the line, the devices and the losses.
LEMMA AskTypes ==
    ASSUME TypeOK, Asks
    PROVE  /\ PastLoses /\ past'.quiet = past.quiet
           /\ muted' \subseteq present /\ line' \in Seq(Answer)
<1>0. /\ past \in Past /\ line \in Seq(Answer) /\ Devices \subseteq UIDs
      /\ present \subseteq Devices /\ muted \subseteq present
  BY TypeParts
<1>a. <<>> \in Seq(Answer)
  OBVIOUS
<1>1. CASE SendUnmute
  <2>1. /\ PastLoses /\ past'.quiet = past.quiet
        /\ muted' \subseteq muted /\ line' \in {line, <<>>}
    BY <1>0, <1>1, UnmuteSent
  <2> QED
    BY <1>0, <1>a, <2>1
<1>2. CASE \E uid : SendMute(uid)
  <2>1. PICK uid : SendMute(uid)
    BY <1>2
  <2>2. /\ PastLoses /\ past'.quiet = past.quiet /\ muted' \subseteq present
        /\ \E kept \in {line, <<>>} :
              \/ line' = kept
              \/ uid \in present /\ line' = Append(kept, MuteOf(uid))
    BY <1>0, <2>1, MuteSent
  <2>3. uid \in present => MuteOf(uid) \in Answer
    BY <1>0, DataTypes
  <2>4. PICK kept \in {line, <<>>} :
           \/ line' = kept
           \/ uid \in present /\ line' = Append(kept, MuteOf(uid))
    BY <2>2
  <2>5. line' \in Seq(Answer)
    <3>1. CASE line' = kept
      BY <1>0, <1>a, <3>1
    <3>2. CASE uid \in present /\ line' = Append(kept, MuteOf(uid))
      BY <1>0, <2>3, <3>2, KeptTypes
    <3> QED
      BY <2>4, <3>1, <3>2
  <2> QED
    BY <2>2, <2>5
<1>3. CASE \E b : SendBranch(b)
  <2>1. PICK b : SendBranch(b)
    BY <1>3
  <2>2. /\ PastLoses /\ past'.quiet = past.quiet /\ muted' = muted
        /\ \E kept \in {line, <<>>} :
              \/ line' = kept
              \/ \E a \in Answer : line' = Append(kept, a)
    BY <1>0, <2>1, BranchSent
  <2>3. PICK kept \in {line, <<>>} :
           line' = kept \/ \E a \in Answer : line' = Append(kept, a)
    BY <2>2
  <2>4. line' \in Seq(Answer)
    BY <1>0, <1>a, <2>3, KeptTypes
  <2> QED
    BY <1>0, <2>2, <2>4
<1>4. SendUnmute \/ (\E uid : SendMute(uid)) \/ (\E b : SendBranch(b))
  BY DEF Asks, UnmuteSend, MuteSend, MuteTimeout, DiscoverySend,
         DiscoveryTimeout, SingleSend, SingleTimeout, QuickFindSend,
         QuickFindDiscoverySend
<1> QED
  BY <1>1, <1>2, <1>3, <1>4

\* The members that are set along with a new state
LEMMA DiscUpdated ==
    ASSUME NEW d \in Discovery
    PROVE  /\ \A n \in 0 .. UnmuteCounter :
                 [d EXCEPT !.unmute = n] \in Discovery
           /\ \A n \in 0 .. QuickFindDiscoveryCounter :
                 [d EXCEPT !.quick = n] \in Discovery
           /\ \A n \in 0 .. (MuteCounter + QuickFindDiscoveryCounter) :
                 [d EXCEPT !.single = n] \in Discovery
           /\ \A n \in 0 .. DiscoveryCounter, b \in BOOLEAN :
                 [d EXCEPT !.discovery = n, !.running = b] \in Discovery
           /\ \A b \in BOOLEAN : [d EXCEPT !.finished = b] \in Discovery
           /\ \A u \in UIDs \cup {All} : [d EXCEPT !.target = u] \in Discovery
           /\ \A r \in Answer \cup {Nothing} :
                 [d EXCEPT !.response = r] \in Discovery
           /\ \A u \in UIDs \cup {All}, n \in 0 .. QuickFindDiscoveryCounter :
                 [d EXCEPT !.target = u, !.quick = n] \in Discovery
           /\ \A r \in Answer \cup {Nothing},
                 n \in 0 .. QuickFindDiscoveryCounter :
                 [d EXCEPT !.response = r, !.quick = n] \in Discovery
           /\ \A m \in 0 .. MuteCounter, b \in BOOLEAN, n \in 0 .. TableSize :
                 [d EXCEPT !.mute = m, !.running = b, !.entries = n]
                    \in Discovery
           /\ \A t \in Seq(Branch) : [d EXCEPT !.stack = t] \in Discovery
<1>1. /\ \A n \in 0 .. UnmuteCounter : [d EXCEPT !.unmute = n] \in Discovery
      /\ \A n \in 0 .. QuickFindDiscoveryCounter :
            [d EXCEPT !.quick = n] \in Discovery
      /\ \A n \in 0 .. (MuteCounter + QuickFindDiscoveryCounter) :
            [d EXCEPT !.single = n] \in Discovery
  BY DEF Discovery
<1>2. /\ \A n \in 0 .. DiscoveryCounter, b \in BOOLEAN :
            [d EXCEPT !.discovery = n, !.running = b] \in Discovery
      /\ \A b \in BOOLEAN : [d EXCEPT !.finished = b] \in Discovery
      /\ \A u \in UIDs \cup {All} : [d EXCEPT !.target = u] \in Discovery
      /\ \A r \in Answer \cup {Nothing} :
            [d EXCEPT !.response = r] \in Discovery
  BY DEF Discovery
<1>3. /\ \A u \in UIDs \cup {All}, n \in 0 .. QuickFindDiscoveryCounter :
            [d EXCEPT !.target = u, !.quick = n] \in Discovery
      /\ \A r \in Answer \cup {Nothing}, n \in 0 .. QuickFindDiscoveryCounter :
            [d EXCEPT !.response = r, !.quick = n] \in Discovery
  BY DEF Discovery
<1>4. /\ \A m \in 0 .. MuteCounter, b \in BOOLEAN, n \in 0 .. TableSize :
            [d EXCEPT !.mute = m, !.running = b, !.entries = n] \in Discovery
      /\ \A t \in Seq(Branch) : [d EXCEPT !.stack = t] \in Discovery
  BY DEF Discovery
<1> QED
  BY <1>1, <1>2, <1>3, <1>4

\* Process keeps the members' types.
LEMMA ProcessDiscType ==
    ASSUME TypeOK, Control, Branches, Process
    PROVE  disc' \in Discovery
<1> USE TypeParts
<1>0. disc \in Discovery
  OBVIOUS
<1>a. /\ UnmuteCounter \in Nat \ {0} /\ MuteCounter \in Nat \ {0}
      /\ DiscoveryCounter \in Nat \ {0}
      /\ QuickFindDiscoveryCounter \in Nat \ {0} /\ TableSize \in Nat \ {0}
  BY ConstantTypes
<1>b. /\ "IDLE" \in States /\ "UNMUTE" \in States /\ "MUTE" \in States
      /\ "DISCOVERY" \in States /\ "DISCOVERY_SINGLE_DEVICE" \in States
      /\ "DUB" \in States /\ "QUICKFIND" \in States
      /\ "QUICKFIND_DISCOVERY" \in States /\ "LATE_RESPONSE" \in States
      /\ "FINISHED" \in States
  BY DEF States
<1>c. \A s \in States : Enter(s) \in Discovery /\ EnterLate(s) \in Discovery
  BY <1>0, EnterType, EnterLateType
<1>d. /\ UnmuteCounter \in 0 .. UnmuteCounter
      /\ MuteCounter \in 0 .. MuteCounter
      /\ DiscoveryCounter \in 0 .. DiscoveryCounter
      /\ QuickFindDiscoveryCounter \in 0 .. QuickFindDiscoveryCounter
      /\ QuickFindDiscoveryCounter
            \in 0 .. (MuteCounter + QuickFindDiscoveryCounter)
  BY <1>a
<1>1. CASE LateResponse
  BY <1>1 DEF LateResponse, Discovery
<1>2. CASE UnmuteSend
  BY <1>2 DEF UnmuteSend, Discovery
<1>3. CASE UnmuteTimeout
  <2>1. disc.unmute - 1 \in 0 .. UnmuteCounter
    BY <1>3, <1>a, DiscTypes, CountedDown DEF UnmuteTimeout, Control
  <2> QED
    BY <1>3, <2>1 DEF UnmuteTimeout, Discovery
<1>4. CASE UnmuteDone
  <2> DEFINE d == Enter(IF disc.incremental THEN "MUTE" ELSE "DISCOVERY")
  <2>1. d \in Discovery
    BY <1>b, <1>c
  <2> HIDE DEF d
  <2>2. [d EXCEPT !.unmute = UnmuteCounter] \in Discovery
    BY <1>d, <2>1, DiscUpdated
  <2> QED
    BY <1>4, <2>2 DEF UnmuteDone, d
<1>5. CASE MuteDone
  BY <1>5, <1>b, <1>c DEF MuteDone
<1>6. CASE MuteGone
  <2>1. disc.entries - 1 \in 0 .. TableSize
    BY <1>6, <1>a, DiscTypes, CountedDown DEF MuteGone
  <2> QED
    BY <1>0, <1>6, <1>d, <2>1, DiscUpdated DEF MuteGone
<1>7. CASE MuteSend
  <2>1. Entry(disc.entries) \in UIDs \cup {All}
    BY EntryType
  <2> QED
    BY <1>7, <2>1 DEF MuteSend, Discovery
<1>8. CASE MuteAnswered
  <2>1. disc.entries - 1 \in 0 .. TableSize
    BY <1>8, <1>a, DiscTypes, CountedDown DEF MuteAnswered, Control
  <2> QED
    BY <1>8, <2>1 DEF MuteAnswered, Discovery
<1>9. CASE MuteTimeout
  <2>1. disc.mute - 1 \in 0 .. MuteCounter
    BY <1>9, <1>a, DiscTypes, CountedDown DEF MuteTimeout
  <2> QED
    BY <1>9, <2>1 DEF MuteTimeout, Discovery
<1>10. CASE DiscoverySend
  <2>1. Popped \in Discovery
    BY <1>10, PoppedType DEF DiscoverySend
  <2> QED
    BY <1>10, <1>d, <2>1, DiscUpdated DEF DiscoverySend
<1>11. CASE DiscoverySingle
  <2>1. Popped \in Discovery
    BY <1>11, PoppedType DEF DiscoverySingle
  <2> QED
    BY <1>11, <1>b, <2>1 DEF DiscoverySingle, Discovery
<1>12. CASE DiscoveryEmpty
  BY <1>12, <1>b, <1>c DEF DiscoveryEmpty
<1>13. CASE DiscoveryAnswered
  <2>1. PICK r \in Answer : disc' = [Enter("DUB") EXCEPT !.response = r]
    BY <1>13 DEF DiscoveryAnswered
  <2> QED
    BY <1>b, <1>c, <2>1, DiscUpdated
<1>14. CASE DiscoveryGivesUp
  BY <1>14, <1>b, <1>c, DiscUpdated DEF DiscoveryGivesUp
<1>15. CASE DiscoveryTimeout
  <2>1. disc.discovery - 1 \in 0 .. DiscoveryCounter
    BY <1>15, <1>a, DiscTypes, CountedDown DEF DiscoveryTimeout
  <2> QED
    BY <1>15, <2>1 DEF DiscoveryTimeout, Discovery
<1>16. CASE SingleGone
  BY <1>16, <1>b, <1>c, <1>d, DiscUpdated DEF SingleGone
<1>17. CASE SingleSend
  <2>1. disc.branch.lower \in UIDs \cup {All}
    BY DiscTypes DEF Branch
  <2> QED
    BY <1>17, <2>1 DEF SingleSend, Discovery
<1>18. CASE SingleAnswered
  BY <1>18, <1>b, <1>c, <1>d, DiscUpdated DEF SingleAnswered
<1>19. CASE SingleIgnored \/ QuickFindIgnored
  BY <1>19 DEF SingleIgnored, QuickFindIgnored
<1>20. CASE SingleTimeout
  <2>1. disc.single - 1 \in 0 .. (MuteCounter + QuickFindDiscoveryCounter)
    BY <1>20, <1>a, DiscTypes, CountedDown, SMTT(30) DEF SingleTimeout
  <2> QED
    BY <1>20, <2>1 DEF SingleTimeout, Discovery
<1>21. CASE DubSilent
  BY <1>21, <1>b, <1>c DEF DubSilent
<1>22. CASE DubFound
  <2>1. disc.response.uid \in UIDs \cup {All}
    BY <1>22, DiscTypes, DataTypes DEF DubFound
  <2> QED
    BY <1>22, <1>b, <1>c, <2>1, DiscUpdated DEF DubFound
<1>23. CASE DubSplit
  <2>1. disc.branch.lower < disc.branch.upper
    BY <1>23 DEF DubSplit, Branches, Active, Doing, In, Busy
  <2> DEFINE s == Push(Push(disc.stack, LowerHalf(disc.branch)),
                       UpperHalf(disc.branch))
             d == EnterLate("DISCOVERY")
  <2>2. s \in Seq(Branch)
    BY <2>1, PushedType
  <2>3. d \in Discovery
    BY <1>b, <1>c
  <2>4. d.stack = disc.stack
    BY DEF EnterLate, Enter, Discovery
  <2> HIDE DEF s, d
  <2>5. [d EXCEPT !.stack = s] \in Discovery
    BY <2>2, <2>3 DEF Discovery
  <2> QED
    BY <1>23, <2>4, <2>5 DEF DubSplit, s, d
<1>24. CASE QuickFindSend
  BY <1>24 DEF QuickFindSend, Discovery
<1>25. CASE QuickFindAnswered
  BY <1>25, <1>b, <1>c DEF QuickFindAnswered
<1>26. CASE QuickFindTimeout
  BY <1>26 DEF QuickFindTimeout, Discovery
<1>27. CASE QuickFindDiscoverySend
  BY <1>27 DEF QuickFindDiscoverySend, Discovery
<1>28. CASE QuickFindDiscoveryAnswered
  <2>1. PICK r \in Answer :
           disc' = IF r.kind = "branch"
                   THEN [EnterLate("QUICKFIND")
                         EXCEPT !.target = r.uid,
                                !.quick = QuickFindDiscoveryCounter]
                   ELSE [Enter("DUB")
                         EXCEPT !.response = r,
                                !.quick = QuickFindDiscoveryCounter]
    BY <1>28 DEF QuickFindDiscoveryAnswered
  <2>2. r.kind = "branch" => r.uid \in UIDs
    BY DataTypes
  <2> QED
    BY <1>b, <1>c, <1>d, <2>1, <2>2, DiscUpdated
<1>29. CASE QuickFindDiscoveryTimeout
  <2>1. disc.quick - 1 \in 0 .. QuickFindDiscoveryCounter
    BY <1>29, <1>a, DiscTypes, CountedDown
       DEF QuickFindDiscoveryTimeout, Control
  <2> QED
    BY <1>29, <2>1 DEF QuickFindDiscoveryTimeout, Discovery
<1>30. CASE QuickFindDiscoveryDone
  BY <1>30, <1>b, <1>c, <1>d, DiscUpdated DEF QuickFindDiscoveryDone
<1>31. CASE Finished
  BY <1>31, <1>b, <1>c, DiscUpdated DEF Finished
<1> QED
  BY <1>1, <1>2, <1>3, <1>4, <1>5, <1>6, <1>7, <1>8, <1>9, <1>10, <1>11,
     <1>12, <1>13, <1>14, <1>15, <1>16, <1>17, <1>18, <1>19, <1>20, <1>21,
     <1>22, <1>23, <1>24, <1>25, <1>26, <1>27, <1>28, <1>29, <1>30, <1>31
  DEF Process

\* Process keeps the table's types, and its entries distinct.
LEMMA ProcessTableType ==
    ASSUME TypeOK, Distinct, Process
    PROVE  tod' \in Seq(UIDs) /\ Len(tod') <= TableSize /\ Distinct'
<1>0. tod \in Seq(UIDs) /\ Len(tod) <= TableSize /\ line \in Seq(Answer)
  BY TypeParts
<1>1. CASE tod' = tod
  BY <1>0, <1>1 DEF Distinct
<1>2. CASE \E uid : Delete(uid)
  BY <1>0, <1>2, Deleted DEF Distinct
<1>3. CASE \E uid \in UIDs : AddUid(uid)
  BY <1>0, <1>3, Added DEF Distinct
<1>4. ASSUME SingleAnswered
      PROVE  \E uid \in UIDs : AddUid(uid)
  <2>1. MuteOf(disc.target) \in Answer
    BY <1>0, <1>4, Received DEF SingleAnswered, MuteOf
  <2>2. disc.target \in UIDs
    BY <2>1, DataTypes DEF MuteOf
  <2> QED
    BY <1>4, <2>2 DEF SingleAnswered
<1>5. ASSUME QuickFindAnswered
      PROVE  tod' = tod \/ \E uid \in UIDs : AddUid(uid)
  BY <1>5, DataTypes DEF QuickFindAnswered
<1>6. MuteGone => \E uid : Delete(uid)
  BY DEF MuteGone
<1> QED
  BY <1>0, <1>1, <1>2, <1>3, <1>4, <1>5, <1>6, ProcessTouches DEF Tables

\* Process keeps the types.
LEMMA ProcessTypes ==
    ASSUME TypeOK, Control, Branches, Distinct, Process
    PROVE  TypeOK' /\ Distinct'
<1>0. /\ gateway' = gateway /\ present' = present
      /\ Asks \/ (muted' = muted /\ past' = past)
      /\ Asks \/ Reads \/ line' \in {line, <<>>}
      /\ Reads => \E r \in Answer : Receives(r)
  BY TypeParts, ProcessTouches
<1>1. disc' \in Discovery
  BY ProcessDiscType
<1>2. tod' \in Seq(UIDs) /\ Len(tod') <= TableSize /\ Distinct'
  BY ProcessTableType
<1>3. line' \in Seq(Answer)
  <2>1. CASE Asks
    BY <2>1, AskTypes
  <2>2. CASE Reads
    BY <1>0, <2>2, TypeParts, Received
  <2>3. CASE line' \in {line, <<>>}
    <3>1. <<>> \in Seq(Answer)
      OBVIOUS
    <3> QED
      BY <2>3, <3>1, TypeParts
  <2> QED
    BY <1>0, <2>1, <2>2, <2>3
<1>4. muted' \subseteq present' /\ past' \in Past
  <2>1. CASE Asks
    BY <1>0, <2>1, AskTypes DEF PastLoses
  <2>2. CASE muted' = muted /\ past' = past
    BY <1>0, <2>2, TypeParts
  <2> QED
    BY <1>0, <2>1, <2>2
<1> QED
  BY <1>0, <1>1, <1>2, <1>3, <1>4 DEF TypeOK

\* What the node and the devices do to the members
LEMMA StartedType ==
    ASSUME disc \in Discovery, NEW b \in BOOLEAN
    PROVE  /\ Started(b, disc) \in Discovery
           /\ LET d == Started(b, disc) IN
              /\ d.state = "UNMUTE" /\ d.incremental = b /\ ~d.finished
              /\ ~d.running /\ d.unmute = UnmuteCounter
              /\ d.mute = MuteCounter /\ d.stack = <<Whole>>
              /\ d.discovery = DiscoveryCounter /\ d.single = MuteCounter
              /\ d.quick = QuickFindDiscoveryCounter
              /\ d.saved = disc.saved /\ d.branch = disc.branch
<1>1. /\ UnmuteCounter \in 0 .. UnmuteCounter
      /\ MuteCounter \in 0 .. MuteCounter
      /\ DiscoveryCounter \in 0 .. DiscoveryCounter
      /\ QuickFindDiscoveryCounter \in 0 .. QuickFindDiscoveryCounter
      /\ MuteCounter \in 0 .. (MuteCounter + QuickFindDiscoveryCounter)
      /\ "UNMUTE" \in States
  BY ConstantTypes DEF States
<1>2. <<Whole>> \in Seq(Branch)
  BY DataTypes
<1>3. Started(b, disc) \in Discovery
  BY <1>1, <1>2 DEF Started, Discovery
<1> QED
  BY <1>3 DEF Started, Discovery

\* A discovery that starts
LEMMA BegunType ==
    ASSUME present \subseteq Devices, NEW b \in BOOLEAN
    PROVE  /\ Begun(b) \in Past /\ Over \in Past
           /\ \A steady \in SUBSET Devices :
                 [Over EXCEPT !.steady = steady, !.flushed = TRUE] \in Past
<1>1. MaxLosses \in 0 .. MaxLosses /\ MaxMoves \in 0 .. MaxMoves
      /\ 0 \in 0 .. MaxLosses /\ 0 \in 0 .. MaxMoves
  BY ConstantTypes
<1> QED
  BY <1>1 DEF Begun, Over, Past

\* An ArtRdm may cost losses.
LEMMA LosesLoses ==
    ASSUME past \in Past, NEW n \in Nat, NEW answers \in Seq(Answer),
           Loses(n, answers)
    PROVE  /\ PastLoses
           /\ past' = past \/ ~past'.quiet
           /\ In("IDLE") => past' = past
           /\ ~In("IDLE") =>
                 /\ ~past'.quiet
                 /\ (\E i \in DOMAIN answers : answers[i] # Foreign) \/ n > 0
                       => past'.losses < past.losses
<1> DEFINE card == Cardinality({i \in DOMAIN answers : answers[i] # Foreign})
           losses == n + card
<1>0. /\ card \in Nat
      /\ (\E i \in DOMAIN answers : answers[i] # Foreign) => card > 0
  BY Counted
<1> HIDE DEF card
<1>1. /\ losses \in Nat
      /\ (\E i \in DOMAIN answers : answers[i] # Foreign) \/ n > 0
            => losses > 0
  BY <1>0
<1> USE DEF card
<1>2. past.losses \in 0 .. MaxLosses /\ MaxLosses \in Nat
  BY ConstantTypes DEF Past
<1>3. CASE In("IDLE")
  BY <1>3 DEF Loses, PastLoses, Past
<1>4. CASE ~In("IDLE")
  <2>1. /\ past.losses >= losses
        /\ past' = [past EXCEPT !.losses = past.losses - losses,
                                !.quiet = FALSE]
    BY <1>4 DEF Loses
  <2> HIDE DEF losses
  <2>2. /\ past.losses - losses \in 0 .. MaxLosses
        /\ past.losses - losses <= past.losses /\ losses \in Nat
        /\ losses > 0 => past.losses - losses < past.losses
    BY <1>1, <1>2, <2>1
  <2>3. past' \in Past /\ past'.losses = past.losses - losses
        /\ past'.steady = past.steady /\ past'.seen = past.seen
        /\ past'.flushed = past.flushed /\ past'.moves = past.moves
        /\ past'.quiet = FALSE
    BY <2>1, <2>2 DEF Past
  <2>4. PastLoses
    BY <2>2, <2>3 DEF PastLoses
  <2>5. losses > 0 => past'.losses < past.losses
    BY <2>2, <2>3
  <2> QED
    BY <1>1, <1>4, <2>3, <2>4, <2>5
<1> QED
  BY <1>3, <1>4

\* What ArtRdm puts on the line, and what it takes off
LEMMA RdmTypes ==
    ASSUME TypeOK, HandleRdm \/ HandleRdmIn
    PROVE  /\ PastLoses /\ line' \in Seq(Answer) /\ gateway' \in BOOLEAN
           /\ disc' = disc /\ tod' = tod /\ present' = present /\ muted' = muted
           /\ In("IDLE") => past' = past
           /\ ~In("IDLE") =>
                 /\ ~past'.quiet
                 /\ \/ past'.losses < past.losses
                    \/ \A i \in DOMAIN line : line[i] # Foreign =>
                          \E j \in DOMAIN line' : line'[j] = line[i]
           /\ \E k \in {0, 1} : \A j \in DOMAIN line' :
                 line'[j] # Foreign =>
                    j + k \in DOMAIN line /\ line'[j] = line[j + k]
<1>0. /\ past \in Past /\ line \in Seq(Answer) /\ <<>> \in Seq(Answer)
      /\ 0 \in Nat /\ 1 \in Nat /\ 1 > 0
      /\ Len(line) \in Nat /\ DOMAIN line = 1 .. Len(line)
  BY TypeParts
<1>1. CASE HandleRdm
  <2>0. disc' = disc /\ tod' = tod /\ present' = present /\ muted' = muted
        /\ gateway' \in BOOLEAN
    BY <1>1 DEF HandleRdm
  <2>1. CASE line' = line /\ Loses(0, <<>>)
    <3>1. /\ PastLoses
          /\ In("IDLE") => past' = past
          /\ ~In("IDLE") => ~past'.quiet
      BY <1>0, <2>1, LosesLoses
    <3>2. /\ line' \in Seq(Answer)
          /\ \A i \in DOMAIN line : \E j \in DOMAIN line' : line'[j] = line[i]
          /\ \A j \in DOMAIN line' : j \in DOMAIN line /\ line'[j] = line[j]
      BY <1>0, <2>1
    <3> QED
      BY <2>0, <3>1, <3>2
  <2>2. CASE line' = <<>> /\ Loses(0, line)
    <3>1. \A j \in DOMAIN line' : FALSE
      BY <2>2
    <3>2. /\ PastLoses
          /\ In("IDLE") => past' = past
          /\ ~In("IDLE") =>
                /\ ~past'.quiet
                /\ (\E i \in DOMAIN line : line[i] # Foreign)
                      => past'.losses < past.losses
      BY <1>0, <2>2, LosesLoses
    <3> QED
      BY <1>0, <2>0, <2>2, <3>1, <3>2
  <2>3. CASE line' = Append(line, Foreign) /\ Loses(1, <<>>)
    <3>1. /\ line' \in Seq(Answer)
          /\ \A j \in DOMAIN line' : line'[j] # Foreign =>
                j \in DOMAIN line /\ line'[j] = line[j]
      <4>1. /\ line' \in Seq(Answer)
            /\ DOMAIN line' = 1 .. Len(line) + 1
            /\ \A i \in 1 .. Len(line) : line'[i] = line[i]
            /\ line'[Len(line) + 1] = Foreign
        BY <1>0, <2>3, Appended, DataTypes
      <4> QED
        BY <1>0, <4>1
    <3>2. /\ PastLoses
          /\ In("IDLE") => past' = past
          /\ ~In("IDLE") => ~past'.quiet /\ past'.losses < past.losses
      BY <1>0, <2>3, LosesLoses
    <3> QED
      BY <2>0, <3>1, <3>2
  <2>4. CASE line' = <<Foreign>> /\ Loses(1, line)
    <3>1. line' \in Seq(Answer) /\ \A j \in DOMAIN line' : line'[j] = Foreign
      BY <2>4, DataTypes
    <3>2. /\ PastLoses
          /\ In("IDLE") => past' = past
          /\ ~In("IDLE") => ~past'.quiet /\ past'.losses < past.losses
      BY <1>0, <2>4, LosesLoses
    <3> HIDE DEF PastLoses
    <3>3. \A j \in DOMAIN line' : line'[j] # Foreign =>
             \/ j \in DOMAIN line /\ line'[j] = line[j]
             \/ j + 1 \in DOMAIN line /\ line'[j] = line[j + 1]
      BY <3>1
    <3> QED
      BY <2>0, <3>1, <3>2, <3>3
  <2> QED
    BY <1>1, <2>1, <2>2, <2>3, <2>4 DEF HandleRdm
<1>2. CASE HandleRdmIn
  <2>0. disc' = disc /\ tod' = tod /\ present' = present /\ muted' = muted
        /\ gateway' \in BOOLEAN
    BY <1>2 DEF HandleRdmIn
  <2>1. PICK r \in Answer : Receives(r) /\ Loses(0, <<r>>)
    BY <1>2 DEF HandleRdmIn
  <2>2. /\ r = line[1] /\ line # <<>> /\ line' \in Seq(Answer)
        /\ Len(line) \in Nat \ {0} /\ Len(line') = Len(line) - 1
        /\ DOMAIN line = 1 .. Len(line) /\ DOMAIN line' = 1 .. Len(line')
        /\ \A i \in DOMAIN line' : i + 1 \in DOMAIN line
                                   /\ line'[i] = line[i + 1]
    BY <1>0, <2>1, Received
  <2>3. <<r>> \in Seq(Answer) /\ 1 \in DOMAIN <<r>> /\ <<r>>[1] = r
    OBVIOUS
  <2>4. /\ PastLoses
        /\ In("IDLE") => past' = past
        /\ ~In("IDLE") => /\ ~past'.quiet
                          /\ r # Foreign => past'.losses < past.losses
    BY <1>0, <2>1, <2>3, LosesLoses
  <2>5. \A i \in DOMAIN line : i # 1 =>
           i - 1 \in DOMAIN line' /\ line'[i - 1] = line[i]
    BY <2>2
  <2> QED
    BY <2>0, <2>2, <2>4, <2>5
<1> QED
  BY <1>1, <1>2

\* The node, the devices and the controller keep the types.
LEMMA NodeTypes ==
    ASSUME TypeOK, Distinct, Full \/ Stop \/ Incremental \/ Publish
    PROVE  TypeOK' /\ Distinct'
<1>0. /\ disc \in Discovery /\ past \in Past /\ tod \in Seq(UIDs)
      /\ Len(tod) <= TableSize /\ past.steady \in SUBSET Devices
      /\ Begun(Quiet) \in Past /\ Over \in Past
  <2>1. Quiet \in BOOLEAN /\ present \subseteq Devices
    BY TypeParts DEF Quiet
  <2> QED
    BY <2>1, TypeParts, BegunType DEF Past
<1>1. CASE Full
  <2>1. disc' \in Discovery
    BY <1>0, <1>1, StartedType DEF Full
  <2>2. past' \in Past
    BY <1>0, <1>1, BegunType, TypeParts DEF Full
  <2>3. tod' \in Seq(UIDs) /\ Len(tod') <= TableSize /\ Distinct'
    <3>1. TableSize \in Nat /\ tod' = <<>>
      BY <1>1, ConstantTypes DEF Full
    <3>2. Len(<<>>) = 0 /\ <<>> \in Seq(UIDs) /\ DOMAIN <<>> = {}
      OBVIOUS
    <3> QED
      BY <3>1, <3>2 DEF Distinct
  <2> QED
    BY <1>1, <2>1, <2>2, <2>3 DEF Full, TypeOK
<1>2. CASE Stop
  <2>1. /\ Enter("IDLE") \in Discovery /\ EnterLate("IDLE") \in Discovery
    BY <1>0, EnterType, EnterLateType DEF States
  <2>2. disc' \in Discovery
    BY <1>2, <2>1, DiscUpdated DEF Stop
  <2> QED
    BY <1>0, <1>2, <2>2 DEF Stop, TypeOK, Distinct
<1>3. CASE Incremental
  <2>1. Started(TRUE, disc) \in Discovery
    BY <1>0, StartedType
  <2>2. Len(tod) \in 0 .. TableSize
    BY <1>0, ConstantTypes
  <2>3. disc' \in Discovery
    BY <1>3, <2>1, <2>2 DEF Incremental, Discovery
  <2> QED
    BY <1>0, <1>3, <2>3 DEF Incremental, TypeOK, Distinct
<1>4. CASE Publish
  <2>1. disc' \in Discovery
    BY <1>0, <1>4, DiscUpdated DEF Publish
  <2> QED
    BY <1>0, <1>4, <2>1 DEF Publish, TypeOK, Distinct
<1> QED
  BY <1>1, <1>2, <1>3, <1>4

\* What a device that comes or goes leaves of the history
LEMMA MovesTypes ==
    ASSUME TypeOK, NEW d \in Devices, Plug(d) \/ Unplug(d)
    PROVE  /\ disc' = disc /\ tod' = tod /\ gateway' = gateway /\ line' = line
           /\ past' \in Past /\ past'.flushed = past.flushed
           /\ past'.quiet = past.quiet /\ past'.losses = past.losses
           /\ Plug(d) => /\ present' = present \cup {d} /\ muted' = muted
                         /\ past'.steady = past.steady
                         /\ past'.seen = past.seen \cup {d}
           /\ Unplug(d) => /\ present' = present \ {d} /\ muted' = muted \ {d}
                           /\ past'.steady = past.steady \ {d}
                           /\ past'.seen = past.seen
           /\ ~In("IDLE") => past'.moves # MaxMoves
           /\ In("IDLE") => past'.moves = past.moves
<1>0. past \in Past /\ past.moves \in 0 .. MaxMoves /\ MaxMoves \in Nat
  BY TypeParts, ConstantTypes DEF Past
<1>1. ASSUME NEW p \in Past, p.moves = past.moves, Moves(p)
      PROVE  /\ past' \in Past /\ past'.flushed = p.flushed
             /\ past'.quiet = p.quiet /\ past'.losses = p.losses
             /\ past'.steady = p.steady /\ past'.seen = p.seen
             /\ ~In("IDLE") => past'.moves # MaxMoves
             /\ In("IDLE") => past'.moves = past.moves
  <2>1. CASE In("IDLE")
    BY <1>1, <2>1 DEF Moves
  <2>2. CASE ~In("IDLE")
    <3>1. past.moves > 0 /\ past' = [p EXCEPT !.moves = past.moves - 1]
      BY <1>1, <2>2 DEF Moves
    <3>2. past.moves - 1 \in 0 .. MaxMoves /\ past.moves - 1 # MaxMoves
      BY <1>0, <3>1
    <3> QED
      BY <2>2, <3>1, <3>2 DEF Past
  <2> QED
    BY <2>1, <2>2
<1>2. CASE Plug(d)
  <2> DEFINE p == [past EXCEPT !.seen = @ \cup {d}]
  <2>1. /\ p \in Past /\ p.moves = past.moves /\ p.flushed = past.flushed
        /\ p.quiet = past.quiet /\ p.losses = past.losses
        /\ p.steady = past.steady /\ p.seen = past.seen \cup {d}
    BY <1>0 DEF Past
  <2>2. Moves(p) /\ d \notin present /\ present' = present \cup {d}
        /\ UNCHANGED <<disc, tod, gateway, line, muted>>
    BY <1>2 DEF Plug
  <2> HIDE DEF p
  <2>3. ~Unplug(d)
    BY <2>2 DEF Unplug
  <2> QED
    BY <1>1, <2>1, <2>2, <2>3
<1>3. CASE Unplug(d)
  <2> DEFINE p == [past EXCEPT !.steady = @ \ {d}]
  <2>1. /\ p \in Past /\ p.moves = past.moves /\ p.flushed = past.flushed
        /\ p.quiet = past.quiet /\ p.losses = past.losses
        /\ p.steady = past.steady \ {d} /\ p.seen = past.seen
    BY <1>0 DEF Past
  <2>2. /\ Moves(p) /\ d \in present
        /\ present' = present \ {d} /\ muted' = muted \ {d}
        /\ UNCHANGED <<disc, tod, gateway, line>>
    BY <1>3 DEF Unplug
  <2> HIDE DEF p
  <2>3. ~Plug(d)
    BY <2>2 DEF Plug
  <2> QED
    BY <1>1, <2>1, <2>2, <2>3
<1> QED
  BY <1>2, <1>3

\* Every step keeps the types.
LEMMA TypeStep ==
    ASSUME TypeOK, Control, Branches, Distinct, [Next]_vars
    PROVE  TypeOK' /\ Distinct'
<1>1. CASE Process
  BY <1>1, ProcessTypes
<1>2. CASE Full \/ Stop \/ Incremental \/ Publish
  BY <1>2, NodeTypes
<1>3. CASE HandleRdm \/ HandleRdmIn
  BY <1>3, RdmTypes DEF TypeOK, PastLoses, Distinct
<1>4. ASSUME NEW d \in Devices, Plug(d) \/ Unplug(d)
      PROVE  TypeOK' /\ Distinct'
  <2>1. present' \subseteq Devices /\ muted' \subseteq present'
    BY <1>4, MovesTypes, TypeParts
  <2> QED
    BY <1>4, <2>1, MovesTypes DEF TypeOK, Distinct
<1>5. CASE UNCHANGED vars
  BY <1>5 DEF vars, TypeOK, Distinct
<1> QED
  BY <1>1, <1>2, <1>3, <1>4, <1>5 DEF Next

-----------------------------------------------------------------------------
(* The control state *)

\* Process keeps the control state.
LEMMA ProcessControl ==
    ASSUME TypeOK, Control, Process
    PROVE  Control'
<1> USE DEF Control, Doing, In, Sends, Waits, Discovery
<1>0. disc \in Discovery
  BY TypeParts
<1>b. \A r \in Answer \cup {Nothing} : r.kind = "branch" => r.uid \in UIDs
  BY DataTypes
<1>a. /\ QuickFindDiscoveryCounter \in Nat /\ MaxLosses \in Nat
      /\ MaxLosses < QuickFindDiscoveryCounter
  BY ConstantTypes
<1>1. CASE LateResponse
  BY <1>0, <1>a, <1>1 DEF LateResponse
<1>2. CASE UnmuteSend
  BY <1>0, <1>a, <1>2 DEF UnmuteSend
<1>3. CASE UnmuteTimeout
  BY <1>0, <1>a, <1>3 DEF UnmuteTimeout
<1>4. CASE UnmuteDone
  BY <1>0, <1>a, <1>4 DEF UnmuteDone, Enter
<1>5. CASE MuteDone
  BY <1>0, <1>a, <1>5 DEF MuteDone, Enter
<1>6. CASE MuteGone
  BY <1>0, <1>a, <1>6 DEF MuteGone
<1>7. CASE MuteSend
  BY <1>0, <1>a, <1>7 DEF MuteSend
<1>8. CASE MuteAnswered
  BY <1>0, <1>a, <1>8 DEF MuteAnswered
<1>9. CASE MuteTimeout
  BY <1>0, <1>a, <1>9 DEF MuteTimeout
<1>10. CASE DiscoverySend
  BY <1>0, <1>a, <1>10 DEF DiscoverySend, Popped
<1>11. CASE DiscoverySingle
  BY <1>0, <1>a, <1>11 DEF DiscoverySingle, Popped
<1>12. CASE DiscoveryEmpty
  BY <1>0, <1>a, <1>12 DEF DiscoveryEmpty, EnterLate, Enter
<1>13. CASE DiscoveryAnswered
  BY <1>0, <1>a, <1>13 DEF DiscoveryAnswered, Enter
<1>14. CASE DiscoveryGivesUp
  BY <1>0, <1>a, <1>14 DEF DiscoveryGivesUp, Enter
<1>15. CASE DiscoveryTimeout
  BY <1>0, <1>a, <1>15 DEF DiscoveryTimeout
<1>16. CASE SingleGone
  BY <1>0, <1>a, <1>16 DEF SingleGone, EnterLate, Enter
<1>17. CASE SingleSend
  BY <1>0, <1>a, <1>17 DEF SingleSend
<1>18. CASE SingleAnswered
  BY <1>0, <1>a, <1>18 DEF SingleAnswered, Enter
<1>19. CASE SingleIgnored
  BY <1>0, <1>a, <1>19 DEF SingleIgnored
<1>20. CASE SingleTimeout
  BY <1>0, <1>a, <1>20 DEF SingleTimeout
<1>21. CASE DubSilent
  BY <1>0, <1>a, <1>21 DEF DubSilent, Enter
<1>22. CASE DubFound
  BY <1>0, <1>a, <1>b, <1>22 DEF DubFound, EnterLate, Enter
<1>23. CASE DubSplit
  BY <1>0, <1>a, <1>23 DEF DubSplit, EnterLate, Enter
<1>24. CASE QuickFindSend
  BY <1>0, <1>a, <1>24 DEF QuickFindSend
<1>25. CASE QuickFindIgnored
  BY <1>0, <1>a, <1>25 DEF QuickFindIgnored
<1>26. CASE QuickFindAnswered
  BY <1>0, <1>a, <1>26 DEF QuickFindAnswered, Enter
<1>27. CASE QuickFindTimeout
  BY <1>0, <1>a, <1>27 DEF QuickFindTimeout
<1>28. CASE QuickFindDiscoverySend
  BY <1>0, <1>a, <1>28 DEF QuickFindDiscoverySend
<1>29. CASE QuickFindDiscoveryAnswered
  BY <1>0, <1>a, <1>b, <1>29 DEF QuickFindDiscoveryAnswered, EnterLate, Enter
<1>30. CASE QuickFindDiscoveryTimeout
  BY <1>0, <1>a, <1>30 DEF QuickFindDiscoveryTimeout
<1>31. CASE QuickFindDiscoveryDone
  BY <1>0, <1>a, <1>31 DEF QuickFindDiscoveryDone, EnterLate, Enter
<1>32. CASE Finished
  BY <1>0, <1>a, <1>32 DEF Finished, Enter
<1> QED
  BY <1>1, <1>2, <1>3, <1>4, <1>5, <1>6, <1>7, <1>8, <1>9, <1>10, <1>11,
     <1>12, <1>13, <1>14, <1>15, <1>16, <1>17, <1>18, <1>19, <1>20, <1>21,
     <1>22, <1>23, <1>24, <1>25, <1>26, <1>27, <1>28, <1>29, <1>30, <1>31,
     <1>32 DEF Process

\* The node keeps the control state.
LEMMA NodeControl ==
    ASSUME TypeOK, Control, Full \/ Stop \/ Incremental \/ Publish
    PROVE  Control'
<1> USE DEF Control, Doing, In, Waits
<1>0. disc \in Discovery
  BY TypeParts
<1>a. MaxLosses \in Nat /\ MuteCounter \in Nat /\ MaxLosses < MuteCounter
  BY ConstantTypes
<1>1. CASE Full
  <2>1. CASE In("IDLE")
    <3>1. disc' = Started(FALSE, disc)
      BY <1>1, <2>1 DEF Full
    <3> QED
      BY <1>0, <1>a, <3>1, StartedType
  <2>2. CASE ~In("IDLE")
    <3>1. disc' = disc
      BY <1>1, <2>2 DEF Full
    <3> QED
      BY <3>1
  <2> QED
    BY <2>1, <2>2
<1>2. CASE Stop
  BY <1>0, <1>2 DEF Stop, Enter, EnterLate, Discovery
<1>3. CASE Incremental
  <2> DEFINE d == Started(TRUE, disc)
  <2>1. /\ d \in Discovery
        /\ d.state = "UNMUTE" /\ ~d.finished
        /\ ~d.running /\ d.unmute = UnmuteCounter /\ d.stack = <<Whole>>
        /\ d.mute = MuteCounter
        /\ d.quick = QuickFindDiscoveryCounter /\ d.single = MuteCounter
        /\ d.saved = disc.saved
    BY <1>0, StartedType
  <2>2. disc' = [d EXCEPT !.entries = Len(tod)]
    BY <1>3 DEF Incremental
  <2> HIDE DEF d
  <2>3. /\ disc'.state = "UNMUTE" /\ ~disc'.finished
        /\ ~disc'.running /\ disc'.stack = <<Whole>>
        /\ disc'.quick = QuickFindDiscoveryCounter
        /\ disc'.single = MuteCounter /\ disc'.saved = disc.saved
        /\ disc'.mute = MuteCounter
    BY <2>1, <2>2 DEF Discovery
  <2> QED
    BY <1>a, <2>3
<1>4. CASE Publish
  BY <1>0, <1>4 DEF Publish, Discovery
<1> QED
  BY <1>1, <1>2, <1>3, <1>4

\* The control state and the branches are the members' alone.
LEMMA DiscKept ==
    ASSUME disc' = disc
    PROVE  /\ Control <=> Control'
           /\ Branches <=> Branches'
BY DEF Control, Branches, Active, Doing, In, Waits

\* Every step keeps the control state.
LEMMA ControlStep ==
    ASSUME TypeOK, Control, [Next]_vars
    PROVE  Control'
<1>1. CASE Process
  BY <1>1, ProcessControl
<1>2. CASE Full \/ Stop \/ Incremental \/ Publish
  BY <1>2, NodeControl
<1>3. CASE HandleRdm \/ HandleRdmIn
  BY <1>3, RdmTypes, DiscKept
<1>4. ASSUME NEW d \in Devices, Plug(d) \/ Unplug(d)
      PROVE  Control'
  BY <1>4, MovesTypes, DiscKept
<1>5. CASE UNCHANGED vars
  BY <1>5, DiscKept DEF vars
<1> QED
  BY <1>1, <1>2, <1>3, <1>4, <1>5 DEF Next

-----------------------------------------------------------------------------
(* The branches *)

\* The top of the stack becomes the branch that is searched.
LEMMA PoppedFits ==
    ASSUME disc \in Discovery, disc.stack # <<>>, StackFits(disc.stack)
    PROVE  /\ StackFits(Popped.stack) /\ BranchFits(Popped.stack, Popped.branch)
           /\ Popped.branch.lower <= Popped.branch.upper
<1> DEFINE s == disc.stack
           t == Popped.stack
<1>1. /\ Popped.branch = s[Len(s)] /\ Len(t) = Len(s) - 1
      /\ Len(s) \in Nat \ {0} /\ \A i \in 1 .. Len(s) - 1 : t[i] = s[i]
  BY PoppedType
<1> HIDE DEF s, t
<1>2. /\ Len(s) <= TableSize /\ TableSize \in Nat
      /\ \A i \in 1 .. Len(s) :
            /\ s[i].lower <= s[i].upper /\ Size(s[i]) <= Sizes[i]
            /\ \A j \in i + 1 .. Len(s) : s[i].upper < s[j].lower
  BY ConstantTypes DEF s, StackFits
<1>3. StackFits(t)
  BY <1>1, <1>2 DEF StackFits
<1>4. BranchFits(t, s[Len(s)]) /\ s[Len(s)].lower <= s[Len(s)].upper
  BY <1>1, <1>2 DEF BranchFits
<1> QED
  BY <1>1, <1>3, <1>4 DEF t

\* Room for both halves
LEMMA HalvesFit ==
    ASSUME disc \in Discovery, StackFits(disc.stack),
           BranchFits(disc.stack, disc.branch),
           disc.branch.lower < disc.branch.upper
    PROVE  Len(disc.stack) + 2 <= TableSize
<1> DEFINE n == Len(disc.stack)
<1>1. /\ disc.branch.lower \in Nat /\ disc.branch.upper \in Nat
      /\ disc.stack \in Seq(Branch) /\ n \in Nat
  BY ConstantTypes, DiscTypes DEF Branch
<1>2. n < TableSize /\ TableSize \in Nat
  BY ConstantTypes DEF BranchFits
<1>3. Size(disc.branch) >= 2 /\ Size(disc.branch) <= Sizes[n + 1]
  BY <1>1 DEF Size, BranchFits
<1> HIDE DEF n
<1>4. Sizes[n + 1] > 1
  <2>1. Sizes[n + 1] \in Nat
    BY <1>1, <1>2, SizesAre, ConstantTypes DEF n
  <2>2. Size(disc.branch) \in Int
    BY <1>1 DEF Size
  <2> QED
    BY <1>3, <2>1, <2>2
<1>5. n + 1 # TableSize
  BY <1>4, SizesAre, ConstantTypes
<1> QED
  BY <1>1, <1>2, <1>5 DEF n

\* Both halves on the stack
LEMMA SplitFits ==
    ASSUME disc \in Discovery, StackFits(disc.stack),
           BranchFits(disc.stack, disc.branch),
           disc.branch.lower < disc.branch.upper
    PROVE  LET s == disc.stack
               t == Push(Push(s, LowerHalf(disc.branch)),
                         UpperHalf(disc.branch))
           IN  /\ StackFits(t) /\ Len(t) = Len(s) + 2
               /\ \A i \in 1 .. Len(s) : t[i] = s[i]
               /\ t[Len(s) + 1] = LowerHalf(disc.branch)
               /\ t[Len(s) + 2] = UpperHalf(disc.branch)
               /\ \A d \in Nat : InBranch(d, disc.branch) =>
                     InBranch(d, LowerHalf(disc.branch))
                     \/ InBranch(d, UpperHalf(disc.branch))
<1> DEFINE s == disc.stack
           b == disc.branch
           n == Len(s)
           m == MidPosition(b)
           lo == LowerHalf(b)
           up == UpperHalf(b)
           t == Push(Push(s, lo), up)
<1>1. b \in Branch /\ s \in Seq(Branch) /\ n \in Nat
  BY DiscTypes
<1>2. b.lower \in Nat /\ b.upper \in Nat /\ b.lower < b.upper
  BY <1>1, ConstantTypes DEF Branch
<1>3. m \in b.lower .. b.upper - 1 /\ b.upper - m <= Size(b) \div 2
  BY <1>1, Middle
<1>4. n + 2 <= TableSize /\ TableSize \in Nat
  BY HalvesFit, ConstantTypes
<1>5. /\ Size(b) <= Sizes[n + 1]
      /\ \A i \in 1 .. n : s[i].upper < b.lower
  BY DEF BranchFits
<1>6. \A i \in 1 .. n :
         /\ s[i].lower <= s[i].upper /\ Size(s[i]) <= Sizes[i]
         /\ \A j \in i + 1 .. n : s[i].upper < s[j].lower
  BY DEF StackFits
<1>7. /\ lo.lower = b.lower /\ lo.upper = m
      /\ up.lower = m + 1 /\ up.upper = b.upper
  BY DEF LowerHalf, UpperHalf
<1>8. lo \in Branch /\ up \in Branch
  BY <1>1, <1>2, <1>3, ConstantTypes DEF LowerHalf, UpperHalf, Branch
<1> HIDE DEF m, lo, up
<1>9. t = Append(Append(s, lo), up)
  <2>1. Len(Append(s, lo)) = n + 1
    BY <1>1, <1>8
  <2>2. n # TableSize /\ n + 1 # TableSize
    BY <1>1, <1>4
  <2> QED
    BY <2>1, <2>2 DEF Push
<1>10. /\ t \in Seq(Branch) /\ Len(t) = n + 2
       /\ \A i \in 1 .. n : t[i] = s[i]
       /\ t[n + 1] = lo /\ t[n + 2] = up
  BY <1>1, <1>8, <1>9
<1> HIDE DEF t
<1>11. Size(lo) <= Sizes[n + 1] /\ Size(up) <= Sizes[n + 2]
  <2>1. /\ Sizes[n + 1] \in Nat /\ Sizes[n + 2] \in Nat
        /\ Sizes[n + 2] >= Sizes[n + 1] \div 2
    BY <1>1, <1>4, SizesAre, ConstantTypes, SMTT(30)
  <2>2. Size(lo) <= Size(b) /\ Size(up) <= Size(b) \div 2
        /\ Size(lo) \in Int /\ Size(up) \in Int /\ Size(b) \in Nat
    BY <1>2, <1>3, <1>7 DEF Size
  <2>3. Size(b) \div 2 <= Sizes[n + 1] \div 2
    BY <1>5, <2>1, <2>2
  <2> QED
    BY <1>5, <2>1, <2>2, <2>3
<1>12. m \in Nat
  BY <1>2, <1>3
<1>13. \A i \in 1 .. n : s[i].upper \in Nat /\ s[i].lower \in Nat
  <2>1. \A i \in 1 .. n : s[i] \in Branch
    BY <1>1
  <2>2. \A c \in Branch : c.upper \in Nat /\ c.lower \in Nat
    BY ConstantTypes DEF Branch
  <2> QED
    BY <2>1, <2>2
<1>14. ASSUME NEW i \in 1 .. n + 2
       PROVE  /\ t[i].lower <= t[i].upper /\ Size(t[i]) <= Sizes[i]
              /\ \A j \in i + 1 .. n + 2 : t[i].upper < t[j].lower
  <2>1. CASE i \in 1 .. n
    <3>1. t[i] = s[i]
      BY <1>10, <2>1
    <3>2. ASSUME NEW j \in i + 1 .. n + 2
          PROVE  t[i].upper < t[j].lower
      <4>1. CASE j \in i + 1 .. n
        BY <1>6, <1>10, <2>1, <3>1, <4>1
      <4>2. CASE j = n + 1
        BY <1>5, <1>7, <1>10, <2>1, <3>1, <4>2
      <4>3. CASE j = n + 2
        <5>1. s[i].upper < b.lower /\ s[i].upper \in Nat
          BY <1>5, <1>13, <2>1
        <5>2. t[j].lower = m + 1 /\ b.lower <= m
          BY <1>2, <1>3, <1>7, <1>10, <4>3
        <5> QED
          BY <1>2, <1>12, <3>1, <5>1, <5>2
      <4> QED
        BY <1>1, <2>1, <4>1, <4>2, <4>3
    <3> QED
      BY <1>6, <2>1, <3>1, <3>2
  <2>2. CASE i = n + 1
    <3>1. \A j \in i + 1 .. n + 2 : j = n + 2
      BY <1>1, <2>2
    <3> QED
      BY <1>2, <1>3, <1>7, <1>10, <1>11, <1>12, <2>2, <3>1
  <2>3. CASE i = n + 2
    <3>1. \A j \in i + 1 .. n + 2 : FALSE
      BY <1>1, <2>3
    <3> QED
      BY <1>2, <1>3, <1>7, <1>10, <1>11, <2>3, <3>1, SMTT(60)
  <2> QED
    BY <1>1, <2>1, <2>2, <2>3
<1>15. StackFits(t)
  BY <1>4, <1>10, <1>14 DEF StackFits
<1>16. \A d \in Nat : InBranch(d, b) => InBranch(d, lo) \/ InBranch(d, up)
  BY <1>2, <1>7, <1>12 DEF InBranch
<1> HIDE DEF s, b, n
<1> QED
  BY <1>10, <1>15, <1>16 DEF t, lo, up, s, b, n


\* Process keeps the branches disjoint, ordered and small.
LEMMA ProcessBranches ==
    ASSUME TypeOK, Control, Branches, Process
    PROVE  Branches'
<1> USE DEF Branches, Active, Doing, Busy, In, Sends, Waits, Discovery
<1>0. disc \in Discovery
  BY TypeParts
<1>1. CASE LateResponse
  BY <1>0, <1>1 DEF LateResponse, Control
<1>2. CASE UnmuteSend
  BY <1>0, <1>2 DEF UnmuteSend
<1>3. CASE UnmuteTimeout
  BY <1>0, <1>3 DEF UnmuteTimeout
<1>4. CASE UnmuteDone
  BY <1>0, <1>4 DEF UnmuteDone, Enter
<1>5. CASE MuteDone
  BY <1>0, <1>5 DEF MuteDone, Enter
<1>6. CASE MuteGone
  BY <1>0, <1>6 DEF MuteGone
<1>7. CASE MuteSend
  BY <1>0, <1>7 DEF MuteSend
<1>8. CASE MuteAnswered
  BY <1>0, <1>8 DEF MuteAnswered
<1>9. CASE MuteTimeout
  BY <1>0, <1>9 DEF MuteTimeout
<1>10. CASE DiscoverySend
  <2>1. /\ StackFits(Popped.stack) /\ BranchFits(Popped.stack, Popped.branch)
        /\ Popped.branch.lower <= Popped.branch.upper
        /\ Popped \in Discovery /\ Popped.branch = Top /\ Top \in Branch
    BY <1>0, <1>10, PoppedFits, PoppedType DEF DiscoverySend
  <2>2. Popped.branch.lower < Popped.branch.upper
    <3>1. Top.lower \in Nat /\ Top.upper \in Nat /\ Top.lower # Top.upper
      BY <1>10, <2>1, ConstantTypes DEF DiscoverySend, Branch
    <3> QED
      BY <2>1, <3>1
  <2>3. Popped.state = disc.state
    BY <1>0 DEF Popped
  <2> DEFINE d == Popped
  <2> HIDE DEF d
  <2>4. disc' = [d EXCEPT !.discovery = DiscoveryCounter, !.running = TRUE]
    BY <1>10 DEF DiscoverySend, d
  <2>5. /\ disc'.stack = d.stack /\ disc'.branch = d.branch
        /\ disc'.state = "DISCOVERY" /\ disc'.running
    BY <1>10, <2>1, <2>3, <2>4 DEF DiscoverySend, d
  <2> QED
    BY <2>1, <2>2, <2>5 DEF d
<1>11. CASE DiscoverySingle
  <2>1. /\ StackFits(Popped.stack) /\ BranchFits(Popped.stack, Popped.branch)
        /\ Popped \in Discovery /\ Popped.branch = Top
    BY <1>0, <1>11, PoppedFits, PoppedType DEF DiscoverySingle
  <2>2. Popped.branch.lower = Popped.branch.upper
    BY <1>11, <2>1 DEF DiscoverySingle
  <2> DEFINE d == Popped
  <2> HIDE DEF d
  <2>3. disc' = [d EXCEPT !.state = "LATE_RESPONSE",
                          !.saved = "DISCOVERY_SINGLE_DEVICE"]
    BY <1>11 DEF DiscoverySingle, d
  <2>4. /\ disc'.stack = d.stack /\ disc'.branch = d.branch
        /\ disc'.state = "LATE_RESPONSE"
        /\ disc'.saved = "DISCOVERY_SINGLE_DEVICE"
    BY <2>1, <2>3 DEF d
  <2> QED
    BY <2>1, <2>2, <2>4 DEF d
<1>12. CASE DiscoveryEmpty
  BY <1>0, <1>12 DEF DiscoveryEmpty, EnterLate, Enter
<1>13. CASE DiscoveryAnswered
  BY <1>0, <1>13 DEF DiscoveryAnswered, Enter
<1>14. CASE DiscoveryGivesUp
  BY <1>0, <1>14 DEF DiscoveryGivesUp, Enter
<1>15. CASE DiscoveryTimeout
  BY <1>0, <1>15 DEF DiscoveryTimeout
<1>16. CASE SingleGone
  BY <1>0, <1>16 DEF SingleGone, EnterLate, Enter
<1>17. CASE SingleSend
  BY <1>0, <1>17 DEF SingleSend
<1>18. CASE SingleAnswered
  BY <1>0, <1>18 DEF SingleAnswered, Enter
<1>19. CASE SingleIgnored
  BY <1>0, <1>19 DEF SingleIgnored
<1>20. CASE SingleTimeout
  BY <1>0, <1>20 DEF SingleTimeout
<1>21. CASE DubSilent
  BY <1>0, <1>21 DEF DubSilent, Enter
<1>22. CASE DubFound
  BY <1>0, <1>22 DEF DubFound, EnterLate, Enter
<1>23. CASE DubSplit
  <2> DEFINE s == disc.stack
             t == Push(Push(s, LowerHalf(disc.branch)), UpperHalf(disc.branch))
             d == EnterLate("DISCOVERY")
  <2>1. /\ BranchFits(disc.stack, disc.branch)
        /\ disc.branch.lower < disc.branch.upper
    BY <1>0, <1>23 DEF DubSplit
  <2>2. StackFits(t)
    BY <1>0, <2>1, SplitFits
  <2>3. /\ d \in Discovery /\ d.stack = s /\ d.state = "LATE_RESPONSE"
        /\ d.saved = "DISCOVERY" /\ ~d.running
    BY <1>0, EnterLateType DEF EnterLate, Enter, States
  <2> HIDE DEF t, d
  <2>4. disc' = [d EXCEPT !.stack = t]
    BY <1>23, <2>3 DEF DubSplit, d, t
  <2>5. /\ disc'.stack = t /\ disc'.state = "LATE_RESPONSE"
        /\ disc'.saved = "DISCOVERY" /\ ~disc'.running
    BY <2>3, <2>4
  <2> QED
    BY <2>2, <2>5
<1>24. CASE QuickFindSend
  BY <1>0, <1>24 DEF QuickFindSend
<1>25. CASE QuickFindIgnored
  BY <1>0, <1>25 DEF QuickFindIgnored
<1>26. CASE QuickFindAnswered
  BY <1>0, <1>26 DEF QuickFindAnswered, Enter
<1>27. CASE QuickFindTimeout
  BY <1>0, <1>27 DEF QuickFindTimeout
<1>28. CASE QuickFindDiscoverySend
  BY <1>0, <1>28 DEF QuickFindDiscoverySend
<1>29. CASE QuickFindDiscoveryAnswered
  BY <1>0, <1>29 DEF QuickFindDiscoveryAnswered, EnterLate, Enter
<1>30. CASE QuickFindDiscoveryTimeout
  BY <1>0, <1>30 DEF QuickFindDiscoveryTimeout
<1>31. CASE QuickFindDiscoveryDone
  BY <1>0, <1>31 DEF QuickFindDiscoveryDone, EnterLate, Enter
<1>32. CASE Finished
  BY <1>0, <1>32 DEF Finished, Enter
<1> QED
  BY <1>1, <1>2, <1>3, <1>4, <1>5, <1>6, <1>7, <1>8, <1>9, <1>10, <1>11,
     <1>12, <1>13, <1>14, <1>15, <1>16, <1>17, <1>18, <1>19, <1>20, <1>21,
     <1>22, <1>23, <1>24, <1>25, <1>26, <1>27, <1>28, <1>29, <1>30, <1>31,
     <1>32 DEF Process

\* The first branch, all UIDs, fits.
LEMMA WholeFits == StackFits(<<Whole>>)
<1>1. /\ Len(<<Whole>>) = 1 /\ <<Whole>>[1] = Whole
      /\ Whole.lower = 0 /\ Whole.upper = Last
  BY DEF Whole
<1>2. Last \in Nat /\ TableSize \in Nat \ {0} /\ Sizes[1] = Last + 1
  BY ConstantTypes, SizesAre
<1>3. \A i \in 1 .. Len(<<Whole>>) : i = 1 /\ i + 1 .. Len(<<Whole>>) = {}
  BY <1>1
<1> QED
  BY <1>1, <1>2, <1>3 DEF StackFits, Size

\* The node keeps the branches.
LEMMA NodeBranches ==
    ASSUME TypeOK, Branches, Full \/ Stop \/ Incremental \/ Publish
    PROVE  Branches'
<1> USE DEF Branches, Active, Doing, Busy, In, Waits
<1>0. disc \in Discovery
  BY TypeParts
<1>1. CASE Full
  <2>1. CASE In("IDLE")
    <3>1. disc' = Started(FALSE, disc)
      BY <1>1, <2>1 DEF Full
    <3>2. disc'.stack = <<Whole>> /\ disc'.state = "UNMUTE"
      BY <1>0, <3>1, StartedType
    <3> QED
      BY <3>2, WholeFits
  <2>2. CASE ~In("IDLE")
    <3>1. disc' = disc
      BY <1>1, <2>2 DEF Full
    <3> QED
      BY <3>1
  <2> QED
    BY <2>1, <2>2
<1>2. CASE Stop
  BY <1>0, <1>2 DEF Stop, Enter, EnterLate, Discovery
<1>3. CASE Incremental
  <2> DEFINE d == Started(TRUE, disc)
  <2>1. d \in Discovery /\ d.state = "UNMUTE" /\ d.stack = <<Whole>>
    BY <1>0, StartedType
  <2>2. disc' = [d EXCEPT !.entries = Len(tod)]
    BY <1>3 DEF Incremental
  <2> HIDE DEF d
  <2>3. disc'.state = "UNMUTE" /\ disc'.stack = <<Whole>>
    BY <2>1, <2>2 DEF Discovery
  <2> QED
    BY <2>3, WholeFits
<1>4. CASE Publish
  BY <1>0, <1>4 DEF Publish, Discovery
<1> QED
  BY <1>1, <1>2, <1>3, <1>4

\* Every step keeps the branches.
LEMMA BranchesStep ==
    ASSUME TypeOK, Control, Branches, [Next]_vars
    PROVE  Branches'
<1>1. CASE Process
  BY <1>1, ProcessBranches
<1>2. CASE Full \/ Stop \/ Incremental \/ Publish
  BY <1>2, NodeBranches
<1>3. CASE HandleRdm \/ HandleRdmIn
  BY <1>3, RdmTypes, DiscKept
<1>4. ASSUME NEW d \in Devices, Plug(d) \/ Unplug(d)
      PROVE  Branches'
  BY <1>4, MovesTypes, DiscKept
<1>5. CASE UNCHANGED vars
  BY <1>5, DiscKept DEF vars
<1> QED
  BY <1>1, <1>2, <1>3, <1>4, <1>5 DEF Next


-----------------------------------------------------------------------------
(* The line and the table *)

\* A request leaves the line, or cuts it off, and may put an answer on it.
AskedAnswer(a) == /\ a \in Answer /\ a # Foreign
                  /\ a.kind \in {"branch", "mute"} => a.uid \in present

\* A request puts at most one answer on the line, of a device that is there.
LEMMA AskLine ==
    ASSUME TypeOK, Asks
    PROVE  \E kept \in {line, <<>>} :
              \/ line' = kept
              \/ \E a \in Answer : AskedAnswer(a) /\ line' = Append(kept, a)
<1>0. /\ past \in Past /\ line \in Seq(Answer) /\ Devices \subseteq UIDs
      /\ present \subseteq Devices /\ muted \subseteq present
  BY TypeParts
<1>1. CASE SendUnmute
  BY <1>0, <1>1, UnmuteSent
<1>2. CASE \E uid : SendMute(uid)
  <2>1. PICK uid : SendMute(uid)
    BY <1>2
  <2>2. \E kept \in {line, <<>>} :
           \/ line' = kept
           \/ uid \in present /\ line' = Append(kept, MuteOf(uid))
    BY <1>0, <2>1, MuteSent
  <2>3. uid \in present => MuteOf(uid) \in Answer /\ AskedAnswer(MuteOf(uid))
    <3>1. MuteOf(uid) # Foreign /\ MuteOf(uid).uid = uid
      BY DEF MuteOf, Foreign
    <3> QED
      BY <1>0, <3>1, DataTypes DEF AskedAnswer
  <2> QED
    BY <2>2, <2>3
<1>3. CASE \E b : SendBranch(b)
  <2>1. PICK b : SendBranch(b)
    BY <1>3
  <2>2. \E kept \in {line, <<>>} :
           \/ line' = kept
           \/ \E a \in Answer : BranchAnswer(a) /\ line' = Append(kept, a)
    BY <1>0, <2>1, BranchSent
  <2>3. \A a : BranchAnswer(a) => AskedAnswer(a)
    BY DEF BranchAnswer, AskedAnswer
  <2> QED
    BY <2>2, <2>3
<1>4. SendUnmute \/ (\E uid : SendMute(uid)) \/ (\E b : SendBranch(b))
  BY DEF Asks, UnmuteSend, MuteSend, MuteTimeout, DiscoverySend,
         DiscoveryTimeout, SingleSend, SingleTimeout, QuickFindSend,
         QuickFindDiscoverySend
<1> QED
  BY <1>1, <1>2, <1>3, <1>4

\* Whoever answers is on the line.
LEMMA LineStep ==
    ASSUME TypeOK, [Next]_vars, NEW S, present \subseteq S, LineOf(S)
    PROVE  LineOf(S)'
<1> USE DEF LineOf
<1>0. line \in Seq(Answer)
  BY TypeParts
<1>a. \A i \in DOMAIN <<>> : FALSE
  OBVIOUS
<1>1. CASE Process
  <2>1. CASE Asks
    <3>1. PICK kept \in {line, <<>>} :
             \/ line' = kept
             \/ \E a \in Answer : AskedAnswer(a) /\ line' = Append(kept, a)
      BY <2>1, AskLine
    <3>2. CASE line' = kept
      BY <1>a, <3>2
    <3>3. ASSUME NEW a \in Answer, AskedAnswer(a), line' = Append(kept, a)
          PROVE  LineOf(S)'
      <4>1. kept \in Seq(Answer)
        BY <1>0, KeptTypes, <3>3
      <4>2. \A i \in DOMAIN kept :
               kept[i].kind \in {"branch", "mute"} => kept[i].uid \in S
        BY <1>a
      <4>3. /\ DOMAIN line' = 1 .. Len(kept) + 1
            /\ DOMAIN kept = 1 .. Len(kept) /\ Len(kept) \in Nat
            /\ \A i \in 1 .. Len(kept) : line'[i] = kept[i]
            /\ line'[Len(kept) + 1] = a
        BY <3>3, <4>1, Appended
      <4>4. a.kind \in {"branch", "mute"} => a.uid \in S
        BY <3>3 DEF AskedAnswer
      <4> QED
        BY <4>2, <4>3, <4>4
    <3> QED
      BY <3>1, <3>2, <3>3
  <2>2. CASE Reads
    <3>1. PICK r \in Answer : Receives(r)
      BY <1>0, <1>1, <2>2, ProcessTouches
    <3>2. \A i \in DOMAIN line' : i + 1 \in DOMAIN line
                                  /\ line'[i] = line[i + 1]
      BY <1>0, <3>1, Received
    <3> QED
      BY <3>2
  <2>3. CASE line' \in {line, <<>>}
    BY <1>a, <2>3
  <2> QED
    BY <1>0, <1>1, <2>1, <2>2, <2>3, ProcessTouches
<1>2. CASE HandleRdm \/ HandleRdmIn
  <2>1. \A j \in DOMAIN line' : line'[j] # Foreign =>
           \/ j \in DOMAIN line /\ line'[j] = line[j]
           \/ j + 1 \in DOMAIN line /\ line'[j] = line[j + 1]
    BY <1>2, RdmTypes
  <2>2. Foreign.kind \notin {"branch", "mute"}
    BY DataTypes
  <2> QED
    BY <2>1, <2>2
<1>3. CASE line' = line
  BY <1>3
<1>4. \/ Process \/ HandleRdm \/ HandleRdmIn \/ line' = line
  BY DEF Next, vars, Full, Stop, Incremental, Publish, Plug, Unplug
<1> QED
  BY <1>1, <1>2, <1>3, <1>4

\* Process adds to the table who answered, and deletes in MUTE only.
LEMMA TableStep ==
    ASSUME TypeOK, Distinct, Process, NEW S, LineOf(S)
    PROVE  /\ Table' \subseteq Table \cup S
           /\ Table \subseteq Table' \/ MuteGone
<1>0. /\ tod \in Seq(UIDs) /\ Len(tod) <= TableSize /\ line \in Seq(Answer)
  BY TypeParts
<1>1. CASE tod' = tod
  BY <1>1 DEF Table
<1>2. CASE MuteGone
  <2>1. PICK uid : Delete(uid)
    BY <1>2 DEF MuteGone
  <2> QED
    BY <1>0, <1>2, <2>1, Deleted DEF Distinct
<1>3. ASSUME NEW uid \in UIDs, uid \in S, AddUid(uid)
      PROVE  Table' \subseteq Table \cup S /\ Table \subseteq Table'
  BY <1>0, <1>3, Added
<1>4. ASSUME NEW uid, Receives(MuteOf(uid))
      PROVE  uid \in UIDs /\ uid \in S
  <2>1. /\ MuteOf(uid) \in Answer /\ MuteOf(uid) = line[1]
        /\ 1 \in DOMAIN line
    BY <1>0, <1>4, Received
  <2>2. MuteOf(uid).uid = uid /\ MuteOf(uid).kind = "mute"
    BY DEF MuteOf
  <2> QED
    BY <2>1, <2>2, DataTypes DEF LineOf
<1>5. CASE SingleAnswered
  <2>1. Receives(MuteOf(disc.target)) /\ AddUid(disc.target)
    BY <1>5 DEF SingleAnswered, MuteOf
  <2> QED
    BY <1>3, <1>4, <2>1
<1>6. CASE QuickFindAnswered
  <2>1. PICK r \in Answer : /\ r.kind = "mute" /\ Receives(r)
                            /\ AddUid(r.uid) \/ tod' = tod
    BY <1>6 DEF QuickFindAnswered
  <2>2. r = MuteOf(r.uid)
    BY <2>1, DataTypes
  <2> QED
    BY <1>1, <1>3, <1>4, <2>1, <2>2
<1> QED
  BY <1>0, <1>1, <1>2, <1>5, <1>6, ProcessTouches DEF Tables

\* Every step keeps the entries distinct and the UIDs those of devices.
LEMMA TableOKStep ==
    ASSUME TypeOK, Control, Branches, TableOK, [Next]_vars
    PROVE  TableOK'
<1>1. Distinct' /\ present \subseteq Devices
  BY TypeStep, TypeParts DEF TableOK
<1>2. LineOf(Devices)'
  BY <1>1, LineStep DEF TableOK
<1>3. Table' \subseteq Devices
  <2>1. CASE Process
    BY <2>1, TableStep DEF TableOK
  <2>2. CASE tod' = tod
    BY <2>2 DEF TableOK, Table
  <2>3. CASE tod' = <<>>
    BY <2>3 DEF Table
  <2>4. Process \/ tod' = tod \/ tod' = <<>>
    BY DEF Next, vars, Full, Stop, Incremental, Publish, Plug, Unplug,
           HandleRdm, HandleRdmIn
  <2> QED
    BY <2>1, <2>2, <2>3, <2>4
<1> QED
  BY <1>1, <1>2, <1>3 DEF TableOK


-----------------------------------------------------------------------------
(* From state to state *)

Unmutes == UnmuteSend \/ UnmuteTimeout
Mutes == MuteGone \/ MuteSend \/ MuteAnswered \/ MuteTimeout

\* What Process does in UNMUTE and in MUTE, and what it never does
LEMMA ProcessPhase ==
    ASSUME TypeOK, Control, Process
    PROVE  /\ ~In("IDLE") /\ disc'.incremental = disc.incremental
           /\ Searching' => Searching
           /\ Doing' = "UNMUTE" => Unmutes
           /\ Doing' = "MUTE" => Mutes \/ UnmuteDone
           /\ Doing = "UNMUTE" => Unmutes \/ UnmuteDone
           /\ Doing = "MUTE" => Mutes \/ MuteDone
<1> USE DEF Doing, In, Sends, Waits, Searching, Unmutes, Mutes, Discovery
<1>0. disc \in Discovery
  BY TypeParts
<1>1. CASE LateResponse
  BY <1>0, <1>1 DEF LateResponse, Control
<1>2. CASE UnmuteSend
  BY <1>0, <1>2 DEF UnmuteSend
<1>3. CASE UnmuteTimeout
  BY <1>0, <1>3 DEF UnmuteTimeout
<1>4. CASE UnmuteDone
  BY <1>0, <1>4 DEF UnmuteDone, Enter
<1>5. CASE MuteDone
  BY <1>0, <1>5 DEF MuteDone, Enter
<1>6. CASE MuteGone
  BY <1>0, <1>6 DEF MuteGone
<1>7. CASE MuteSend
  BY <1>0, <1>7 DEF MuteSend
<1>8. CASE MuteAnswered
  BY <1>0, <1>8 DEF MuteAnswered
<1>9. CASE MuteTimeout
  BY <1>0, <1>9 DEF MuteTimeout
<1>10. CASE DiscoverySend
  BY <1>0, <1>10 DEF DiscoverySend, Popped
<1>11. CASE DiscoverySingle
  BY <1>0, <1>11 DEF DiscoverySingle, Popped
<1>12. CASE DiscoveryEmpty
  BY <1>0, <1>12 DEF DiscoveryEmpty, EnterLate, Enter
<1>13. CASE DiscoveryAnswered
  BY <1>0, <1>13 DEF DiscoveryAnswered, Enter
<1>14. CASE DiscoveryGivesUp
  BY <1>0, <1>14 DEF DiscoveryGivesUp, Enter
<1>15. CASE DiscoveryTimeout
  BY <1>0, <1>15 DEF DiscoveryTimeout
<1>16. CASE SingleGone
  BY <1>0, <1>16 DEF SingleGone, EnterLate, Enter
<1>17. CASE SingleSend
  BY <1>0, <1>17 DEF SingleSend
<1>18. CASE SingleAnswered
  BY <1>0, <1>18 DEF SingleAnswered, Enter
<1>19. CASE SingleIgnored
  BY <1>0, <1>19 DEF SingleIgnored
<1>20. CASE SingleTimeout
  BY <1>0, <1>20 DEF SingleTimeout
<1>21. CASE DubSilent
  BY <1>0, <1>21 DEF DubSilent, Enter
<1>22. CASE DubFound
  BY <1>0, <1>22 DEF DubFound, EnterLate, Enter
<1>23. CASE DubSplit
  BY <1>0, <1>23 DEF DubSplit, EnterLate, Enter
<1>24. CASE QuickFindSend
  BY <1>0, <1>24 DEF QuickFindSend
<1>25. CASE QuickFindIgnored
  BY <1>0, <1>25 DEF QuickFindIgnored
<1>26. CASE QuickFindAnswered
  BY <1>0, <1>26 DEF QuickFindAnswered, Enter
<1>27. CASE QuickFindTimeout
  BY <1>0, <1>27 DEF QuickFindTimeout
<1>28. CASE QuickFindDiscoverySend
  BY <1>0, <1>28 DEF QuickFindDiscoverySend
<1>29. CASE QuickFindDiscoveryAnswered
  BY <1>0, <1>29 DEF QuickFindDiscoveryAnswered, EnterLate, Enter
<1>30. CASE QuickFindDiscoveryTimeout
  BY <1>0, <1>30 DEF QuickFindDiscoveryTimeout
<1>31. CASE QuickFindDiscoveryDone
  BY <1>0, <1>31 DEF QuickFindDiscoveryDone, EnterLate, Enter
<1>32. CASE Finished
  BY <1>0, <1>32 DEF Finished, Enter
<1> QED
  BY <1>1, <1>2, <1>3, <1>4, <1>5, <1>6, <1>7, <1>8, <1>9, <1>10, <1>11,
     <1>12, <1>13, <1>14, <1>15, <1>16, <1>17, <1>18, <1>19, <1>20, <1>21,
     <1>22, <1>23, <1>24, <1>25, <1>26, <1>27, <1>28, <1>29, <1>30, <1>31,
     <1>32
  DEF Process

\* A discovery that can still be told to be sound was so before.
LEMMA SoundKept ==
    ASSUME TypeOK, Control, Process, Sound'
    PROVE  /\ Sound /\ ~In("IDLE") /\ disc'.incremental = disc.incremental
           /\ past' \in Past /\ past'.losses <= past.losses
           /\ past'.steady = past.steady /\ past'.seen = past.seen
           /\ gateway' = gateway /\ present' = present
<1>1. /\ gateway' = gateway /\ present' = present
      /\ Asks \/ (muted' = muted /\ past' = past)
  BY TypeParts, ProcessTouches
<1>2. PastLoses /\ past'.quiet = past.quiet
  <2>1. CASE Asks
    BY <2>1, AskTypes
  <2>2. CASE past' = past
    BY <2>2, TypeParts, ConstantTypes DEF PastLoses, Past
  <2> QED
    BY <1>1, <2>1, <2>2
<1>3. /\ ~In("IDLE") /\ disc'.incremental = disc.incremental
      /\ Searching' => Searching
  BY ProcessPhase
<1>4. Sound
  BY <1>2, <1>3 DEF Sound, Calm, PastLoses
<1> QED
  BY <1>1, <1>2, <1>3, <1>4 DEF PastLoses

\* DISC_MUTE: its answer comes last, or a loss is counted.
LEMMA MuteLine ==
    ASSUME TypeOK, NEW uid, SendMute(uid)
    PROVE  \E n \in Nat :
              /\ \A i \in DOMAIN line' :
                    \/ i \in DOMAIN line /\ line'[i] = line[i] /\ i < n
                    \/ i = n /\ uid \in present /\ line'[i] = MuteOf(uid)
              /\ line = <<>> => n = 1
              /\ uid \in present =>
                    \/ past'.losses < past.losses
                    \/ n \in DOMAIN line' /\ line'[n] = MuteOf(uid)
<1>0. /\ past \in Past /\ line \in Seq(Answer) /\ Devices \subseteq UIDs
      /\ present \subseteq Devices /\ muted \subseteq present
  BY TypeParts
<1>1. PICK kept \in {line, <<>>} :
         \/ line' = kept /\ (uid \in present => past'.losses < past.losses)
         \/ uid \in present /\ line' = Append(kept, MuteOf(uid))
  BY <1>0, MuteSent
<1>2. /\ kept \in Seq(Answer) /\ Len(kept) \in Nat
      /\ DOMAIN kept = 1 .. Len(kept)
      /\ \A i \in DOMAIN kept : i \in DOMAIN line /\ kept[i] = line[i]
      /\ line = <<>> => Len(kept) = 0
  <2>1. /\ <<>> \in Seq(Answer) /\ Len(<<>>) = 0
        /\ \A i \in DOMAIN <<>> : FALSE
    OBVIOUS
  <2>2. /\ kept \in Seq(Answer) /\ (line = <<>> => Len(kept) = 0)
        /\ \A i \in DOMAIN kept : i \in DOMAIN line /\ kept[i] = line[i]
    BY <1>0, <2>1
  <2> QED
    BY <2>2
<1>3. Len(kept) + 1 \in Nat /\ (line = <<>> => Len(kept) + 1 = 1)
  BY <1>2
<1>4. CASE line' = kept /\ (uid \in present => past'.losses < past.losses)
  <2>1. \A i \in DOMAIN line' :
           i \in DOMAIN line /\ line'[i] = line[i] /\ i < Len(kept) + 1
    BY <1>2, <1>4
  <2> QED
    BY <1>3, <1>4, <2>1
<1>5. CASE uid \in present /\ line' = Append(kept, MuteOf(uid))
  <2>1. MuteOf(uid) \in Answer
    BY <1>0, <1>5, DataTypes
  <2>2. /\ DOMAIN line' = 1 .. Len(kept) + 1
        /\ \A i \in 1 .. Len(kept) : line'[i] = kept[i]
        /\ line'[Len(kept) + 1] = MuteOf(uid)
    BY <1>2, <1>5, <2>1, Appended
  <2>3. /\ Len(kept) + 1 \in DOMAIN line'
        /\ \A i \in DOMAIN line' : i = Len(kept) + 1
                                   \/ i \in 1 .. Len(kept)
        /\ \A i \in 1 .. Len(kept) : i < Len(kept) + 1
    BY <1>2, <2>2
  <2>4. \A i \in DOMAIN line' :
           \/ i \in DOMAIN line /\ line'[i] = line[i] /\ i < Len(kept) + 1
           \/ i = Len(kept) + 1 /\ uid \in present /\ line'[i] = MuteOf(uid)
    BY <1>2, <1>5, <2>2, <2>3
  <2> QED
    BY <1>3, <1>5, <2>2, <2>3, <2>4
<1> QED
  BY <1>1, <1>4, <1>5

\* DISC_UNIQUE_BRANCH: an answer comes last, or a loss is counted.
LEMMA BranchLine ==
    ASSUME TypeOK, NEW b, SendBranch(b)
    PROVE  /\ muted' = muted
           /\ \A i \in DOMAIN line' :
                 \/ i \in DOMAIN line /\ line'[i] = line[i]
                 \/ ~IsMute(i)'
           /\ \A d \in present \ muted :
                 InBranch(d, b) /\ Silent' => past'.losses < past.losses
<1>0. /\ past \in Past /\ line \in Seq(Answer) /\ Devices \subseteq UIDs
      /\ present \subseteq Devices
  BY TypeParts
<1>1. muted' = muted
  BY <1>0, BranchSent
<1>2. PICK kept \in {line, <<>>} :
         \/ line' = kept
            /\ \A d \in present \ muted :
                  InBranch(d, b) => past'.losses < past.losses
         \/ \E a \in Answer : BranchAnswer(a) /\ line' = Append(kept, a)
  BY <1>0, BranchSent
<1>3. /\ kept \in Seq(Answer)
      /\ \A i \in DOMAIN kept : i \in DOMAIN line /\ kept[i] = line[i]
  <2>1. <<>> \in Seq(Answer) /\ \A i \in DOMAIN <<>> : FALSE
    OBVIOUS
  <2> QED
    BY <1>0, <2>1
<1>4. CASE line' = kept
           /\ \A d \in present \ muted :
                 InBranch(d, b) => past'.losses < past.losses
  BY <1>1, <1>3, <1>4
<1>5. ASSUME NEW a \in Answer, BranchAnswer(a), line' = Append(kept, a)
      PROVE  /\ \A i \in DOMAIN line' :
                   \/ i \in DOMAIN line /\ line'[i] = line[i]
                   \/ ~IsMute(i)'
             /\ ~Silent'
  <2>1. /\ DOMAIN line' = 1 .. Len(kept) + 1
        /\ DOMAIN kept = 1 .. Len(kept) /\ Len(kept) \in Nat
        /\ \A i \in 1 .. Len(kept) : line'[i] = kept[i]
        /\ line'[Len(kept) + 1] = a
    BY <1>3, <1>5, Appended
  <2>2. /\ Len(kept) + 1 \in DOMAIN line'
        /\ \A i \in DOMAIN line' : i = Len(kept) + 1
                                   \/ i \in DOMAIN kept
    BY <2>1
  <2>3. a.kind # "mute" /\ a # Foreign
    BY <1>5 DEF BranchAnswer
  <2>4. ~Silent'
    BY <2>1, <2>2, <2>3 DEF Silent
  <2> QED
    BY <1>3, <2>1, <2>2, <2>3, <2>4 DEF IsMute
<1> QED
  BY <1>1, <1>2, <1>4, <1>5

-----------------------------------------------------------------------------
(* What is sound stays sound in Process: history and calm line *)

Known == /\ TypeOK /\ Control /\ Branches /\ TableOK /\ Sound
         /\ History /\ CalmLine /\ MutesFit /\ Patient

\* What is known in MUTE
LEMMA MuteFacts ==
    ASSUME Known, Doing = "MUTE"
    PROVE  /\ In("MUTE") /\ disc.incremental
           /\ disc.mute = 0 => disc.running /\ disc.target \notin present
           /\ ~disc.running => line = <<>>
           /\ disc.entries \in Nat /\ disc.entries <= Len(tod)
           /\ Len(tod) \in Nat /\ DOMAIN tod = 1 .. Len(tod)
           /\ disc.entries > 0 => /\ tod[disc.entries] \in Table
                                  /\ disc.entries \in DOMAIN tod
           /\ disc.running => /\ disc.entries > 0
                              /\ disc.target = tod[disc.entries]
           /\ \A i \in disc.entries + 1 .. Len(tod) : tod[i] \in past.seen
           /\ line # <<>> => /\ disc.running /\ disc.target \in present
                             /\ line = <<MuteOf(disc.target)>>
<1>1. In("MUTE")
  BY DEF Known, Control, Doing, In
<1>2. /\ disc.incremental /\ disc.entries <= Len(tod)
      /\ disc.running => disc.target = tod[disc.entries]
      /\ \A i \in disc.entries + 1 .. Len(tod) : tod[i] \in past.seen
  BY DEF Known, History
<1>3. /\ line # <<>> => /\ disc.running /\ disc.target \in present
                        /\ line = <<MuteOf(disc.target)>>
  BY <1>2 DEF Known, CalmLine, Waits
<1>4. /\ disc.entries \in Nat /\ Len(tod) \in Nat /\ DOMAIN tod = 1 .. Len(tod)
      /\ past.losses \in Nat /\ disc.mute \in Nat
  <2>1. /\ disc \in Discovery /\ past \in Past /\ tod \in Seq(UIDs)
        /\ Len(tod) \in Nat /\ DOMAIN tod = 1 .. Len(tod)
    BY TypeParts DEF Known
  <2>2. past.losses \in Nat
    BY <2>1, ConstantTypes DEF Past
  <2>3. disc.entries \in Nat /\ disc.mute \in Nat
    BY <2>1, DiscTypes, ConstantTypes
  <2> QED
    BY <2>1, <2>2, <2>3
<1>5. disc.mute = 0 => disc.running /\ disc.target \notin present
  <2>1. \/ Waits("MUTE") /\ disc.target \notin present
        \/ Patience(disc.mute, line = <<>>)
    BY DEF Known, Patient, PatientMute
  <2>2. Patience(disc.mute, line = <<>>) => disc.mute > 0
    BY <1>4 DEF Patience
  <2> QED
    BY <2>1, <2>2 DEF Waits
<1>6. disc.running => disc.entries > 0
  BY <1>1 DEF Known, Control, Waits
<1>7. disc.entries > 0 => /\ disc.entries \in DOMAIN tod
                          /\ tod[disc.entries] \in Table
  BY <1>2, <1>4 DEF Table
<1> QED
  BY <1>1, <1>2, <1>3, <1>4, <1>5, <1>6, <1>7

\* Process puts nothing into the table or on the line that was not seen.
LEMMA ProcessHistory ==
    ASSUME Known, Process, Sound'
    PROVE  History'
<1>0. /\ TypeOK /\ Control /\ Distinct /\ History /\ disc \in Discovery
      /\ past.seen = past'.seen /\ past.steady = past'.steady
      /\ present' = present /\ disc'.incremental = disc.incremental
      /\ ~In("IDLE")
  BY SoundKept, TypeParts DEF Known, TableOK
<1>a. /\ disc.entries \in Nat /\ disc.unmute \in Nat
      /\ UnmuteCounter \in Nat \ {0}
  BY <1>0, DiscTypes, ConstantTypes
<1>1. /\ past'.steady \subseteq present' /\ present' \subseteq past'.seen
      /\ disc'.incremental /\ ~In("IDLE")' => past'.steady = present'
  BY <1>0 DEF History
<1>2. Doing' = "UNMUTE" =>
         IF disc'.incremental THEN disc'.entries = Len(tod') ELSE tod' = <<>>
  <2>1. Unmutes => /\ Doing = "UNMUTE" /\ tod' = tod
                   /\ disc'.entries = disc.entries
    BY <1>0 DEF Unmutes, UnmuteSend, UnmuteTimeout, Sends, Waits, In, Doing,
                Discovery
  <2> QED
    BY <1>0, <2>1, ProcessPhase DEF History
<1>3. Doing' = "MUTE" =>
         /\ disc'.incremental /\ disc'.entries <= Len(tod')
         /\ disc'.running => disc'.target = tod'[disc'.entries]
         /\ \A i \in disc'.entries + 1 .. Len(tod') : tod'[i] \in past'.seen
  <2>1. CASE UnmuteDone
    <3>1. /\ Doing = "UNMUTE" /\ tod' = tod /\ ~disc'.running
          /\ disc'.entries = disc.entries
          /\ disc.incremental \/ Doing' = "DISCOVERY"
      BY <1>0, <2>1 DEF UnmuteDone, In, Doing, Enter, Discovery
    <3>2. disc.incremental => disc.entries = Len(tod)
      BY <1>0, <3>1 DEF History
    <3>3. \A i \in Len(tod) + 1 .. Len(tod) : FALSE
      BY <1>0, TypeParts
    <3> QED
      BY <1>0, <1>a, <3>1, <3>2, <3>3
  <2>2. ASSUME Mutes
        PROVE  Doing = "MUTE"
    BY <2>2 DEF Mutes, MuteGone, MuteSend, MuteAnswered, MuteTimeout, Sends,
                Waits, In, Doing
  <2>3. CASE MuteGone
    <3>1. Doing = "MUTE"
      BY <2>2, <2>3 DEF Mutes
    <3>2. /\ disc.running /\ disc.entries > 0 /\ disc.incremental
          /\ disc.target = tod[disc.entries] /\ disc.entries \in DOMAIN tod
          /\ disc.entries \in Nat /\ Len(tod) \in Nat
          /\ disc.entries <= Len(tod)
          /\ \A i \in disc.entries + 1 .. Len(tod) : tod[i] \in past.seen
      BY <2>3, <3>1, MuteFacts DEF MuteGone
    <3>3. disc'.entries = disc.entries - 1 /\ ~disc'.running
      BY <1>0, <2>3 DEF MuteGone, Discovery
    <3>4. Delete(disc.target)
      BY <2>3 DEF MuteGone
    <3>5. /\ Len(tod') = Len(tod) - 1
          /\ \A i \in disc.entries .. Len(tod') : tod'[i] = tod[i + 1]
      BY <1>0, <3>2, <3>4, TypeParts, Deleted DEF Distinct
    <3>6. \A i \in disc'.entries + 1 .. Len(tod') :
             /\ i \in disc.entries .. Len(tod')
             /\ i + 1 \in disc.entries + 1 .. Len(tod)
      BY <3>2, <3>3, <3>5
    <3>7. disc'.entries <= Len(tod')
      BY <3>2, <3>3, <3>5
    <3> QED
      BY <1>0, <3>2, <3>3, <3>5, <3>6, <3>7
  <2>4. CASE MuteSend
    <3>1. Doing = "MUTE"
      BY <2>2, <2>4 DEF Mutes
    <3>2. /\ disc'.entries = disc.entries /\ tod' = tod /\ disc.entries > 0
          /\ disc'.target = Entry(disc.entries)
      BY <1>0, <2>4 DEF MuteSend, Discovery
    <3>3. Entry(disc.entries) = tod[disc.entries]
      BY <3>1, <3>2, MuteFacts DEF Entry
    <3> QED
      BY <1>0, <3>1, <3>2, <3>3, MuteFacts
  <2>5. CASE MuteAnswered
    <3>1. Doing = "MUTE"
      BY <2>2, <2>5 DEF Mutes
    <3>2. /\ disc'.entries = disc.entries - 1 /\ tod' = tod
          /\ disc.running /\ ~disc'.running
      BY <1>0, <2>5 DEF MuteAnswered, Waits, Discovery
    <3>3. line # <<>>
      BY <2>5 DEF MuteAnswered, Receives
    <3>4. tod[disc.entries] \in past.seen
      BY <1>0, <3>1, <3>2, <3>3, MuteFacts DEF History
    <3>5. /\ disc.entries \in Nat /\ Len(tod) \in Nat
          /\ disc.entries <= Len(tod) /\ disc.incremental
          /\ \A i \in disc.entries + 1 .. Len(tod) : tod[i] \in past.seen
      BY <3>1, MuteFacts
    <3>6. \A i \in disc.entries - 1 + 1 .. Len(tod) :
             i = disc.entries \/ i \in disc.entries + 1 .. Len(tod)
      BY <3>5
    <3>7. disc.entries - 1 <= Len(tod)
      BY <3>5
    <3> QED
      BY <1>0, <3>2, <3>4, <3>5, <3>6, <3>7
  <2>6. CASE MuteTimeout
    <3>1. Doing = "MUTE"
      BY <2>2, <2>6 DEF Mutes
    <3>2. /\ disc'.entries = disc.entries /\ tod' = tod /\ disc.running
          /\ disc'.target = disc.target
      BY <1>0, <2>6 DEF MuteTimeout, Waits, Discovery
    <3> QED
      BY <1>0, <3>1, <3>2, MuteFacts
  <2> QED
    BY <1>0, <2>1, <2>3, <2>4, <2>5, <2>6, ProcessPhase DEF Mutes
<1>4. Doing' \notin {"UNMUTE", "MUTE"} => Table' \subseteq past'.seen
  <2>1. CASE UnmuteDone
    <3>1. /\ Doing = "UNMUTE" /\ tod' = tod
          /\ disc.incremental => Doing' = "MUTE"
      BY <1>0, <2>1 DEF UnmuteDone, In, Doing, Enter, Discovery
    <3>2. ~disc.incremental => tod = <<>>
      BY <1>0, <3>1 DEF History
    <3> QED
      BY <3>1, <3>2 DEF Table
  <2>2. CASE MuteDone
    <3>1. Doing = "MUTE" /\ tod' = tod /\ disc.entries = 0
      BY <2>2 DEF MuteDone, In, Doing
    <3>2. \A i \in DOMAIN tod : i \in disc.entries + 1 .. Len(tod)
      BY <3>1, MuteFacts
    <3> QED
      BY <1>0, <3>1, <3>2, MuteFacts DEF Table
  <2>3. CASE Doing \notin {"UNMUTE", "MUTE"}
    <3>1. Table \subseteq past.seen /\ LineOf(past.seen)
      BY <1>0, <2>3 DEF History
    <3> QED
      BY <1>0, <3>1, TableStep
  <2>4. CASE Unmutes
    BY <1>0, <2>4
       DEF Unmutes, UnmuteSend, UnmuteTimeout, Sends, Waits, In, Doing,
           Discovery
  <2>5. CASE Mutes
    BY <1>0, <2>5, ZenonT(60)
       DEF Mutes, MuteGone, MuteSend, MuteAnswered, MuteTimeout, Sends,
           Waits, In, Doing, Discovery
  <2> QED
    BY <1>0, <2>1, <2>2, <2>3, <2>4, <2>5, ProcessPhase
<1>5. ~(Doing' = "UNMUTE" /\ disc'.unmute = UnmuteCounter)
         => LineOf(past.seen)'
  <2>1. CASE ~(Doing = "UNMUTE" /\ disc.unmute = UnmuteCounter)
    <3> DEFINE S == past.seen
    <3>1. LineOf(S) /\ present \subseteq S
      BY <1>0, <2>1 DEF History
    <3> HIDE DEF S
    <3>2. \A i \in DOMAIN line' :
             line'[i].kind \in {"branch", "mute"} => line'[i].uid \in S
      BY <1>0, <3>1, LineStep DEF Next, LineOf
    <3> QED
      BY <1>0, <3>2 DEF LineOf, S
  <2>2. CASE Doing = "UNMUTE" /\ disc.unmute = UnmuteCounter
    <3>1. UnmuteSend => Doing' = "UNMUTE" /\ disc'.unmute = UnmuteCounter
      BY <1>0, <2>2 DEF UnmuteSend, Sends, In, Doing, Discovery
    <3>2. UnmuteTimeout => line' = <<>>
      BY DEF UnmuteTimeout
    <3>3. ~UnmuteDone
      BY <1>a, <2>2 DEF UnmuteDone
    <3>4. line' = <<>> => LineOf(past.seen)'
      BY DEF LineOf
    <3> QED
      BY <1>0, <2>2, <3>1, <3>2, <3>3, <3>4, ProcessPhase DEF Unmutes
  <2> QED
    BY <2>1, <2>2
<1> QED
  BY <1>1, <1>2, <1>3, <1>4, <1>5 DEF History

\* The line stays calm while an incremental discovery looks at its entries.
LEMMA ProcessCalmLine ==
    ASSUME Known, Process, Sound'
    PROVE  CalmLine'
<1>0. /\ TypeOK /\ Control /\ disc \in Discovery /\ line \in Seq(Answer)
      /\ gateway' = gateway /\ present' = present
      /\ disc'.incremental = disc.incremental
  BY SoundKept, TypeParts DEF Known
<1>1. SUFFICES ASSUME disc.incremental, Doing' \in {"UNMUTE", "MUTE"}
               PROVE  /\ ~gateway
                      /\ line' # <<>> =>
                            /\ Waits("MUTE")' /\ disc'.target \in present
                            /\ line' = <<MuteOf(disc'.target)>>
  BY <1>0 DEF CalmLine, MuteOf
<1>2. Doing \in {"UNMUTE", "MUTE"}
  BY <1>0, <1>1, ProcessPhase
     DEF Unmutes, Mutes, UnmuteSend, UnmuteTimeout, UnmuteDone, MuteGone,
         MuteSend, MuteAnswered, MuteTimeout, Sends, Waits, In, Doing
<1>3. ~gateway
  BY <1>1, <1>2 DEF Known, CalmLine
<1>4. Doing = "UNMUTE" => line = <<>>
  BY <1>1, <1>2 DEF Known, CalmLine, Waits, In, Doing
<1>5. CASE Unmutes \/ UnmuteDone
  <2>1. Doing = "UNMUTE"
    BY <1>5 DEF Unmutes, UnmuteSend, UnmuteTimeout, UnmuteDone, Sends, Waits,
                In, Doing
  <2>2. line' \in {line, <<>>}
    <3>1. CASE UnmuteSend
      BY <1>0, <3>1, TypeParts, UnmuteSent DEF UnmuteSend
    <3>2. CASE UnmuteTimeout \/ UnmuteDone
      BY <3>2 DEF UnmuteTimeout, UnmuteDone
    <3> QED
      BY <1>5, <3>1, <3>2 DEF Unmutes
  <2> QED
    BY <1>3, <1>4, <2>1, <2>2
<1>6. ASSUME Mutes
      PROVE  Doing = "MUTE"
  BY <1>6 DEF Mutes, MuteGone, MuteSend, MuteAnswered, MuteTimeout, Sends,
              Waits, In, Doing
<1>7. CASE MuteGone
  <2>1. Doing = "MUTE" /\ disc.mute = 0 /\ line' = line
    BY <1>6, <1>7 DEF MuteGone, Mutes
  <2> QED
    BY <1>3, <2>1, MuteFacts
<1>8. CASE MuteSend \/ MuteTimeout
  <2>1. Doing = "MUTE" /\ In("MUTE") /\ line = <<>>
    BY <1>6, <1>8, MuteFacts DEF MuteSend, MuteTimeout, TimedOut, Sends, Mutes
  <2>2. /\ SendMute(disc'.target) /\ Waits("MUTE")'
    BY <1>0, <1>8, <2>1
       DEF MuteSend, MuteTimeout, Sends, Waits, In, Discovery
  <2> DEFINE uid == disc'.target
  <2> HIDE DEF uid
  <2>3. PICK n \in Nat :
           /\ \A i \in DOMAIN line' :
                 \/ i \in DOMAIN line /\ line'[i] = line[i] /\ i < n
                 \/ i = n /\ uid \in present /\ line'[i] = MuteOf(uid)
           /\ line = <<>> => n = 1
    BY <1>0, <2>2, MuteLine DEF uid
  <2>4. \A i \in DOMAIN line' :
           i = 1 /\ uid \in present /\ line'[i] = MuteOf(uid)
    BY <2>1, <2>3
  <2>5. line' \in Seq(Answer)
    BY <1>0, <1>8, AskTypes DEF Asks
  <2>6. CASE line' # <<>>
    <3>1. Len(line') \in Nat \ {0} /\ DOMAIN line' = 1 .. Len(line')
      BY <2>5, <2>6
    <3>2. 1 \in DOMAIN line' /\ Len(line') \in DOMAIN line'
      BY <3>1
    <3>3. Len(line') = 1 /\ line'[1] = MuteOf(uid) /\ uid \in present
      BY <2>4, <3>2
    <3>4. line' = <<MuteOf(uid)>>
      BY <2>5, <3>3
    <3> QED
      BY <1>3, <2>2, <3>3, <3>4 DEF uid
  <2> QED
    BY <1>3, <2>6
<1>9. CASE MuteAnswered
  <2>1. Doing = "MUTE" /\ \E r \in Answer : Receives(r)
    BY <1>6, <1>9 DEF MuteAnswered, Mutes
  <2>2. line # <<>> /\ line' = Tail(line)
    BY <2>1 DEF Receives
  <2>3. line = <<MuteOf(disc.target)>>
    BY <2>1, <2>2, MuteFacts
  <2>4. line' = <<>>
    BY <2>2, <2>3
  <2> QED
    BY <1>3, <2>4
<1> QED
  BY <1>0, <1>1, <1>5, <1>7, <1>8, <1>9, ProcessPhase DEF Mutes

-----------------------------------------------------------------------------
(* What is sound stays sound in Process: mutes and patience *)

\* The parts of what is known that every action needs
LEMMA KnownParts ==
    ASSUME Known, Process, Sound'
    PROVE  /\ TypeOK /\ Control /\ disc \in Discovery /\ line \in Seq(Answer)
           /\ MutesFit /\ PatientUnmute /\ PatientMute
           /\ past'.steady = past.steady /\ present' = present
           /\ past.losses \in Nat /\ past'.losses \in Nat
           /\ past'.losses <= past.losses
           /\ past.losses <= MaxLosses /\ past'.losses <= MaxLosses
           /\ MaxLosses \in Nat
           /\ past.steady \subseteq present
           /\ \A d \in past.steady :
                 d \in present /\ d \in UIDs /\ d \in Devices
<1>1. /\ past \in Past /\ past' \in Past
      /\ past'.steady = past.steady /\ present' = present
      /\ past'.losses <= past.losses
  BY SoundKept, TypeParts DEF Known
<1>2. /\ past.losses \in Nat /\ past'.losses \in Nat
      /\ past.losses <= MaxLosses /\ past'.losses <= MaxLosses
      /\ MaxLosses \in Nat
  BY <1>1, ConstantTypes DEF Past
<1>3. /\ disc \in Discovery /\ line \in Seq(Answer)
      /\ present \subseteq Devices /\ Devices \subseteq UIDs
  BY TypeParts DEF Known
<1>4. past.steady \subseteq present
  BY DEF Known, History
<1> QED
  BY <1>1, <1>2, <1>3, <1>4 DEF Known, Patient

\* Process forgets no device that waits: only one that is gone is deleted.
LEMMA WaitingKept ==
    ASSUME Known, Process, Sound', NEW d \in Waiting'
    PROVE  /\ d \in Waiting /\ d \in past.steady /\ d \notin Table
           /\ IsLeft(d) /\ Unmuted(d) /\ WillBeHeard(d)
<1>1. past'.steady = past.steady /\ d \in past.steady /\ d \notin Table'
  BY SoundKept DEF Known, Waiting
<1>2. d \notin Table
  <2>1. CASE MuteGone
    <3>1. disc.target \notin present /\ Delete(disc.target)
      <4>1. Doing = "MUTE" /\ disc.mute = 0
        BY <2>1 DEF MuteGone, In, Doing
      <4> QED
        BY <2>1, <4>1, MuteFacts DEF MuteGone
    <3>2. Table \ {disc.target} \subseteq Table'
      BY <3>1, TypeParts, Deleted DEF Known, TableOK, Distinct
    <3> QED
      BY <1>1, <3>1, <3>2 DEF Known, History
  <2>2. CASE Table \subseteq Table'
    BY <1>1, <2>2
  <2>3. LineOf(Devices)
    BY DEF Known, TableOK
  <2> QED
    BY <2>1, <2>2, <2>3, TableStep DEF Known, TableOK
<1> QED
  BY <1>1, <1>2 DEF Waiting, Known, Patient

\* A late answer is read and dropped: no device is forgotten by it.
LEMMA LateStep ==
    ASSUME Known, Process, Sound', LateResponse
    PROVE  MutesFit' /\ Patient'
<1>0. /\ TypeOK /\ Control /\ disc \in Discovery
      /\ MutesFit /\ past' = past /\ muted' = muted
  BY KnownParts DEF LateResponse
<1>1. /\ ~disc.running /\ ~disc'.running /\ disc.state = "LATE_RESPONSE"
      /\ disc'.state = disc.saved /\ disc'.stack = disc.stack
      /\ disc'.branch = disc.branch /\ disc'.single = disc.single
      /\ disc'.target = disc.target
      /\ disc.saved \in {"IDLE", "DISCOVERY", "DISCOVERY_SINGLE_DEVICE",
                         "QUICKFIND", "FINISHED"}
  BY <1>0 DEF LateResponse, Discovery, Control, In
<1>2. Doing = disc.saved /\ Doing' = Doing
  BY <1>1 DEF Doing, In
<1>3. Active' <=> Active
  BY <1>1, <1>2 DEF Active, Waits, In
<1>4. \A d : IsLeft(d)' <=> IsLeft(d)
  BY <1>1, <1>3 DEF IsLeft
<1>5. \A i \in DOMAIN line' : i \in DOMAIN line /\ line'[i] = line[i]
  BY DEF LateResponse
<1>6. MutesFit'
  BY <1>0, <1>1, <1>2, <1>4, <1>5
     DEF MutesFit, NoMutes, StaleMute, IsMute, Waits
<1>7. Patient'
  <2>1. PatientUnmute' /\ PatientMute'
    BY <1>1, <1>2 DEF PatientUnmute, PatientMute
  <2>2. ASSUME NEW d \in Waiting'
        PROVE  IsLeft(d)' /\ Unmuted(d)' /\ WillBeHeard(d)'
    <3>1. IsLeft(d) /\ Unmuted(d) /\ WillBeHeard(d)
      BY <2>2, WaitingKept
    <3>2. Unmuted(d)'
      BY <1>0, <1>1, <1>2, <3>1 DEF Unmuted
    <3>3. WillBeHeard(d)'
      BY <1>0, <1>1, <1>2, <3>1 DEF WillBeHeard, Patience, Waits
    <3> QED
      BY <1>4, <3>1, <3>2, <3>3
  <2> QED
    BY <2>1, <2>2 DEF Patient
<1> QED
  BY <1>6, <1>7

\* UNMUTE: each unmute that is lost uses up one of the losses.
LEMMA UnmuteStep ==
    ASSUME Known, Process, Sound', UnmuteSend \/ UnmuteTimeout \/ UnmuteDone
    PROVE  MutesFit' /\ Patient'
<1>0. /\ TypeOK /\ Control /\ disc \in Discovery /\ line \in Seq(Answer)
      /\ MutesFit /\ PatientUnmute /\ past'.steady = past.steady
      /\ past.losses \in Nat /\ past'.losses \in Nat
      /\ past'.losses <= past.losses
      /\ past.losses <= MaxLosses /\ past'.losses <= MaxLosses
      /\ MaxLosses \in Nat /\ past.steady \subseteq present
  BY KnownParts
<1>a. /\ disc.unmute \in Nat /\ UnmuteCounter \in Nat \ {0}
      /\ MuteCounter \in Nat /\ MaxLosses < MuteCounter
      /\ disc.mute \in Nat
  <2>1. disc.unmute \in Nat /\ disc.mute \in Nat
    BY <1>0, DiscTypes
  <2>2. /\ UnmuteCounter \in Nat \ {0} /\ MuteCounter \in Nat
        /\ MaxLosses < MuteCounter
    BY ConstantTypes
  <2> QED
    BY <2>1, <2>2
<1>1. Doing = "UNMUTE" /\ In("UNMUTE") /\ ~Active
  BY DEF UnmuteSend, UnmuteTimeout, UnmuteDone, Sends, Waits, In, Doing,
         Active, Busy
<1>2. CASE UnmuteSend
  <2>1. /\ Doing' = "UNMUTE" /\ In("UNMUTE")' /\ ~Active'
        /\ disc'.unmute = disc.unmute /\ disc'.running /\ ~disc.running
        /\ disc'.stack = disc.stack
    BY <1>0, <1>2
       DEF UnmuteSend, Sends, In, Doing, Active, Waits, Busy, Discovery
  <2>2. /\ muted' \subseteq muted /\ line' \in {line, <<>>}
        /\ \A d \in present : d \notin muted' \/ past'.losses < past.losses
    BY <1>0, <1>2, TypeParts, UnmuteSent DEF UnmuteSend
  <2>3. MutesFit'
    <3>1. NoMutes => NoMutes'
      BY <2>2 DEF NoMutes, IsMute
    <3> QED
      BY <1>0, <1>1, <2>1, <3>1 DEF MutesFit, Waits, In
  <2>4. PatientUnmute' /\ PatientMute'
    <3>1. ASSUME NEW d \in past.steady \cap muted'
          PROVE  disc'.unmute > past'.losses + 1
      <4>1. Patience(disc.unmute, TRUE)
        BY <1>0, <1>1, <2>2, <3>1 DEF PatientUnmute
      <4>2. past'.losses < past.losses
        BY <1>0, <2>2, <3>1
      <4> QED
        BY <1>0, <1>a, <2>1, <4>1, <4>2 DEF Patience
    <3> QED
      BY <1>0, <2>1, <3>1 DEF PatientUnmute, PatientMute, Patience
  <2>5. ASSUME NEW d \in Waiting'
        PROVE  IsLeft(d)' /\ Unmuted(d)' /\ WillBeHeard(d)'
    <3>1. IsLeft(d)
      BY <2>5, WaitingKept
    <3>2. IsLeft(d)'
      BY <1>1, <2>1, <3>1 DEF IsLeft
    <3> QED
      BY <2>1, <3>2 DEF Unmuted, WillBeHeard, Waits, In
  <2> QED
    BY <2>3, <2>4, <2>5 DEF Patient
<1>3. CASE UnmuteTimeout
  <2>1. /\ Doing' = "UNMUTE" /\ In("UNMUTE")' /\ ~Active'
        /\ disc'.unmute = disc.unmute - 1 /\ ~disc'.running /\ disc.running
        /\ disc'.stack = disc.stack /\ muted' = muted
        /\ past' = past /\ line' = <<>>
    BY <1>0, <1>3
       DEF UnmuteTimeout, In, Doing, Active, Waits, Busy, Discovery
  <2>2. MutesFit'
    BY <2>1 DEF MutesFit, NoMutes, Waits, In
  <2>3. PatientUnmute' /\ PatientMute'
    <3>1. ASSUME NEW d \in past.steady \cap muted'
          PROVE  disc'.unmute > past.losses
      <4>1. Patience(disc.unmute, TRUE)
        BY <1>0, <1>1, <2>1, <3>1 DEF PatientUnmute
      <4> QED
        BY <1>0, <1>a, <2>1, <4>1 DEF Patience
    <3> QED
      BY <1>0, <2>1, <3>1 DEF PatientUnmute, PatientMute, Patience
  <2>4. ASSUME NEW d \in Waiting'
        PROVE  IsLeft(d)' /\ Unmuted(d)' /\ WillBeHeard(d)'
    <3>1. IsLeft(d)
      BY <2>4, WaitingKept
    <3>2. IsLeft(d)'
      BY <1>1, <2>1, <3>1 DEF IsLeft
    <3> QED
      BY <2>1, <3>2 DEF Unmuted, WillBeHeard, Waits, In
  <2> QED
    BY <2>2, <2>3, <2>4 DEF Patient
<1>4. CASE UnmuteDone
  <2>1. /\ Doing' \in {"MUTE", "DISCOVERY"} /\ Doing' = disc'.state /\ ~Active'
        /\ ~disc'.running /\ disc'.mute = disc.mute /\ disc.unmute = 0
        /\ disc'.stack = disc.stack /\ muted' = muted
        /\ past' = past /\ line' = line
    BY <1>0, <1>4
       DEF UnmuteDone, Enter, In, Doing, Active, Waits, Busy, Discovery
  <2>2. MutesFit'
    <3>1. NoMutes
      BY <1>0, <1>a, <1>1, <2>1 DEF MutesFit
    <3>2. \A i \in DOMAIN line' : ~IsMute(i)'
      BY <2>1, <3>1 DEF NoMutes, IsMute
    <3> QED
      BY <2>1, <3>2 DEF MutesFit, Waits, In
  <2>3. PatientUnmute' /\ PatientMute'
    <3>1. disc'.mute = MuteCounter
      BY <1>0, <1>1, <2>1 DEF Control
    <3> QED
      BY <1>0, <1>a, <2>1, <3>1 DEF PatientUnmute, PatientMute, Patience
  <2>4. ASSUME NEW d \in Waiting'
        PROVE  IsLeft(d)' /\ Unmuted(d)' /\ WillBeHeard(d)'
    <3>1. IsLeft(d) /\ d \in past.steady
      BY <2>4, WaitingKept
    <3>2. IsLeft(d)'
      BY <1>1, <2>1, <3>1 DEF IsLeft
    <3>3. d \notin muted
      <4>1. d \in muted => Patience(disc.unmute, TRUE)
        BY <1>0, <1>1, <3>1 DEF PatientUnmute
      <4> QED
        BY <1>0, <2>1, <4>1 DEF Patience
    <3> QED
      BY <2>1, <3>2, <3>3 DEF Unmuted, WillBeHeard, Waits, In
  <2> QED
    BY <2>2, <2>3, <2>4 DEF Patient
<1> QED
  BY <1>2, <1>3, <1>4

\* MUTE: an entry whose device is there is kept, since not all mutes are lost.
LEMMA MuteStep ==
    ASSUME Known, Process, Sound', Mutes \/ MuteDone
    PROVE  MutesFit' /\ Patient'
<1>0. /\ TypeOK /\ Control /\ disc \in Discovery /\ line \in Seq(Answer)
      /\ MutesFit /\ PatientMute /\ past'.steady = past.steady
      /\ present' = present
      /\ past.losses \in Nat /\ past'.losses \in Nat
      /\ past'.losses <= past.losses
      /\ past.losses <= MaxLosses /\ past'.losses <= MaxLosses
      /\ MaxLosses \in Nat /\ past.steady \subseteq present
  BY KnownParts
<1>a. /\ MuteCounter \in Nat /\ MaxLosses < MuteCounter /\ disc.mute \in Nat
      /\ All \notin UIDs
  BY <1>0, DiscTypes, ConstantTypes
<1>1. Doing = "MUTE" /\ In("MUTE") /\ ~Active
  BY DEF Mutes, MuteGone, MuteSend, MuteAnswered, MuteTimeout, MuteDone,
         Sends, Waits, In, Doing, Active, Busy
<1>2. ASSUME NEW d \in Waiting'
      PROVE  /\ IsLeft(d) /\ d \notin muted /\ d \in present /\ d \in UIDs
             /\ d \notin Table
  BY <1>1, <1>2, WaitingKept, KnownParts DEF Unmuted
<1>3. CASE MuteDone
  <2>1. /\ Doing' = "DISCOVERY" /\ In("DISCOVERY")' /\ ~Active'
        /\ ~disc'.running /\ disc'.stack = disc.stack /\ muted' = muted
        /\ line' = line
    BY <1>0, <1>3 DEF MuteDone, Enter, In, Doing, Active, Waits, Busy, Discovery
  <2>2. line = <<>>
    BY <1>1, <1>3, MuteFacts DEF MuteDone
  <2>3. MutesFit'
    BY <2>1, <2>2 DEF MutesFit, NoMutes, Waits, In
  <2>4. PatientUnmute' /\ PatientMute'
    BY <2>1 DEF PatientUnmute, PatientMute
  <2>5. ASSUME NEW d \in Waiting'
        PROVE  IsLeft(d)' /\ Unmuted(d)' /\ WillBeHeard(d)'
    <3>1. IsLeft(d) /\ d \notin muted
      BY <1>2, <2>5
    <3>2. IsLeft(d)'
      BY <1>1, <2>1, <3>1 DEF IsLeft
    <3> QED
      BY <2>1, <3>1, <3>2 DEF Unmuted, WillBeHeard, Waits, In
  <2> QED
    BY <2>3, <2>4, <2>5 DEF Patient
<1>4. ASSUME Mutes
      PROVE  /\ Doing' = "MUTE" /\ In("MUTE")' /\ ~Active'
             /\ disc'.stack = disc.stack
  BY <1>0, <1>4 DEF Mutes, MuteGone, MuteSend, MuteAnswered, MuteTimeout,
                    Sends, Waits, In, Doing, Active, Busy, Discovery
<1>5. ASSUME Mutes
      PROVE  MutesFit' /\ PatientUnmute'
  BY <1>4, <1>5 DEF MutesFit, PatientUnmute, Waits, In
<1>6. ASSUME Mutes, NEW d \in Waiting', d \notin muted'
      PROVE  IsLeft(d)' /\ Unmuted(d)' /\ WillBeHeard(d)'
  <2>1. IsLeft(d)'
    BY <1>1, <1>2, <1>4, <1>6 DEF IsLeft
  <2> QED
    BY <1>4, <1>6, <2>1 DEF Unmuted, WillBeHeard, Waits, In
<1>7. CASE MuteGone
  <2>1. muted' = muted /\ disc'.mute = MuteCounter /\ ~disc'.running
    BY <1>0, <1>7 DEF MuteGone, Discovery
  <2>2. PatientMute'
    BY <1>0, <1>a, <2>1 DEF PatientMute, Patience
  <2> QED
    BY <1>2, <1>5, <1>6, <1>7, <2>1, <2>2 DEF Patient, Mutes
<1>8. CASE MuteAnswered
  <2>1. /\ muted' = muted /\ past' = past /\ disc'.mute = disc.mute
        /\ ~disc'.running /\ line # <<>>
    BY <1>0, <1>8 DEF MuteAnswered, Receives, Discovery
  <2>2. disc.target \in present
    BY <1>1, <2>1, MuteFacts
  <2>3. Patience(disc.mute, line = <<>>)
    BY <1>0, <1>1, <2>2 DEF PatientMute
  <2>4. PatientMute'
    BY <1>0, <1>a, <2>1, <2>3 DEF PatientMute, Patience
  <2> QED
    BY <1>2, <1>5, <1>6, <1>8, <2>1, <2>4 DEF Patient, Mutes
<1>9. CASE MuteSend \/ MuteTimeout
  <2>1. line = <<>>
    BY <1>1, <1>9, MuteFacts DEF MuteSend, MuteTimeout, TimedOut, Sends
  <2>2. /\ disc'.running /\ Waits("MUTE")' /\ SendMute(disc'.target)
        /\ MuteSend => /\ ~disc.running /\ disc'.mute = disc.mute
                       /\ disc'.target = Entry(disc.entries)
                       /\ disc.entries > 0
        /\ MuteTimeout => /\ disc.running /\ disc'.mute = disc.mute - 1
                          /\ disc'.target = disc.target
    BY <1>0, <1>1, <1>9
       DEF MuteSend, MuteTimeout, Sends, Waits, In, Discovery
  <2> DEFINE uid == disc'.target
  <2>3. uid \in Table
    <3>1. CASE MuteSend
      BY <1>1, <2>2, <3>1, MuteFacts DEF Entry
    <3>2. CASE MuteTimeout
      BY <1>1, <2>2, <3>2, MuteFacts
    <3> QED
      BY <1>9, <3>1, <3>2
  <2>4. uid \in UIDs
    BY <2>3, TypeParts DEF Table, Known
  <2> HIDE DEF uid
  <2>5. SendMute(uid) /\ uid # All
    BY <1>a, <2>2, <2>4 DEF uid
  <2>6. muted' \subseteq muted \cup {uid}
    BY <1>0, <2>5, TypeParts, MuteSent
  <2>7. uid \in present => past'.losses < past.losses \/ line' # <<>>
    <3>1. PICK n \in Nat :
             uid \in present => past'.losses < past.losses
                                \/ n \in DOMAIN line'
      BY <1>0, <2>5, MuteLine
    <3> QED
      BY <3>1
  <2>8. PatientMute'
    <3>1. SUFFICES ASSUME uid \in present
                   PROVE  Patience(disc.mute, line = <<>>)'
      BY <1>0, <2>2 DEF PatientMute, uid
    <3>2. disc'.mute > past.losses
      <4>1. CASE MuteSend
        <5>1. Patience(disc.mute, line = <<>>)
          BY <1>0, <1>1, <2>2, <4>1 DEF PatientMute, Waits
        <5> QED
          BY <1>0, <1>a, <2>2, <4>1, <5>1 DEF Patience
      <4>2. CASE MuteTimeout
        <5>1. Patience(disc.mute, line = <<>>)
          BY <1>0, <1>1, <2>2, <3>1, <4>2 DEF PatientMute, uid
        <5> QED
          BY <1>0, <1>a, <2>1, <2>2, <4>2, <5>1 DEF Patience
      <4> QED
        BY <1>9, <4>1, <4>2
    <3>3. disc'.mute \in Nat
      BY <1>a, <2>2, <1>9 DEF MuteTimeout
    <3> QED
      BY <1>0, <2>7, <3>1, <3>2, <3>3 DEF Patience
  <2>9. ASSUME NEW d \in Waiting'
        PROVE  d \notin muted'
    BY <1>2, <2>3, <2>6, <2>9
  <2> QED
    BY <1>5, <1>6, <1>9, <2>8, <2>9 DEF Patient, Mutes
<1> QED
  BY <1>3, <1>7, <1>8, <1>9 DEF Mutes

\* Devices in a branch that is left or becomes the branch that is searched
LEMMA DiscoveryStep ==
    ASSUME Known, Process, Sound',
           \/ DiscoverySend \/ DiscoverySingle \/ DiscoveryEmpty
           \/ DiscoveryAnswered \/ DiscoveryGivesUp \/ DiscoveryTimeout
    PROVE  MutesFit' /\ Patient'
<1>0. /\ TypeOK /\ Control /\ disc \in Discovery /\ line \in Seq(Answer)
      /\ MutesFit /\ past'.steady = past.steady
      /\ past.losses \in Nat /\ past'.losses \in Nat
      /\ past'.losses <= past.losses
      /\ past.losses <= MaxLosses /\ past'.losses <= MaxLosses
      /\ MaxLosses \in Nat /\ past.steady \subseteq present
  BY KnownParts
<1>a. /\ DiscoveryCounter \in Nat \ {0} /\ MaxLosses < DiscoveryCounter
      /\ disc.discovery \in Nat /\ disc.single \in Nat
      /\ MuteCounter \in Nat /\ QuickFindDiscoveryCounter \in Nat
  BY <1>0, DiscTypes, ConstantTypes
<1>1. Doing = "DISCOVERY" /\ In("DISCOVERY")
  BY DEF DiscoverySend, DiscoverySingle, DiscoveryEmpty, DiscoveryAnswered,
         DiscoveryGivesUp, DiscoveryTimeout, Sends, Waits, In, Doing
<1>2. ASSUME NEW d \in Waiting'
      PROVE  /\ IsLeft(d) /\ d \notin muted /\ d \in present
             /\ Waits("DISCOVERY") /\ InBranch(d, disc.branch)
                   => Patience(disc.discovery, Silent)
  BY <1>0, <1>1, <1>2, WaitingKept DEF Unmuted, WillBeHeard
<1>3. ASSUME Doing' \notin {"UNMUTE", "MUTE"}
      PROVE  PatientUnmute' /\ PatientMute'
  BY <1>3 DEF PatientUnmute, PatientMute
<1>4. ASSUME NEW d, IsLeft(d), disc.stack # <<>>,
             disc'.stack = Popped.stack, disc'.branch = Top, Active'
      PROVE  IsLeft(d)' \/ (Active /\ InBranch(d, disc.branch))
  <2>1. /\ Len(Popped.stack) = Len(disc.stack) - 1
        /\ Len(disc.stack) \in Nat \ {0} /\ Top = disc.stack[Len(disc.stack)]
        /\ \A i \in 1 .. Len(disc.stack) - 1 : Popped.stack[i] = disc.stack[i]
    BY <1>0, <1>4, PoppedType
  <2>2. CASE \E i \in 1 .. Len(disc.stack) : InBranch(d, disc.stack[i])
    <3>1. PICK i \in 1 .. Len(disc.stack) : InBranch(d, disc.stack[i])
      BY <2>2
    <3>2. CASE i = Len(disc.stack)
      BY <1>4, <2>1, <3>1, <3>2 DEF IsLeft
    <3>3. CASE i # Len(disc.stack)
      <4>1. i \in 1 .. Len(disc.stack) - 1
        BY <2>1, <3>3
      <4>2. i \in 1 .. Len(disc'.stack) /\ disc'.stack[i] = disc.stack[i]
        BY <1>4, <2>1, <4>1
      <4> QED
        BY <3>1, <4>2 DEF IsLeft
    <3> QED
      BY <3>2, <3>3
  <2> QED
    BY <1>4, <2>2 DEF IsLeft
<1>5. ASSUME NEW d, disc.stack # <<>>, disc'.stack = Popped.stack,
             disc'.branch = Top, ~IsLeft(d)
      PROVE  ~IsLeft(d)'
  <2>1. /\ Len(Popped.stack) = Len(disc.stack) - 1
        /\ Len(disc.stack) \in Nat \ {0} /\ Top = disc.stack[Len(disc.stack)]
        /\ \A i \in 1 .. Len(disc.stack) - 1 : Popped.stack[i] = disc.stack[i]
    BY <1>0, <1>5, PoppedType
  <2>2. \A i \in 1 .. Len(disc.stack) : ~InBranch(d, disc.stack[i])
    BY <1>5 DEF IsLeft
  <2>3. ~InBranch(d, disc'.branch)
    BY <1>5, <2>1, <2>2
  <2>4. \A i \in 1 .. Len(disc'.stack) : ~InBranch(d, disc'.stack[i])
    <3>1. ASSUME NEW i \in 1 .. Len(disc'.stack)
          PROVE  i \in 1 .. Len(disc.stack) /\ disc'.stack[i] = disc.stack[i]
      BY <1>5, <2>1, <3>1
    <3> QED
      BY <2>2, <3>1
  <2> QED
    BY <2>3, <2>4 DEF IsLeft
<1>6. CASE DiscoverySend
  <2>1. /\ disc.stack # <<>> /\ ~disc.running /\ SendBranch(Top)
        /\ Popped \in Discovery /\ Popped.state = disc.state
        /\ Popped.branch = Top
    BY <1>0, <1>6, PoppedType DEF DiscoverySend, Sends, Popped, Discovery
  <2> DEFINE p == Popped
  <2> HIDE DEF p
  <2>2. disc' = [p EXCEPT !.discovery = DiscoveryCounter, !.running = TRUE]
    BY <1>6 DEF DiscoverySend, p
  <2>3. /\ disc'.stack = p.stack /\ disc'.branch = p.branch /\ disc'.running
        /\ disc'.state = p.state /\ disc'.discovery = DiscoveryCounter
    BY <2>1, <2>2 DEF p, Discovery
  <2>4. /\ Doing' = "DISCOVERY" /\ Waits("DISCOVERY")' /\ Active' /\ ~Active
    BY <1>1, <2>1, <2>3 DEF Active, Waits, In, Doing, Busy, p
  <2>5. /\ muted' = muted
        /\ \A i \in DOMAIN line' : IsMute(i)' =>
              i \in DOMAIN line /\ line'[i] = line[i]
        /\ \A d \in present \ muted :
              InBranch(d, Top) /\ Silent' => past'.losses < past.losses
    BY <1>0, <2>1, BranchLine
  <2>6. MutesFit'
    <3>1. \A i \in DOMAIN line : IsMute(i) => i = 1
      BY <1>0, <1>1, <2>1 DEF MutesFit, StaleMute
    <3>2. \A i \in DOMAIN line' : IsMute(i)' =>
             i = 1 /\ disc'.discovery = DiscoveryCounter
      BY <2>3, <2>5, <3>1 DEF IsMute
    <3> QED
      BY <2>3, <2>4, <3>2 DEF MutesFit, Waits, In
  <2>7. ASSUME NEW d \in Waiting'
        PROVE  IsLeft(d)' /\ Unmuted(d)' /\ WillBeHeard(d)'
    <3>1. IsLeft(d) /\ d \notin muted /\ d \in present
      BY <1>2, <2>7
    <3>2. IsLeft(d)'
      BY <1>4, <2>1, <2>3, <2>4, <3>1 DEF p
    <3>3. InBranch(d, disc'.branch) => Patience(disc.discovery, Silent)'
      <4>1. InBranch(d, disc'.branch) /\ Silent' => past'.losses < past.losses
        BY <2>1, <2>3, <2>5, <3>1 DEF p
      <4> QED
        BY <1>0, <1>a, <2>3, <4>1 DEF Patience
    <3> QED
      BY <2>4, <2>5, <3>1, <3>2, <3>3 DEF Unmuted, WillBeHeard, Waits, In
  <2> QED
    BY <1>3, <2>4, <2>6, <2>7 DEF Patient
<1>7. CASE DiscoverySingle
  <2>1. /\ disc.stack # <<>> /\ ~disc.running /\ Popped \in Discovery
        /\ Popped.branch = Top /\ Popped.single = disc.single
        /\ Popped.running = disc.running
    BY <1>0, <1>7, PoppedType DEF DiscoverySingle, Sends, Popped, Discovery
  <2> DEFINE p == Popped
  <2> HIDE DEF p
  <2>2. disc' = [p EXCEPT !.state = "LATE_RESPONSE",
                          !.saved = "DISCOVERY_SINGLE_DEVICE"]
    BY <1>7 DEF DiscoverySingle, p
  <2>3. /\ disc'.stack = p.stack /\ disc'.branch = p.branch /\ ~disc'.running
        /\ disc'.state = "LATE_RESPONSE" /\ disc'.single = disc.single
        /\ disc'.saved = "DISCOVERY_SINGLE_DEVICE"
        /\ muted' = muted /\ line' = line /\ past' = past
    BY <1>7, <2>1, <2>2 DEF p, Discovery, DiscoverySingle
  <2>4. /\ Doing' = "DISCOVERY_SINGLE_DEVICE" /\ Active' /\ ~Active
    BY <1>1, <2>1, <2>3 DEF Active, Waits, In, Doing, Busy
  <2>5. MutesFit'
    <3>1. \A i \in DOMAIN line : IsMute(i) => i = 1 /\ ~IsLeft(line[i].uid)
      BY <1>0, <1>1, <2>1 DEF MutesFit, StaleMute
    <3>2. \A i \in DOMAIN line' : IsMute(i)' => StaleMute(i)'
      <4> SUFFICES ASSUME NEW i \in DOMAIN line, IsMute(i)
                   PROVE  i = 1 /\ ~IsLeft(line[i].uid)'
        BY <2>3 DEF IsMute, StaleMute
      <4>1. i = 1 /\ ~IsLeft(line[i].uid)
        BY <3>1
      <4>2. \A u : ~IsLeft(u) => ~IsLeft(u)'
        BY <1>5, <2>1, <2>3 DEF p
      <4> QED
        BY <2>3, <4>1, <4>2 DEF IsLeft
    <3> QED
      BY <2>3, <2>4, <3>2 DEF MutesFit, Waits, In
  <2>6. ASSUME NEW d \in Waiting'
        PROVE  IsLeft(d)' /\ Unmuted(d)' /\ WillBeHeard(d)'
    <3>1. IsLeft(d) /\ d \notin muted
      BY <1>2, <2>6
    <3>2. IsLeft(d)'
      BY <1>4, <2>1, <2>3, <2>4, <3>1 DEF p
    <3>3. disc'.single > past'.losses
      <4>1. disc.single > MaxLosses
        BY <1>0, <1>1 DEF Control
      <4> QED
        BY <1>0, <1>a, <2>3, <4>1
    <3> QED
      BY <1>0, <2>3, <2>4, <3>1, <3>2, <3>3
         DEF Unmuted, WillBeHeard, Waits, In, Patience
  <2> QED
    BY <1>3, <2>4, <2>5, <2>6 DEF Patient
<1>8. CASE DiscoveryEmpty
  <2>1. /\ Doing' = "FINISHED" /\ disc'.state = "LATE_RESPONSE"
        /\ ~Active /\ disc.stack = <<>>
    BY <1>0, <1>1, <1>8 DEF DiscoveryEmpty, EnterLate, Enter, Doing, In,
                            Active, Busy, Sends, Waits, Discovery
  <2>2. \A d : ~IsLeft(d)
    BY <2>1 DEF IsLeft
  <2> QED
    BY <1>2, <1>3, <2>1, <2>2 DEF MutesFit, Patient, Waits, In
<1>9. CASE DiscoveryAnswered
  <2>1. PICK r \in Answer : /\ Receives(r)
                            /\ disc' = [Enter("DUB") EXCEPT !.response = r]
    BY <1>9 DEF DiscoveryAnswered
  <2>2. /\ Doing' = "DUB" /\ disc'.state = "DUB" /\ disc'.response = r
        /\ disc'.stack = disc.stack /\ disc'.branch = disc.branch
        /\ Active' /\ Active /\ muted' = muted /\ disc.running
    BY <1>0, <1>1, <1>9, <2>1
       DEF DiscoveryAnswered, Enter, Doing, In, Active, Busy, Waits, Discovery
  <2>3. MutesFit'
    <3>1. \A i \in DOMAIN line : IsMute(i) => i = 1
      BY <1>0, <1>1, <2>2 DEF MutesFit, Waits
    <3>2. \A i \in DOMAIN line' : i \in Nat \ {0} /\ i + 1 \in DOMAIN line
                                  /\ line'[i] = line[i + 1]
      BY <1>0, <2>1, Received
    <3>3. \A i \in DOMAIN line' : ~IsMute(i)'
      BY <3>1, <3>2 DEF IsMute
    <3> QED
      BY <2>2, <3>3 DEF MutesFit, Waits, In, NoMutes
  <2>4. ASSUME NEW d \in Waiting'
        PROVE  IsLeft(d)' /\ Unmuted(d)' /\ WillBeHeard(d)'
    <3>1. IsLeft(d)'
      BY <1>2, <2>2, <2>4 DEF IsLeft
    <3>2. r # Nothing
      BY DataTypes
    <3> QED
      BY <1>2, <2>2, <2>4, <3>1, <3>2 DEF Unmuted, WillBeHeard, Waits, In
  <2> QED
    BY <1>3, <2>2, <2>3, <2>4 DEF Patient
<1>10. CASE DiscoveryGivesUp
  <2>1. /\ Doing' = "DUB" /\ disc'.state = "DUB" /\ disc.discovery = 0
        /\ disc'.stack = disc.stack /\ disc'.branch = disc.branch
        /\ Active' /\ Active /\ muted' = muted /\ disc.running /\ line' = line
    BY <1>0, <1>1, <1>10
       DEF DiscoveryGivesUp, Enter, Doing, In, Active, Busy, Waits, Discovery
  <2>2. MutesFit'
    <3>1. \A i \in DOMAIN line : ~IsMute(i)
      BY <1>0, <1>a, <1>1, <2>1 DEF MutesFit, Waits
    <3>2. \A i \in DOMAIN line' : ~IsMute(i)'
      BY <2>1, <3>1 DEF IsMute
    <3> QED
      BY <2>1, <3>2 DEF MutesFit, Waits, In, NoMutes
  <2>3. ASSUME NEW d \in Waiting'
        PROVE  IsLeft(d)' /\ Unmuted(d)' /\ WillBeHeard(d)'
    <3>1. IsLeft(d)'
      BY <1>2, <2>1, <2>3 DEF IsLeft
    <3>2. ~InBranch(d, disc.branch)
      <4>1. InBranch(d, disc.branch) => Patience(disc.discovery, Silent)
        BY <1>1, <1>2, <2>1, <2>3 DEF Waits
      <4> QED
        BY <1>0, <2>1, <4>1 DEF Patience
    <3> QED
      BY <1>2, <2>1, <2>3, <3>1, <3>2 DEF Unmuted, WillBeHeard, Waits, In
  <2> QED
    BY <1>3, <2>1, <2>2, <2>3 DEF Patient
<1>11. CASE DiscoveryTimeout
  <2>1. /\ Doing' = "DISCOVERY" /\ Waits("DISCOVERY")' /\ disc.discovery > 0
        /\ disc'.stack = disc.stack /\ disc'.branch = disc.branch
        /\ disc'.discovery = disc.discovery - 1 /\ SendBranch(disc.branch)
        /\ Active' /\ Active /\ disc.running /\ line = <<>> /\ disc'.running
    BY <1>0, <1>1, <1>11
       DEF DiscoveryTimeout, TimedOut, Doing, In, Active, Busy, Waits, Discovery
  <2>2. /\ muted' = muted
        /\ \A i \in DOMAIN line' : IsMute(i)' => i \in DOMAIN line
        /\ \A d \in present \ muted :
              InBranch(d, disc.branch) /\ Silent' => past'.losses < past.losses
    BY <1>0, <2>1, BranchLine
  <2>3. MutesFit'
    <3>1. \A i \in DOMAIN line' : ~IsMute(i)'
      BY <2>1, <2>2
    <3> QED
      BY <2>1, <3>1 DEF MutesFit, Waits, In
  <2>4. ASSUME NEW d \in Waiting'
        PROVE  IsLeft(d)' /\ Unmuted(d)' /\ WillBeHeard(d)'
    <3>1. IsLeft(d)' /\ d \notin muted /\ d \in present
      BY <1>2, <2>1, <2>4 DEF IsLeft
    <3>2. InBranch(d, disc'.branch) => Patience(disc.discovery, Silent)'
      <4>1. InBranch(d, disc.branch) => Patience(disc.discovery, Silent)
        BY <1>1, <1>2, <2>1, <2>4 DEF Waits
      <4>2. Silent
        BY <2>1 DEF Silent
      <4>3. InBranch(d, disc.branch) => disc'.discovery > past.losses
        BY <1>0, <1>a, <2>1, <4>1, <4>2 DEF Patience
      <4>4. InBranch(d, disc.branch) /\ Silent' => past'.losses < past.losses
        BY <2>2, <3>1
      <4>5. disc'.discovery \in Int
        BY <1>a, <2>1
      <4> QED
        BY <1>0, <2>1, <4>3, <4>4, <4>5 DEF Patience
    <3> QED
      BY <2>1, <2>2, <3>1, <3>2 DEF Unmuted, WillBeHeard, Waits, In
  <2> QED
    BY <1>3, <2>1, <2>3, <2>4 DEF Patient
<1> QED
  BY <1>6, <1>7, <1>8, <1>9, <1>10, <1>11

\* There is room for a device that is not in the table.
LEMMA AddedThere ==
    ASSUME TypeOK, TableOK, NEW d \in Devices, AddUid(d)
    PROVE  d \in Table'
<1>0. /\ tod \in Seq(UIDs) /\ Len(tod) <= TableSize /\ d \in UIDs
  BY TypeParts
<1>1. CASE d \in Table
  <2>1. Table \subseteq Table'
    BY <1>0, Added
  <2> QED
    BY <1>1, <2>1
<1>2. CASE d \notin Table
  <2>1. tod \in Seq(Devices)
    <3>1. Len(tod) \in Nat /\ DOMAIN tod = 1 .. Len(tod)
      BY <1>0
    <3>2. \A i \in 1 .. Len(tod) : tod[i] \in Devices
      BY <3>1 DEF TableOK, Table
    <3>3. tod = [i \in 1 .. Len(tod) |-> tod[i]]
      BY <1>0
    <3>4. [i \in 1 .. Len(tod) |-> tod[i]] \in Seq(Devices)
      BY <3>1, <3>2
    <3> QED
      BY <3>3, <3>4
  <2>2. \A i \in DOMAIN tod : tod[i] # d
    BY <1>2 DEF Table
  <2>3. \A i, j \in DOMAIN tod : tod[i] = tod[j] => i = j
    BY DEF TableOK, Distinct
  <2>4. Len(tod) < TableSize
    BY <2>1, <2>2, <2>3, Room
  <2> QED
    BY <1>0, <2>4, Added
<1> QED
  BY <1>1, <1>2

\* DISCOVERY_SINGLE_DEVICE: the device is put into the table, or asked again.
LEMMA SingleStep ==
    ASSUME Known, Process, Sound',
           \/ SingleGone \/ SingleSend \/ SingleAnswered \/ SingleIgnored
           \/ SingleTimeout
    PROVE  MutesFit' /\ Patient'
<1>0. /\ TypeOK /\ TableOK /\ Control /\ disc \in Discovery
      /\ line \in Seq(Answer) /\ MutesFit /\ past'.steady = past.steady
      /\ past.losses \in Nat /\ past'.losses \in Nat
      /\ past'.losses <= past.losses
      /\ past.losses <= MaxLosses /\ past'.losses <= MaxLosses
      /\ MaxLosses \in Nat /\ past.steady \subseteq present
      /\ \A d \in past.steady : d \in UIDs /\ d \in Devices
  BY KnownParts DEF Known
<1>1. /\ Doing = "DISCOVERY_SINGLE_DEVICE" /\ In("DISCOVERY_SINGLE_DEVICE")
      /\ Active
  BY DEF SingleGone, SingleSend, SingleAnswered, SingleIgnored,
         SingleTimeout, Sends, Waits, In, Doing, Active, Busy
<1>b. /\ disc.single \in Nat
      /\ disc.branch.lower \in UIDs /\ disc.branch.upper \in UIDs
      /\ disc.branch.lower = disc.branch.upper
      /\ disc.running => disc.target = disc.branch.lower
      /\ Len(disc.stack) \in Nat
      /\ \A i \in 1 .. Len(disc.stack) :
            /\ disc.stack[i].upper \in Nat
            /\ disc.stack[i].upper < disc.branch.lower
      /\ \A n \in UIDs : n \in Nat
  <2>1. /\ disc.single \in Nat /\ disc.branch \in Branch
        /\ disc.stack \in Seq(Branch)
    BY <1>0, DiscTypes, ConstantTypes
  <2>2. \A i \in 1 .. Len(disc.stack) : disc.stack[i] \in Branch
    BY <2>1
  <2>3. \A n \in UIDs : n \in Nat
    BY ConstantTypes
  <2>4. /\ disc.branch.lower \in UIDs /\ disc.branch.upper \in UIDs
        /\ \A i \in 1 .. Len(disc.stack) : disc.stack[i].upper \in Nat
    BY <2>1, <2>2, <2>3 DEF Branch
  <2>5. /\ disc.branch.lower = disc.branch.upper
        /\ \A i \in 1 .. Len(disc.stack) :
              disc.stack[i].upper < disc.branch.lower
    BY <1>1 DEF Known, Branches, BranchFits
  <2>6. disc.running => disc.target = disc.branch.lower
    BY <1>0, <1>1 DEF Control, Waits
  <2> QED
    BY <2>1, <2>3, <2>4, <2>5, <2>6
<1>c. /\ \A d \in UIDs : InBranch(d, disc.branch) <=> d = disc.branch.lower
      /\ \A i \in 1 .. Len(disc.stack) :
            ~InBranch(disc.branch.lower, disc.stack[i])
      /\ IsLeft(disc.branch.lower)
  <2>1. \A d \in UIDs : InBranch(d, disc.branch) <=> d = disc.branch.lower
    BY <1>b DEF InBranch
  <2>2. \A i \in 1 .. Len(disc.stack) :
           ~InBranch(disc.branch.lower, disc.stack[i])
    BY <1>b DEF InBranch
  <2> QED
    BY <1>1, <1>b, <2>1, <2>2 DEF IsLeft
<1>2. ASSUME NEW d \in Waiting'
      PROVE  /\ IsLeft(d) /\ d \in present /\ d \in UIDs /\ d \in Devices
             /\ d \notin muted \/ (disc.running /\ d = disc.target)
             /\ d = disc.branch.lower => Patience(disc.single, Unheard)
             /\ d # disc.branch.lower =>
                   /\ d \notin muted
                   /\ \E i \in 1 .. Len(disc.stack) : InBranch(d, disc.stack[i])
  <2>1. IsLeft(d) /\ Unmuted(d) /\ WillBeHeard(d) /\ d \in past.steady
    BY <1>2, WaitingKept
  <2> QED
    BY <1>0, <1>1, <1>b, <1>c, <2>1 DEF Unmuted, WillBeHeard, IsLeft
<1>3. ASSUME Doing' \notin {"UNMUTE", "MUTE"}
      PROVE  PatientUnmute' /\ PatientMute'
  BY <1>3 DEF PatientUnmute, PatientMute
<1>4. ASSUME NEW i \in DOMAIN line, IsMute(i)
      PROVE  line[i] = MuteOf(line[i].uid)
  <2>1. line[i] \in Answer
    BY <1>0
  <2> QED
    BY <1>4, <2>1, DataTypes DEF IsMute
<1>5. CASE SingleGone
  <2>1. /\ Doing' = "DISCOVERY" /\ disc'.state = "LATE_RESPONSE" /\ ~Active'
        /\ ~disc'.running /\ disc.single = 0
        /\ disc'.stack = disc.stack /\ muted' = muted /\ line' = line
    BY <1>0, <1>5 DEF SingleGone, EnterLate, Enter, Doing, In, Waits, Active,
                      Busy, Discovery
  <2>2. \A i \in DOMAIN line : IsMute(i) =>
           /\ i = 1
           /\ \A j \in 1 .. Len(disc.stack) :
                 ~InBranch(line[i].uid, disc.stack[j])
    <3>1. ASSUME NEW i \in DOMAIN line, IsMute(i)
          PROVE  i = 1 /\ (line[i].uid = disc.branch.lower
                           \/ ~IsLeft(line[i].uid))
      BY <1>0, <1>1, <1>b, <2>1, <3>1 DEF MutesFit, StaleMute, Waits
    <3> QED
      BY <1>c, <3>1 DEF IsLeft
  <2>3. MutesFit'
    <3>1. \A i \in DOMAIN line' : IsMute(i)' => StaleMute(i)'
      BY <2>1, <2>2 DEF IsMute, StaleMute, IsLeft
    <3> QED
      BY <2>1, <3>1 DEF MutesFit, Waits, In
  <2>4. ASSUME NEW d \in Waiting'
        PROVE  IsLeft(d)' /\ Unmuted(d)' /\ WillBeHeard(d)'
    <3>1. ~Patience(disc.single, Unheard)
      BY <1>0, <2>1 DEF Patience
    <3>2. d # disc.branch.lower
      BY <1>2, <2>4, <3>1
    <3>3. d \notin muted
          /\ \E i \in 1 .. Len(disc.stack) : InBranch(d, disc.stack[i])
      BY <1>2, <2>4, <3>2
    <3> QED
      BY <2>1, <3>3 DEF IsLeft, Unmuted, WillBeHeard, Waits, In
  <2> QED
    BY <1>3, <2>1, <2>3, <2>4 DEF Patient
<1>6. CASE SingleSend \/ SingleTimeout
  <2>1. /\ Doing' = "DISCOVERY_SINGLE_DEVICE" /\ disc'.running
        /\ disc'.state = "DISCOVERY_SINGLE_DEVICE" /\ Active'
        /\ disc'.stack = disc.stack /\ disc'.branch = disc.branch
        /\ disc'.target = disc.branch.lower /\ SendMute(disc.branch.lower)
        /\ disc.single > 0
        /\ SingleSend => disc'.single = disc.single /\ ~disc.running
        /\ SingleTimeout => /\ disc'.single = disc.single - 1
                            /\ disc.running /\ line = <<>>
    BY <1>0, <1>b, <1>6, ZenonT(60)
       DEF SingleSend, SingleTimeout, TimedOut, Doing, In, Waits, Sends,
           Active, Busy, Discovery
  <2> DEFINE uid == disc.branch.lower
  <2>2. /\ uid \in UIDs /\ SendMute(uid) /\ uid # All /\ IsLeft(uid)
    BY <1>b, <1>c, <2>1, ConstantTypes
  <2> HIDE DEF uid
  <2>3. muted' \subseteq muted \cup {uid}
    BY <1>0, <2>2, TypeParts, MuteSent
  <2>4. PICK n \in Nat :
           /\ \A i \in DOMAIN line' :
                 \/ i \in DOMAIN line /\ line'[i] = line[i] /\ i < n
                 \/ i = n /\ uid \in present /\ line'[i] = MuteOf(uid)
           /\ line = <<>> => n = 1
           /\ uid \in present =>
                 \/ past'.losses < past.losses
                 \/ n \in DOMAIN line' /\ line'[n] = MuteOf(uid)
    BY <1>0, <2>2, MuteLine
  <2>5. \A d : IsLeft(d)' <=> IsLeft(d)
    BY <1>1, <2>1 DEF IsLeft
  <2>6. MuteOf(uid).uid = uid /\ MuteOf(uid).kind = "mute"
    BY DEF MuteOf
  <2>7. MutesFit'
    <3>1. \A i \in DOMAIN line : IsMute(i) => i = 1 /\ ~IsLeft(line[i].uid)
      <4>1. CASE SingleSend
        BY <1>0, <1>1, <2>1, <4>1 DEF MutesFit, StaleMute
      <4>2. CASE SingleTimeout
        BY <2>1, <4>2
      <4> QED
        BY <1>6, <4>1, <4>2
    <3>2. \A i \in DOMAIN line' : IsMute(i)' =>
             line'[i].uid = uid \/ StaleMute(i)'
      <4>1. ASSUME NEW i \in DOMAIN line', IsMute(i)', i # n
            PROVE  i = 1 /\ ~IsLeft(line[i].uid) /\ line'[i] = line[i]
        BY <2>4, <3>1, <4>1 DEF IsMute
      <4>2. ASSUME NEW i \in DOMAIN line', IsMute(i)', i # n
            PROVE  StaleMute(i)'
        <5>1. i = 1 /\ ~IsLeft(line[i].uid) /\ line'[i] = line[i]
          BY <4>1, <4>2
        <5> QED
          BY <1>1, <2>1, <5>1 DEF StaleMute, IsLeft
      <4>3. ASSUME NEW i \in DOMAIN line', IsMute(i)', i = n
            PROVE  line'[i].uid = uid
        BY <2>4, <2>6, <4>3
      <4> QED
        BY <4>2, <4>3
    <3>3. disc'.single = 0 => \A i \in DOMAIN line' : i = 1
      <4>1. disc'.single = 0 => SingleTimeout
        BY <1>6, <2>1
      <4> QED
        BY <2>1, <2>4, <4>1
    <3>4. ASSUME NEW i \in DOMAIN line', line'[i] = MuteOf(uid)
          PROVE  i = n
      <4>1. i \in DOMAIN line /\ line'[i] = line[i] => ~IsLeft(uid)
        BY <2>6, <3>1, <3>4 DEF IsMute
      <4> QED
        BY <2>2, <2>4, <4>1
    <3> QED
      BY <2>1, <3>2, <3>3, <3>4 DEF MutesFit, Waits, In, uid, MuteOf
  <2>8. ASSUME NEW d \in Waiting'
        PROVE  IsLeft(d)' /\ Unmuted(d)' /\ WillBeHeard(d)'
    <3>1. IsLeft(d)'
      BY <1>2, <2>5, <2>8
    <3>2. Unmuted(d)'
      <4>1. d \notin muted \/ d = uid
        BY <1>2, <2>8 DEF uid
      <4> QED
        BY <2>1, <2>3, <4>1 DEF Unmuted, uid
    <3>3. d = uid => Patience(disc.single, Unheard)'
      <4> SUFFICES ASSUME d = uid
                   PROVE  Patience(disc.single, Unheard)'
        OBVIOUS
      <4>1. Patience(disc.single, Unheard)
        BY <1>2, <2>8 DEF uid
      <4>2. disc'.single > past.losses
        <5>1. CASE SingleSend
          BY <1>0, <1>b, <2>1, <4>1, <5>1 DEF Patience
        <5>2. CASE SingleTimeout
          <6>1. Unheard
            BY <2>1, <5>2 DEF Unheard
          <6> QED
            BY <1>0, <1>b, <2>1, <4>1, <5>2, <6>1 DEF Patience
        <5> QED
          BY <1>6, <5>1, <5>2
      <4>3. past'.losses < past.losses \/ ~Unheard'
        BY <1>2, <2>1, <2>4, <2>8 DEF Unheard, uid, MuteOf
      <4>4. disc'.single \in Int
        BY <1>6, <1>b, <2>1
      <4> QED
        BY <1>0, <4>2, <4>3, <4>4 DEF Patience
    <3>4. WillBeHeard(d)'
      <4>1. InBranch(d, disc'.branch) => d = uid
        BY <1>2, <1>c, <2>1, <2>8 DEF uid
      <4> QED
        BY <2>1, <3>3, <4>1 DEF WillBeHeard, Waits, In
    <3> QED
      BY <3>1, <3>2, <3>4
  <2> QED
    BY <1>3, <2>1, <2>7, <2>8 DEF Patient
<1>7. CASE SingleAnswered
  <2>1. /\ Doing' = "DISCOVERY" /\ disc'.state = "DISCOVERY" /\ ~Active'
        /\ ~disc'.running /\ disc.running /\ disc'.stack = disc.stack
        /\ muted' = muted /\ Receives(MuteOf(disc.target))
        /\ AddUid(disc.target)
    BY <1>0, <1>7 DEF SingleAnswered, Enter, Doing, In, Waits, Active, Busy,
                      Discovery, MuteOf
  <2>2. /\ line[1] = MuteOf(disc.target) /\ 1 \in DOMAIN line
        /\ \A i \in DOMAIN line' : /\ i \in Nat \ {0} /\ i + 1 \in DOMAIN line
                                   /\ line'[i] = line[i + 1]
    BY <1>0, <2>1, Received
  <2>3. MutesFit'
    <3>1. ASSUME NEW i \in DOMAIN line, IsMute(i)
          PROVE  i = 1
      <4>1. line[i].uid = disc.target \/ i = 1
        BY <1>0, <1>1, <2>1, <3>1 DEF MutesFit, StaleMute, Waits
      <4>2. line[i].uid = disc.target => line[i] = MuteOf(disc.target)
        BY <1>4, <3>1
      <4> QED
        BY <1>0, <1>1, <2>1, <2>2, <4>1, <4>2 DEF MutesFit, Waits
    <3>2. \A i \in DOMAIN line' : ~IsMute(i)'
      BY <2>2, <3>1 DEF IsMute
    <3> QED
      BY <2>1, <3>2 DEF MutesFit, Waits, In
  <2>4. ASSUME NEW d \in Waiting'
        PROVE  IsLeft(d)' /\ Unmuted(d)' /\ WillBeHeard(d)'
    <3>1. d # disc.branch.lower
      <4>1. d \in Devices /\ d \notin Table'
        BY <1>2, <2>4 DEF Waiting
      <4>2. disc.target = disc.branch.lower
        BY <1>b, <2>1
      <4> QED
        BY <1>0, <2>1, <4>1, <4>2, AddedThere
    <3>2. d \notin muted
          /\ \E i \in 1 .. Len(disc.stack) : InBranch(d, disc.stack[i])
      BY <1>2, <2>4, <3>1
    <3> QED
      BY <2>1, <3>2 DEF IsLeft, Unmuted, WillBeHeard, Waits, In
  <2> QED
    BY <1>3, <2>1, <2>3, <2>4 DEF Patient
<1>8. CASE SingleIgnored
  <2>1. PICK r \in Answer : r # MuteOf(disc.target) /\ Receives(r)
    BY <1>8 DEF SingleIgnored, MuteOf
  <2>2. disc' = disc /\ muted' = muted /\ past' = past /\ disc.running
        /\ disc.single > 0
    BY <1>8 DEF SingleIgnored, Waits
  <2>3. /\ line[1] = r /\ 1 \in DOMAIN line
        /\ DOMAIN line = 1 .. Len(line) /\ Len(line) \in Nat \ {0}
        /\ DOMAIN line' = 1 .. Len(line') /\ Len(line') = Len(line) - 1
        /\ \A i \in DOMAIN line' : i + 1 \in DOMAIN line
                                   /\ line'[i] = line[i + 1]
    BY <1>0, <2>1, Received
  <2>4. \A i \in DOMAIN line' : i \in Nat /\ i + 1 # 1
    BY <2>3
  <2>5. /\ Doing' = Doing /\ In("DISCOVERY_SINGLE_DEVICE")'
        /\ Waits("DISCOVERY_SINGLE_DEVICE")' /\ Active'
    BY <1>1, <2>2 DEF Doing, In, Waits, Active, Busy
  <2>6. MutesFit'
    <3>1. \A i \in DOMAIN line' : IsMute(i)' => line'[i].uid = disc.target
      BY <1>0, <1>1, <2>2, <2>3, <2>4 DEF MutesFit, Waits, IsMute, StaleMute
    <3>2. \A i, j \in DOMAIN line' :
             line'[i] = MuteOf(disc.target) /\ line'[j] = MuteOf(disc.target)
                => i = j
      <4>1. \A i, j \in DOMAIN line :
               line[i] = MuteOf(disc.target) /\ line[j] = MuteOf(disc.target)
                  => i = j
        BY <1>0, <1>1, <2>2 DEF MutesFit, Waits
      <4>2. \A i, j \in DOMAIN line' : i + 1 = j + 1 => i = j
        BY <2>3
      <4> QED
        BY <2>3, <4>1, <4>2
    <3> QED
      BY <1>1, <2>2, <2>5, <3>1, <3>2 DEF MutesFit, Waits, In, MuteOf
  <2>7. ASSUME NEW d \in Waiting'
        PROVE  IsLeft(d)' /\ Unmuted(d)' /\ WillBeHeard(d)'
    <3>1. IsLeft(d) /\ Unmuted(d)
      BY <2>7, WaitingKept
    <3>2. IsLeft(d)'
      BY <1>1, <2>2, <2>5, <3>1 DEF IsLeft
    <3>3. Unmuted(d)'
      BY <2>2, <2>5, <3>1 DEF Unmuted
    <3>4. Unheard' => Unheard
      <4> SUFFICES ASSUME Unheard', NEW i \in DOMAIN line
                   PROVE  line[i] # MuteOf(disc.target)
        BY DEF Unheard
      <4>1. CASE i = 1
        BY <2>1, <2>3, <4>1
      <4>2. CASE i # 1
        <5>1. i - 1 \in DOMAIN line' /\ (i - 1) + 1 = i
          BY <2>3, <4>2
        <5>2. line'[i - 1] = line[i]
          BY <2>3, <5>1
        <5> QED
          BY <2>2, <5>1, <5>2 DEF Unheard, MuteOf
      <4> QED
        BY <4>1, <4>2
    <3>5. d = disc.branch.lower => Patience(disc.single, Unheard)'
      <4>1. d = disc.branch.lower => Patience(disc.single, Unheard)
        BY <1>2, <2>7
      <4> QED
        BY <1>0, <1>b, <2>2, <3>4, <4>1 DEF Patience
    <3>6. WillBeHeard(d)'
      <4>1. InBranch(d, disc'.branch) => d = disc.branch.lower
        BY <1>2, <1>c, <2>2, <2>7
      <4> QED
        BY <1>1, <2>2, <2>5, <3>5, <4>1 DEF WillBeHeard, Waits, In
    <3> QED
      BY <3>2, <3>3, <3>6
  <2> QED
    BY <1>1, <1>3, <2>5, <2>6, <2>7 DEF Patient
<1> QED
  BY <1>5, <1>6, <1>7, <1>8

\* DUB: a branch that answered is halved, one in which nobody waits dropped.
LEMMA DubStep ==
    ASSUME Known, Process, Sound', DubSilent \/ DubFound \/ DubSplit
    PROVE  MutesFit' /\ Patient'
<1>0. /\ TypeOK /\ Control /\ disc \in Discovery /\ MutesFit
      /\ \A d \in past.steady : d \in UIDs
      /\ past'.steady = past.steady
  BY KnownParts
<1>1. Doing = "DUB" /\ In("DUB") /\ Active
  BY DEF DubSilent, DubFound, DubSplit, In, Doing, Active, Busy
<1>2. ASSUME NEW d \in Waiting'
      PROVE  /\ IsLeft(d) /\ d \notin muted /\ d \in UIDs
             /\ InBranch(d, disc.branch) => disc.response # Nothing
  BY <1>0, <1>1, <1>2, WaitingKept DEF Unmuted, WillBeHeard
<1>3. ASSUME Doing' \notin {"UNMUTE", "MUTE"}
      PROVE  PatientUnmute' /\ PatientMute'
  BY <1>3 DEF PatientUnmute, PatientMute
<1>4. muted' = muted /\ line' = line
  BY DEF DubSilent, DubFound, DubSplit
<1>5. \A i \in DOMAIN line' : ~IsMute(i)'
  <2>1. NoMutes
    BY <1>0, <1>1 DEF MutesFit
  <2> QED
    BY <1>4, <2>1 DEF NoMutes, IsMute
<1>6. CASE DubSilent
  <2>1. /\ Doing' = "DISCOVERY" /\ disc'.state = "DISCOVERY" /\ ~Active'
        /\ ~disc'.running /\ disc'.stack = disc.stack
        /\ disc.response = Nothing
    BY <1>0, <1>6
       DEF DubSilent, Enter, Doing, In, Waits, Active, Busy, Discovery
  <2>2. MutesFit'
    BY <1>5, <2>1 DEF MutesFit, Waits, In
  <2>3. ASSUME NEW d \in Waiting'
        PROVE  IsLeft(d)' /\ Unmuted(d)' /\ WillBeHeard(d)'
    <3>1. IsLeft(d)'
      BY <1>2, <2>1, <2>3 DEF IsLeft
    <3> QED
      BY <1>2, <1>4, <2>1, <2>3, <3>1 DEF Unmuted, WillBeHeard, Waits, In
  <2> QED
    BY <1>3, <2>1, <2>2, <2>3 DEF Patient
<1>7. CASE DubFound
  <2>1. /\ Doing' = "QUICKFIND" /\ disc'.state = "LATE_RESPONSE" /\ Active'
        /\ ~disc'.running /\ disc'.stack = disc.stack
        /\ disc'.branch = disc.branch
    BY <1>0, <1>7 DEF DubFound, EnterLate, Enter, Doing, In, Waits, Active,
                      Busy, Discovery
  <2>2. MutesFit'
    BY <1>5, <2>1 DEF MutesFit, NoMutes, Waits, In
  <2>3. ASSUME NEW d \in Waiting'
        PROVE  IsLeft(d)' /\ Unmuted(d)' /\ WillBeHeard(d)'
    <3>1. IsLeft(d)'
      BY <1>1, <1>2, <2>1, <2>3 DEF IsLeft
    <3> QED
      BY <1>2, <1>4, <2>1, <2>3, <3>1 DEF Unmuted, WillBeHeard, Waits, In
  <2> QED
    BY <1>3, <2>1, <2>2, <2>3 DEF Patient
<1>8. CASE DubSplit
  <2> DEFINE s == disc.stack
             t == Push(Push(s, LowerHalf(disc.branch)), UpperHalf(disc.branch))
             e == EnterLate("DISCOVERY")
  <2>1. /\ e \in Discovery /\ e.stack = s /\ e.state = "LATE_RESPONSE"
        /\ e.saved = "DISCOVERY" /\ ~e.running
    BY <1>0, EnterLateType DEF EnterLate, Enter, States, Discovery
  <2>2. /\ Len(t) = Len(s) + 2 /\ \A i \in 1 .. Len(s) : t[i] = s[i]
        /\ t[Len(s) + 1] = LowerHalf(disc.branch)
        /\ t[Len(s) + 2] = UpperHalf(disc.branch)
        /\ \A d \in Nat : InBranch(d, disc.branch) =>
              InBranch(d, LowerHalf(disc.branch))
              \/ InBranch(d, UpperHalf(disc.branch))
    <3>1. /\ StackFits(disc.stack) /\ BranchFits(disc.stack, disc.branch)
          /\ disc.branch.lower < disc.branch.upper
      BY <1>1 DEF Known, Branches
    <3> QED
      BY <1>0, <3>1, SplitFits
  <2> HIDE DEF t, e
  <2>3. disc' = [e EXCEPT !.stack = t]
    BY <1>8, <2>1 DEF DubSplit, e, t
  <2>4. /\ disc'.stack = t /\ disc'.state = "LATE_RESPONSE"
        /\ disc'.saved = "DISCOVERY" /\ ~disc'.running
    BY <2>1, <2>3 DEF Discovery
  <2>5. Doing' = "DISCOVERY" /\ ~Active'
    BY <2>4 DEF Doing, In, Waits, Active, Busy
  <2>6. MutesFit'
    BY <1>5, <2>4, <2>5 DEF MutesFit, Waits, In
  <2>7. ASSUME NEW d \in Waiting'
        PROVE  IsLeft(d)' /\ Unmuted(d)' /\ WillBeHeard(d)'
    <3>1. /\ d \in Nat /\ Len(s) \in Nat
      BY <1>0, <1>2, <2>7, DiscTypes, ConstantTypes
    <3>2. \E i \in 1 .. Len(t) : InBranch(d, t[i])
      <4>1. CASE InBranch(d, disc.branch)
        <5>1. \/ InBranch(d, t[Len(s) + 1]) \/ InBranch(d, t[Len(s) + 2])
          BY <2>2, <3>1, <4>1
        <5>2. Len(s) + 1 \in 1 .. Len(t) /\ Len(s) + 2 \in 1 .. Len(t)
          BY <2>2, <3>1
        <5> QED
          BY <5>1, <5>2
      <4>2. CASE ~InBranch(d, disc.branch)
        <5>1. PICK i \in 1 .. Len(s) : InBranch(d, s[i])
          BY <1>2, <2>7, <4>2 DEF IsLeft
        <5>2. i \in 1 .. Len(t) /\ t[i] = s[i]
          BY <2>2, <3>1
        <5> QED
          BY <5>1, <5>2
      <4> QED
        BY <4>1, <4>2
    <3>3. IsLeft(d)'
      BY <2>4, <3>2 DEF IsLeft
    <3> QED
      BY <1>2, <1>4, <2>4, <2>5, <2>7, <3>3
         DEF Unmuted, WillBeHeard, Waits, In
  <2> QED
    BY <1>3, <2>5, <2>6, <2>7 DEF Patient
<1> QED
  BY <1>6, <1>7, <1>8

\* QUICKFIND: a device that is not found by its mute is still to be found.
LEMMA QuickFindStep ==
    ASSUME Known, Process, Sound',
           \/ QuickFindSend \/ QuickFindIgnored \/ QuickFindAnswered
           \/ QuickFindTimeout
    PROVE  MutesFit' /\ Patient'
<1>0. /\ TypeOK /\ TableOK /\ Control /\ disc \in Discovery
      /\ line \in Seq(Answer) /\ MutesFit /\ past'.steady = past.steady
      /\ past'.losses \in Nat /\ past'.losses <= MaxLosses
      /\ MaxLosses \in Nat /\ present' = present
      /\ \A d \in past.steady : d \in Devices
  BY KnownParts DEF Known
<1>1. Doing = "QUICKFIND" /\ In("QUICKFIND") /\ Active
  BY DEF QuickFindSend, QuickFindIgnored, QuickFindAnswered,
         QuickFindTimeout, Sends, Waits, In, Doing, Active, Busy
<1>a. disc.target \in UIDs /\ disc.quick = QuickFindDiscoveryCounter
      /\ QuickFindDiscoveryCounter \in Nat
      /\ MaxLosses < QuickFindDiscoveryCounter /\ All \notin UIDs
  BY <1>0, <1>1, ConstantTypes DEF Control
<1>2. ASSUME NEW d \in Waiting'
      PROVE  /\ IsLeft(d) /\ d \in Devices
             /\ d \notin muted \/ d = disc.target
  BY <1>0, <1>1, <1>2, WaitingKept DEF Unmuted
<1>3. ASSUME Doing' \notin {"UNMUTE", "MUTE"}
      PROVE  PatientUnmute' /\ PatientMute'
  BY <1>3 DEF PatientUnmute, PatientMute
<1>4. CASE QuickFindSend
  <2>1. /\ Doing' = "QUICKFIND" /\ disc'.state = "QUICKFIND" /\ Active'
        /\ disc'.running /\ disc'.stack = disc.stack /\ ~disc.running
        /\ disc'.branch = disc.branch /\ disc'.target = disc.target
        /\ SendMute(disc.target)
    BY <1>0, <1>4 DEF QuickFindSend, Sends, Doing, In, Active, Busy, Discovery
  <2> DEFINE uid == disc.target
  <2>2. SendMute(uid) /\ uid # All
    BY <1>a, <2>1
  <2> HIDE DEF uid
  <2>3. muted' \subseteq muted \cup {uid}
    BY <1>0, <2>2, TypeParts, MuteSent
  <2>4. PICK n \in Nat :
           \A i \in DOMAIN line' :
              \/ i \in DOMAIN line /\ line'[i] = line[i] /\ i < n
              \/ i = n /\ uid \in present /\ line'[i] = MuteOf(uid)
    BY <1>0, <2>2, MuteLine
  <2>5. MutesFit'
    <3>1. \A i \in DOMAIN line : ~IsMute(i)
      BY <1>0, <1>1, <2>1 DEF MutesFit, NoMutes
    <3>2. \A i \in DOMAIN line' : IsMute(i)' => i = n /\ line'[i].uid = uid
      BY <2>4, <3>1 DEF IsMute, MuteOf
    <3> QED
      BY <2>1, <3>2 DEF MutesFit, OneMute, Waits, In, uid
  <2>6. ASSUME NEW d \in Waiting'
        PROVE  IsLeft(d)' /\ Unmuted(d)' /\ WillBeHeard(d)'
    <3>1. IsLeft(d)'
      BY <1>1, <1>2, <2>1, <2>6 DEF IsLeft
    <3> QED
      BY <1>2, <2>1, <2>3, <2>6, <3>1 DEF Unmuted, WillBeHeard, Waits, In, uid
  <2> QED
    BY <1>3, <2>1, <2>5, <2>6 DEF Patient
<1>5. CASE QuickFindIgnored
  <2>1. PICK r \in Answer : Receives(r)
    BY <1>5 DEF QuickFindIgnored
  <2>2. disc' = disc /\ muted' = muted /\ disc.running
    BY <1>5 DEF QuickFindIgnored, Waits
  <2>3. \A i \in DOMAIN line' : /\ i \in Nat /\ i + 1 \in DOMAIN line
                                /\ line'[i] = line[i + 1]
    BY <1>0, <2>1, Received
  <2>4. /\ Doing' = "QUICKFIND" /\ disc'.state = "QUICKFIND" /\ Active'
    BY <1>1, <2>2 DEF Doing, In, Active, Busy
  <2>5. MutesFit'
    <3>1. /\ OneMute
          /\ \A i \in DOMAIN line : IsMute(i) => line[i].uid = disc.target
      BY <1>0, <1>1, <2>2 DEF MutesFit
    <3>2. \A i, j \in DOMAIN line' : i + 1 = j + 1 => i = j
      BY <2>3
    <3>3. OneMute'
      BY <2>3, <3>1, <3>2 DEF OneMute, IsMute
    <3>4. \A i \in DOMAIN line' : IsMute(i)' => line'[i].uid = disc.target
      BY <2>3, <3>1 DEF IsMute
    <3> QED
      BY <2>2, <2>4, <3>3, <3>4 DEF MutesFit, Waits, In
  <2>6. ASSUME NEW d \in Waiting'
        PROVE  IsLeft(d)' /\ Unmuted(d)' /\ WillBeHeard(d)'
    <3>1. IsLeft(d)'
      BY <1>1, <1>2, <2>2, <2>4, <2>6 DEF IsLeft
    <3> QED
      BY <1>2, <2>2, <2>4, <2>6, <3>1 DEF Unmuted, WillBeHeard, Waits, In
  <2> QED
    BY <1>3, <2>4, <2>5, <2>6 DEF Patient
<1>6. CASE QuickFindAnswered
  <2>1. PICK r \in Answer : /\ r.kind = "mute" /\ Receives(r)
                            /\ r.uid = disc.target => AddUid(r.uid)
    BY <1>6 DEF QuickFindAnswered
  <2>2. /\ Doing' = "QUICKFIND_DISCOVERY" /\ disc'.state = "QUICKFIND_DISCOVERY"
        /\ Active' /\ ~disc'.running /\ disc.running
        /\ disc'.stack = disc.stack /\ disc'.branch = disc.branch
        /\ disc'.quick = disc.quick /\ muted' = muted
    BY <1>0, <1>6 DEF QuickFindAnswered, Enter, Doing, In, Waits, Active, Busy,
                      Discovery
  <2>3. /\ line[1] = r /\ 1 \in DOMAIN line
        /\ \A i \in DOMAIN line' : /\ i \in Nat \ {0} /\ i + 1 \in DOMAIN line
                                   /\ line'[i] = line[i + 1]
    BY <1>0, <2>1, Received
  <2>4. OneMute /\ \A i \in DOMAIN line : IsMute(i) => line[i].uid = disc.target
    BY <1>0, <1>1, <2>2 DEF MutesFit
  <2>5. MutesFit'
    <3>1. \A i \in DOMAIN line' : ~IsMute(i)'
      BY <2>1, <2>3, <2>4 DEF OneMute, IsMute
    <3> QED
      BY <2>2, <3>1 DEF MutesFit, NoMutes, Waits, In
  <2>6. AddUid(disc.target)
    BY <2>1, <2>3, <2>4 DEF IsMute
  <2>7. ASSUME NEW d \in Waiting'
        PROVE  IsLeft(d)' /\ Unmuted(d)' /\ WillBeHeard(d)'
    <3>1. d # disc.target
      <4>1. d \in Devices /\ d \notin Table'
        BY <1>2, <2>7 DEF Waiting
      <4> QED
        BY <1>0, <2>6, <4>1, AddedThere
    <3>2. IsLeft(d)'
      BY <1>1, <1>2, <2>2, <2>7 DEF IsLeft
    <3>3. Patience(disc.quick, Silent)'
      BY <1>0, <1>a, <2>2 DEF Patience
    <3> QED
      BY <1>2, <2>2, <2>7, <3>1, <3>2, <3>3 DEF Unmuted, WillBeHeard, Waits, In
  <2> QED
    BY <1>3, <2>2, <2>5, <2>7 DEF Patient
<1>7. CASE QuickFindTimeout
  <2>1. /\ Doing' = "QUICKFIND" /\ disc'.state = "QUICKFIND" /\ Active'
        /\ ~disc'.running /\ disc'.stack = disc.stack
        /\ disc'.branch = disc.branch /\ disc'.target = disc.target
        /\ muted' = muted /\ line' = <<>>
    BY <1>0, <1>7 DEF QuickFindTimeout, TimedOut, Doing, In, Waits, Active,
                      Busy, Discovery
  <2>2. MutesFit'
    BY <2>1 DEF MutesFit, NoMutes, Waits, In
  <2>3. ASSUME NEW d \in Waiting'
        PROVE  IsLeft(d)' /\ Unmuted(d)' /\ WillBeHeard(d)'
    <3>1. IsLeft(d)'
      BY <1>1, <1>2, <2>1, <2>3 DEF IsLeft
    <3> QED
      BY <1>2, <2>1, <2>3, <3>1 DEF Unmuted, WillBeHeard, Waits, In
  <2> QED
    BY <1>3, <2>1, <2>2, <2>3 DEF Patient
<1> QED
  BY <1>4, <1>5, <1>6, <1>7

\* QUICKFIND_DISCOVERY: the branch is asked again before it is dropped.
LEMMA QuickFindDiscoveryStep ==
    ASSUME Known, Process, Sound',
           \/ QuickFindDiscoverySend \/ QuickFindDiscoveryAnswered
           \/ QuickFindDiscoveryTimeout \/ QuickFindDiscoveryDone
    PROVE  MutesFit' /\ Patient'
<1>0. /\ TypeOK /\ Control /\ disc \in Discovery
      /\ line \in Seq(Answer) /\ MutesFit /\ past'.steady = past.steady
      /\ past.losses \in Nat /\ past'.losses \in Nat
      /\ past'.losses <= past.losses
      /\ \A d \in past.steady : d \in present
  BY KnownParts
<1>1. /\ Doing = "QUICKFIND_DISCOVERY" /\ In("QUICKFIND_DISCOVERY") /\ Active
  BY DEF QuickFindDiscoverySend, QuickFindDiscoveryAnswered,
         QuickFindDiscoveryTimeout, QuickFindDiscoveryDone,
         Sends, Waits, In, Doing, Active, Busy
<1>a. disc.quick \in Nat
  BY <1>0, DiscTypes, ConstantTypes
<1>2. ASSUME NEW d \in Waiting'
      PROVE  /\ IsLeft(d) /\ d \notin muted /\ d \in present
             /\ InBranch(d, disc.branch) => Patience(disc.quick, Silent)
  BY <1>0, <1>1, <1>2, WaitingKept DEF Unmuted, WillBeHeard
<1>3. ASSUME Doing' \notin {"UNMUTE", "MUTE"}
      PROVE  PatientUnmute' /\ PatientMute'
  BY <1>3 DEF PatientUnmute, PatientMute
<1>4. \A i \in DOMAIN line : ~IsMute(i)
  BY <1>0, <1>1 DEF MutesFit, NoMutes
<1>5. CASE QuickFindDiscoverySend
  <2>1. /\ Doing' = "QUICKFIND_DISCOVERY" /\ disc'.state = "QUICKFIND_DISCOVERY"
        /\ Active' /\ disc'.running /\ ~disc.running
        /\ disc'.stack = disc.stack /\ disc'.branch = disc.branch
        /\ disc'.quick = disc.quick /\ SendBranch(disc.branch)
    BY <1>0, <1>5 DEF QuickFindDiscoverySend, Sends, Doing, In, Active, Busy,
                      Discovery
  <2>2. /\ muted' = muted
        /\ \A i \in DOMAIN line' : IsMute(i)' =>
              i \in DOMAIN line /\ line'[i] = line[i]
        /\ \A d \in present \ muted :
              InBranch(d, disc.branch) /\ Silent' => past'.losses < past.losses
    BY <1>0, <2>1, BranchLine
  <2>3. MutesFit'
    <3>1. \A i \in DOMAIN line' : ~IsMute(i)'
      BY <1>4, <2>2 DEF IsMute
    <3> QED
      BY <2>1, <3>1 DEF MutesFit, NoMutes, Waits, In
  <2>4. ASSUME NEW d \in Waiting'
        PROVE  IsLeft(d)' /\ Unmuted(d)' /\ WillBeHeard(d)'
    <3>1. IsLeft(d)' /\ d \notin muted /\ d \in present
      BY <1>1, <1>2, <2>1, <2>4 DEF IsLeft
    <3>2. InBranch(d, disc'.branch) => Patience(disc.quick, Silent)'
      <4>1. InBranch(d, disc.branch) => disc.quick > past.losses
        BY <1>0, <1>2, <2>1, <2>4 DEF Patience
      <4>2. InBranch(d, disc.branch) /\ Silent' => past'.losses < past.losses
        BY <2>2, <3>1
      <4> QED
        BY <1>0, <1>a, <2>1, <4>1, <4>2 DEF Patience
    <3> QED
      BY <2>1, <2>2, <3>1, <3>2 DEF Unmuted, WillBeHeard, Waits, In
  <2> QED
    BY <1>3, <2>1, <2>3, <2>4 DEF Patient
<1>6. CASE QuickFindDiscoveryAnswered
  <2>1. PICK r \in Answer :
           /\ Receives(r)
           /\ disc' = IF r.kind = "branch"
                      THEN [EnterLate("QUICKFIND")
                            EXCEPT !.target = r.uid,
                                   !.quick = QuickFindDiscoveryCounter]
                      ELSE [Enter("DUB")
                            EXCEPT !.response = r,
                                   !.quick = QuickFindDiscoveryCounter]
    BY <1>6 DEF QuickFindDiscoveryAnswered
  <2>2. /\ Doing' \in {"QUICKFIND", "DUB"} /\ Active'
        /\ disc'.state \in {"LATE_RESPONSE", "DUB"}
        /\ ~disc'.running /\ disc'.stack = disc.stack
        /\ disc'.branch = disc.branch
        /\ Doing' = "DUB" => disc'.response = r
    BY <1>0, <2>1 DEF EnterLate, Enter, Doing, In, Active, Busy, Discovery
  <2>3. muted' = muted
    BY <1>6 DEF QuickFindDiscoveryAnswered
  <2>4. MutesFit'
    <3>1. \A i \in DOMAIN line' : i + 1 \in DOMAIN line
                                  /\ line'[i] = line[i + 1]
      BY <1>0, <2>1, Received
    <3>2. \A i \in DOMAIN line' : ~IsMute(i)'
      BY <1>4, <3>1 DEF IsMute
    <3> QED
      BY <2>2, <3>2 DEF MutesFit, NoMutes, Waits, In
  <2>5. ASSUME NEW d \in Waiting'
        PROVE  IsLeft(d)' /\ Unmuted(d)' /\ WillBeHeard(d)'
    <3>1. IsLeft(d)'
      BY <1>1, <1>2, <2>2, <2>5 DEF IsLeft
    <3>2. r # Nothing
      BY DataTypes
    <3> QED
      BY <1>2, <2>2, <2>3, <2>5, <3>1, <3>2 DEF Unmuted, WillBeHeard, Waits, In
  <2> QED
    BY <1>3, <2>2, <2>4, <2>5 DEF Patient
<1>7. CASE QuickFindDiscoveryTimeout
  <2>1. /\ Doing' = "QUICKFIND_DISCOVERY" /\ disc'.state = "QUICKFIND_DISCOVERY"
        /\ Active' /\ ~disc'.running /\ disc.running
        /\ disc'.stack = disc.stack /\ disc'.branch = disc.branch
        /\ disc'.quick = disc.quick - 1 /\ muted' = muted
        /\ past' = past /\ line = <<>> /\ line' = <<>>
    BY <1>0, <1>7 DEF QuickFindDiscoveryTimeout, TimedOut, Waits, Doing, In,
                      Active, Busy, Discovery
  <2>2. MutesFit'
    BY <2>1 DEF MutesFit, NoMutes, Waits, In
  <2>3. ASSUME NEW d \in Waiting'
        PROVE  IsLeft(d)' /\ Unmuted(d)' /\ WillBeHeard(d)'
    <3>1. IsLeft(d)'
      BY <1>1, <1>2, <2>1, <2>3 DEF IsLeft
    <3>2. InBranch(d, disc'.branch) => Patience(disc.quick, Silent)'
      <4>1. Silent
        BY <2>1 DEF Silent
      <4>2. InBranch(d, disc.branch) => Patience(disc.quick, Silent)
        BY <1>2, <2>3
      <4> QED
        BY <1>0, <1>a, <2>1, <4>1, <4>2 DEF Patience
    <3> QED
      BY <1>2, <2>1, <2>3, <3>1, <3>2 DEF Unmuted, WillBeHeard, Waits, In
  <2> QED
    BY <1>3, <2>1, <2>2, <2>3 DEF Patient
<1>8. CASE QuickFindDiscoveryDone
  <2>1. /\ Doing' = "DISCOVERY" /\ disc'.state = "LATE_RESPONSE" /\ ~Active'
        /\ ~disc'.running /\ disc'.stack = disc.stack /\ disc.quick = 0
        /\ muted' = muted /\ line' = line
    BY <1>0, <1>8 DEF QuickFindDiscoveryDone, EnterLate, Enter, Doing, In,
                      Waits, Active, Busy, Discovery
  <2>2. MutesFit'
    <3>1. \A i \in DOMAIN line' : ~IsMute(i)'
      BY <1>4, <2>1 DEF IsMute
    <3> QED
      BY <2>1, <3>1 DEF MutesFit, Waits, In
  <2>3. ASSUME NEW d \in Waiting'
        PROVE  IsLeft(d)' /\ Unmuted(d)' /\ WillBeHeard(d)'
    <3>1. ~InBranch(d, disc.branch)
      <4>1. ~Patience(disc.quick, Silent)
        BY <1>0, <2>1 DEF Patience
      <4> QED
        BY <1>2, <2>3, <4>1
    <3>2. IsLeft(d)'
      BY <1>2, <2>1, <2>3, <3>1 DEF IsLeft
    <3> QED
      BY <1>2, <2>1, <2>3, <3>2 DEF Unmuted, WillBeHeard, Waits, In
  <2> QED
    BY <1>3, <2>1, <2>2, <2>3 DEF Patient
<1> QED
  BY <1>5, <1>6, <1>7, <1>8

\* FINISHED: nothing is left and nobody waits.
LEMMA FinishedStep ==
    ASSUME Known, Process, Sound', Finished
    PROVE  MutesFit' /\ Patient'
<1>0. TypeOK /\ Control /\ disc \in Discovery
  BY KnownParts
<1>1. /\ Doing = "FINISHED" /\ ~Active /\ disc.stack = <<>>
      /\ Doing' = "IDLE" /\ disc'.state = "IDLE"
  BY <1>0
     DEF Finished, Enter, Doing, In, Active, Busy, Waits, Control, Discovery
<1>2. \A d \in Waiting' : FALSE
  BY <1>1, WaitingKept DEF IsLeft
<1> QED
  BY <1>1, <1>2 DEF MutesFit, Patient, PatientUnmute, PatientMute, Waits, In

\* Process keeps all that a sound discovery claims.
LEMMA ProcessSound ==
    ASSUME Known, Process
    PROVE  SoundInv'
<1> SUFFICES ASSUME Sound'
             PROVE  History' /\ CalmLine' /\ MutesFit' /\ Patient'
  BY DEF SoundInv
<1>1. History' /\ CalmLine'
  BY ProcessHistory, ProcessCalmLine
<1>2. MutesFit' /\ Patient'
  BY LateStep, UnmuteStep, MuteStep, DiscoveryStep, SingleStep, DubStep,
     QuickFindStep, QuickFindDiscoveryStep, FinishedStep DEF Process, Mutes
<1> QED
  BY <1>1, <1>2

-----------------------------------------------------------------------------
(* What is sound stays sound: the node and the devices *)

\* A discovery that starts claims nothing yet but that all is left.
LEMMA NodeSound ==
    ASSUME TypeOK, Control, Full \/ Stop \/ Incremental \/ Publish
    PROVE  SoundInv'
<1> SUFFICES ASSUME Sound'
             PROVE  History' /\ CalmLine' /\ MutesFit' /\ Patient'
  BY DEF SoundInv
<1>0. disc \in Discovery /\ present \subseteq Devices /\ Devices \subseteq UIDs
  BY TypeParts
<1>a. /\ MaxLosses \in Nat /\ UnmuteCounter \in Nat
      /\ MaxLosses < UnmuteCounter /\ UIDs = 0 .. Last
  BY ConstantTypes
<1>1. ~Stop
  <2>1. Stop => disc'.finished = FALSE /\ Doing' = "IDLE"
    BY <1>0 DEF Stop, Enter, EnterLate, Doing, In, Discovery
  <2> QED
    BY <2>1 DEF Sound, Searching
<1>2. ~Publish
  <2>1. Publish => disc'.finished = FALSE /\ Doing' = "IDLE"
    BY <1>0 DEF Publish, Doing, In, Control, Discovery
  <2> QED
    BY <2>1 DEF Sound, Searching
<1>3. ~(Full /\ ~In("IDLE"))
  BY DEF Full, Over, Sound
<1>4. /\ disc'.state = "UNMUTE" /\ ~disc'.running
      /\ disc'.unmute = UnmuteCounter /\ disc'.stack = <<Whole>>
      /\ past' = Begun(Quiet) /\ gateway' = gateway /\ line' = line
      /\ present' = present /\ muted' = muted
      /\ IF disc'.incremental THEN disc'.entries = Len(tod') ELSE tod' = <<>>
  <2>1. CASE Full /\ In("IDLE")
    <3>1. disc' = Started(FALSE, disc) /\ past' = Begun(Quiet) /\ tod' = <<>>
          /\ UNCHANGED <<gateway, line, present, muted>>
      BY <2>1 DEF Full
    <3> QED
      BY <1>0, <3>1, StartedType
  <2>2. CASE Incremental
    <3> DEFINE s == Started(TRUE, disc)
    <3>1. /\ s \in Discovery /\ s.state = "UNMUTE" /\ s.incremental = TRUE
          /\ ~s.running /\ s.unmute = UnmuteCounter /\ s.stack = <<Whole>>
      BY <1>0, StartedType
    <3>2. /\ disc' = [s EXCEPT !.entries = Len(tod)] /\ past' = Begun(Quiet)
          /\ UNCHANGED <<tod, gateway, line, present, muted>>
      BY <2>2 DEF Incremental
    <3> HIDE DEF s
    <3>3. /\ disc'.state = "UNMUTE" /\ disc'.incremental = TRUE
          /\ ~disc'.running /\ disc'.unmute = UnmuteCounter
          /\ disc'.stack = <<Whole>> /\ disc'.entries = Len(tod)
      BY <3>1, <3>2 DEF Discovery
    <3> QED
      BY <3>2, <3>3
  <2> QED
    BY <1>1, <1>2, <1>3, <2>1, <2>2
<1>5. Doing' = "UNMUTE" /\ ~In("IDLE")'
  BY <1>4 DEF Doing, In
<1>6. /\ past'.steady = present /\ past'.seen = present
      /\ past'.losses = MaxLosses /\ past'.quiet = Quiet
  BY <1>4 DEF Begun
<1>7. History'
  BY <1>4, <1>5, <1>6 DEF History
<1>8. CalmLine'
  <2>1. disc'.incremental => Quiet
    BY <1>6 DEF Sound, Calm
  <2> QED
    BY <1>4, <1>5, <2>1 DEF CalmLine, Quiet
<1>9. MutesFit'
  BY <1>a, <1>4, <1>5 DEF MutesFit, Waits, In
<1>10. Patient'
  <2>1. PatientUnmute' /\ PatientMute'
    BY <1>a, <1>4, <1>5, <1>6 DEF PatientUnmute, PatientMute, Patience
  <2>2. ASSUME NEW d \in Waiting'
        PROVE  IsLeft(d)'
    <3>1. d \in 0 .. Last
      BY <1>0, <1>a, <1>6, <2>2 DEF Waiting
    <3>2. InBranch(d, Whole) /\ Len(<<Whole>>) = 1 /\ <<Whole>>[1] = Whole
      BY <3>1 DEF InBranch, Whole
    <3> QED
      BY <1>4, <3>2 DEF IsLeft
  <2> QED
    BY <1>4, <1>5, <2>1, <2>2 DEF Patient, Unmuted, WillBeHeard, Waits, In
<1> QED
  BY <1>7, <1>8, <1>9, <1>10

\* While nothing is searched nobody waits.
LEMMA NobodyWaits ==
    ASSUME Known, In("IDLE")
    PROVE  Doing = "IDLE" /\ Waiting = {} /\ disc.finished
<1>1. Doing = "IDLE" /\ ~Active
  BY DEF Doing, In, Active, Waits, Busy
<1>2. disc.finished /\ disc.stack = <<>>
  BY <1>1 DEF Known, Sound, Searching, Control
<1>3. \A d : ~IsLeft(d)
  BY <1>1, <1>2 DEF IsLeft
<1> QED
  BY <1>1, <1>2, <1>3 DEF Known, Patient

\* A request of the controller costs a loss when discovery may miss an answer.
LEMMA RdmSound ==
    ASSUME TypeOK, Control, Branches, TableOK, SoundInv,
           HandleRdm \/ HandleRdmIn
    PROVE  SoundInv'
<1> SUFFICES ASSUME Sound'
             PROVE  History' /\ CalmLine' /\ MutesFit' /\ Patient'
  BY DEF SoundInv
<1>0. /\ PastLoses /\ line \in Seq(Answer) /\ line' \in Seq(Answer)
      /\ disc' = disc /\ tod' = tod /\ present' = present /\ muted' = muted
      /\ In("IDLE") => past' = past
      /\ ~In("IDLE") => ~past'.quiet
      /\ past \in Past /\ past' \in Past
  BY RdmTypes, TypeParts DEF PastLoses
<1>a. /\ past.losses \in Nat /\ past'.losses \in Nat
      /\ past'.losses <= past.losses
      /\ past'.steady = past.steady /\ past'.seen = past.seen
      /\ disc.unmute \in Nat /\ disc.discovery \in Nat /\ disc.single \in Nat
      /\ disc.quick \in Nat
  <2>1. past.losses \in Nat /\ past'.losses \in Nat
    BY <1>0, ConstantTypes DEF Past
  <2>2. /\ disc.unmute \in Nat /\ disc.discovery \in Nat
        /\ disc.single \in Nat /\ disc.quick \in Nat
    BY TypeParts, DiscTypes, ConstantTypes, SMTT(30)
  <2> QED
    BY <1>0, <2>1, <2>2 DEF PastLoses
<1>1. In("IDLE") \/ ~disc.incremental
  BY <1>0 DEF Sound, Calm
<1>2. Sound
  BY <1>0, <1>1 DEF Sound, Searching, Doing, In, PastLoses, Calm
<1>3. Known
  BY <1>2 DEF Known, SoundInv
<1>4. Table' = Table /\ Waiting' = Waiting
  BY <1>0, <1>a DEF Table, Waiting
<1>5. Doing' = Doing /\ Active' = Active
  BY <1>0 DEF Doing, In, Active, Waits
<1>6. Doing # "MUTE" /\ (disc.incremental => Doing = "IDLE")
  BY <1>1, <1>3, NobodyWaits DEF Known, History, Doing, In
<1>7. History'
  <2> DEFINE S == past.seen
  <2>1. History /\ present \subseteq S
    BY <1>3 DEF Known, History
  <2> HIDE DEF S
  <2>2. LineOf(S) =>
           \A i \in DOMAIN line' :
              line'[i].kind \in {"branch", "mute"} => line'[i].uid \in S
    BY <2>1, LineStep DEF Next, LineOf
  <2>3. LineOf(past.seen) => LineOf(past.seen)'
    BY <1>a, <2>2 DEF LineOf, S
  <2> QED
    BY <1>0, <1>a, <1>4, <1>5, <1>6, <2>1, <2>3 DEF History, In
<1>8. CalmLine'
  BY <1>0, <1>5, <1>6 DEF CalmLine
<1>9. PICK k \in {0, 1} : \A j \in DOMAIN line' :
         line'[j] # Foreign => j + k \in DOMAIN line /\ line'[j] = line[j + k]
  BY RdmTypes
<1>10. \A j \in DOMAIN line' : j \in Nat \ {0}
  BY <1>0
<1>11. \A d : IsLeft(d)' <=> IsLeft(d)
  BY <1>0, <1>5 DEF IsLeft
<1>12. MutesFit'
  <2>1. \A j \in DOMAIN line' : IsMute(j)' =>
           /\ j + k \in DOMAIN line /\ line'[j] = line[j + k]
           /\ IsMute(j + k)
    BY <1>9, DataTypes DEF IsMute
  <2>2. \A j \in DOMAIN line' : j + k = 1 => j = 1
    BY <1>10
  <2>3. \A i, j \in DOMAIN line' : i + k = j + k => i = j
    BY <1>10
  <2>4. MutesFit
    BY <1>3 DEF Known
  <2>5. NoMutes => NoMutes'
    BY <2>1 DEF NoMutes
  <2>6. OneMute => OneMute'
    BY <2>1, <2>3 DEF OneMute
  <2>7. \A j \in DOMAIN line' : IsMute(j)' /\ StaleMute(j + k)
                                   => StaleMute(j)'
    <3>1. ASSUME NEW j \in DOMAIN line', IsMute(j)', StaleMute(j + k)
          PROVE  j = 1 /\ line'[j] = line[j + k] /\ ~IsLeft(line[j + k].uid)
      BY <2>1, <2>2, <3>1 DEF StaleMute
    <3> QED
      BY <1>0, <1>5, <3>1 DEF StaleMute, IsLeft
  <2>8. \A j \in DOMAIN line' : line'[j] = MuteOf(disc.target) => IsMute(j)'
    BY DEF IsMute, MuteOf
  <2>9. Doing = "QUICKFIND" =>
           IF disc.running
           THEN OneMute' /\ \A j \in DOMAIN line' :
                               IsMute(j)' => line'[j].uid = disc.target
           ELSE NoMutes'
    BY <2>1, <2>4, <2>5, <2>6 DEF MutesFit
  <2>10. Doing \in {"DISCOVERY", "DISCOVERY_SINGLE_DEVICE"} /\ ~disc.running =>
            \A j \in DOMAIN line' : IsMute(j)' => StaleMute(j)'
    BY <2>1, <2>4, <2>7 DEF MutesFit
  <2>11. Waits("DISCOVERY") =>
            \A j \in DOMAIN line' : IsMute(j)' =>
               j = 1 /\ disc.discovery = DiscoveryCounter
    BY <2>1, <2>2, <2>4 DEF MutesFit
  <2>12. Waits("DISCOVERY_SINGLE_DEVICE") =>
            /\ \A j \in DOMAIN line' : IsMute(j)' =>
                  /\ line'[j].uid = disc.target \/ StaleMute(j)'
                  /\ disc.single = 0 => j = 1
            /\ \A i, j \in DOMAIN line' :
                  line'[i] = MuteOf(disc.target)
                     /\ line'[j] = MuteOf(disc.target) => i = j
    BY <2>1, <2>2, <2>3, <2>4, <2>7, <2>8 DEF MutesFit
  <2>13. \A s : Waits(s)' <=> Waits(s)
    BY <1>0 DEF Waits, In
  <2> QED
    BY <1>0, <1>5, <2>4, <2>5, <2>9, <2>10, <2>11, <2>12, <2>13
       DEF MutesFit, MuteOf
<1>13. Patient'
  <2>0. PatientUnmute
    BY <1>3 DEF Known, Patient
  <2>1. PatientUnmute'
    BY <1>0, <1>a, <1>5, <2>0, SMTT(30) DEF PatientUnmute, Patience
  <2>2. PatientMute'
    BY <1>5, <1>6 DEF PatientMute
  <2>3. ASSUME NEW d \in Waiting'
        PROVE  IsLeft(d)' /\ Unmuted(d)' /\ WillBeHeard(d)'
    <3>1. IsLeft(d) /\ Unmuted(d) /\ WillBeHeard(d)
      BY <1>3, <1>4, <2>3 DEF Known, Patient
    <3>2. ~In("IDLE")
      BY <1>3, <1>4, <2>3, NobodyWaits
    <3>3. \/ past'.losses < past.losses
          \/ \A i \in DOMAIN line : line[i] # Foreign =>
                \E j \in DOMAIN line' : line'[j] = line[i]
      BY <3>2, RdmTypes
    <3>4. past'.losses < past.losses \/ (Silent' => Silent)
      BY <3>3 DEF Silent
    <3>5. past'.losses < past.losses \/ (Unheard' => Unheard)
      <4>1. MuteOf(disc.target) # Foreign
        BY DEF MuteOf, Foreign
      <4> QED
        BY <1>0, <3>3, <4>1 DEF Unheard, MuteOf
    <3>6. \A n \in Nat : /\ Patience(n, Silent) => Patience(n, Silent)'
                         /\ Patience(n, Unheard) => Patience(n, Unheard)'
      BY <1>0, <1>a, <3>4, <3>5 DEF Patience
    <3>7. Unmuted(d)'
      BY <1>0, <1>5, <3>1 DEF Unmuted
    <3>8. WillBeHeard(d)'
      BY <1>0, <1>a, <1>5, <3>1, <3>6 DEF WillBeHeard, Waits, In
    <3> QED
      BY <1>11, <3>1, <3>7, <3>8
  <2> QED
    BY <2>1, <2>2, <2>3 DEF Patient
<1> QED
  BY <1>7, <1>8, <1>12, <1>13

\* A device that comes or goes is no reason for the others to wait.
LEMMA MovesSound ==
    ASSUME TypeOK, Control, SoundInv, Branches, TableOK,
           NEW d \in Devices, Plug(d) \/ Unplug(d)
    PROVE  SoundInv'
<1> SUFFICES ASSUME Sound'
             PROVE  History' /\ CalmLine' /\ MutesFit' /\ Patient'
  BY DEF SoundInv
<1>0. /\ disc' = disc /\ tod' = tod /\ gateway' = gateway /\ line' = line
      /\ past'.flushed = past.flushed /\ past'.quiet = past.quiet
      /\ past'.losses = past.losses
      /\ ~In("IDLE") => past'.moves # MaxMoves
      /\ In("IDLE") => past'.moves = past.moves
      /\ \/ /\ present' = present \cup {d} /\ muted' = muted
            /\ past'.steady = past.steady /\ past'.seen = past.seen \cup {d}
         \/ /\ present' = present \ {d} /\ muted' = muted \ {d}
            /\ past'.steady = past.steady \ {d} /\ past'.seen = past.seen
  BY MovesTypes
<1>1. In("IDLE") \/ ~disc.incremental
  BY <1>0 DEF Sound, Calm
<1>2. Sound
  BY <1>0, <1>1 DEF Sound, Searching, Doing, In, Calm
<1>3. Known
  BY <1>2 DEF Known, SoundInv
<1>4. Table' = Table /\ Waiting' \subseteq Waiting
  BY <1>0 DEF Table, Waiting
<1>5. Doing' = Doing /\ Active' = Active
  BY <1>0 DEF Doing, In, Active, Waits
<1>6. Doing # "MUTE" /\ (disc.incremental => Doing = "IDLE")
  BY <1>1, <1>3, NobodyWaits DEF Known, History, Doing, In
<1>7. History'
  <2>1. History
    BY <1>3 DEF Known
  <2>2. past'.steady \subseteq present' /\ present' \subseteq past'.seen
        /\ past.seen \subseteq past'.seen
    BY <1>0, <2>1 DEF History
  <2>3. LineOf(past.seen) => LineOf(past.seen)'
    BY <1>0, <2>2 DEF LineOf
  <2>4. disc.incremental => In("IDLE")
    BY <1>1
  <2> QED
    BY <1>0, <1>4, <1>5, <1>6, <2>1, <2>2, <2>3, <2>4 DEF History, In
<1>8. CalmLine'
  BY <1>0, <1>5, <1>6 DEF CalmLine
<1>9. \A e : IsLeft(e)' <=> IsLeft(e)
  BY <1>0, <1>5 DEF IsLeft
<1>10. MutesFit'
  <2>1. \A i \in DOMAIN line : StaleMute(i)' <=> StaleMute(i)
    BY <1>0, <1>5 DEF StaleMute, IsLeft
  <2>2. /\ NoMutes' <=> NoMutes
        /\ OneMute' <=> OneMute
        /\ \A s : Waits(s)' <=> Waits(s)
        /\ \A i \in DOMAIN line : IsMute(i)' <=> IsMute(i)
    BY <1>0 DEF NoMutes, OneMute, IsMute, Waits, In
  <2> QED
    BY <1>0, <1>3, <1>5, <2>1, <2>2 DEF Known, MutesFit, MuteOf
<1>11. Patient'
  <2>1. PatientUnmute
    BY <1>3 DEF Known, Patient
  <2>2. PatientUnmute'
    BY <1>0, <1>5, <2>1 DEF PatientUnmute, Patience
  <2>3. PatientMute'
    BY <1>5, <1>6 DEF PatientMute
  <2>4. ASSUME NEW e \in Waiting'
        PROVE  IsLeft(e)' /\ Unmuted(e)' /\ WillBeHeard(e)'
    <3>1. IsLeft(e) /\ Unmuted(e) /\ WillBeHeard(e)
      BY <1>3, <1>4, <2>4 DEF Known, Patient
    <3>2. muted' \subseteq muted
      BY <1>0
    <3>3. Unmuted(e)'
      BY <1>0, <1>5, <3>1, <3>2 DEF Unmuted
    <3>4. WillBeHeard(e)'
      BY <1>0, <1>5, <3>1
         DEF WillBeHeard, Waits, In, Patience, Silent, Unheard, MuteOf
    <3> QED
      BY <1>9, <3>1, <3>3, <3>4
  <2> QED
    BY <2>2, <2>3, <2>4 DEF Patient
<1> QED
  BY <1>7, <1>8, <1>10, <1>11

-----------------------------------------------------------------------------
(* The theorems *)

\* The invariant holds at the start,
LEMMA InitInv == Init => IInv
<1> SUFFICES ASSUME Init
             PROVE  IInv
  OBVIOUS
<1>0. /\ present \subseteq Devices /\ muted \subseteq present
      /\ line = <<>> /\ tod = <<>> /\ gateway = FALSE /\ past = Begun(TRUE)
  BY DEF Init
<1>a. /\ MaxLosses \in Nat /\ UnmuteCounter \in Nat \ {0}
      /\ MuteCounter \in Nat \ {0} /\ DiscoveryCounter \in Nat \ {0}
      /\ QuickFindDiscoveryCounter \in Nat \ {0} /\ TableSize \in Nat \ {0}
      /\ MaxLosses < UnmuteCounter /\ MaxLosses < MuteCounter
      /\ UIDs = 0 .. Last /\ Devices \subseteq UIDs
  BY ConstantTypes
<1>b. /\ <<>> \in Seq(UIDs) /\ Len(<<>>) = 0 /\ <<>> \in Seq(Answer)
      /\ \A i \in DOMAIN <<>> : FALSE
  OBVIOUS
<1>1. /\ disc.state = "UNMUTE" /\ disc.saved = "IDLE" /\ ~disc.finished
      /\ ~disc.incremental /\ ~disc.running /\ disc.unmute = UnmuteCounter
      /\ disc.mute = MuteCounter /\ disc.single = MuteCounter
      /\ disc.quick = QuickFindDiscoveryCounter /\ disc.stack = <<Whole>>
      /\ disc.discovery = DiscoveryCounter
      /\ disc.entries = 0 /\ disc.target = All /\ disc.branch = Whole
      /\ disc.response = Nothing
  BY DEF Init
<1>2. disc \in Discovery
  <2>1. <<Whole>> \in Seq(Branch) /\ Whole \in Branch
    BY DataTypes
  <2>2. /\ UnmuteCounter \in 0 .. UnmuteCounter
        /\ MuteCounter \in 0 .. MuteCounter
        /\ DiscoveryCounter \in 0 .. DiscoveryCounter
        /\ QuickFindDiscoveryCounter \in 0 .. QuickFindDiscoveryCounter
        /\ MuteCounter \in 0 .. (MuteCounter + QuickFindDiscoveryCounter)
        /\ 0 \in 0 .. TableSize
    BY <1>a
  <2> QED
    BY <2>1, <2>2 DEF Init, Discovery, States
<1>3. TypeOK
  <2>1. past \in Past
    BY <1>0, BegunType
  <2>2. Len(tod) <= TableSize
    BY <1>0, <1>a, <1>b
  <2> QED
    BY <1>0, <1>b, <1>2, <2>1, <2>2 DEF TypeOK
<1>4. Doing = "UNMUTE" /\ ~Active
  BY <1>1 DEF Doing, In, Active, Waits, Busy
<1>5. Control
  BY <1>a, <1>1, <1>4 DEF Control, In, Waits
<1>6. Branches
  BY <1>1, <1>4, WholeFits DEF Branches
<1>7. TableOK
  BY <1>0, <1>b DEF TableOK, Distinct, Table, LineOf
<1>8. /\ past.steady = present /\ past.seen = present
      /\ past.losses = MaxLosses
  BY <1>0 DEF Begun
<1>9. History /\ CalmLine
  BY <1>0, <1>1, <1>4, <1>8 DEF History, CalmLine
<1>10. MutesFit
  BY <1>a, <1>1, <1>4 DEF MutesFit, Waits, In
<1>11. Patient
  <2>1. PatientUnmute /\ PatientMute
    BY <1>a, <1>1, <1>4, <1>8 DEF PatientUnmute, PatientMute, Patience
  <2>2. ASSUME NEW d \in Waiting
        PROVE  IsLeft(d)
    <3>1. d \in 0 .. Last
      BY <1>0, <1>a, <1>8, <2>2 DEF Waiting
    <3>2. InBranch(d, Whole) /\ Len(<<Whole>>) = 1 /\ <<Whole>>[1] = Whole
      BY <3>1 DEF InBranch, Whole
    <3> QED
      BY <1>1, <3>2 DEF IsLeft
  <2> QED
    BY <1>1, <1>4, <2>1, <2>2 DEF Patient, Unmuted, WillBeHeard, Waits, In
<1> QED
  BY <1>3, <1>5, <1>6, <1>7, <1>9, <1>10, <1>11 DEF IInv, SoundInv

\* every step keeps it,
LEMMA StepInv == IInv /\ [Next]_vars => IInv'
<1> SUFFICES ASSUME IInv, [Next]_vars
             PROVE  IInv'
  OBVIOUS
<1>1. TypeOK /\ Control /\ Branches /\ TableOK /\ SoundInv
  BY DEF IInv
<1>2. TypeOK' /\ Control' /\ Branches' /\ TableOK'
  BY <1>1, TypeStep, ControlStep, BranchesStep, TableOKStep DEF TableOK
<1>3. SoundInv'
  <2>1. CASE Process
    <3>1. Sound' => Sound
      BY <1>1, <2>1, SoundKept
    <3>2. Sound => Known
      BY <1>1 DEF Known, SoundInv
    <3>3. Known => SoundInv'
      BY <2>1, ProcessSound
    <3> QED
      BY <3>1, <3>2, <3>3 DEF SoundInv
  <2>2. CASE Full \/ Stop \/ Incremental \/ Publish
    BY <1>1, <2>2, NodeSound
  <2>3. CASE HandleRdm \/ HandleRdmIn
    BY <1>1, <2>3, RdmSound
  <2>4. ASSUME NEW d \in Devices, Plug(d) \/ Unplug(d)
        PROVE  SoundInv'
    BY <1>1, <2>4, MovesSound
  <2>5. CASE UNCHANGED vars
    <3> USE <2>5 DEF vars
    <3>1. Sound' <=> Sound
      BY DEF Sound, Searching, Doing, In, Calm
    <3>2. /\ Doing' = Doing /\ Active' = Active /\ Table' = Table
          /\ \A s : In(s)' <=> In(s)
          /\ \A s : Waits(s)' <=> Waits(s)
      BY DEF Doing, In, Active, Waits, Table
    <3>3. \A d : IsLeft(d)' <=> IsLeft(d)
      BY <3>2 DEF IsLeft
    <3>4. History => History'
      BY <3>2 DEF History, LineOf
    <3>5. CalmLine => CalmLine'
      BY <3>2 DEF CalmLine, MuteOf
    <3>6. MutesFit => MutesFit'
      <4>1. /\ NoMutes' <=> NoMutes
            /\ OneMute' <=> OneMute
            /\ \A i \in DOMAIN line : IsMute(i)' <=> IsMute(i)
            /\ \A i \in DOMAIN line : StaleMute(i)' <=> StaleMute(i)
        BY <3>2 DEF NoMutes, OneMute, IsMute, StaleMute, IsLeft
      <4> QED
        BY <3>2, <4>1 DEF MutesFit, MuteOf
    <3>7. Patient => Patient'
      <4>1. PatientUnmute /\ PatientMute => PatientUnmute' /\ PatientMute'
        BY <3>2 DEF PatientUnmute, PatientMute, Patience
      <4>2. /\ \A d : Unmuted(d) => Unmuted(d)'
            /\ \A d : WillBeHeard(d) => WillBeHeard(d)'
            /\ Waiting' = Waiting
        BY <3>2 DEF Unmuted, WillBeHeard, Patience, Silent, Unheard, MuteOf,
                    Waiting
      <4> QED
        BY <3>3, <4>1, <4>2 DEF Patient
    <3> QED
      BY <1>1, <3>1, <3>4, <3>5, <3>6, <3>7 DEF SoundInv
  <2> QED
    BY <2>1, <2>2, <2>3, <2>4, <2>5 DEF Next
<1> QED
  BY <1>2, <1>3 DEF IInv

\* and so it always holds.
LEMMA Invariance == Spec => []IInv
<1> QED
  BY InitInv, StepInv, PTL DEF Spec

\* TypeOK: the members, the table and the line keep their types; the counters of
\* the eight states stay in their ranges, and the table in its size.
THEOREM RdmTypeCorrect == Spec => []TypeOK
<1>1. IInv => TypeOK
  BY DEF IInv
<1> QED
  BY <1>1, Invariance, PTL

\* NoneForgotten: what waits is in a branch that is left, and not muted.
THEOREM RdmNoneForgotten == Spec => []NoneForgotten
<1>1. IInv => NoneForgotten
  <2> SUFFICES ASSUME IInv, Sound, NEW d \in past.steady, d \notin Table
               PROVE  /\ MayAnswer(d)
                      /\ \E b \in Left : d \in b.lower .. b.upper
    BY DEF NoneForgotten
  <2>1. IsLeft(d) /\ Unmuted(d)
    BY DEF IInv, SoundInv, Patient, Waiting
  <2>2. disc.saved \notin {"UNMUTE", "MUTE", "DUB", "QUICKFIND_DISCOVERY"}
        /\ disc.state \in States /\ disc.stack \in Seq(Branch)
    BY TypeParts, DiscTypes DEF IInv, Control
  <2>3. \E b \in Left : d \in b.lower .. b.upper
    <3>1. DOMAIN disc.stack = 1 .. Len(disc.stack)
      BY <2>2
    <3> QED
      BY <2>1, <3>1 DEF IsLeft, InBranch, Left, Active, Busy
  <2>4. MayAnswer(d)
    <3>1. Doing \notin {"IDLE", "FINISHED"}
      <4>1. Doing = "IDLE" \/ Doing = "FINISHED" => ~Active /\ disc.stack = <<>>
        BY DEF IInv, Sound, Searching, Control, Active, Busy, Waits, In, Doing
      <4> QED
        BY <2>1, <4>1 DEF IsLeft
    <3>2. Doing \in States \ {"LATE_RESPONSE"}
      BY <2>2 DEF IInv, Control, Doing, In, States
    <3> QED
      BY <2>1, <3>1, <3>2 DEF MayAnswer, Unmuted, States
  <2> QED
    BY <2>3, <2>4
<1> QED
  BY <1>1, Invariance, PTL

\* NoGhosts: when discovery has finished, all in the table were seen.
THEOREM RdmNoGhosts == Spec => []NoGhosts
<1>1. IInv => NoGhosts
  <2> SUFFICES ASSUME IInv, Sound, disc.finished
               PROVE  Table \subseteq past.seen
    BY DEF NoGhosts
  <2>1. Doing = "IDLE"
    BY DEF IInv, Control, In, Doing
  <2> QED
    BY <2>1 DEF IInv, SoundInv, History
<1> QED
  BY <1>1, Invariance, PTL

\* BranchesFit: the stack has room for both halves of what is halved.
THEOREM RdmBranchesFit == Spec => []BranchesFit
<1>1. IInv => BranchesFit
  <2> SUFFICES ASSUME IInv, In("DUB")
               PROVE  Len(disc.stack) + 2 <= TableSize
    BY DEF BranchesFit
  <2>1. Doing = "DUB" /\ Active
    BY DEF Doing, In, Active, Busy
  <2>2. /\ StackFits(disc.stack) /\ BranchFits(disc.stack, disc.branch)
        /\ disc.branch.lower < disc.branch.upper
    BY <2>1 DEF IInv, Branches
  <2> QED
    BY <2>2, TypeParts, HalvesFit DEF IInv
<1> QED
  BY <1>1, Invariance, PTL
=============================================================================
