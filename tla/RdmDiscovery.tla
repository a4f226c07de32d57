---------------------------- MODULE RdmDiscovery ----------------------------
(***************************************************************************)
(* RDM discovery on one DMX line: class RDMDiscovery of lib-rdm, the table *)
(* of devices (TOD) it fills, and the Art-Net node that starts it, ends    *)
(* it, publishes the table, and passes a controller's own RDM requests to  *)
(* the same line.  The build is that of opi_emac_artnet_dmx: one port.     *)
(*                                                                         *)
(* Discovery is a state machine, one call of Process a turn of the main    *)
(* loop.  It unmutes every device, in an incremental search mutes those it *)
(* knows, and then halves the range of UIDs until a branch answers with    *)
(* one voice.  Times are left out: an answer that was given has come       *)
(* before a timeout is taken (RECEIVE_TIME_OUT is longer than an answer),  *)
(* and the number of answers that get lost is bounded instead.             *)
(***************************************************************************)
EXTENDS Naturals, Sequences, FiniteSets

CONSTANTS
    Devices,        \* UIDs of the devices there may be
    Quarter,        \* the UIDs are below 4 * Quarter; 2^46 in the code
    UnmuteCounter, MuteCounter, DiscoveryCounter, QuickFindDiscoveryCounter,
    TableSize,      \* TOD_TABLE_SIZE, and the size of the stack
    MaxLosses,      \* requests or answers lost during one discovery (a bound)
    MaxMoves        \* devices plugged or unplugged during one (a bound)

Half == 2 * Quarter
Last == 2 * Half - 2        \* 0xfffffffffffe: the largest UID of a device
All == 2 * Half - 1         \* UID_ALL, to which every device listens

ASSUME QuarterAssumption == Quarter \in Nat \ {0}
ASSUME DevicesAssumption == Devices \subseteq 0 .. Last
ASSUME CountersAssumption ==
    \A c \in {UnmuteCounter, MuteCounter, DiscoveryCounter,
              QuickFindDiscoveryCounter, TableSize} : c \in Nat \ {0}
ASSUME BoundsAssumption == MaxLosses \in Nat /\ MaxMoves \in Nat

\* Nothing is asked so often in vain that a counter runs out.
ASSUME LossesAssumption ==
    \A c \in {UnmuteCounter, MuteCounter, DiscoveryCounter,
              QuickFindDiscoveryCounter} : MaxLosses < c

\* The table has room for all devices, the stack for all halvings.
ASSUME TableAssumption ==
    IsFiniteSet(Devices) /\ Cardinality(Devices) <= TableSize
ASSUME StackAssumption ==
    \E size \in [1 .. TableSize -> 0 .. Last + 1] :
       /\ size[1] = Last + 1 /\ size[TableSize] <= 1
       /\ \A i \in 1 .. TableSize - 1 : size[i + 1] >= size[i] \div 2

VARIABLES
    disc,       \* the members of RDMDiscovery
    tod,        \* the table of the port: UIDs in the order they were found
    gateway,    \* the port waits for the answer to an ArtRdm: nIpRdm is not 0
    line,       \* answers that are received and not yet read, or under way
    present,    \* devices on the line
    muted,      \* those that do not answer to a branch
    past        \* history of this discovery: see Past

vars == <<disc, tod, gateway, line, present, muted, past>>

-----------------------------------------------------------------------------
(* Data *)

States == {"IDLE", "UNMUTE", "MUTE", "DISCOVERY", "DISCOVERY_SINGLE_DEVICE",
           "DUB", "QUICKFIND", "QUICKFIND_DISCOVERY", "LATE_RESPONSE",
           "FINISHED"}

UIDs == 0 .. Last

\* What Receive returns: the answer of one device to a branch or to a mute,
\* answers that destroyed each other, and the answer to a request of the
\* controller.
Noise == [kind |-> "noise", uid |-> All]
Foreign == [kind |-> "rdm", uid |-> All]
Nothing == [kind |-> "none", uid |-> All]
Answer == [kind : {"branch", "mute"}, uid : UIDs] \cup {Noise, Foreign}

Branch == [lower : UIDs, upper : UIDs]
Whole == [lower |-> 0, upper |-> Last]

\* Each state leaves its bCommandRunning FALSE and its uid unused, so that one
\* of each stands for those of all states.  QUICKFIND has no counter: every
\* Send sets it anew, and the test for 0 never holds.
Discovery ==
    [state : States, saved : States,
     finished : BOOLEAN, incremental : BOOLEAN, running : BOOLEAN,
     unmute : 0 .. UnmuteCounter, mute : 0 .. MuteCounter,
     discovery : 0 .. DiscoveryCounter,
     single : 0 .. (MuteCounter + QuickFindDiscoveryCounter),
     quick : 0 .. QuickFindDiscoveryCounter,
     entries : 0 .. TableSize,
     target : UIDs \cup {All},      \* m_Mute.uid, m_Discovery.uid, m_QuikFind.uid
     branch : Branch, stack : Seq(Branch),
     response : Answer \cup {Nothing}]

\* Devices that were there all through, or at some time; the table was
\* reset in the middle; what may still get lost or be moved; an ArtRdm came.
Past == [steady : SUBSET Devices, seen : SUBSET Devices, flushed : BOOLEAN,
         losses : 0 .. MaxLosses, moves : 0 .. MaxMoves, quiet : BOOLEAN]

Table == {tod[i] : i \in DOMAIN tod}

-----------------------------------------------------------------------------
(* The line *)

\* The request reaches all devices but those it is lost to, and the answers
\* come back or are lost.  What is in line stays there if it was received
\* before, and is cut off by the request otherwise.
Lost(n) == /\ past.losses >= n
           /\ past' = [past EXCEPT !.losses = @ - n]

Hears(heard) == \/ heard = present /\ UNCHANGED past
                \/ \E d \in present : heard = present \ {d} /\ Lost(1)

Comes(answers) == \E kept \in {line, <<>>} : line' = kept \o answers

\* DISC_UN_MUTE to all, which nobody answers.
SendUnmute == \E heard \in SUBSET present :
                 /\ Hears(heard)
                 /\ muted' = muted \ heard
                 /\ Comes(<<>>)

\* DISC_MUTE to one device, or to all, which then nobody answers.
SendMute(uid) ==
    \E heard \in SUBSET present :
       LET mutes == {d \in heard : uid \in {d, All}}
       IN  /\ muted' = muted \cup mutes
           /\ \/ /\ Hears(heard)
                 /\ Comes(IF uid \in mutes
                          THEN << [kind |-> "mute", uid |-> uid] >> ELSE <<>>)
              \/ heard = present /\ uid \in mutes /\ Lost(1) /\ Comes(<<>>)

\* DISC_UNIQUE_BRANCH.  Of several answers one may be stronger than the rest.
SendBranch(b) ==
    \E heard \in SUBSET present :
       LET answer == {d \in heard \ muted : d \in b.lower .. b.upper}
       IN  /\ UNCHANGED muted
           /\ \/ /\ Hears(heard)
                 /\ \/ answer = {} /\ Comes(<<>>)
                    \/ Cardinality(answer) > 1 /\ Comes(<<Noise>>)
                    \/ \E d \in answer : Comes(<< [kind |-> "branch", uid |-> d] >>)
              \/ heard = present /\ answer # {} /\ Lost(1) /\ Comes(<<>>)

Receives(r) == /\ line # <<>>
               /\ r = Head(line)
               /\ line' = Tail(line)

TimedOut == line = <<>>

-----------------------------------------------------------------------------
(* The table of devices *)

\* CopyUidEntry: beyond the last entry every entry is UID_ALL.
Entry(n) == IF n \in DOMAIN tod THEN tod[n] ELSE All

AddUid(uid) == tod' = IF Len(tod) = TableSize \/ uid \in Table
                      THEN tod ELSE Append(tod, uid)

\* Mutant: a device that does not answer stays in the table.
DeleteNone(uid) == UNCHANGED tod

\* The entries behind the first one of a UID move up.
Delete(uid) ==
    IF uid \notin Table THEN UNCHANGED tod
    ELSE \E n \in DOMAIN tod :
            /\ tod[n] = uid /\ \A i \in 1 .. n - 1 : tod[i] # uid
            /\ tod' = [i \in 1 .. Len(tod) - 1 |->
                          IF i < n THEN tod[i] ELSE tod[i + 1]]

-----------------------------------------------------------------------------
(* RDMDiscovery::Process, one action a case *)

\* NewState.  What the new state does not read is forgotten here: the members
\* keep it, and it is overwritten before it is read again.
Enter(s) ==
    [disc EXCEPT !.state = s, !.running = FALSE, !.target = All,
                 !.response = Nothing,
                 !.branch = IF s \in {"DUB", "QUICKFIND", "QUICKFIND_DISCOVERY"}
                            THEN @ ELSE Whole]

\* With doStateLateResponse, answers are read and dropped first, for as long
\* as LATE_RESPONSE_TIME_OUT: what is still under way comes later.
EnterLate(s) == [Enter(s) EXCEPT !.state = "LATE_RESPONSE", !.saved = s]

In(s) == disc.state = s

Sends(s) == In(s) /\ ~disc.running
Waits(s) == In(s) /\ disc.running

LateResponse == /\ In("LATE_RESPONSE")
                /\ disc' = [disc EXCEPT !.state = disc.saved]
                /\ line' \in {line, <<>>}
                /\ UNCHANGED <<tod, muted, past>>

UnmuteSend == /\ Sends("UNMUTE") /\ disc.unmute > 0
              /\ SendUnmute
              /\ disc' = [disc EXCEPT !.running = TRUE]
              /\ UNCHANGED tod

\* Whatever comes is read and dropped, for longer than an answer takes.
UnmuteTimeout == /\ Waits("UNMUTE")
                 /\ line' = <<>>
                 /\ disc' = [disc EXCEPT !.unmute = @ - 1, !.running = FALSE]
                 /\ UNCHANGED <<tod, muted, past>>

UnmuteDone == /\ In("UNMUTE") /\ disc.unmute = 0
              /\ disc' = [Enter(IF disc.incremental THEN "MUTE" ELSE "DISCOVERY")
                           EXCEPT !.unmute = UnmuteCounter]
              /\ UNCHANGED <<tod, line, muted, past>>

\* The devices known from before are muted, those that are gone deleted.
MuteDone == /\ In("MUTE") /\ disc.entries = 0
            /\ disc' = Enter("DISCOVERY")
            /\ UNCHANGED <<tod, line, muted, past>>

MuteGone == /\ In("MUTE") /\ disc.entries > 0 /\ disc.mute = 0
            /\ Delete(disc.target)
            /\ disc' = [disc EXCEPT !.mute = MuteCounter, !.running = FALSE,
                                    !.entries = @ - 1]
            /\ UNCHANGED <<line, muted, past>>

MuteSend == /\ Sends("MUTE") /\ disc.entries > 0 /\ disc.mute > 0
            /\ SendMute(Entry(disc.entries))
            /\ disc' = [disc EXCEPT !.running = TRUE,
                                    !.target = Entry(disc.entries)]
            /\ UNCHANGED tod

MuteAnswered == /\ Waits("MUTE") /\ disc.mute > 0
                /\ \E r \in Answer : Receives(r)
                /\ disc' = [disc EXCEPT !.entries = @ - 1, !.running = FALSE]
                /\ UNCHANGED <<tod, muted, past>>

MuteTimeout == /\ Waits("MUTE") /\ disc.mute > 0 /\ TimedOut
               /\ SendMute(disc.target)
               /\ disc' = [disc EXCEPT !.mute = @ - 1]
               /\ UNCHANGED tod

Top == disc.stack[Len(disc.stack)]

Popped == [disc EXCEPT !.branch = Top,
                       !.stack = SubSeq(@, 1, Len(@) - 1)]

DiscoverySend == /\ Sends("DISCOVERY") /\ disc.stack # <<>>
                 /\ Top.lower # Top.upper
                 /\ SendBranch(Top)
                 /\ disc' = [Popped EXCEPT !.discovery = DiscoveryCounter,
                                           !.running = TRUE]
                 /\ UNCHANGED tod

DiscoverySingle == /\ Sends("DISCOVERY") /\ disc.stack # <<>>
                   /\ Top.lower = Top.upper
                   /\ disc' = [Popped EXCEPT !.state = "LATE_RESPONSE",
                                             !.saved = "DISCOVERY_SINGLE_DEVICE"]
                   /\ UNCHANGED <<tod, line, muted, past>>

DiscoveryEmpty == /\ Sends("DISCOVERY") /\ disc.stack = <<>>
                  /\ disc' = EnterLate("FINISHED")
                  /\ UNCHANGED <<tod, line, muted, past>>

DiscoveryAnswered == /\ Waits("DISCOVERY")
                     /\ \E r \in Answer :
                           /\ Receives(r)
                           /\ disc' = [Enter("DUB") EXCEPT !.response = r]
                     /\ UNCHANGED <<tod, muted, past>>

\* The answer to the last request is not waited for.
DiscoveryGivesUp == /\ Waits("DISCOVERY") /\ disc.discovery = 0
                    /\ disc' = [Enter("DUB") EXCEPT !.response = Nothing]
                    /\ UNCHANGED <<tod, line, muted, past>>

\* Mutant: the requests are not counted.
DiscoveryTimeoutUncounted ==
    /\ Waits("DISCOVERY") /\ disc.discovery > 0 /\ TimedOut
    /\ SendBranch(disc.branch)
    /\ UNCHANGED <<disc, tod>>

DiscoveryTimeout == /\ Waits("DISCOVERY") /\ disc.discovery > 0 /\ TimedOut
                    /\ SendBranch(disc.branch)
                    /\ disc' = [disc EXCEPT !.discovery = @ - 1]
                    /\ UNCHANGED tod

\* A branch of one UID is not asked: the device is muted at once.
SingleGone == /\ In("DISCOVERY_SINGLE_DEVICE") /\ disc.single = 0
              /\ disc' = [EnterLate("DISCOVERY")
                           EXCEPT !.single = QuickFindDiscoveryCounter]
              /\ UNCHANGED <<tod, line, muted, past>>

SingleSend == /\ Sends("DISCOVERY_SINGLE_DEVICE") /\ disc.single > 0
              /\ SendMute(disc.branch.lower)
              /\ disc' = [disc EXCEPT !.running = TRUE,
                                      !.target = disc.branch.lower]
              /\ UNCHANGED tod

SingleAnswered ==
    /\ Waits("DISCOVERY_SINGLE_DEVICE") /\ disc.single > 0
    /\ Receives([kind |-> "mute", uid |-> disc.target])
    /\ AddUid(disc.target)
    /\ disc' = [Enter("DISCOVERY") EXCEPT !.single = QuickFindDiscoveryCounter]
    /\ UNCHANGED <<muted, past>>

SingleIgnored ==
    /\ Waits("DISCOVERY_SINGLE_DEVICE") /\ disc.single > 0
    /\ \E r \in Answer : /\ r # [kind |-> "mute", uid |-> disc.target]
                         /\ Receives(r)
    /\ UNCHANGED <<disc, tod, muted, past>>

SingleTimeout == /\ Waits("DISCOVERY_SINGLE_DEVICE") /\ disc.single > 0
                 /\ TimedOut
                 /\ SendMute(disc.target)
                 /\ disc' = [disc EXCEPT !.single = @ - 1]
                 /\ UNCHANGED tod

\* The sum is formed without the highest bit, which is added again.
Low(x) == IF x >= Half THEN x - Half ELSE x

\* Mutant: one UID is split off at a time.
MidPositionLowest(b) == b.lower

MidPosition(b) == ((Low(b.lower) + Low(b.upper)) \div 2)
                  + (IF b.upper >= Half THEN Quarter ELSE 0)
                  + (IF b.lower >= Half THEN Quarter ELSE 0)

LowerHalf(b) == [lower |-> b.lower, upper |-> MidPosition(b)]
UpperHalf(b) == [lower |-> MidPosition(b) + 1, upper |-> b.upper]

Push(stack, b) == IF Len(stack) = TableSize THEN stack ELSE Append(stack, b)

DubSilent == /\ In("DUB") /\ disc.response = Nothing
             /\ disc' = Enter("DISCOVERY")
             /\ UNCHANGED <<tod, line, muted, past>>

DubFound == /\ In("DUB") /\ disc.response.kind = "branch"
            /\ disc' = [EnterLate("QUICKFIND") EXCEPT !.target = disc.response.uid]
            /\ UNCHANGED <<tod, line, muted, past>>

DubSplit == /\ In("DUB") /\ disc.response.kind \notin {"none", "branch"}
            /\ disc' = [EnterLate("DISCOVERY")
                         EXCEPT !.stack = Push(Push(@, LowerHalf(disc.branch)),
                                               UpperHalf(disc.branch))]
            /\ UNCHANGED <<tod, line, muted, past>>

\* One device made itself heard: it is muted, and the branch asked again.
QuickFindSend == /\ Sends("QUICKFIND")
                 /\ SendMute(disc.target)
                 /\ disc' = [disc EXCEPT !.running = TRUE]
                 /\ UNCHANGED tod

QuickFindIgnored == /\ Waits("QUICKFIND")
                    /\ \E r \in Answer : r.kind # "mute" /\ Receives(r)
                    /\ UNCHANGED <<disc, tod, muted, past>>

\* Mutant: the branch of a device that was found is not asked again.
QuickFindAnsweredOnce ==
    /\ Waits("QUICKFIND")
    /\ \E r \in Answer : /\ r.kind = "mute"
                         /\ Receives(r)
                         /\ AddUid(r.uid)
    /\ disc' = Enter("DISCOVERY")
    /\ UNCHANGED <<muted, past>>

QuickFindAnswered ==
    /\ Waits("QUICKFIND")
    /\ \E r \in Answer : /\ r.kind = "mute"
                         /\ Receives(r)
                         /\ IF r.uid = disc.target THEN AddUid(r.uid)
                                                   ELSE UNCHANGED tod
    /\ disc' = Enter("QUICKFIND_DISCOVERY")
    /\ UNCHANGED <<muted, past>>

QuickFindTimeout == /\ Waits("QUICKFIND") /\ TimedOut
                    /\ disc' = [disc EXCEPT !.running = FALSE]
                    /\ UNCHANGED <<tod, line, muted, past>>

QuickFindDiscoverySend ==
    /\ Sends("QUICKFIND_DISCOVERY") /\ disc.quick > 0
    /\ SendBranch(disc.branch)
    /\ disc' = [disc EXCEPT !.running = TRUE]
    /\ UNCHANGED tod

QuickFindDiscoveryAnswered ==
    /\ Waits("QUICKFIND_DISCOVERY")
    /\ \E r \in Answer :
          /\ Receives(r)
          /\ disc' = IF r.kind = "branch"
                     THEN [EnterLate("QUICKFIND")
                           EXCEPT !.target = r.uid,
                                  !.quick = QuickFindDiscoveryCounter]
                     ELSE [Enter("DUB")
                           EXCEPT !.response = r,
                                  !.quick = QuickFindDiscoveryCounter]
    /\ UNCHANGED <<tod, muted, past>>

QuickFindDiscoveryTimeout ==
    /\ Waits("QUICKFIND_DISCOVERY") /\ TimedOut
    /\ disc' = [disc EXCEPT !.quick = @ - 1, !.running = FALSE]
    /\ UNCHANGED <<tod, line, muted, past>>

QuickFindDiscoveryDone ==
    /\ In("QUICKFIND_DISCOVERY") /\ disc.quick = 0
    /\ disc' = [EnterLate("DISCOVERY")
                 EXCEPT !.quick = QuickFindDiscoveryCounter]
    /\ UNCHANGED <<tod, line, muted, past>>

Finished == /\ In("FINISHED")
            /\ disc' = [Enter("IDLE") EXCEPT !.finished = TRUE]
            /\ UNCHANGED <<tod, line, muted, past>>

Process ==
    /\ \/ LateResponse
       \/ UnmuteSend \/ UnmuteTimeout \/ UnmuteDone
       \/ MuteDone \/ MuteGone \/ MuteSend \/ MuteAnswered \/ MuteTimeout
       \/ DiscoverySend \/ DiscoverySingle \/ DiscoveryEmpty
       \/ DiscoveryAnswered \/ DiscoveryGivesUp \/ DiscoveryTimeout
       \/ SingleGone \/ SingleSend \/ SingleAnswered \/ SingleIgnored
       \/ SingleTimeout
       \/ DubSilent \/ DubFound \/ DubSplit
       \/ QuickFindSend \/ QuickFindIgnored \/ QuickFindAnswered
       \/ QuickFindTimeout
       \/ QuickFindDiscoverySend \/ QuickFindDiscoveryAnswered
       \/ QuickFindDiscoveryTimeout \/ QuickFindDiscoveryDone
       \/ Finished
    /\ UNCHANGED <<gateway, present>>

-----------------------------------------------------------------------------
(* The node *)

Begun(quiet) == [steady |-> present, seen |-> present, flushed |-> FALSE,
                 losses |-> MaxLosses, moves |-> MaxMoves, quiet |-> quiet]

Quiet == ~gateway /\ line = <<>>

\* Nothing is claimed of a discovery that is over.
Over == [steady |-> {}, seen |-> {}, flushed |-> FALSE,
         losses |-> 0, moves |-> 0, quiet |-> FALSE]

Started(incremental, d) ==
    [d EXCEPT !.state = "UNMUTE", !.incremental = incremental,
              !.finished = FALSE, !.running = FALSE, !.unmute = UnmuteCounter,
              !.mute = MuteCounter, !.stack = <<Whole>>,
              !.discovery = DiscoveryCounter, !.single = MuteCounter,
              !.quick = QuickFindDiscoveryCounter]

\* ATC_FLUSH.  While a discovery is running the table is reset in any case.
Full == /\ tod' = <<>>
        /\ IF In("IDLE")
           THEN disc' = Started(FALSE, disc) /\ past' = Begun(Quiet)
           ELSE /\ past' = [Over EXCEPT !.steady = past.steady, !.flushed = TRUE]
                /\ UNCHANGED disc
        /\ UNCHANGED <<gateway, line, present, muted>>

\* ATC_END.
Stop == /\ ~In("IDLE")
        /\ disc' = IF In("LATE_RESPONSE")
                   THEN [Enter("IDLE") EXCEPT !.finished = FALSE]
                   ELSE [EnterLate("IDLE") EXCEPT !.finished = FALSE]
        /\ past' = Over
        /\ UNCHANGED <<tod, gateway, line, present, muted>>

\* The quarter of an hour between two background discoveries, and what
\* ATC_INCON and ATC_INCOFF say, come to this: when nothing is running and
\* no result waits, a background discovery may start.
Incremental == /\ In("IDLE") /\ ~disc.finished
               /\ disc' = [Started(TRUE, disc) EXCEPT !.entries = Len(tod)]
               /\ past' = Begun(Quiet)
               /\ UNCHANGED <<tod, gateway, line, present, muted>>

\* IsFinished, and SendTod: the table is broadcast to the controllers.
Publish == /\ disc.finished
           /\ disc' = [disc EXCEPT !.finished = FALSE]
           /\ past' = Over
           /\ UNCHANGED <<tod, gateway, line, present, muted>>

\* ArtRdm: a request of the controller goes out at any time.  It cuts off what
\* is under way, and its answer, if there is one, comes back to whoever reads
\* the line first.  An answer that discovery may take for its own is counted
\* as a loss.  (A bound: a controller with a request under way repeats it
\* only when nothing comes back.)
Loses(n, answers) ==
    LET losses == n + Cardinality({i \in DOMAIN answers : answers[i] # Foreign})
    IN  IF In("IDLE") THEN UNCHANGED past
        ELSE /\ past.losses >= losses
             /\ past' = [past EXCEPT !.losses = @ - losses, !.quiet = FALSE]

HandleRdm ==
    /\ gateway => line = <<>>
    /\ \/ line' = line /\ Loses(0, <<>>)
       \/ line' = <<>> /\ Loses(0, line)
       \/ line' = Append(line, Foreign) /\ Loses(1, <<>>)
       \/ line' = <<Foreign>> /\ Loses(1, line)
    /\ gateway' = TRUE
    /\ UNCHANGED <<disc, tod, present, muted>>

HandleRdmIn == /\ gateway
               /\ \E r \in Answer : Receives(r) /\ Loses(0, <<r>>)
               /\ gateway' = FALSE
               /\ UNCHANGED <<disc, tod, present, muted>>

-----------------------------------------------------------------------------
(* The devices *)

\* The bound is on what happens during a discovery.
Moves(p) == IF In("IDLE") THEN past' = p
            ELSE past.moves > 0 /\ past' = [p EXCEPT !.moves = @ - 1]

Plug(d) == /\ d \notin present
           /\ present' = present \cup {d}
           /\ Moves([past EXCEPT !.seen = @ \cup {d}])
           /\ UNCHANGED <<disc, tod, gateway, line, muted>>

Unplug(d) == /\ d \in present
             /\ present' = present \ {d}
             /\ muted' = muted \ {d}
             /\ Moves([past EXCEPT !.steady = @ \ {d}])
             /\ UNCHANGED <<disc, tod, gateway, line>>

-----------------------------------------------------------------------------

\* The main program starts a full discovery before it enters its loop.
Init == /\ present \in SUBSET Devices
        /\ muted \in SUBSET present
        /\ line = <<>>
        /\ tod = <<>>
        /\ gateway = FALSE
        /\ past = Begun(TRUE)
        /\ disc = [state |-> "UNMUTE", saved |-> "IDLE", finished |-> FALSE,
                   incremental |-> FALSE, running |-> FALSE,
                   unmute |-> UnmuteCounter, mute |-> MuteCounter,
                   discovery |-> DiscoveryCounter, single |-> MuteCounter,
                   quick |-> QuickFindDiscoveryCounter, entries |-> 0,
                   target |-> All, branch |-> Whole, stack |-> <<Whole>>,
                   response |-> Nothing]

Next == \/ Process
        \/ Full \/ Stop \/ Incremental \/ Publish
        \/ HandleRdm \/ HandleRdmIn
        \/ \E d \in Devices : Plug(d) \/ Unplug(d)

\* The main loop calls Process again and again.
Spec == Init /\ [][Next]_vars /\ WF_vars(Process)

-----------------------------------------------------------------------------
(* Properties *)

TypeOK ==
    /\ disc \in Discovery
    /\ tod \in Seq(UIDs) /\ Len(tod) <= TableSize
    /\ gateway \in BOOLEAN
    /\ line \in Seq(Answer)
    /\ present \subseteq Devices /\ muted \subseteq present
    /\ past \in Past

\* What Process is doing, or will do when late answers are drained.
Doing == IF In("LATE_RESPONSE") THEN disc.saved ELSE disc.state

Searching == disc.finished \/ Doing # "IDLE"

\* The branches still to be searched, with the one that is being searched.
Left == {disc.stack[i] : i \in DOMAIN disc.stack}
        \cup IF \/ Doing \in {"DISCOVERY_SINGLE_DEVICE", "DUB", "QUICKFIND",
                             "QUICKFIND_DISCOVERY"}
                \/ Waits("DISCOVERY")
             THEN {disc.branch} ELSE {}

MayAnswer(d) == \/ d \notin muted
                \/ Doing = "UNMUTE"
                \/ /\ Doing \in {"DISCOVERY_SINGLE_DEVICE", "QUICKFIND"}
                   /\ d = disc.target

\* An incremental search promises something only when nothing else happens:
\* the counter of MUTE is not set anew when a device answers, so that waiting
\* for a device that is gone uses up the patience with the next one.
Calm == past.quiet /\ past.moves = MaxMoves

Sound == Searching /\ ~past.flushed /\ (disc.incremental => Calm)

\* Until discovery ends, and then in the table that is published: every
\* device that stays on the line is found or will still be, with fewer
\* losses than the smallest counter, whatever else goes over the line.
NoneForgotten ==
    Sound =>
       \A d \in past.steady :
          \/ d \in Table
          \/ MayAnswer(d) /\ \E b \in Left : d \in b.lower .. b.upper

\* The published table holds no device that was not on the line at some time
\* of the discovery: those that left before are gone from it.
NoGhosts == Sound /\ disc.finished => Table \subseteq past.seen

\* A branch that is to be halved finds room for both halves: the stack needs
\* no more entries than a UID has bits.
BranchesFit == In("DUB") => Len(disc.stack) + 2 <= TableSize

\* A discovery ends, unless it chases a device that has left: QUICKFIND sends
\* its mute until somebody answers.
Chasing == In("QUICKFIND") /\ disc.target \notin present

SearchEnds == []<>(Doing = "IDLE" \/ Chasing)
=============================================================================
