-------------------------- MODULE ArtNetNodeProofs --------------------------
(***************************************************************************)
(* Type correctness of the Art-Net node, the two slots of its ports and    *)
(* what the ports show, for any number of ports, controllers and physical  *)
(* inputs and for any timeouts.                                            *)
(***************************************************************************)
EXTENDS ArtNetNode, WellFoundedInduction, TLAPS

-----------------------------------------------------------------------------
(* The light: every method of LightSet makes a light from a light. *)

Light == [Ports -> LightPort]

\* Merging into slot A or B of a buffer keeps the light a light.
LEMMA MergeSourceType ==
    ASSUME NEW lit \in Light, NEW p \in Ports, NEW level \in Levels, NEW mode
    PROVE  /\ MergeSourceA(lit, p, level, mode) \in Light
           /\ MergeSourceB(lit, p, level, mode) \in Light
<1>1. /\ [lit[p] EXCEPT !.a = level, !.filled = TRUE,
                        !.data = IF mode = "HTP" THEN Highest(level, lit[p].b)
                                                 ELSE level] \in LightPort
      /\ [lit[p] EXCEPT !.b = level, !.filled = TRUE,
                        !.data = IF mode = "HTP" THEN Highest(lit[p].a, level)
                                                 ELSE level] \in LightPort
  BY DEF Light, LightPort, Highest
<1> QED
  BY <1>1 DEF MergeSourceA, MergeSourceB, Light

\* Clearing lengths keeps the light a light.
LEMMA ClearLengthType ==
    ASSUME NEW lit \in Light, NEW S
    PROVE  ClearLength(lit, S) \in Light
BY DEF ClearLength, Light, LightPort

\* Handing a buffer to the driver, or zeros, keeps the light a light.
LEMMA OutputType ==
    ASSUME NEW lit \in Light, NEW p \in Ports
    PROVE  Output(lit, p) \in Light /\ OutputClear(lit, p) \in Light
<1>1. Frame(lit, p) \in Levels \cup {NoSlots}
  BY DEF Frame, Light, LightPort
<1>2. 0 \in Levels
  BY MaxLevelAssumption DEF Levels
<1>3. /\ [lit[p] EXCEPT !.sent = Frame(lit, p)] \in LightPort
      /\ [lit[p] EXCEPT !.data = 0, !.filled = TRUE, !.sent = 0] \in LightPort
  BY <1>1, <1>2 DEF Light, LightPort
<1> QED
  BY <1>3 DEF Output, OutputClear, Light

\* Starting and stopping ports keeps the light a light.
LEMMA StartStopType ==
    ASSUME NEW lit \in Light, NEW p \in Ports, NEW S
    PROVE  Start(lit, p) \in Light /\ Stop(lit, S) \in Light
<1>1. [lit[p] EXCEPT !.started = TRUE] \in LightPort
  BY DEF Light, LightPort
<1>2. Start(lit, p) \in Light
  BY <1>1 DEF Start, Light
<1>3. Stop(lit, S) \in Light
  BY DEF Stop, Light, LightPort
<1> QED
  BY <1>2, <1>3

\* A synchronized output of the pending ports keeps the light a light.
LEMMA SyncType ==
    ASSUME NEW lit \in Light, NEW pending
    PROVE  Sync(lit, pending) \in Light
<1>1. \A p \in Ports : Frame(lit, p) \in Levels \cup {NoSlots}
  BY DEF Frame, Light, LightPort
<1> QED
  BY <1>1 DEF Sync, Light, LightPort

\* Blackout and FullOn keep the light a light.
LEMMA AllToType ==
    ASSUME NEW lit \in Light
    PROVE  Blackout(lit) \in Light /\ FullOn(lit) \in Light
<1>1. 0 \in Levels /\ MaxLevel \in Levels
  BY MaxLevelAssumption DEF Levels
<1> QED
  BY <1>1 DEF Blackout, FullOn, AllTo, Light, LightPort

-----------------------------------------------------------------------------
(* The node *)

Nodes == [node : State, out : [Ports -> OutputPort], light : Light,
          scene : [Ports -> Levels]]

\* The fields of a node have the types of the variables.
LEMMA NodeFields ==
    ASSUME NEW this \in Nodes
    PROVE  /\ this.node \in State
           /\ this.out \in [Ports -> OutputPort]
           /\ this.light \in Light
           /\ this.scene \in [Ports -> Levels]
BY DEF Nodes

-----------------------------------------------------------------------------
(* Merging *)

\* Giving up a slot and filling it make sources.
LEMMA SlotType ==
    /\ \A source \in Source : EmptySlot(source) \in Source
    /\ \A packet \in ArtDmx : Filled(packet) \in Source
<1>1. 0 \in 0 .. MergeTimeout + 1
  BY TimeoutAssumption
<1> QED
  BY <1>1 DEF EmptySlot, Filled, Source, ArtDmx

\* Giving up every slot keeps the node a node.
LEMMA EmptySlotsType ==
    ASSUME NEW this \in Nodes
    PROVE  EmptySlots(this) \in Nodes
<1>1. ASSUME NEW p \in Ports
      PROVE  [this.out[p] EXCEPT !.sourceA = EmptySlot(@),
                                 !.sourceB = EmptySlot(@)] \in OutputPort
  <2>1. this.out[p] \in OutputPort
    BY NodeFields
  <2>2. /\ EmptySlot(this.out[p].sourceA) \in Source
        /\ EmptySlot(this.out[p].sourceB) \in Source
    BY <2>1, SlotType DEF OutputPort
  <2> QED
    BY <2>1, <2>2 DEF OutputPort
<1> QED
  BY <1>1 DEF EmptySlots, Nodes

\* Marking a port as merging keeps the node a node.
LEMMA UpdateMergeStatusType ==
    ASSUME NEW this \in Nodes, NEW p \in Ports
    PROVE  UpdateMergeStatus(this, p) \in Nodes
<1>1. [this.node EXCEPT !.IsMergeMode = TRUE] \in State
  BY NodeFields DEF State
<1>2. this.out[p] \in OutputPort
  BY NodeFields
<1>3. [this.out[p] EXCEPT !.IsMerging = TRUE] \in OutputPort
  BY <1>2 DEF OutputPort
<1> QED
  BY <1>1, <1>3 DEF UpdateMergeStatus, Nodes

\* Dropping streams that timed out keeps the node a node.
LEMMA CheckMergeTimeoutsType ==
    ASSUME NEW this \in Nodes, NEW p \in Ports
    PROVE  CheckMergeTimeouts(this, p) \in Nodes
<1> DEFINE expiredA == this.out[p].sourceA.age > MergeTimeout
           expiredB == this.out[p].sourceB.age > MergeTimeout
           outNow == [this.out[p] EXCEPT
                !.sourceA = IF expiredA THEN EmptySlot(@) ELSE @,
                !.sourceB = IF expiredB THEN EmptySlot(@) ELSE @,
                !.IsMerging = @ /\ ~expiredA /\ ~expiredB]
           checked == [this EXCEPT
                !.out[p].sourceA = IF expiredA THEN EmptySlot(@) ELSE @,
                !.out[p].sourceB = IF expiredB THEN EmptySlot(@) ELSE @,
                !.out[p].IsMerging = @ /\ ~expiredA /\ ~expiredB]
           merging == \E q \in Ports : checked.out[q].IsMerging
<1>1. this.out[p] \in OutputPort
  BY NodeFields
<1>2. /\ EmptySlot(this.out[p].sourceA) \in Source
      /\ EmptySlot(this.out[p].sourceB) \in Source
  BY <1>1, SlotType DEF OutputPort
<1>3. outNow \in OutputPort
  BY <1>1, <1>2, ZenonT(60) DEF OutputPort
<1>4. checked = [this EXCEPT !.out[p] = outNow]
  BY ZenonT(60) DEF Nodes
<1>5. checked \in Nodes
  <2> HIDE DEF outNow, checked
  <2> QED
    BY <1>3, <1>4 DEF Nodes
<1> HIDE DEF checked
<1>6. [checked.node EXCEPT !.IsMergeMode = @ /\ merging] \in State
  BY <1>5, NodeFields DEF State
<1>7. [checked EXCEPT !.node.IsMergeMode = @ /\ merging] \in Nodes
  BY <1>5, <1>6 DEF Nodes
<1> QED
  BY <1>7 DEF CheckMergeTimeouts, checked

\* Storing the data of a packet keeps the node a node.
LEMMA MergeType ==
    ASSUME NEW this \in Nodes, NEW p \in Ports, NEW packet \in ArtDmx
    PROVE  Merge(this, p, packet) \in Nodes
<1> DEFINE A == this.out[p].sourceA
           B == this.out[p].sourceB
           toA == GoesToA(A, B, packet)
           toB == GoesToB(A, B, packet)
           isMerge == (toA /\ Occupied(B)) \/ (toB /\ Occupied(A))
           mode == IF isMerge THEN this.out[p].mergeMode ELSE "LTP"
           lit == CASE toA -> MergeSourceA(this.light, p, packet.level, mode)
                    [] toB -> MergeSourceB(this.light, p, packet.level, mode)
                    [] OTHER -> this.light
           outNow == [this.out[p] EXCEPT
                !.sourceA = IF toA THEN Filled(packet) ELSE @,
                !.sourceB = IF toB THEN Filled(packet) ELSE @]
           stored == [this EXCEPT
                !.out[p].sourceA = IF toA THEN Filled(packet) ELSE @,
                !.out[p].sourceB = IF toB THEN Filled(packet) ELSE @,
                !.light = CASE toA -> MergeSourceA(@, p, packet.level, mode)
                            [] toB -> MergeSourceB(@, p, packet.level, mode)
                            [] OTHER -> @]
<1>1. this.out[p] \in OutputPort /\ this.light \in Light
  BY NodeFields
<1>2. packet.level \in Levels
  BY DEF ArtDmx
<1> HIDE DEF isMerge, mode, toA, toB
<1>3. lit \in Light
  BY <1>1, <1>2, MergeSourceType
<1>4. Filled(packet) \in Source
  BY SlotType
<1>5. outNow \in OutputPort
  BY <1>1, <1>4 DEF OutputPort
<1>6. stored = [this EXCEPT !.out[p] = outNow, !.light = lit]
  BY ZenonT(60) DEF Nodes
<1>7. stored \in Nodes
  <2> HIDE DEF stored, lit, outNow
  <2> QED
    BY <1>3, <1>5, <1>6 DEF Nodes
<1> HIDE DEF stored
<1>8. UpdateMergeStatus(stored, p) \in Nodes
  BY <1>7, UpdateMergeStatusType
<1> QED
  BY <1>7, <1>8 DEF Merge, stored, isMerge, mode, toA, toB

\* Lighting a port, or holding its data back, keeps the node a node.
LEMMA UpdateType ==
    ASSUME NEW this \in Nodes, NEW p \in Ports
    PROVE  Update(this, p) \in Nodes
<1> DEFINE lit == IF this.out[p].IsTransmitting
                    THEN Output(this.light, p)
                    ELSE Start(Output(this.light, p), p)
<1>1. this.out[p] \in OutputPort /\ this.light \in Light
  BY NodeFields
<1>2. lit \in Light
  BY <1>1, OutputType, StartStopType
<1>3. /\ [this.out[p] EXCEPT !.IsDataPending = TRUE] \in OutputPort
      /\ [this.out[p] EXCEPT !.IsTransmitting = TRUE] \in OutputPort
  BY <1>1 DEF OutputPort
<1> HIDE DEF lit
<1>4. /\ [this EXCEPT !.out[p].IsDataPending = TRUE] \in Nodes
      /\ [this EXCEPT !.light = lit, !.out[p].IsTransmitting = TRUE] \in Nodes
  BY <1>2, <1>3 DEF Nodes
<1> QED
  BY <1>4 DEF Update, lit, Nodes

\* HandleDmx keeps the node a node, for each port it serves.
LEMMA HandleDmxType ==
    ASSUME NEW this \in Nodes, NEW p \in Ports, NEW packet \in ArtDmx
    PROVE  HandleDmx(this, p, packet) \in Nodes
<1>1. Checked(this, p) \in Nodes
  BY CheckMergeTimeoutsType DEF Checked
<1>2. Merge(Checked(this, p), p, packet) \in Nodes
  BY <1>1, MergeType
<1>3. Update(Merge(Checked(this, p), p, packet), p) \in Nodes
  BY <1>2, UpdateType
<1> QED
  BY <1>1, <1>3 DEF HandleDmx

-----------------------------------------------------------------------------
(* Network data loss and the commands *)

\* Playing the scene keeps the node a node.
LEMMA FailSafePlaybackType ==
    ASSUME NEW this \in Nodes
    PROVE  FailSafePlayback(this) \in Nodes
<1> DEFINE restored == [p \in Ports |->
                [this.light[p] EXCEPT !.data = IF p \in Outputs(this)
                                                 THEN this.scene[p] ELSE @]]
           played == [p \in Ports |->
                IF p \in Outputs(this)
                  THEN [restored[p] EXCEPT
                          !.sent = Frame(restored, p),
                          !.started = @ \/ ~this.out[p].IsTransmitting]
                  ELSE restored[p]]
           outNow == [p \in Ports |->
                [this.out[p] EXCEPT
                    !.IsTransmitting = @ \/ p \in Outputs(this)]]
<1>1. restored \in Light
  <2> SUFFICES ASSUME NEW p \in Ports
               PROVE  restored[p] \in LightPort
    BY DEF Light
  <2>1. this.light[p] \in LightPort /\ this.scene[p] \in Levels
    BY NodeFields DEF Light
  <2> QED
    BY <2>1 DEF LightPort
<1> HIDE DEF restored
<1>2. \A p \in Ports : Frame(restored, p) \in Levels \cup {NoSlots}
  BY <1>1 DEF Frame, Light, LightPort
<1>3. played \in Light
  BY <1>1, <1>2 DEF Light, LightPort
<1>4. outNow \in [Ports -> OutputPort]
  <2> SUFFICES ASSUME NEW p \in Ports
               PROVE  outNow[p] \in OutputPort
    OBVIOUS
  <2>1. this.out[p] \in OutputPort
    BY NodeFields
  <2> QED
    BY <2>1 DEF OutputPort
<1> HIDE DEF played, outNow
<1>5. ClearLength(played, Outputs(this)) \in Light
  BY <1>3, ClearLengthType
<1>6. [this EXCEPT !.light = ClearLength(played, Outputs(this)),
                   !.out = outNow] \in Nodes
  BY <1>4, <1>5 DEF Nodes
<1> QED
  BY <1>6 DEF FailSafePlayback, played, restored, outNow

\* Whatever the failsafe does, the node stays a node.
LEMMA FailSafeType ==
    ASSUME NEW this \in Nodes
    PROVE  FailSafe(this) \in Nodes
<1>1. Blackout(this.light) \in Light /\ FullOn(this.light) \in Light
  BY AllToType, NodeFields
<1>2. /\ [this EXCEPT !.light = Blackout(@)] \in Nodes
      /\ [this EXCEPT !.light = FullOn(@)] \in Nodes
  BY <1>1 DEF Nodes
<1> QED
  BY <1>2, FailSafePlaybackType DEF FailSafe

\* Entering network data loss keeps the node a node.
LEMMA DataLossType ==
    ASSUME NEW this \in Nodes
    PROVE  SetNetworkDataLossCondition(this) \in Nodes
<1> DEFINE reset == [this EXCEPT !.node.IsMergeMode = FALSE,
                                 !.node.IsSynchronousMode = FALSE]
           emptied == EmptySlots(FailSafe(reset))
<1>1. [this.node EXCEPT !.IsMergeMode = FALSE,
                        !.IsSynchronousMode = FALSE] \in State
  BY NodeFields DEF State
<1>2. reset \in Nodes
  BY <1>1 DEF Nodes
<1> HIDE DEF reset
<1>3. emptied \in Nodes
  BY <1>2, FailSafeType, EmptySlotsType
<1>4. ClearLength(emptied.light, Ports) \in Light
  BY <1>3, ClearLengthType, NodeFields
<1> HIDE DEF emptied
<1>5. [emptied EXCEPT !.light = ClearLength(@, Ports)] \in Nodes
  BY <1>3, <1>4 DEF Nodes
<1> QED
  BY <1>2, <1>5 DEF SetNetworkDataLossCondition, emptied, reset

\* An ArtSync keeps the node a node.
LEMMA HandleSyncType ==
    ASSUME NEW this \in Nodes
    PROVE  HandleSync(this) \in Nodes
<1> DEFINE pending == {p \in Ports : this.out[p].IsDataPending}
           outNow == [p \in Ports |->
                [this.out[p] EXCEPT
                    !.IsDataPending = FALSE,
                    !.IsTransmitting = @ \/ p \in pending]]
<1>1. 0 \in 0 .. SyncTimeout
  BY TimeoutAssumption
<1>2. /\ [this.node EXCEPT !.IsSynchronousMode = TRUE, !.syncAge = 0] \in State
      /\ [this.node EXCEPT !.syncAge = 0] \in State
  BY <1>1, NodeFields DEF State
<1>3. Sync(this.light, pending) \in Light
  BY SyncType, NodeFields
<1>4. outNow \in [Ports -> OutputPort]
  <2> SUFFICES ASSUME NEW p \in Ports
               PROVE  outNow[p] \in OutputPort
    OBVIOUS
  <2>1. this.out[p] \in OutputPort
    BY NodeFields
  <2> QED
    BY <2>1 DEF OutputPort
<1>5. [this EXCEPT !.node.IsSynchronousMode = TRUE,
                   !.node.syncAge = 0] \in Nodes
  BY <1>2 DEF Nodes
<1> HIDE DEF pending, outNow
<1>6. [this EXCEPT !.node.syncAge = 0, !.light = Sync(@, pending),
                   !.out = outNow] \in Nodes
  BY <1>2, <1>3, <1>4 DEF Nodes
<1> QED
  BY <1>5, <1>6 DEF HandleSync, pending, outNow

\* Recording the scene keeps the node a node.
LEMMA FailSafeRecordType ==
    ASSUME NEW this \in Nodes
    PROVE  FailSafeRecord(this) \in Nodes
<1>1. MaxLevel \in Levels
  BY MaxLevelAssumption DEF Levels
<1>2. \A p \in Ports : this.light[p].data \in Levels
  BY NodeFields DEF Light, LightPort
<1> QED
  BY <1>1, <1>2 DEF FailSafeRecord, Nodes

\* Cancelling the merge keeps the node a node.
LEMMA CancelMergeType ==
    ASSUME NEW this \in Nodes
    PROVE  CancelMerge(this) \in Nodes
<1> DEFINE emptied == EmptySlots(this)
           outNow == [p \in Ports |->
                        [emptied.out[p] EXCEPT !.IsMerging = FALSE]]
<1>1. emptied \in Nodes
  BY EmptySlotsType
<1> HIDE DEF emptied
<1>2. [emptied.node EXCEPT !.IsMergeMode = FALSE] \in State
  BY <1>1, NodeFields DEF State
<1>3. outNow \in [Ports -> OutputPort]
  <2> SUFFICES ASSUME NEW p \in Ports
               PROVE  outNow[p] \in OutputPort
    OBVIOUS
  <2>1. emptied.out[p] \in OutputPort
    BY <1>1, NodeFields
  <2> QED
    BY <2>1 DEF OutputPort
<1> HIDE DEF outNow
<1>4. [emptied EXCEPT !.node.IsMergeMode = FALSE, !.out = outNow] \in Nodes
  BY <1>1, <1>2, <1>3 DEF Nodes
<1>5. CancelMerge(this)
        = [emptied EXCEPT !.node.IsMergeMode = FALSE, !.out = outNow]
  BY <1>1 DEF CancelMerge, emptied, outNow, Nodes
<1> QED
  BY <1>4, <1>5

\* A command of ArtAddress keeps the node a node.
LEMMA CommandType ==
    ASSUME NEW this \in Nodes, NEW p \in Ports, NEW command \in Commands
    PROVE  Command(this, p, command) \in Nodes
<1>1. this.out[p] \in OutputPort
  BY NodeFields
<1>2. CancelMerge(this) \in Nodes
  BY CancelMergeType
<1>3. FailSafeRecord(this) \in Nodes
  BY FailSafeRecordType
<1>4. ASSUME command \in FailSafes
      PROVE  [this EXCEPT !.node.failsafe = command] \in Nodes
  <2>1. [this.node EXCEPT !.failsafe = command] \in State
    BY <1>4, NodeFields DEF State
  <2> QED
    BY <2>1 DEF Nodes
<1>5. ASSUME command \in MergeModes
      PROVE  [this EXCEPT !.out[p].mergeMode = command] \in Nodes
  <2>1. [this.out[p] EXCEPT !.mergeMode = command] \in OutputPort
    BY <1>1, <1>5 DEF OutputPort
  <2> QED
    BY <2>1 DEF Nodes
<1>6. ASSUME command \in Protocols
      PROVE  [this EXCEPT !.out[p].protocol = command] \in Nodes
  <2>1. [this.out[p] EXCEPT !.protocol = command] \in OutputPort
    BY <1>1, <1>6 DEF OutputPort
  <2> QED
    BY <2>1 DEF Nodes
<1>7. [this EXCEPT !.light = OutputClear(@, p)] \in Nodes
  <2>1. OutputClear(this.light, p) \in Light
    BY OutputType, NodeFields
  <2> QED
    BY <2>1 DEF Nodes
<1>8. [this EXCEPT !.node.IsSynchronousMode = FALSE] \in Nodes
  <2>1. [this.node EXCEPT !.IsSynchronousMode = FALSE] \in State
    BY NodeFields, ZenonT(60) DEF State
  <2> QED
    BY <2>1 DEF Nodes
<1> QED
  BY <1>2, <1>3, <1>4, <1>5, <1>6, <1>7, <1>8 DEF Command

\* A reply to ArtPoll keeps the node a node.
LEMMA SendPollReplyType ==
    ASSUME NEW this \in Nodes, NEW S, NEW merging
    PROVE  SendPollReply(this, S, merging) \in Nodes
<1>1. ASSUME NEW p \in Ports, NEW bit \in BOOLEAN
      PROVE  [this.out[p] EXCEPT !.IsMerging = bit] \in OutputPort
  <2>1. this.out[p] \in OutputPort
    BY NodeFields
  <2> QED
    BY <2>1 DEF OutputPort
<1>2. ASSUME NEW p \in Ports
      PROVE  [this.out[p] EXCEPT !.IsMerging = p \in merging] \in OutputPort
  <2> DEFINE bit == p \in merging
  <2>1. bit \in BOOLEAN
    OBVIOUS
  <2> HIDE DEF bit
  <2>2. [this.out[p] EXCEPT !.IsMerging = bit] \in OutputPort
    BY <1>1, <2>1
  <2> QED
    BY <2>2 DEF bit
<1>3. \A p \in Ports : this.out[p] \in OutputPort
  BY NodeFields
<1> DEFINE outNow == [p \in Ports |->
        IF p \in S \cap Outputs(this) /\ this.out[p].protocol = "SACN"
          THEN [this.out[p] EXCEPT !.IsMerging = p \in merging]
          ELSE this.out[p]]
<1>4. outNow \in [Ports -> OutputPort]
  BY <1>2, <1>3
<1> HIDE DEF outNow
<1>5. [this EXCEPT !.out = outNow] \in Nodes
  BY <1>4 DEF Nodes
<1> QED
  BY <1>5 DEF SendPollReply, outNow

\* ArtAddress keeps the node a node.
LEMMA HandleAddressType ==
    ASSUME NEW this \in Nodes, NEW p \in Ports,
           NEW address \in PortAddresses \cup {0}, NEW command \in Commands, NEW merging
    PROVE  HandleAddress(this, p, address, command, merging) \in Nodes
<1>1. this.out[p] \in OutputPort
  BY NodeFields
<1>2. [this.out[p] EXCEPT !.address = address] \in OutputPort
  BY <1>1 DEF OutputPort
<1>3. SetPortAddress(this, p, address) \in Nodes
  BY <1>2 DEF SetPortAddress, Nodes
<1> QED
  BY <1>3, CommandType, SendPollReplyType DEF HandleAddress

\* What Process does before and after the packet keeps the node a node.
LEMMA ArrivedType ==
    ASSUME NEW this \in Nodes
    PROVE  /\ Arrived(this) \in Nodes
           /\ \A packet \in ArtDmx : From(this, packet) \in Nodes
<1>1. 0 \in 0 .. LossTimeout
  BY TimeoutAssumption
<1>2. [this.node EXCEPT !.packetAge = 0,
                        !.IsSynchronousMode =
                            @ /\ this.node.syncAge < SyncTimeout] \in State
  BY <1>1, NodeFields DEF State
<1>3. Arrived(this) \in Nodes
  BY <1>2 DEF Arrived, Nodes
<1>4. ASSUME NEW packet \in ArtDmx
      PROVE  [this.node EXCEPT !.dmxFrom = packet.from] \in State
  BY NodeFields DEF State, ArtDmx
<1>5. \A packet \in ArtDmx : From(this, packet) \in Nodes
  BY <1>4 DEF From, Nodes
<1> QED
  BY <1>3, <1>5

-----------------------------------------------------------------------------
(* The steps *)

\* The variables make up a node.
LEMMA ThisNodeType ==
    TypeOK <=> /\ ThisNode \in Nodes
               /\ main \in {"boot", "loop", "halt"}
               /\ rest \subseteq Ports
               /\ frame \in ArtDmx \/ (frame = NoPacket /\ rest = {})
BY DEF TypeOK, ThisNode, Nodes, Light

\* A step to a node gives the variables their types.
LEMMA BecomeType ==
    ASSUME NEW this \in Nodes, Become(this)
    PROVE  /\ node' \in State
           /\ out' \in [Ports -> OutputPort]
           /\ light' \in [Ports -> LightPort]
           /\ scene' \in [Ports -> Levels]
BY NodeFields DEF Become, Light

\* A step to a node that touches nothing else keeps the types.
LEMMA BecomeKeepsType ==
    ASSUME TypeOK, NEW this \in Nodes, Become(this), UNCHANGED <<main, frame, rest>>
    PROVE  TypeOK'
BY BecomeType DEF TypeOK

\* Every set of ports has a least one: the loop of HandleDmx serves it first.
LEMMA LeastPort ==
    ASSUME NEW S, S \subseteq Ports, S # {}
    PROVE  \E p \in S : \A q \in S : p <= q
<1> DEFINE R == {ss \in Nat \X Nat : ss[1] < ss[2]}
<1>1. S \subseteq Nat
  BY PortsAssumption
<1>2. IsWellFoundedOn(R, Nat)
  BY NatLessThanWellFounded DEF OpToRel
<1> HIDE DEF R
<1>3. PICK p \in S : \A q \in S : ~ (<<q, p>> \in R)
  BY <1>1, <1>2, WFMin
<1>4. \A q \in S : p <= q
  <2> TAKE q \in S
  <2>1. p \in Nat /\ q \in Nat
    BY <1>1
  <2>2. q < p => <<q, p>> \in R
    BY <2>1 DEF R
  <2> QED
    BY <1>3, <2>1, <2>2
<1> QED
  BY <1>4

\* Serving a port of the loop of HandleDmx keeps the types.
LEMMA ServePortType ==
    ASSUME NEW this \in Nodes, NEW packet \in ArtDmx,
           NEW todo, todo \subseteq Ports, todo # {},
           TypeOK, ServePort(this, packet, todo)
    PROVE  TypeOK'
<1>1. First(todo) \in Ports
  BY LeastPort DEF First
<1> DEFINE served == HandleDmx(this, First(todo), packet)
<1>2. served \in Nodes
  BY <1>1, HandleDmxType
<1>3. From(served, packet) \in Nodes
  BY <1>2, ArrivedType
<1>4. Become(From(served, packet)) \/ Become(served)
  BY DEF ServePort
<1> HIDE DEF served
<1>5. /\ node' \in State
      /\ out' \in [Ports -> OutputPort]
      /\ light' \in [Ports -> LightPort]
      /\ scene' \in [Ports -> Levels]
  BY <1>2, <1>3, <1>4, BecomeType
<1>6. rest' \subseteq todo /\ main' = main
  BY DEF ServePort
<1>7. frame' = IF rest' = {} THEN NoPacket ELSE packet
  BY DEF ServePort
<1> QED
  BY <1>5, <1>6, <1>7 DEF TypeOK

\* The values at boot have the types of the variables.
LEMMA BootType ==
    /\ StateAtBoot \in State
    /\ PortAtBoot \in OutputPort
    /\ LightAtBoot \in [Ports -> LightPort]
    /\ MaxLevel \in Levels
<1>1. 0 \in 0 .. LossTimeout /\ 0 \in 0 .. SyncTimeout /\ 0 \in 0 .. MergeTimeout + 1
  BY TimeoutAssumption
<1>2. PortAtBoot \in OutputPort
  BY <1>1 DEF PortAtBoot, OutputPort, NoSource, Source
<1>3. StateAtBoot \in State
  BY <1>1 DEF StateAtBoot, State
<1>4. LightAtBoot \in [Ports -> LightPort] /\ MaxLevel \in Levels
  BY MaxLevelAssumption DEF LightAtBoot, LightPort, Levels, NoSlots
<1> QED
  BY <1>2, <1>3, <1>4

\* The clock keeps the types.
LEMMA TickType == TypeOK /\ Tick => TypeOK'
<1> SUFFICES ASSUME TypeOK, Tick
             PROVE  TypeOK'
  OBVIOUS
<1>1. \A most \in Nat : \A age \in 0 .. most : Older(age, most) \in 0 .. most
  BY DEF Older
<1>2. MergeTimeout + 1 \in Nat
  BY TimeoutAssumption
<1>3. /\ Older(node.packetAge, LossTimeout) \in 0 .. LossTimeout
      /\ Older(node.syncAge, SyncTimeout) \in 0 .. SyncTimeout
  BY <1>1, TimeoutAssumption DEF TypeOK, State
<1>4. node' \in State
  BY <1>3 DEF Tick, TypeOK, State
<1>5. ASSUME NEW p \in Ports
      PROVE  [out[p] EXCEPT
                 !.sourceA.age = Older(@, MergeTimeout + 1),
                 !.sourceB.age = Older(@, MergeTimeout + 1)] \in OutputPort
  <2>1. out[p] \in OutputPort
    BY DEF TypeOK
  <2>2. /\ Older(out[p].sourceA.age, MergeTimeout + 1) \in 0 .. MergeTimeout + 1
        /\ Older(out[p].sourceB.age, MergeTimeout + 1) \in 0 .. MergeTimeout + 1
    BY <1>1, <1>2, <2>1 DEF OutputPort, Source
  <2>3. /\ [out[p].sourceA EXCEPT !.age = Older(@, MergeTimeout + 1)] \in Source
        /\ [out[p].sourceB EXCEPT !.age = Older(@, MergeTimeout + 1)] \in Source
    BY <2>1, <2>2 DEF OutputPort, Source
  <2> QED
    BY <2>1, <2>3 DEF OutputPort
<1>6. out' \in [Ports -> OutputPort]
  BY <1>5 DEF Tick
<1> QED
  BY <1>4, <1>6 DEF Tick, TypeOK

\* Configuration at boot keeps the types.
LEMMA ConfigurationType ==
    ASSUME TypeOK, NEW p \in Ports, NEW direction \in {"OUTPUT", "DISABLE"},
           NEW address \in PortAddresses \cup {0},
           NEW mergeMode \in MergeModes \cup {"HTP"},
           NEW protocol \in Protocols \cup {"ARTNET"},
           SetPort(p, direction, address, mergeMode, protocol)
    PROVE  TypeOK'
<1>1. out[p] \in OutputPort
  BY DEF TypeOK
<1> DEFINE outNow == [out[p] EXCEPT
                        !.direction = direction,
                        !.address = IF direction = "OUTPUT" THEN address ELSE @,
                        !.mergeMode = mergeMode, !.protocol = protocol]
<1>2. outNow \in OutputPort
  BY <1>1 DEF OutputPort
<1>3. out' = [out EXCEPT ![p] = outNow]
  BY DEF SetPort, TypeOK
<1> HIDE DEF outNow
<1>4. out' \in [Ports -> OutputPort]
  BY <1>2, <1>3 DEF TypeOK
<1> QED
  BY <1>4 DEF SetPort, TypeOK

\* Start, Stop and a reboot keep the types.
LEMMA LifeType ==
    ASSUME TypeOK, StartNode \/ StopNode \/ Reboot
    PROVE  TypeOK'
<1>1. CASE StartNode
  BY <1>1 DEF StartNode, TypeOK, State
<1>2. CASE StopNode
  <2>1. Blackout(light) \in Light
    BY AllToType DEF TypeOK, Light
  <2>2. Stop(Blackout(light), Ports) \in Light
    BY <2>1 DEF Stop, Light, LightPort
  <2>3. light' \in Light
    BY <1>2, <2>2, ClearLengthType DEF StopNode
  <2>4. ASSUME NEW p \in Ports
        PROVE  [out[p] EXCEPT !.IsTransmitting =
                    @ /\ out[p].protocol # "ARTNET"] \in OutputPort
    <3>1. out[p] \in OutputPort
      BY DEF TypeOK
    <3> QED
      BY <3>1 DEF OutputPort
  <2>5. out' \in [Ports -> OutputPort]
    BY <1>2, <2>4 DEF StopNode
  <2> QED
    BY <1>2, <2>3, <2>5 DEF StopNode, TypeOK, Light
<1>3. CASE Reboot
  BY <1>3, BootType DEF Reboot, TypeOK
<1> QED
  BY <1>1, <1>2, <1>3

\* Commands and replies keep the types, also a command that repeats the
\* address of a port.
LEMMA ReceiveAddressType ==
    ASSUME TypeOK, NEW p \in Ports, NEW address \in PortAddresses \cup {0},
           NEW command \in Commands, NEW merging,
           ReceiveAddress(p, address, command, merging)
    PROVE  TypeOK'
<1>1. Arrived(ThisNode) \in Nodes
  BY ThisNodeType, ArrivedType
<1>2. HandleAddress(Arrived(ThisNode), p, address, command, merging) \in Nodes
  BY <1>1, HandleAddressType
<1> QED
  BY <1>2, BecomeKeepsType DEF ReceiveAddress

LEMMA PollReplyType ==
    ASSUME TypeOK, NEW merging, PollReply(merging)
    PROVE  TypeOK'
BY ThisNodeType, SendPollReplyType, BecomeKeepsType DEF PollReply

\* Every step keeps the types.
LEMMA NextType == TypeOK /\ [Next]_vars => TypeOK'
<1> SUFFICES ASSUME TypeOK, [Next]_vars
             PROVE  TypeOK'
  OBVIOUS
<1>1. ThisNode \in Nodes /\ Arrived(ThisNode) \in Nodes
  BY ThisNodeType, ArrivedType
<1>2. ASSUME NEW packet \in ArtDmx, ReceiveDmx(packet)
      PROVE  TypeOK'
  <2>1. Subscribed(packet.address) \subseteq Ports
    BY DEF Subscribed
  <2> QED
    BY <1>1, <1>2, <2>1, ServePortType DEF ReceiveDmx
<1>3. ASSUME NEW packet \in ArtDmx, ReceiveDmxElsewhere(packet)
      PROVE  TypeOK'
  <2>1. From(Arrived(ThisNode), packet) \in Nodes
    BY <1>1, ArrivedType
  <2> QED
    BY <1>3, <2>1, BecomeKeepsType DEF ReceiveDmxElsewhere
<1>4. CASE NextPort
  <2>1. frame \in ArtDmx /\ rest \subseteq Ports /\ rest # {}
    BY <1>4 DEF NextPort, TypeOK
  <2> QED
    BY <1>1, <1>4, <2>1, ServePortType DEF NextPort
<1>5. ASSUME NEW from \in Controllers, ReceiveSync(from)
      PROVE  TypeOK'
  BY <1>1, <1>5, HandleSyncType, BecomeKeepsType DEF ReceiveSync
<1>6. ASSUME NEW p \in Ports, NEW address \in PortAddresses,
             NEW command \in Commands, NEW merging,
             ReceiveAddress(p, address, command, merging)
      PROVE  TypeOK'
  BY <1>6, ReceiveAddressType
<1>7. CASE ReceiveOther
  BY <1>1, <1>7, BecomeKeepsType DEF ReceiveOther
<1>8. ASSUME NEW merging, PollReply(merging)
      PROVE  TypeOK'
  BY <1>8, PollReplyType
<1>9. CASE RunIdle
  BY <1>1, <1>9, DataLossType, BecomeKeepsType DEF RunIdle
<1>10. CASE Tick
  BY <1>10, TickType
<1>11. ASSUME NEW p \in Ports, NEW direction \in {"OUTPUT", "DISABLE"},
              NEW address \in PortAddresses, NEW mergeMode \in MergeModes,
              NEW protocol \in Protocols,
              SetPort(p, direction, address, mergeMode, protocol)
       PROVE  TypeOK'
  BY <1>11, ConfigurationType
<1>12. ASSUME NEW failsafe \in FailSafes, SetFailSafe(failsafe)
       PROVE  TypeOK'
  BY <1>12 DEF SetFailSafe, TypeOK, State
<1>13. CASE StartNode \/ StopNode \/ Reboot
  BY <1>13, LifeType
<1>14. CASE UNCHANGED vars
  BY <1>14 DEF vars, TypeOK
<1> QED
  BY <1>2, <1>3, <1>4, <1>5, <1>6, <1>7, <1>8, <1>9, <1>10, <1>11, <1>12,
     <1>13, <1>14 DEF Next

\* Every variable of the node keeps its type, whatever packets arrive and
\* however ports are switched between the protocols.
THEOREM NodeTypeCorrect == Spec => []TypeOK
<1>1. Init => TypeOK
  BY BootType DEF Init, TypeOK
<1>2. TypeOK /\ [Next]_vars => TypeOK'
  BY NextType
<1> QED
  BY <1>1, <1>2, PTL DEF Spec

-----------------------------------------------------------------------------
(* The two slots of a port *)

\* The slots of a port, as SlotsDiffer wants them.
Differ(A, B) == ~(Occupied(A) /\ A.ip = B.ip /\ A.physical = B.physical)

AllDiffer(this) ==
    \A p \in Ports : Differ(this.out[p].sourceA, this.out[p].sourceB)

\* A slot that a step does not fill keeps its stream or is given up.
Kept(source, next) == /\ next.ip \in {source.ip, NoController}
                      /\ next.physical = source.physical

NoneFilled(this, next) ==
    \A p \in Ports : /\ Kept(this.out[p].sourceA, next.out[p].sourceA)
                     /\ Kept(this.out[p].sourceB, next.out[p].sourceB)

\* Slots that no step fills go on to differ.
LEMMA NoneFilledDiffer ==
    ASSUME NEW this, NEW next, AllDiffer(this), NoneFilled(this, next)
    PROVE  AllDiffer(next)
BY DEF AllDiffer, NoneFilled, Differ, Kept, Occupied

\* Two steps that fill no slot make one.
LEMMA NoneFilledTwice ==
    ASSUME NEW first, NEW second, NEW third,
           NoneFilled(first, second), NoneFilled(second, third)
    PROVE  NoneFilled(first, third)
BY DEF NoneFilled, Kept

\* A step that leaves the slots alone fills none.
LEMMA SameSlots ==
    ASSUME NEW this, NEW next,
           \A p \in Ports : /\ next.out[p].sourceA = this.out[p].sourceA
                            /\ next.out[p].sourceB = this.out[p].sourceB
    PROVE  NoneFilled(this, next)
BY DEF NoneFilled, Kept

\* Giving up every slot fills none.
LEMMA EmptySlotsKeeps ==
    ASSUME NEW this \in Nodes
    PROVE  NoneFilled(this, EmptySlots(this))
<1>1. ASSUME NEW p \in Ports
      PROVE  /\ Kept(this.out[p].sourceA, EmptySlot(this.out[p].sourceA))
             /\ Kept(this.out[p].sourceB, EmptySlot(this.out[p].sourceB))
  <2>1. this.out[p].sourceA \in Source /\ this.out[p].sourceB \in Source
    BY NodeFields DEF OutputPort
  <2> QED
    BY <2>1 DEF Kept, EmptySlot, Source
<1>2. ASSUME NEW p \in Ports
      PROVE  /\ EmptySlots(this).out[p].sourceA = EmptySlot(this.out[p].sourceA)
             /\ EmptySlots(this).out[p].sourceB = EmptySlot(this.out[p].sourceB)
  <2>1. this.out[p] \in OutputPort
    BY NodeFields
  <2> QED
    BY <2>1 DEF EmptySlots, Nodes, OutputPort
<1> QED
  BY <1>1, <1>2 DEF NoneFilled

\* Merge timeouts fill no slot.
LEMMA CheckedKeeps ==
    ASSUME NEW this \in Nodes, NEW p \in Ports
    PROVE  NoneFilled(this, Checked(this, p))
<1> DEFINE next == CheckMergeTimeouts(this, p)
<1>1. this.out[p].sourceA \in Source /\ this.out[p].sourceB \in Source
  BY NodeFields DEF OutputPort
<1>2. /\ Kept(this.out[p].sourceA, EmptySlot(this.out[p].sourceA))
      /\ Kept(this.out[p].sourceB, EmptySlot(this.out[p].sourceB))
  BY <1>1 DEF Kept, EmptySlot, Source
<1>3. this.out[p] \in OutputPort
  BY NodeFields
<1>4. /\ next.out[p].sourceA \in
             {this.out[p].sourceA, EmptySlot(this.out[p].sourceA)}
      /\ next.out[p].sourceB \in
             {this.out[p].sourceB, EmptySlot(this.out[p].sourceB)}
      /\ \A q \in Ports \ {p} : next.out[q] = this.out[q]
  <2> DEFINE expiredA == this.out[p].sourceA.age > MergeTimeout
             expiredB == this.out[p].sourceB.age > MergeTimeout
             outNow == [this.out[p] EXCEPT
                  !.sourceA = IF expiredA THEN EmptySlot(@) ELSE @,
                  !.sourceB = IF expiredB THEN EmptySlot(@) ELSE @,
                  !.IsMerging = @ /\ ~expiredA /\ ~expiredB]
  <2>1. next.out = [this.out EXCEPT ![p] = outNow]
    BY DEF CheckMergeTimeouts, Nodes
  <2>2. /\ outNow.sourceA = IF expiredA THEN EmptySlot(this.out[p].sourceA)
                                       ELSE this.out[p].sourceA
        /\ outNow.sourceB = IF expiredB THEN EmptySlot(this.out[p].sourceB)
                                       ELSE this.out[p].sourceB
    BY <1>3 DEF OutputPort
  <2>3. this.out \in [Ports -> OutputPort]
    BY NodeFields
  <2> HIDE DEF outNow, expiredA, expiredB, next
  <2> QED
    BY <2>1, <2>2, <2>3
<1> HIDE DEF next
<1>5. NoneFilled(this, next)
  BY <1>2, <1>4 DEF NoneFilled, Kept
<1>6. NoneFilled(this, this)
  BY SameSlots
<1> QED
  BY <1>5, <1>6 DEF Checked, next

\* Lighting a port fills no slot.
LEMMA UpdateKeeps ==
    ASSUME NEW this \in Nodes, NEW p \in Ports
    PROVE  NoneFilled(this, Update(this, p))
<1>1. this.out \in [Ports -> OutputPort]
  BY NodeFields
<1>2. ASSUME NEW q \in Ports
      PROVE  /\ Update(this, p).out[q].sourceA = this.out[q].sourceA
             /\ Update(this, p).out[q].sourceB = this.out[q].sourceB
  BY <1>1 DEF Update, Nodes, OutputPort
<1> QED
  BY <1>2, SameSlots

\* A packet fills a slot only if the other one does not hold its stream.
LEMMA MergeDiffers ==
    ASSUME NEW this \in Nodes, NEW p \in Ports, NEW packet \in ArtDmx,
           AllDiffer(this)
    PROVE  AllDiffer(Merge(this, p, packet))
<1> DEFINE A == this.out[p].sourceA
           B == this.out[p].sourceB
           toA == GoesToA(A, B, packet)
           toB == GoesToB(A, B, packet)
           next == Merge(this, p, packet)
<1>1. this.out[p] \in OutputPort
  BY NodeFields
<1>2. /\ next.out[p].sourceA = IF toA THEN Filled(packet) ELSE A
      /\ next.out[p].sourceB = IF toB THEN Filled(packet) ELSE B
      /\ \A q \in Ports \ {p} : /\ next.out[q].sourceA = this.out[q].sourceA
                                /\ next.out[q].sourceB = this.out[q].sourceB
  <2> HIDE DEF toA, toB
  <2> QED
    BY <1>1, ZenonT(60) DEF Merge, UpdateMergeStatus, Nodes, OutputPort, toA, toB
<1>3. Differ(A, B)
  BY DEF AllDiffer
<1>4. /\ Filled(packet).ip = packet.from
      /\ Filled(packet).physical = packet.physical
      /\ packet.from # NoController
  BY ControllerAssumption DEF Filled, ArtDmx
<1> HIDE DEF next
<1>5. Differ(next.out[p].sourceA, next.out[p].sourceB)
  BY <1>2, <1>3, <1>4 DEF Differ, GoesToA, GoesToB, Matches, Occupied
<1>6. AllDiffer(next)
  BY <1>2, <1>5 DEF AllDiffer
<1> QED
  BY <1>6 DEF next

\* HandleDmx keeps the slots of every port apart.
LEMMA HandleDmxDiffers ==
    ASSUME NEW this \in Nodes, NEW p \in Ports, NEW packet \in ArtDmx,
           AllDiffer(this)
    PROVE  AllDiffer(HandleDmx(this, p, packet))
<1> DEFINE checked == Checked(this, p)
           merged == Merge(checked, p, packet)
<1>1. checked \in Nodes
  BY CheckMergeTimeoutsType DEF Checked
<1>2. AllDiffer(checked)
  BY CheckedKeeps, NoneFilledDiffer
<1> HIDE DEF checked
<1>3. merged \in Nodes /\ AllDiffer(merged)
  BY <1>1, <1>2, MergeType, MergeDiffers
<1> HIDE DEF merged
<1>4. AllDiffer(Update(merged, p))
  BY <1>3, UpdateKeeps, NoneFilledDiffer
<1> QED
  BY <1>2, <1>4 DEF HandleDmx, checked, merged

\* Network data loss fills no slot.
LEMMA DataLossKeeps ==
    ASSUME NEW this \in Nodes
    PROVE  NoneFilled(this, SetNetworkDataLossCondition(this))
<1> DEFINE reset == [this EXCEPT !.node.IsMergeMode = FALSE,
                                 !.node.IsSynchronousMode = FALSE]
           failed == FailSafe(reset)
           emptied == EmptySlots(failed)
<1>1. this.out \in [Ports -> OutputPort]
  BY NodeFields
<1>2. reset.out = this.out
  BY DEF Nodes
<1>3. [this.node EXCEPT !.IsMergeMode = FALSE,
                        !.IsSynchronousMode = FALSE] \in State
  BY NodeFields DEF State
<1>4. reset \in Nodes
  BY <1>3 DEF Nodes
<1> HIDE DEF reset
<1>5. ASSUME NEW p \in Ports
      PROVE  /\ failed.out[p].sourceA = this.out[p].sourceA
             /\ failed.out[p].sourceB = this.out[p].sourceB
  BY <1>1, <1>2, <1>4 DEF FailSafe, FailSafePlayback, Nodes, OutputPort
<1>6. failed \in Nodes
  BY <1>4, FailSafeType
<1> HIDE DEF failed
<1>7. NoneFilled(this, failed) /\ NoneFilled(failed, emptied)
  BY <1>5, <1>6, SameSlots, EmptySlotsKeeps
<1>8. emptied \in Nodes
  BY <1>6, EmptySlotsType
<1> HIDE DEF emptied
<1>9. NoneFilled(this, emptied)
  BY <1>7, NoneFilledTwice
<1> DEFINE cleared == [emptied EXCEPT !.light = ClearLength(@, Ports)]
<1>10. cleared.out = emptied.out
  BY <1>8 DEF Nodes
<1> HIDE DEF cleared
<1>11. NoneFilled(this, cleared)
  BY <1>9, <1>10 DEF NoneFilled
<1>12. NoneFilled(this, reset)
  BY <1>2, SameSlots
<1>13. SetNetworkDataLossCondition(this) \in {cleared, reset}
  BY DEF SetNetworkDataLossCondition, cleared, emptied, failed, reset
<1> QED
  BY <1>11, <1>12, <1>13

\* An ArtSync fills no slot.
LEMMA HandleSyncKeeps ==
    ASSUME NEW this \in Nodes
    PROVE  NoneFilled(this, HandleSync(this))
<1>1. this.out \in [Ports -> OutputPort]
  BY NodeFields
<1>2. ASSUME NEW p \in Ports
      PROVE  /\ HandleSync(this).out[p].sourceA = this.out[p].sourceA
             /\ HandleSync(this).out[p].sourceB = this.out[p].sourceB
  BY <1>1 DEF HandleSync, Nodes, OutputPort
<1> QED
  BY <1>2, SameSlots

\* A reply to ArtPoll fills no slot.
LEMMA SendPollReplyKeeps ==
    ASSUME NEW this \in Nodes, NEW S, NEW merging
    PROVE  NoneFilled(this, SendPollReply(this, S, merging))
<1>1. this.out \in [Ports -> OutputPort]
  BY NodeFields
<1>2. ASSUME NEW p \in Ports
      PROVE  /\ SendPollReply(this, S, merging).out[p].sourceA
                   = this.out[p].sourceA
             /\ SendPollReply(this, S, merging).out[p].sourceB
                   = this.out[p].sourceB
  BY <1>1 DEF SendPollReply, Nodes, OutputPort
<1> QED
  BY <1>2, SameSlots

\* No command of ArtAddress fills a slot; AcCancelMerge gives all of them up.
LEMMA CommandKeeps ==
    ASSUME NEW this \in Nodes, NEW p \in Ports, NEW command \in Commands
    PROVE  NoneFilled(this, Command(this, p, command))
<1>1. this.out \in [Ports -> OutputPort]
  BY NodeFields
<1>2. NoneFilled(this, CancelMerge(this))
  <2> DEFINE emptied == EmptySlots(this)
  <2>1. emptied \in Nodes /\ NoneFilled(this, emptied)
    BY EmptySlotsType, EmptySlotsKeeps
  <2>2. emptied.out \in [Ports -> OutputPort]
    BY <2>1, NodeFields
  <2> HIDE DEF emptied
  <2>3. ASSUME NEW q \in Ports
        PROVE  /\ CancelMerge(this).out[q].sourceA = emptied.out[q].sourceA
               /\ CancelMerge(this).out[q].sourceB = emptied.out[q].sourceB
    BY <2>1, <2>2 DEF CancelMerge, Nodes, OutputPort, emptied
  <2> QED
    BY <2>1, <2>3, SameSlots, NoneFilledTwice
<1>3. CASE command = "CANCEL"
  <2>1. Command(this, p, command) = CancelMerge(this)
    BY <1>3, FailSafesAssumption, MergeModesAssumption, ProtocolsAssumption
       DEF Command
  <2> QED
    BY <1>2, <2>1
<1>4. CASE command # "CANCEL"
  <2>1. ASSUME NEW q \in Ports
        PROVE  /\ Command(this, p, command).out[q].sourceA = this.out[q].sourceA
               /\ Command(this, p, command).out[q].sourceB = this.out[q].sourceB
    BY <1>1, <1>4 DEF Command, FailSafeRecord, Nodes, OutputPort
  <2> QED
    BY <2>1, SameSlots
<1> QED
  BY <1>3, <1>4

\* ArtAddress fills no slot.
LEMMA HandleAddressKeeps ==
    ASSUME NEW this \in Nodes, NEW p \in Ports, NEW address \in PortAddresses,
           NEW command \in Commands, NEW merging
    PROVE  NoneFilled(this, HandleAddress(this, p, address, command, merging))
<1> DEFINE moved == SetPortAddress(this, p, address)
           commanded == Command(moved, p, command)
<1>1. this.out \in [Ports -> OutputPort]
  BY NodeFields
<1>2. [this.out[p] EXCEPT !.address = address] \in OutputPort
  BY <1>1 DEF OutputPort
<1>3. moved \in Nodes
  BY <1>2 DEF SetPortAddress, Nodes
<1>4. NoneFilled(this, moved)
  <2>1. ASSUME NEW q \in Ports
        PROVE  /\ moved.out[q].sourceA = this.out[q].sourceA
               /\ moved.out[q].sourceB = this.out[q].sourceB
    BY <1>1 DEF SetPortAddress, Nodes, OutputPort
  <2> HIDE DEF moved
  <2> QED
    BY <2>1, SameSlots
<1> HIDE DEF moved
<1>5. commanded \in Nodes /\ NoneFilled(moved, commanded)
  BY <1>3, CommandType, CommandKeeps
<1> HIDE DEF commanded
<1>6. NoneFilled(this, commanded)
  BY <1>4, <1>5, NoneFilledTwice
<1>7. NoneFilled(commanded, SendPollReply(commanded, {p}, merging))
  BY <1>5, SendPollReplyKeeps
<1>8. NoneFilled(this, SendPollReply(commanded, {p}, merging))
  BY <1>6, <1>7, NoneFilledTwice
<1> QED
  BY <1>8 DEF HandleAddress, commanded, moved

\* What Process does around a packet leaves the slots alone.
LEMMA ArrivedKeeps ==
    ASSUME NEW this \in Nodes, NEW packet
    PROVE  Arrived(this).out = this.out /\ From(this, packet).out = this.out
BY DEF Arrived, From, Nodes

-----------------------------------------------------------------------------
(* SlotsDiffer is inductive, given the types *)

\* A step to a node whose slots differ keeps SlotsDiffer.
LEMMA BecomeDiffers ==
    ASSUME NEW this, AllDiffer(this), Become(this)
    PROVE  SlotsDiffer'
BY DEF SlotsDiffer, AllDiffer, Differ, Become, Occupied

\* So does a step that fills no slot.
LEMMA BecomeKeepsSlots ==
    ASSUME NEW before, NEW this, AllDiffer(before), NoneFilled(before, this),
           Become(this)
    PROVE  SlotsDiffer'
BY NoneFilledDiffer, BecomeDiffers

\* Serving a port keeps the slots apart.
LEMMA ServePortDiffers ==
    ASSUME NEW this \in Nodes, NEW packet \in ArtDmx,
           NEW todo, todo \subseteq Ports, todo # {},
           AllDiffer(this), ServePort(this, packet, todo)
    PROVE  SlotsDiffer'
<1>1. First(todo) \in Ports
  BY LeastPort DEF First
<1> DEFINE served == HandleDmx(this, First(todo), packet)
<1>2. served \in Nodes /\ AllDiffer(served)
  BY <1>1, HandleDmxType, HandleDmxDiffers
<1>3. Become(From(served, packet)) \/ Become(served)
  BY DEF ServePort
<1> HIDE DEF served
<1>4. AllDiffer(From(served, packet))
  BY <1>2, ArrivedKeeps DEF AllDiffer
<1> QED
  BY <1>2, <1>3, <1>4, BecomeDiffers

\* Every step keeps the slots apart.
LEMMA NextDiffers == TypeOK /\ SlotsDiffer /\ [Next]_vars => SlotsDiffer'
<1> SUFFICES ASSUME TypeOK, SlotsDiffer, [Next]_vars
             PROVE  SlotsDiffer'
  OBVIOUS
<1> DEFINE arrived == Arrived(ThisNode)
<1>1. ThisNode \in Nodes /\ arrived \in Nodes
  BY ThisNodeType, ArrivedType
<1>2. AllDiffer(ThisNode)
  BY DEF AllDiffer, Differ, SlotsDiffer, ThisNode, Occupied
<1>3. AllDiffer(arrived)
  BY <1>1, <1>2, ArrivedKeeps DEF AllDiffer
<1>4. ASSUME NEW packet \in ArtDmx, ReceiveDmx(packet)
      PROVE  SlotsDiffer'
  <2>1. Subscribed(packet.address) \subseteq Ports
    BY DEF Subscribed
  <2> QED
    BY <1>1, <1>3, <1>4, <2>1, ServePortDiffers DEF ReceiveDmx
<1>5. ASSUME NEW packet \in ArtDmx, ReceiveDmxElsewhere(packet)
      PROVE  SlotsDiffer'
  <2>1. AllDiffer(From(arrived, packet))
    BY <1>1, <1>3, ArrivedKeeps DEF AllDiffer
  <2> QED
    BY <1>5, <2>1, BecomeDiffers DEF ReceiveDmxElsewhere
<1>6. CASE NextPort
  <2>1. frame \in ArtDmx /\ rest \subseteq Ports /\ rest # {}
    BY <1>6 DEF NextPort, TypeOK
  <2> QED
    BY <1>1, <1>2, <1>6, <2>1, ServePortDiffers DEF NextPort
<1> HIDE DEF arrived
<1>7. ASSUME NEW from \in Controllers, ReceiveSync(from)
      PROVE  SlotsDiffer'
  <2>1. Become(HandleSync(arrived)) \/ Become(arrived)
    BY <1>7 DEF ReceiveSync, arrived
  <2> QED
    BY <1>1, <1>3, <2>1, HandleSyncKeeps, BecomeKeepsSlots, BecomeDiffers
<1>8. ASSUME NEW p \in Ports, NEW address \in PortAddresses,
             NEW command \in Commands, NEW merging,
             ReceiveAddress(p, address, command, merging)
      PROVE  SlotsDiffer'
  <2>1. Become(HandleAddress(arrived, p, address, command, merging))
    BY <1>8 DEF ReceiveAddress, arrived
  <2> QED
    BY <1>1, <1>3, <2>1, HandleAddressKeeps, BecomeKeepsSlots
<1>9. CASE ReceiveOther
  BY <1>3, <1>9, BecomeDiffers DEF ReceiveOther, arrived
<1>10. ASSUME NEW merging, PollReply(merging)
       PROVE  SlotsDiffer'
  BY <1>1, <1>2, <1>10, SendPollReplyKeeps, BecomeKeepsSlots DEF PollReply
<1>11. CASE RunIdle
  BY <1>1, <1>2, <1>11, DataLossKeeps, BecomeKeepsSlots DEF RunIdle
<1>12. CASE Tick
  <2>1. ASSUME NEW p \in Ports
        PROVE  /\ out'[p].sourceA.ip = out[p].sourceA.ip
               /\ out'[p].sourceA.physical = out[p].sourceA.physical
               /\ out'[p].sourceB.ip = out[p].sourceB.ip
               /\ out'[p].sourceB.physical = out[p].sourceB.physical
    <3>1. out[p] \in OutputPort
      BY DEF TypeOK
    <3> QED
      BY <1>12, <3>1 DEF Tick, OutputPort, Source
  <2> QED
    BY <2>1 DEF SlotsDiffer, Occupied
<1>13. ASSUME NEW p \in Ports, NEW direction \in {"OUTPUT", "DISABLE"},
              NEW address \in PortAddresses, NEW mergeMode \in MergeModes,
              NEW protocol \in Protocols,
              SetPort(p, direction, address, mergeMode, protocol)
       PROVE  SlotsDiffer'
  <2>1. out \in [Ports -> OutputPort]
    BY DEF TypeOK
  <2>2. ASSUME NEW q \in Ports
        PROVE  /\ out'[q].sourceA = out[q].sourceA
               /\ out'[q].sourceB = out[q].sourceB
    BY <1>13, <2>1 DEF SetPort, OutputPort
  <2> QED
    BY <2>2 DEF SlotsDiffer
<1>14. ASSUME NEW failsafe \in FailSafes, SetFailSafe(failsafe)
       PROVE  SlotsDiffer'
  BY <1>14 DEF SetFailSafe, SlotsDiffer
<1>15. CASE StartNode
  BY <1>15 DEF StartNode, SlotsDiffer
<1>16. CASE StopNode
  <2>1. ASSUME NEW p \in Ports
        PROVE  /\ out'[p].sourceA = out[p].sourceA
               /\ out'[p].sourceB = out[p].sourceB
    <3>1. out[p] \in OutputPort
      BY DEF TypeOK
    <3> QED
      BY <1>16, <3>1 DEF StopNode, OutputPort
  <2> QED
    BY <2>1 DEF SlotsDiffer
<1>17. CASE Reboot
  BY <1>17 DEF Reboot, SlotsDiffer, PortAtBoot, NoSource, Occupied
<1>18. CASE UNCHANGED vars
  BY <1>18 DEF vars, SlotsDiffer
<1> QED
  BY <1>4, <1>5, <1>6, <1>7, <1>8, <1>9, <1>10, <1>11, <1>12, <1>13, <1>14,
     <1>15, <1>16, <1>17, <1>18 DEF Next

\* No stream ever holds both slots of a port, so that no data is merged with
\* itself, whatever order packets, timeouts and commands come in.
THEOREM StreamsDiffer == Spec => []SlotsDiffer
<1>1. Init => TypeOK /\ SlotsDiffer
  <2>1. Init => TypeOK
    BY BootType DEF Init, TypeOK
  <2>2. ASSUME Init, NEW p \in Ports
        PROVE  out[p].sourceA.ip = NoController
    BY <2>2 DEF Init, PortAtBoot, NoSource
  <2>3. Init => SlotsDiffer
    BY <2>2 DEF SlotsDiffer, Occupied
  <2> QED
    BY <2>1, <2>3
<1>2. (TypeOK /\ SlotsDiffer) /\ [Next]_vars => (TypeOK /\ SlotsDiffer)'
  BY NextType, NextDiffers
<1> QED
  BY <1>1, <1>2, PTL DEF Spec

-----------------------------------------------------------------------------
(* What a port shows *)

\* The driver of port p has the merged data, or that waits for an ArtSync.
SettledAt(this, p) ==
    /\ this.light[p].filled
    /\ this.light[p].sent # this.light[p].data
    => this.out[p].IsDataPending

Shown(this) ==
    \A p \in Ports : this.out[p].IsTransmitting => SettledAt(this, p)

\* Nothing that Shown reads has changed at port p.
SameAt(this, next, p) ==
    /\ next.light[p] = this.light[p]
    /\ next.out[p].IsTransmitting = this.out[p].IsTransmitting
    /\ next.out[p].IsDataPending = this.out[p].IsDataPending

SameShow(this, next) == \A p \in Ports : SameAt(this, next, p)

\* A port that has changed is settled, also if it was not before and does not
\* transmit, as one that the bridge drives.
Settles(this, next) ==
    \A p \in Ports : SameAt(this, next, p) \/ SettledAt(next, p)

\* No port becomes an output, or another protocol's, or moves.
SamePlaces(this, next) ==
    \A p \in Ports : /\ next.out[p].direction = this.out[p].direction
                     /\ next.out[p].address = this.out[p].address
                     /\ next.out[p].protocol = this.out[p].protocol

\* What settles leaves what is shown.
LEMMA SettlesIsShown ==
    ASSUME NEW this, NEW next, Shown(this), Settles(this, next)
    PROVE  Shown(next)
BY DEF Shown, Settles, SettledAt, SameAt

\* A method that leaves light and flags alone is one that settles, also before
\* or after another one.
LEMMA SameShowSettles ==
    ASSUME NEW this, NEW next, SameShow(this, next)
    PROVE  Settles(this, next)
BY DEF SameShow, Settles

LEMMA SettlesTwice ==
    ASSUME NEW this, NEW next, NEW last, Settles(this, next), Settles(next, last)
    PROVE  Settles(this, last)
BY DEF Settles, SettledAt, SameAt

LEMMA SamePlacesTwice ==
    ASSUME NEW this, NEW next, NEW last,
           SamePlaces(this, next), SamePlaces(next, last)
    PROVE  SamePlaces(this, last)
BY DEF SamePlaces

\* A light without data to send shows all there is.
LEMMA EmptySettles ==
    ASSUME NEW this, NEW next, \A p \in Ports : ~next.light[p].filled
    PROVE  Settles(this, next)
BY DEF Settles, SettledAt

\* Merge timeouts give slots up, and touch no light.
LEMMA CheckedShows ==
    ASSUME NEW this \in Nodes, NEW p \in Ports
    PROVE  /\ SameShow(this, Checked(this, p))
           /\ SamePlaces(this, Checked(this, p))
<1>1. this.out \in [Ports -> OutputPort] /\ this.out[p] \in OutputPort
  BY NodeFields
<1>2. CheckMergeTimeouts(this, p).light = this.light
  BY DEF CheckMergeTimeouts, Nodes
<1> DEFINE next == CheckMergeTimeouts(this, p)
<1>3. ASSUME NEW q \in Ports
      PROVE  /\ next.out[q].IsTransmitting = this.out[q].IsTransmitting
             /\ next.out[q].IsDataPending = this.out[q].IsDataPending
  BY <1>1, ZenonT(60) DEF CheckMergeTimeouts, Nodes, OutputPort
<1>4. ASSUME NEW q \in Ports
      PROVE  /\ next.out[q].direction = this.out[q].direction
             /\ next.out[q].address = this.out[q].address
             /\ next.out[q].protocol = this.out[q].protocol
  BY <1>1, ZenonT(60) DEF CheckMergeTimeouts, Nodes, OutputPort
<1> QED
  BY <1>2, <1>3, <1>4 DEF Checked, SameShow, SameAt, SamePlaces

\* Merge changes the light of one port, and no flag that Shown reads.
LEMMA MergeElsewhere ==
    ASSUME NEW this \in Nodes, NEW p \in Ports, NEW packet \in ArtDmx
    PROVE  /\ \A q \in Ports \ {p} : SameAt(this, Merge(this, p, packet), q)
           /\ SamePlaces(this, Merge(this, p, packet))
<1> DEFINE next == Merge(this, p, packet)
           toA == GoesToA(this.out[p].sourceA, this.out[p].sourceB, packet)
           toB == GoesToB(this.out[p].sourceA, this.out[p].sourceB, packet)
<1>1. /\ this.out \in [Ports -> OutputPort] /\ this.out[p] \in OutputPort
      /\ this.light \in [Ports -> LightPort]
  BY NodeFields DEF Light
<1>2. ASSUME NEW q \in Ports \ {p}
      PROVE  next.light[q] = this.light[q]
  <2> HIDE DEF toA, toB
  <2> QED
    BY <1>1 DEF Merge, UpdateMergeStatus, MergeSourceA, MergeSourceB, Nodes,
       toA, toB
<1>3. ASSUME NEW q \in Ports \ {p}
      PROVE  next.out[q] = this.out[q]
  <2> HIDE DEF toA, toB
  <2> QED
    BY <1>1 DEF Merge, UpdateMergeStatus, Nodes, toA, toB
<1>4. /\ next.out[p].direction = this.out[p].direction
      /\ next.out[p].address = this.out[p].address
      /\ next.out[p].protocol = this.out[p].protocol
  <2> HIDE DEF toA, toB
  <2> QED
    BY <1>1, SMTT(40) DEF Merge, UpdateMergeStatus, Nodes, OutputPort, toA, toB
<1> HIDE DEF next
<1>5. SamePlaces(this, next)
  BY <1>3, <1>4 DEF SamePlaces
<1> QED
  BY <1>2, <1>3, <1>5 DEF SameAt, next

\* Update shows the data of its port, or lets it wait, and touches no other.
LEMMA UpdateShows ==
    ASSUME NEW this \in Nodes, NEW p \in Ports
    PROVE  /\ SettledAt(Update(this, p), p)
           /\ SamePlaces(this, Update(this, p))
           /\ \A q \in Ports \ {p} : SameAt(this, Update(this, p), q)
<1> DEFINE holds == [this EXCEPT !.out[p].IsDataPending = TRUE]
           lit == IF this.out[p].IsTransmitting
                    THEN Output(this.light, p)
                    ELSE Start(Output(this.light, p), p)
           sends == [this EXCEPT !.light = lit, !.out[p].IsTransmitting = TRUE]
<1>1. /\ this.out \in [Ports -> OutputPort]
      /\ this.light \in [Ports -> LightPort]
      /\ this.out[p] \in OutputPort /\ this.light[p] \in LightPort
  BY NodeFields DEF Light
<1>2. /\ lit[p].data = this.light[p].data /\ lit[p].filled = this.light[p].filled
      /\ lit[p].filled => lit[p].sent = lit[p].data
      /\ \A q \in Ports \ {p} : lit[q] = this.light[q]
  BY <1>1 DEF Output, Start, Frame, LightPort
<1> HIDE DEF lit
<1>3. /\ sends.light = lit
      /\ sends.out[p] = [this.out[p] EXCEPT !.IsTransmitting = TRUE]
      /\ \A q \in Ports \ {p} : sends.out[q] = this.out[q]
  BY <1>1 DEF Nodes
<1>4. /\ holds.light = this.light
      /\ holds.out[p] = [this.out[p] EXCEPT !.IsDataPending = TRUE]
      /\ \A q \in Ports \ {p} : holds.out[q] = this.out[q]
  BY <1>1 DEF Nodes, OutputPort
<1>5. Update(this, p) \in {holds, sends}
  BY DEF Update, holds, sends, lit, Nodes
<1> HIDE DEF holds, sends
<1>6. holds.out[p].IsDataPending
  BY <1>1, <1>4 DEF OutputPort
<1>7. SettledAt(sends, p) /\ \A q \in Ports \ {p} : SameAt(this, sends, q)
  BY <1>2, <1>3 DEF SettledAt, SameAt
<1>8. SettledAt(holds, p) /\ \A q \in Ports \ {p} : SameAt(this, holds, q)
  BY <1>4, <1>6 DEF SettledAt, SameAt
<1>9. SamePlaces(this, sends) /\ SamePlaces(this, holds)
  BY <1>1, <1>3, <1>4 DEF SamePlaces, OutputPort
<1> QED
  BY <1>5, <1>7, <1>8, <1>9

\* HandleDmx shows what the port is left with, and no other port changes.
LEMMA HandleDmxSettles ==
    ASSUME NEW this \in Nodes, NEW p \in Ports, NEW packet \in ArtDmx
    PROVE  /\ Settles(this, HandleDmx(this, p, packet))
           /\ SamePlaces(this, HandleDmx(this, p, packet))
<1> DEFINE checked == Checked(this, p)
           merged == Merge(checked, p, packet)
           updated == Update(merged, p)
<1>1. /\ checked \in Nodes /\ SameShow(this, checked)
      /\ SamePlaces(this, checked)
  BY CheckMergeTimeoutsType, CheckedShows DEF Checked
<1> HIDE DEF checked
<1>2. /\ merged \in Nodes /\ SamePlaces(checked, merged)
      /\ \A q \in Ports \ {p} : SameAt(checked, merged, q)
  BY <1>1, MergeType, MergeElsewhere
<1> HIDE DEF merged
<1>3. /\ SettledAt(updated, p) /\ SamePlaces(merged, updated)
      /\ \A q \in Ports \ {p} : SameAt(merged, updated, q)
  BY <1>2, UpdateShows
<1> HIDE DEF updated
<1>4. Settles(checked, updated)
  BY <1>2, <1>3 DEF Settles, SettledAt, SameAt
<1>5. Settles(this, checked) /\ Settles(this, updated)
  BY <1>1, <1>4, SameShowSettles, SettlesTwice
<1>6. SamePlaces(this, updated)
  BY <1>1, <1>2, <1>3, SamePlacesTwice
<1> QED
  BY <1>1, <1>5, <1>6 DEF HandleDmx, checked, merged, updated

\* Network data loss leaves no port with data, if any had a source.
LEMMA DataLossSettles ==
    ASSUME NEW this \in Nodes
    PROVE  Settles(this, SetNetworkDataLossCondition(this))
<1> DEFINE reset == [this EXCEPT !.node.IsMergeMode = FALSE,
                                 !.node.IsSynchronousMode = FALSE]
           emptied == EmptySlots(FailSafe(reset))
           cleared == [emptied EXCEPT !.light = ClearLength(@, Ports)]
<1>1. reset.out = this.out /\ reset.light = this.light
  BY DEF Nodes
<1>2. [this.node EXCEPT !.IsMergeMode = FALSE,
                        !.IsSynchronousMode = FALSE] \in State
  BY NodeFields DEF State
<1>3. reset \in Nodes
  BY <1>2 DEF Nodes
<1> HIDE DEF reset
<1>4. emptied \in Nodes
  BY <1>3, FailSafeType, EmptySlotsType
<1> HIDE DEF emptied
<1>5. cleared.light = ClearLength(emptied.light, Ports)
  BY <1>4 DEF Nodes
<1>6. \A p \in Ports : emptied.light[p] \in LightPort
  BY <1>4, NodeFields DEF Light
<1>7. \A p \in Ports : ~cleared.light[p].filled
  <2>1. \A p \in Ports : ~ClearLength(emptied.light, Ports)[p].filled
    BY <1>6 DEF ClearLength, LightPort
  <2> HIDE DEF cleared
  <2> QED
    BY <1>5, <2>1
<1> HIDE DEF cleared
<1>8. Settles(this, cleared)
  BY <1>7, EmptySettles
<1>9. Settles(this, reset)
  BY <1>1 DEF Settles, SameAt
<1>10. SetNetworkDataLossCondition(this) \in {cleared, reset}
  BY DEF SetNetworkDataLossCondition, cleared, emptied, reset
<1> QED
  BY <1>8, <1>9, <1>10

\* The failsafe and the slots it gives up leave every port where it is.
LEMMA EmptySlotsPlaces ==
    ASSUME NEW this \in Nodes
    PROVE  SamePlaces(this, EmptySlots(this))
<1>1. this.out \in [Ports -> OutputPort]
  BY NodeFields
<1>2. ASSUME NEW p \in Ports
      PROVE  EmptySlots(this).out[p]
                = [this.out[p] EXCEPT !.sourceA = EmptySlot(@),
                                      !.sourceB = EmptySlot(@)]
  BY DEF EmptySlots, Nodes
<1>3. ASSUME NEW p \in Ports
      PROVE  /\ EmptySlots(this).out[p].direction = this.out[p].direction
             /\ EmptySlots(this).out[p].address = this.out[p].address
             /\ EmptySlots(this).out[p].protocol = this.out[p].protocol
  <2>1. this.out[p] \in OutputPort
    BY <1>1
  <2> QED
    BY <1>2, <2>1 DEF OutputPort
<1> QED
  BY <1>3 DEF SamePlaces

LEMMA DataLossPlaces ==
    ASSUME NEW this \in Nodes
    PROVE  SamePlaces(this, SetNetworkDataLossCondition(this))
<1> DEFINE reset == [this EXCEPT !.node.IsMergeMode = FALSE,
                                 !.node.IsSynchronousMode = FALSE]
           failed == FailSafe(reset)
           emptied == EmptySlots(failed)
           cleared == [emptied EXCEPT !.light = ClearLength(@, Ports)]
<1>1. reset.out = this.out
  BY DEF Nodes
<1>2. [this.node EXCEPT !.IsMergeMode = FALSE,
                        !.IsSynchronousMode = FALSE] \in State
  BY NodeFields DEF State
<1>3. reset \in Nodes
  BY <1>2 DEF Nodes
<1> HIDE DEF reset
<1>4. failed.out \in {reset.out, [p \in Ports |->
              [reset.out[p] EXCEPT
                  !.IsTransmitting = @ \/ p \in Outputs(reset)]]}
  BY <1>3 DEF FailSafe, FailSafePlayback, Nodes
<1>5. failed \in Nodes /\ emptied \in Nodes
  BY <1>3, FailSafeType, EmptySlotsType
<1> HIDE DEF failed
<1>6. SamePlaces(reset, failed)
  <2>1. ASSUME NEW p \in Ports
        PROVE  \/ failed.out[p] = reset.out[p]
               \/ failed.out[p] = [reset.out[p] EXCEPT
                     !.IsTransmitting = @ \/ p \in Outputs(reset)]
    BY <1>4
  <2>2. ASSUME NEW p \in Ports
        PROVE  /\ failed.out[p].direction = reset.out[p].direction
               /\ failed.out[p].address = reset.out[p].address
               /\ failed.out[p].protocol = reset.out[p].protocol
    <3>1. reset.out[p] \in OutputPort
      BY <1>3, NodeFields
    <3> QED
      BY <2>1, <3>1 DEF OutputPort
  <2> QED
    BY <2>2 DEF SamePlaces
<1>7. SamePlaces(failed, emptied)
  BY <1>5, EmptySlotsPlaces
<1> HIDE DEF emptied
<1>8. cleared.out = emptied.out
  BY <1>5 DEF Nodes
<1> HIDE DEF cleared
<1>9. SamePlaces(this, reset) /\ SamePlaces(this, cleared)
  BY <1>1, <1>6, <1>7, <1>8 DEF SamePlaces
<1>10. SetNetworkDataLossCondition(this) \in {cleared, reset}
  BY DEF SetNetworkDataLossCondition, cleared, emptied, failed, reset
<1> QED
  BY <1>9, <1>10

\* An ArtSync enters synchronous mode or hands every buffer over and empties it.
LEMMA HandleSyncSettles ==
    ASSUME NEW this \in Nodes
    PROVE  Settles(this, HandleSync(this)) /\ SamePlaces(this, HandleSync(this))
<1> DEFINE pending == {p \in Ports : this.out[p].IsDataPending}
           entered == [this EXCEPT !.node.IsSynchronousMode = TRUE,
                                   !.node.syncAge = 0]
           outNow == [p \in Ports |->
                [this.out[p] EXCEPT
                    !.IsDataPending = FALSE,
                    !.IsTransmitting = @ \/ p \in pending]]
           released == [this EXCEPT !.node.syncAge = 0,
                                    !.light = Sync(@, pending),
                                    !.out = outNow]
<1>1. /\ \A p \in Ports : this.light[p] \in LightPort
      /\ \A p \in Ports : this.out[p] \in OutputPort
  BY NodeFields DEF Light
<1>2. \A p \in Ports : ~Sync(this.light, pending)[p].filled
  BY <1>1 DEF Sync, LightPort
<1>3. entered.out = this.out /\ entered.light = this.light
  BY DEF Nodes
<1> HIDE DEF pending
<1>4. \A p \in Ports : /\ outNow[p].direction = this.out[p].direction
                       /\ outNow[p].address = this.out[p].address
                       /\ outNow[p].protocol = this.out[p].protocol
  BY <1>1 DEF OutputPort
<1> HIDE DEF outNow
<1>5. released.light = Sync(this.light, pending) /\ released.out = outNow
  BY DEF Nodes
<1>6. HandleSync(this) \in {entered, released}
  BY DEF HandleSync, entered, released, outNow, pending
<1> HIDE DEF entered, released
<1>7. Settles(this, released)
  BY <1>2, <1>5, EmptySettles
<1>8. Settles(this, entered)
  BY <1>3 DEF Settles, SameAt
<1>9. SamePlaces(this, entered) /\ SamePlaces(this, released)
  BY <1>3, <1>4, <1>5 DEF SamePlaces
<1> QED
  BY <1>6, <1>7, <1>8, <1>9

\* A reply to ArtPoll leaves light and flags alone.
LEMMA SendPollReplyShows ==
    ASSUME NEW this \in Nodes, NEW S, NEW merging
    PROVE  LET next == SendPollReply(this, S, merging)
           IN  /\ SameShow(this, next) /\ SamePlaces(this, next)
               /\ next.light = this.light
<1> DEFINE next == SendPollReply(this, S, merging)
<1>1. this.out \in [Ports -> OutputPort]
  BY NodeFields
<1>2. next.light = this.light
  BY DEF SendPollReply, Nodes
<1>3. ASSUME NEW p \in Ports
      PROVE  \/ next.out[p] = this.out[p]
             \/ next.out[p] = [this.out[p] EXCEPT !.IsMerging = p \in merging]
  BY DEF SendPollReply, Nodes
<1> HIDE DEF next
<1>4. ASSUME NEW p \in Ports
      PROVE  /\ next.out[p].IsTransmitting = this.out[p].IsTransmitting
             /\ next.out[p].IsDataPending = this.out[p].IsDataPending
             /\ next.out[p].direction = this.out[p].direction
             /\ next.out[p].address = this.out[p].address
             /\ next.out[p].protocol = this.out[p].protocol
  <2>1. this.out[p] \in OutputPort
    BY <1>1
  <2> QED
    BY <1>3, <2>1 DEF OutputPort
<1>5. SameShow(this, next) /\ SamePlaces(this, next)
  BY <1>2, <1>4 DEF SameShow, SameAt, SamePlaces
<1> QED
  BY <1>2, <1>5 DEF next

\* Cancelling the merge gives slots up, and touches no light.
LEMMA CancelMergeShows ==
    ASSUME NEW this \in Nodes
    PROVE  /\ SameShow(this, CancelMerge(this))
           /\ SamePlaces(this, CancelMerge(this))
           /\ CancelMerge(this).light = this.light
<1> DEFINE emptied == EmptySlots(this)
           next == CancelMerge(this)
<1>1. this.out \in [Ports -> OutputPort]
  BY NodeFields
<1>2. emptied.light = this.light
  BY DEF EmptySlots, Nodes
<1>3. ASSUME NEW p \in Ports
      PROVE  /\ emptied.out[p].IsTransmitting = this.out[p].IsTransmitting
             /\ emptied.out[p].IsDataPending = this.out[p].IsDataPending
  BY <1>1, ZenonT(60) DEF EmptySlots, Nodes, OutputPort
<1>4. emptied \in Nodes /\ SamePlaces(this, emptied)
  BY EmptySlotsType, EmptySlotsPlaces
<1>5. emptied.out \in [Ports -> OutputPort]
  BY <1>4, NodeFields
<1> HIDE DEF emptied
<1>6. next.light = emptied.light
  BY <1>4 DEF CancelMerge, Nodes, emptied
<1>7. ASSUME NEW p \in Ports
      PROVE  next.out[p] = [emptied.out[p] EXCEPT !.IsMerging = FALSE]
  BY <1>4 DEF CancelMerge, Nodes, emptied
<1> HIDE DEF next
<1>8. ASSUME NEW p \in Ports
      PROVE  /\ next.out[p].IsTransmitting = emptied.out[p].IsTransmitting
             /\ next.out[p].IsDataPending = emptied.out[p].IsDataPending
             /\ next.out[p].direction = emptied.out[p].direction
             /\ next.out[p].address = emptied.out[p].address
             /\ next.out[p].protocol = emptied.out[p].protocol
  <2>1. emptied.out[p] \in OutputPort
    BY <1>5
  <2> QED
    BY <1>7, <2>1 DEF OutputPort
<1>9. SameShow(this, next) /\ SamePlaces(this, next) /\ next.light = this.light
  BY <1>2, <1>3, <1>4, <1>6, <1>8 DEF SameShow, SameAt, SamePlaces
<1> QED
  BY <1>9 DEF next

\* Where a command leaves a port: only the selection of a protocol moves it.
Placed(this, next, p, address, protocol) ==
    \A q \in Ports :
        /\ next.out[q].direction = this.out[q].direction
        /\ next.out[q].address = IF q = p THEN address ELSE this.out[q].address
        /\ next.out[q].protocol = IF q = p THEN protocol
                                           ELSE this.out[q].protocol

Selected(this, p, command) ==
    IF command \in Protocols THEN command ELSE this.out[p].protocol

\* CLR shows the cleared port; the other commands leave light and flags alone.
LEMMA CommandSettles ==
    ASSUME NEW this \in Nodes, NEW p \in Ports, NEW command \in Commands
    PROVE  LET next == Command(this, p, command)
           IN  /\ Settles(this, next)
               /\ Placed(this, next, p, this.out[p].address,
                         Selected(this, p, command))
               /\ command # "CLR" => next.light = this.light
<1> DEFINE next == Command(this, p, command)
<1>1. this.out \in [Ports -> OutputPort] /\ this.out[p] \in OutputPort
  BY NodeFields
<1>2. this.light \in [Ports -> LightPort]
  BY NodeFields DEF Light
<1>3. CASE command = "CANCEL"
  <2>1. next = CancelMerge(this)
    BY <1>3, FailSafesAssumption, MergeModesAssumption, ProtocolsAssumption
       DEF Command
  <2>2. SameShow(this, next) /\ SamePlaces(this, next) /\ next.light = this.light
    BY <2>1, CancelMergeShows
  <2>3. Selected(this, p, command) = this.out[p].protocol
    BY <1>3, ProtocolsAssumption DEF Selected
  <2> HIDE DEF next
  <2>4. /\ Settles(this, next)
        /\ Placed(this, next, p, this.out[p].address, Selected(this, p, command))
    BY <2>2, <2>3, SameShowSettles DEF SamePlaces, Placed
  <2> QED
    BY <2>2, <2>4 DEF next
<1>4. CASE command = "CLR"
  <2> DEFINE cleared == [this EXCEPT !.light = OutputClear(@, p)]
  <2>1. next \in {this, cleared}
    BY <1>4, FailSafesAssumption, MergeModesAssumption, ProtocolsAssumption
       DEF Command
  <2>2. /\ cleared.out = this.out
        /\ cleared.light = OutputClear(this.light, p)
    BY DEF Nodes
  <2>3. /\ OutputClear(this.light, p)[p].sent = OutputClear(this.light, p)[p].data
        /\ \A q \in Ports \ {p} : OutputClear(this.light, p)[q] = this.light[q]
    <3>1. this.light[p] \in LightPort
      BY <1>2
    <3> QED
      BY <1>2, <3>1 DEF OutputClear, LightPort
  <2> HIDE DEF cleared
  <2>4. Settles(this, cleared) /\ Settles(this, this)
    BY <2>2, <2>3 DEF Settles, SettledAt, SameAt
  <2>5. next.out = this.out
    BY <2>1, <2>2
  <2>6. Selected(this, p, command) = this.out[p].protocol
    BY <1>4, ProtocolsAssumption DEF Selected
  <2>7. Placed(this, next, p, this.out[p].address, Selected(this, p, command))
    <3> HIDE DEF next
    <3> QED
      BY <2>5, <2>6 DEF Placed
  <2> QED
    BY <1>4, <2>1, <2>4, <2>7
<1>5. CASE command \notin {"CANCEL", "CLR"}
  <2>1. next.light = this.light
    BY <1>5 DEF Command, FailSafeRecord, Nodes
  <2>2. \/ /\ next.out = this.out
           /\ command \notin Protocols
        \/ /\ next.out = [this.out EXCEPT ![p].mergeMode = command]
           /\ command \notin Protocols
        \/ /\ next.out = [this.out EXCEPT ![p].protocol = command]
           /\ command \in Protocols
    BY <1>5, FailSafesAssumption, MergeModesAssumption, ProtocolsAssumption
       DEF Command, FailSafeRecord, Nodes
  <2> HIDE DEF next
  <2>3. ASSUME NEW q \in Ports
        PROVE  /\ next.out[q].IsTransmitting = this.out[q].IsTransmitting
               /\ next.out[q].IsDataPending = this.out[q].IsDataPending
               /\ next.out[q].direction = this.out[q].direction
               /\ next.out[q].address = this.out[q].address
    BY <1>1, <2>2 DEF OutputPort
  <2>4. ASSUME NEW q \in Ports
        PROVE  next.out[q].protocol = IF q = p THEN Selected(this, p, command)
                                               ELSE this.out[q].protocol
    BY <1>1, <2>2 DEF OutputPort, Selected
  <2>5. Settles(this, next)
    BY <2>1, <2>3 DEF Settles, SameAt
  <2>6. Placed(this, next, p, this.out[p].address, Selected(this, p, command))
    BY <2>3, <2>4 DEF Placed
  <2> QED
    BY <2>1, <2>5, <2>6 DEF next
<1> QED
  BY <1>3, <1>4, <1>5

\* ArtAddress keeps what is shown current, and moves no port but its own.
LEMMA HandleAddressSettles ==
    ASSUME NEW this \in Nodes, NEW p \in Ports,
           NEW address \in PortAddresses \cup {0},
           NEW command \in Commands, NEW merging
    PROVE  LET next == HandleAddress(this, p, address, command, merging)
           IN  /\ Settles(this, next)
               /\ Placed(this, next, p,
                         IF this.out[p].direction = "OUTPUT"
                           THEN address ELSE this.out[p].address,
                         Selected(this, p, command))
               /\ command # "CLR" => next.light = this.light
<1> DEFINE moved == SetPortAddress(this, p, address)
           commanded == Command(moved, p, command)
           replied == SendPollReply(commanded, {p}, merging)
           here == IF this.out[p].direction = "OUTPUT"
                     THEN address ELSE this.out[p].address
<1>1. this.out \in [Ports -> OutputPort]
  BY NodeFields
<1>2. [this.out[p] EXCEPT !.address = address] \in OutputPort
  BY <1>1 DEF OutputPort
<1>3. moved \in Nodes
  BY <1>2 DEF SetPortAddress, Nodes
<1>4. moved.light = this.light
  BY DEF SetPortAddress, Nodes
<1>5. moved.out = [this.out EXCEPT ![p].address = here]
  BY <1>1 DEF SetPortAddress, Nodes, OutputPort
<1> HIDE DEF moved, here
<1>6. ASSUME NEW q \in Ports
      PROVE  /\ moved.out[q].IsTransmitting = this.out[q].IsTransmitting
             /\ moved.out[q].IsDataPending = this.out[q].IsDataPending
             /\ moved.out[q].direction = this.out[q].direction
             /\ moved.out[q].address = IF q = p THEN here ELSE this.out[q].address
             /\ moved.out[q].protocol = this.out[q].protocol
  BY <1>1, <1>5 DEF OutputPort
<1>7. Settles(this, moved)
  BY <1>4, <1>6 DEF Settles, SameAt
<1>8. /\ commanded \in Nodes /\ Settles(moved, commanded)
      /\ Placed(moved, commanded, p, moved.out[p].address,
                Selected(moved, p, command))
      /\ command # "CLR" => commanded.light = moved.light
  BY <1>3, CommandType, CommandSettles
<1> HIDE DEF commanded
<1>9. /\ SameShow(commanded, replied) /\ SamePlaces(commanded, replied)
      /\ replied.light = commanded.light
  BY <1>8, SendPollReplyShows
<1> HIDE DEF replied
<1>10. Settles(this, replied)
  BY <1>7, <1>8, <1>9, SameShowSettles, SettlesTwice
<1>11. Selected(moved, p, command) = Selected(this, p, command)
  BY <1>6 DEF Selected
<1>12. Placed(this, replied, p, here, Selected(this, p, command))
  <2> DEFINE selected == Selected(this, p, command)
  <2>1. Placed(moved, commanded, p, moved.out[p].address, selected)
    BY <1>8, <1>11
  <2> HIDE DEF selected
  <2> SUFFICES ASSUME NEW q \in Ports
               PROVE  /\ replied.out[q].direction = this.out[q].direction
                      /\ replied.out[q].address =
                            IF q = p THEN here ELSE this.out[q].address
                      /\ replied.out[q].protocol =
                            IF q = p THEN selected ELSE this.out[q].protocol
    BY DEF Placed, selected
  <2>2. /\ commanded.out[q].direction = moved.out[q].direction
        /\ commanded.out[q].address =
              IF q = p THEN moved.out[p].address ELSE moved.out[q].address
        /\ commanded.out[q].protocol =
              IF q = p THEN selected ELSE moved.out[q].protocol
    BY <2>1 DEF Placed
  <2>3. /\ replied.out[q].direction = commanded.out[q].direction
        /\ replied.out[q].address = commanded.out[q].address
        /\ replied.out[q].protocol = commanded.out[q].protocol
    BY <1>9 DEF SamePlaces
  <2> QED
    BY <1>6, <2>2, <2>3
<1>13. command # "CLR" => replied.light = this.light
  BY <1>4, <1>8, <1>9
<1> QED
  BY <1>10, <1>12, <1>13 DEF HandleAddress, commanded, moved, replied, here

\* What Process does around a packet leaves light, flags and places alone.
LEMMA ArrivedShows ==
    ASSUME NEW this \in Nodes, NEW packet
    PROVE  /\ SameShow(this, Arrived(this)) /\ SamePlaces(this, Arrived(this))
           /\ SameShow(this, From(this, packet))
           /\ SamePlaces(this, From(this, packet))
           /\ Arrived(this).light = this.light
<1>1. /\ Arrived(this).out = this.out /\ Arrived(this).light = this.light
      /\ From(this, packet).out = this.out
      /\ From(this, packet).light = this.light
  BY DEF Arrived, From, Nodes
<1> QED
  BY <1>1 DEF SameShow, SameAt, SamePlaces

-----------------------------------------------------------------------------
(* What a step shows *)

\* A step that leaves a port as it is, or settled.
StepSettles ==
    \A p \in Ports :
        \/ /\ light'[p] = light[p]
           /\ out'[p].IsTransmitting = out[p].IsTransmitting
           /\ out'[p].IsDataPending = out[p].IsDataPending
        \/ /\ light'[p].filled
           /\ light'[p].sent # light'[p].data
           => out'[p].IsDataPending

StepKeepsPlaces ==
    \A p \in Ports : /\ out'[p].direction = out[p].direction
                     /\ out'[p].address = out[p].address
                     /\ out'[p].protocol = out[p].protocol

LEMMA BecomeSettles ==
    ASSUME NEW next, Become(next), Settles(ThisNode, next)
    PROVE  StepSettles
BY DEF StepSettles, Settles, SettledAt, SameAt, Become, ThisNode

LEMMA BecomeKeepsPlaces ==
    ASSUME NEW next, Become(next), SamePlaces(ThisNode, next)
    PROVE  StepKeepsPlaces
BY DEF StepKeepsPlaces, SamePlaces, Become, ThisNode

\* Serving a port leaves it settled and the others as they were.
LEMMA ServePortSettles ==
    ASSUME NEW this \in Nodes, NEW packet \in ArtDmx,
           NEW todo, todo \subseteq Ports, todo # {},
           SameShow(ThisNode, this), SamePlaces(ThisNode, this),
           ServePort(this, packet, todo)
    PROVE  StepSettles /\ StepKeepsPlaces
<1>1. First(todo) \in Ports
  BY LeastPort DEF First
<1> DEFINE served == HandleDmx(this, First(todo), packet)
<1>2. /\ served \in Nodes
      /\ Settles(this, served) /\ SamePlaces(this, served)
  BY <1>1, HandleDmxType, HandleDmxSettles
<1>3. Become(From(served, packet)) \/ Become(served)
  BY DEF ServePort
<1> HIDE DEF served
<1>4. /\ Settles(ThisNode, served) /\ SamePlaces(ThisNode, served)
  BY <1>2, SameShowSettles, SettlesTwice, SamePlacesTwice
<1>5. /\ Settles(ThisNode, From(served, packet))
      /\ SamePlaces(ThisNode, From(served, packet))
  BY <1>2, <1>4, ArrivedShows, SameShowSettles, SettlesTwice, SamePlacesTwice
<1> QED
  BY <1>3, <1>4, <1>5, BecomeSettles, BecomeKeepsPlaces

\* What Run does without a command: packets, ArtSync, replies, data loss.
Runs ==
    \/ \E packet \in ArtDmx : \/ ReceiveDmx(packet)
                              \/ ReceiveDmxElsewhere(packet)
    \/ NextPort
    \/ \E from \in Controllers : ReceiveSync(from)
    \/ ReceiveOther
    \/ \E merging \in SUBSET Ports : PollReply(merging)
    \/ RunIdle

\* All of it settles, and moves no port.
LEMMA RunsSettle ==
    ASSUME TypeOK, Runs
    PROVE  StepSettles /\ StepKeepsPlaces
<1> DEFINE arrived == Arrived(ThisNode)
           Holds == StepSettles /\ StepKeepsPlaces
<1>1. ThisNode \in Nodes /\ arrived \in Nodes
  BY ThisNodeType, ArrivedType
<1>2. SameShow(ThisNode, arrived) /\ SamePlaces(ThisNode, arrived)
  BY <1>1, ArrivedShows
<1>3. SameShow(ThisNode, ThisNode) /\ SamePlaces(ThisNode, ThisNode)
  BY DEF SameShow, SameAt, SamePlaces
<1>4. ASSUME NEW packet \in ArtDmx, ReceiveDmx(packet)
      PROVE  Holds
  <2>1. Subscribed(packet.address) \subseteq Ports
    BY DEF Subscribed
  <2> QED
    BY <1>1, <1>2, <1>4, <2>1, ServePortSettles DEF ReceiveDmx
<1>5. CASE NextPort
  <2>1. frame \in ArtDmx /\ rest \subseteq Ports /\ rest # {}
    BY <1>5 DEF NextPort, TypeOK
  <2> QED
    BY <1>1, <1>3, <1>5, <2>1, ServePortSettles DEF NextPort
<1>6. ASSUME NEW next, Become(next), Settles(arrived, next),
             SamePlaces(arrived, next)
      PROVE  Holds
  <2> HIDE DEF arrived
  <2>1. Settles(ThisNode, next) /\ SamePlaces(ThisNode, next)
    BY <1>2, <1>6, SameShowSettles, SettlesTwice, SamePlacesTwice
  <2> QED
    BY <1>6, <2>1, BecomeSettles, BecomeKeepsPlaces
<1>7. ASSUME NEW packet \in ArtDmx, ReceiveDmxElsewhere(packet)
      PROVE  Holds
  <2>1. Become(From(arrived, packet))
    BY <1>7 DEF ReceiveDmxElsewhere
  <2> HIDE DEF arrived
  <2> QED
    BY <1>1, <1>6, <2>1, ArrivedShows, SameShowSettles
<1>8. ASSUME NEW from \in Controllers, ReceiveSync(from)
      PROVE  Holds
  <2>1. Become(HandleSync(arrived)) \/ Become(arrived)
    BY <1>8 DEF ReceiveSync
  <2> HIDE DEF arrived
  <2>2. Settles(arrived, arrived) /\ SamePlaces(arrived, arrived)
    BY DEF Settles, SameAt, SamePlaces
  <2> QED
    BY <1>1, <1>6, <2>1, <2>2, HandleSyncSettles
<1>9. CASE ReceiveOther
  <2>1. Become(arrived)
    BY <1>9 DEF ReceiveOther
  <2> HIDE DEF arrived
  <2> QED
    BY <1>2, <2>1, SameShowSettles, BecomeSettles, BecomeKeepsPlaces
<1>10. ASSUME NEW merging, PollReply(merging)
       PROVE  Holds
  <2>1. Become(SendPollReply(ThisNode, Ports, merging))
    BY <1>10 DEF PollReply
  <2> QED
    BY <1>1, <2>1, SendPollReplyShows, SameShowSettles, BecomeSettles,
       BecomeKeepsPlaces
<1>11. CASE RunIdle
  <2>1. Become(SetNetworkDataLossCondition(ThisNode))
    BY <1>11 DEF RunIdle
  <2> QED
    BY <1>1, <2>1, DataLossSettles, DataLossPlaces, BecomeSettles,
       BecomeKeepsPlaces
<1> QED
  BY <1>4, <1>5, <1>7, <1>8, <1>9, <1>10, <1>11 DEF Runs

\* And it keeps the types, whichever ports the bridge reports as merging.
LEMMA RunsType ==
    ASSUME TypeOK, Runs
    PROVE  TypeOK'
<1>1. ASSUME NEW merging, PollReply(merging)
      PROVE  TypeOK'
  BY <1>1, PollReplyType
<1>2. Next => TypeOK'
  BY NextType
<1> QED
  BY <1>1, <1>2 DEF Runs, Next

\* An ArtAddress settles, and moves its own port only, where it says.
LEMMA ReceiveAddressSettles ==
    ASSUME TypeOK, NEW p \in Ports, NEW address \in PortAddresses \cup {0},
           NEW command \in Commands, NEW merging,
           ReceiveAddress(p, address, command, merging)
    PROVE  /\ StepSettles
           /\ \A q \in Ports :
                 /\ out'[q].direction = out[q].direction
                 /\ out'[q].address =
                       IF q = p /\ out[p].direction = "OUTPUT"
                         THEN address ELSE out[q].address
                 /\ out'[q].protocol = IF q = p /\ command \in Protocols
                                         THEN command ELSE out[q].protocol
           /\ command # "CLR" => light' = light
<1> DEFINE arrived == Arrived(ThisNode)
           next == HandleAddress(arrived, p, address, command, merging)
<1>1. ThisNode \in Nodes /\ arrived \in Nodes
  BY ThisNodeType, ArrivedType
<1>2. /\ SameShow(ThisNode, arrived) /\ SamePlaces(ThisNode, arrived)
      /\ arrived.light = ThisNode.light
  BY <1>1, ArrivedShows
<1>3. Become(next)
  BY DEF ReceiveAddress
<1> HIDE DEF arrived
<1>4. /\ Settles(arrived, next)
      /\ Placed(arrived, next, p,
                IF arrived.out[p].direction = "OUTPUT"
                  THEN address ELSE arrived.out[p].address,
                Selected(arrived, p, command))
      /\ command # "CLR" => next.light = arrived.light
  BY <1>1, HandleAddressSettles
<1> HIDE DEF next
<1>5. Settles(ThisNode, next)
  BY <1>2, <1>4, SameShowSettles, SettlesTwice
<1>6. StepSettles
  BY <1>3, <1>5, BecomeSettles
<1>7. ASSUME NEW q \in Ports
      PROVE  /\ next.out[q].direction = out[q].direction
             /\ next.out[q].address =
                   IF q = p /\ out[p].direction = "OUTPUT"
                     THEN address ELSE out[q].address
             /\ next.out[q].protocol = IF q = p /\ command \in Protocols
                                         THEN command ELSE out[q].protocol
  <2>1. /\ \A o \in Ports : /\ arrived.out[o].direction = out[o].direction
                            /\ arrived.out[o].address = out[o].address
                            /\ arrived.out[o].protocol = out[o].protocol
    BY <1>2 DEF SamePlaces, ThisNode
  <2> QED
    BY <1>4, <2>1 DEF Placed, Selected
<1>8. command # "CLR" => next.light = light
  BY <1>2, <1>4 DEF ThisNode
<1> QED
  BY <1>3, <1>6, <1>7, <1>8 DEF Become

\* The clock changes nothing that is shown, nor moves a port.
LEMMA TickSettles ==
    ASSUME TypeOK, Tick
    PROVE  StepSettles /\ StepKeepsPlaces
<1>1. out \in [Ports -> OutputPort]
  BY DEF TypeOK
<1>2. ASSUME NEW p \in Ports
      PROVE  /\ out'[p].IsTransmitting = out[p].IsTransmitting
             /\ out'[p].IsDataPending = out[p].IsDataPending
  BY <1>1, ZenonT(60) DEF Tick, OutputPort
<1>3. ASSUME NEW p \in Ports
      PROVE  /\ out'[p].direction = out[p].direction
             /\ out'[p].address = out[p].address
             /\ out'[p].protocol = out[p].protocol
  BY <1>1, ZenonT(60) DEF Tick, OutputPort
<1>4. light' = light
  BY DEF Tick
<1> QED
  BY <1>2, <1>3, <1>4 DEF StepSettles, StepKeepsPlaces

\* Configuration moves its own port only, and changes nothing that is shown.
LEMMA SetPortSettles ==
    ASSUME TypeOK, NEW p \in Ports, NEW direction, NEW address, NEW mergeMode,
           NEW protocol, SetPort(p, direction, address, mergeMode, protocol)
    PROVE  /\ StepSettles
           /\ \A q \in Ports :
                 /\ out'[q].direction = IF q = p THEN direction
                                               ELSE out[q].direction
                 /\ out'[q].address =
                       IF q = p /\ direction = "OUTPUT"
                         THEN address ELSE out[q].address
                 /\ out'[q].protocol = IF q = p THEN protocol
                                              ELSE out[q].protocol
<1>1. out \in [Ports -> OutputPort] /\ out[p] \in OutputPort
  BY DEF TypeOK
<1> DEFINE outNow == [out[p] EXCEPT
                        !.direction = direction,
                        !.address = IF direction = "OUTPUT" THEN address ELSE @,
                        !.mergeMode = mergeMode, !.protocol = protocol]
<1>2. /\ outNow.IsTransmitting = out[p].IsTransmitting
      /\ outNow.IsDataPending = out[p].IsDataPending
      /\ outNow.direction = direction
      /\ outNow.address = IF direction = "OUTPUT" THEN address ELSE out[p].address
      /\ outNow.protocol = protocol
  BY <1>1 DEF OutputPort
<1>3. out' = [out EXCEPT ![p] = outNow]
  BY <1>1 DEF SetPort
<1> HIDE DEF outNow
<1>4. out'[p] = outNow /\ \A q \in Ports \ {p} : out'[q] = out[q]
  BY <1>1, <1>3
<1>5. light' = light
  BY DEF SetPort
<1> QED
  BY <1>2, <1>4, <1>5 DEF StepSettles

\* StopNode moves no port.
LEMMA StopNodePlaces ==
    ASSUME TypeOK, StopNode
    PROVE  StepKeepsPlaces
BY DEF TypeOK, StopNode, StepKeepsPlaces, OutputPort

-----------------------------------------------------------------------------
(* OutputIsCurrent, also while the node boots *)

\* OutputIsCurrent alone says nothing of a node that boots, and such a node is
\* about to run.
ShownInv == TypeOK /\ (main # "halt" => Shown(ThisNode))

\* What is shown stays so in a step that settles.
LEMMA StepShows ==
    ASSUME Shown(ThisNode), StepSettles
    PROVE  Shown(ThisNode)'
BY DEF Shown, SettledAt, StepSettles, ThisNode

\* Every step keeps the invariant: StopNode leaves what is shown behind, and
\* Reboot starts with a light without data.
LEMMA NextShown == ShownInv /\ [Next]_vars => ShownInv'
<1> SUFFICES ASSUME ShownInv, [Next]_vars
             PROVE  (main # "halt" => Shown(ThisNode))'
  BY NextType DEF ShownInv
<1>1. TypeOK /\ out \in [Ports -> OutputPort]
  BY DEF ShownInv, TypeOK
<1>2. ASSUME Runs
      PROVE  Shown(ThisNode)'
  <2>1. main = "loop"
    BY <1>2 DEF Runs, ReceiveDmx, ReceiveDmxElsewhere, NextPort, ReceiveSync,
       ReceiveOther, PollReply, RunIdle, IsRunning
  <2> QED
    BY <1>1, <1>2, <2>1, RunsSettle, StepShows DEF ShownInv
<1>3. ASSUME NEW p \in Ports, NEW address \in PortAddresses,
             NEW command \in Commands, NEW merging,
             ReceiveAddress(p, address, command, merging)
      PROVE  Shown(ThisNode)'
  <2>1. main = "loop"
    BY <1>3 DEF ReceiveAddress, IsRunning
  <2> QED
    BY <1>1, <1>3, <2>1, ReceiveAddressSettles, StepShows DEF ShownInv
<1>4. CASE Tick
  <2>1. main # "halt"
    BY <1>4 DEF Tick, IsRunning
  <2> QED
    BY <1>1, <1>4, <2>1, TickSettles, StepShows DEF ShownInv
<1>5. ASSUME NEW p \in Ports, NEW direction \in {"OUTPUT", "DISABLE"},
             NEW address \in PortAddresses, NEW mergeMode \in MergeModes,
             NEW protocol \in Protocols,
             SetPort(p, direction, address, mergeMode, protocol)
      PROVE  Shown(ThisNode)'
  <2>1. main # "halt"
    BY <1>5 DEF SetPort
  <2> QED
    BY <1>1, <1>5, <2>1, SetPortSettles, StepShows DEF ShownInv
<1>6. ASSUME main # "halt", light' = light, out' = out
      PROVE  Shown(ThisNode)'
  <2>1. StepSettles
    BY <1>6 DEF StepSettles
  <2> QED
    BY <1>6, <2>1, StepShows DEF ShownInv
<1>7. ASSUME NEW failsafe \in FailSafes, SetFailSafe(failsafe)
      PROVE  Shown(ThisNode)'
  BY <1>6, <1>7 DEF SetFailSafe
<1>8. CASE StartNode
  BY <1>6, <1>8 DEF StartNode
<1>9. CASE StopNode
  BY <1>9 DEF StopNode
<1>10. CASE Reboot
  BY <1>10 DEF Reboot, Shown, ThisNode, PortAtBoot
<1>11. CASE UNCHANGED vars
  BY <1>6, <1>11 DEF vars
<1>12. Sacn \subseteq Ports
  BY DEF Sacn
<1> QED
  BY <1>2, <1>3, <1>4, <1>5, <1>7, <1>8, <1>9, <1>10, <1>11, <1>12
     DEF Next, Runs

\* The driver of a transmitting port shows the merge of its sources, or the
\* data waits for an ArtSync, in whatever order packets, timeouts, commands
\* and synchronization come.
THEOREM NodeOutputsCurrent == Spec => []OutputIsCurrent
<1>1. Init => ShownInv
  <2>1. Init => TypeOK
    BY BootType DEF Init, TypeOK
  <2>2. Init => Shown(ThisNode)
    BY DEF Init, Shown, ThisNode, PortAtBoot
  <2> QED
    BY <2>1, <2>2 DEF ShownInv
<1>2. ShownInv /\ [Next]_vars => ShownInv'
  BY NextShown
<1>3. ShownInv => OutputIsCurrent
  BY DEF ShownInv, OutputIsCurrent, Shown, SettledAt, ThisNode
<1> QED
  BY <1>1, <1>2, <1>3, PTL DEF Spec

-----------------------------------------------------------------------------
(* What is held back in synchronous mode *)

\* No port that transmits without merging has been handed data.
HoldsBack(this, next) ==
    \A p \in Ports : next.out[p].IsTransmitting /\ ~next.out[p].IsMerging
                     => next.light[p].sent = this.light[p].sent

SameSent(this, next) ==
    \A p \in Ports : next.light[p].sent = this.light[p].sent

\* Merging hands nothing to the driver.
LEMMA MergeSent ==
    ASSUME NEW this \in Nodes, NEW p \in Ports, NEW packet \in ArtDmx
    PROVE  SameSent(this, Merge(this, p, packet))
<1> DEFINE A == this.out[p].sourceA
           B == this.out[p].sourceB
           toA == GoesToA(A, B, packet)
           toB == GoesToB(A, B, packet)
           isMerge == (toA /\ Occupied(B)) \/ (toB /\ Occupied(A))
           mode == IF isMerge THEN this.out[p].mergeMode ELSE "LTP"
           lit == CASE toA -> MergeSourceA(this.light, p, packet.level, mode)
                    [] toB -> MergeSourceB(this.light, p, packet.level, mode)
                    [] OTHER -> this.light
           stored == [this EXCEPT
                !.out[p].sourceA = IF toA THEN Filled(packet) ELSE @,
                !.out[p].sourceB = IF toB THEN Filled(packet) ELSE @,
                !.light = CASE toA -> MergeSourceA(@, p, packet.level, mode)
                            [] toB -> MergeSourceB(@, p, packet.level, mode)
                            [] OTHER -> @]
<1>1. this.light \in [Ports -> LightPort]
  BY NodeFields DEF Light
<1> HIDE DEF toA, toB, mode
<1>2. \A q \in Ports : lit[q].sent = this.light[q].sent
  BY <1>1 DEF MergeSourceA, MergeSourceB, LightPort
<1>3. stored.light = lit
  BY DEF Nodes
<1> HIDE DEF lit, stored
<1>4. SameSent(this, stored)
  BY <1>2, <1>3 DEF SameSent
<1>5. UpdateMergeStatus(stored, p).light = stored.light
  BY <1>3 DEF UpdateMergeStatus
<1>6. SameSent(this, UpdateMergeStatus(stored, p))
  BY <1>4, <1>5 DEF SameSent
<1> QED
  BY <1>4, <1>6, ZenonT(60) DEF Merge, stored, A, B, toA, toB, isMerge, mode

\* Update in synchronous mode sends at most the data of a port that merges.
LEMMA UpdateHolds ==
    ASSUME NEW this \in Nodes, NEW p \in Ports,
           Update(this, p).node.IsSynchronousMode
    PROVE  HoldsBack(this, Update(this, p))
<1> DEFINE lit == IF this.out[p].IsTransmitting
                    THEN Output(this.light, p)
                    ELSE Start(Output(this.light, p), p)
           holds == [this EXCEPT !.out[p].IsDataPending = TRUE]
           sends == [this EXCEPT !.light = lit, !.out[p].IsTransmitting = TRUE]
<1>1. /\ this.out[p] \in OutputPort /\ this.out \in [Ports -> OutputPort]
      /\ this.light \in [Ports -> LightPort]
  BY NodeFields DEF Light
<1>2. \A q \in Ports \ {p} : lit[q] = this.light[q]
  BY <1>1 DEF Output, Start
<1> HIDE DEF lit
<1>3. /\ holds.node = this.node /\ holds.light = this.light
      /\ sends.node = this.node /\ sends.light = lit
      /\ sends.out[p].IsMerging = this.out[p].IsMerging
  BY <1>1 DEF Nodes, OutputPort
<1>4. Update(this, p) = IF this.node.IsSynchronousMode /\ ~this.out[p].IsMerging
                          THEN holds ELSE sends
  BY DEF Update, holds, sends, lit
<1> HIDE DEF holds, sends
<1>5. HoldsBack(this, holds)
  BY <1>3 DEF HoldsBack
<1>6. this.out[p].IsMerging => HoldsBack(this, sends)
  BY <1>2, <1>3 DEF HoldsBack
<1> QED
  BY <1>3, <1>4, <1>5, <1>6

\* So does HandleDmx, for one port.
LEMMA HandleDmxHolds ==
    ASSUME NEW this \in Nodes, NEW p \in Ports, NEW packet \in ArtDmx,
           HandleDmx(this, p, packet).node.IsSynchronousMode
    PROVE  HoldsBack(this, HandleDmx(this, p, packet))
<1> DEFINE checked == Checked(this, p)
           merged == Merge(checked, p, packet)
           updated == Update(merged, p)
<1>1. checked \in Nodes /\ SameSent(this, checked)
  BY CheckMergeTimeoutsType, CheckedShows
     DEF Checked, SameShow, SameAt, SameSent
<1> HIDE DEF checked
<1>2. merged \in Nodes /\ SameSent(checked, merged)
  BY <1>1, MergeType, MergeSent
<1> HIDE DEF merged
<1>3. updated.node.IsSynchronousMode => HoldsBack(merged, updated)
  BY <1>2, UpdateHolds
<1> HIDE DEF updated
<1>4. updated.node.IsSynchronousMode => HoldsBack(this, updated)
  BY <1>1, <1>2, <1>3 DEF HoldsBack, SameSent
<1>5. HoldsBack(this, checked)
  BY <1>1 DEF HoldsBack, SameSent
<1> QED
  BY <1>4, <1>5 DEF HandleDmx, checked, merged, updated

\* An ArtSync sends all that waits, or only enters synchronous mode.
LEMMA HandleSyncTogether ==
    ASSUME NEW this \in Nodes
    PROVE  \/ HoldsBack(this, HandleSync(this))
           \/ \A p \in Ports : ~HandleSync(this).out[p].IsDataPending
<1> DEFINE pending == {p \in Ports : this.out[p].IsDataPending}
           entered == [this EXCEPT !.node.IsSynchronousMode = TRUE,
                                   !.node.syncAge = 0]
           sent(p) == [this.out[p] EXCEPT
                           !.IsDataPending = FALSE,
                           !.IsTransmitting = @ \/ p \in pending]
           released == [this EXCEPT !.node.syncAge = 0,
                                    !.light = Sync(@, pending),
                                    !.out = [p \in Ports |-> sent(p)]]
<1>1. \A p \in Ports : this.out[p] \in OutputPort
  BY NodeFields
<1>2. \A p \in Ports : ~sent(p).IsDataPending
  BY <1>1, ZenonT(60) DEF OutputPort
<1>3. HandleSync(this) \in {entered, released}
  BY DEF HandleSync, entered, released, sent, pending
<1> HIDE DEF pending, sent
<1>4. entered.light = this.light
  BY DEF Nodes
<1>5. released.out = [p \in Ports |-> sent(p)]
  BY DEF Nodes
<1> HIDE DEF entered, released
<1>6. HoldsBack(this, entered)
  BY <1>4 DEF HoldsBack
<1>7. \A p \in Ports : ~released.out[p].IsDataPending
  BY <1>2, <1>5
<1> QED
  BY <1>3, <1>6, <1>7

\* The commands of ArtAddress other than CLR do not reach the light.
LEMMA HandleAddressDark ==
    ASSUME NEW this \in Nodes, NEW p \in Ports, NEW address \in PortAddresses,
           NEW command \in Commands, NEW merging, command # "CLR"
    PROVE  HandleAddress(this, p, address, command, merging).light = this.light
<1> DEFINE moved == SetPortAddress(this, p, address)
           commanded == Command(moved, p, command)
<1>1. [this.out[p] EXCEPT !.address = address] \in OutputPort
  BY NodeFields DEF OutputPort
<1>2. moved \in Nodes /\ moved.light = this.light
  BY <1>1 DEF SetPortAddress, Nodes
<1> HIDE DEF moved
<1>3. commanded.light = moved.light
  <2>1. CASE command = "CANCEL"
    <3>1. commanded = CancelMerge(moved)
      BY <2>1, FailSafesAssumption, MergeModesAssumption, ProtocolsAssumption
         DEF Command
    <3>2. CancelMerge(moved).light = moved.light
      BY <1>2 DEF CancelMerge, EmptySlots, Nodes
    <3> QED
      BY <3>1, <3>2
  <2>2. CASE command # "CANCEL"
    BY <1>2, <2>2 DEF Command, FailSafeRecord, Nodes
  <2> QED
    BY <2>1, <2>2
<1>4. commanded \in Nodes
  BY <1>2, CommandType
<1> HIDE DEF commanded
<1>5. SendPollReply(commanded, {p}, merging).light = commanded.light
  BY <1>4 DEF SendPollReply, Nodes
<1> QED
  BY <1>2, <1>3, <1>5 DEF HandleAddress, commanded, moved

\* Network data loss ends synchronous mode.
LEMMA DataLossEndsSync ==
    ASSUME NEW this \in Nodes
    PROVE  ~SetNetworkDataLossCondition(this).node.IsSynchronousMode
<1> DEFINE reset == [this EXCEPT !.node.IsMergeMode = FALSE,
                                 !.node.IsSynchronousMode = FALSE]
           failed == FailSafe(reset)
<1>1. this.node \in State
  BY NodeFields
<1>2. reset \in Nodes /\ ~reset.node.IsSynchronousMode
  BY <1>1 DEF Nodes, State
<1> HIDE DEF reset
<1>3. failed \in Nodes /\ failed.node = reset.node
  BY <1>2, FailSafeType DEF FailSafe, FailSafePlayback, Nodes
<1> HIDE DEF failed
<1>4. [EmptySlots(failed) EXCEPT !.light = ClearLength(@, Ports)].node
         = failed.node
  BY <1>3 DEF EmptySlots, Nodes
<1> QED
  BY <1>2, <1>3, <1>4 DEF SetNetworkDataLossCondition, reset, failed

\* Serving a port in synchronous mode.
LEMMA ServePortHolds ==
    ASSUME NEW this \in Nodes, NEW packet \in ArtDmx,
           NEW todo, todo \subseteq Ports, todo # {},
           ServePort(this, packet, todo), this.light = light,
           node'.IsSynchronousMode
    PROVE  \A p \in Ports : out'[p].IsTransmitting /\ ~out'[p].IsMerging
                            => light'[p].sent = light[p].sent
<1>1. First(todo) \in Ports
  BY LeastPort DEF First
<1> DEFINE served == HandleDmx(this, First(todo), packet)
<1>2. served \in Nodes
  BY <1>1, HandleDmxType
<1>3. Become(From(served, packet)) \/ Become(served)
  BY DEF ServePort
<1>4. served.node.IsSynchronousMode => HoldsBack(this, served)
  BY <1>1, HandleDmxHolds
<1> HIDE DEF served
<1>5. /\ From(served, packet).out = served.out
      /\ From(served, packet).light = served.light
      /\ From(served, packet).node.IsSynchronousMode
            = served.node.IsSynchronousMode
  BY <1>2 DEF From, Nodes, State
<1>6. /\ out' = served.out /\ light' = served.light
      /\ served.node.IsSynchronousMode
  BY <1>3, <1>5 DEF Become
<1> QED
  BY <1>4, <1>6 DEF HoldsBack

\* In synchronous mode only an ArtSync and CLR send to a port that goes on
\* transmitting without a merge.
LEMMA NextTogether ==
    ASSUME TypeOK, [Next]_vars, node'.IsSynchronousMode, main' = "loop",
           ~ReceiveClear
    PROVE  \/ \A p \in Ports : out'[p].IsTransmitting /\ ~out'[p].IsMerging
                               => light'[p].sent = light[p].sent
           \/ \A p \in Ports : ~out'[p].IsDataPending
<1> DEFINE Holds == \A p \in Ports :
                       out'[p].IsTransmitting /\ ~out'[p].IsMerging
                       => light'[p].sent = light[p].sent
           Empty == \A p \in Ports : ~out'[p].IsDataPending
           arrived == Arrived(ThisNode)
<1> SUFFICES Holds \/ Empty
  OBVIOUS
<1>1. light' = light => Holds
  OBVIOUS
<1>2. ThisNode \in Nodes /\ arrived \in Nodes
  BY ThisNodeType, ArrivedType
<1>3. /\ ThisNode.light = light /\ arrived.light = light
      /\ \A packet : From(arrived, packet).light = light
  <2>1. ThisNode.light = light
    BY DEF ThisNode
  <2>2. arrived.light = ThisNode.light
    BY <1>2 DEF Arrived, Nodes
  <2> HIDE DEF arrived
  <2>3. \A packet : From(arrived, packet).light = arrived.light
    BY <1>2 DEF From, Nodes
  <2> QED
    BY <2>1, <2>2, <2>3
<1>4. ASSUME NEW packet \in ArtDmx, ReceiveDmx(packet)
      PROVE  Holds
  <2> DEFINE todo == Subscribed(packet.address)
  <2>1. todo \subseteq Ports /\ todo # {} /\ ServePort(arrived, packet, todo)
    BY <1>4 DEF Subscribed, ReceiveDmx
  <2> HIDE DEF todo, arrived
  <2> QED
    BY <1>2, <1>3, <2>1, ServePortHolds
<1>5. ASSUME NEW packet \in ArtDmx, ReceiveDmxElsewhere(packet)
      PROVE  Holds
  BY <1>1, <1>3, <1>5 DEF ReceiveDmxElsewhere, Become
<1>6. CASE NextPort
  <2>1. /\ frame \in ArtDmx /\ rest \subseteq Ports /\ rest # {}
        /\ ServePort(ThisNode, frame, rest)
    BY <1>6 DEF NextPort, TypeOK
  <2> QED
    BY <1>2, <1>3, <2>1, ServePortHolds
<1>7. ASSUME NEW from \in Controllers, ReceiveSync(from)
      PROVE  Holds \/ Empty
  <2>1. Become(HandleSync(arrived)) \/ Become(arrived)
    BY <1>7 DEF ReceiveSync
  <2> HIDE DEF arrived
  <2>2. \/ HoldsBack(arrived, HandleSync(arrived))
        \/ \A p \in Ports : ~HandleSync(arrived).out[p].IsDataPending
    BY <1>2, HandleSyncTogether
  <2>3. CASE Become(HandleSync(arrived))
    BY <1>3, <2>2, <2>3 DEF HoldsBack, Become
  <2>4. CASE Become(arrived)
    BY <1>1, <1>3, <2>4 DEF Become
  <2> QED
    BY <2>1, <2>3, <2>4
<1>8. ASSUME NEW p \in Ports, NEW address \in PortAddresses,
             NEW command \in Commands, NEW merging \in SUBSET {p},
             ReceiveAddress(p, address, command, merging)
      PROVE  Holds
  <2> DEFINE next == HandleAddress(arrived, p, address, command, merging)
  <2>4. command # "CLR"
    BY <1>8 DEF ReceiveClear
  <2>1. next.light = light
    BY <1>2, <1>3, <2>4, HandleAddressDark
  <2>2. Become(next)
    BY <1>8 DEF ReceiveAddress
  <2> HIDE DEF next
  <2>3. light' = light
    BY <2>1, <2>2 DEF Become
  <2> QED
    BY <1>1, <2>3
<1>9. CASE ReceiveOther
  BY <1>1, <1>3, <1>9 DEF ReceiveOther, Become
<1>10. ASSUME NEW merging, PollReply(merging)
       PROVE  Holds
  <2>1. SendPollReply(ThisNode, Ports, merging).light = ThisNode.light
    BY <1>2 DEF SendPollReply, Nodes
  <2> QED
    BY <1>1, <1>3, <1>10, <2>1 DEF PollReply, Become
<1>11. ~RunIdle
  BY <1>2, DataLossEndsSync DEF RunIdle, Become
<1>12. CASE Tick
  <2>1. light' = light
    BY <1>12 DEF Tick
  <2> QED
    BY <1>1, <2>1
<1>13. ASSUME NEW p, NEW direction, NEW address, NEW mergeMode, NEW protocol,
              SetPort(p, direction, address, mergeMode, protocol)
       PROVE  Holds
  BY <1>1, <1>13 DEF SetPort
<1>14. ASSUME NEW failsafe, SetFailSafe(failsafe)
       PROVE  Holds
  BY <1>1, <1>14 DEF SetFailSafe
<1>15. CASE StartNode
  BY <1>1, <1>15 DEF StartNode
<1>16. ~StopNode /\ ~Reboot
  BY DEF StopNode, Reboot
<1>17. CASE UNCHANGED vars
  BY <1>1, <1>17 DEF vars
<1> HIDE DEF Holds, Empty
<1> QED
  BY <1>4, <1>5, <1>6, <1>7, <1>8, <1>9, <1>10, <1>11, <1>12, <1>13, <1>14,
     <1>15, <1>16, <1>17 DEF Next

\* In synchronous mode no port is left waiting when data is sent: only an
\* ArtSync sends it, the command CLR and ports that merge aside, and it sends
\* that of all ports.
THEOREM NodeHeldBackTogether == Spec => SynchronizedTogether
<1>1. TypeOK /\ [Next]_vars =>
        [ /\ node.IsSynchronousMode /\ node'.IsSynchronousMode
          /\ main' = "loop"
          /\ \E p \in Ports : /\ light'[p].sent # light[p].sent
                              /\ out'[p].IsTransmitting /\ ~out'[p].IsMerging
          /\ ~ReceiveClear
          => \A p \in Ports : ~out'[p].IsDataPending
        ]_vars
  BY NextTogether
<1> QED
  BY <1>1, NodeTypeCorrect, PTL DEF Spec, SynchronizedTogether

-----------------------------------------------------------------------------
(***************************************************************************)
(* Who is turned away                                                      *)
(*                                                                         *)
(* HandleDmx gives silent sources up only in merge mode.  So a port with   *)
(* two sources must be known to merge, in its own flag and in the node's.  *)
(* That is so as long as no poll reply overwrites the flag of a port with  *)
(* what the sACN bridge says of it.                                        *)
(***************************************************************************)
HoldsTwo(this, p) == /\ Occupied(this.out[p].sourceA)
                     /\ Occupied(this.out[p].sourceB)

MergesKnown(this) ==
    \A p \in Ports : HoldsTwo(this, p)
                     => this.out[p].IsMerging /\ this.node.IsMergeMode

\* A step that fills no slot and leaves the merge flags alone.
SameMerges(this, next) ==
    /\ NoneFilled(this, next)
    /\ \A p \in Ports : next.out[p].IsMerging = this.out[p].IsMerging
    /\ next.node.IsMergeMode = this.node.IsMergeMode

\* It keeps every merge known.
LEMMA SameMergesKnown ==
    ASSUME NEW this, NEW next, MergesKnown(this), SameMerges(this, next)
    PROVE  MergesKnown(next)
BY DEF MergesKnown, SameMerges, HoldsTwo, NoneFilled, Kept, Occupied

\* So does a step after which no port has two sources.
LEMMA NoTwoKnown ==
    ASSUME NEW this, \A p \in Ports : ~HoldsTwo(this, p)
    PROVE  MergesKnown(this)
BY DEF MergesKnown

\* What the merge timeouts do to the slots and the flags of a port.
Expired(source) == source.age > MergeTimeout

TimedOut(this, next, p) ==
    /\ Occupied(next.out[p].sourceA)
       => Occupied(this.out[p].sourceA) /\ ~Expired(this.out[p].sourceA)
    /\ Occupied(next.out[p].sourceB)
       => Occupied(this.out[p].sourceB) /\ ~Expired(this.out[p].sourceB)
    /\ ~Expired(this.out[p].sourceA) /\ ~Expired(this.out[p].sourceB)
       => next.out[p].IsMerging = this.out[p].IsMerging
    /\ \A q \in Ports \ {p} : next.out[q] = this.out[q]
    /\ next.node.IsMergeMode = /\ this.node.IsMergeMode
                               /\ \E q \in Ports : next.out[q].IsMerging

\* The timeouts of a port are that.
LEMMA CheckedSlots ==
    ASSUME NEW this \in Nodes, NEW p \in Ports
    PROVE  TimedOut(this, CheckMergeTimeouts(this, p), p)
<1> DEFINE expiredA == this.out[p].sourceA.age > MergeTimeout
           expiredB == this.out[p].sourceB.age > MergeTimeout
           outNow == [this.out[p] EXCEPT
                !.sourceA = IF expiredA THEN EmptySlot(@) ELSE @,
                !.sourceB = IF expiredB THEN EmptySlot(@) ELSE @,
                !.IsMerging = @ /\ ~expiredA /\ ~expiredB]
           checked == [this EXCEPT
                !.out[p].sourceA = IF expiredA THEN EmptySlot(@) ELSE @,
                !.out[p].sourceB = IF expiredB THEN EmptySlot(@) ELSE @,
                !.out[p].IsMerging = @ /\ ~expiredA /\ ~expiredB]
           merging == \E q \in Ports : checked.out[q].IsMerging
           next == CheckMergeTimeouts(this, p)
<1>1. this.out \in [Ports -> OutputPort] /\ this.out[p] \in OutputPort
  BY NodeFields
<1>2. /\ ~Occupied(EmptySlot(this.out[p].sourceA))
      /\ ~Occupied(EmptySlot(this.out[p].sourceB))
  BY <1>1 DEF EmptySlot, Occupied, OutputPort, Source
<1>3. /\ outNow.sourceA = IF expiredA THEN EmptySlot(this.out[p].sourceA)
                                      ELSE this.out[p].sourceA
      /\ outNow.sourceB = IF expiredB THEN EmptySlot(this.out[p].sourceB)
                                      ELSE this.out[p].sourceB
      /\ ~expiredA /\ ~expiredB => outNow.IsMerging = this.out[p].IsMerging
  BY <1>1 DEF OutputPort
<1>4. checked = [this EXCEPT !.out[p] = outNow]
  BY ZenonT(60) DEF Nodes
<1> HIDE DEF outNow, checked, expiredA, expiredB
<1>5. /\ checked.out = [this.out EXCEPT ![p] = outNow]
      /\ checked.node = this.node
      /\ checked \in [node : {checked.node}, out : {checked.out},
                      light : {checked.light}, scene : {checked.scene}]
  BY <1>4 DEF Nodes
<1>6. next = [checked EXCEPT !.node.IsMergeMode = @ /\ merging]
  BY DEF CheckMergeTimeouts, checked, expiredA, expiredB
<1>7. /\ next.out = checked.out
      /\ next.node = [checked.node EXCEPT !.IsMergeMode = @ /\ merging]
  <2> HIDE DEF merging, next
  <2> QED
    BY <1>5, <1>6
<1> HIDE DEF next
<1>8. next.node.IsMergeMode = (this.node.IsMergeMode /\ merging)
  <2> HIDE DEF merging
  <2> QED
    BY <1>5, <1>7, NodeFields DEF State
<1>9. /\ next.out[p] = outNow
      /\ \A q \in Ports \ {p} : next.out[q] = this.out[q]
  BY <1>1, <1>5, <1>7
<1>10. merging = \E q \in Ports : next.out[q].IsMerging
  BY <1>7
<1> HIDE DEF merging
<1>11. /\ Occupied(next.out[p].sourceA)
          => Occupied(this.out[p].sourceA) /\ ~expiredA
       /\ Occupied(next.out[p].sourceB)
          => Occupied(this.out[p].sourceB) /\ ~expiredB
       /\ ~expiredA /\ ~expiredB
          => next.out[p].IsMerging = this.out[p].IsMerging
  BY <1>2, <1>3, <1>9
<1> QED
  BY <1>8, <1>9, <1>10, <1>11 DEF TimedOut, Expired, next, expiredA, expiredB

\* The timeouts of one port leave the merges of the others known.
LEMMA CheckedKnown ==
    ASSUME NEW this \in Nodes, NEW p \in Ports, MergesKnown(this)
    PROVE  MergesKnown(Checked(this, p))
<1> DEFINE next == CheckMergeTimeouts(this, p)
<1> SUFFICES ASSUME this.node.IsMergeMode, NEW q \in Ports, HoldsTwo(next, q)
             PROVE  next.out[q].IsMerging /\ next.node.IsMergeMode
  BY DEF Checked, MergesKnown
<1>1. TimedOut(this, next, p)
  BY CheckedSlots
<1> HIDE DEF next
<1>2. HoldsTwo(this, q) /\ next.out[q].IsMerging = this.out[q].IsMerging
  <2>1. CASE q = p
    BY <1>1, <2>1 DEF TimedOut, HoldsTwo
  <2>2. CASE q # p
    BY <1>1, <2>2 DEF TimedOut, HoldsTwo
  <2> QED
    BY <2>1, <2>2
<1>3. next.out[q].IsMerging
  BY <1>2 DEF MergesKnown
<1> QED
  BY <1>1, <1>3 DEF TimedOut

\* A packet that fills the second slot marks the merge.
LEMMA MergeKnown ==
    ASSUME NEW this \in Nodes, NEW p \in Ports, NEW packet \in ArtDmx,
           MergesKnown(this)
    PROVE  MergesKnown(Merge(this, p, packet))
<1> DEFINE A == this.out[p].sourceA
           B == this.out[p].sourceB
           toA == GoesToA(A, B, packet)
           toB == GoesToB(A, B, packet)
           isMerge == (toA /\ Occupied(B)) \/ (toB /\ Occupied(A))
           mode == IF isMerge THEN this.out[p].mergeMode ELSE "LTP"
           outNow == [this.out[p] EXCEPT
                !.sourceA = IF toA THEN Filled(packet) ELSE @,
                !.sourceB = IF toB THEN Filled(packet) ELSE @]
           stored == [this EXCEPT
                !.out[p].sourceA = IF toA THEN Filled(packet) ELSE @,
                !.out[p].sourceB = IF toB THEN Filled(packet) ELSE @,
                !.light = CASE toA -> MergeSourceA(@, p, packet.level, mode)
                            [] toB -> MergeSourceB(@, p, packet.level, mode)
                            [] OTHER -> @]
           marked == UpdateMergeStatus(stored, p)
<1>1. /\ this.out \in [Ports -> OutputPort] /\ this.out[p] \in OutputPort
      /\ this.node \in State
  BY NodeFields
<1>2. ~(toA /\ toB)
  BY DEF GoesToA, GoesToB, Matches, Occupied
<1> HIDE DEF toA, toB, mode
<1>3. /\ outNow.sourceA = IF toA THEN Filled(packet) ELSE A
      /\ outNow.sourceB = IF toB THEN Filled(packet) ELSE B
      /\ outNow.IsMerging = this.out[p].IsMerging
      /\ outNow \in [direction : {outNow.direction},
                     protocol : {outNow.protocol},
                     address : {outNow.address},
                     sourceA : {outNow.sourceA}, sourceB : {outNow.sourceB},
                     mergeMode : {outNow.mergeMode},
                     IsMerging : {outNow.IsMerging},
                     IsTransmitting : {outNow.IsTransmitting},
                     IsDataPending : {outNow.IsDataPending}]
  BY <1>1 DEF OutputPort
<1>4. stored.out = [this.out EXCEPT ![p] = outNow]
  BY ZenonT(60) DEF Nodes
<1>5. /\ stored.node = this.node
      /\ stored \in [node : {stored.node}, out : {stored.out},
                     light : {stored.light}, scene : {stored.scene}]
  BY DEF Nodes
<1> HIDE DEF outNow, stored, A, B
<1>6. /\ stored.out[p] = outNow
      /\ \A q \in Ports \ {p} : stored.out[q] = this.out[q]
      /\ DOMAIN stored.out = Ports
  BY <1>1, <1>4
<1>7. /\ marked.out = [stored.out EXCEPT ![p] =
                          [stored.out[p] EXCEPT !.IsMerging = TRUE]]
      /\ marked.node = [this.node EXCEPT !.IsMergeMode = TRUE]
  BY <1>5, <1>6 DEF UpdateMergeStatus
<1> HIDE DEF marked
<1>8. [outNow EXCEPT !.IsMerging = TRUE].IsMerging
  BY <1>3
<1>9. /\ marked.out[p].IsMerging /\ marked.node.IsMergeMode
      /\ \A q \in Ports \ {p} : marked.out[q] = this.out[q]
  BY <1>1, <1>6, <1>7, <1>8 DEF State
<1>10. MergesKnown(marked)
  BY <1>9 DEF MergesKnown, HoldsTwo
<1>11. ~isMerge /\ HoldsTwo(stored, p) => HoldsTwo(this, p)
  BY <1>2, <1>3, <1>6 DEF HoldsTwo, A, B
<1>12. ~isMerge => MergesKnown(stored)
  <2> HIDE DEF isMerge
  <2> QED
    BY <1>3, <1>5, <1>6, <1>11 DEF MergesKnown, HoldsTwo
<1>13. Merge(this, p, packet) = IF isMerge THEN marked ELSE stored
  BY DEF Merge, marked, stored, isMerge, mode, toA, toB, A, B
<1> HIDE DEF isMerge
<1> QED
  BY <1>10, <1>12, <1>13

\* HandleDmx keeps every merge known.
LEMMA HandleDmxKnown ==
    ASSUME NEW this \in Nodes, NEW p \in Ports, NEW packet \in ArtDmx,
           MergesKnown(this)
    PROVE  MergesKnown(HandleDmx(this, p, packet))
<1> DEFINE checked == Checked(this, p)
           merged == Merge(checked, p, packet)
           updated == Update(merged, p)
<1>1. checked \in Nodes /\ MergesKnown(checked)
  BY CheckMergeTimeoutsType, CheckedKnown DEF Checked
<1> HIDE DEF checked
<1>2. merged \in Nodes /\ MergesKnown(merged)
  BY <1>1, MergeType, MergeKnown
<1> HIDE DEF merged
<1>3. SameMerges(merged, updated)
  <2>1. merged.out \in [Ports -> OutputPort]
    BY <1>2, NodeFields
  <2>2. updated.node = merged.node
    BY <1>2 DEF Update, Nodes
  <2>3. ASSUME NEW q \in Ports
        PROVE  updated.out[q].IsMerging = merged.out[q].IsMerging
    BY <1>2, <2>1 DEF Update, Nodes, OutputPort
  <2> HIDE DEF updated
  <2> QED
    BY <1>2, <2>2, <2>3, UpdateKeeps DEF SameMerges, updated
<1> HIDE DEF updated
<1>4. MergesKnown(updated)
  BY <1>2, <1>3, SameMergesKnown
<1> QED
  BY <1>1, <1>4 DEF HandleDmx, checked, merged, updated

\* Given up, no slot is held.
LEMMA EmptySlotsFree ==
    ASSUME NEW this \in Nodes
    PROVE  \A p \in Ports : ~HoldsTwo(EmptySlots(this), p)
<1> TAKE p \in Ports
<1>1. this.out[p] \in OutputPort
  BY NodeFields
<1>2. ~Occupied(EmptySlot(this.out[p].sourceA))
  BY <1>1 DEF EmptySlot, Occupied, OutputPort, Source
<1>3. EmptySlots(this).out[p].sourceA = EmptySlot(this.out[p].sourceA)
  BY <1>1 DEF EmptySlots, Nodes, OutputPort
<1> QED
  BY <1>2, <1>3 DEF HoldsTwo

\* After network data loss no port has a source.
LEMMA DataLossKnown ==
    ASSUME NEW this \in Nodes
    PROVE  MergesKnown(SetNetworkDataLossCondition(this))
<1> DEFINE reset == [this EXCEPT !.node.IsMergeMode = FALSE,
                                 !.node.IsSynchronousMode = FALSE]
           failed == FailSafe(reset)
           emptied == EmptySlots(failed)
           cleared == [emptied EXCEPT !.light = ClearLength(@, Ports)]
<1>1. reset.out = this.out
  BY DEF Nodes
<1>2. [this.node EXCEPT !.IsMergeMode = FALSE,
                        !.IsSynchronousMode = FALSE] \in State
  BY NodeFields DEF State
<1>3. reset \in Nodes
  BY <1>2 DEF Nodes
<1> HIDE DEF reset
<1>4. failed \in Nodes
  BY <1>3, FailSafeType
<1> HIDE DEF failed
<1>5. emptied \in Nodes /\ \A p \in Ports : ~HoldsTwo(emptied, p)
  BY <1>4, EmptySlotsType, EmptySlotsFree
<1> HIDE DEF emptied
<1>6. cleared.out = emptied.out
  BY <1>5 DEF Nodes
<1> HIDE DEF cleared
<1>7. MergesKnown(cleared)
  BY <1>5, <1>6, NoTwoKnown DEF HoldsTwo
<1>8. ~HasSource(this) => MergesKnown(reset)
  BY <1>1, NoTwoKnown DEF HoldsTwo, HasSource
<1>9. SetNetworkDataLossCondition(this)
        = IF HasSource(this) THEN cleared ELSE reset
  BY DEF SetNetworkDataLossCondition, cleared, emptied, failed, reset
<1> QED
  BY <1>7, <1>8, <1>9

\* An ArtSync leaves slots and merge flags alone.
LEMMA HandleSyncKnown ==
    ASSUME NEW this \in Nodes, MergesKnown(this)
    PROVE  MergesKnown(HandleSync(this))
<1>1. this.out \in [Ports -> OutputPort] /\ this.node \in State
  BY NodeFields
<1>2. HandleSync(this).node.IsMergeMode = this.node.IsMergeMode
  BY <1>1 DEF HandleSync, Nodes, State
<1>3. ASSUME NEW p \in Ports
      PROVE  HandleSync(this).out[p].IsMerging = this.out[p].IsMerging
  BY <1>1 DEF HandleSync, Nodes, OutputPort
<1>4. SameMerges(this, HandleSync(this))
  BY <1>2, <1>3, HandleSyncKeeps DEF SameMerges
<1> QED
  BY <1>4, SameMergesKnown

\* So does a poll reply of a node without sACN ports.
LEMMA SendPollReplyKnown ==
    ASSUME NEW this \in Nodes, NEW S, NEW merging,
           "SACN" \notin Protocols, MergesKnown(this)
    PROVE  MergesKnown(SendPollReply(this, S, merging))
<1> DEFINE next == SendPollReply(this, S, merging)
<1>1. \A p \in Ports : this.out[p].protocol # "SACN"
  BY NodeFields DEF OutputPort
<1>2. next.node = this.node
  BY DEF SendPollReply, Nodes
<1>3. \A p \in Ports : next.out[p] = this.out[p]
  BY <1>1 DEF SendPollReply, Nodes
<1> HIDE DEF next
<1>4. MergesKnown(next)
  BY <1>2, <1>3 DEF MergesKnown, HoldsTwo
<1> QED
  BY <1>4 DEF next

\* The commands leave slots and merge flags alone; AcCancelMerge gives all
\* slots up.
LEMMA CommandKnown ==
    ASSUME NEW this \in Nodes, NEW p \in Ports, NEW command \in Commands,
           MergesKnown(this)
    PROVE  MergesKnown(Command(this, p, command))
<1> DEFINE next == Command(this, p, command)
<1>1. this.out \in [Ports -> OutputPort] /\ this.node \in State
  BY NodeFields
<1>2. CASE command = "CANCEL"
  <2>1. next = CancelMerge(this)
    BY <1>2, FailSafesAssumption, MergeModesAssumption, ProtocolsAssumption
       DEF Command
  <2> DEFINE emptied == EmptySlots(this)
  <2>2. emptied \in Nodes /\ \A q \in Ports : ~HoldsTwo(emptied, q)
    BY EmptySlotsType, EmptySlotsFree
  <2>3. emptied.out \in [Ports -> OutputPort]
    BY <2>2, NodeFields
  <2> HIDE DEF emptied
  <2>4. ASSUME NEW q \in Ports
        PROVE  /\ CancelMerge(this).out[q].sourceA = emptied.out[q].sourceA
               /\ CancelMerge(this).out[q].sourceB = emptied.out[q].sourceB
    BY <2>2, <2>3 DEF CancelMerge, Nodes, OutputPort, emptied
  <2>5. MergesKnown(CancelMerge(this))
    BY <2>2, <2>4, NoTwoKnown DEF HoldsTwo
  <2> QED
    BY <2>1, <2>5
<1>3. CASE command # "CANCEL"
  <2>1. ASSUME NEW q \in Ports
        PROVE  next.out[q].IsMerging = this.out[q].IsMerging
    BY <1>1, <1>3 DEF Command, FailSafeRecord, Nodes, OutputPort
  <2>2. next.node.IsMergeMode = this.node.IsMergeMode
    BY <1>1, <1>3 DEF Command, FailSafeRecord, Nodes, State
  <2>3. NoneFilled(this, next)
    BY CommandKeeps
  <2> HIDE DEF next
  <2>4. MergesKnown(next)
    BY <2>1, <2>2, <2>3, SameMergesKnown DEF SameMerges
  <2> QED
    BY <2>4 DEF next
<1> QED
  BY <1>2, <1>3

\* ArtAddress, with the reply it sends.
LEMMA HandleAddressKnown ==
    ASSUME NEW this \in Nodes, NEW p \in Ports, NEW address \in PortAddresses,
           NEW command \in Commands, NEW merging,
           "SACN" \notin Protocols, MergesKnown(this)
    PROVE  MergesKnown(HandleAddress(this, p, address, command, merging))
<1> DEFINE moved == SetPortAddress(this, p, address)
           commanded == Command(moved, p, command)
<1>1. this.out \in [Ports -> OutputPort]
  BY NodeFields
<1>2. [this.out[p] EXCEPT !.address = address] \in OutputPort
  BY <1>1 DEF OutputPort
<1>3. moved \in Nodes /\ moved.node = this.node
  BY <1>2 DEF SetPortAddress, Nodes
<1>4. ASSUME NEW q \in Ports
      PROVE  /\ moved.out[q].sourceA = this.out[q].sourceA
             /\ moved.out[q].sourceB = this.out[q].sourceB
             /\ moved.out[q].IsMerging = this.out[q].IsMerging
  BY <1>1 DEF SetPortAddress, Nodes, OutputPort
<1> HIDE DEF moved
<1>5. MergesKnown(moved)
  BY <1>3, <1>4 DEF MergesKnown, HoldsTwo
<1>6. commanded \in Nodes /\ MergesKnown(commanded)
  BY <1>3, <1>5, CommandType, CommandKnown
<1> HIDE DEF commanded
<1> QED
  BY <1>6, SendPollReplyKnown DEF HandleAddress, commanded, moved

\* What Process does around a packet.
LEMMA ArrivedKnown ==
    ASSUME NEW this \in Nodes, NEW packet, MergesKnown(this)
    PROVE  MergesKnown(Arrived(this)) /\ MergesKnown(From(this, packet))
<1>1. /\ Arrived(this).node.IsMergeMode = this.node.IsMergeMode
      /\ From(this, packet).node.IsMergeMode = this.node.IsMergeMode
  BY NodeFields DEF Arrived, From, Nodes, State
<1> QED
  BY <1>1, ArrivedKeeps DEF MergesKnown, HoldsTwo

\* A step to a node whose merges are known.
LEMMA BecomeKnown ==
    ASSUME NEW this, MergesKnown(this), Become(this)
    PROVE  MergesKnown(ThisNode)'
BY DEF MergesKnown, HoldsTwo, Become, ThisNode

\* Serving a port keeps the merges known.
LEMMA ServePortKnown ==
    ASSUME NEW this \in Nodes, NEW packet \in ArtDmx,
           NEW todo, todo \subseteq Ports, todo # {},
           MergesKnown(this), ServePort(this, packet, todo)
    PROVE  MergesKnown(ThisNode)'
<1>1. First(todo) \in Ports
  BY LeastPort DEF First
<1> DEFINE served == HandleDmx(this, First(todo), packet)
<1>2. served \in Nodes /\ MergesKnown(served)
  BY <1>1, HandleDmxType, HandleDmxKnown
<1>3. Become(From(served, packet)) \/ Become(served)
  BY DEF ServePort
<1> HIDE DEF served
<1>4. MergesKnown(From(served, packet))
  BY <1>2, ArrivedKnown
<1> QED
  BY <1>2, <1>3, <1>4, BecomeKnown

\* A step that leaves slots and merge flags alone.
LEMMA StepKnown ==
    ASSUME MergesKnown(ThisNode), node'.IsMergeMode = node.IsMergeMode,
           \A p \in Ports :
               /\ out'[p].sourceA.ip = out[p].sourceA.ip
               /\ out'[p].sourceB.ip = out[p].sourceB.ip
               /\ out'[p].IsMerging = out[p].IsMerging
    PROVE  MergesKnown(ThisNode)'
BY DEF MergesKnown, HoldsTwo, ThisNode, Occupied

\* Every step keeps the merges known.
LEMMA NextKnown ==
    ASSUME TypeOK, MergesKnown(ThisNode), "SACN" \notin Protocols, [Next]_vars
    PROVE  MergesKnown(ThisNode)'
<1> DEFINE arrived == Arrived(ThisNode)
<1>1. ThisNode \in Nodes /\ arrived \in Nodes
  BY ThisNodeType, ArrivedType
<1>2. MergesKnown(arrived)
  BY <1>1, ArrivedKnown
<1>3. out \in [Ports -> OutputPort] /\ node \in State
  BY DEF TypeOK
<1>4. ASSUME NEW packet \in ArtDmx, ReceiveDmx(packet)
      PROVE  MergesKnown(ThisNode)'
  <2>1. Subscribed(packet.address) \subseteq Ports
    BY DEF Subscribed
  <2> QED
    BY <1>1, <1>2, <1>4, <2>1, ServePortKnown DEF ReceiveDmx
<1>5. ASSUME NEW packet \in ArtDmx, ReceiveDmxElsewhere(packet)
      PROVE  MergesKnown(ThisNode)'
  BY <1>1, <1>2, <1>5, ArrivedKnown, BecomeKnown DEF ReceiveDmxElsewhere
<1>6. CASE NextPort
  <2>1. frame \in ArtDmx /\ rest \subseteq Ports /\ rest # {}
    BY <1>6 DEF NextPort, TypeOK
  <2> QED
    BY <1>1, <1>6, <2>1, ServePortKnown DEF NextPort
<1> HIDE DEF arrived
<1>7. ASSUME NEW from \in Controllers, ReceiveSync(from)
      PROVE  MergesKnown(ThisNode)'
  <2>1. Become(HandleSync(arrived)) \/ Become(arrived)
    BY <1>7 DEF ReceiveSync, arrived
  <2> QED
    BY <1>1, <1>2, <2>1, HandleSyncKnown, BecomeKnown
<1>8. ASSUME NEW p \in Ports, NEW address \in PortAddresses,
             NEW command \in Commands, NEW merging,
             ReceiveAddress(p, address, command, merging)
      PROVE  MergesKnown(ThisNode)'
  <2>1. Become(HandleAddress(arrived, p, address, command, merging))
    BY <1>8 DEF ReceiveAddress, arrived
  <2>2. MergesKnown(HandleAddress(arrived, p, address, command, merging))
    BY <1>1, <1>2, HandleAddressKnown
  <2> QED
    BY <2>1, <2>2, BecomeKnown
<1>9. CASE ReceiveOther
  BY <1>2, <1>9, BecomeKnown DEF ReceiveOther, arrived
<1>10. ASSUME NEW merging, PollReply(merging)
       PROVE  MergesKnown(ThisNode)'
  <2>1. MergesKnown(SendPollReply(ThisNode, Ports, merging))
    BY <1>1, SendPollReplyKnown
  <2> QED
    BY <1>10, <2>1, BecomeKnown DEF PollReply
<1>11. CASE RunIdle
  BY <1>1, <1>11, DataLossKnown, BecomeKnown DEF RunIdle
<1>12. CASE Tick
  <2>1. node'.IsMergeMode = node.IsMergeMode
    BY <1>3, <1>12 DEF Tick, State
  <2>2. ASSUME NEW p \in Ports
        PROVE  /\ out'[p].sourceA.ip = out[p].sourceA.ip
               /\ out'[p].sourceB.ip = out[p].sourceB.ip
               /\ out'[p].IsMerging = out[p].IsMerging
    <3>1. out[p] \in OutputPort
      BY <1>3
    <3> QED
      BY <1>12, <3>1 DEF Tick, OutputPort, Source
  <2> QED
    BY <2>1, <2>2, StepKnown
<1>13. ASSUME NEW p \in Ports, NEW direction \in {"OUTPUT", "DISABLE"},
              NEW address \in PortAddresses, NEW mergeMode \in MergeModes,
              NEW protocol \in Protocols,
              SetPort(p, direction, address, mergeMode, protocol)
       PROVE  MergesKnown(ThisNode)'
  <2>1. ASSUME NEW q \in Ports
        PROVE  /\ out'[q].sourceA = out[q].sourceA
               /\ out'[q].sourceB = out[q].sourceB
               /\ out'[q].IsMerging = out[q].IsMerging
    BY <1>3, <1>13 DEF SetPort, OutputPort
  <2>2. node' = node
    BY <1>13 DEF SetPort
  <2> QED
    BY <2>1, <2>2, StepKnown
<1>14. ASSUME NEW failsafe \in FailSafes, SetFailSafe(failsafe)
       PROVE  MergesKnown(ThisNode)'
  <2>1. node'.IsMergeMode = node.IsMergeMode /\ out' = out
    BY <1>3, <1>14 DEF SetFailSafe, State
  <2> QED
    BY <2>1, StepKnown
<1>15. CASE StartNode
  <2>1. node'.IsMergeMode = node.IsMergeMode /\ out' = out
    BY <1>3, <1>15 DEF StartNode, State
  <2> QED
    BY <2>1, StepKnown
<1>16. CASE StopNode
  <2>1. ASSUME NEW p \in Ports
        PROVE  /\ out'[p].sourceA = out[p].sourceA
               /\ out'[p].sourceB = out[p].sourceB
               /\ out'[p].IsMerging = out[p].IsMerging
    <3>1. out[p] \in OutputPort
      BY <1>3
    <3> QED
      BY <1>16, <3>1 DEF StopNode, OutputPort
  <2>2. node' = node
    BY <1>16 DEF StopNode
  <2> QED
    BY <2>1, <2>2, StepKnown
<1>17. CASE Reboot
  BY <1>17 DEF Reboot, MergesKnown, HoldsTwo, ThisNode, PortAtBoot, NoSource,
     Occupied
<1>18. CASE UNCHANGED vars
  BY <1>18, StepKnown DEF vars
<1> QED
  BY <1>4, <1>5, <1>6, <1>7, <1>8, <1>9, <1>10, <1>11, <1>12, <1>13, <1>14,
     <1>15, <1>16, <1>17, <1>18 DEF Next

\* A controller without a slot that finds neither slot free faces two sources
\* that the timeouts have left.
LEMMA DiscardedFinds ==
    ASSUME NEW this \in Nodes, NEW p \in Ports, NEW packet \in ArtDmx,
           MergesKnown(this), ~DisableMergeTimeout,
           IsDiscarded(Checked(this, p), p, packet),
           packet.from \notin {this.out[p].sourceA.ip, this.out[p].sourceB.ip}
    PROVE  \A source \in {this.out[p].sourceA, this.out[p].sourceB} :
              Occupied(source) /\ source.age <= MergeTimeout
<1> DEFINE checked == Checked(this, p)
           next == CheckMergeTimeouts(this, p)
<1>1. packet.from # NoController
  BY ControllerAssumption DEF ArtDmx
<1>2. /\ Kept(this.out[p].sourceA, checked.out[p].sourceA)
      /\ Kept(this.out[p].sourceB, checked.out[p].sourceB)
  BY CheckedKeeps DEF NoneFilled
<1>3. HoldsTwo(checked, p)
  BY <1>1, <1>2 DEF IsDiscarded, GoesToA, GoesToB, Matches, Occupied, Kept,
     HoldsTwo
<1>4. HoldsTwo(this, p)
  BY <1>2, <1>3 DEF HoldsTwo, Occupied, Kept
<1>5. checked = next
  BY <1>4 DEF MergesKnown, Checked
<1>6. /\ ~(this.out[p].sourceA.age > MergeTimeout)
      /\ ~(this.out[p].sourceB.age > MergeTimeout)
  BY <1>3, <1>5, CheckedSlots DEF TimedOut, Expired, HoldsTwo
<1>7. /\ this.out[p].sourceA.age \in Int /\ this.out[p].sourceB.age \in Int
      /\ MergeTimeout \in Int
  BY NodeFields, TimeoutAssumption DEF OutputPort, Source
<1> QED
  BY <1>4, <1>6, <1>7 DEF HoldsTwo

\* A node without sACN ports that has its merge timeout turns a controller
\* away only for two streams, both heard from within the timeout.  With sACN
\* ports a poll reply can hide a merge, and its sources then never expire.
THEOREM NodeDiscardsForTwoLive ==
    ASSUME "SACN" \notin Protocols, ~DisableMergeTimeout
    PROVE  Spec => DiscardedForTwoLive
<1> DEFINE Inv == TypeOK /\ MergesKnown(ThisNode)
<1>1. Init => Inv
  <2>1. Init => TypeOK
    BY BootType DEF Init, TypeOK
  <2>2. Init => MergesKnown(ThisNode)
    BY DEF Init, MergesKnown, HoldsTwo, ThisNode, PortAtBoot, NoSource,
       Occupied
  <2> QED
    BY <2>1, <2>2
<1>2. Inv /\ [Next]_vars => Inv'
  BY NextType, NextKnown
<1>3. ASSUME Inv, NEW packet \in ArtDmx, NEW p \in Ports,
             ReceiveDmx(packet), p = First(Subscribed(packet.address)),
             IsDiscarded(Checked(Arrived(ThisNode), p), p, packet),
             packet.from \notin {out[p].sourceA.ip, out[p].sourceB.ip}
      PROVE  \A source \in {out[p].sourceA, out[p].sourceB} :
                Occupied(source) /\ source.age <= MergeTimeout
  <2> DEFINE arrived == Arrived(ThisNode)
  <2>1. ThisNode \in Nodes /\ arrived \in Nodes
    BY <1>3, ThisNodeType, ArrivedType
  <2>2. MergesKnown(arrived)
    BY <1>3, <2>1, ArrivedKnown
  <2>3. arrived.out = out
    BY <2>1, ArrivedKeeps DEF ThisNode
  <2> HIDE DEF arrived
  <2>4. IsDiscarded(Checked(arrived, p), p, packet)
    BY <1>3 DEF arrived
  <2> QED
    BY <1>3, <2>1, <2>2, <2>3, <2>4, DiscardedFinds
<1>4. Inv => [ \A packet \in ArtDmx, p \in Ports :
          /\ ReceiveDmx(packet)
          /\ p = First(Subscribed(packet.address))
          /\ IsDiscarded(Checked(Arrived(ThisNode), p), p, packet)
          /\ packet.from \notin {out[p].sourceA.ip, out[p].sourceB.ip}
          => \A source \in {out[p].sourceA, out[p].sourceB} :
                Occupied(source) /\ source.age <= MergeTimeout
      ]_vars
  <2> HIDE DEF Inv
  <2> QED
    BY <1>3
<1> HIDE DEF Inv
<1> QED
  BY <1>1, <1>2, <1>4, PTL DEF Spec, DiscardedForTwoLive
=============================================================================
