-------------------------- MODULE E131BridgeProofs --------------------------
(***************************************************************************)
(* The sACN bridge, for any number of ports, universes and sources and any *)
(* timeouts: its types, and three invariants.                              *)
(*                                                                         *)
(* Of the types there is one lemma for each method: from a bridge it makes *)
(* a bridge.  Of the invariants two are wanted: a transmitting port has    *)
(* been started, and no source holds both slots of a port.  They are       *)
(* proved together with DataIsKept, which is what makes the first one      *)
(* inductive: a port that starts to transmit on a synchronization packet   *)
(* is started only if its data is still there.                             *)
(***************************************************************************)
EXTENDS E131Bridge, WellFoundedInduction, TLAPS

-----------------------------------------------------------------------------
(* The light: every method of LightSet makes a light from a light. *)

Light == [Ports -> LightPort]

\* Merging into slot A or B of a buffer keeps the light a light.
LEMMA MergeSourceType ==
    ASSUME NEW lit \in Light, NEW p \in Ports, NEW level \in Levels, NEW mode
    PROVE  /\ MergeSourceA(lit, p, level, mode) \in Light
           /\ MergeSourceB(lit, p, level, mode) \in Light
<1>1. /\ [lit[p] EXCEPT !.a = level, !.filled = TRUE,
                        !.data = IF mode = "HTP" THEN Highest(level, lit[p].b)
                                                 ELSE level] \in LightPort
      /\ [lit[p] EXCEPT !.b = level, !.filled = TRUE,
                        !.data = IF mode = "HTP" THEN Highest(lit[p].a, level)
                                                 ELSE level] \in LightPort
  BY DEF Light, LightPort, Highest
<1> QED
  BY <1>1 DEF MergeSourceA, MergeSourceB, Light

\* Clearing lengths keeps the light a light.
LEMMA ClearLengthType ==
    ASSUME NEW lit \in Light, NEW S
    PROVE  ClearLength(lit, S) \in Light
BY DEF ClearLength, Light, LightPort

\* Handing a buffer to the driver, or zeros, keeps the light a light.
LEMMA OutputType ==
    ASSUME NEW lit \in Light, NEW p \in Ports
    PROVE  Output(lit, p) \in Light /\ OutputClear(lit, p) \in Light
<1>1. Frame(lit, p) \in Levels \cup {NoSlots}
  BY DEF Frame, Light, LightPort
<1>2. 0 \in Levels
  BY MaxLevelAssumption DEF Levels
<1>3. /\ [lit[p] EXCEPT !.sent = Frame(lit, p)] \in LightPort
      /\ [lit[p] EXCEPT !.data = 0, !.filled = TRUE, !.sent = 0] \in LightPort
  BY <1>1, <1>2 DEF Light, LightPort
<1> QED
  BY <1>3 DEF Output, OutputClear, Light

\* Starting and stopping ports keeps the light a light.
LEMMA StartStopType ==
    ASSUME NEW lit \in Light, NEW p \in Ports, NEW S
    PROVE  Start(lit, p) \in Light /\ Stop(lit, S) \in Light
<1>1. [lit[p] EXCEPT !.started = TRUE] \in LightPort
  BY DEF Light, LightPort
<1>2. Start(lit, p) \in Light
  BY <1>1 DEF Start, Light
<1>3. Stop(lit, S) \in Light
  BY DEF Stop, Light, LightPort
<1> QED
  BY <1>2, <1>3

\* A synchronized output of the pending ports keeps the light a light.
LEMMA SyncType ==
    ASSUME NEW lit \in Light, NEW pending
    PROVE  Sync(lit, pending) \in Light
<1>1. \A p \in Ports : Frame(lit, p) \in Levels \cup {NoSlots}
  BY DEF Frame, Light, LightPort
<1> QED
  BY <1>1 DEF Sync, Light, LightPort

\* Blackout and FullOn keep the light a light.
LEMMA AllToType ==
    ASSUME NEW lit \in Light
    PROVE  Blackout(lit) \in Light /\ FullOn(lit) \in Light
<1>1. 0 \in Levels /\ MaxLevel \in Levels
  BY MaxLevelAssumption DEF Levels
<1> QED
  BY <1>1 DEF Blackout, FullOn, AllTo, Light, LightPort

\* Whatever the failsafe does to it, the light stays a light.
LEMMA FailSafeLightType ==
    ASSUME NEW lit \in Light, NEW failsafe
    PROVE  FailSafeLight(lit, failsafe) \in Light
BY AllToType DEF FailSafeLight

-----------------------------------------------------------------------------
(* Multicast groups *)

\* The fields of a bridge have the types of the variables.
LEMMA BridgeFields ==
    ASSUME NEW this \in Bridge
    PROVE  /\ this.state \in State
           /\ this.port \in [Ports -> OutputPort]
           /\ this.light \in Light
           /\ this.groups \subseteq Universes
BY DEF Bridge, Light

\* Leaving a universe keeps the bridge a bridge.
LEMMA LeaveUniverseType ==
    ASSUME NEW this \in Bridge, NEW skipped, NEW universe
    PROVE  LeaveUniverse(this, skipped, universe) \in Bridge
BY DEF LeaveUniverse, Bridge

\* Joining the group of a universe keeps the bridge a bridge.
LEMMA JoinGroupType ==
    ASSUME NEW this \in Bridge, NEW universe \in Universes
    PROVE  JoinGroup(this, universe) \in Bridge
BY DEF JoinGroup, Bridge

\* A new synchronization address, never 0, keeps the bridge a bridge.
LEMMA SetSynchronizationAddressType ==
    ASSUME NEW this \in Bridge, NEW isA, NEW isB, NEW address \in Universes
    PROVE  SetSynchronizationAddress(this, isA, isB, address) \in Bridge
<1> DEFINE old == IF isA THEN this.state.syncAddressA
                         ELSE this.state.syncAddressB
           left == IF old = NoUniverse THEN this
                                       ELSE LeaveUniverse(this, {}, old)
           set == IF isA THEN [left EXCEPT !.state.syncAddressA = address]
                         ELSE [left EXCEPT !.state.syncAddressB = address]
<1>1. left \in Bridge
  BY LeaveUniverseType
<1> HIDE DEF left
<1>2. /\ [left.state EXCEPT !.syncAddressA = address] \in State
      /\ [left.state EXCEPT !.syncAddressB = address] \in State
  BY <1>1, BridgeFields DEF State
<1>3. set \in Bridge
  BY <1>1, <1>2 DEF Bridge
<1> HIDE DEF set
<1>4. JoinGroup(set, address) \in Bridge
  BY <1>3, JoinGroupType
<1> QED
  BY <1>4 DEF SetSynchronizationAddress, left, set

-----------------------------------------------------------------------------
(* Merging, priorities and data loss *)

\* What a packet leaves in a slot is a source.
LEMMA SlotType ==
    ASSUME NEW source \in Source, NEW packet \in DataPacket
    PROVE  /\ EmptySlot(source) \in Source
           /\ Continued(source, packet) \in Source
           /\ Filled(packet) \in Source
<1>1. 0 \in 0 .. MaxSourceAge
  BY TimeoutAssumption DEF MaxSourceAge, Highest
<1> QED
  BY <1>1 DEF EmptySlot, Continued, Filled, Source, DataPacket

\* An emptied slot is a source.
LEMMA EmptySlotType ==
    ASSUME NEW source \in Source
    PROVE  EmptySlot(source) \in Source
BY DEF EmptySlot, Source

\* Marking a port as merging keeps the bridge a bridge.
LEMMA UpdateMergeStatusType ==
    ASSUME NEW this \in Bridge, NEW p \in Ports
    PROVE  UpdateMergeStatus(this, p) \in Bridge
<1>1. [this.state EXCEPT !.IsMergeMode = TRUE] \in State
  BY BridgeFields, ZenonT(60) DEF State
<1>2. this.port[p] \in OutputPort
  BY BridgeFields
<1>3. [this.port[p] EXCEPT !.IsMerging = TRUE] \in OutputPort
  BY <1>2 DEF OutputPort
<1> QED
  BY <1>1, <1>3 DEF UpdateMergeStatus, Bridge

\* Dropping sources that timed out keeps the bridge a bridge.
LEMMA CheckMergeTimeoutsType ==
    ASSUME NEW this \in Bridge, NEW p \in Ports
    PROVE  CheckMergeTimeouts(this, p) \in Bridge
<1> DEFINE expiredA == this.port[p].sourceA.age > MergeTimeout
           expiredB == this.port[p].sourceB.age > MergeTimeout
           portNow == [this.port[p] EXCEPT
                !.sourceA = IF expiredA THEN EmptySlot(@) ELSE @,
                !.sourceB = IF expiredB THEN EmptySlot(@) ELSE @,
                !.IsMerging = @ /\ ~expiredA /\ ~expiredB]
           checked == [this EXCEPT
                !.port[p].sourceA = IF expiredA THEN EmptySlot(@) ELSE @,
                !.port[p].sourceB = IF expiredB THEN EmptySlot(@) ELSE @,
                !.port[p].IsMerging = @ /\ ~expiredA /\ ~expiredB]
           merging == \E q \in Ports : checked.port[q].IsMerging
<1>1. this.port[p] \in OutputPort
  BY BridgeFields
<1>2. /\ EmptySlot(this.port[p].sourceA) \in Source
      /\ EmptySlot(this.port[p].sourceB) \in Source
  BY <1>1, EmptySlotType DEF OutputPort
<1>3. portNow \in OutputPort
  BY <1>1, <1>2 DEF OutputPort
<1>4. checked = [this EXCEPT !.port[p] = portNow]
  BY ZenonT(60) DEF Bridge
<1>5. checked \in Bridge
  <2> HIDE DEF portNow, checked
  <2> QED
    BY <1>3, <1>4 DEF Bridge
<1> HIDE DEF checked
<1>6. [checked.state EXCEPT !.IsMergeMode = @ /\ merging] \in State
  BY <1>5, BridgeFields, ZenonT(60) DEF State
<1>7. [checked EXCEPT !.state.IsMergeMode = @ /\ merging] \in Bridge
  BY <1>5, <1>6 DEF Bridge
<1> QED
  BY <1>7 DEF CheckMergeTimeouts, checked

\* Entering network data loss keeps the bridge a bridge.
LEMMA NetworkDataLossType ==
    ASSUME NEW this \in Bridge, NEW failsafe
    PROVE  NetworkDataLoss(this, failsafe) \in Bridge
<1> DEFINE lost == {p \in Ports : this.port[p].IsTransmitting}
           cleared == ClearLength(this.light, lost)
           lit == IF lost = {} THEN cleared ELSE FailSafeLight(cleared, failsafe)
           portNow == [p \in Ports |->
                IF p \in lost
                  THEN [this.port[p] EXCEPT !.sourceA = EmptySlot(@),
                                            !.sourceB = EmptySlot(@),
                                            !.IsTransmitting = FALSE,
                                            !.IsMerging = FALSE]
                  ELSE this.port[p]]
           stateNow == [this.state EXCEPT
                !.IsNetworkDataLoss = TRUE, !.IsMergeMode = FALSE,
                !.IsSynchronized = FALSE, !.IsForcedSynchronized = FALSE,
                !.nPriority = LOWEST]
<1>1. lit \in Light
  BY BridgeFields, ClearLengthType, FailSafeLightType
<1>2. portNow \in [Ports -> OutputPort]
  <2> SUFFICES ASSUME NEW p \in Ports
               PROVE  portNow[p] \in OutputPort
    OBVIOUS
  <2>1. this.port[p] \in OutputPort
    BY BridgeFields
  <2>2. /\ EmptySlot(this.port[p].sourceA) \in Source
        /\ EmptySlot(this.port[p].sourceB) \in Source
    BY <2>1, EmptySlotType DEF OutputPort
  <2> QED
    BY <2>1, <2>2 DEF OutputPort
<1>3. stateNow \in State
  BY BridgeFields, ZenonT(60) DEF State
<1> HIDE DEF lit, portNow
<1>4. [this EXCEPT !.state = stateNow, !.port = portNow, !.light = lit] \in Bridge
  BY <1>1, <1>2, <1>3 DEF Bridge, Light
<1> QED
  BY <1>4 DEF NetworkDataLoss, lit, portNow, Bridge

\* Losing one source keeps the bridge a bridge.
LEMMA SourceLossType ==
    ASSUME NEW this \in Bridge, NEW isA \in BOOLEAN, NEW isB \in BOOLEAN,
           NEW failsafe
    PROVE  SourceLoss(this, isA, isB, failsafe) \in Bridge
<1> DEFINE served == {p \in Ports : this.port[p].IsTransmitting}
           lost == IF this.state.IsMergeMode THEN {} ELSE served
           dropsA(p) == isA /\ Occupied(this.port[p].sourceA)
           dropsB(p) == isB /\ Occupied(this.port[p].sourceB)
           cleared == ClearLength(this.light, lost)
           lit == IF lost = {} THEN cleared ELSE FailSafeLight(cleared, failsafe)
           portNow == [p \in Ports |->
                IF p \in served
                  THEN [this.port[p] EXCEPT
                            !.sourceA = IF dropsA(p) THEN EmptySlot(@) ELSE @,
                            !.sourceB = IF dropsB(p) THEN EmptySlot(@) ELSE @,
                            !.IsMerging = @ /\ ~dropsA(p) /\ ~dropsB(p),
                            !.IsTransmitting = @ /\ p \notin lost]
                  ELSE this.port[p]]
<1>1. lit \in Light
  BY BridgeFields, ClearLengthType, FailSafeLightType
<1>2. portNow \in [Ports -> OutputPort]
  <2> SUFFICES ASSUME NEW p \in Ports
               PROVE  portNow[p] \in OutputPort
    OBVIOUS
  <2>1. this.port[p] \in OutputPort
    BY BridgeFields
  <2>2. /\ EmptySlot(this.port[p].sourceA) \in Source
        /\ EmptySlot(this.port[p].sourceB) \in Source
    BY <2>1, EmptySlotType DEF OutputPort
  <2> QED
    BY <2>1, <2>2, ZenonT(60) DEF OutputPort
<1> HIDE DEF lit, portNow
<1>3. [this EXCEPT !.port = portNow, !.light = lit] \in Bridge
  BY <1>1, <1>2 DEF Bridge, Light
<1> QED
  BY <1>3 DEF SourceLoss, lit, portNow

-----------------------------------------------------------------------------
(* HandleDmx *)

\* Storing a sequence number keeps the bridge a bridge.
LEMMA StoreSequenceType ==
    ASSUME NEW this \in Bridge, NEW p \in Ports, NEW packet \in DataPacket
    PROVE  StoreSequence(this, p, packet) \in Bridge
<1> DEFINE isA == IsSource(this.port[p].sourceA, packet)
           isB == IsSource(this.port[p].sourceB, packet)
           portNow == [this.port[p] EXCEPT
                !.sourceA = IF isA THEN Sequenced(@, packet) ELSE @,
                !.sourceB = IF isB /\ ~isA THEN Sequenced(@, packet) ELSE @]
<1>1. this.port[p] \in OutputPort
  BY BridgeFields
<1>2. packet.sequence \in SequenceNumbers
  BY DEF DataPacket
<1>3. /\ Sequenced(this.port[p].sourceA, packet) \in Source
      /\ Sequenced(this.port[p].sourceB, packet) \in Source
  BY <1>1, <1>2 DEF OutputPort, Source, Sequenced
<1>4. portNow \in OutputPort
  BY <1>1, <1>3 DEF OutputPort
<1>5. StoreSequence(this, p, packet) = [this EXCEPT !.port[p] = portNow]
  BY DEF StoreSequence, Bridge
<1> HIDE DEF portNow
<1> QED
  BY <1>4, <1>5 DEF Bridge

\* Adopting the priority of a packet keeps the bridge a bridge.
LEMMA AdoptPriorityType ==
    ASSUME NEW this \in Bridge, NEW p \in Ports, NEW packet \in DataPacket
    PROVE  AdoptPriority(this, p, packet) \in Bridge
<1> DEFINE portNow == [this.port[p] EXCEPT !.sourceA = EmptySlot(@),
                                           !.sourceB = EmptySlot(@)]
           stateNow == [this.state EXCEPT !.nPriority = packet.priority,
                                          !.IsMergeMode = FALSE]
<1>1. this.port[p] \in OutputPort
  BY BridgeFields
<1>2. /\ EmptySlot(this.port[p].sourceA) \in Source
      /\ EmptySlot(this.port[p].sourceB) \in Source
  BY <1>1, EmptySlotType DEF OutputPort
<1>3. portNow \in OutputPort
  BY <1>1, <1>2 DEF OutputPort
<1>4. packet.priority \in Priorities
  BY DEF DataPacket
<1>5. /\ stateNow \in State
      /\ [this.state EXCEPT !.nPriority = packet.priority] \in State
  BY <1>4, BridgeFields, ZenonT(60) DEF State
<1>6. [this EXCEPT !.state.nPriority = packet.priority] \in Bridge
  BY <1>5 DEF Bridge
<1>7. [this EXCEPT !.state.nPriority = packet.priority,
                   !.state.IsMergeMode = FALSE,
                   !.port[p].sourceA = EmptySlot(@),
                   !.port[p].sourceB = EmptySlot(@)]
      = [this EXCEPT !.state = stateNow, !.port[p] = portNow]
  BY ZenonT(60) DEF Bridge
<1>8. [this EXCEPT !.state = stateNow, !.port[p] = portNow] \in Bridge
  <2> HIDE DEF stateNow, portNow
  <2> QED
    BY <1>3, <1>5 DEF Bridge
<1> QED
  BY <1>6, <1>7, <1>8 DEF AdoptPriority

\* Whichever slot a packet goes to, the bridge stays a bridge.
LEMMA MergeType ==
    ASSUME NEW this \in Bridge, NEW was \in Bridge, NEW p \in Ports,
           NEW packet \in DataPacket
    PROVE  Merge(this, was, p, packet) \in Bridge
<1> DEFINE A == was.port[p].sourceA
           B == was.port[p].sourceB
           toA == GoesToA(A, B, packet)
           toB == GoesToB(A, B, packet)
           isMerge == (toA /\ Occupied(B)) \/ (toB /\ Occupied(A))
           mode == IF isMerge THEN this.port[p].mergeMode ELSE "LTP"
           taken(source) == IF IsSource(A, packet) \/ IsSource(B, packet)
                              THEN Continued(source, packet) ELSE Filled(packet)
           portNow == [this.port[p] EXCEPT
                !.sourceA = IF toA THEN taken(@) ELSE @,
                !.sourceB = IF toB THEN taken(@) ELSE @]
           lit == CASE toA -> MergeSourceA(this.light, p, packet.level, mode)
                    [] toB -> MergeSourceB(this.light, p, packet.level, mode)
                    [] OTHER -> this.light
           stored == [this EXCEPT
                !.port[p].sourceA = IF toA THEN taken(@) ELSE @,
                !.port[p].sourceB = IF toB THEN taken(@) ELSE @,
                !.light = CASE toA -> MergeSourceA(@, p, packet.level, mode)
                            [] toB -> MergeSourceB(@, p, packet.level, mode)
                            [] OTHER -> @]
<1>1. this.port[p] \in OutputPort
  BY BridgeFields
<1>2. /\ taken(this.port[p].sourceA) \in Source
      /\ taken(this.port[p].sourceB) \in Source
  BY <1>1, SlotType DEF OutputPort
<1> HIDE DEF A, B, toA, toB, mode
<1>3. portNow \in OutputPort
  <2> HIDE DEF taken
  <2> QED
    BY <1>1, <1>2 DEF OutputPort
<1>4. packet.level \in Levels
  BY DEF DataPacket
<1>5. lit \in Light
  BY <1>4, BridgeFields, MergeSourceType
<1>6. stored = [this EXCEPT !.port[p] = portNow, !.light = lit]
  <2> HIDE DEF taken
  <2> QED
    BY ZenonT(60) DEF Bridge
<1>7. stored \in Bridge
  <2> HIDE DEF portNow, lit, stored
  <2> QED
    BY <1>3, <1>5, <1>6 DEF Bridge, Light
<1> HIDE DEF stored
<1>8. UpdateMergeStatus(stored, p) \in Bridge
  BY <1>7, UpdateMergeStatusType
<1> QED
  BY <1>7, <1>8 DEF Merge, stored, A, B, toA, toB, mode

\* Neither the option bit nor the address of a packet breaks a type.
LEMMA SynchronizeType ==
    ASSUME NEW this \in Bridge, NEW was \in Bridge, NEW p \in Ports,
           NEW packet \in DataPacket
    PROVE  Synchronize(this, was, p, packet) \in Bridge
<1> DEFINE isA == IsSource(was.port[p].sourceA, packet)
           isB == IsSource(was.port[p].sourceB, packet)
           known == isA \/ isB
           addressed ==
              SetSynchronizationAddress(this,
                IF known THEN isA ELSE Occupied(this.port[p].sourceA),
                IF known THEN isB ELSE Occupied(this.port[p].sourceB),
                packet.syncAddress)
<1>1. [this.state EXCEPT !.IsForcedSynchronized = FALSE] \in State
  BY BridgeFields, ZenonT(60) DEF State
<1>2. [this EXCEPT !.state.IsForcedSynchronized = FALSE] \in Bridge
  BY <1>1 DEF Bridge
<1>3. ASSUME packet.syncAddress # NoUniverse
      PROVE  [addressed EXCEPT !.state.IsForcedSynchronized = TRUE,
                               !.state.IsSynchronized = TRUE] \in Bridge
  <2>1. packet.syncAddress \in Universes
    BY <1>3, PacketAssumption DEF DataPacket, NoUniverse
  <2>2. addressed \in Bridge
    BY <2>1, SetSynchronizationAddressType
  <2> HIDE DEF addressed
  <2>3. [addressed.state EXCEPT !.IsForcedSynchronized = TRUE,
                                !.IsSynchronized = TRUE] \in State
    BY <2>2, BridgeFields, ZenonT(60) DEF State
  <2> QED
    BY <2>2, <2>3 DEF Bridge
<1> QED
  BY <1>2, <1>3 DEF Synchronize

\* Lighting a port or holding its data back keeps the bridge a bridge.
LEMMA UpdateType ==
    ASSUME NEW this \in Bridge, NEW p \in Ports
    PROVE  Update(this, p) \in Bridge
<1> DEFINE lit == IF this.port[p].IsTransmitting
                    THEN Output(this.light, p)
                    ELSE Start(Output(this.light, p), p)
<1>1. lit \in Light
  BY BridgeFields, OutputType, StartStopType
<1>2. this.port[p] \in OutputPort
  BY BridgeFields
<1>3. /\ [this.port[p] EXCEPT !.IsTransmitting = TRUE] \in OutputPort
      /\ [this.port[p] EXCEPT !.IsDataPending = TRUE] \in OutputPort
  BY <1>2 DEF OutputPort
<1> HIDE DEF lit
<1>4. /\ [this EXCEPT !.light = lit, !.port[p].IsTransmitting = TRUE] \in Bridge
      /\ [this EXCEPT !.port[p].IsDataPending = TRUE] \in Bridge
  BY <1>1, <1>3 DEF Bridge, Light
<1> QED
  BY <1>4 DEF Update, lit

\* HandleDmx on one port keeps the bridge a bridge.
LEMMA HandleDmxType ==
    ASSUME NEW was \in Bridge, NEW p \in Ports, NEW packet \in DataPacket,
           NEW failsafe
    PROVE  HandleDmx(was, p, packet, failsafe) \in Bridge
<1> DEFINE isA == IsSource(was.port[p].sourceA, packet)
           isB == IsSource(was.port[p].sourceB, packet)
           stored == StoreSequence(was, p, packet)
           checked == IF was.state.IsMergeMode /\ ~DisableMergeTimeout
                        THEN CheckMergeTimeouts(stored, p) ELSE stored
           merged == Merge(AdoptPriority(checked, p, packet), was, p, packet)
<1>1. stored \in Bridge
  BY StoreSequenceType
<1>2. checked \in Bridge
  BY <1>1, CheckMergeTimeoutsType
<1>3. merged \in Bridge
  BY <1>2, AdoptPriorityType, MergeType
<1>4. Update(Synchronize(merged, was, p, packet), p) \in Bridge
  BY <1>3, SynchronizeType, UpdateType
<1>5. isA \in BOOLEAN /\ isB \in BOOLEAN
  BY DEF IsSource
<1>6. SetNetworkDataLossCondition(stored, isA, isB, failsafe) \in Bridge
  BY <1>1, <1>5, NetworkDataLossType, SourceLossType
     DEF SetNetworkDataLossCondition
<1> QED
  BY <1>1, <1>2, <1>4, <1>6 DEF HandleDmx

\* The start of Process keeps the bridge a bridge.
LEMMA ArrivedType ==
    ASSUME NEW this \in Bridge
    PROVE  Arrived(this) \in Bridge
<1> DEFINE late == /\ this.state.IsSynchronized
                   /\ ~this.state.IsForcedSynchronized
                   /\ this.state.syncAge >= LossTimeout
           stateNow == [this.state EXCEPT !.IsNetworkDataLoss = FALSE,
                                          !.packetAge = 0,
                                          !.IsSynchronized = @ /\ ~late]
<1>1. 0 \in 0 .. LossTimeout
  BY TimeoutAssumption
<1>2. stateNow \in State
  BY <1>1, BridgeFields, ZenonT(60) DEF State
<1>3. Arrived(this) = [this EXCEPT !.state = stateNow]
  BY DEF Arrived, Bridge
<1> HIDE DEF stateNow
<1> QED
  BY <1>2, <1>3 DEF Bridge

\* A synchronization packet keeps the bridge a bridge.
LEMMA HandleSynchronizationType ==
    ASSUME NEW this \in Bridge, NEW address
    PROVE  HandleSynchronization(this, address) \in Bridge
<1> DEFINE pending == {p \in Ports : this.port[p].IsDataPending}
           stateNow == [this.state EXCEPT !.syncAge = 0]
           portNow == [p \in Ports |->
                [this.port[p] EXCEPT
                    !.IsDataPending = FALSE,
                    !.IsTransmitting = @ \/ p \in pending]]
<1>1. 0 \in 0 .. LossTimeout
  BY TimeoutAssumption
<1>2. stateNow \in State
  BY <1>1, BridgeFields DEF State
<1>3. portNow \in [Ports -> OutputPort]
  <2> SUFFICES ASSUME NEW p \in Ports
               PROVE  portNow[p] \in OutputPort
    OBVIOUS
  <2>1. this.port[p] \in OutputPort
    BY BridgeFields
  <2> QED
    BY <2>1 DEF OutputPort
<1>4. Sync(this.light, pending) \in Light
  BY BridgeFields, SyncType
<1>5. [this EXCEPT !.state = stateNow, !.light = Sync(this.light, pending),
                   !.port = portNow] \in Bridge
  <2> HIDE DEF stateNow, portNow, pending
  <2> QED
    BY <1>2, <1>3, <1>4 DEF Bridge, Light
<1>6. HandleSynchronization(this, address) \in
        {this, [this EXCEPT !.state = stateNow,
                            !.light = Sync(this.light, pending),
                            !.port = portNow]}
  <2> HIDE DEF portNow, pending
  <2> QED
    BY DEF HandleSynchronization, Bridge, portNow, pending
<1> QED
  BY <1>5, <1>6

-----------------------------------------------------------------------------
(* The steps *)

\* Every set of ports has a least one: the loop of HandleDmx serves it first.
LEMMA LeastPort ==
    ASSUME NEW S, S \subseteq Ports, S # {}
    PROVE  \E p \in S : \A q \in S : p <= q
<1> DEFINE R == {ss \in Nat \X Nat : ss[1] < ss[2]}
<1>1. S \subseteq Nat
  BY PortsAssumption
<1>2. IsWellFoundedOn(R, Nat)
  BY NatLessThanWellFounded DEF OpToRel
<1> HIDE DEF R
<1>3. PICK p \in S : \A q \in S : ~ (<<q, p>> \in R)
  BY <1>1, <1>2, WFMin
<1>4. \A q \in S : p <= q
  <2> TAKE q \in S
  <2>1. p \in Nat /\ q \in Nat
    BY <1>1
  <2>2. q < p => <<q, p>> \in R
    BY <2>1 DEF R
  <2> QED
    BY <1>3, <2>1, <2>2
<1> QED
  BY <1>4

\* A set of ports that is not empty has a first one.
LEMMA FirstType ==
    ASSUME NEW S, S \subseteq Ports, S # {}
    PROVE  First(S) \in S
BY LeastPort DEF First

\* The variables make up a bridge.
LEMMA ThisBridgeType ==
    TypeOK <=> /\ ThisBridge \in Bridge
               /\ main \in {"boot", "loop", "halt"}
               /\ rest \subseteq Ports
               /\ frame \in DataPacket \/ (frame = NoPacket /\ rest = {})
BY DEF TypeOK, ThisBridge, Bridge

\* A step to a bridge gives the variables their types.
LEMMA BecomeType ==
    ASSUME NEW this \in Bridge, Become(this)
    PROVE  /\ state' \in State
           /\ port' \in [Ports -> OutputPort]
           /\ light' \in [Ports -> LightPort]
           /\ groups' \subseteq Universes
BY BridgeFields DEF Become, Light

\* Serving a port of the loop of HandleDmx keeps the types.
LEMMA ServePortType ==
    ASSUME NEW this \in Bridge, NEW packet \in DataPacket,
           NEW todo, todo \subseteq Ports, todo # {},
           TypeOK, ServePort(this, packet, todo)
    PROVE  TypeOK'
<1>1. First(todo) \in Ports
  BY FirstType
<1>2. PICK failsafe :
          Become(HandleDmx(this, First(todo), packet, failsafe))
  BY DEF ServePort
<1>3. HandleDmx(this, First(todo), packet, failsafe) \in Bridge
  BY <1>1, HandleDmxType
<1>4. /\ state' \in State
      /\ port' \in [Ports -> OutputPort]
      /\ light' \in [Ports -> LightPort]
      /\ groups' \subseteq Universes
  BY <1>2, <1>3, BecomeType
<1> QED
  BY <1>4 DEF ServePort, TypeOK

\* The constructor gives the variables their types.
LEMMA InitType == Init => TypeOK
<1> SUFFICES ASSUME Init
             PROVE  TypeOK
  OBVIOUS
<1>1. 0 \in 0 .. LossTimeout /\ 0 \in 0 .. MaxSourceAge
  BY TimeoutAssumption DEF MaxSourceAge, Highest
<1>2. 0 \in SequenceNumbers
  BY SequenceAssumption DEF SequenceNumbers
<1>3. PortAtBoot \in OutputPort
  BY <1>1, <1>2 DEF PortAtBoot, OutputPort, NoSource, Source
<1>4. StateAtBoot \in State
  BY <1>1 DEF StateAtBoot, State, Byte
<1>5. LightAtBoot \in [Ports -> LightPort]
  BY MaxLevelAssumption DEF LightAtBoot, LightPort, Levels, NoSlots
<1> QED
  BY <1>3, <1>4, <1>5 DEF Init, TypeOK

\* An age that grows stays below its bound.
LEMMA AgeType ==
    ASSUME NEW most \in Nat, NEW age \in 0 .. most
    PROVE  Older(age, most) \in 0 .. most
BY DEF Older

\* The clock keeps the types.
LEMMA TickType == TypeOK /\ Tick => TypeOK'
<1> SUFFICES ASSUME TypeOK, Tick
             PROVE  TypeOK'
  OBVIOUS
<1>1. MaxSourceAge \in Nat
  BY TimeoutAssumption DEF MaxSourceAge, Highest
<1>2. /\ Older(state.packetAge, LossTimeout) \in 0 .. LossTimeout
      /\ Older(state.syncAge, LossTimeout) \in 0 .. LossTimeout
  BY AgeType, TimeoutAssumption DEF TypeOK, State
<1>3. state' \in State
  BY <1>2 DEF Tick, TypeOK, State
<1>4. ASSUME NEW p \in Ports
      PROVE  [port[p] EXCEPT !.sourceA.age = Older(@, MaxSourceAge),
                             !.sourceB.age = Older(@, MaxSourceAge)] \in OutputPort
  <2>1. port[p] \in OutputPort
    BY DEF TypeOK
  <2>2. /\ Older(port[p].sourceA.age, MaxSourceAge) \in 0 .. MaxSourceAge
        /\ Older(port[p].sourceB.age, MaxSourceAge) \in 0 .. MaxSourceAge
    BY <1>1, <2>1, AgeType DEF OutputPort, Source
  <2>3. /\ [port[p].sourceA EXCEPT !.age = Older(@, MaxSourceAge)] \in Source
        /\ [port[p].sourceB EXCEPT !.age = Older(@, MaxSourceAge)] \in Source
    BY <2>1, <2>2 DEF OutputPort, Source
  <2> QED
    BY <2>1, <2>3 DEF OutputPort
<1>5. port' \in [Ports -> OutputPort]
  BY <1>4 DEF Tick
<1> QED
  BY <1>3, <1>5 DEF Tick, TypeOK

\* Configuring the node keeps the types; the uint8_t counter wraps around.
LEMMA ConfigurationType ==
    ASSUME TypeOK, NEW p \in Ports
    PROVE  /\ \A universe \in Universes : SetUniverse(p, universe) => TypeOK'
           /\ \A mergeMode \in MergeModes : SetMergeMode(p, mergeMode) => TypeOK'
           /\ \A failsafe \in FailSafes : SetFailSafe(failsafe) => TypeOK'
           /\ Clear(p) => TypeOK'
<1>1. port[p] \in OutputPort
  BY DEF TypeOK
<1>2. ThisBridge \in Bridge
  BY ThisBridgeType
<1>3. ASSUME NEW delta \in Int, CountOutputs(delta)
      PROVE  state' \in State
  <2>1. state.nEnableOutputPorts \in Int
    BY DEF TypeOK, State, Byte
  <2>2. \A n \in Int : n % 256 \in Byte
    BY DEF Byte
  <2>3. (state.nEnableOutputPorts + delta) % 256 \in Byte
    BY <2>1, <2>2
  <2> QED
    BY <1>3, <2>3 DEF CountOutputs, TypeOK, State
<1>4. ASSUME NEW universe \in Universes, SetUniverse(p, universe)
      PROVE  TypeOK'
  <2>1. state' \in State
    BY <1>3, <1>4 DEF SetUniverse, SetUniverseDisable, SetUniverseOutput
  <2>2. CASE SetUniverseDisable(p)
    <3>1. LeaveUniverse(ThisBridge, {p}, port[p].universe) \in Bridge
      BY <1>2, LeaveUniverseType
    <3>2. groups' \subseteq Universes
      BY <2>2, <3>1, BridgeFields DEF SetUniverseDisable
    <3>3. [port[p] EXCEPT !.direction = "DISABLE"] \in OutputPort
      BY <1>1 DEF OutputPort
    <3>4. port' \in [Ports -> OutputPort]
      BY <2>2, <3>3 DEF SetUniverseDisable, TypeOK
    <3> QED
      BY <1>4, <2>1, <3>2, <3>4 DEF SetUniverse, TypeOK
  <2>3. CASE SetUniverseOutput(p, universe)
    <3> DEFINE left == IF port[p].direction = "OUTPUT"
                         THEN LeaveUniverse(ThisBridge, {p}, port[p].universe)
                         ELSE ThisBridge
    <3>1. left \in Bridge
      BY <1>2, LeaveUniverseType
    <3>2. JoinGroup(left, universe) \in Bridge
      BY <3>1, JoinGroupType
    <3>3. groups' \subseteq Universes
      BY <2>3, <3>2, BridgeFields DEF SetUniverseOutput
    <3>4. [port[p] EXCEPT !.direction = "OUTPUT", !.universe = universe]
             \in OutputPort
      BY <1>1 DEF OutputPort
    <3>5. port' \in [Ports -> OutputPort]
      BY <2>3, <3>4 DEF SetUniverseOutput, TypeOK
    <3> QED
      BY <1>4, <2>1, <3>3, <3>5 DEF SetUniverse, TypeOK
  <2> QED
    BY <1>4, <2>2, <2>3 DEF SetUniverse
<1>5. ASSUME NEW mergeMode \in MergeModes, SetMergeMode(p, mergeMode)
      PROVE  TypeOK'
  <2>1. [port[p] EXCEPT !.mergeMode = mergeMode] \in OutputPort
    BY <1>1 DEF OutputPort
  <2> QED
    BY <1>5, <2>1 DEF SetMergeMode, TypeOK
<1>6. ASSUME NEW failsafe \in FailSafes, SetFailSafe(failsafe)
      PROVE  TypeOK'
  BY <1>6 DEF SetFailSafe, TypeOK, State
<1>7. ASSUME Clear(p)
      PROVE  TypeOK'
  <2>1. OutputClear(light, p) \in Light
    BY OutputType DEF TypeOK, Light
  <2>2. light' \in Light
    BY <1>7, <2>1, StartStopType DEF Clear
  <2>3. state' \in State
    BY <1>7 DEF Clear, TypeOK, State
  <2>4. \A starts \in BOOLEAN :
           [port[p] EXCEPT !.IsTransmitting = @ \/ starts] \in OutputPort
    BY <1>1 DEF OutputPort
  <2>5. port' \in [Ports -> OutputPort]
    BY <1>7, <2>4 DEF Clear, TypeOK
  <2> QED
    BY <1>7, <2>2, <2>3, <2>5 DEF Clear, TypeOK, Light
<1> QED
  BY <1>4, <1>5, <1>6, <1>7

\* Start, Stop and a reboot keep the types.
LEMMA StartStopBridgeType ==
    ASSUME TypeOK
    PROVE  /\ StartBridge => TypeOK'
           /\ StopBridge => TypeOK'
           /\ Reboot => TypeOK'
<1>1. ASSUME StartBridge
      PROVE  TypeOK'
  BY <1>1 DEF StartBridge, TypeOK, State
<1>2. ASSUME StopBridge
      PROVE  TypeOK'
  <2>1. state' \in State
    BY <1>2 DEF StopBridge, TypeOK, State
  <2>2. Blackout(light) \in Light
    BY MaxLevelAssumption
       DEF Blackout, AllTo, TypeOK, Light, LightPort, Levels, NoSlots
  <2>3. Stop(Blackout(light), Ports) \in Light
    BY <2>2 DEF Stop, Light, LightPort
  <2>4. light' \in Light
    BY <1>2, <2>3, ClearLengthType DEF StopBridge
  <2> QED
    BY <1>2, <2>1, <2>4 DEF StopBridge, TypeOK, Light
<1>3. ASSUME Reboot
      PROVE  TypeOK'
  <2>1. 0 \in 0 .. LossTimeout /\ 0 \in 0 .. MaxSourceAge
    BY TimeoutAssumption DEF MaxSourceAge, Highest
  <2>2. 0 \in SequenceNumbers
    BY SequenceAssumption DEF SequenceNumbers
  <2>3. PortAtBoot \in OutputPort
    BY <2>1, <2>2 DEF PortAtBoot, OutputPort, NoSource, Source
  <2>4. StateAtBoot \in State
    BY <2>1 DEF StateAtBoot, State, Byte
  <2>5. LightAtBoot \in [Ports -> LightPort]
    BY MaxLevelAssumption DEF LightAtBoot, LightPort, Levels, NoSlots
  <2> QED
    BY <1>3, <2>3, <2>4, <2>5 DEF Reboot, TypeOK
<1> QED
  BY <1>1, <1>2, <1>3

\* Every step keeps the types.
LEMMA NextType == TypeOK /\ [Next]_vars => TypeOK'
<1> SUFFICES ASSUME TypeOK, [Next]_vars
             PROVE  TypeOK'
  OBVIOUS
<1>1. /\ ThisBridge \in Bridge
      /\ Arrived(ThisBridge) \in Bridge
  BY ThisBridgeType, ArrivedType
<1>2. ASSUME NEW packet \in DataPacket, ReceiveData(packet)
      PROVE  TypeOK'
  <2>1. Subscribed(packet.universe) \subseteq Ports
    BY DEF Subscribed
  <2> QED
    BY <1>1, <1>2, <2>1, ServePortType DEF ReceiveData
<1>3. CASE NextPort
  <2>1. frame \in DataPacket /\ rest \subseteq Ports /\ rest # {}
    BY <1>3 DEF NextPort, TypeOK
  <2> QED
    BY <1>1, <1>3, <2>1, ServePortType DEF NextPort
<1>4. CASE ReceiveOther
  BY <1>1, <1>4, BecomeType DEF ReceiveOther, TypeOK
<1>5. ASSUME NEW address \in Universes \cup {NoUniverse},
             ReceiveSynchronization(address)
      PROVE  TypeOK'
  <2>1. HandleSynchronization(Arrived(ThisBridge), address) \in Bridge
    BY <1>1, HandleSynchronizationType
  <2> QED
    BY <1>5, <2>1, BecomeType DEF ReceiveSynchronization, TypeOK
<1>6. CASE RunIdle
  <2>1. PICK failsafe : Become(NetworkDataLoss(ThisBridge, failsafe))
    BY <1>6 DEF RunIdle
  <2>2. NetworkDataLoss(ThisBridge, failsafe) \in Bridge
    BY <1>1, NetworkDataLossType
  <2> QED
    BY <1>6, <2>1, <2>2, BecomeType DEF RunIdle, TypeOK
<1>7. CASE Tick
  BY <1>7, TickType
<1>8. ASSUME NEW p \in Ports, NEW universe \in Universes,
             SetUniverse(p, universe)
      PROVE  TypeOK'
  BY <1>8, ConfigurationType
<1>9. ASSUME NEW p \in Ports, NEW mergeMode \in MergeModes,
             SetMergeMode(p, mergeMode)
      PROVE  TypeOK'
  BY <1>9, ConfigurationType
<1>10. ASSUME NEW failsafe \in FailSafes, SetFailSafe(failsafe)
       PROVE  TypeOK'
  BY <1>10 DEF SetFailSafe, TypeOK, State
<1>11. ASSUME NEW p \in Ports, Clear(p)
       PROVE  TypeOK'
  BY <1>11, ConfigurationType
<1>12. CASE StartBridge \/ StopBridge \/ Reboot
  BY <1>12, StartStopBridgeType
<1>13. CASE UNCHANGED vars
  BY <1>13 DEF vars, TypeOK
<1> QED
  BY <1>2, <1>3, <1>4, <1>5, <1>6, <1>7, <1>8, <1>9, <1>10, <1>11, <1>12,
     <1>13 DEF Next

\* Every variable of the bridge keeps its type, whatever packets arrive and
\* however the node is configured meanwhile.
THEOREM TypeCorrect == Spec => []TypeOK
<1>1. Init => TypeOK
  BY InitType
<1>2. TypeOK /\ [Next]_vars => TypeOK'
  BY NextType
<1> QED
  BY <1>1, <1>2, PTL DEF Spec

-----------------------------------------------------------------------------
(* Starts, kept data, and the two slots of a port *)

IsLit(this, p) == this.light[p].filled \/ this.light[p].started

GoodPort(this, p) ==
    /\ this.port[p].IsTransmitting => this.light[p].started
    /\ \/ this.port[p].IsDataPending
       \/ Occupied(this.port[p].sourceA)
       \/ Occupied(this.port[p].sourceB)
       => IsLit(this, p)
    /\ this.port[p].sourceA.sender = this.port[p].sourceB.sender
       => ~Occupied(this.port[p].sourceA)

Good(this) == \A p \in Ports : GoodPort(this, p)

\* What most methods do to a port, as far as Good can tell: a slot may be
\* emptied and the rest stays.
Weakened(this, next) ==
    /\ next.light = this.light
    /\ \A p \in Ports :
        /\ next.port[p].IsTransmitting = this.port[p].IsTransmitting
        /\ next.port[p].IsDataPending = this.port[p].IsDataPending
        /\ next.port[p].sourceA.sender \in {this.port[p].sourceA.sender, NoSender}
        /\ next.port[p].sourceB.sender \in {this.port[p].sourceB.sender, NoSender}

\* A bridge that was weakened is still good.
LEMMA WeakenedIsGood ==
    ASSUME NEW this, NEW next, Good(this), Weakened(this, next)
    PROVE  Good(next)
BY SenderAssumption DEF Good, GoodPort, Weakened, Occupied, IsLit

\* Two weakenings in a row are one.
LEMMA WeakenedTransitive ==
    ASSUME NEW x, NEW y, NEW z, Weakened(x, y), Weakened(y, z)
    PROVE  Weakened(x, z)
BY DEF Weakened

\* A method that leaves ports and light alone weakens nothing.
LEMMA SamePortsWeakened ==
    ASSUME NEW this, NEW next,
           next.light = this.light, next.port = this.port
    PROVE  Weakened(this, next)
BY DEF Weakened

-----------------------------------------------------------------------------
(* Methods that weaken *)

\* A synchronization address changes neither ports nor light.
LEMMA SetSynchronizationAddressKeeps ==
    ASSUME NEW this \in Bridge, NEW isA, NEW isB, NEW address \in Universes
    PROVE  LET next == SetSynchronizationAddress(this, isA, isB, address)
           IN  next.light = this.light /\ next.port = this.port
<1> DEFINE old == IF isA THEN this.state.syncAddressA
                         ELSE this.state.syncAddressB
           left == IF old = NoUniverse THEN this
                                       ELSE LeaveUniverse(this, {}, old)
           set == IF isA THEN [left EXCEPT !.state.syncAddressA = address]
                         ELSE [left EXCEPT !.state.syncAddressB = address]
<1>1. left.light = this.light /\ left.port = this.port /\ left \in Bridge
  BY LeaveUniverseType DEF LeaveUniverse, Bridge
<1> HIDE DEF left
<1>2. set.light = this.light /\ set.port = this.port
  BY <1>1 DEF Bridge
<1>3. set \in [state : {set.state}, port : {set.port}, light : {set.light},
               groups : {set.groups}]
  BY <1>1 DEF Bridge
<1> HIDE DEF set
<1>4. /\ JoinGroup(set, address).light = this.light
      /\ JoinGroup(set, address).port = this.port
  BY <1>2, <1>3 DEF JoinGroup
<1> QED
  BY <1>4 DEF SetSynchronizationAddress, left, set

\* The synchronization part of HandleDmx changes neither ports nor light.
LEMMA SynchronizeKeeps ==
    ASSUME NEW this \in Bridge, NEW was \in Bridge, NEW p \in Ports,
           NEW packet \in DataPacket
    PROVE  LET next == Synchronize(this, was, p, packet)
           IN  next.light = this.light /\ next.port = this.port
<1> DEFINE isA == IsSource(was.port[p].sourceA, packet)
           isB == IsSource(was.port[p].sourceB, packet)
           known == isA \/ isB
           addressed ==
              SetSynchronizationAddress(this,
                IF known THEN isA ELSE Occupied(this.port[p].sourceA),
                IF known THEN isB ELSE Occupied(this.port[p].sourceB),
                packet.syncAddress)
           forced == [addressed EXCEPT !.state.IsForcedSynchronized = TRUE,
                                       !.state.IsSynchronized = TRUE]
<1>1. ASSUME packet.syncAddress # NoUniverse
      PROVE  forced.light = this.light /\ forced.port = this.port
  <2>1. packet.syncAddress \in Universes
    BY <1>1, PacketAssumption DEF DataPacket, NoUniverse
  <2>2. /\ addressed \in Bridge
        /\ addressed.light = this.light /\ addressed.port = this.port
    BY <2>1, SetSynchronizationAddressType, SetSynchronizationAddressKeeps
  <2> HIDE DEF addressed
  <2> QED
    BY <2>2 DEF Bridge
<1>2. /\ [this EXCEPT !.state.IsForcedSynchronized = FALSE].light = this.light
      /\ [this EXCEPT !.state.IsForcedSynchronized = FALSE].port = this.port
  BY DEF Bridge
<1> QED
  BY <1>1, <1>2 DEF Synchronize

\* The start of Process changes neither ports nor light.
LEMMA ArrivedWeakens ==
    ASSUME NEW this \in Bridge
    PROVE  Weakened(this, Arrived(this))
<1>1. Arrived(this).light = this.light /\ Arrived(this).port = this.port
  BY DEF Arrived, Bridge
<1> QED
  BY <1>1, SamePortsWeakened

\* Marking a port as merging leaves its slots and flags alone.
LEMMA UpdateMergeStatusWeakens ==
    ASSUME NEW this \in Bridge, NEW p \in Ports
    PROVE  Weakened(this, UpdateMergeStatus(this, p))
<1>1. this.port \in [Ports -> OutputPort]
  BY BridgeFields
<1>2. /\ UpdateMergeStatus(this, p).light = this.light
      /\ UpdateMergeStatus(this, p).port
         = [this.port EXCEPT ![p] = [this.port[p] EXCEPT !.IsMerging = TRUE]]
  BY DEF UpdateMergeStatus, Bridge
<1>3. ASSUME NEW q \in Ports
      PROVE  LET next == UpdateMergeStatus(this, p).port[q]
             IN  /\ next.IsTransmitting = this.port[q].IsTransmitting
                 /\ next.IsDataPending = this.port[q].IsDataPending
                 /\ next.sourceA = this.port[q].sourceA
                 /\ next.sourceB = this.port[q].sourceB
  <2>1. this.port[q] \in OutputPort
    BY <1>1
  <2>2. CASE q = p
    BY <1>1, <1>2, <2>1, <2>2 DEF OutputPort
  <2>3. CASE q # p
    BY <1>1, <1>2, <2>3
  <2> QED
    BY <2>2, <2>3
<1> QED
  BY <1>2, <1>3 DEF Weakened

\* A method that may empty slots of one port weakens the bridge.
LEMMA OnePortWeakens ==
    ASSUME NEW this \in Bridge, NEW next, NEW p \in Ports, NEW o \in OutputPort,
           next.light = this.light,
           next.port = [this.port EXCEPT ![p] = o],
           o.IsTransmitting = this.port[p].IsTransmitting,
           o.IsDataPending = this.port[p].IsDataPending,
           o.sourceA.sender \in {this.port[p].sourceA.sender, NoSender},
           o.sourceB.sender \in {this.port[p].sourceB.sender, NoSender}
    PROVE  Weakened(this, next)
<1>1. this.port \in [Ports -> OutputPort]
  BY BridgeFields
<1> QED
  BY <1>1 DEF Weakened

\* An emptied slot has no sender.
LEMMA EmptySlotSender ==
    ASSUME NEW source \in Source
    PROVE  EmptySlot(source).sender = NoSender
BY DEF EmptySlot, Source

\* Storing a sequence number leaves the senders alone.
LEMMA StoreSequenceWeakens ==
    ASSUME NEW this \in Bridge, NEW p \in Ports, NEW packet \in DataPacket
    PROVE  Weakened(this, StoreSequence(this, p, packet))
<1> DEFINE isA == IsSource(this.port[p].sourceA, packet)
           isB == IsSource(this.port[p].sourceB, packet)
           portNow == [this.port[p] EXCEPT
                !.sourceA = IF isA THEN Sequenced(@, packet) ELSE @,
                !.sourceB = IF isB /\ ~isA THEN Sequenced(@, packet) ELSE @]
<1>1. this.port[p] \in OutputPort
  BY BridgeFields
<1>2. packet.sequence \in SequenceNumbers
  BY DEF DataPacket
<1>3. \A source \in Source : /\ Sequenced(source, packet) \in Source
                             /\ Sequenced(source, packet).sender = source.sender
  BY <1>2 DEF Sequenced, Source
<1>4. /\ portNow \in OutputPort
      /\ portNow.IsTransmitting = this.port[p].IsTransmitting
      /\ portNow.IsDataPending = this.port[p].IsDataPending
      /\ portNow.sourceA.sender = this.port[p].sourceA.sender
      /\ portNow.sourceB.sender = this.port[p].sourceB.sender
  BY <1>1, <1>3 DEF OutputPort
<1>5. /\ StoreSequence(this, p, packet).light = this.light
      /\ StoreSequence(this, p, packet).port = [this.port EXCEPT ![p] = portNow]
  BY DEF StoreSequence, Bridge
<1> HIDE DEF portNow
<1> QED
  BY <1>4, <1>5, OnePortWeakens, StoreSequenceType

\* Dropping sources that timed out weakens the bridge.
LEMMA CheckMergeTimeoutsWeakens ==
    ASSUME NEW this \in Bridge, NEW p \in Ports
    PROVE  Weakened(this, CheckMergeTimeouts(this, p))
<1> DEFINE expiredA == this.port[p].sourceA.age > MergeTimeout
           expiredB == this.port[p].sourceB.age > MergeTimeout
           portNow == [this.port[p] EXCEPT
                !.sourceA = IF expiredA THEN EmptySlot(@) ELSE @,
                !.sourceB = IF expiredB THEN EmptySlot(@) ELSE @,
                !.IsMerging = @ /\ ~expiredA /\ ~expiredB]
           checked == [this EXCEPT
                !.port[p].sourceA = IF expiredA THEN EmptySlot(@) ELSE @,
                !.port[p].sourceB = IF expiredB THEN EmptySlot(@) ELSE @,
                !.port[p].IsMerging = @ /\ ~expiredA /\ ~expiredB]
           merging == \E q \in Ports : checked.port[q].IsMerging
<1>1. this.port[p] \in OutputPort
  BY BridgeFields
<1>2. \A source \in Source : /\ EmptySlot(source) \in Source
                             /\ EmptySlot(source).sender = NoSender
  BY EmptySlotType, EmptySlotSender
<1>3. /\ portNow \in OutputPort
      /\ portNow.IsTransmitting = this.port[p].IsTransmitting
      /\ portNow.IsDataPending = this.port[p].IsDataPending
      /\ portNow.sourceA.sender \in {this.port[p].sourceA.sender, NoSender}
      /\ portNow.sourceB.sender \in {this.port[p].sourceB.sender, NoSender}
  BY <1>1, <1>2 DEF OutputPort
<1>4. checked = [this EXCEPT !.port[p] = portNow]
  BY ZenonT(60) DEF Bridge
<1>5. /\ checked \in [state : {checked.state}, port : {checked.port},
                      light : {checked.light}, groups : {checked.groups}]
      /\ checked.light = this.light
      /\ checked.port = [this.port EXCEPT ![p] = portNow]
  <2> HIDE DEF portNow, checked
  <2> QED
    BY <1>4 DEF Bridge
<1> HIDE DEF checked
<1>6. LET next == [checked EXCEPT !.state.IsMergeMode = @ /\ merging]
      IN  next.light = checked.light /\ next.port = checked.port
  <2> HIDE DEF merging
  <2> QED
    BY <1>5
<1>7. /\ CheckMergeTimeouts(this, p).light = this.light
      /\ CheckMergeTimeouts(this, p).port = [this.port EXCEPT ![p] = portNow]
  BY <1>5, <1>6 DEF CheckMergeTimeouts, checked
<1> HIDE DEF portNow
<1> QED
  BY <1>3, <1>7, OnePortWeakens

\* Adopting a priority weakens the bridge.
LEMMA AdoptPriorityWeakens ==
    ASSUME NEW this \in Bridge, NEW p \in Ports, NEW packet \in DataPacket
    PROVE  Weakened(this, AdoptPriority(this, p, packet))
<1> DEFINE portNow == [this.port[p] EXCEPT !.sourceA = EmptySlot(@),
                                           !.sourceB = EmptySlot(@)]
<1>1. this.port[p] \in OutputPort
  BY BridgeFields
<1>2. \A source \in Source : /\ EmptySlot(source) \in Source
                             /\ EmptySlot(source).sender = NoSender
  BY EmptySlotType, EmptySlotSender
<1>3. /\ portNow \in OutputPort
      /\ portNow.IsTransmitting = this.port[p].IsTransmitting
      /\ portNow.IsDataPending = this.port[p].IsDataPending
      /\ portNow.sourceA.sender = NoSender
      /\ portNow.sourceB.sender = NoSender
  BY <1>1, <1>2 DEF OutputPort
<1>4. CASE packet.priority > this.state.nPriority
  <2>1. /\ AdoptPriority(this, p, packet).light = this.light
        /\ AdoptPriority(this, p, packet).port = [this.port EXCEPT ![p] = portNow]
    BY <1>4 DEF AdoptPriority, Bridge
  <2> HIDE DEF portNow
  <2> QED
    BY <1>3, <2>1, OnePortWeakens
<1>5. CASE ~(packet.priority > this.state.nPriority)
  <2>1. /\ AdoptPriority(this, p, packet).light = this.light
        /\ AdoptPriority(this, p, packet).port = this.port
    BY <1>5 DEF AdoptPriority, Bridge
  <2> QED
    BY <2>1, SamePortsWeakened
<1> QED
  BY <1>4, <1>5

-----------------------------------------------------------------------------
(* Merge and Update *)

\* Merging fills the buffer of its port and starts or stops none.
LEMMA MergeSourceKeeps ==
    ASSUME NEW lit \in Light, NEW p \in Ports, NEW level \in Levels, NEW mode
    PROVE  \A next \in {MergeSourceA(lit, p, level, mode),
                        MergeSourceB(lit, p, level, mode)} :
             /\ next[p].filled
             /\ \A q \in Ports : /\ next[q].started = lit[q].started
                                 /\ lit[q].filled => next[q].filled
BY DEF MergeSourceA, MergeSourceB, Light, LightPort

\* What a packet leaves in a slot keeps the sender, or is of the packet.
LEMMA TakenSender ==
    ASSUME NEW source \in Source, NEW packet \in DataPacket
    PROVE  /\ Continued(source, packet).sender = source.sender
           /\ Filled(packet).sender = packet.sender
BY DEF Continued, Filled, Source

\* A packet that no slot takes, because two other sources hold them, finds the
\* data of one of those.
LEMMA NoSlotGood ==
    ASSUME NEW was, NEW p \in Ports, NEW packet \in DataPacket, GoodPort(was, p),
           ~GoesToA(was.port[p].sourceA, was.port[p].sourceB, packet),
           ~GoesToB(was.port[p].sourceA, was.port[p].sourceB, packet)
    PROVE  IsLit(was, p)
<1>1. packet.sender # NoSender
  BY SenderAssumption DEF DataPacket
<1> QED
  BY <1>1 DEF GoodPort, GoesToA, GoesToB, IsSource, Occupied

\* Merging fills the buffer, and gives a source one slot at most.
LEMMA MergeGood ==
    ASSUME NEW this \in Bridge, NEW was \in Bridge, NEW p \in Ports,
           NEW packet \in DataPacket,
           Good(was), Weakened(was, this)
    PROVE  /\ Good(Merge(this, was, p, packet))
           /\ IsLit(Merge(this, was, p, packet), p)
<1> DEFINE A == was.port[p].sourceA
           B == was.port[p].sourceB
           toA == GoesToA(A, B, packet)
           toB == GoesToB(A, B, packet)
           isMerge == (toA /\ Occupied(B)) \/ (toB /\ Occupied(A))
           mode == IF isMerge THEN this.port[p].mergeMode ELSE "LTP"
           known == IsSource(A, packet) \/ IsSource(B, packet)
           taken(source) == IF known
                              THEN Continued(source, packet) ELSE Filled(packet)
           portNow == [this.port[p] EXCEPT
                !.sourceA = IF toA THEN taken(@) ELSE @,
                !.sourceB = IF toB THEN taken(@) ELSE @]
           lit == CASE toA -> MergeSourceA(this.light, p, packet.level, mode)
                    [] toB -> MergeSourceB(this.light, p, packet.level, mode)
                    [] OTHER -> this.light
           stored == [this EXCEPT
                !.port[p].sourceA = IF toA THEN taken(@) ELSE @,
                !.port[p].sourceB = IF toB THEN taken(@) ELSE @,
                !.light = CASE toA -> MergeSourceA(@, p, packet.level, mode)
                            [] toB -> MergeSourceB(@, p, packet.level, mode)
                            [] OTHER -> @]
<1>1. this.port[p] \in OutputPort /\ this.port \in [Ports -> OutputPort]
  BY BridgeFields
<1>2. Good(this)
  BY WeakenedIsGood
<1>3. packet.level \in Levels /\ packet.sender \in Senders
  BY DEF DataPacket
<1>4. \A source \in Source :
          /\ taken(source) \in Source
          /\ known => taken(source).sender = source.sender
          /\ ~known => taken(source).sender = packet.sender
  BY SlotType, TakenSender
<1>5. /\ \A q \in Ports : /\ lit[q].started = this.light[q].started
                          /\ this.light[q].filled => lit[q].filled
      /\ toA \/ toB => lit[p].filled
  <2> HIDE DEF toA, toB, mode
  <2>1. CASE toA
    BY <1>3, <2>1, BridgeFields, MergeSourceKeeps
  <2>2. CASE ~toA /\ toB
    BY <1>3, <2>2, BridgeFields, MergeSourceKeeps
  <2>3. CASE ~toA /\ ~toB
    BY <2>3
  <2> QED
    BY <2>1, <2>2, <2>3
<1>6. lit[p].filled \/ lit[p].started
  <2>1. CASE toA \/ toB
    BY <1>5, <2>1
  <2>2. CASE ~toA /\ ~toB
    <3>1. IsLit(was, p)
      BY <2>2, NoSlotGood DEF Good
    <3> QED
      BY <1>5, <3>1 DEF IsLit, Weakened
  <2> QED
    BY <2>1, <2>2
<1>7. /\ A.sender = B.sender => ~Occupied(A)
      /\ this.port[p].sourceA.sender \in {A.sender, NoSender}
      /\ this.port[p].sourceB.sender \in {B.sender, NoSender}
  BY DEF Good, GoodPort, Weakened
<1>8. /\ toA => ~toB
      /\ toA /\ ~known => ~IsSource(B, packet)
      /\ toB /\ ~known => ~IsSource(A, packet)
  BY DEF GoesToA, GoesToB
<1> HIDE DEF toA, toB, known, mode
<1>9. /\ portNow \in OutputPort
      /\ portNow.IsTransmitting = this.port[p].IsTransmitting
      /\ portNow.IsDataPending = this.port[p].IsDataPending
      /\ portNow.sourceA = IF toA THEN taken(this.port[p].sourceA)
                                  ELSE this.port[p].sourceA
      /\ portNow.sourceB = IF toB THEN taken(this.port[p].sourceB)
                                  ELSE this.port[p].sourceB
  <2>1. this.port[p].sourceA \in Source /\ this.port[p].sourceB \in Source
    BY <1>1 DEF OutputPort
  <2>2. /\ taken(this.port[p].sourceA) \in Source
        /\ taken(this.port[p].sourceB) \in Source
    BY <1>4, <2>1
  <2> HIDE DEF taken
  <2> QED
    BY <1>1, <2>2 DEF OutputPort
<1>10. portNow.sourceA.sender = portNow.sourceB.sender
       => portNow.sourceA.sender = NoSender
  <2>1. this.port[p].sourceA \in Source /\ this.port[p].sourceB \in Source
    BY <1>1 DEF OutputPort
  <2>2. CASE known
    <3>1. /\ portNow.sourceA.sender = this.port[p].sourceA.sender
          /\ portNow.sourceB.sender = this.port[p].sourceB.sender
      BY <1>4, <1>9, <2>1, <2>2
    <3> QED
      BY <1>7, <3>1 DEF Occupied
  <2>3. CASE ~known
    <3>1. /\ toA => portNow.sourceA.sender = packet.sender
          /\ ~toA => portNow.sourceA.sender = this.port[p].sourceA.sender
          /\ toB => portNow.sourceB.sender = packet.sender
          /\ ~toB => portNow.sourceB.sender = this.port[p].sourceB.sender
      BY <1>4, <1>9, <2>1, <2>3
    <3>2. A.sender # packet.sender /\ B.sender # packet.sender
      BY <2>3 DEF known, IsSource
    <3>3. packet.sender # NoSender
      BY <1>3, SenderAssumption
    <3> QED
      BY <1>7, <1>8, <3>1, <3>2, <3>3 DEF Occupied
  <2> QED
    BY <2>2, <2>3
<1>11. stored = [this EXCEPT !.port[p] = portNow, !.light = lit]
  <2> HIDE DEF taken
  <2> QED
    BY ZenonT(60) DEF Bridge
<1> HIDE DEF portNow, lit
<1>12. /\ stored.light = lit
       /\ stored.port = [this.port EXCEPT ![p] = portNow]
  <2> HIDE DEF stored
  <2> QED
    BY <1>11 DEF Bridge
<1> HIDE DEF stored
<1>13. Good(stored) /\ IsLit(stored, p)
  <2>1. ASSUME NEW q \in Ports
        PROVE  GoodPort(stored, q)
    <3>1. CASE q = p
      BY <1>1, <1>2, <1>5, <1>6, <1>9, <1>10, <1>12, <3>1
         DEF Good, GoodPort, IsLit, Occupied
    <3>2. CASE q # p
      BY <1>1, <1>2, <1>5, <1>12, <3>2 DEF Good, GoodPort, IsLit
    <3> QED
      BY <3>1, <3>2
  <2> QED
    BY <1>6, <1>12, <2>1 DEF Good, IsLit
<1>14. stored \in Bridge
  <2>1. lit \in Light
    BY <1>3, BridgeFields, MergeSourceType DEF lit
  <2> QED
    BY <1>9, <1>11, <2>1 DEF Bridge, Light
<1>15. /\ Good(UpdateMergeStatus(stored, p))
       /\ IsLit(UpdateMergeStatus(stored, p), p)
  BY <1>13, <1>14, UpdateMergeStatusWeakens, WeakenedIsGood DEF Weakened, IsLit
<1> QED
  BY <1>13, <1>15
     DEF Merge, stored, taken, known, A, B, toA, toB, mode

\* Handing a buffer to the driver changes neither lengths nor starts.
LEMMA OutputKeeps ==
    ASSUME NEW lit \in Light, NEW p \in Ports
    PROVE  /\ \A q \in Ports : /\ Output(lit, p)[q].started = lit[q].started
                               /\ Output(lit, p)[q].filled = lit[q].filled
           /\ Start(lit, p)[p].started
           /\ \A q \in Ports : /\ lit[q].started => Start(lit, p)[q].started
                               /\ Start(lit, p)[q].filled = lit[q].filled
BY DEF Output, Start, Light, LightPort

\* A port that starts to transmit is started, pending data is in the buffer.
LEMMA UpdateGood ==
    ASSUME NEW this \in Bridge, NEW p \in Ports, Good(this), IsLit(this, p)
    PROVE  Good(Update(this, p))
<1> DEFINE lit == IF this.port[p].IsTransmitting
                    THEN Output(this.light, p)
                    ELSE Start(Output(this.light, p), p)
           sends == [this EXCEPT !.light = lit, !.port[p].IsTransmitting = TRUE]
           holds == [this EXCEPT !.port[p].IsDataPending = TRUE]
<1>1. this.port[p] \in OutputPort /\ this.port \in [Ports -> OutputPort]
  BY BridgeFields
<1>2. /\ Output(this.light, p) \in Light
      /\ \A q \in Ports : /\ this.light[q].started => lit[q].started
                          /\ this.light[q].filled => lit[q].filled
      /\ lit[p].started
  <2>1. this.light \in Light /\ Output(this.light, p) \in Light
    BY BridgeFields, OutputType
  <2>2. \A q \in Ports :
          /\ Output(this.light, p)[q].started = this.light[q].started
          /\ Output(this.light, p)[q].filled = this.light[q].filled
    BY <2>1, OutputKeeps
  <2>3. /\ Start(Output(this.light, p), p)[p].started
        /\ \A q \in Ports :
             /\ Output(this.light, p)[q].started
                => Start(Output(this.light, p), p)[q].started
             /\ Start(Output(this.light, p), p)[q].filled
                = Output(this.light, p)[q].filled
    BY <2>1, OutputKeeps
  <2>4. this.port[p].IsTransmitting => this.light[p].started
    BY DEF Good, GoodPort
  <2> QED
    BY <2>1, <2>2, <2>3, <2>4
<1> HIDE DEF lit
<1>3. /\ sends.light = lit
      /\ sends.port = [this.port EXCEPT
                          ![p] = [this.port[p] EXCEPT !.IsTransmitting = TRUE]]
      /\ holds.light = this.light
      /\ holds.port = [this.port EXCEPT
                          ![p] = [this.port[p] EXCEPT !.IsDataPending = TRUE]]
  BY DEF Bridge
<1> HIDE DEF sends, holds
<1>4. Good(sends)
  <2> SUFFICES ASSUME NEW q \in Ports
               PROVE  GoodPort(sends, q)
    BY DEF Good
  <2> DEFINE o == [this.port[p] EXCEPT !.IsTransmitting = TRUE]
  <2>1. /\ o.IsDataPending = this.port[p].IsDataPending
        /\ o.sourceA = this.port[p].sourceA /\ o.sourceB = this.port[p].sourceB
    BY <1>1 DEF OutputPort
  <2>2. sends.port[q] = IF q = p THEN o ELSE this.port[q]
    BY <1>1, <1>3
  <2> HIDE DEF o
  <2>3. /\ sends.port[q].IsDataPending = this.port[q].IsDataPending
        /\ sends.port[q].sourceA = this.port[q].sourceA
        /\ sends.port[q].sourceB = this.port[q].sourceB
        /\ q # p => sends.port[q].IsTransmitting = this.port[q].IsTransmitting
    BY <2>1, <2>2
  <2> QED
    BY <1>2, <1>3, <2>3 DEF Good, GoodPort, IsLit
<1>5. Good(holds)
  <2> SUFFICES ASSUME NEW q \in Ports
               PROVE  GoodPort(holds, q)
    BY DEF Good
  <2> DEFINE o == [this.port[p] EXCEPT !.IsDataPending = TRUE]
  <2>1. /\ o.IsTransmitting = this.port[p].IsTransmitting
        /\ o.sourceA = this.port[p].sourceA /\ o.sourceB = this.port[p].sourceB
    BY <1>1 DEF OutputPort
  <2>2. holds.port[q] = IF q = p THEN o ELSE this.port[q]
    BY <1>1, <1>3
  <2> HIDE DEF o
  <2>3. /\ holds.port[q].IsTransmitting = this.port[q].IsTransmitting
        /\ holds.port[q].sourceA = this.port[q].sourceA
        /\ holds.port[q].sourceB = this.port[q].sourceB
        /\ q # p => holds.port[q].IsDataPending = this.port[q].IsDataPending
    BY <2>1, <2>2
  <2> QED
    BY <1>3, <2>3 DEF Good, GoodPort, IsLit
<1> QED
  BY <1>4, <1>5 DEF Update, sends, holds, lit

-----------------------------------------------------------------------------
(* Data loss and synchronization *)

\* Clearing lengths starts and stops no port.
LEMMA ClearLengthKeeps ==
    ASSUME NEW lit \in Light, NEW S, NEW p \in Ports
    PROVE  /\ ClearLength(lit, S)[p].started = lit[p].started
           /\ p \notin S => ClearLength(lit, S)[p].filled = lit[p].filled
BY DEF ClearLength, Light, LightPort

\* No failsafe changes lengths or starts.
LEMMA FailSafeLightKeeps ==
    ASSUME NEW lit \in Light, NEW failsafe, NEW p \in Ports
    PROVE  /\ FailSafeLight(lit, failsafe)[p].started = lit[p].started
           /\ FailSafeLight(lit, failsafe)[p].filled = lit[p].filled
<1>1. \A level : /\ AllTo(lit, level)[p].started = lit[p].started
                 /\ AllTo(lit, level)[p].filled = lit[p].filled
  BY DEF AllTo, Light, LightPort
<1> QED
  BY <1>1 DEF FailSafeLight, Blackout, FullOn

\* Data loss: ports in lost stop, which were transmitting, and slots are
\* emptied.
LEMMA LossGood ==
    ASSUME NEW this, NEW next, Good(this),
           NEW lost, \A p \in lost : this.port[p].IsTransmitting,
           \A p \in Ports :
             /\ next.light[p].started = this.light[p].started
             /\ p \notin lost => next.light[p].filled = this.light[p].filled
             /\ next.port[p].IsTransmitting => this.port[p].IsTransmitting
             /\ next.port[p].IsDataPending = this.port[p].IsDataPending
             /\ next.port[p].sourceA.sender
                    \in {this.port[p].sourceA.sender, NoSender}
             /\ next.port[p].sourceB.sender
                    \in {this.port[p].sourceB.sender, NoSender}
    PROVE  Good(next)
BY SenderAssumption DEF Good, GoodPort, IsLit, Occupied

\* Network data loss clears the lengths of started ports only.
LEMMA NetworkDataLossGood ==
    ASSUME NEW this \in Bridge, NEW failsafe, Good(this)
    PROVE  Good(NetworkDataLoss(this, failsafe))
<1> DEFINE lost == {p \in Ports : this.port[p].IsTransmitting}
           cleared == ClearLength(this.light, lost)
           next == NetworkDataLoss(this, failsafe)
<1>1. next.light \in {cleared, FailSafeLight(cleared, failsafe)}
  BY DEF NetworkDataLoss, Bridge
<1>2. next.port = [p \in Ports |->
                IF p \in lost
                  THEN [this.port[p] EXCEPT !.sourceA = EmptySlot(@),
                                            !.sourceB = EmptySlot(@),
                                            !.IsTransmitting = FALSE,
                                            !.IsMerging = FALSE]
                  ELSE this.port[p]]
  BY DEF NetworkDataLoss, Bridge
<1> HIDE DEF next
<1>3. ASSUME NEW p \in Ports
      PROVE  /\ next.light[p].started = this.light[p].started
             /\ p \notin lost => next.light[p].filled = this.light[p].filled
             /\ next.port[p].IsTransmitting => this.port[p].IsTransmitting
             /\ next.port[p].IsDataPending = this.port[p].IsDataPending
             /\ next.port[p].sourceA.sender
                    \in {this.port[p].sourceA.sender, NoSender}
             /\ next.port[p].sourceB.sender
                    \in {this.port[p].sourceB.sender, NoSender}
  <2>1. /\ next.light[p].started = this.light[p].started
        /\ p \notin lost => next.light[p].filled = this.light[p].filled
    <3> HIDE DEF lost
    <3>1. this.light \in Light
      BY BridgeFields
    <3>2. /\ cleared \in Light
          /\ cleared[p].started = this.light[p].started
          /\ p \notin lost => cleared[p].filled = this.light[p].filled
      BY <3>1, ClearLengthType, ClearLengthKeeps
    <3> HIDE DEF cleared
    <3>3. /\ FailSafeLight(cleared, failsafe)[p].started = cleared[p].started
          /\ FailSafeLight(cleared, failsafe)[p].filled = cleared[p].filled
      BY <3>2, FailSafeLightKeeps
    <3> QED
      BY <1>1, <3>2, <3>3
  <2>2. this.port[p] \in OutputPort
    BY BridgeFields
  <2>3. /\ EmptySlot(this.port[p].sourceA).sender = NoSender
        /\ EmptySlot(this.port[p].sourceB).sender = NoSender
    BY <2>2, EmptySlotSender DEF OutputPort
  <2> QED
    BY <1>2, <2>1, <2>2, <2>3, ZenonT(60) DEF OutputPort
<1>4. \A p \in lost : this.port[p].IsTransmitting
  OBVIOUS
<1> HIDE DEF lost
<1> QED
  BY <1>3, <1>4, LossGood, ZenonT(60) DEF next

\* Losing a source clears the lengths of started ports only.
LEMMA SourceLossGood ==
    ASSUME NEW this \in Bridge, NEW isA \in BOOLEAN, NEW isB \in BOOLEAN,
           NEW failsafe, Good(this)
    PROVE  Good(SourceLoss(this, isA, isB, failsafe))
<1> DEFINE served == {p \in Ports : this.port[p].IsTransmitting}
           lost == IF this.state.IsMergeMode THEN {} ELSE served
           dropsA(p) == isA /\ Occupied(this.port[p].sourceA)
           dropsB(p) == isB /\ Occupied(this.port[p].sourceB)
           cleared == ClearLength(this.light, lost)
           next == SourceLoss(this, isA, isB, failsafe)
<1>1. next.light \in {cleared, FailSafeLight(cleared, failsafe)}
  BY DEF SourceLoss, Bridge
<1>2. next.port = [p \in Ports |->
                IF p \in served
                  THEN [this.port[p] EXCEPT
                            !.sourceA = IF dropsA(p) THEN EmptySlot(@) ELSE @,
                            !.sourceB = IF dropsB(p) THEN EmptySlot(@) ELSE @,
                            !.IsMerging = @ /\ ~dropsA(p) /\ ~dropsB(p),
                            !.IsTransmitting = @ /\ p \notin lost]
                  ELSE this.port[p]]
  BY DEF SourceLoss, Bridge
<1> HIDE DEF next
<1>3. ASSUME NEW p \in Ports
      PROVE  /\ next.light[p].started = this.light[p].started
             /\ p \notin lost => next.light[p].filled = this.light[p].filled
             /\ next.port[p].IsTransmitting => this.port[p].IsTransmitting
             /\ next.port[p].IsDataPending = this.port[p].IsDataPending
             /\ next.port[p].sourceA.sender
                    \in {this.port[p].sourceA.sender, NoSender}
             /\ next.port[p].sourceB.sender
                    \in {this.port[p].sourceB.sender, NoSender}
  <2>1. /\ next.light[p].started = this.light[p].started
        /\ p \notin lost => next.light[p].filled = this.light[p].filled
    <3> HIDE DEF lost
    <3>1. this.light \in Light
      BY BridgeFields
    <3>2. /\ cleared \in Light
          /\ cleared[p].started = this.light[p].started
          /\ p \notin lost => cleared[p].filled = this.light[p].filled
      BY <3>1, ClearLengthType, ClearLengthKeeps
    <3> HIDE DEF cleared
    <3>3. /\ FailSafeLight(cleared, failsafe)[p].started = cleared[p].started
          /\ FailSafeLight(cleared, failsafe)[p].filled = cleared[p].filled
      BY <3>2, FailSafeLightKeeps
    <3> QED
      BY <1>1, <3>2, <3>3
  <2>2. this.port[p] \in OutputPort
    BY BridgeFields
  <2>3. /\ EmptySlot(this.port[p].sourceA).sender = NoSender
        /\ EmptySlot(this.port[p].sourceB).sender = NoSender
    BY <2>2, EmptySlotSender DEF OutputPort
  <2> QED
    BY <1>2, <2>1, <2>2, <2>3, ZenonT(60) DEF OutputPort
<1>4. \A p \in lost : this.port[p].IsTransmitting
  OBVIOUS
<1> HIDE DEF lost
<1> QED
  BY <1>3, <1>4, LossGood, ZenonT(60) DEF next

\* Sync starts each port with data, so each pending port is started.
LEMMA HandleSynchronizationGood ==
    ASSUME NEW this \in Bridge, NEW address, Good(this)
    PROVE  Good(HandleSynchronization(this, address))
<1> DEFINE pending == {p \in Ports : this.port[p].IsDataPending}
           next == HandleSynchronization(this, address)
<1>1. CASE address \notin {this.state.syncAddressA, this.state.syncAddressB}
  BY <1>1 DEF HandleSynchronization
<1>2. CASE address \in {this.state.syncAddressA, this.state.syncAddressB}
  <2>1. /\ next.light = Sync(this.light, pending)
        /\ next.port = [p \in Ports |->
              [this.port[p] EXCEPT
                  !.IsDataPending = FALSE,
                  !.IsTransmitting = @ \/ p \in pending]]
    BY <1>2 DEF HandleSynchronization, Bridge
  <2> HIDE DEF next
  <2>2. ASSUME NEW p \in Ports
        PROVE  GoodPort(next, p)
    <3>1. this.port[p] \in OutputPort /\ this.light[p] \in LightPort
      BY BridgeFields DEF Light
    <3>2. this.light[p].started \/ this.light[p].filled => next.light[p].started
      BY <2>1, <3>1, ZenonT(60) DEF Sync, LightPort
    <3>3. next.port[p] = [this.port[p] EXCEPT
                             !.IsDataPending = FALSE,
                             !.IsTransmitting = @ \/ p \in pending]
      BY <2>1
    <3>4. /\ ~next.port[p].IsDataPending
          /\ next.port[p].IsTransmitting
             => this.port[p].IsTransmitting \/ this.port[p].IsDataPending
          /\ next.port[p].sourceA = this.port[p].sourceA
          /\ next.port[p].sourceB = this.port[p].sourceB
      BY <3>1, <3>3 DEF OutputPort
    <3> QED
      BY <3>2, <3>4 DEF Good, GoodPort, IsLit
  <2> QED
    BY <2>2 DEF Good, next
<1> QED
  BY <1>1, <1>2

\* HandleDmx on one port keeps the bridge good.
LEMMA HandleDmxGood ==
    ASSUME NEW was \in Bridge, NEW p \in Ports, NEW packet \in DataPacket,
           NEW failsafe, Good(was)
    PROVE  Good(HandleDmx(was, p, packet, failsafe))
<1> DEFINE isA == IsSource(was.port[p].sourceA, packet)
           isB == IsSource(was.port[p].sourceB, packet)
           stored == StoreSequence(was, p, packet)
           checked == IF was.state.IsMergeMode /\ ~DisableMergeTimeout
                        THEN CheckMergeTimeouts(stored, p) ELSE stored
           adopted == AdoptPriority(checked, p, packet)
           merged == Merge(adopted, was, p, packet)
           synchronized == Synchronize(merged, was, p, packet)
<1>1. stored \in Bridge /\ Weakened(was, stored)
  BY StoreSequenceType, StoreSequenceWeakens
<1> HIDE DEF stored
<1>2. checked \in Bridge /\ Weakened(was, checked)
  BY <1>1, CheckMergeTimeoutsType, CheckMergeTimeoutsWeakens,
     WeakenedTransitive
<1> HIDE DEF checked
<1>3. adopted \in Bridge /\ Weakened(was, adopted)
  BY <1>2, AdoptPriorityType, AdoptPriorityWeakens, WeakenedTransitive
<1> HIDE DEF adopted
<1>4. merged \in Bridge /\ Good(merged) /\ IsLit(merged, p)
  BY <1>3, MergeType, MergeGood
<1> HIDE DEF merged
<1>5. /\ synchronized \in Bridge
      /\ synchronized.light = merged.light
      /\ synchronized.port = merged.port
  BY <1>4, SynchronizeType, SynchronizeKeeps
<1> HIDE DEF synchronized
<1>6. Good(synchronized) /\ IsLit(synchronized, p)
  BY <1>4, <1>5, SamePortsWeakened, WeakenedIsGood DEF IsLit
<1>7. Good(Update(synchronized, p))
  BY <1>5, <1>6, UpdateGood
<1>8. Good(stored) /\ Good(checked)
  BY <1>1, <1>2, WeakenedIsGood
<1>9. isA \in BOOLEAN /\ isB \in BOOLEAN
  BY DEF IsSource
<1> HIDE DEF isA, isB
<1>10. Good(SetNetworkDataLossCondition(stored, isA, isB, failsafe))
  BY <1>1, <1>8, <1>9, NetworkDataLossGood, SourceLossGood
     DEF SetNetworkDataLossCondition
<1> QED
  BY <1>7, <1>8, <1>10
     DEF HandleDmx, isA, isB, stored, checked, adopted, merged, synchronized

-----------------------------------------------------------------------------
(* The steps *)

IInv == TypeOK /\ TransmitImpliesStarted /\ DataIsKept /\ DistinctSources

\* In the main loop IInv says that the bridge is good.
LEMMA IInvIsGood ==
    TypeOK => (IInv <=> /\ main # "halt" => Good(ThisBridge)
                        /\ DistinctSources)
BY DEF IInv, TransmitImpliesStarted, DataIsKept, DistinctSources, Good, GoodPort,
       IsLit, ThisBridge

\* A step to the bridge "next" in the main loop.
LEMMA BecomeGood ==
    ASSUME NEW next, Good(next), Become(next), TypeOK'
    PROVE  IInv'
BY DEF IInv, TransmitImpliesStarted, DataIsKept, DistinctSources, Good, GoodPort,
       IsLit, Become

\* The bridge is good when it is about to receive, and after the start of Process.
LEMMA ReceiveGood ==
    ASSUME IInv, IsRunning \/ NextPort
    PROVE  /\ ThisBridge \in Bridge /\ Good(ThisBridge)
           /\ Arrived(ThisBridge) \in Bridge /\ Good(Arrived(ThisBridge))
<1>1. main # "halt"
  BY DEF IsRunning, NextPort
<1>2. ThisBridge \in Bridge /\ Good(ThisBridge)
  BY <1>1, IInvIsGood, ThisBridgeType DEF IInv
<1> QED
  BY <1>2, ArrivedType, ArrivedWeakens, WeakenedIsGood

\* Serving a port of the loop of HandleDmx keeps the invariant.
LEMMA ServePortGood ==
    ASSUME NEW this \in Bridge, NEW packet \in DataPacket,
           NEW todo, todo \subseteq Ports, todo # {},
           Good(this), ServePort(this, packet, todo), TypeOK'
    PROVE  IInv'
<1>1. First(todo) \in Ports
  BY FirstType
<1>2. PICK failsafe :
          Become(HandleDmx(this, First(todo), packet, failsafe))
  BY DEF ServePort
<1>3. Good(HandleDmx(this, First(todo), packet, failsafe))
  BY <1>1, HandleDmxGood
<1> QED
  BY <1>2, <1>3, BecomeGood

\* A step that keeps what Good looks at.
LEMMA UnchangedGood ==
    ASSUME IInv, TypeOK', light' = light, main' # "halt" => main # "halt",
           \A p \in Ports :
             /\ port'[p].IsTransmitting = port[p].IsTransmitting
             /\ port'[p].IsDataPending = port[p].IsDataPending
             /\ port'[p].sourceA.sender = port[p].sourceA.sender
             /\ port'[p].sourceB.sender = port[p].sourceB.sender
    PROVE  IInv'
BY DEF IInv, TransmitImpliesStarted, DataIsKept, DistinctSources, Occupied

\* The clock changes no sender, no flag and no buffer.
LEMMA TickGood == IInv /\ Tick /\ TypeOK' => IInv'
<1> SUFFICES ASSUME IInv, Tick, TypeOK'
             PROVE  IInv'
  OBVIOUS
<1>1. ASSUME NEW p \in Ports
      PROVE  /\ port'[p].IsTransmitting = port[p].IsTransmitting
             /\ port'[p].IsDataPending = port[p].IsDataPending
             /\ port'[p].sourceA.sender = port[p].sourceA.sender
             /\ port'[p].sourceB.sender = port[p].sourceB.sender
  <2>1. /\ port[p] \in OutputPort
        /\ port[p].sourceA \in Source /\ port[p].sourceB \in Source
    BY DEF IInv, TypeOK, OutputPort
  <2>2. port'[p] = [port[p] EXCEPT !.sourceA.age = Older(@, MaxSourceAge),
                                   !.sourceB.age = Older(@, MaxSourceAge)]
    BY DEF Tick
  <2> QED
    BY <2>1, <2>2 DEF OutputPort, Source
<1> QED
  BY <1>1, UnchangedGood DEF Tick

\* Clear starts the port that it marks as transmitting.
LEMMA ClearGood ==
    ASSUME IInv, NEW p \in Ports, Clear(p), TypeOK'
    PROVE  IInv'
<1> DEFINE starts == port[p].direction = "OUTPUT" /\ ~port[p].IsTransmitting
<1>1. light \in Light /\ port \in [Ports -> OutputPort] /\ port[p] \in OutputPort
  BY DEF IInv, TypeOK, Light
<1>2. /\ OutputClear(light, p) \in Light
      /\ OutputClear(light, p)[p].filled
      /\ \A q \in Ports : /\ OutputClear(light, p)[q].started = light[q].started
                          /\ light[q].filled => OutputClear(light, p)[q].filled
  <2>1. OutputClear(light, p) \in Light
    BY <1>1, OutputType
  <2> QED
    BY <1>1, <2>1 DEF OutputClear, Light, LightPort
<1>3. /\ \A q \in Ports : /\ light[q].started => light'[q].started
                          /\ light[q].filled => light'[q].filled
      /\ starts => light'[p].started
  <2>1. /\ Start(OutputClear(light, p), p)[p].started
        /\ \A q \in Ports :
             /\ OutputClear(light, p)[q].started
                => Start(OutputClear(light, p), p)[q].started
             /\ Start(OutputClear(light, p), p)[q].filled
                = OutputClear(light, p)[q].filled
    BY <1>2, OutputKeeps
  <2> QED
    BY <1>2, <2>1 DEF Clear
<1>4. \A q \in Ports :
        /\ port'[q].IsTransmitting => port[q].IsTransmitting \/ (q = p /\ starts)
        /\ port'[q].IsDataPending = port[q].IsDataPending
        /\ port'[q].sourceA.sender = port[q].sourceA.sender
        /\ port'[q].sourceB.sender = port[q].sourceB.sender
  BY <1>1 DEF Clear, OutputPort
<1>5. main = "loop" /\ main' = "loop"
  BY DEF Clear, IsRunning
<1> QED
  BY <1>3, <1>4, <1>5
     DEF IInv, TransmitImpliesStarted, DataIsKept, DistinctSources, Occupied

\* Configuring the node changes no slot, no flag and no buffer.
LEMMA ConfigurationGood ==
    ASSUME IInv, NEW p \in Ports, TypeOK'
    PROVE  /\ \A universe \in Universes : SetUniverse(p, universe) => IInv'
           /\ \A mergeMode \in MergeModes : SetMergeMode(p, mergeMode) => IInv'
<1>1. port \in [Ports -> OutputPort] /\ port[p] \in OutputPort
  BY DEF IInv, TypeOK
<1>2. ASSUME NEW universe \in Universes, SetUniverse(p, universe)
      PROVE  IInv'
  <2>1. \/ port' = [port EXCEPT ![p].direction = "DISABLE"]
        \/ port' = [port EXCEPT ![p].direction = "OUTPUT",
                                ![p].universe = universe]
    BY <1>2 DEF SetUniverse, SetUniverseDisable, SetUniverseOutput
  <2>2. \A q \in Ports :
           /\ port'[q].IsTransmitting = port[q].IsTransmitting
           /\ port'[q].IsDataPending = port[q].IsDataPending
           /\ port'[q].sourceA.sender = port[q].sourceA.sender
           /\ port'[q].sourceB.sender = port[q].sourceB.sender
    BY <1>1, <2>1 DEF OutputPort
  <2> QED
    BY <1>2, <2>2, UnchangedGood DEF SetUniverse
<1>3. ASSUME NEW mergeMode \in MergeModes, SetMergeMode(p, mergeMode)
      PROVE  IInv'
  <2>1. \A q \in Ports :
           /\ port'[q].IsTransmitting = port[q].IsTransmitting
           /\ port'[q].IsDataPending = port[q].IsDataPending
           /\ port'[q].sourceA.sender = port[q].sourceA.sender
           /\ port'[q].sourceB.sender = port[q].sourceB.sender
    BY <1>1, <1>3 DEF SetMergeMode, OutputPort
  <2> QED
    BY <1>3, <2>1, UnchangedGood DEF SetMergeMode
<1> QED
  BY <1>2, <1>3

\* After the constructor no port transmits and every slot is empty.
LEMMA BootGood ==
    ASSUME TypeOK, main = "boot", port = [p \in Ports |-> PortAtBoot],
           light = LightAtBoot
    PROVE  IInv
BY DEF IInv, TransmitImpliesStarted, DataIsKept, DistinctSources, PortAtBoot,
       NoSource, Occupied

\* Start, Stop and a reboot keep the invariant.
LEMMA StartStopBridgeGood ==
    ASSUME IInv, TypeOK'
    PROVE  /\ StartBridge => IInv'
           /\ StopBridge => IInv'
           /\ Reboot => IInv'
<1>1. StartBridge => IInv'
  BY UnchangedGood DEF StartBridge
<1>2. StopBridge => IInv'
  BY DEF StopBridge, IInv, TransmitImpliesStarted, DataIsKept, DistinctSources
<1>3. Reboot => IInv'
  BY DEF Reboot, IInv, TransmitImpliesStarted, DataIsKept, DistinctSources,
         PortAtBoot, NoSource, Occupied
<1> QED
  BY <1>1, <1>2, <1>3

\* Every step keeps the invariant.
LEMMA NextGood == IInv /\ [Next]_vars => IInv'
<1> SUFFICES ASSUME IInv, [Next]_vars
             PROVE  IInv'
  OBVIOUS
<1>1. TypeOK /\ TypeOK'
  BY NextType DEF IInv
<1>2. ASSUME NEW packet \in DataPacket, ReceiveData(packet)
      PROVE  IInv'
  <2>1. Subscribed(packet.universe) \subseteq Ports
    BY DEF Subscribed
  <2> QED
    BY <1>1, <1>2, <2>1, ReceiveGood, ServePortGood DEF ReceiveData
<1>3. CASE NextPort
  <2>1. frame \in DataPacket /\ rest \subseteq Ports /\ rest # {}
    BY <1>1, <1>3 DEF NextPort, TypeOK
  <2> QED
    BY <1>1, <1>3, <2>1, ReceiveGood, ServePortGood DEF NextPort
<1>4. CASE ReceiveOther
  BY <1>1, <1>4, ReceiveGood, BecomeGood DEF ReceiveOther
<1>5. ASSUME NEW address \in Universes \cup {NoUniverse},
             ReceiveSynchronization(address)
      PROVE  IInv'
  <2>1. Good(HandleSynchronization(Arrived(ThisBridge), address))
    BY <1>5, ReceiveGood, HandleSynchronizationGood DEF ReceiveSynchronization
  <2> QED
    BY <1>1, <1>5, <2>1, BecomeGood DEF ReceiveSynchronization
<1>6. CASE RunIdle
  <2>1. PICK failsafe : Become(NetworkDataLoss(ThisBridge, failsafe))
    BY <1>6 DEF RunIdle
  <2>2. Good(NetworkDataLoss(ThisBridge, failsafe))
    BY <1>6, ReceiveGood, NetworkDataLossGood DEF RunIdle
  <2> QED
    BY <1>1, <2>1, <2>2, BecomeGood
<1>7. CASE Tick
  BY <1>1, <1>7, TickGood
<1>8. ASSUME NEW p \in Ports, NEW universe \in Universes,
             SetUniverse(p, universe)
      PROVE  IInv'
  BY <1>1, <1>8, ConfigurationGood
<1>9. ASSUME NEW p \in Ports, NEW mergeMode \in MergeModes,
             SetMergeMode(p, mergeMode)
      PROVE  IInv'
  BY <1>1, <1>9, ConfigurationGood
<1>10. ASSUME NEW failsafe \in FailSafes, SetFailSafe(failsafe)
       PROVE  IInv'
  BY <1>1, <1>10, UnchangedGood DEF SetFailSafe
<1>11. ASSUME NEW p \in Ports, Clear(p)
       PROVE  IInv'
  BY <1>1, <1>11, ClearGood
<1>12. CASE StartBridge \/ StopBridge \/ Reboot
  BY <1>1, <1>12, StartStopBridgeGood
<1>13. CASE UNCHANGED vars
  BY <1>1, <1>13, UnchangedGood DEF vars
<1> QED
  BY <1>2, <1>3, <1>4, <1>5, <1>6, <1>7, <1>8, <1>9, <1>10, <1>11, <1>12,
     <1>13 DEF Next

\* IInv is an invariant of the bridge.
LEMMA Inductive == Spec => []IInv
<1>1. Init => IInv
  BY InitType, BootGood DEF Init
<1>2. IInv /\ [Next]_vars => IInv'
  BY NextGood
<1> QED
  BY <1>1, <1>2, PTL DEF Spec

\* A port that the bridge takes for transmitting has been started: no frame of
\* data is ever sent to a driver port that is still in receive direction.
THEOREM TransmittingStarted == Spec => []TransmitImpliesStarted
<1>1. IInv => TransmitImpliesStarted
  BY DEF IInv
<1> QED
  BY <1>1, Inductive, PTL

\* What waits for synchronization, or was last sent by a source that holds a
\* slot, is still in the merge buffer or its port has been started.
THEOREM DataKept == Spec => []DataIsKept
<1>1. IInv => DataIsKept
  BY DEF IInv
<1> QED
  BY <1>1, Inductive, PTL

\* No source ever holds both merge slots of a port, so that the two branches
\* of HandleDmx that a source of both would miss are never missed.
THEOREM SourcesDistinct == Spec => []DistinctSources
<1>1. IInv => DistinctSources
  BY DEF IInv
<1> QED
  BY <1>1, Inductive, PTL

-----------------------------------------------------------------------------
(***************************************************************************)
(* What the bridge does with its outputs: the driver has the merged data   *)
(* unless the data waits, the groups of the universes that are output stay *)
(* joined, a lost network is lost altogether, and a priority falls only to *)
(* silence.                                                                *)
(*                                                                         *)
(* A packet is served port by port.  The methods of HandleDmx are related  *)
(* by OnlyAt: they touch the light and the flags of the port they serve,   *)
(* and no port's universe.                                                 *)
(***************************************************************************)

Joined(this) ==
    \A p \in Ports : this.port[p].direction = "OUTPUT"
                     => this.port[p].universe \in this.groups

LostTotally(this) ==
    /\ \A p \in Ports : ~this.port[p].IsTransmitting
    /\ ~this.state.IsMergeMode /\ this.state.nPriority = LOWEST
    /\ ~this.state.IsSynchronized /\ ~this.state.IsForcedSynchronized

\* The driver has the data of port p, or that waits.
SettledAt(this, p) ==
    /\ this.light[p].filled
    /\ this.light[p].sent # this.light[p].data
    => this.port[p].IsDataPending

\* A level is kept only for a port that transmits, or waits.
WantedAt(this, p) ==
    /\ this.light[p].filled
    /\ this.light[p].data # 0
    => this.port[p].IsTransmitting \/ this.port[p].IsDataPending

Current(this) ==
    \A p \in Ports : /\ this.port[p].IsTransmitting => SettledAt(this, p)
                     /\ WantedAt(this, p)

\* No port is disabled, becomes an output or changes its universe.
SamePlaces(this, next) ==
    \A q \in Ports : /\ next.port[q].direction = this.port[q].direction
                     /\ next.port[q].universe = this.port[q].universe

SameOutput(this, next, q) ==
    /\ next.light[q] = this.light[q]
    /\ next.port[q].IsTransmitting = this.port[q].IsTransmitting
    /\ next.port[q].IsDataPending = this.port[q].IsDataPending

OnlyAt(this, next, p) ==
    /\ next.state.IsNetworkDataLoss = this.state.IsNetworkDataLoss
    /\ Joined(this) => Joined(next)
    /\ SamePlaces(this, next)
    /\ \A q \in Ports : q # p => SameOutput(this, next, q)

\* A port that has changed is settled, also if it was not before and does not
\* transmit, as one that the Art-Net node drives.
Settles(this, next) ==
    \A p \in Ports : SameOutput(this, next, p) \/ SettledAt(next, p)

KeepsPriority(this, next) == next.state.nPriority = this.state.nPriority

\* A slot that is still held has not grown older, one that is given up was silent.
AgedSlot(source, next) ==
    /\ Occupied(next) => Occupied(source) /\ next.age = source.age
    /\ Occupied(source) /\ ~Occupied(next) => source.age > MergeTimeout

Aged(this, next, p) == /\ AgedSlot(this.port[p].sourceA, next.port[p].sourceA)
                       /\ AgedSlot(this.port[p].sourceB, next.port[p].sourceB)

\* Two steps that touch one port only are one such step.
LEMMA OnlyAtTransitive ==
    ASSUME NEW x, NEW y, NEW z, NEW p, OnlyAt(x, y, p), OnlyAt(y, z, p)
    PROVE  OnlyAt(x, z, p)
BY DEF OnlyAt, SameOutput, SamePlaces

\* A bridge whose outputs are as they were is as current as it was.
LEMMA WeakenedIsCurrent ==
    ASSUME NEW this, NEW next, Current(this), Weakened(this, next)
    PROVE  Current(next)
BY DEF Current, WantedAt, SettledAt, Weakened

\* A step that touches one port leaves the others current.
LEMMA OnlyAtIsCurrent ==
    ASSUME NEW this, NEW next, NEW p, Current(this), OnlyAt(this, next, p),
           SettledAt(next, p), WantedAt(next, p)
    PROVE  Current(next)
BY DEF Current, WantedAt, SettledAt, OnlyAt, SameOutput

\* Changing one port, and neither its universe nor the groups.
LEMMA OnePortOnly ==
    ASSUME NEW this \in Bridge, NEW next, NEW p \in Ports, NEW o \in OutputPort,
           next.port = [this.port EXCEPT ![p] = o],
           next.groups = this.groups,
           next.state.IsNetworkDataLoss = this.state.IsNetworkDataLoss,
           o.direction = this.port[p].direction,
           o.universe = this.port[p].universe,
           \A q \in Ports : q # p => next.light[q] = this.light[q]
    PROVE  OnlyAt(this, next, p)
<1>1. this.port \in [Ports -> OutputPort]
  BY BridgeFields
<1> QED
  BY <1>1 DEF OnlyAt, SameOutput, SamePlaces, Joined

-----------------------------------------------------------------------------
(* The methods of HandleDmx *)

\* Storing a sequence number touches one port.
LEMMA StoreSequenceOnly ==
    ASSUME NEW this \in Bridge, NEW p \in Ports, NEW packet \in DataPacket
    PROVE  LET next == StoreSequence(this, p, packet)
           IN  /\ OnlyAt(this, next, p) /\ KeepsPriority(this, next)
               /\ Aged(this, next, p)
<1> DEFINE isA == IsSource(this.port[p].sourceA, packet)
           isB == IsSource(this.port[p].sourceB, packet)
           portNow == [this.port[p] EXCEPT
                !.sourceA = IF isA THEN Sequenced(@, packet) ELSE @,
                !.sourceB = IF isB /\ ~isA THEN Sequenced(@, packet) ELSE @]
<1>1. this.port[p] \in OutputPort
  BY BridgeFields
<1>2. packet.sequence \in SequenceNumbers
  BY DEF DataPacket
<1>3. \A source \in Source : /\ Sequenced(source, packet) \in Source
                             /\ AgedSlot(source, Sequenced(source, packet))
                             /\ AgedSlot(source, source)
  BY <1>2 DEF Sequenced, Source, AgedSlot, Occupied
<1>4. /\ portNow \in OutputPort
      /\ portNow.direction = this.port[p].direction
      /\ portNow.universe = this.port[p].universe
      /\ AgedSlot(this.port[p].sourceA, portNow.sourceA)
      /\ AgedSlot(this.port[p].sourceB, portNow.sourceB)
  BY <1>1, <1>3 DEF OutputPort
<1>5. /\ StoreSequence(this, p, packet).light = this.light
      /\ StoreSequence(this, p, packet).groups = this.groups
      /\ StoreSequence(this, p, packet).state = this.state
      /\ StoreSequence(this, p, packet).port = [this.port EXCEPT ![p] = portNow]
  BY DEF StoreSequence, Bridge
<1> HIDE DEF portNow
<1>6. this.port \in [Ports -> OutputPort]
  BY BridgeFields
<1> QED
  BY <1>4, <1>5, <1>6, OnePortOnly DEF Aged, KeepsPriority

\* Dropping sources that timed out touches one port.
LEMMA CheckMergeTimeoutsOnly ==
    ASSUME NEW this \in Bridge, NEW p \in Ports
    PROVE  LET next == CheckMergeTimeouts(this, p)
           IN  /\ OnlyAt(this, next, p) /\ KeepsPriority(this, next)
               /\ Aged(this, next, p)
<1> DEFINE expiredA == this.port[p].sourceA.age > MergeTimeout
           expiredB == this.port[p].sourceB.age > MergeTimeout
           portNow == [this.port[p] EXCEPT
                !.sourceA = IF expiredA THEN EmptySlot(@) ELSE @,
                !.sourceB = IF expiredB THEN EmptySlot(@) ELSE @,
                !.IsMerging = @ /\ ~expiredA /\ ~expiredB]
           checked == [this EXCEPT
                !.port[p].sourceA = IF expiredA THEN EmptySlot(@) ELSE @,
                !.port[p].sourceB = IF expiredB THEN EmptySlot(@) ELSE @,
                !.port[p].IsMerging = @ /\ ~expiredA /\ ~expiredB]
           merging == \E q \in Ports : checked.port[q].IsMerging
<1>1. this.port[p] \in OutputPort
  BY BridgeFields
<1>2. \A source \in Source :
          /\ EmptySlot(source) \in Source
          /\ source.age > MergeTimeout => AgedSlot(source, EmptySlot(source))
          /\ AgedSlot(source, source)
  BY EmptySlotType, EmptySlotSender DEF AgedSlot, Occupied
<1>3. /\ portNow \in OutputPort
      /\ portNow.direction = this.port[p].direction
      /\ portNow.universe = this.port[p].universe
      /\ AgedSlot(this.port[p].sourceA, portNow.sourceA)
      /\ AgedSlot(this.port[p].sourceB, portNow.sourceB)
  BY <1>1, <1>2 DEF OutputPort
<1>4. checked = [this EXCEPT !.port[p] = portNow]
  BY ZenonT(60) DEF Bridge
<1>5. /\ checked \in Bridge
      /\ checked.light = this.light /\ checked.groups = this.groups
      /\ checked.state = this.state
      /\ checked.port = [this.port EXCEPT ![p] = portNow]
  <2> HIDE DEF portNow, checked
  <2> QED
    BY <1>3, <1>4 DEF Bridge
<1> HIDE DEF checked
<1>6. LET next == [checked EXCEPT !.state.IsMergeMode = @ /\ merging]
      IN  /\ next.light = checked.light /\ next.port = checked.port
          /\ next.groups = checked.groups
          /\ next.state.IsNetworkDataLoss = checked.state.IsNetworkDataLoss
          /\ next.state.nPriority = checked.state.nPriority
  <2> HIDE DEF merging
  <2> QED
    BY <1>5 DEF Bridge, State
<1>7. LET next == CheckMergeTimeouts(this, p)
      IN  /\ next.light = this.light /\ next.groups = this.groups
          /\ next.state.IsNetworkDataLoss = this.state.IsNetworkDataLoss
          /\ next.state.nPriority = this.state.nPriority
          /\ next.port = [this.port EXCEPT ![p] = portNow]
  BY <1>5, <1>6 DEF CheckMergeTimeouts, checked
<1> HIDE DEF portNow
<1>8. this.port \in [Ports -> OutputPort]
  BY BridgeFields
<1> QED
  BY <1>3, <1>7, <1>8, OnePortOnly DEF Aged, KeepsPriority

\* Marking a port as merging touches one port.
LEMMA UpdateMergeStatusOnly ==
    ASSUME NEW this \in Bridge, NEW p \in Ports
    PROVE  LET next == UpdateMergeStatus(this, p)
           IN  OnlyAt(this, next, p) /\ KeepsPriority(this, next)
<1> DEFINE portNow == [this.port[p] EXCEPT !.IsMerging = TRUE]
           next == UpdateMergeStatus(this, p)
<1>1. this.port[p] \in OutputPort /\ this.state \in State
  BY BridgeFields
<1>2. /\ portNow \in OutputPort
      /\ portNow.direction = this.port[p].direction
      /\ portNow.universe = this.port[p].universe
  BY <1>1 DEF OutputPort
<1>3. /\ next.light = this.light /\ next.groups = this.groups
      /\ next.state = [this.state EXCEPT !.IsMergeMode = TRUE]
      /\ next.port = [this.port EXCEPT ![p] = portNow]
  BY DEF UpdateMergeStatus, Bridge
<1>4. /\ next.state.IsNetworkDataLoss = this.state.IsNetworkDataLoss
      /\ KeepsPriority(this, next)
  BY <1>1, <1>3 DEF State, KeepsPriority
<1> HIDE DEF portNow, next
<1>5. OnlyAt(this, next, p)
  BY <1>2, <1>3, <1>4, OnePortOnly
<1> QED
  BY <1>4, <1>5 DEF next

\* Adopting a priority touches one port.
LEMMA AdoptPriorityOnly ==
    ASSUME NEW this \in Bridge, NEW p \in Ports, NEW packet \in DataPacket
    PROVE  LET next == AdoptPriority(this, p, packet)
           IN  /\ OnlyAt(this, next, p)
               /\ next.state.nPriority = packet.priority
<1> DEFINE portNow == [this.port[p] EXCEPT !.sourceA = EmptySlot(@),
                                           !.sourceB = EmptySlot(@)]
           next == AdoptPriority(this, p, packet)
<1>1. this.port[p] \in OutputPort /\ this.port \in [Ports -> OutputPort]
  BY BridgeFields
<1>2. \A source \in Source : EmptySlot(source) \in Source
  BY EmptySlotType
<1>3. /\ portNow \in OutputPort
      /\ portNow.direction = this.port[p].direction
      /\ portNow.universe = this.port[p].universe
  BY <1>1, <1>2 DEF OutputPort
<1>4. /\ next.light = this.light /\ next.groups = this.groups
      /\ \/ next.port = this.port
         \/ next.port = [this.port EXCEPT ![p] = portNow]
  <2>1. CASE packet.priority > this.state.nPriority
    BY <2>1 DEF AdoptPriority, Bridge
  <2>2. CASE ~(packet.priority > this.state.nPriority)
    BY <2>2 DEF AdoptPriority, Bridge
  <2> QED
    BY <2>1, <2>2
<1>5. /\ next.state.IsNetworkDataLoss = this.state.IsNetworkDataLoss
      /\ next.state.nPriority = packet.priority
  <2>1. CASE packet.priority > this.state.nPriority
    <3>1. next.state = [this.state EXCEPT !.nPriority = packet.priority,
                                          !.IsMergeMode = FALSE]
      BY <2>1 DEF AdoptPriority, Bridge
    <3> QED
      BY <3>1, BridgeFields DEF State
  <2>2. CASE ~(packet.priority > this.state.nPriority)
    <3>1. next.state = [this.state EXCEPT !.nPriority = packet.priority]
      BY <2>2 DEF AdoptPriority, Bridge
    <3> QED
      BY <3>1, BridgeFields DEF State
  <2> QED
    BY <2>1, <2>2
<1>6. this.port = [this.port EXCEPT ![p] = this.port[p]]
  BY <1>1
<1> HIDE DEF portNow, next
<1>7. OnlyAt(this, next, p)
  BY <1>1, <1>3, <1>4, <1>5, <1>6, OnePortOnly
<1> QED
  BY <1>5, <1>7 DEF next

\* Merging touches the buffer and the slots of one port.
LEMMA MergeOnly ==
    ASSUME NEW this \in Bridge, NEW was \in Bridge, NEW p \in Ports,
           NEW packet \in DataPacket
    PROVE  LET next == Merge(this, was, p, packet)
           IN  OnlyAt(this, next, p) /\ KeepsPriority(this, next)
<1> DEFINE A == was.port[p].sourceA
           B == was.port[p].sourceB
           toA == GoesToA(A, B, packet)
           toB == GoesToB(A, B, packet)
           isMerge == (toA /\ Occupied(B)) \/ (toB /\ Occupied(A))
           mode == IF isMerge THEN this.port[p].mergeMode ELSE "LTP"
           known == IsSource(A, packet) \/ IsSource(B, packet)
           taken(source) == IF known
                              THEN Continued(source, packet) ELSE Filled(packet)
           portNow == [this.port[p] EXCEPT
                !.sourceA = IF toA THEN taken(@) ELSE @,
                !.sourceB = IF toB THEN taken(@) ELSE @]
           lit == CASE toA -> MergeSourceA(this.light, p, packet.level, mode)
                    [] toB -> MergeSourceB(this.light, p, packet.level, mode)
                    [] OTHER -> this.light
           stored == [this EXCEPT
                !.port[p].sourceA = IF toA THEN taken(@) ELSE @,
                !.port[p].sourceB = IF toB THEN taken(@) ELSE @,
                !.light = CASE toA -> MergeSourceA(@, p, packet.level, mode)
                            [] toB -> MergeSourceB(@, p, packet.level, mode)
                            [] OTHER -> @]
<1>1. this.port[p] \in OutputPort /\ this.light \in Light
  BY BridgeFields
<1>2. packet.level \in Levels
  BY DEF DataPacket
<1>3. \A source \in Source : taken(source) \in Source
  BY SlotType
<1>4. \A q \in Ports : q # p => lit[q] = this.light[q]
  BY <1>1 DEF MergeSourceA, MergeSourceB, Light
<1>5. lit \in Light
  BY <1>1, <1>2, MergeSourceType
<1> HIDE DEF toA, toB, known, mode
<1>6. /\ portNow \in OutputPort
      /\ portNow.direction = this.port[p].direction
      /\ portNow.universe = this.port[p].universe
  <2> HIDE DEF taken
  <2> QED
    BY <1>1, <1>3 DEF OutputPort
<1>7. stored = [this EXCEPT !.port[p] = portNow, !.light = lit]
  <2> HIDE DEF taken
  <2> QED
    BY ZenonT(60) DEF Bridge
<1> HIDE DEF portNow, lit
<1>8. /\ stored \in Bridge
      /\ stored.light = lit /\ stored.groups = this.groups
      /\ stored.state = this.state
      /\ stored.port = [this.port EXCEPT ![p] = portNow]
  <2> HIDE DEF stored
  <2> QED
    BY <1>5, <1>6, <1>7 DEF Bridge, Light
<1> HIDE DEF stored
<1>9. OnlyAt(this, stored, p) /\ KeepsPriority(this, stored)
  BY <1>4, <1>6, <1>8, OnePortOnly DEF KeepsPriority
<1>10. /\ OnlyAt(this, UpdateMergeStatus(stored, p), p)
       /\ KeepsPriority(this, UpdateMergeStatus(stored, p))
  BY <1>8, <1>9, UpdateMergeStatusOnly, OnlyAtTransitive DEF KeepsPriority
<1> QED
  BY <1>9, <1>10
     DEF Merge, stored, taken, known, A, B, toA, toB, mode

\* Leaving a group on behalf of no port keeps the universes that are output.
LEMMA LeaveUniverseJoined ==
    ASSUME NEW this \in Bridge, NEW universe, Joined(this)
    PROVE  Joined(LeaveUniverse(this, {}, universe))
BY DEF Joined, LeaveUniverse, Bridge

\* A new synchronization address leaves the universes that are output joined.
LEMMA SetSynchronizationAddressJoined ==
    ASSUME NEW this \in Bridge, NEW isA, NEW isB, NEW address \in Universes
    PROVE  LET next == SetSynchronizationAddress(this, isA, isB, address)
           IN  /\ Joined(this) => Joined(next)
               /\ next.state.IsNetworkDataLoss = this.state.IsNetworkDataLoss
               /\ KeepsPriority(this, next)
<1> DEFINE old == IF isA THEN this.state.syncAddressA
                         ELSE this.state.syncAddressB
           left == IF old = NoUniverse THEN this
                                       ELSE LeaveUniverse(this, {}, old)
           set == IF isA THEN [left EXCEPT !.state.syncAddressA = address]
                         ELSE [left EXCEPT !.state.syncAddressB = address]
<1>1. /\ left \in Bridge
      /\ Joined(this) => Joined(left)
      /\ left.state = this.state
  BY LeaveUniverseType, LeaveUniverseJoined DEF LeaveUniverse, Bridge
<1> HIDE DEF left
<1>2. left.state \in State
  BY <1>1, BridgeFields
<1>3. /\ set.groups = left.groups /\ set.port = left.port
      /\ \/ set.state = [left.state EXCEPT !.syncAddressA = address]
         \/ set.state = [left.state EXCEPT !.syncAddressB = address]
  BY <1>1 DEF Bridge
<1>4. set \in [state : {set.state}, port : {set.port}, light : {set.light},
               groups : {set.groups}]
  BY <1>1 DEF Bridge
<1> HIDE DEF set
<1>5. /\ set.state.IsNetworkDataLoss = left.state.IsNetworkDataLoss
      /\ KeepsPriority(left, set)
  BY <1>2, <1>3 DEF State, KeepsPriority
<1>6. /\ JoinGroup(set, address).port = left.port
      /\ JoinGroup(set, address).state = set.state
      /\ left.groups \subseteq JoinGroup(set, address).groups
  BY <1>3, <1>4 DEF JoinGroup
<1>7. /\ Joined(this) => Joined(JoinGroup(set, address))
      /\ JoinGroup(set, address).state.IsNetworkDataLoss
         = this.state.IsNetworkDataLoss
      /\ KeepsPriority(this, JoinGroup(set, address))
  BY <1>1, <1>5, <1>6 DEF Joined, KeepsPriority
<1> QED
  BY <1>7 DEF KeepsPriority, SetSynchronizationAddress, left, set

\* The synchronization part of HandleDmx touches no output.
LEMMA SynchronizeOnly ==
    ASSUME NEW this \in Bridge, NEW was \in Bridge, NEW p \in Ports,
           NEW packet \in DataPacket
    PROVE  LET next == Synchronize(this, was, p, packet)
           IN  OnlyAt(this, next, p) /\ KeepsPriority(this, next)
<1> DEFINE isA == IsSource(was.port[p].sourceA, packet)
           isB == IsSource(was.port[p].sourceB, packet)
           known == isA \/ isB
           addressed ==
              SetSynchronizationAddress(this,
                IF known THEN isA ELSE Occupied(this.port[p].sourceA),
                IF known THEN isB ELSE Occupied(this.port[p].sourceB),
                packet.syncAddress)
           forced == [addressed EXCEPT !.state.IsForcedSynchronized = TRUE,
                                       !.state.IsSynchronized = TRUE]
           free == [this EXCEPT !.state.IsForcedSynchronized = FALSE]
           next == Synchronize(this, was, p, packet)
<1>1. next.light = this.light /\ next.port = this.port
  BY SynchronizeKeeps
<1>2. ASSUME packet.syncAddress # NoUniverse
      PROVE  /\ Joined(this) => Joined(forced)
             /\ forced.state.IsNetworkDataLoss = this.state.IsNetworkDataLoss
             /\ KeepsPriority(this, forced)
  <2>1. packet.syncAddress \in Universes
    BY <1>2, PacketAssumption DEF DataPacket, NoUniverse
  <2>2. /\ addressed \in Bridge
        /\ Joined(this) => Joined(addressed)
        /\ addressed.state.IsNetworkDataLoss = this.state.IsNetworkDataLoss
        /\ KeepsPriority(this, addressed)
    BY <2>1, SetSynchronizationAddressType, SetSynchronizationAddressJoined
  <2> HIDE DEF addressed
  <2>3. /\ forced.port = addressed.port /\ forced.groups = addressed.groups
        /\ forced.state = [addressed.state EXCEPT !.IsForcedSynchronized = TRUE,
                                                  !.IsSynchronized = TRUE]
    BY <2>2 DEF Bridge
  <2> HIDE DEF forced
  <2>4. addressed.state \in State
    BY <2>2, BridgeFields
  <2>5. /\ forced.state.IsNetworkDataLoss = addressed.state.IsNetworkDataLoss
        /\ KeepsPriority(addressed, forced)
    BY <2>3, <2>4 DEF State, KeepsPriority
  <2> QED
    BY <2>2, <2>3, <2>5 DEF Joined, KeepsPriority
<1>3. /\ Joined(this) => Joined(free)
      /\ free.state.IsNetworkDataLoss = this.state.IsNetworkDataLoss
      /\ KeepsPriority(this, free)
  BY BridgeFields DEF Joined, Bridge, State, KeepsPriority
<1>4. /\ Joined(this) => Joined(next)
      /\ next.state.IsNetworkDataLoss = this.state.IsNetworkDataLoss
      /\ KeepsPriority(this, next)
  BY <1>2, <1>3 DEF Synchronize, KeepsPriority
<1> HIDE DEF next
<1>5. OnlyAt(this, next, p)
  BY <1>1, <1>4 DEF OnlyAt, SameOutput, SamePlaces
<1> QED
  BY <1>4, <1>5 DEF next

\* Update touches one port, which is then settled: its data has just been
\* handed to the driver, or waits.
LEMMA UpdateOnly ==
    ASSUME NEW this \in Bridge, NEW p \in Ports
    PROVE  /\ OnlyAt(this, Update(this, p), p)
           /\ SettledAt(Update(this, p), p) /\ WantedAt(Update(this, p), p)
           /\ KeepsPriority(this, Update(this, p))
<1> DEFINE lit == IF this.port[p].IsTransmitting
                    THEN Output(this.light, p)
                    ELSE Start(Output(this.light, p), p)
           sending == [this.port[p] EXCEPT !.IsTransmitting = TRUE]
           holding == [this.port[p] EXCEPT !.IsDataPending = TRUE]
           sends == [this EXCEPT !.light = lit, !.port[p].IsTransmitting = TRUE]
           holds == [this EXCEPT !.port[p].IsDataPending = TRUE]
<1>1. this.port[p] \in OutputPort /\ this.light \in Light
  BY BridgeFields
<1>2. /\ \A q \in Ports : q # p => lit[q] = this.light[q]
      /\ lit[p].filled => lit[p].sent = lit[p].data
  BY <1>1 DEF Output, Start, Frame, Light, LightPort
<1> HIDE DEF lit
<1>3. /\ sending \in OutputPort /\ holding \in OutputPort
      /\ sending.direction = this.port[p].direction
      /\ sending.universe = this.port[p].universe
      /\ holding.direction = this.port[p].direction
      /\ holding.universe = this.port[p].universe
      /\ holding.IsDataPending /\ sending.IsTransmitting
  BY <1>1 DEF OutputPort
<1>4. /\ sends.light = lit /\ sends.groups = this.groups
      /\ sends.state = this.state
      /\ sends.port = [this.port EXCEPT ![p] = sending]
      /\ holds.light = this.light /\ holds.groups = this.groups
      /\ holds.state = this.state
      /\ holds.port = [this.port EXCEPT ![p] = holding]
  BY DEF Bridge
<1> HIDE DEF sending, holding, sends, holds
<1>5. this.port \in [Ports -> OutputPort]
  BY BridgeFields
<1>6. /\ OnlyAt(this, sends, p) /\ SettledAt(sends, p) /\ WantedAt(sends, p)
      /\ KeepsPriority(this, sends)
  BY <1>2, <1>3, <1>4, <1>5, OnePortOnly DEF SettledAt, WantedAt, KeepsPriority
<1>7. /\ OnlyAt(this, holds, p) /\ SettledAt(holds, p) /\ WantedAt(holds, p)
      /\ KeepsPriority(this, holds)
  BY <1>3, <1>4, <1>5, OnePortOnly DEF SettledAt, WantedAt, KeepsPriority
<1> QED
  BY <1>6, <1>7 DEF Update, sends, holds, lit

-----------------------------------------------------------------------------
(* Data loss and synchronization *)

\* Ports that keep their universe keep it joined.
LEMMA SamePlacesJoined ==
    ASSUME NEW this, NEW next, Joined(this), next.groups = this.groups,
           \A p \in Ports : /\ next.port[p].direction = this.port[p].direction
                           /\ next.port[p].universe = this.port[p].universe
    PROVE  Joined(next)
BY DEF Joined

\* Where no port transmits, every output is current if only waiting data is kept.
LEMMA SilentIsCurrent ==
    ASSUME NEW this, \A p \in Ports : ~this.port[p].IsTransmitting,
           \A p \in Ports : WantedAt(this, p)
    PROVE  Current(this)
BY DEF Current, SettledAt

\* The light that a loss leaves.
LossLight(lit, lost, failsafe) ==
    IF lost = {} THEN ClearLength(lit, lost)
                 ELSE FailSafeLight(ClearLength(lit, lost), failsafe)

\* Ports that a loss stops lose their data, and the failsafe gives none back.
LEMMA LossEmpties ==
    ASSUME NEW lit \in Light, NEW lost, NEW failsafe
    PROVE  \A p \in Ports :
              /\ LossLight(lit, lost, failsafe)[p].filled
                 => lit[p].filled /\ p \notin lost
              /\ LossLight(lit, lost, failsafe)[p].data = lit[p].data
<1> TAKE p \in Ports
<1> DEFINE cleared == ClearLength(lit, lost)
           lights == FailSafeLight(cleared, failsafe)
<1>1. /\ cleared[p].filled => lit[p].filled /\ p \notin lost
      /\ cleared[p].data = lit[p].data
  BY DEF ClearLength, Light, LightPort
<1>2. cleared \in Light
  BY ClearLengthType
<1> HIDE DEF cleared
<1>3. \A level : /\ AllTo(cleared, level)[p].filled = cleared[p].filled
                 /\ AllTo(cleared, level)[p].data = cleared[p].data
  BY <1>2 DEF AllTo, Light, LightPort
<1>4. lights[p].filled = cleared[p].filled /\ lights[p].data = cleared[p].data
  BY <1>3 DEF FailSafeLight, Blackout, FullOn
<1> QED
  BY <1>1, <1>4 DEF cleared, LossLight

\* A lost network is lost altogether, and leaves no group.
LEMMA NetworkDataLossTotal ==
    ASSUME NEW this \in Bridge, NEW failsafe
    PROVE  LET next == NetworkDataLoss(this, failsafe)
           IN  /\ Joined(this) => Joined(next)
               /\ SamePlaces(this, next)
               /\ Current(this) => Current(next)
               /\ LostTotally(next)
<1> DEFINE lost == {p \in Ports : this.port[p].IsTransmitting}
           next == NetworkDataLoss(this, failsafe)
<1>1. next.port = [p \in Ports |->
                IF p \in lost
                  THEN [this.port[p] EXCEPT !.sourceA = EmptySlot(@),
                                            !.sourceB = EmptySlot(@),
                                            !.IsTransmitting = FALSE,
                                            !.IsMerging = FALSE]
                  ELSE this.port[p]]
  BY DEF NetworkDataLoss, Bridge
<1>2. next.groups = this.groups
  BY DEF NetworkDataLoss, Bridge
<1>3. next.state = [this.state EXCEPT
            !.IsNetworkDataLoss = TRUE, !.IsMergeMode = FALSE,
            !.IsSynchronized = FALSE, !.IsForcedSynchronized = FALSE,
            !.nPriority = LOWEST]
  BY DEF NetworkDataLoss, Bridge
<1>7. next.light = LossLight(this.light, lost, failsafe)
  BY DEF NetworkDataLoss, Bridge, LossLight
<1> HIDE DEF next
<1>4. ASSUME NEW p \in Ports
      PROVE  /\ next.port[p].direction = this.port[p].direction
             /\ next.port[p].universe = this.port[p].universe
             /\ ~next.port[p].IsTransmitting
             /\ next.port[p].IsDataPending = this.port[p].IsDataPending
  <2>1. this.port[p] \in OutputPort
    BY BridgeFields
  <2>2. CASE p \in lost
    <3>1. next.port[p] = [this.port[p] EXCEPT !.sourceA = EmptySlot(@),
                                              !.sourceB = EmptySlot(@),
                                              !.IsTransmitting = FALSE,
                                              !.IsMerging = FALSE]
      BY <1>1, <2>2
    <3> QED
      BY <2>1, <3>1 DEF OutputPort
  <2>3. CASE p \notin lost
    BY <1>1, <2>3
  <2> QED
    BY <2>2, <2>3
<1>5. /\ ~next.state.IsMergeMode /\ next.state.nPriority = LOWEST
      /\ ~next.state.IsSynchronized /\ ~next.state.IsForcedSynchronized
  BY <1>3, BridgeFields DEF State
<1>8. ASSUME Current(this), NEW p \in Ports
      PROVE  WantedAt(next, p)
  <2>1. /\ next.light[p].filled => this.light[p].filled /\ p \notin lost
        /\ next.light[p].data = this.light[p].data
    <3>1. this.light \in Light
      BY BridgeFields
    <3> HIDE DEF lost
    <3>2. next.light = LossLight(this.light, lost, failsafe)
      BY <1>7
    <3> QED
      BY <3>1, <3>2, LossEmpties
  <2> QED
    BY <1>4, <1>8, <2>1 DEF Current, WantedAt
<1>6. /\ Joined(this) => Joined(next)
      /\ SamePlaces(this, next)
      /\ Current(this) => Current(next)
      /\ LostTotally(next)
  BY <1>2, <1>4, <1>5, <1>8, SamePlacesJoined, SilentIsCurrent
     DEF LostTotally, SamePlaces
<1> QED
  BY <1>6 DEF next

\* A stream that ends either stops every output or changes none.
LEMMA SourceLossOutputs ==
    ASSUME NEW this \in Bridge, NEW isA, NEW isB, NEW failsafe
    PROVE  LET next == SourceLoss(this, isA, isB, failsafe)
           IN  /\ Joined(this) => Joined(next)
               /\ SamePlaces(this, next)
               /\ Current(this) => Current(next)
               /\ next.state = this.state
<1> DEFINE served == {p \in Ports : this.port[p].IsTransmitting}
           lost == IF this.state.IsMergeMode THEN {} ELSE served
           dropsA(p) == isA /\ Occupied(this.port[p].sourceA)
           dropsB(p) == isB /\ Occupied(this.port[p].sourceB)
           cleared == ClearLength(this.light, lost)
           next == SourceLoss(this, isA, isB, failsafe)
<1>1. /\ next.light = IF lost = {} THEN cleared
                                   ELSE FailSafeLight(cleared, failsafe)
      /\ next.groups = this.groups
      /\ next.state = this.state
  BY DEF SourceLoss, Bridge
<1>2. next.port = [p \in Ports |->
                IF p \in served
                  THEN [this.port[p] EXCEPT
                            !.sourceA = IF dropsA(p) THEN EmptySlot(@) ELSE @,
                            !.sourceB = IF dropsB(p) THEN EmptySlot(@) ELSE @,
                            !.IsMerging = @ /\ ~dropsA(p) /\ ~dropsB(p),
                            !.IsTransmitting = @ /\ p \notin lost]
                  ELSE this.port[p]]
  BY DEF SourceLoss, Bridge
<1> HIDE DEF next, dropsA, dropsB
<1>3. ASSUME NEW p \in Ports
      PROVE  /\ next.port[p].direction = this.port[p].direction
             /\ next.port[p].universe = this.port[p].universe
             /\ next.port[p].IsDataPending = this.port[p].IsDataPending
             /\ next.port[p].IsTransmitting
                => this.port[p].IsTransmitting /\ lost = {}
             /\ this.port[p].IsTransmitting /\ p \notin lost
                => next.port[p].IsTransmitting
  <2>1. this.port[p] \in OutputPort
    BY BridgeFields
  <2>2. CASE p \in served
    <3>1. next.port[p] = [this.port[p] EXCEPT
                !.sourceA = IF dropsA(p) THEN EmptySlot(@) ELSE @,
                !.sourceB = IF dropsB(p) THEN EmptySlot(@) ELSE @,
                !.IsMerging = @ /\ ~dropsA(p) /\ ~dropsB(p),
                !.IsTransmitting = @ /\ p \notin lost]
      BY <1>2, <2>2
    <3>2. p \notin lost => lost = {}
      BY <2>2
    <3> HIDE DEF lost, served
    <3> QED
      BY <2>1, <3>1, <3>2 DEF OutputPort
  <2>3. CASE p \notin served
    BY <1>2, <2>3
  <2> QED
    BY <2>2, <2>3
<1>4. lost = {} => \A p \in Ports :
          /\ next.light[p].filled => this.light[p].filled
          /\ next.light[p].sent = this.light[p].sent
          /\ next.light[p].data = this.light[p].data
  <2> SUFFICES ASSUME lost = {}, NEW p \in Ports
               PROVE  /\ next.light[p].filled => this.light[p].filled
                      /\ next.light[p].sent = this.light[p].sent
                      /\ next.light[p].data = this.light[p].data
    OBVIOUS
  <2>1. next.light[p] = [this.light[p] EXCEPT !.filled = @ /\ p \notin lost]
    BY <1>1 DEF ClearLength
  <2>2. this.light[p] \in LightPort
    BY BridgeFields DEF Light
  <2> HIDE DEF lost
  <2> QED
    BY <2>1, <2>2 DEF LightPort
<1> HIDE DEF lost
<1>7. \A p \in Ports :
          /\ next.light[p].filled => this.light[p].filled /\ p \notin lost
          /\ next.light[p].data = this.light[p].data
  <2>1. next.light = LossLight(this.light, lost, failsafe)
    BY <1>1 DEF LossLight
  <2>2. this.light \in Light
    BY BridgeFields
  <2> QED
    BY <2>1, <2>2, LossEmpties
<1>5. Current(this) => Current(next)
  BY <1>3, <1>4, <1>7 DEF Current, WantedAt, SettledAt
<1>6. SamePlaces(this, next) /\ (Joined(this) => Joined(next))
  BY <1>1, <1>3, SamePlacesJoined DEF SamePlaces
<1> QED
  BY <1>1, <1>5, <1>6 DEF next

\* After a synchronization packet no buffer has anything left to send.
LEMMA HandleSynchronizationOutputs ==
    ASSUME NEW this \in Bridge, NEW address
    PROVE  LET next == HandleSynchronization(this, address)
           IN  /\ Joined(this) => Joined(next)
               /\ SamePlaces(this, next) /\ Settles(this, next)
               /\ Current(this) => Current(next)
               /\ next.state.IsNetworkDataLoss = this.state.IsNetworkDataLoss
<1> DEFINE pending == {p \in Ports : this.port[p].IsDataPending}
           next == HandleSynchronization(this, address)
<1>1. CASE address \notin {this.state.syncAddressA, this.state.syncAddressB}
  BY <1>1 DEF HandleSynchronization, SamePlaces, Settles, SameOutput
<1>2. CASE address \in {this.state.syncAddressA, this.state.syncAddressB}
  <2>1. /\ next.light = Sync(this.light, pending)
        /\ next.port = [p \in Ports |->
              [this.port[p] EXCEPT
                  !.IsDataPending = FALSE,
                  !.IsTransmitting = @ \/ p \in pending]]
        /\ next.groups = this.groups
        /\ next.state = [this.state EXCEPT !.syncAge = 0]
    BY <1>2 DEF HandleSynchronization, Bridge
  <2> HIDE DEF next, pending
  <2>2. \A p \in Ports : ~next.light[p].filled
    <3> TAKE p \in Ports
    <3>1. this.light[p] \in LightPort
      BY BridgeFields DEF Light
    <3>2. next.light[p] = [this.light[p] EXCEPT
              !.sent    = IF p \in pending THEN Frame(this.light, p) ELSE @,
              !.started = @ \/ this.light[p].filled,
              !.filled  = FALSE]
      BY <2>1 DEF Sync
    <3> QED
      BY <3>1, <3>2 DEF LightPort
  <2>3. ASSUME NEW p \in Ports
        PROVE  /\ next.port[p].direction = this.port[p].direction
               /\ next.port[p].universe = this.port[p].universe
    <3>1. this.port[p] \in OutputPort
      BY BridgeFields
    <3>2. next.port[p] = [this.port[p] EXCEPT
                             !.IsDataPending = FALSE,
                             !.IsTransmitting = @ \/ p \in pending]
      BY <2>1
    <3> QED
      BY <3>1, <3>2 DEF OutputPort
  <2>4. next.state.IsNetworkDataLoss = this.state.IsNetworkDataLoss
    BY <2>1, BridgeFields DEF State
  <2>5. /\ Joined(this) => Joined(next)
        /\ SamePlaces(this, next) /\ Settles(this, next)
        /\ Current(next)
    BY <2>1, <2>2, <2>3, SamePlacesJoined
       DEF Current, WantedAt, SettledAt, Settles, SamePlaces
  <2> QED
    BY <2>4, <2>5 DEF next
<1> QED
  BY <1>1, <1>2

\* A packet that arrives ends the loss of the network, and no more.
LEMMA ArrivedOutputs ==
    ASSUME NEW this \in Bridge
    PROVE  LET next == Arrived(this)
           IN  /\ next.port = this.port /\ next.light = this.light
               /\ next.groups = this.groups
               /\ next.state.nPriority = this.state.nPriority
               /\ ~next.state.IsNetworkDataLoss
<1> DEFINE late == /\ this.state.IsSynchronized
                   /\ ~this.state.IsForcedSynchronized
                   /\ this.state.syncAge >= LossTimeout
           next == Arrived(this)
<1>1. /\ next.port = this.port /\ next.light = this.light
      /\ next.groups = this.groups
      /\ next.state = [this.state EXCEPT !.IsNetworkDataLoss = FALSE,
                                         !.packetAge = 0,
                                         !.IsSynchronized = @ /\ ~late]
  BY DEF Arrived, Bridge
<1> HIDE DEF next, late
<1>2. next.state.nPriority = this.state.nPriority /\ ~next.state.IsNetworkDataLoss
  BY <1>1, BridgeFields DEF State
<1> QED
  BY <1>1, <1>2 DEF next

\* HandleDmx on one port keeps the outputs current and their universes joined,
\* and never enters network data loss: no source holds both slots.
LEMMA HandleDmxOutputs ==
    ASSUME NEW was \in Bridge, NEW p \in Ports, NEW packet \in DataPacket,
           NEW failsafe, Good(was), Joined(was), Current(was)
    PROVE  LET next == HandleDmx(was, p, packet, failsafe)
           IN  /\ Joined(next) /\ Current(next)
               /\ next.state.IsNetworkDataLoss = was.state.IsNetworkDataLoss
<1> DEFINE isA == IsSource(was.port[p].sourceA, packet)
           isB == IsSource(was.port[p].sourceB, packet)
           stored == StoreSequence(was, p, packet)
           checked == IF was.state.IsMergeMode /\ ~DisableMergeTimeout
                        THEN CheckMergeTimeouts(stored, p) ELSE stored
           adopted == AdoptPriority(checked, p, packet)
           merged == Merge(adopted, was, p, packet)
           synchronized == Synchronize(merged, was, p, packet)
           ended == SetNetworkDataLossCondition(stored, isA, isB, failsafe)
           updated == Update(synchronized, p)
           Kept(next) ==
               /\ Joined(next) /\ Current(next)
               /\ next.state.IsNetworkDataLoss = was.state.IsNetworkDataLoss
<1>1. /\ stored \in Bridge /\ Weakened(was, stored)
      /\ OnlyAt(was, stored, p)
  BY StoreSequenceType, StoreSequenceWeakens, StoreSequenceOnly
<1>2. Kept(stored)
  BY <1>1, WeakenedIsCurrent DEF OnlyAt
<1> HIDE DEF stored
<1>3. /\ checked \in Bridge /\ Weakened(was, checked)
      /\ OnlyAt(was, checked, p)
  BY <1>1, CheckMergeTimeoutsType, CheckMergeTimeoutsWeakens,
     CheckMergeTimeoutsOnly, WeakenedTransitive, OnlyAtTransitive
<1>4. Kept(checked)
  BY <1>3, WeakenedIsCurrent DEF OnlyAt
<1> HIDE DEF checked
<1>5. adopted \in Bridge /\ OnlyAt(was, adopted, p)
  BY <1>3, AdoptPriorityType, AdoptPriorityOnly, OnlyAtTransitive
<1> HIDE DEF adopted
<1>6. merged \in Bridge /\ OnlyAt(was, merged, p)
  BY <1>5, MergeType, MergeOnly, OnlyAtTransitive
<1> HIDE DEF merged
<1>7. synchronized \in Bridge /\ OnlyAt(was, synchronized, p)
  BY <1>6, SynchronizeType, SynchronizeOnly, OnlyAtTransitive
<1> HIDE DEF synchronized
<1>8. /\ OnlyAt(was, updated, p)
      /\ SettledAt(updated, p) /\ WantedAt(updated, p)
  BY <1>7, UpdateOnly, OnlyAtTransitive
<1>9. Kept(updated)
  BY <1>8, OnlyAtIsCurrent DEF OnlyAt
<1>10. ~(isA /\ isB)
  <2>1. packet.sender # NoSender
    BY SenderAssumption DEF DataPacket
  <2> QED
    BY <2>1 DEF Good, GoodPort, IsSource, Occupied
<1>11. Kept(ended)
  BY <1>1, <1>2, <1>10, SourceLossOutputs DEF SetNetworkDataLossCondition
<1> HIDE DEF updated, ended, Kept
<1>12. Kept(HandleDmx(was, p, packet, failsafe))
  BY <1>2, <1>4, <1>9, <1>11
     DEF HandleDmx, isA, isB, stored, checked, adopted, merged, synchronized,
         updated, ended
<1> QED
  BY <1>12 DEF Kept

-----------------------------------------------------------------------------
(* Priorities *)

SilentPort(this, p) ==
    /\ Occupied(this.port[p].sourceA) \/ Occupied(this.port[p].sourceB)
    /\ Occupied(this.port[p].sourceA) => Silent(this.port[p].sourceA)
    /\ Occupied(this.port[p].sourceB) => Silent(this.port[p].sourceB)

\* If the sources that a port still has let the priority fall, then all that it
\* had were silent: the others were given up after the merge timeout.
LEMMA TimeOutIsSilent ==
    ASSUME NEW was \in Bridge, NEW checked, NEW p \in Ports,
           Aged(was, checked, p), IsPriorityTimeOut(checked, p)
    PROVE  SilentPort(was, p)
<1>1. was.port[p].sourceA \in Source /\ was.port[p].sourceB \in Source
  BY BridgeFields DEF OutputPort
<1>2. was.port[p].sourceA.age \in Int /\ was.port[p].sourceB.age \in Int
  BY <1>1 DEF Source
<1>3. MergeTimeout \in Int /\ PriorityTimeout \in Int
  BY TimeoutAssumption
<1> QED
  BY <1>2, <1>3 DEF SilentPort, Silent, Aged, AgedSlot, IsPriorityTimeOut

\* HandleDmx lowers the priority only when it serves a silent port.
LEMMA HandleDmxPriority ==
    ASSUME NEW was \in Bridge, NEW p \in Ports, NEW packet \in DataPacket,
           NEW failsafe, Good(was),
           HandleDmx(was, p, packet, failsafe).state.nPriority
              < was.state.nPriority
    PROVE  SilentPort(was, p)
<1> DEFINE isA == IsSource(was.port[p].sourceA, packet)
           isB == IsSource(was.port[p].sourceB, packet)
           stored == StoreSequence(was, p, packet)
           checked == IF was.state.IsMergeMode /\ ~DisableMergeTimeout
                        THEN CheckMergeTimeouts(stored, p) ELSE stored
           adopted == AdoptPriority(checked, p, packet)
           merged == Merge(adopted, was, p, packet)
           synchronized == Synchronize(merged, was, p, packet)
           ended == SetNetworkDataLossCondition(stored, isA, isB, failsafe)
           updated == Update(synchronized, p)
           held == packet.priority < was.state.nPriority
                   /\ ~IsPriorityTimeOut(checked, p)
<1>1. /\ stored \in Bridge
      /\ Aged(was, stored, p) /\ KeepsPriority(was, stored)
  BY StoreSequenceType, StoreSequenceOnly
<1> HIDE DEF stored
<1>2. /\ checked \in Bridge
      /\ Aged(was, checked, p) /\ KeepsPriority(was, checked)
  <2>1. CASE was.state.IsMergeMode /\ ~DisableMergeTimeout
    <3>1. /\ checked \in Bridge
          /\ Aged(stored, checked, p) /\ KeepsPriority(stored, checked)
      BY <1>1, <2>1, CheckMergeTimeoutsType, CheckMergeTimeoutsOnly
    <3> HIDE DEF checked
    <3> QED
      BY <1>1, <3>1 DEF Aged, AgedSlot, KeepsPriority
  <2>2. CASE ~(was.state.IsMergeMode /\ ~DisableMergeTimeout)
    BY <1>1, <2>2
  <2> QED
    BY <2>1, <2>2
<1> HIDE DEF checked
<1>3. adopted \in Bridge /\ adopted.state.nPriority = packet.priority
  BY <1>2, AdoptPriorityType, AdoptPriorityOnly
<1> HIDE DEF adopted
<1>4. merged \in Bridge /\ KeepsPriority(adopted, merged)
  BY <1>3, MergeType, MergeOnly
<1> HIDE DEF merged
<1>5. synchronized \in Bridge /\ KeepsPriority(merged, synchronized)
  BY <1>4, SynchronizeType, SynchronizeOnly
<1> HIDE DEF synchronized
<1>6. updated.state.nPriority = packet.priority
  BY <1>3, <1>4, <1>5, UpdateOnly DEF KeepsPriority
<1>7. KeepsPriority(was, ended)
  <2>1. packet.sender # NoSender
    BY SenderAssumption DEF DataPacket
  <2>2. ~(isA /\ isB)
    BY <2>1 DEF Good, GoodPort, IsSource, Occupied
  <2> QED
    BY <1>1, <2>2, SourceLossOutputs DEF SetNetworkDataLossCondition, KeepsPriority
<1> HIDE DEF updated, ended
<1>8. \/ KeepsPriority(was, HandleDmx(was, p, packet, failsafe))
      \/ ~held /\ HandleDmx(was, p, packet, failsafe) = updated
  <2> HIDE DEF held
  <2> QED
    BY <1>1, <1>2, <1>7
       DEF HandleDmx, isA, isB, stored, checked, adopted, merged, synchronized,
           updated, ended, held
<1>9. was.state.nPriority \in Int /\ packet.priority \in Int
  <2>1. was.state.nPriority \in Priorities \cup {LOWEST}
    BY BridgeFields DEF State
  <2>2. packet.priority \in Priorities
    BY DEF DataPacket
  <2>3. \A priority \in Priorities : priority \in Int
    BY PrioritiesAssumption
  <2>4. LOWEST \in Int
    BY DEF LOWEST
  <2> QED
    BY <2>1, <2>2, <2>3, <2>4
<1>10. IsPriorityTimeOut(checked, p)
  BY <1>6, <1>8, <1>9 DEF KeepsPriority
<1> QED
  BY <1>2, <1>10, TimeOutIsSilent

-----------------------------------------------------------------------------
(* The steps *)

\* LossEndsOutput needs that a packet in work has ended the loss, and that a boot
\* begins without one; OutputIsCurrent that it holds at boot too.
OutputsInv ==
    /\ IInv
    /\ OutputUniversesJoined
    /\ main # "halt" => Current(ThisBridge)
    /\ LossEndsOutput
    /\ state.IsNetworkDataLoss => main # "boot" /\ rest = {}

\* A step in the main loop.
LEMMA BecomeOutputs ==
    ASSUME NEW next, Become(next), main' = main, main = "loop", IInv',
           Joined(next), Current(next),
           next.state.IsNetworkDataLoss => LostTotally(next) /\ rest' = {}
    PROVE  OutputsInv'
BY DEF OutputsInv, OutputUniversesJoined, Joined, Current, WantedAt, SettledAt, ThisBridge,
       LossEndsOutput, LostTotally, Become

\* In the main loop OutputsInv speaks of the bridge.
LEMMA ThisBridgeOutputs ==
    ASSUME OutputsInv, IsRunning \/ NextPort
    PROVE  /\ Joined(ThisBridge) /\ Current(ThisBridge)
           /\ Joined(Arrived(ThisBridge)) /\ Current(Arrived(ThisBridge))
           /\ ~Arrived(ThisBridge).state.IsNetworkDataLoss
           /\ NextPort => ~ThisBridge.state.IsNetworkDataLoss
           /\ main = "loop"
<1>1. main = "loop" /\ (NextPort => rest # {})
  BY DEF IsRunning, NextPort
<1>2. ThisBridge \in Bridge
  BY ReceiveGood DEF OutputsInv
<1>3. Joined(ThisBridge) /\ Current(ThisBridge)
  BY <1>1 DEF OutputsInv, OutputUniversesJoined, Joined, ThisBridge
<1>4. NextPort => ~ThisBridge.state.IsNetworkDataLoss
  BY <1>1 DEF OutputsInv, ThisBridge
<1> QED
  BY <1>1, <1>2, <1>3, <1>4, ArrivedOutputs DEF Joined, Current, WantedAt, SettledAt

\* Serving a port of the loop of HandleDmx.
LEMMA ServePortOutputs ==
    ASSUME NEW this \in Bridge, NEW packet \in DataPacket,
           NEW todo, todo \subseteq Ports, todo # {},
           Good(this), Joined(this), Current(this),
           ~this.state.IsNetworkDataLoss,
           ServePort(this, packet, todo), main = "loop", IInv'
    PROVE  OutputsInv'
<1>1. First(todo) \in Ports
  BY FirstType
<1>2. PICK failsafe :
          Become(HandleDmx(this, First(todo), packet, failsafe))
  BY DEF ServePort
<1> DEFINE next == HandleDmx(this, First(todo), packet, failsafe)
<1>3. Joined(next) /\ Current(next) /\ ~next.state.IsNetworkDataLoss
  BY <1>1, HandleDmxOutputs
<1>4. main' = main
  BY DEF ServePort
<1> QED
  BY <1>2, <1>3, <1>4, BecomeOutputs

\* A step that leaves ports, light and groups as they are.
LEMMA UnchangedOutputs ==
    ASSUME OutputsInv, IInv', light' = light, groups' = groups,
           main' = main \/ (main = "boot" /\ main' = "loop"), rest' = rest,
           state'.IsNetworkDataLoss = state.IsNetworkDataLoss,
           state'.IsMergeMode = state.IsMergeMode,
           state'.nPriority = state.nPriority,
           state'.IsSynchronized = state.IsSynchronized,
           state'.IsForcedSynchronized = state.IsForcedSynchronized,
           \A p \in Ports :
             /\ port'[p].direction = port[p].direction
             /\ port'[p].universe = port[p].universe
             /\ port'[p].IsTransmitting = port[p].IsTransmitting
             /\ port'[p].IsDataPending = port[p].IsDataPending
    PROVE  OutputsInv'
BY DEF OutputsInv, OutputUniversesJoined, Current, WantedAt, SettledAt, ThisBridge,
       LossEndsOutput

\* The clock touches ages only.
LEMMA TickOutputs == OutputsInv /\ Tick /\ IInv' => OutputsInv'
<1> SUFFICES ASSUME OutputsInv, Tick, IInv'
             PROVE  OutputsInv'
  OBVIOUS
<1>1. TypeOK
  BY DEF OutputsInv, IInv
<1>2. ASSUME NEW p \in Ports
      PROVE  /\ port'[p].direction = port[p].direction
             /\ port'[p].universe = port[p].universe
             /\ port'[p].IsTransmitting = port[p].IsTransmitting
             /\ port'[p].IsDataPending = port[p].IsDataPending
  <2>1. port[p] \in OutputPort
    BY <1>1 DEF TypeOK
  <2>2. port'[p] = [port[p] EXCEPT !.sourceA.age = Older(@, MaxSourceAge),
                                   !.sourceB.age = Older(@, MaxSourceAge)]
    BY DEF Tick
  <2> QED
    BY <2>1, <2>2 DEF OutputPort
<1>3. state' = [state EXCEPT !.packetAge = Older(@, LossTimeout),
                             !.syncAge = Older(@, LossTimeout)]
  BY DEF Tick
<1>4. state \in State
  BY <1>1 DEF TypeOK
<1>5. /\ state'.IsNetworkDataLoss = state.IsNetworkDataLoss
      /\ state'.IsMergeMode = state.IsMergeMode
      /\ state'.nPriority = state.nPriority
      /\ state'.IsSynchronized = state.IsSynchronized
      /\ state'.IsForcedSynchronized = state.IsForcedSynchronized
  BY <1>3, <1>4 DEF State
<1>6. /\ light' = light /\ groups' = groups /\ main' = main /\ rest' = rest
  BY DEF Tick
<1> QED
  BY <1>2, <1>5, <1>6, UnchangedOutputs

\* Clear hands zeros to the driver and stores the same.
LEMMA ClearOutputs ==
    ASSUME OutputsInv, NEW p \in Ports, Clear(p), IInv'
    PROVE  OutputsInv'
<1> DEFINE starts == port[p].direction = "OUTPUT" /\ ~port[p].IsTransmitting
           cleared == OutputClear(light, p)
<1>1. /\ light \in Light /\ port \in [Ports -> OutputPort]
      /\ port[p] \in OutputPort /\ state \in State
  BY DEF OutputsInv, IInv, TypeOK, Light
<1>2. /\ \A q \in Ports : q # p => light'[q] = light[q]
      /\ light'[p].sent = light'[p].data /\ light'[p].data = 0
  <2>1. light' = IF starts THEN Start(cleared, p) ELSE cleared
    BY DEF Clear
  <2> QED
    BY <1>1, <2>1 DEF OutputClear, Start, Light, LightPort
<1>3. port' = [port EXCEPT ![p] = [port[p] EXCEPT !.IsTransmitting = @ \/ starts]]
  BY <1>1 DEF Clear
<1>4. ASSUME NEW q \in Ports
      PROVE  /\ port'[q].direction = port[q].direction
             /\ port'[q].universe = port[q].universe
             /\ port'[q].IsDataPending = port[q].IsDataPending
             /\ q # p => port'[q].IsTransmitting = port[q].IsTransmitting
  <2> HIDE DEF starts
  <2>1. CASE q = p
    BY <1>1, <1>3, <2>1 DEF OutputPort
  <2>2. CASE q # p
    BY <1>1, <1>3, <2>2
  <2> QED
    BY <2>1, <2>2
<1>5. /\ ~state'.IsNetworkDataLoss /\ groups' = groups
      /\ main' = main /\ main = "loop"
  BY <1>1 DEF Clear, IsRunning, State
<1>6. OutputUniversesJoined'
  BY <1>4, <1>5 DEF OutputsInv, OutputUniversesJoined
<1>7. Current(ThisBridge)'
  BY <1>2, <1>4, <1>5 DEF OutputsInv, Current, WantedAt, SettledAt, ThisBridge
<1> QED
  BY <1>5, <1>6, <1>7 DEF OutputsInv, LossEndsOutput

\* SetUniverse disables its port or makes it the output of the universe, and
\* keeps the groups of the other ports.
LEMMA SetUniversePlaces ==
    ASSUME TypeOK, OutputUniversesJoined, NEW p \in Ports,
           NEW universe \in Universes, SetUniverse(p, universe)
    PROVE  /\ OutputUniversesJoined'
           /\ \A q \in Ports :
                 /\ q # p => port'[q] = port[q]
                 /\ port'[q].IsTransmitting = port[q].IsTransmitting
                 /\ port'[q].IsDataPending = port[q].IsDataPending
           /\ SetUniverseOutput(p, universe) => port'[p].direction = "OUTPUT"
           /\ SetUniverseDisable(p) => port'[p].direction = "DISABLE"
<1>1. port \in [Ports -> OutputPort] /\ port[p] \in OutputPort
  BY DEF TypeOK
<1> DEFINE left == LeaveUniverse(ThisBridge, {p}, port[p].universe).groups
           disabled == [port[p] EXCEPT !.direction = "DISABLE"]
           placed == [port[p] EXCEPT !.direction = "OUTPUT",
                                     !.universe = universe]
<1>2. \A q \in Ports : /\ q # p /\ port[q].direction = "OUTPUT"
                      => port[q].universe \in left
  BY DEF OutputUniversesJoined, LeaveUniverse, ThisBridge
<1> HIDE DEF left
<1>3. /\ disabled.direction = "DISABLE" /\ placed.direction = "OUTPUT"
      /\ placed.universe = universe
      /\ disabled.IsTransmitting = port[p].IsTransmitting
      /\ disabled.IsDataPending = port[p].IsDataPending
      /\ placed.IsTransmitting = port[p].IsTransmitting
      /\ placed.IsDataPending = port[p].IsDataPending
  BY <1>1 DEF OutputPort
<1>4. SetUniverseDisable(p)
      => port' = [port EXCEPT ![p] = disabled] /\ groups' = left
  BY <1>1 DEF SetUniverseDisable, left
<1>5. SetUniverseOutput(p, universe)
      => /\ port' = [port EXCEPT ![p] = placed]
         /\ universe \in groups'
         /\ left \subseteq groups' \/ groups \subseteq groups'
  <2> SUFFICES ASSUME SetUniverseOutput(p, universe)
               PROVE  /\ port' = [port EXCEPT ![p] = placed]
                      /\ universe \in groups'
                      /\ left \subseteq groups' \/ groups \subseteq groups'
    OBVIOUS
  <2>1. port' = [port EXCEPT ![p] = placed]
    BY <1>1 DEF SetUniverseOutput
  <2>2. ThisBridge \in Bridge
    BY ThisBridgeType
  <2>3. \A this \in Bridge :
           JoinGroup(this, universe).groups = this.groups \cup {universe}
    BY DEF JoinGroup, Bridge
  <2>4. LeaveUniverse(ThisBridge, {p}, port[p].universe) \in Bridge
    BY <2>2, LeaveUniverseType
  <2>5. groups' \in {left \cup {universe}, groups \cup {universe}}
    BY <2>2, <2>3, <2>4 DEF SetUniverseOutput, left, ThisBridge
  <2> QED
    BY <2>1, <2>5
<1> HIDE DEF disabled, placed
<1>6. SetUniverseDisable(p) \/ SetUniverseOutput(p, universe)
  BY DEF SetUniverse
<1>7. OutputUniversesJoined'
  BY <1>1, <1>2, <1>3, <1>4, <1>5, <1>6 DEF OutputUniversesJoined
<1> QED
  BY <1>1, <1>3, <1>4, <1>5, <1>6, <1>7

\* A port that is disabled or moved keeps the groups of the other ports.
LEMMA SetUniverseOutputs ==
    ASSUME OutputsInv, NEW p \in Ports, NEW universe \in Universes,
           SetUniverse(p, universe), IInv'
    PROVE  OutputsInv'
<1>1. /\ port \in [Ports -> OutputPort] /\ port[p] \in OutputPort
      /\ state \in State
  BY DEF OutputsInv, IInv, TypeOK
<1>2. ASSUME NEW delta, CountOutputs(delta)
      PROVE  /\ state'.IsNetworkDataLoss = state.IsNetworkDataLoss
             /\ state'.IsMergeMode = state.IsMergeMode
             /\ state'.nPriority = state.nPriority
             /\ state'.IsSynchronized = state.IsSynchronized
             /\ state'.IsForcedSynchronized = state.IsForcedSynchronized
  BY <1>1, <1>2 DEF CountOutputs, State
<1>3. /\ state'.IsNetworkDataLoss = state.IsNetworkDataLoss
      /\ state'.IsMergeMode = state.IsMergeMode
      /\ state'.nPriority = state.nPriority
      /\ state'.IsSynchronized = state.IsSynchronized
      /\ state'.IsForcedSynchronized = state.IsForcedSynchronized
  BY <1>2 DEF SetUniverse, SetUniverseDisable, SetUniverseOutput
<1>4. /\ OutputUniversesJoined'
      /\ \A q \in Ports : /\ port'[q].IsTransmitting = port[q].IsTransmitting
                          /\ port'[q].IsDataPending = port[q].IsDataPending
  BY SetUniversePlaces DEF OutputsInv, IInv
<1>5. light' = light /\ main' = main /\ rest' = rest
  BY DEF SetUniverse
<1> QED
  BY <1>3, <1>4, <1>5 DEF OutputsInv, Current, WantedAt, SettledAt, ThisBridge, LossEndsOutput

\* Merge mode and failsafe touch no output.
LEMMA ConfigurationOutputs ==
    ASSUME OutputsInv, IInv'
    PROVE  /\ \A p \in Ports, mergeMode \in MergeModes :
                 SetMergeMode(p, mergeMode) => OutputsInv'
           /\ \A failsafe \in FailSafes : SetFailSafe(failsafe) => OutputsInv'
<1>1. port \in [Ports -> OutputPort] /\ state \in State
  BY DEF OutputsInv, IInv, TypeOK
<1>2. ASSUME NEW p \in Ports, NEW mergeMode \in MergeModes,
             SetMergeMode(p, mergeMode)
      PROVE  OutputsInv'
  <2>1. \A q \in Ports : /\ port'[q].direction = port[q].direction
                        /\ port'[q].universe = port[q].universe
                        /\ port'[q].IsTransmitting = port[q].IsTransmitting
                        /\ port'[q].IsDataPending = port[q].IsDataPending
    BY <1>1, <1>2 DEF SetMergeMode, OutputPort
  <2> QED
    BY <1>2, <2>1, UnchangedOutputs DEF SetMergeMode
<1>3. ASSUME NEW failsafe \in FailSafes, SetFailSafe(failsafe)
      PROVE  OutputsInv'
  <2>1. /\ state'.IsNetworkDataLoss = state.IsNetworkDataLoss
        /\ state'.IsMergeMode = state.IsMergeMode
        /\ state'.nPriority = state.nPriority
        /\ state'.IsSynchronized = state.IsSynchronized
        /\ state'.IsForcedSynchronized = state.IsForcedSynchronized
    BY <1>1, <1>3 DEF SetFailSafe, State
  <2> QED
    BY <1>3, <2>1, UnchangedOutputs DEF SetFailSafe
<1> QED
  BY <1>2, <1>3

\* The constructor disables every port and starts without a loss.
LEMMA BootOutputs ==
    ASSUME IInv, main = "boot", state = StateAtBoot, light = LightAtBoot,
           port = [p \in Ports |-> PortAtBoot]
    PROVE  OutputsInv
BY DEF OutputsInv, OutputUniversesJoined, Current, WantedAt, SettledAt, ThisBridge,
       LossEndsOutput, StateAtBoot, PortAtBoot, LightAtBoot

\* Start, Stop and a reboot keep the invariant.
LEMMA StartStopBridgeOutputs ==
    ASSUME OutputsInv, IInv'
    PROVE  /\ StartBridge => OutputsInv'
           /\ StopBridge => OutputsInv'
           /\ Reboot => OutputsInv'
<1>1. state \in State
  BY DEF OutputsInv, IInv, TypeOK
<1>2. ASSUME StartBridge
      PROVE  OutputsInv'
  <2>1. /\ state'.IsNetworkDataLoss = state.IsNetworkDataLoss
        /\ state'.IsMergeMode = state.IsMergeMode
        /\ state'.nPriority = state.nPriority
        /\ state'.IsSynchronized = state.IsSynchronized
        /\ state'.IsForcedSynchronized = state.IsForcedSynchronized
    BY <1>1, <1>2 DEF StartBridge, State
  <2>2. ~state.IsNetworkDataLoss
    BY <1>2 DEF StartBridge, OutputsInv
  <2> QED
    BY <1>2, <2>1, <2>2, UnchangedOutputs DEF StartBridge
<1>3. StopBridge => OutputsInv'
  BY DEF StopBridge, IsRunning, OutputsInv, OutputUniversesJoined, LossEndsOutput
<1>4. Reboot => OutputsInv'
  BY DEF Reboot, OutputsInv, OutputUniversesJoined, Current, WantedAt, SettledAt,
         ThisBridge, LossEndsOutput, StateAtBoot, PortAtBoot, LightAtBoot
<1> QED
  BY <1>2, <1>3, <1>4

\* Every step keeps the invariant.
LEMMA NextOutputs == OutputsInv /\ [Next]_vars => OutputsInv'
<1> SUFFICES ASSUME OutputsInv, [Next]_vars
             PROVE  OutputsInv'
  OBVIOUS
<1>1. IInv /\ IInv' /\ TypeOK
  BY NextGood DEF OutputsInv, IInv
<1>2. ASSUME NEW packet \in DataPacket, ReceiveData(packet)
      PROVE  OutputsInv'
  <2>1. /\ Subscribed(packet.universe) \subseteq Ports
        /\ Subscribed(packet.universe) # {}
        /\ IsRunning
        /\ ServePort(Arrived(ThisBridge), packet, Subscribed(packet.universe))
    BY <1>2 DEF Subscribed, ReceiveData
  <2> QED
    BY <1>1, <2>1, ReceiveGood, ThisBridgeOutputs, ServePortOutputs
<1>3. CASE NextPort
  <2>1. frame \in DataPacket /\ rest \subseteq Ports /\ rest # {}
    BY <1>1, <1>3 DEF NextPort, TypeOK
  <2>2. ServePort(ThisBridge, frame, rest)
    BY <1>3 DEF NextPort
  <2> QED
    BY <1>1, <1>3, <2>1, <2>2, ReceiveGood, ThisBridgeOutputs, ServePortOutputs
<1>4. CASE ReceiveOther
  <2>1. /\ IsRunning /\ Become(Arrived(ThisBridge)) /\ main' = main
    BY <1>4 DEF ReceiveOther
  <2> QED
    BY <1>1, <2>1, ThisBridgeOutputs, BecomeOutputs
<1>5. ASSUME NEW address \in Universes \cup {NoUniverse},
             ReceiveSynchronization(address)
      PROVE  OutputsInv'
  <2> DEFINE next == HandleSynchronization(Arrived(ThisBridge), address)
  <2>1. IsRunning /\ Become(next) /\ main' = main
    BY <1>5 DEF ReceiveSynchronization
  <2>2. Joined(next) /\ Current(next) /\ ~next.state.IsNetworkDataLoss
    BY <1>1, <2>1, ReceiveGood, ThisBridgeOutputs, HandleSynchronizationOutputs
  <2> QED
    BY <1>1, <2>1, <2>2, ThisBridgeOutputs, BecomeOutputs
<1>6. CASE RunIdle
  <2>1. PICK failsafe : Become(NetworkDataLoss(ThisBridge, failsafe))
    BY <1>6 DEF RunIdle
  <2>2. IsRunning /\ main' = main /\ rest' = {}
    BY <1>6 DEF RunIdle, IsRunning
  <2> DEFINE next == NetworkDataLoss(ThisBridge, failsafe)
  <2>3. Joined(next) /\ Current(next) /\ LostTotally(next)
    BY <1>1, <2>2, ReceiveGood, ThisBridgeOutputs, NetworkDataLossTotal
  <2> HIDE DEF next
  <2>4. Become(next)
    BY <2>1 DEF next
  <2> QED
    BY <1>1, <2>2, <2>3, <2>4, ThisBridgeOutputs, BecomeOutputs
<1>7. CASE Tick
  BY <1>1, <1>7, TickOutputs
<1>8. ASSUME NEW p \in Ports, NEW universe \in Universes,
             SetUniverse(p, universe)
      PROVE  OutputsInv'
  BY <1>1, <1>8, SetUniverseOutputs
<1>9. ASSUME NEW p \in Ports, NEW mergeMode \in MergeModes,
             SetMergeMode(p, mergeMode)
      PROVE  OutputsInv'
  BY <1>1, <1>9, ConfigurationOutputs
<1>10. ASSUME NEW failsafe \in FailSafes, SetFailSafe(failsafe)
       PROVE  OutputsInv'
  BY <1>1, <1>10, ConfigurationOutputs
<1>11. ASSUME NEW p \in Ports, Clear(p)
       PROVE  OutputsInv'
  BY <1>1, <1>11, ClearOutputs
<1>12. CASE StartBridge \/ StopBridge \/ Reboot
  BY <1>1, <1>12, StartStopBridgeOutputs
<1>13. CASE UNCHANGED vars
  BY <1>1, <1>13, UnchangedOutputs DEF vars
<1> QED
  BY <1>2, <1>3, <1>4, <1>5, <1>6, <1>7, <1>8, <1>9, <1>10, <1>11, <1>12,
     <1>13 DEF Next

\* OutputsInv is an invariant of the bridge.
LEMMA OutputsInvariant == Spec => []OutputsInv
<1>1. Init => OutputsInv
  <2> SUFFICES ASSUME Init
               PROVE  OutputsInv
    OBVIOUS
  <2>1. IInv
    BY InitType, BootGood DEF Init
  <2> QED
    BY <2>1, BootOutputs DEF Init
<1>2. OutputsInv /\ [Next]_vars => OutputsInv'
  BY NextOutputs
<1> QED
  BY <1>1, <1>2, PTL DEF Spec

\* Serving a port lowers the priority only if that port is silent.
LEMMA ServePortPriority ==
    ASSUME NEW this \in Bridge, NEW packet \in DataPacket,
           NEW todo, todo \subseteq Ports, todo # {},
           Good(this), ServePort(this, packet, todo),
           this.port = port, this.state.nPriority = state.nPriority,
           state'.nPriority < state.nPriority
    PROVE  \E p \in Ports : SilentPort(ThisBridge, p)
<1> DEFINE p == First(todo)
<1>1. p \in Ports
  BY FirstType
<1>2. PICK failsafe : Become(HandleDmx(this, p, packet, failsafe))
  BY DEF ServePort
<1>3. SilentPort(this, p)
  BY <1>1, <1>2, HandleDmxPriority DEF Become
<1>4. SilentPort(ThisBridge, p)
  BY <1>3 DEF SilentPort, ThisBridge
<1> QED
  BY <1>1, <1>4

\* Only a loss, a reboot and a silent port lower the priority.
LEMMA NextPriority ==
    ASSUME IInv, [Next]_vars, state'.nPriority < state.nPriority,
           ~state'.IsNetworkDataLoss, main' = "loop"
    PROVE  \E p \in Ports : SilentPort(ThisBridge, p)
<1>1. TypeOK /\ state \in State
  BY DEF IInv, TypeOK
<1>2. state.nPriority \in Int
  <2>1. state.nPriority \in Priorities \cup {LOWEST}
    BY <1>1 DEF State
  <2>2. \A priority \in Priorities : priority \in Int
    BY PrioritiesAssumption
  <2> QED
    BY <2>1, <2>2 DEF LOWEST
<1>3. state'.nPriority # state.nPriority
  BY <1>2
<1>4. ASSUME NEW packet \in DataPacket, ReceiveData(packet)
      PROVE  \E p \in Ports : SilentPort(ThisBridge, p)
  <2> DEFINE todo == Subscribed(packet.universe)
  <2>1. /\ todo \subseteq Ports /\ todo # {} /\ IsRunning
        /\ ServePort(Arrived(ThisBridge), packet, todo)
    BY <1>4 DEF Subscribed, ReceiveData
  <2>2. /\ ThisBridge \in Bridge
        /\ Arrived(ThisBridge) \in Bridge /\ Good(Arrived(ThisBridge))
    BY <2>1, ReceiveGood
  <2>3. /\ Arrived(ThisBridge).port = port
        /\ Arrived(ThisBridge).state.nPriority = state.nPriority
    BY <2>2, ArrivedOutputs DEF ThisBridge
  <2> HIDE DEF todo
  <2> QED
    BY <2>1, <2>2, <2>3, ServePortPriority
<1>5. CASE NextPort
  <2>1. /\ frame \in DataPacket /\ rest \subseteq Ports /\ rest # {}
        /\ ServePort(ThisBridge, frame, rest)
    BY <1>1, <1>5 DEF NextPort, TypeOK
  <2>2. ThisBridge.port = port /\ ThisBridge.state.nPriority = state.nPriority
    BY DEF ThisBridge
  <2> QED
    BY <1>5, <2>1, <2>2, ReceiveGood, ServePortPriority
<1>6. CASE ReceiveOther
  <2>1. Arrived(ThisBridge).state.nPriority = state.nPriority
    BY <1>6, ReceiveGood, ArrivedOutputs DEF ReceiveOther, ThisBridge
  <2> QED
    BY <1>3, <1>6, <2>1 DEF ReceiveOther, Become
<1>7. ASSUME NEW address, ReceiveSynchronization(address)
      PROVE  FALSE
  <2> DEFINE this == Arrived(ThisBridge)
  <2>1. this \in Bridge /\ this.state.nPriority = state.nPriority
    BY <1>7, ReceiveGood, ArrivedOutputs DEF ReceiveSynchronization, ThisBridge
  <2> HIDE DEF this
  <2>2. HandleSynchronization(this, address).state
          \in {this.state, [this.state EXCEPT !.syncAge = 0]}
    BY <2>1 DEF HandleSynchronization, Bridge
  <2>3. HandleSynchronization(this, address).state.nPriority = this.state.nPriority
    BY <2>1, <2>2, BridgeFields DEF State
  <2>4. Become(HandleSynchronization(this, address))
    BY <1>7 DEF ReceiveSynchronization, this
  <2> QED
    BY <1>3, <2>1, <2>3, <2>4 DEF Become
<1>8. ASSUME RunIdle
      PROVE  FALSE
  <2>1. PICK failsafe : Become(NetworkDataLoss(ThisBridge, failsafe))
    BY <1>8 DEF RunIdle
  <2>2. ThisBridge.state \in State /\ ThisBridge \in Bridge
    BY <1>8, ReceiveGood, BridgeFields DEF RunIdle
  <2>3. NetworkDataLoss(ThisBridge, failsafe).state = [ThisBridge.state EXCEPT
            !.IsNetworkDataLoss = TRUE, !.IsMergeMode = FALSE,
            !.IsSynchronized = FALSE, !.IsForcedSynchronized = FALSE,
            !.nPriority = LOWEST]
    BY <2>2 DEF NetworkDataLoss, Bridge
  <2> QED
    BY <2>1, <2>2, <2>3 DEF Become, State
<1>9. ~Tick
  BY <1>1, <1>3 DEF Tick, State
<1>10. ASSUME NEW p, NEW universe, SetUniverse(p, universe)
       PROVE  FALSE
  BY <1>1, <1>3, <1>10
     DEF SetUniverse, SetUniverseDisable, SetUniverseOutput, CountOutputs, State
<1>11. ASSUME NEW p, NEW mergeMode, SetMergeMode(p, mergeMode)
       PROVE  FALSE
  BY <1>3, <1>11 DEF SetMergeMode
<1>12. ASSUME NEW failsafe, SetFailSafe(failsafe)
       PROVE  FALSE
  BY <1>1, <1>3, <1>12 DEF SetFailSafe, State
<1>13. ASSUME NEW p, Clear(p)
       PROVE  FALSE
  <2>1. state' = [state EXCEPT !.IsNetworkDataLoss = FALSE]
    BY <1>13 DEF Clear
  <2> QED
    BY <1>1, <1>3, <2>1 DEF State
<1>14. ~StartBridge
  BY <1>1, <1>3 DEF StartBridge, State
<1>15. ~StopBridge /\ ~Reboot
  BY DEF StopBridge, Reboot
<1>16. ~UNCHANGED vars
  BY <1>3 DEF vars
<1> QED
  BY <1>4, <1>5, <1>6, <1>7, <1>8, <1>9, <1>10, <1>11, <1>12, <1>13, <1>14,
     <1>15, <1>16 DEF Next

-----------------------------------------------------------------------------
(***************************************************************************)
(* Synchronization                                                         *)
(*                                                                         *)
(* What a method hands to the driver of a port that transmits: nothing, if *)
(* the bridge is synchronized.                                             *)
(***************************************************************************)
SameSent(this, next) ==
    \A q \in Ports : next.light[q].sent = this.light[q].sent

HoldsBack(this, next) ==
    \A q \in Ports : next.port[q].IsTransmitting
                     => next.light[q].sent = this.light[q].sent

\* Merging hands nothing to the driver.
LEMMA MergeSourceSent ==
    ASSUME NEW lit \in Light, NEW p \in Ports, NEW level \in Levels, NEW mode
    PROVE  \A next \in {MergeSourceA(lit, p, level, mode),
                        MergeSourceB(lit, p, level, mode)} :
             \A q \in Ports : next[q].sent = lit[q].sent
BY DEF MergeSourceA, MergeSourceB, Light, LightPort

\* The same of the whole of Merge, whichever slot takes the packet.
LEMMA MergeSent ==
    ASSUME NEW this \in Bridge, NEW was \in Bridge, NEW p \in Ports,
           NEW packet \in DataPacket
    PROVE  SameSent(this, Merge(this, was, p, packet))
<1> DEFINE A == was.port[p].sourceA
           B == was.port[p].sourceB
           toA == GoesToA(A, B, packet)
           toB == GoesToB(A, B, packet)
           isMerge == (toA /\ Occupied(B)) \/ (toB /\ Occupied(A))
           mode == IF isMerge THEN this.port[p].mergeMode ELSE "LTP"
           known == IsSource(A, packet) \/ IsSource(B, packet)
           taken(source) == IF known
                              THEN Continued(source, packet) ELSE Filled(packet)
           lit == CASE toA -> MergeSourceA(this.light, p, packet.level, mode)
                    [] toB -> MergeSourceB(this.light, p, packet.level, mode)
                    [] OTHER -> this.light
           stored == [this EXCEPT
                !.port[p].sourceA = IF toA THEN taken(@) ELSE @,
                !.port[p].sourceB = IF toB THEN taken(@) ELSE @,
                !.light = CASE toA -> MergeSourceA(@, p, packet.level, mode)
                            [] toB -> MergeSourceB(@, p, packet.level, mode)
                            [] OTHER -> @]
<1>1. this.light \in Light /\ packet.level \in Levels
  BY BridgeFields DEF DataPacket
<1> HIDE DEF toA, toB, mode, taken
<1>2. \A q \in Ports : lit[q].sent = this.light[q].sent
  BY <1>1, MergeSourceSent
<1>3. stored.light = lit
  BY DEF Bridge
<1> HIDE DEF lit, stored
<1>4. SameSent(this, stored)
  BY <1>2, <1>3 DEF SameSent
<1>5. UpdateMergeStatus(stored, p).light = stored.light
  BY <1>3 DEF UpdateMergeStatus
<1>6. SameSent(this, UpdateMergeStatus(stored, p))
  BY <1>4, <1>5 DEF SameSent
<1> QED
  BY <1>4, <1>6
     DEF Merge, stored, taken, known, A, B, toA, toB, mode

\* Update keeps the state, and holds data back while it is synchronized.
LEMMA UpdateHolds ==
    ASSUME NEW this \in Bridge, NEW p \in Ports
    PROVE  LET next == Update(this, p)
           IN  /\ next.state = this.state
               /\ this.state.IsSynchronized /\ ~DisableSynchronize
                  => next.light = this.light
<1> DEFINE lit == IF this.port[p].IsTransmitting
                    THEN Output(this.light, p)
                    ELSE Start(Output(this.light, p), p)
           sends == [this EXCEPT !.light = lit, !.port[p].IsTransmitting = TRUE]
           holds == [this EXCEPT !.port[p].IsDataPending = TRUE]
<1> HIDE DEF lit
<1>1. /\ sends.state = this.state
      /\ holds.state = this.state /\ holds.light = this.light
  BY DEF Bridge
<1> QED
  BY <1>1 DEF Update, lit

\* The failsafe of a stream that ends reaches ports that stop transmitting.
LEMMA SourceLossHolds ==
    ASSUME NEW this \in Bridge, NEW isA, NEW isB, NEW failsafe
    PROVE  HoldsBack(this, SourceLoss(this, isA, isB, failsafe))
<1> DEFINE served == {p \in Ports : this.port[p].IsTransmitting}
           lost == IF this.state.IsMergeMode THEN {} ELSE served
           dropsA(p) == isA /\ Occupied(this.port[p].sourceA)
           dropsB(p) == isB /\ Occupied(this.port[p].sourceB)
           cleared == ClearLength(this.light, lost)
           next == SourceLoss(this, isA, isB, failsafe)
<1>1. next.light = IF lost = {} THEN cleared
                                ELSE FailSafeLight(cleared, failsafe)
  BY DEF SourceLoss, Bridge
<1>2. next.port = [p \in Ports |->
                IF p \in served
                  THEN [this.port[p] EXCEPT
                            !.sourceA = IF dropsA(p) THEN EmptySlot(@) ELSE @,
                            !.sourceB = IF dropsB(p) THEN EmptySlot(@) ELSE @,
                            !.IsMerging = @ /\ ~dropsA(p) /\ ~dropsB(p),
                            !.IsTransmitting = @ /\ p \notin lost]
                  ELSE this.port[p]]
  BY DEF SourceLoss, Bridge
<1> HIDE DEF next, dropsA, dropsB, lost
<1> SUFFICES ASSUME NEW q \in Ports, next.port[q].IsTransmitting
             PROVE  next.light[q].sent = this.light[q].sent
  BY DEF HoldsBack, next
<1>3. q \in served
  <2> SUFFICES ASSUME q \notin served PROVE FALSE
    OBVIOUS
  <2>1. next.port[q] = this.port[q]
    <3> HIDE DEF served
    <3> QED
      BY <1>2
  <2> QED
    BY <2>1
<1> HIDE DEF served
<1>4. q \notin lost
  <2> DEFINE emptied == [this.port[q] EXCEPT
                !.sourceA = IF dropsA(q) THEN EmptySlot(@) ELSE @,
                !.sourceB = IF dropsB(q) THEN EmptySlot(@) ELSE @,
                !.IsMerging = @ /\ ~dropsA(q) /\ ~dropsB(q),
                !.IsTransmitting = @ /\ q \notin lost]
  <2>1. this.port[q] \in OutputPort
    BY BridgeFields
  <2>2. next.port[q] = emptied
    BY <1>2, <1>3, Zenon
  <2>3. emptied.IsTransmitting => q \notin lost
    BY <2>1 DEF OutputPort
  <2> QED
    BY <2>2, <2>3
<1>5. lost = {}
  BY <1>3, <1>4 DEF lost, served
<1>6. next.light[q] = [this.light[q] EXCEPT !.filled = @ /\ q \notin lost]
  BY <1>1, <1>5 DEF ClearLength
<1>7. this.light[q] \in LightPort
  BY BridgeFields DEF Light
<1> QED
  BY <1>6, <1>7 DEF LightPort

\* HandleDmx on one port, when the bridge is synchronized afterwards.
LEMMA HandleDmxHolds ==
    ASSUME NEW was \in Bridge, NEW p \in Ports, NEW packet \in DataPacket,
           NEW failsafe, Good(was), ~DisableSynchronize,
           HandleDmx(was, p, packet, failsafe).state.IsSynchronized
    PROVE  HoldsBack(was, HandleDmx(was, p, packet, failsafe))
<1> DEFINE isA == IsSource(was.port[p].sourceA, packet)
           isB == IsSource(was.port[p].sourceB, packet)
           stored == StoreSequence(was, p, packet)
           checked == IF was.state.IsMergeMode /\ ~DisableMergeTimeout
                        THEN CheckMergeTimeouts(stored, p) ELSE stored
           adopted == AdoptPriority(checked, p, packet)
           merged == Merge(adopted, was, p, packet)
           synchronized == Synchronize(merged, was, p, packet)
           ended == SetNetworkDataLossCondition(stored, isA, isB, failsafe)
           updated == Update(synchronized, p)
<1>1. stored \in Bridge /\ stored.light = was.light
  BY StoreSequenceType, StoreSequenceWeakens DEF Weakened
<1> HIDE DEF stored
<1>2. checked \in Bridge /\ checked.light = was.light
  BY <1>1, CheckMergeTimeoutsType, CheckMergeTimeoutsWeakens DEF Weakened
<1> HIDE DEF checked
<1>3. adopted \in Bridge /\ adopted.light = was.light
  BY <1>2, AdoptPriorityType, AdoptPriorityWeakens DEF Weakened
<1> HIDE DEF adopted
<1>4. merged \in Bridge /\ SameSent(was, merged)
  <2>1. merged \in Bridge
    BY <1>3, MergeType
  <2>2. SameSent(adopted, merged)
    BY <1>3, MergeSent
  <2> HIDE DEF merged
  <2> QED
    BY <1>3, <2>1, <2>2 DEF SameSent
<1> HIDE DEF merged
<1>5. synchronized \in Bridge /\ synchronized.light = merged.light
  BY <1>4, SynchronizeType, SynchronizeKeeps
<1> HIDE DEF synchronized
<1>6. updated.state.IsSynchronized => HoldsBack(was, updated)
  BY <1>4, <1>5, UpdateHolds DEF SameSent, HoldsBack
<1>7. HoldsBack(was, ended)
  <2>1. packet.sender # NoSender
    BY SenderAssumption DEF DataPacket
  <2>2. ~(isA /\ isB)
    BY <2>1 DEF Good, GoodPort, IsSource, Occupied
  <2> QED
    BY <1>1, <2>2, SourceLossHolds
       DEF SetNetworkDataLossCondition, HoldsBack
<1>8. HoldsBack(was, stored) /\ HoldsBack(was, checked)
  BY <1>1, <1>2 DEF HoldsBack
<1> HIDE DEF updated, ended
<1> QED
  BY <1>6, <1>7, <1>8
     DEF HandleDmx, isA, isB, stored, checked, adopted, merged, synchronized,
         updated, ended

\* What the synchronization packet does: all that waits is sent, or nothing.
LEMMA HandleSynchronizationTogether ==
    ASSUME NEW this \in Bridge, NEW address
    PROVE  LET next == HandleSynchronization(this, address)
           IN  \/ HoldsBack(this, next)
               \/ \A p \in Ports : ~next.port[p].IsDataPending
<1> DEFINE pending == {p \in Ports : this.port[p].IsDataPending}
           next == HandleSynchronization(this, address)
<1>1. CASE address \notin {this.state.syncAddressA, this.state.syncAddressB}
  BY <1>1 DEF HandleSynchronization, HoldsBack
<1>2. CASE address \in {this.state.syncAddressA, this.state.syncAddressB}
  <2> DEFINE sent(p) == [this.port[p] EXCEPT
                             !.IsDataPending = FALSE,
                             !.IsTransmitting = @ \/ p \in pending]
  <2>1. next.port = [p \in Ports |-> sent(p)]
    BY <1>2 DEF HandleSynchronization, Bridge
  <2> HIDE DEF next, pending
  <2>2. \A p \in Ports : this.port[p] \in OutputPort
    BY BridgeFields
  <2>3. \A p \in Ports : ~sent(p).IsDataPending
    BY <2>2 DEF OutputPort
  <2> HIDE DEF sent
  <2>4. \A p \in Ports : ~next.port[p].IsDataPending
    BY <2>1, <2>3
  <2> QED
    BY <2>4 DEF next
<1> QED
  BY <1>1, <1>2

\* Serving a port hands nothing to a driver that goes on transmitting.
LEMMA ServePortHolds ==
    ASSUME NEW this \in Bridge, NEW packet \in DataPacket,
           NEW todo, todo \subseteq Ports, todo # {},
           Good(this), ServePort(this, packet, todo), this.light = light,
           state'.IsSynchronized, ~DisableSynchronize
    PROVE  \A q \in Ports : port'[q].IsTransmitting
                            => light'[q].sent = light[q].sent
<1> DEFINE p == First(todo)
<1>1. p \in Ports
  BY FirstType
<1>2. PICK failsafe : Become(HandleDmx(this, p, packet, failsafe))
  BY DEF ServePort
<1>3. HoldsBack(this, HandleDmx(this, p, packet, failsafe))
  BY <1>1, <1>2, HandleDmxHolds DEF Become
<1> QED
  BY <1>2, <1>3 DEF HoldsBack, Become

\* Only a synchronization packet that matches sends while synchronized.
LEMMA NextTogether ==
    ASSUME IInv, [Next]_vars, state'.IsSynchronized, ~DisableSynchronize,
           main' = "loop", \A p \in Ports : ~Clear(p)
    PROVE  \/ \A q \in Ports : port'[q].IsTransmitting
                               => light'[q].sent = light[q].sent
           \/ \A q \in Ports : ~port'[q].IsDataPending
<1> DEFINE Holds == \A q \in Ports : port'[q].IsTransmitting
                                     => light'[q].sent = light[q].sent
           Empty == \A q \in Ports : ~port'[q].IsDataPending
<1> SUFFICES Holds \/ Empty
  OBVIOUS
<1>1. light' = light => Holds
  OBVIOUS
<1>2. TypeOK
  BY DEF IInv
<1>3. ASSUME NEW packet \in DataPacket, ReceiveData(packet)
      PROVE  Holds
  <2> DEFINE todo == Subscribed(packet.universe)
  <2>1. /\ todo \subseteq Ports /\ todo # {} /\ IsRunning
        /\ ServePort(Arrived(ThisBridge), packet, todo)
    BY <1>3 DEF Subscribed, ReceiveData
  <2>2. /\ ThisBridge \in Bridge
        /\ Arrived(ThisBridge) \in Bridge /\ Good(Arrived(ThisBridge))
    BY <2>1, ReceiveGood
  <2>3. Arrived(ThisBridge).light = light
    BY <2>2, ArrivedOutputs DEF ThisBridge
  <2> HIDE DEF todo
  <2> QED
    BY <2>1, <2>2, <2>3, ServePortHolds
<1>4. CASE NextPort
  <2>1. /\ frame \in DataPacket /\ rest \subseteq Ports /\ rest # {}
        /\ ServePort(ThisBridge, frame, rest)
    BY <1>2, <1>4 DEF NextPort, TypeOK
  <2>2. ThisBridge.light = light
    BY DEF ThisBridge
  <2> QED
    BY <1>4, <2>1, <2>2, ReceiveGood, ServePortHolds
<1>5. CASE ReceiveOther
  <2>1. Arrived(ThisBridge).light = light
    BY <1>5, ReceiveGood, ArrivedOutputs DEF ReceiveOther, ThisBridge
  <2> QED
    BY <1>1, <1>5, <2>1 DEF ReceiveOther, Become
<1>6. ASSUME NEW address, ReceiveSynchronization(address)
      PROVE  Holds \/ Empty
  <2> DEFINE this == Arrived(ThisBridge)
  <2>1. this \in Bridge /\ this.light = light
    BY <1>6, ReceiveGood, ArrivedOutputs DEF ReceiveSynchronization, ThisBridge
  <2>2. Become(HandleSynchronization(this, address))
    BY <1>6 DEF ReceiveSynchronization
  <2> HIDE DEF this
  <2>3. \/ HoldsBack(this, HandleSynchronization(this, address))
        \/ \A p \in Ports :
             ~HandleSynchronization(this, address).port[p].IsDataPending
    BY <2>1, HandleSynchronizationTogether
  <2> QED
    BY <2>1, <2>2, <2>3 DEF HoldsBack, Become
<1>7. ~RunIdle
  <2> SUFFICES ASSUME RunIdle PROVE FALSE
    OBVIOUS
  <2>1. PICK failsafe : Become(NetworkDataLoss(ThisBridge, failsafe))
    BY DEF RunIdle
  <2>2. ThisBridge \in Bridge
    BY ReceiveGood DEF RunIdle
  <2>3. LostTotally(NetworkDataLoss(ThisBridge, failsafe))
    BY <2>2, NetworkDataLossTotal
  <2> QED
    BY <2>1, <2>3 DEF Become, LostTotally
<1>8. CASE Tick
  <2>1. light' = light
    BY <1>8 DEF Tick
  <2> QED
    BY <1>1, <2>1
<1>9. ASSUME NEW p, NEW universe, SetUniverse(p, universe)
      PROVE  Holds
  BY <1>1, <1>9 DEF SetUniverse
<1>10. ASSUME NEW p, NEW mergeMode, SetMergeMode(p, mergeMode)
       PROVE  Holds
  BY <1>1, <1>10 DEF SetMergeMode
<1>11. ASSUME NEW failsafe, SetFailSafe(failsafe)
       PROVE  Holds
  BY <1>1, <1>11 DEF SetFailSafe
<1>12. CASE StartBridge
  BY <1>1, <1>12 DEF StartBridge
<1>13. ~StopBridge /\ ~Reboot
  BY DEF StopBridge, Reboot
<1>14. CASE UNCHANGED vars
  BY <1>1, <1>14 DEF vars
<1> HIDE DEF Holds, Empty
<1>15. Holds \/ Empty
  BY <1>3, <1>4, <1>5, <1>6, <1>7, <1>8, <1>9, <1>10, <1>11, <1>12, <1>13,
     <1>14 DEF Next
<1> QED
  BY <1>15 DEF Holds, Empty

-----------------------------------------------------------------------------
(* Theorems *)

\* While the network is lost no port transmits, the node's priority, merge mode
\* and synchronization are those of the boot, and no level is kept for any port
\* but data that waits for a synchronization packet.
THEOREM LossEnds == Spec => []LossEndsOutput
<1>1. OutputsInv => LossEndsOutput
  BY DEF OutputsInv
<1> QED
  BY <1>1, OutputsInvariant, PTL

\* The group of every universe that is output stays joined, however ports and
\* synchronization addresses share universes.
THEOREM UniversesJoined == Spec => []OutputUniversesJoined
<1>1. OutputsInv => OutputUniversesJoined
  BY DEF OutputsInv
<1> QED
  BY <1>1, OutputsInvariant, PTL

\* The driver has the merged data of every transmitting port, unless the data
\* waits for synchronization.
THEOREM OutputsCurrent == Spec => []OutputIsCurrent
<1>1. OutputsInv => OutputIsCurrent
  BY DEF OutputsInv, OutputIsCurrent, Current, WantedAt, SettledAt, ThisBridge
<1> QED
  BY <1>1, OutputsInvariant, PTL

\* The priority that the node listens to falls only with the network, or when
\* all sources of a port have been silent.
THEOREM PriorityHeld == Spec => PriorityIsHeld
<1>1. IInv /\ [Next]_vars =>
        [ /\ state'.nPriority < state.nPriority
          /\ ~state'.IsNetworkDataLoss
          /\ main' = "loop"
          => \E p \in Ports :
               /\ Occupied(port[p].sourceA) \/ Occupied(port[p].sourceB)
               /\ Occupied(port[p].sourceA) => Silent(port[p].sourceA)
               /\ Occupied(port[p].sourceB) => Silent(port[p].sourceB)
        ]_vars
  BY NextPriority DEF SilentPort, ThisBridge
<1> QED
  BY <1>1, Inductive, PTL DEF Spec, PriorityIsHeld

\* A synchronized bridge changes the outputs that go on transmitting only by a
\* synchronization packet, and then leaves no port waiting.
THEOREM HeldBackTogether == Spec => SynchronizedTogether
<1>1. IInv /\ [Next]_vars =>
        [ /\ state.IsSynchronized /\ state'.IsSynchronized
          /\ ~DisableSynchronize /\ main' = "loop"
          /\ \E p \in Ports : /\ light'[p].sent # light[p].sent
                              /\ port'[p].IsTransmitting
          /\ \A p \in Ports : ~Clear(p)
          => \A p \in Ports : ~port'[p].IsDataPending
        ]_vars
  BY NextTogether
<1> QED
  BY <1>1, Inductive, PTL DEF Spec, SynchronizedTogether
-----------------------------------------------------------------------------
(***************************************************************************)
(* What a step leaves behind, whoever else uses the light: the node has a  *)
(* second receiver, which the invariants of the bridge know nothing of.    *)
(***************************************************************************)

\* Methods that weaken, or touch a port that is then settled, settle.
LEMMA WeakenedSettles ==
    ASSUME NEW this, NEW next, Weakened(this, next)
    PROVE  Settles(this, next)
BY DEF Settles, SameOutput, Weakened

LEMMA OnlyAtSettles ==
    ASSUME NEW this, NEW next, NEW p, OnlyAt(this, next, p), SettledAt(next, p)
    PROVE  Settles(this, next)
BY DEF OnlyAt, Settles

LEMMA SettlesTwice ==
    ASSUME NEW this, NEW next, NEW last, Settles(this, next), Settles(next, last)
    PROVE  Settles(this, last)
BY DEF Settles, SettledAt, SameOutput

LEMMA SamePlacesTwice ==
    ASSUME NEW this, NEW next, NEW last,
           SamePlaces(this, next), SamePlaces(next, last)
    PROVE  SamePlaces(this, last)
BY DEF SamePlaces

\* Held on data loss, a port loses its data or is not touched.
LEMMA HeldSettles ==
    ASSUME NEW this \in Bridge, NEW next, NEW lost,
           next.light = IF lost = {} THEN ClearLength(this.light, lost)
                          ELSE FailSafeLight(ClearLength(this.light, lost), "HOLD"),
           \A q \in Ports \ lost :
              /\ next.port[q].IsTransmitting = this.port[q].IsTransmitting
              /\ next.port[q].IsDataPending = this.port[q].IsDataPending
    PROVE  Settles(this, next)
<1>1. next.light = ClearLength(this.light, lost)
  BY DEF FailSafeLight
<1>2. ASSUME NEW q \in Ports
      PROVE  IF q \in lost THEN ~next.light[q].filled
                           ELSE next.light[q] = this.light[q]
  <2>1. this.light[q] \in LightPort
    BY BridgeFields DEF Light
  <2>2. next.light[q] = [this.light[q] EXCEPT !.filled = @ /\ q \notin lost]
    BY <1>1 DEF ClearLength
  <2>3. CASE q \in lost
    BY <2>1, <2>2, <2>3 DEF LightPort
  <2>4. CASE q \notin lost
    <3>1. this.light[q] = [this.light[q] EXCEPT !.filled = @]
      BY <2>1 DEF LightPort
    <3>2. this.light[q].filled \in BOOLEAN
      BY <2>1 DEF LightPort
    <3> QED
      BY <2>2, <2>4, <3>1, <3>2
  <2> QED
    BY <2>3, <2>4
<1> QED
  BY <1>2 DEF Settles, SettledAt, SameOutput

\* The data loss of a bridge that holds its last look settles.
LEMMA DataLossSettles ==
    ASSUME NEW this \in Bridge, NEW isA, NEW isB
    PROVE  Settles(this, SetNetworkDataLossCondition(this, isA, isB, "HOLD"))
<1> DEFINE served == {p \in Ports : this.port[p].IsTransmitting}
           lost == IF this.state.IsMergeMode THEN {} ELSE served
           dropsA(p) == isA /\ Occupied(this.port[p].sourceA)
           dropsB(p) == isB /\ Occupied(this.port[p].sourceB)
           total == NetworkDataLoss(this, "HOLD")
           partial == SourceLoss(this, isA, isB, "HOLD")
<1>1. Settles(this, total)
  <2>1. total.light = IF served = {} THEN ClearLength(this.light, served)
                        ELSE FailSafeLight(ClearLength(this.light, served), "HOLD")
    BY DEF NetworkDataLoss, Bridge
  <2>2. \A q \in Ports \ served : total.port[q] = this.port[q]
    BY DEF NetworkDataLoss, Bridge
  <2> HIDE DEF total, served
  <2> QED
    BY <2>1, <2>2, HeldSettles
<1>2. Settles(this, partial)
  <2>1. partial.light = IF lost = {} THEN ClearLength(this.light, lost)
                          ELSE FailSafeLight(ClearLength(this.light, lost), "HOLD")
    BY DEF SourceLoss, Bridge
  <2>2. partial.port = [p \in Ports |->
                IF p \in served
                  THEN [this.port[p] EXCEPT
                            !.sourceA = IF dropsA(p) THEN EmptySlot(@) ELSE @,
                            !.sourceB = IF dropsB(p) THEN EmptySlot(@) ELSE @,
                            !.IsMerging = @ /\ ~dropsA(p) /\ ~dropsB(p),
                            !.IsTransmitting = @ /\ p \notin lost]
                  ELSE this.port[p]]
    BY DEF SourceLoss, Bridge
  <2> HIDE DEF partial, lost, dropsA, dropsB
  <2>3. ASSUME NEW q \in Ports \ lost
        PROVE  /\ partial.port[q].IsTransmitting = this.port[q].IsTransmitting
               /\ partial.port[q].IsDataPending = this.port[q].IsDataPending
    <3>1. this.port[q] \in OutputPort
      BY BridgeFields
    <3>2. CASE q \in served
      <4>1. partial.port[q] = [this.port[q] EXCEPT
                !.sourceA = IF dropsA(q) THEN EmptySlot(@) ELSE @,
                !.sourceB = IF dropsB(q) THEN EmptySlot(@) ELSE @,
                !.IsMerging = @ /\ ~dropsA(q) /\ ~dropsB(q),
                !.IsTransmitting = @ /\ q \notin lost]
        BY <2>2, <3>2
      <4> QED
        BY <3>1, <4>1 DEF OutputPort
    <3>3. CASE q \notin served
      BY <2>2, <3>3
    <3> QED
      BY <3>2, <3>3
  <2> QED
    BY <2>1, <2>3, HeldSettles
<1> QED
  BY <1>1, <1>2 DEF SetNetworkDataLossCondition

\* Data loss, total or not, moves no port and leaves no group.
LEMMA DataLossPlaces ==
    ASSUME NEW this \in Bridge, NEW isA, NEW isB, NEW failsafe
    PROVE  LET next == SetNetworkDataLossCondition(this, isA, isB, failsafe)
           IN  SamePlaces(this, next) /\ (Joined(this) => Joined(next))
BY NetworkDataLossTotal, SourceLossOutputs DEF SetNetworkDataLossCondition

\* HandleDmx on one port moves none, leaves the groups of the outputs joined
\* and settles.
LEMMA HandleDmxSettles ==
    ASSUME NEW was \in Bridge, NEW p \in Ports, NEW packet \in DataPacket,
           NEW failsafe
    PROVE  LET next == HandleDmx(was, p, packet, failsafe)
           IN  /\ SamePlaces(was, next) /\ (Joined(was) => Joined(next))
               /\ failsafe = "HOLD" => Settles(was, next)
<1> DEFINE isA == IsSource(was.port[p].sourceA, packet)
           isB == IsSource(was.port[p].sourceB, packet)
           stored == StoreSequence(was, p, packet)
           checked == IF was.state.IsMergeMode /\ ~DisableMergeTimeout
                        THEN CheckMergeTimeouts(stored, p) ELSE stored
           adopted == AdoptPriority(checked, p, packet)
           merged == Merge(adopted, was, p, packet)
           synchronized == Synchronize(merged, was, p, packet)
           ended == SetNetworkDataLossCondition(stored, isA, isB, failsafe)
           updated == Update(synchronized, p)
           Kept(next) ==
               /\ SamePlaces(was, next) /\ (Joined(was) => Joined(next))
               /\ failsafe = "HOLD" => Settles(was, next)
<1>1. /\ stored \in Bridge /\ Weakened(was, stored)
      /\ OnlyAt(was, stored, p)
  BY StoreSequenceType, StoreSequenceWeakens, StoreSequenceOnly
<1> HIDE DEF stored
<1>2. Kept(stored)
  BY <1>1, WeakenedSettles DEF OnlyAt
<1>3. /\ checked \in Bridge /\ Weakened(was, checked)
      /\ OnlyAt(was, checked, p)
  BY <1>1, CheckMergeTimeoutsType, CheckMergeTimeoutsWeakens,
     CheckMergeTimeoutsOnly, WeakenedTransitive, OnlyAtTransitive
<1> HIDE DEF checked
<1>4. Kept(checked)
  BY <1>3, WeakenedSettles DEF OnlyAt
<1>5. adopted \in Bridge /\ OnlyAt(was, adopted, p)
  BY <1>3, AdoptPriorityType, AdoptPriorityOnly, OnlyAtTransitive
<1> HIDE DEF adopted
<1>6. merged \in Bridge /\ OnlyAt(was, merged, p)
  BY <1>5, MergeType, MergeOnly, OnlyAtTransitive
<1> HIDE DEF merged
<1>7. synchronized \in Bridge /\ OnlyAt(was, synchronized, p)
  BY <1>6, SynchronizeType, SynchronizeOnly, OnlyAtTransitive
<1> HIDE DEF synchronized
<1>8. OnlyAt(was, updated, p) /\ SettledAt(updated, p)
  BY <1>7, UpdateOnly, OnlyAtTransitive
<1> HIDE DEF updated
<1>9. Kept(updated)
  BY <1>8, OnlyAtSettles DEF OnlyAt
<1>10. /\ SamePlaces(stored, ended) /\ (Joined(stored) => Joined(ended))
       /\ failsafe = "HOLD" => Settles(stored, ended)
  BY <1>1, DataLossPlaces, DataLossSettles
<1> HIDE DEF ended
<1>11. Kept(ended)
  BY <1>2, <1>10, SettlesTwice, SamePlacesTwice
<1> HIDE DEF Kept
<1>12. Kept(HandleDmx(was, p, packet, failsafe))
  BY <1>2, <1>4, <1>9, <1>11
     DEF HandleDmx, isA, isB, stored, checked, adopted, merged, synchronized,
         updated, ended
<1> QED
  BY <1>12 DEF Kept

-----------------------------------------------------------------------------
(* Steps that settle *)

StepSettles ==
    \A p \in Ports :
        \/ /\ light'[p] = light[p]
           /\ port'[p].IsTransmitting = port[p].IsTransmitting
           /\ port'[p].IsDataPending = port[p].IsDataPending
        \/ /\ light'[p].filled
           /\ light'[p].sent # light'[p].data
           => port'[p].IsDataPending

StepKeepsPlaces ==
    \A p \in Ports : /\ port'[p].direction = port[p].direction
                     /\ port'[p].universe = port[p].universe

\* No port moves, and the universes that are output stay joined.
StepStays ==
    /\ StepKeepsPlaces
    /\ OutputUniversesJoined => OutputUniversesJoined'

LEMMA BecomeSettles ==
    ASSUME NEW next, Become(next), Settles(ThisBridge, next)
    PROVE  StepSettles
BY DEF StepSettles, Settles, SettledAt, SameOutput, Become, ThisBridge

LEMMA BecomeStays ==
    ASSUME NEW next, Become(next), SamePlaces(ThisBridge, next),
           Joined(ThisBridge) => Joined(next)
    PROVE  StepStays
BY DEF StepStays, StepKeepsPlaces, SamePlaces, Joined, OutputUniversesJoined,
       Become, ThisBridge

\* Serving a port of the loop of HandleDmx.
LEMMA ServePortSettles ==
    ASSUME NEW this \in Bridge, NEW packet \in DataPacket,
           NEW todo, todo \subseteq Ports, todo # {},
           this.port = ThisBridge.port, this.light = ThisBridge.light,
           this.groups = ThisBridge.groups,
           ServePort(this, packet, todo)
    PROVE  StepStays /\ (state.failsafe = "HOLD" => StepSettles)
<1>1. First(todo) \in Ports
  BY FirstType
<1>2. PICK failsafe \in FailSafeOutcomes(state.failsafe) :
          Become(HandleDmx(this, First(todo), packet, failsafe))
  BY DEF ServePort
<1> DEFINE next == HandleDmx(this, First(todo), packet, failsafe)
<1>3. /\ SamePlaces(this, next) /\ (Joined(this) => Joined(next))
      /\ failsafe = "HOLD" => Settles(this, next)
  BY <1>1, HandleDmxSettles
<1> HIDE DEF next
<1>4. /\ SamePlaces(ThisBridge, next) /\ (Joined(ThisBridge) => Joined(next))
      /\ failsafe = "HOLD" => Settles(ThisBridge, next)
  BY <1>3 DEF SamePlaces, Joined, Settles, SameOutput
<1>5. state.failsafe = "HOLD" => failsafe = "HOLD"
  BY <1>2 DEF FailSafeOutcomes
<1> QED
  BY <1>2, <1>4, <1>5, BecomeSettles, BecomeStays DEF next

\* What Run does: packets, synchronization, network data loss.
Runs ==
    \/ \E packet \in DataPacket : ReceiveData(packet)
    \/ NextPort
    \/ ReceiveOther
    \/ \E address \in Universes \cup {NoUniverse} :
          ReceiveSynchronization(address)
    \/ RunIdle

\* All of it moves no port, and settles if a loss is held.
LEMMA RunsSettle ==
    ASSUME TypeOK, Runs
    PROVE  StepStays /\ (state.failsafe = "HOLD" => StepSettles)
<1> DEFINE arrived == Arrived(ThisBridge)
           Holds == StepStays /\ (state.failsafe = "HOLD" => StepSettles)
<1>1. ThisBridge \in Bridge /\ arrived \in Bridge
  BY ThisBridgeType, ArrivedType
<1>2. /\ arrived.port = ThisBridge.port /\ arrived.light = ThisBridge.light
      /\ arrived.groups = ThisBridge.groups
  BY <1>1, ArrivedOutputs
<1>3. ASSUME NEW next, Become(next), SamePlaces(arrived, next),
             Joined(arrived) => Joined(next), Settles(arrived, next)
      PROVE  Holds
  <2> HIDE DEF arrived
  <2>1. /\ SamePlaces(ThisBridge, next) /\ Settles(ThisBridge, next)
        /\ Joined(ThisBridge) => Joined(next)
    BY <1>2, <1>3 DEF SamePlaces, Joined, Settles, SameOutput
  <2> QED
    BY <1>3, <2>1, BecomeSettles, BecomeStays
<1>4. ASSUME NEW packet \in DataPacket, ReceiveData(packet)
      PROVE  Holds
  <2>1. Subscribed(packet.universe) \subseteq Ports
    BY DEF Subscribed
  <2> QED
    BY <1>1, <1>2, <1>4, <2>1, ServePortSettles DEF ReceiveData
<1>5. CASE NextPort
  <2>1. frame \in DataPacket /\ rest \subseteq Ports /\ rest # {}
    BY <1>5 DEF NextPort, TypeOK
  <2> QED
    BY <1>1, <1>5, <2>1, ServePortSettles DEF NextPort
<1>6. CASE ReceiveOther
  <2>1. Become(arrived)
    BY <1>6 DEF ReceiveOther
  <2>2. SamePlaces(arrived, arrived) /\ Settles(arrived, arrived)
    BY DEF SamePlaces, Settles, SameOutput
  <2> HIDE DEF arrived
  <2> QED
    BY <1>3, <2>1, <2>2
<1>7. ASSUME NEW address, ReceiveSynchronization(address)
      PROVE  Holds
  <2> DEFINE next == HandleSynchronization(arrived, address)
  <2>1. Become(next)
    BY <1>7 DEF ReceiveSynchronization
  <2>2. /\ SamePlaces(arrived, next) /\ Settles(arrived, next)
        /\ Joined(arrived) => Joined(next)
    BY <1>1, HandleSynchronizationOutputs
  <2> HIDE DEF arrived, next
  <2> QED
    BY <1>3, <2>1, <2>2
<1>8. CASE RunIdle
  <2>1. PICK failsafe \in FailSafeOutcomes(state.failsafe) :
            Become(NetworkDataLoss(ThisBridge, failsafe))
    BY <1>8 DEF RunIdle
  <2> DEFINE next == NetworkDataLoss(ThisBridge, failsafe)
  <2>2. /\ SamePlaces(ThisBridge, next) /\ (Joined(ThisBridge) => Joined(next))
    BY <1>1, NetworkDataLossTotal
  <2>3. failsafe = "HOLD" => Settles(ThisBridge, next)
    BY <1>1, DataLossSettles DEF SetNetworkDataLossCondition
  <2>4. state.failsafe = "HOLD" => failsafe = "HOLD"
    BY <2>1 DEF FailSafeOutcomes
  <2> HIDE DEF next
  <2> QED
    BY <2>1, <2>2, <2>3, <2>4, BecomeSettles, BecomeStays DEF next
<1> QED
  BY <1>4, <1>5, <1>6, <1>7, <1>8 DEF Runs

\* The clock moves no port, nor changes what it shows.
LEMMA TickSettles ==
    ASSUME TypeOK, Tick
    PROVE  StepStays /\ StepSettles
<1>1. ASSUME NEW p \in Ports
      PROVE  /\ port'[p].direction = port[p].direction
             /\ port'[p].universe = port[p].universe
             /\ port'[p].IsTransmitting = port[p].IsTransmitting
             /\ port'[p].IsDataPending = port[p].IsDataPending
  <2>1. port[p] \in OutputPort
    BY DEF TypeOK
  <2>2. port'[p] = [port[p] EXCEPT !.sourceA.age = Older(@, MaxSourceAge),
                                   !.sourceB.age = Older(@, MaxSourceAge)]
    BY DEF Tick
  <2> QED
    BY <2>1, <2>2 DEF OutputPort
<1>2. light' = light /\ groups' = groups
  BY DEF Tick
<1> QED
  BY <1>1, <1>2 DEF StepStays, StepKeepsPlaces, StepSettles, OutputUniversesJoined

\* A merge mode moves no port, nor changes what it shows.
LEMMA SetMergeModeSettles ==
    ASSUME TypeOK, NEW p \in Ports, NEW mergeMode, SetMergeMode(p, mergeMode)
    PROVE  StepStays /\ StepSettles
<1>1. \A q \in Ports : /\ port'[q].direction = port[q].direction
                      /\ port'[q].universe = port[q].universe
                      /\ port'[q].IsTransmitting = port[q].IsTransmitting
                      /\ port'[q].IsDataPending = port[q].IsDataPending
  BY DEF TypeOK, SetMergeMode, OutputPort
<1>2. light' = light /\ groups' = groups
  BY DEF SetMergeMode
<1> QED
  BY <1>1, <1>2 DEF StepStays, StepKeepsPlaces, StepSettles, OutputUniversesJoined

\* Clear hands zeros to the driver and stores the same, and moves no port.
LEMMA ClearSettles ==
    ASSUME TypeOK, NEW p \in Ports, Clear(p)
    PROVE  StepStays /\ StepSettles
<1> DEFINE starts == port[p].direction = "OUTPUT" /\ ~port[p].IsTransmitting
           cleared == OutputClear(light, p)
<1>1. /\ light \in Light /\ port \in [Ports -> OutputPort]
      /\ port[p] \in OutputPort
  BY DEF TypeOK, Light
<1>2. /\ \A q \in Ports : q # p => light'[q] = light[q]
      /\ light'[p].sent = light'[p].data
  <2>1. light' = IF starts THEN Start(cleared, p) ELSE cleared
    BY DEF Clear
  <2> QED
    BY <1>1, <2>1 DEF OutputClear, Start, Light, LightPort
<1>3. port' = [port EXCEPT ![p] = [port[p] EXCEPT !.IsTransmitting = @ \/ starts]]
  BY <1>1 DEF Clear
<1>4. ASSUME NEW q \in Ports
      PROVE  /\ port'[q].direction = port[q].direction
             /\ port'[q].universe = port[q].universe
             /\ q # p => port'[q] = port[q]
  <2> HIDE DEF starts
  <2>1. CASE q = p
    BY <1>1, <1>3, <2>1 DEF OutputPort
  <2>2. CASE q # p
    BY <1>1, <1>3, <2>2
  <2> QED
    BY <2>1, <2>2
<1>5. groups' = groups
  BY DEF Clear
<1> QED
  BY <1>2, <1>4, <1>5
     DEF StepStays, StepKeepsPlaces, StepSettles, OutputUniversesJoined
=============================================================================
