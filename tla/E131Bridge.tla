----------------------------- MODULE E131Bridge -----------------------------
(***************************************************************************)
(* The sACN (E1.31) receiver: class E131Bridge of lib-e131, in the release *)
(* build (NDEBUG) with DmxSend as its LightSet and without DMX input       *)
(* (E131_HAVE_DMXIN), so that a port is an output or disabled.             *)
(*                                                                         *)
(* The bridge runs in the main loop of the firmware.  Each call of Run     *)
(* takes one datagram from the network, or none, and finishes before the   *)
(* next call, so an action is one call of Run; only the loop of HandleDmx  *)
(* over the ports is taken apart, one action for each port it serves.      *)
(*                                                                         *)
(* Methods are operators on the record "this" of the bridge's members.     *)
(* Times are kept as ages, the milliseconds since the time the code stores,*)
(* which stop growing once no comparison can tell them apart.              *)
(***************************************************************************)
EXTENDS LightSet, Integers, FiniteSets

CONSTANTS
    Universes,           \* universe numbers, also of synchronization packets
    Senders,             \* sACN sources: an IP address with a CID
    NoSender,            \* the IP address 0 of an empty source slot
    Priorities,          \* of data packets, 0 .. 200
    PacketOptions,       \* the option bits that data packets may carry
    SyncAddresses,       \* synchronization addresses of data packets
    SequenceModulus,     \* 256: sequence numbers are uint8_t
    SequenceWindow,      \* 20: how far behind a packet is out of sequence
    LossTimeout,         \* NETWORK_DATA_LOSS_TIMEOUT_SECONDS
    MergeTimeout,        \* MERGE_TIMEOUT_SECONDS
    PriorityTimeout,     \* PRIORITY_TIMEOUT_SECONDS
    FailSafes,           \* what SetFailSafe is called with
    DisableMergeTimeout, \* bDisableMergeTimeout
    DisableSynchronize   \* bDisableSynchronize

ASSUME UniversesAssumption == Universes \subseteq Nat \ {0}
ASSUME SenderAssumption == NoSender \notin Senders
ASSUME PrioritiesAssumption == Priorities \subseteq Nat
ASSUME PacketAssumption ==
    /\ PacketOptions \subseteq
          {"PREVIEW_DATA", "STREAM_TERMINATED", "FORCE_SYNCHRONIZATION"}
    /\ SyncAddresses \subseteq Universes \cup {0}
ASSUME SequenceAssumption == /\ SequenceModulus \in Nat \ {0}
                             /\ SequenceWindow \in Nat
ASSUME TimeoutAssumption == /\ LossTimeout \in Nat
                            /\ MergeTimeout \in Nat
                            /\ PriorityTimeout \in Nat
ASSUME FailSafesAssumption ==
    FailSafes \subseteq {"HOLD", "OFF", "ON", "PLAYBACK"}
ASSUME DisableAssumption == /\ DisableMergeTimeout \in BOOLEAN
                            /\ DisableSynchronize \in BOOLEAN

VARIABLES
    main,       \* where main() is: "boot", "loop", "halt" (RebootHandler)
    state,      \* m_State, with the age of the previous packet
    port,       \* m_Bridge.Port and m_OutputPort
    light,      \* lightset::Data and the LightSet
    groups,     \* universes whose multicast group the socket has joined
    frame,      \* the data packet HandleDmx is working on
    rest        \* the ports its loop has yet to serve

vars == <<main, state, port, light, groups, frame, rest>>

-----------------------------------------------------------------------------
(* Types *)

NoUniverse == 0

Byte == 0 .. 255

SequenceNumbers == 0 .. SequenceModulus - 1

\* e131::priority::LOWEST, the value of nPriority after start and data loss.
LOWEST == 1

\* A source age beyond this passes every comparison with a timeout.
MaxSourceAge == Highest(MergeTimeout, PriorityTimeout) + 1

(***************************************************************************)
(* sender is the (nIp, cid) pair: the cid is only ever compared together   *)
(* with the IP address, so that of an empty slot plays no part.            *)
(***************************************************************************)
Source == [sender : Senders \cup {NoSender}, age : 0 .. MaxSourceAge,
           sequence : SequenceNumbers]

OutputPort == [direction : {"OUTPUT", "DISABLE"},
               universe : Universes \cup {NoUniverse},
               sourceA : Source, sourceB : Source, mergeMode : MergeModes \cup {"HTP"},
               IsMerging : BOOLEAN, IsTransmitting : BOOLEAN,
               IsDataPending : BOOLEAN]

State == [nPriority : Priorities \cup {LOWEST},
          failsafe : FailSafes \cup {"HOLD"},
          status : {"OFF", "ON"}, nEnableOutputPorts : Byte,
          IsNetworkDataLoss : BOOLEAN, IsMergeMode : BOOLEAN,
          IsSynchronized : BOOLEAN, IsForcedSynchronized : BOOLEAN,
          syncAddressA : Universes \cup {NoUniverse},
          syncAddressB : Universes \cup {NoUniverse},
          syncAge : 0 .. LossTimeout, packetAge : 0 .. LossTimeout]

DataPacket == [universe : Universes, sender : Senders,
               sequence : SequenceNumbers, priority : Priorities,
               options : SUBSET PacketOptions,
               syncAddress : SyncAddresses, level : Levels]

NoPacket == [universe |-> NoUniverse]

Bridge == [state : State, port : [Ports -> OutputPort],
           light : [Ports -> LightPort], groups : SUBSET Universes]

Older(age, most) == IF age < most THEN age + 1 ELSE most

-----------------------------------------------------------------------------
(* Multicast groups *)

\* Mutant: leaves although another port outputs the universe.
LeaveUniverseAnyway(this, skipped, universe) ==
    [this EXCEPT !.groups = @ \ {universe}]

\* LeaveUniverse(nPortIndex, nUniverse): every other port keeps a universe
\* joined, whatever its direction; MAX_PORTS, here no port at all, skips none.
LeaveUniverse(this, skipped, universe) ==
    IF \E p \in Ports \ skipped : this.port[p].universe = universe
      THEN this
      ELSE [this EXCEPT !.groups = @ \ {universe}]

JoinGroup(this, universe) == [this EXCEPT !.groups = @ \cup {universe}]

SetSynchronizationAddress(this, isA, isB, address) ==
    LET old == IF isA THEN this.state.syncAddressA
                      ELSE this.state.syncAddressB
        left == IF old = NoUniverse THEN this
                                    ELSE LeaveUniverse(this, {}, old)
        set == IF isA THEN [left EXCEPT !.state.syncAddressA = address]
                      ELSE [left EXCEPT !.state.syncAddressB = address]
    IN  IF (~isA /\ ~isB) \/ old = address
          THEN this
          ELSE JoinGroup(set, address)

-----------------------------------------------------------------------------
(* Merging and priorities *)

Occupied(source) == source.sender # NoSender

EmptySlot(source) == [source EXCEPT !.sender = NoSender]

UpdateMergeStatus(this, p) ==
    [this EXCEPT !.state.IsMergeMode = TRUE, !.port[p].IsMerging = TRUE]

CheckMergeTimeouts(this, p) ==
    LET expiredA == this.port[p].sourceA.age > MergeTimeout
        expiredB == this.port[p].sourceB.age > MergeTimeout
        checked ==
            [this EXCEPT
                !.port[p].sourceA = IF expiredA THEN EmptySlot(@) ELSE @,
                !.port[p].sourceB = IF expiredB THEN EmptySlot(@) ELSE @,
                !.port[p].IsMerging = @ /\ ~expiredA /\ ~expiredB]
    IN  [checked EXCEPT !.state.IsMergeMode =
            @ /\ \E q \in Ports : checked.port[q].IsMerging]

\* Mutant: one silent source of two is enough.
IsAnyPriorityTimeOut(this, p) ==
    \E source \in {this.port[p].sourceA, this.port[p].sourceB} :
        Occupied(source) /\ source.age >= PriorityTimeout

IsPriorityTimeOut(this, p) ==
    LET A == this.port[p].sourceA
        B == this.port[p].sourceB
    IN  \/ /\ Occupied(A) /\ Occupied(B)
           /\ A.age >= PriorityTimeout /\ B.age >= PriorityTimeout
        \/ Occupied(A) /\ ~Occupied(B) /\ A.age > PriorityTimeout
        \/ ~Occupied(A) /\ Occupied(B) /\ B.age > PriorityTimeout

\* 6.9.2: the difference of two sequence numbers as a signed number.
SequenceDifference(new, last) ==
    LET d == (new - last + SequenceModulus) % SequenceModulus
    IN  IF 2 * d >= SequenceModulus THEN d - SequenceModulus ELSE d

IsOutOfSequence(packet, source) ==
    LET d == SequenceDifference(packet.sequence, source.sequence)
    IN  d <= 0 /\ d > -SequenceWindow

-----------------------------------------------------------------------------
(* Network data loss *)

\* PLAYBACK runs into __builtin_unreachable(): any case may be executed.
FailSafeOutcomes(failsafe) ==
    IF failsafe = "PLAYBACK" THEN {"HOLD", "OFF", "ON"} ELSE {failsafe}

FailSafeLight(lit, failsafe) ==
    CASE failsafe = "OFF" -> Blackout(lit)
      [] failsafe = "ON"  -> FullOn(lit)
      [] OTHER            -> lit

\* SetNetworkDataLossCondition(true, true)
NetworkDataLoss(this, failsafe) ==
    LET lost == {p \in Ports : this.port[p].IsTransmitting}
        cleared == ClearLength(this.light, lost)
    IN  [this EXCEPT
            !.state.IsNetworkDataLoss = TRUE,
            !.state.IsMergeMode = FALSE,
            !.state.IsSynchronized = FALSE,
            !.state.IsForcedSynchronized = FALSE,
            !.state.nPriority = LOWEST,
            !.port = [p \in Ports |->
                IF p \in lost
                  THEN [this.port[p] EXCEPT !.sourceA = EmptySlot(@),
                                            !.sourceB = EmptySlot(@),
                                            !.IsTransmitting = FALSE,
                                            !.IsMerging = FALSE]
                  ELSE this.port[p]],
            !.light = IF lost = {} THEN cleared
                                   ELSE FailSafeLight(cleared, failsafe)]

\* SetNetworkDataLossCondition(isA, isB) with only one of them true: that
\* slot is emptied on every transmitting port.
SourceLoss(this, isA, isB, failsafe) ==
    LET served == {p \in Ports : this.port[p].IsTransmitting}
        lost == IF this.state.IsMergeMode THEN {} ELSE served
        dropsA(p) == isA /\ Occupied(this.port[p].sourceA)
        dropsB(p) == isB /\ Occupied(this.port[p].sourceB)
        cleared == ClearLength(this.light, lost)
    IN  [this EXCEPT
            !.port = [p \in Ports |->
                IF p \in served
                  THEN [this.port[p] EXCEPT
                            !.sourceA = IF dropsA(p) THEN EmptySlot(@) ELSE @,
                            !.sourceB = IF dropsB(p) THEN EmptySlot(@) ELSE @,
                            !.IsMerging = @ /\ ~dropsA(p) /\ ~dropsB(p),
                            !.IsTransmitting = @ /\ p \notin lost]
                  ELSE this.port[p]],
            !.light = IF lost = {} THEN cleared
                                   ELSE FailSafeLight(cleared, failsafe)]

SetNetworkDataLossCondition(this, isA, isB, failsafe) ==
    IF isA /\ isB THEN NetworkDataLoss(this, failsafe)
                  ELSE SourceLoss(this, isA, isB, failsafe)

-----------------------------------------------------------------------------
(* HandleDmx, for one port *)

\* Mutant: a source that was silent for long is taken for a new one.
IsFreshSource(source, packet) ==
    source.sender = packet.sender /\ source.age <= MergeTimeout

IsSource(source, packet) == source.sender = packet.sender

Sequenced(source, packet) == [source EXCEPT !.sequence = packet.sequence]

\* A sequence number is stored also when the packet is then discarded.
StoreSequence(this, p, packet) ==
    LET isA == IsSource(this.port[p].sourceA, packet)
        isB == IsSource(this.port[p].sourceB, packet)
    IN  [this EXCEPT
            !.port[p].sourceA = IF isA THEN Sequenced(@, packet) ELSE @,
            !.port[p].sourceB = IF isB /\ ~isA THEN Sequenced(@, packet) ELSE @]

IsDiscarded(this, p, packet) ==
    LET A == this.port[p].sourceA
        B == this.port[p].sourceB
    IN  IF IsSource(A, packet) THEN IsOutOfSequence(packet, A)
        ELSE IsSource(B, packet) /\ IsOutOfSequence(packet, B)

\* The priority rule; a higher priority empties both slots of this port.
AdoptPriority(this, p, packet) ==
    IF packet.priority > this.state.nPriority
      THEN [this EXCEPT !.state.nPriority = packet.priority,
                        !.state.IsMergeMode = FALSE,
                        !.port[p].sourceA = EmptySlot(@),
                        !.port[p].sourceB = EmptySlot(@)]
      ELSE [this EXCEPT !.state.nPriority = packet.priority]

\* What a slot holds after a packet that continues it, or that fills it.
Continued(source, packet) ==
    [source EXCEPT !.age = 0, !.sequence = packet.sequence]

Filled(packet) ==
    [sender |-> packet.sender, age |-> 0, sequence |-> packet.sequence]

\* Cases 1, 2, 5 and 6: the packet is from source A, or of a new source and
\* slot A is free.
GoesToA(A, B, packet) ==
    \/ IsSource(A, packet) /\ ~IsSource(B, packet)
    \/ ~Occupied(A) /\ ~IsSource(B, packet)

\* Cases 3, 4 and 7.
GoesToB(A, B, packet) ==
    \/ IsSource(B, packet) /\ ~IsSource(A, packet)
    \/ Occupied(A) /\ ~IsSource(A, packet) /\ ~Occupied(B)

(***************************************************************************)
(* The slots are judged as they were when the packet was matched against   *)
(* them ("was"), before the merge timeouts and a higher priority may have  *)
(* emptied them ("this"): a source that continues does not refill its slot *)
(* and is merged with data that was just given up.  In the release build a *)
(* packet of a third source matches no case and the data stays as it is.   *)
(***************************************************************************)
Merge(this, was, p, packet) ==
    LET A == was.port[p].sourceA
        B == was.port[p].sourceB
        toA == GoesToA(A, B, packet)
        toB == GoesToB(A, B, packet)
        isMerge == (toA /\ Occupied(B)) \/ (toB /\ Occupied(A))
        mode == IF isMerge THEN this.port[p].mergeMode ELSE "LTP"
        taken(source) == IF IsSource(A, packet) \/ IsSource(B, packet)
                           THEN Continued(source, packet) ELSE Filled(packet)
        stored == [this EXCEPT
            !.port[p].sourceA = IF toA THEN taken(@) ELSE @,
            !.port[p].sourceB = IF toB THEN taken(@) ELSE @,
            !.light = CASE toA -> MergeSourceA(@, p, packet.level, mode)
                        [] toB -> MergeSourceB(@, p, packet.level, mode)
                        [] OTHER -> @]
    IN  IF isMerge THEN UpdateMergeStatus(stored, p) ELSE stored

\* Mutant: a synchronization address of 0 is joined like any other.
SynchronizeOnZero(this, was, p, packet) ==
    JoinGroup(this, packet.syncAddress)

\* The FORCE_SYNCHRONIZATION option and the synchronization address.
Synchronize(this, was, p, packet) ==
    LET isA == IsSource(was.port[p].sourceA, packet)
        isB == IsSource(was.port[p].sourceB, packet)
        known == isA \/ isB
        addressed ==
            SetSynchronizationAddress(this,
                IF known THEN isA ELSE Occupied(this.port[p].sourceA),
                IF known THEN isB ELSE Occupied(this.port[p].sourceB),
                packet.syncAddress)
    IN  CASE "FORCE_SYNCHRONIZATION" \in packet.options ->
               [this EXCEPT !.state.IsForcedSynchronized = FALSE]
          [] /\ "FORCE_SYNCHRONIZATION" \notin packet.options
             /\ packet.syncAddress # NoUniverse
             /\ ~this.state.IsForcedSynchronized ->
               [addressed EXCEPT !.state.IsForcedSynchronized = TRUE,
                                 !.state.IsSynchronized = TRUE]
          [] OTHER -> this

\* Mutant: data is held back without being marked as pending.
UpdateNeverPending(this, p) ==
    IF ~this.state.IsSynchronized \/ DisableSynchronize
      THEN [this EXCEPT !.light = Start(Output(this.light, p), p),
                        !.port[p].IsTransmitting = TRUE]
      ELSE this

\* Mutant: a port that transmits already is not held back.
UpdateIfTransmitting(this, p) ==
    IF ~this.state.IsSynchronized \/ this.port[p].IsTransmitting
      THEN [this EXCEPT !.light = Start(Output(this.light, p), p),
                        !.port[p].IsTransmitting = TRUE]
      ELSE [this EXCEPT !.port[p].IsDataPending = TRUE]

\* Lights the port, or holds the data back for a synchronization packet.
Update(this, p) ==
    IF ~this.state.IsSynchronized \/ DisableSynchronize
      THEN [this EXCEPT
              !.light = IF this.port[p].IsTransmitting
                          THEN Output(this.light, p)
                          ELSE Start(Output(this.light, p), p),
              !.port[p].IsTransmitting = TRUE]
      ELSE [this EXCEPT !.port[p].IsDataPending = TRUE]

HandleDmx(was, p, packet, failsafe) ==
    LET isA == IsSource(was.port[p].sourceA, packet)
        isB == IsSource(was.port[p].sourceB, packet)
        stored == StoreSequence(was, p, packet)
        checked == IF was.state.IsMergeMode /\ ~DisableMergeTimeout
                     THEN CheckMergeTimeouts(stored, p) ELSE stored
        merged == Merge(AdoptPriority(checked, p, packet), was, p, packet)
    IN  CASE \/ IsDiscarded(was, p, packet)
             \/ "PREVIEW_DATA" \in packet.options -> stored
          [] /\ ~IsDiscarded(was, p, packet)
             /\ "PREVIEW_DATA" \notin packet.options
             /\ "STREAM_TERMINATED" \in packet.options ->
               IF isA \/ isB
                 THEN SetNetworkDataLossCondition(stored, isA, isB, failsafe)
                 ELSE stored
          [] OTHER ->
               IF /\ packet.priority < was.state.nPriority
                  /\ ~IsPriorityTimeOut(checked, p)
                 THEN checked
                 ELSE Update(Synchronize(merged, was, p, packet), p)

-----------------------------------------------------------------------------
(* Process and Run *)

\* What Process does before it looks at the packet.
Arrived(this) ==
    LET late == /\ this.state.IsSynchronized
                /\ ~this.state.IsForcedSynchronized
                /\ this.state.syncAge >= LossTimeout
    IN  [this EXCEPT !.state.IsNetworkDataLoss = FALSE,
                     !.state.packetAge = 0,
                     !.state.IsSynchronized = @ /\ ~late]

\* HandleSynchronization
HandleSynchronization(this, address) ==
    LET pending == {p \in Ports : this.port[p].IsDataPending}
    IN  IF address \notin {this.state.syncAddressA, this.state.syncAddressB}
          THEN this
          ELSE [this EXCEPT
                  !.state.syncAge = 0,
                  !.light = Sync(@, pending),
                  !.port = [p \in Ports |->
                      [this.port[p] EXCEPT
                          !.IsDataPending = FALSE,
                          !.IsTransmitting = @ \/ p \in pending]]]

ThisBridge == [state |-> state, port |-> port, light |-> light,
               groups |-> groups]

Become(this) == /\ state' = this.state
                /\ port' = this.port
                /\ light' = this.light
                /\ groups' = this.groups

IsRunning == main = "loop" /\ rest = {}

\* The output ports of a universe, which HandleDmx serves in ascending order.
Subscribed(universe) == {p \in Ports : /\ port[p].direction = "OUTPUT"
                                       /\ port[p].universe = universe}

First(S) == CHOOSE p \in S : \A q \in S : p <= q

\* The loop of HandleDmx serves the first of the ports in todo.
ServePort(this, packet, todo) ==
    /\ \E failsafe \in FailSafeOutcomes(state.failsafe) :
          Become(HandleDmx(this, First(todo), packet, failsafe))
    /\ rest' = todo \ {First(todo)}
    /\ frame' = IF rest' = {} THEN NoPacket ELSE packet
    /\ UNCHANGED main

\* Run takes a data packet for a universe that some port outputs.
ReceiveData(packet) ==
    /\ IsRunning
    /\ Subscribed(packet.universe) # {}
    /\ ServePort(Arrived(ThisBridge), packet, Subscribed(packet.universe))

NextPort ==
    /\ main = "loop" /\ rest # {}
    /\ ServePort(ThisBridge, frame, rest)

\* Run takes a packet that only shows the network is alive: data for another
\* universe or that is no valid DMP message, or an extended packet that is
\* not a synchronization packet.
ReceiveOther ==
    /\ IsRunning
    /\ Become(Arrived(ThisBridge))
    /\ UNCHANGED <<main, frame, rest>>

ReceiveSynchronization(address) ==
    /\ IsRunning
    /\ Become(HandleSynchronization(Arrived(ThisBridge), address))
    /\ UNCHANGED <<main, frame, rest>>

\* Run finds no packet and the last one is too long ago.
RunIdle ==
    /\ IsRunning
    /\ state.nEnableOutputPorts # 0
    /\ state.packetAge >= LossTimeout
    /\ ~state.IsNetworkDataLoss
    /\ \E failsafe \in FailSafeOutcomes(state.failsafe) :
          Become(NetworkDataLoss(ThisBridge, failsafe))
    /\ UNCHANGED <<main, frame, rest>>

Tick ==
    /\ IsRunning
    /\ state' = [state EXCEPT !.packetAge = Older(@, LossTimeout),
                              !.syncAge = Older(@, LossTimeout)]
    /\ port' = [p \in Ports |->
                  [port[p] EXCEPT
                      !.sourceA.age = Older(@, MaxSourceAge),
                      !.sourceB.age = Older(@, MaxSourceAge)]]
    /\ UNCHANGED <<main, light, groups, frame, rest>>

-----------------------------------------------------------------------------
(* The node's configuration: parameters read at boot, and what an Art-Net    *)
(* controller changes while the bridge runs.                                 *)

IsConfigurable == main = "boot" \/ IsRunning

\* The counter is a uint8_t.
CountOutputs(delta) ==
    state' = [state EXCEPT !.nEnableOutputPorts = (@ + delta) % 256]

SetUniverseDisable(p) ==
    /\ port[p].direction = "OUTPUT"
    /\ CountOutputs(-1)
    /\ groups' = LeaveUniverse(ThisBridge, {p}, port[p].universe).groups
    /\ port' = [port EXCEPT ![p].direction = "DISABLE"]

SetUniverseOutput(p, universe) ==
    LET isOutput == port[p].direction = "OUTPUT"
        left == IF isOutput
                  THEN LeaveUniverse(ThisBridge, {p}, port[p].universe)
                  ELSE ThisBridge
    IN  /\ ~(isOutput /\ port[p].universe = universe)
        /\ CountOutputs(IF isOutput THEN 0 ELSE 1)
        /\ groups' = JoinGroup(left, universe).groups
        /\ port' = [port EXCEPT ![p].direction = "OUTPUT",
                                ![p].universe = universe]

\* SetUniverse; a port that is disabled already, or that outputs the universe
\* already, is left as it is.
SetUniverse(p, universe) ==
    /\ IsConfigurable
    /\ SetUniverseDisable(p) \/ SetUniverseOutput(p, universe)
    /\ UNCHANGED <<main, light, frame, rest>>

SetMergeMode(p, mergeMode) ==
    /\ IsConfigurable
    /\ port' = [port EXCEPT ![p].mergeMode = mergeMode]
    /\ UNCHANGED <<main, state, light, groups, frame, rest>>

SetFailSafe(failsafe) ==
    /\ IsConfigurable
    /\ state' = [state EXCEPT !.failsafe = failsafe]
    /\ UNCHANGED <<main, port, light, groups, frame, rest>>

\* Mutant: the timeout is not forced, so a lost network stays lost.
ClearUntimed(p) ==
    /\ IsRunning
    /\ light' = Start(OutputClear(light, p), p)
    /\ port' = [port EXCEPT ![p].IsTransmitting =
                              @ \/ port[p].direction = "OUTPUT"]
    /\ UNCHANGED <<main, state, groups, frame, rest>>

Clear(p) ==
    LET starts == port[p].direction = "OUTPUT" /\ ~port[p].IsTransmitting
        cleared == OutputClear(light, p)
    IN  /\ IsRunning
        /\ light' = IF starts THEN Start(cleared, p) ELSE cleared
        /\ port' = [port EXCEPT ![p].IsTransmitting = @ \/ starts]
        /\ state' = [state EXCEPT !.IsNetworkDataLoss = FALSE]
        /\ UNCHANGED <<main, groups, frame, rest>>

-----------------------------------------------------------------------------
(* Start, Stop and the reboot that follows it *)

StartBridge ==
    /\ main = "boot"
    /\ main' = "loop"
    /\ state' = [state EXCEPT !.status = "ON"]
    /\ UNCHANGED <<port, light, groups, frame, rest>>

\* RebootHandler and the Stop it calls, which leaves IsTransmitting set: only
\* a reboot follows.
StopBridge ==
    /\ IsRunning
    /\ main' = "halt"
    /\ state' = [state EXCEPT !.IsNetworkDataLoss = TRUE, !.status = "OFF"]
    /\ light' = ClearLength(Stop(Blackout(light), Ports), Ports)
    /\ UNCHANGED <<port, groups, frame, rest>>

NoSource == [sender |-> NoSender, age |-> 0, sequence |-> 0]

PortAtBoot == [direction |-> "DISABLE", universe |-> NoUniverse,
               sourceA |-> NoSource, sourceB |-> NoSource, mergeMode |-> "HTP",
               IsMerging |-> FALSE, IsTransmitting |-> FALSE,
               IsDataPending |-> FALSE]

StateAtBoot == [nPriority |-> LOWEST, failsafe |-> "HOLD", status |-> "OFF",
                nEnableOutputPorts |-> 0, IsNetworkDataLoss |-> FALSE,
                IsMergeMode |-> FALSE, IsSynchronized |-> FALSE,
                IsForcedSynchronized |-> FALSE, syncAddressA |-> NoUniverse,
                syncAddressB |-> NoUniverse, syncAge |-> 0, packetAge |-> 0]

\* The constructor
Init == /\ main = "boot"
        /\ state = StateAtBoot
        /\ port = [p \in Ports |-> PortAtBoot]
        /\ light = LightAtBoot
        /\ groups = {}
        /\ frame = NoPacket
        /\ rest = {}

Reboot == /\ main = "halt"
          /\ main' = "boot"
          /\ state' = StateAtBoot
          /\ port' = [p \in Ports |-> PortAtBoot]
          /\ light' = LightAtBoot
          /\ groups' = {}
          /\ UNCHANGED <<frame, rest>>

-----------------------------------------------------------------------------
Next ==
    \/ \E packet \in DataPacket : ReceiveData(packet)
    \/ NextPort
    \/ ReceiveOther
    \/ \E address \in Universes \cup {NoUniverse} :
          ReceiveSynchronization(address)
    \/ RunIdle
    \/ Tick
    \/ \E p \in Ports, universe \in Universes : SetUniverse(p, universe)
    \/ \E p \in Ports, mergeMode \in MergeModes : SetMergeMode(p, mergeMode)
    \/ \E failsafe \in FailSafes : SetFailSafe(failsafe)
    \/ \E p \in Ports : Clear(p)
    \/ StartBridge
    \/ StopBridge
    \/ Reboot

(***************************************************************************)
(* main() calls Run without end and never blocks in it, and time passes:   *)
(* the loop over the ports goes on, and so does the clock; an idle call    *)
(* that could enter data loss is made in the end.  No packet need come.    *)
(***************************************************************************)
Fairness == /\ WF_vars(NextPort)
            /\ WF_vars(Tick)
            /\ WF_vars(RunIdle)

Spec == Init /\ [][Next]_vars /\ Fairness

-----------------------------------------------------------------------------
(* Properties *)

\* The variables hold values of their types, and HandleDmx is either idle or
\* at work on a data packet.
TypeOK == /\ main \in {"boot", "loop", "halt"}
          /\ state \in State
          /\ port \in [Ports -> OutputPort]
          /\ light \in [Ports -> LightPort]
          /\ groups \subseteq Universes
          /\ rest \subseteq Ports
          /\ frame \in DataPacket \/ (frame = NoPacket /\ rest = {})

\* A port that the bridge takes for transmitting has been started in the
\* LightSet: Start is called wherever IsTransmitting becomes true, in HandleDmx
\* and Clear directly, after a synchronization packet by DmxSend::Sync.
TransmitImpliesStarted ==
    main # "halt" =>
        \A p \in Ports : port[p].IsTransmitting => light[p].started

\* Data that waits for synchronization and data of a source that holds a slot
\* is still in the merge buffer, or its port has been started: data loss takes
\* the length away only from ports that transmit, and so have been started.
DataIsKept ==
    main # "halt" => \A p \in Ports :
        \/ port[p].IsDataPending
        \/ Occupied(port[p].sourceA) \/ Occupied(port[p].sourceB)
        => light[p].filled \/ light[p].started

\* No source holds both slots of a port, so HandleDmx's warning "8. Source
\* matches both ip" is never due.
DistinctSources ==
    \A p \in Ports : /\ port[p].sourceA.sender = port[p].sourceB.sender
                     => ~Occupied(port[p].sourceA)

\* While the network is lost no port transmits, and priority, merge mode and
\* synchronization of the node are as they were at boot.  Of what was received
\* only data held back for a synchronization packet is left in the merge
\* buffers, on whichever ports the loss passed over: whoever comes next meets
\* no other level of an old stream.
LossEndsOutput ==
    main = "loop" /\ state.IsNetworkDataLoss =>
        /\ \A p \in Ports :
              /\ ~port[p].IsTransmitting
              /\ light[p].filled /\ light[p].data # 0 => port[p].IsDataPending
        /\ ~state.IsMergeMode /\ state.nPriority = LOWEST
        /\ ~state.IsSynchronized /\ ~state.IsForcedSynchronized

\* The multicast group of every universe that is output stays joined, however
\* ports and synchronization addresses that share a universe come and go.
OutputUniversesJoined ==
    \A p \in Ports :
        port[p].direction = "OUTPUT" => port[p].universe \in groups

\* The driver shows the merged data of a transmitting port, unless the data
\* waits for a synchronization packet.
OutputIsCurrent ==
    main = "loop" => \A p \in Ports :
        /\ port[p].IsTransmitting /\ light[p].filled
        /\ light[p].sent # light[p].data
        => port[p].IsDataPending

\* The priority a node listens to falls only with the loss of the network, or
\* when on one port every source that holds a slot has been silent for a timeout.
\* The other ports have no say, although the priority is theirs too.
Silent(source) == source.age >= PriorityTimeout \/ source.age > MergeTimeout

PriorityIsHeld ==
    [][ /\ state'.nPriority < state.nPriority
        /\ ~state'.IsNetworkDataLoss
        /\ main' = "loop"
        => \E p \in Ports :
             /\ Occupied(port[p].sourceA) \/ Occupied(port[p].sourceB)
             /\ Occupied(port[p].sourceA) => Silent(port[p].sourceA)
             /\ Occupied(port[p].sourceB) => Silent(port[p].sourceB)
      ]_vars

\* While the bridge is synchronized, data changes the outputs only all at
\* once: no port that waits is left behind.  Clear, an Art-Net command, and the
\* failsafe of ports that stop transmitting are not held back.
SynchronizedTogether ==
    [][ /\ state.IsSynchronized /\ state'.IsSynchronized
        /\ ~DisableSynchronize /\ main' = "loop"
        /\ \E p \in Ports : /\ light'[p].sent # light[p].sent
                            /\ port'[p].IsTransmitting
        /\ \A p \in Ports : ~Clear(p)
        => \A p \in Ports : ~port'[p].IsDataPending
      ]_vars

\* Without packets for NETWORK_DATA_LOSS_TIMEOUT_SECONDS every port stops
\* transmitting in the end.
SilenceLeadsToLoss ==
    /\ main = "loop" /\ state.packetAge = LossTimeout
    ~> \/ main # "loop" \/ state.packetAge = 0
       \/ state.nEnableOutputPorts = 0
       \/ \A p \in Ports : ~port[p].IsTransmitting

-----------------------------------------------------------------------------
(* What assertions and comments of the code say, or a reader may expect, and  *)
(* the code does not do                                                       *)

\* More than LossEndsOutput: the loss also frees every slot and ends every
\* merge.  It does so only on ports that transmit, and a stream that ended on
\* one port of several, or data that waits, leaves slots on ports that do not.
LossForgetsSources ==
    main = "loop" /\ state.IsNetworkDataLoss =>
        \A p \in Ports : /\ ~Occupied(port[p].sourceA)
                         /\ ~Occupied(port[p].sourceB)
                         /\ ~port[p].IsMerging

\* assert(nLength != 0) of DmxSend::SetData and the same assertion of
\* DmxSend::Sync: the driver is never handed a frame without slots.
FramesHaveSlots ==
    [][ \A p \in Ports : /\ light'[p].sent # light[p].sent
                         /\ main' = "loop"
                         => light'[p].sent # NoSlots
      ]_vars

\* The comment on STREAM_TERMINATED in HandleDmx: the receiver shall enter the
\* network data loss condition.  Here for the last source there is: nothing is
\* received from anybody else on any port.
TerminationEntersLoss ==
    [][ \A packet \in DataPacket, p \in Ports :
          /\ ReceiveData(packet)
          /\ "STREAM_TERMINATED" \in packet.options
          /\ "PREVIEW_DATA" \notin packet.options
          /\ p \in Subscribed(packet.universe)
          /\ IsSource(port[p].sourceA, packet)
          /\ ~IsDiscarded(ThisBridge, p, packet)
          /\ \A q \in Ports : /\ ~Occupied(port[q].sourceB)
                              /\ q # p => ~Occupied(port[q].sourceA)
          => state'.IsNetworkDataLoss
      ]_vars

\* artnet.h on the bit of GoodOutput that reports IsMerging: "output is merging
\* data", so a port has the data of two sources.
MergingHasTwoSources ==
    \A p \in Ports : port[p].IsMerging => /\ Occupied(port[p].sourceA)
                                          /\ Occupied(port[p].sourceB)
=============================================================================
