----------------------------- MODULE ArtNetNode -----------------------------
(***************************************************************************)
(* The Art-Net 4 node: class ArtNetNode of lib-artnet, in the release      *)
(* build with DmxSend as its LightSet and the failsafe scene in flash      *)
(* (ARTNET_HAVE_FAILSAFE_RECORD) and two output styles                     *)
(* (OUTPUT_HAVE_STYLESWITCH), without DMX input and RDM, so that a port is *)
(* an output or disabled.                                                  *)
(*                                                                         *)
(* As in module E131Bridge an action is one call of Run, but for the loop  *)
(* of HandleDmx, which is taken apart port by port.  The sACN bridge that  *)
(* ArtNetNode extends is not part of this module: a port switched to sACN  *)
(* is left alone here, except where the code of ArtNetNode reaches it.     *)
(* Times are kept as ages that stop growing above the largest timeout.     *)
(***************************************************************************)
EXTENDS LightSet, Integers, FiniteSets

CONSTANTS
    PortAddresses,      \* 15 bit Port-Addresses, of ports and of packets
    Controllers,        \* IP addresses that packets come from
    NoController,       \* the IP address 0 of an empty source slot
    Physicals,          \* physical input ports that ArtDmx packets name
    NoPhysical,         \* 0x100, no such port: nPhysical after start
    LossTimeout,        \* NETWORK_DATA_LOSS_TIMEOUT
    MergeTimeout,       \* MERGE_TIMEOUT_SECONDS
    SyncTimeout,        \* 4 seconds
    FailSafes,          \* what SetFailSafe is called with, beside RECORD
    Protocols,          \* the protocols that ports are set to
    DisableMergeTimeout \* bDisableMergeTimeout

ASSUME AddressAssumption == PortAddresses \subseteq Nat
ASSUME ControllerAssumption == NoController \notin Controllers
ASSUME PhysicalAssumption == NoPhysical \notin Physicals
ASSUME TimeoutAssumption == /\ LossTimeout \in Nat
                            /\ MergeTimeout \in Nat
                            /\ SyncTimeout \in Nat
ASSUME FailSafesAssumption ==
    FailSafes \subseteq {"LAST", "OFF", "ON", "PLAYBACK"}
ASSUME ProtocolsAssumption == Protocols \subseteq {"ARTNET", "SACN"}
ASSUME DisableAssumption == DisableMergeTimeout \in BOOLEAN

VARIABLES
    main,   \* where main() is: "boot", "loop", "halt" (RebootHandler)
    node,   \* m_State, with the age of the previous packet and Status3
    out,    \* m_Node.Port and m_OutputPort
    light,  \* lightset::Data and the LightSet
    scene,  \* the failsafe scene in flash
    frame,  \* the ArtDmx packet HandleDmx is working on
    rest    \* the ports its loop has yet to serve

vars == <<main, node, out, light, scene, frame, rest>>

-----------------------------------------------------------------------------
(* Types *)

\* nMillis is an age, nPhysical outlives the source: only nIp is reset.
Source == [ip : Controllers \cup {NoController}, age : 0 .. MergeTimeout + 1,
           physical : Physicals \cup {NoPhysical}]

OutputPort == [direction : {"OUTPUT", "DISABLE"},
               protocol : Protocols \cup {"ARTNET"},
               address : PortAddresses \cup {0},
               sourceA : Source, sourceB : Source, mergeMode : MergeModes \cup {"HTP"},
               IsMerging : BOOLEAN, IsTransmitting : BOOLEAN,
               IsDataPending : BOOLEAN]

State == [IsSynchronousMode : BOOLEAN, IsMergeMode : BOOLEAN,
          dmxFrom : Controllers \cup {NoController},
          syncAge : 0 .. SyncTimeout, packetAge : 0 .. LossTimeout,
          failsafe : FailSafes \cup {"LAST"}]

ArtDmx == [from : Controllers, physical : Physicals,
           address : PortAddresses, level : Levels]

NoPacket == [from |-> NoController]

Older(age, most) == IF age < most THEN age + 1 ELSE most

-----------------------------------------------------------------------------
(* Merging *)

Occupied(source) == source.ip # NoController

EmptySlot(source) == [source EXCEPT !.ip = NoController]

EmptySlots(this) ==
    [this EXCEPT !.out = [p \in Ports |->
        [this.out[p] EXCEPT !.sourceA = EmptySlot(@),
                            !.sourceB = EmptySlot(@)]]]

UpdateMergeStatus(this, p) ==
    [this EXCEPT !.node.IsMergeMode = TRUE, !.out[p].IsMerging = TRUE]

\* Mutant: source B never expires.
CheckMergeTimeoutOfA(this, p) ==
    IF this.out[p].sourceA.age > MergeTimeout
      THEN [this EXCEPT !.out[p].sourceA = EmptySlot(@),
                        !.out[p].IsMerging = FALSE,
                        !.node.IsMergeMode = FALSE]
      ELSE this

CheckMergeTimeouts(this, p) ==
    LET expiredA == this.out[p].sourceA.age > MergeTimeout
        expiredB == this.out[p].sourceB.age > MergeTimeout
        checked ==
            [this EXCEPT
                !.out[p].sourceA = IF expiredA THEN EmptySlot(@) ELSE @,
                !.out[p].sourceB = IF expiredB THEN EmptySlot(@) ELSE @,
                !.out[p].IsMerging = @ /\ ~expiredA /\ ~expiredB]
    IN  [checked EXCEPT !.node.IsMergeMode =
            @ /\ \E q \in Ports : checked.out[q].IsMerging]

Matches(source, packet) == /\ source.ip = packet.from
                           /\ source.physical = packet.physical

\* Mutant: a free slot A is filled before slot B is looked at.
GoesToFreeA(A, B, packet) ==
    \/ Matches(A, packet)
    \/ ~Occupied(A) /\ (B.ip = packet.from => A.physical # packet.physical)

\* Cases 1, 2, 3, 6 and 8: source A continues, or a new source finds slot A
\* free.  The latter is refused if its controller holds slot B and the slot
\* was last used for the same physical port.
GoesToA(A, B, packet) ==
    \/ Matches(A, packet)
    \/ /\ ~Occupied(A) /\ ~Matches(B, packet)
       /\ B.ip = packet.from => A.physical # packet.physical

\* Cases 2, 3, 4, 7 and 8.
GoesToB(A, B, packet) ==
    \/ Matches(B, packet) /\ ~Matches(A, packet)
    \/ /\ Occupied(A) /\ ~Occupied(B) /\ ~Matches(A, packet)
       /\ A.ip = packet.from => B.physical # packet.physical

IsDiscarded(this, p, packet) ==
    LET A == this.out[p].sourceA
        B == this.out[p].sourceB
    IN  ~GoesToA(A, B, packet) /\ ~GoesToB(A, B, packet)

Filled(packet) ==
    [ip |-> packet.from, age |-> 0, physical |-> packet.physical]

Merge(this, p, packet) ==
    LET A == this.out[p].sourceA
        B == this.out[p].sourceB
        toA == GoesToA(A, B, packet)
        toB == GoesToB(A, B, packet)
        isMerge == (toA /\ Occupied(B)) \/ (toB /\ Occupied(A))
        mode == IF isMerge THEN this.out[p].mergeMode ELSE "LTP"
        stored == [this EXCEPT
            !.out[p].sourceA = IF toA THEN Filled(packet) ELSE @,
            !.out[p].sourceB = IF toB THEN Filled(packet) ELSE @,
            !.light = CASE toA -> MergeSourceA(@, p, packet.level, mode)
                        [] toB -> MergeSourceB(@, p, packet.level, mode)
                        [] OTHER -> @]
    IN  IF isMerge THEN UpdateMergeStatus(stored, p) ELSE stored

\* Mutant: data is held back without being marked as pending.
UpdateNeverPending(this, p) ==
    IF this.node.IsSynchronousMode
      THEN this
      ELSE [this EXCEPT !.light = Start(Output(this.light, p), p),
                        !.out[p].IsTransmitting = TRUE]

\* Lights the port, or holds the data back for an ArtSync.
Update(this, p) ==
    IF this.node.IsSynchronousMode /\ ~this.out[p].IsMerging
      THEN [this EXCEPT !.out[p].IsDataPending = TRUE]
      ELSE [this EXCEPT
              !.light = IF this.out[p].IsTransmitting
                          THEN Output(this.light, p)
                          ELSE Start(Output(this.light, p), p),
              !.out[p].IsTransmitting = TRUE]

\* The slots as HandleDmx sees them.
Checked(this, p) == IF this.node.IsMergeMode /\ ~DisableMergeTimeout
                      THEN CheckMergeTimeouts(this, p) ELSE this

\* HandleDmx, for one port
HandleDmx(this, p, packet) ==
    IF IsDiscarded(Checked(this, p), p, packet)
      THEN Checked(this, p)
      ELSE Update(Merge(Checked(this, p), p, packet), p)

-----------------------------------------------------------------------------
(* Network data loss and the failsafe scene *)

Outputs(this) == {p \in Ports : this.out[p].direction = "OUTPUT"}

\* The scene is written over the data of every output, whichever protocol the
\* port has, and its length stays what it was.
FailSafePlayback(this) ==
    LET restored == [p \in Ports |->
            [this.light[p] EXCEPT !.data = IF p \in Outputs(this)
                                             THEN this.scene[p] ELSE @]]
        played == [p \in Ports |->
            IF p \in Outputs(this)
              THEN [restored[p] EXCEPT
                      !.sent = Frame(restored, p),
                      !.started = @ \/ ~this.out[p].IsTransmitting]
              ELSE restored[p]]
    IN  [this EXCEPT
            !.light = ClearLength(played, Outputs(this)),
            !.out = [p \in Ports |->
                [this.out[p] EXCEPT
                    !.IsTransmitting = @ \/ p \in Outputs(this)]]]

\* Mutant: the scene is what the driver was last handed.
FailSafeRecordSent(this) ==
    [this EXCEPT !.scene = [p \in Ports |->
        IF p \in Outputs(this) THEN this.light[p].sent ELSE MaxLevel]]

\* The flash sector is erased first: ports that are no outputs lose their scene.
FailSafeRecord(this) ==
    [this EXCEPT !.scene = [p \in Ports |->
        IF p \in Outputs(this) THEN this.light[p].data ELSE MaxLevel]]

FailSafe(this) ==
    CASE this.node.failsafe = "OFF" -> [this EXCEPT !.light = Blackout(@)]
      [] this.node.failsafe = "ON"  -> [this EXCEPT !.light = FullOn(@)]
      [] this.node.failsafe = "PLAYBACK" -> FailSafePlayback(this)
      [] OTHER -> this

\* Mutant: the search ends with the first port.
HasSourceOnFirst(this) ==
    \E p \in Ports : /\ \A q \in Ports : p <= q
                     /\ \/ Occupied(this.out[p].sourceA)
                        \/ Occupied(this.out[p].sourceB)

\* The code adds the IP addresses of the slots up: two of one subnet never
\* add up to 0.
HasSource(this) == \E p \in Ports : \/ Occupied(this.out[p].sourceA)
                                    \/ Occupied(this.out[p].sourceB)

SetNetworkDataLossCondition(this) ==
    LET reset == [this EXCEPT !.node.IsMergeMode = FALSE,
                              !.node.IsSynchronousMode = FALSE]
    IN  IF HasSource(this)
          THEN [EmptySlots(FailSafe(reset)) EXCEPT
                   !.light = ClearLength(@, Ports)]
          ELSE reset

-----------------------------------------------------------------------------
(* ArtSync, ArtAddress and the reply to ArtPoll *)

\* Mutant: the loop ends with the first port that waits.
HandleSyncOfFirst(this) ==
    LET pending == {p \in Ports : this.out[p].IsDataPending}
        first == {p \in pending : \A q \in pending : p <= q}
    IN  IF ~this.node.IsSynchronousMode
          THEN [this EXCEPT !.node.IsSynchronousMode = TRUE,
                            !.node.syncAge = 0]
          ELSE [this EXCEPT
                  !.node.syncAge = 0,
                  !.light = Sync(@, first),
                  !.out = [p \in Ports |->
                      [this.out[p] EXCEPT
                          !.IsDataPending = @ /\ p \notin first,
                          !.IsTransmitting = @ \/ p \in first]]]

\* The first ArtSync only enters synchronous mode.
HandleSync(this) ==
    LET pending == {p \in Ports : this.out[p].IsDataPending}
    IN  IF ~this.node.IsSynchronousMode
          THEN [this EXCEPT !.node.IsSynchronousMode = TRUE,
                            !.node.syncAge = 0]
          ELSE [this EXCEPT
                  !.node.syncAge = 0,
                  !.light = Sync(@, pending),
                  !.out = [p \in Ports |->
                      [this.out[p] EXCEPT
                          !.IsDataPending = FALSE,
                          !.IsTransmitting = @ \/ p \in pending]]]

CancelMerge(this) ==
    [EmptySlots(this) EXCEPT
        !.node.IsMergeMode = FALSE,
        !.out = [p \in Ports |-> [@[p] EXCEPT !.IsMerging = FALSE]]]

\* SetUniverseSwitch, SetSubnetSwitch and SetNetSwitch on an output
SetPortAddress(this, p, address) ==
    IF this.out[p].direction = "OUTPUT"
      THEN [this EXCEPT !.out[p].address = address] ELSE this

Commands == {"NONE", "CANCEL", "RECORD", "CLR", "STYLE"}
              \cup FailSafes \cup MergeModes \cup Protocols

\* The commands of ArtAddress, named by what they set.  CLR of a port under
\* sACN is a call of the bridge.  STYLE asks for the output style that the port
\* does not have: SetOutputStyle ends synchronous mode.  The style it has
\* already is no command at all.
Command(this, p, command) ==
    CASE command = "CANCEL" -> CancelMerge(this)
      [] command = "RECORD" -> FailSafeRecord(this)
      [] command \in FailSafes -> [this EXCEPT !.node.failsafe = command]
      [] command \in MergeModes -> [this EXCEPT !.out[p].mergeMode = command]
      [] command \in Protocols -> [this EXCEPT !.out[p].protocol = command]
      [] command = "CLR" /\ this.out[p].protocol = "ARTNET" ->
           [this EXCEPT !.light = OutputClear(@, p)]
      [] command = "STYLE" -> [this EXCEPT !.node.IsSynchronousMode = FALSE]
      [] OTHER -> this

\* A reply for the ports in S copies the merging bit of the bridge, set for the
\* ports in merging, to the outputs under sACN.
SendPollReply(this, S, merging) ==
    [this EXCEPT !.out = [p \in Ports |->
        IF p \in S \cap Outputs(this) /\ this.out[p].protocol = "SACN"
          THEN [this.out[p] EXCEPT !.IsMerging = p \in merging]
          ELSE this.out[p]]]

HandleAddress(this, p, address, command, merging) ==
    SendPollReply(Command(SetPortAddress(this, p, address), p, command),
                  {p}, merging)

-----------------------------------------------------------------------------
(* Process and Run *)

\* What Process does before it looks at the packet.
Arrived(this) ==
    [this EXCEPT !.node.packetAge = 0,
                 !.node.IsSynchronousMode =
                     @ /\ this.node.syncAge < SyncTimeout]

ThisNode == [node |-> node, out |-> out, light |-> light, scene |-> scene]

Become(this) == /\ node' = this.node
                /\ out' = this.out
                /\ light' = this.light
                /\ scene' = this.scene

IsRunning == main = "loop" /\ rest = {}

Subscribed(address) == {p \in Ports : /\ out[p].direction = "OUTPUT"
                                      /\ out[p].protocol = "ARTNET"
                                      /\ out[p].address = address}

First(S) == CHOOSE p \in S : \A q \in S : p <= q

\* What Process notes after HandleDmx.
From(this, packet) == [this EXCEPT !.node.dmxFrom = packet.from]

\* The loop of HandleDmx serves the first of the ports in todo.  A packet that
\* is discarded for one port is not offered to the next.
ServePort(this, packet, todo) ==
    LET p == First(todo)
        served == HandleDmx(this, p, packet)
    IN  /\ rest' = IF IsDiscarded(Checked(this, p), p, packet)
                     THEN {} ELSE todo \ {p}
        /\ frame' = IF rest' = {} THEN NoPacket ELSE packet
        /\ Become(IF rest' = {} THEN From(served, packet) ELSE served)
        /\ UNCHANGED main

ReceiveDmx(packet) ==
    /\ IsRunning
    /\ Subscribed(packet.address) # {}
    /\ ServePort(Arrived(ThisNode), packet, Subscribed(packet.address))

NextPort ==
    /\ main = "loop" /\ rest # {}
    /\ ServePort(ThisNode, frame, rest)

\* ArtDmx for a Port-Address that no port outputs
ReceiveDmxElsewhere(packet) ==
    /\ IsRunning
    /\ Subscribed(packet.address) = {}
    /\ Become(From(Arrived(ThisNode), packet))
    /\ UNCHANGED <<main, frame, rest>>

\* An ArtSync of another controller than that of the last ArtDmx is ignored,
\* and so is every ArtSync in merge mode.
ReceiveSync(from) ==
    /\ IsRunning
    /\ Become(IF node.dmxFrom = from /\ ~node.IsMergeMode
                THEN HandleSync(Arrived(ThisNode)) ELSE Arrived(ThisNode))
    /\ UNCHANGED <<main, frame, rest>>

ReceiveAddress(p, address, command, merging) ==
    /\ IsRunning
    /\ Become(HandleAddress(Arrived(ThisNode), p, address, command, merging))
    /\ UNCHANGED <<main, frame, rest>>

\* ArtPoll, whose reply is sent later, and packets without an effect.
ReceiveOther ==
    /\ IsRunning
    /\ Become(Arrived(ThisNode))
    /\ UNCHANGED <<main, frame, rest>>

\* The queued reply to an ArtPoll is due.
PollReply(merging) ==
    /\ IsRunning
    /\ Become(SendPollReply(ThisNode, Ports, merging))
    /\ UNCHANGED <<main, frame, rest>>

\* Run finds no packet and the last one is too long ago.
RunIdle ==
    /\ IsRunning
    /\ node.packetAge >= LossTimeout
    /\ Become(SetNetworkDataLossCondition(ThisNode))
    /\ UNCHANGED <<main, frame, rest>>

Tick ==
    /\ IsRunning
    /\ node' = [node EXCEPT !.packetAge = Older(@, LossTimeout),
                            !.syncAge = Older(@, SyncTimeout)]
    /\ out' = [p \in Ports |->
                 [out[p] EXCEPT
                     !.sourceA.age = Older(@, MergeTimeout + 1),
                     !.sourceB.age = Older(@, MergeTimeout + 1)]]
    /\ UNCHANGED <<main, light, scene, frame, rest>>

-----------------------------------------------------------------------------
(* Configuration at boot, Start, Stop and the reboot that follows it *)

\* ArtNetParams::Set: universe, merge mode and protocol of a port.
SetPort(p, direction, address, mergeMode, protocol) ==
    /\ main = "boot"
    /\ out' = [out EXCEPT ![p].direction = direction,
                          ![p].address =
                              IF direction = "OUTPUT" THEN address ELSE @,
                          ![p].mergeMode = mergeMode,
                          ![p].protocol = protocol]
    /\ UNCHANGED <<main, node, light, scene, frame, rest>>

SetFailSafe(failsafe) ==
    /\ main = "boot"
    /\ node' = [node EXCEPT !.failsafe = failsafe]
    /\ UNCHANGED <<main, out, light, scene, frame, rest>>

\* Start assigns Status3 and so forgets the failsafe that was configured.
StartNode ==
    /\ main = "boot"
    /\ main' = "loop"
    /\ node' = [node EXCEPT !.failsafe = "LAST"]
    /\ UNCHANGED <<out, light, scene, frame, rest>>

\* RebootHandler, and Stop with that of the bridge.
StopNode ==
    /\ IsRunning
    /\ main' = "halt"
    /\ light' = ClearLength(Stop(Blackout(light), Ports), Ports)
    /\ out' = [p \in Ports |->
                 [out[p] EXCEPT !.IsTransmitting =
                                    @ /\ out[p].protocol # "ARTNET"]]
    /\ UNCHANGED <<node, scene, frame, rest>>

NoSource == [ip |-> NoController, age |-> 0, physical |-> NoPhysical]

PortAtBoot ==
    [direction |-> "DISABLE", protocol |-> "ARTNET", address |-> 0,
     sourceA |-> NoSource, sourceB |-> NoSource, mergeMode |-> "HTP",
     IsMerging |-> FALSE, IsTransmitting |-> FALSE, IsDataPending |-> FALSE]

StateAtBoot == [IsSynchronousMode |-> FALSE, IsMergeMode |-> FALSE,
                dmxFrom |-> NoController, syncAge |-> 0, packetAge |-> 0,
                failsafe |-> "LAST"]

\* The constructor
Init == /\ main = "boot"
        /\ node = StateAtBoot
        /\ out = [p \in Ports |-> PortAtBoot]
        /\ light = LightAtBoot
        /\ scene = [p \in Ports |-> MaxLevel]
        /\ frame = NoPacket
        /\ rest = {}

\* The flash keeps the scene.
Reboot == /\ main = "halt"
          /\ main' = "boot"
          /\ node' = StateAtBoot
          /\ out' = [p \in Ports |-> PortAtBoot]
          /\ light' = LightAtBoot
          /\ UNCHANGED <<scene, frame, rest>>

-----------------------------------------------------------------------------
\* The ports that the bridge may report as merging.
Sacn == {p \in Ports : out[p].protocol = "SACN"}

Next ==
    \/ \E packet \in ArtDmx : \/ ReceiveDmx(packet)
                              \/ ReceiveDmxElsewhere(packet)
    \/ NextPort
    \/ \E from \in Controllers : ReceiveSync(from)
    \/ \E p \in Ports, address \in PortAddresses, command \in Commands :
          \E merging \in SUBSET {p} :
             ReceiveAddress(p, address, command, merging)
    \/ ReceiveOther
    \/ \E merging \in SUBSET Sacn : PollReply(merging)
    \/ RunIdle
    \/ Tick
    \/ \E p \in Ports, direction \in {"OUTPUT", "DISABLE"},
          address \in PortAddresses, mergeMode \in MergeModes,
          protocol \in Protocols :
          SetPort(p, direction, address, mergeMode, protocol)
    \/ \E failsafe \in FailSafes : SetFailSafe(failsafe)
    \/ StartNode
    \/ StopNode
    \/ Reboot

(***************************************************************************)
(* As for the bridge: main() never blocks, and an idle Run comes in the    *)
(* end if the packets stop.  No packet need come.                          *)
(***************************************************************************)
Fairness == /\ WF_vars(NextPort)
            /\ WF_vars(Tick)
            /\ WF_vars(RunIdle)

Spec == Init /\ [][Next]_vars /\ Fairness

-----------------------------------------------------------------------------
(* Properties *)

\* The variables hold values of their types, and HandleDmx is either idle or
\* at work on an ArtDmx packet.
TypeOK == /\ main \in {"boot", "loop", "halt"}
          /\ node \in State
          /\ out \in [Ports -> OutputPort]
          /\ light \in [Ports -> LightPort]
          /\ scene \in [Ports -> Levels]
          /\ rest \subseteq Ports
          /\ frame \in ArtDmx \/ (frame = NoPacket /\ rest = {})

\* The two slots of a port belong to two streams: another controller or
\* another physical input, so that no data is merged with itself.
SlotsDiffer ==
    \A p \in Ports : LET A == out[p].sourceA
                         B == out[p].sourceB
                     IN  ~(Occupied(A) /\ A.ip = B.ip /\ A.physical = B.physical)

\* The driver shows the merged data of a transmitting port, unless the data
\* waits for an ArtSync.
OutputIsCurrent ==
    main = "loop" => \A p \in Ports :
        /\ out[p].IsTransmitting /\ light[p].filled
        /\ light[p].sent # light[p].data
        => out[p].IsDataPending

\* A controller that holds no slot of the port is turned away only by two
\* streams, each heard from within the merge timeout: a stream that has fallen
\* silent locks no controller out.
DiscardedForTwoLive ==
    [][ \A packet \in ArtDmx, p \in Ports :
          /\ ReceiveDmx(packet)
          /\ p = First(Subscribed(packet.address))
          /\ IsDiscarded(Checked(Arrived(ThisNode), p), p, packet)
          /\ packet.from \notin {out[p].sourceA.ip, out[p].sourceB.ip}
          => \A source \in {out[p].sourceA, out[p].sourceB} :
                Occupied(source) /\ source.age <= MergeTimeout
      ]_vars

\* The command CLR.
ReceiveClear == \E p \in Ports, address \in PortAddresses :
                  \E merging \in SUBSET {p} :
                     ReceiveAddress(p, address, "CLR", merging)

\* In synchronous mode data changes the outputs only all at once: no port that
\* waits is left behind.  A port that merges is never held back, and neither
\* are the command CLR and the failsafe, which ends the mode.
SynchronizedTogether ==
    [][ /\ node.IsSynchronousMode /\ node'.IsSynchronousMode
        /\ main' = "loop"
        /\ \E p \in Ports : /\ light'[p].sent # light[p].sent
                            /\ out'[p].IsTransmitting /\ ~out'[p].IsMerging
        /\ ~ReceiveClear
        => \A p \in Ports : ~out'[p].IsDataPending
      ]_vars

\* When the packets stop, the slots of every port are given up in the end, so
\* that whoever comes next is not merged with data of the past.
SilenceFreesSources ==
    main = "loop" /\ node.packetAge = LossTimeout
    ~> \/ main # "loop" \/ node.packetAge = 0
       \/ \A p \in Ports : /\ ~Occupied(out[p].sourceA)
                           /\ ~Occupied(out[p].sourceB)

-----------------------------------------------------------------------------
(* What comments and messages of the code say and the code does not do *)

\* The message "More than two sources, discarding data": a stream is turned
\* away only if two other streams hold the slots.
DiscardedForTwoOthers ==
    [][ \A packet \in ArtDmx, p \in Ports :
          /\ ReceiveDmx(packet)
          /\ p = First(Subscribed(packet.address))
          /\ IsDiscarded(Checked(Arrived(ThisNode), p), p, packet)
          => Occupied(out[p].sourceA) /\ Occupied(out[p].sourceB)
      ]_vars

\* The comment on HandleSync: in synchronous operation ArtDmx packets are
\* buffered and output when the next ArtSync is received.  Here for ports with
\* one source or none, which have nothing to merge.
SynchronousDataIsBuffered ==
    [][ /\ node.IsSynchronousMode /\ node'.IsSynchronousMode
        /\ \E packet \in ArtDmx : ReceiveDmx(packet)
        => \A p \in Ports : light'[p].sent # light[p].sent
             => Occupied(out'[p].sourceA) /\ Occupied(out'[p].sourceB)
      ]_vars
=============================================================================
