-------------------------------- MODULE Node --------------------------------
(***************************************************************************)
(* The node as it runs: class ArtNetNode inherits from E131Bridge, so the  *)
(* Art-Net receiver and the sACN receiver are one object with one set of   *)
(* merge buffers and one LightSet.  Every port has a protocol; ArtAddress  *)
(* commands switch it over, and hand merge mode and failsafe to both.      *)
(*                                                                         *)
(* ArtNetNode::Run is Process, then E131Bridge::Run.  Here the calls of    *)
(* the two take turns in any order, which allows more, and a loop over the *)
(* ports ends before anything else is done.                                *)
(***************************************************************************)
EXTENDS LightSet, Integers, FiniteSets

CONSTANTS
    PortAddresses,      \* of ports and of Art-Net packets
    MapUniverse0,       \* whether Port-Address 0 maps to universe 1
    Controllers, NoController, Physicals, NoPhysical,
    Senders, NoSender, Priorities, PacketOptions, SyncAddresses,
    SequenceModulus, SequenceWindow,
    ArtNetLossTimeout,  \* NETWORK_DATA_LOSS_TIMEOUT, 10 seconds
    SacnLossTimeout,    \* NETWORK_DATA_LOSS_TIMEOUT_SECONDS, 2.5 seconds
    ArtNetMergeTimeout, SacnMergeTimeout,
    SyncTimeout, PriorityTimeout,
    ArtNetCommands,     \* those of CANCEL, RECORD, CLR and STYLE that are sent
    FailSafes, Protocols, DisableMergeTimeout, DisableSynchronize

ASSUME MapAssumption == MapUniverse0 \in BOOLEAN
ASSUME CommandsAssumption == ArtNetCommands \subseteq {"CANCEL", "RECORD", "CLR", "STYLE"}
ASSUME PortAddressesAssumption == PortAddresses \subseteq Nat
ASSUME SourcesAssumption == /\ NoController \notin Controllers
                            /\ NoPhysical \notin Physicals
                            /\ NoSender \notin Senders
ASSUME SequenceAssumption == /\ SequenceModulus \in Nat \ {0}
                             /\ SequenceWindow \in Nat
ASSUME TimeoutsAssumption ==
    /\ ArtNetLossTimeout \in Nat /\ SacnLossTimeout \in Nat
    /\ ArtNetMergeTimeout \in Nat /\ SacnMergeTimeout \in Nat
    /\ SyncTimeout \in Nat /\ PriorityTimeout \in Nat
ASSUME FailSafesAssumption ==
    FailSafes \subseteq {"LAST", "OFF", "ON", "PLAYBACK"}
ASSUME ProtocolsAssumption == Protocols \subseteq {"ARTNET", "SACN"}
ASSUME DisableAssumption == /\ DisableMergeTimeout \in BOOLEAN
                            /\ DisableSynchronize \in BOOLEAN

VARIABLES
    main, light,                            \* of both
    node, out, scene, artFrame, artRest,    \* of ArtNetNode
    state, port, groups, sacnFrame, sacnRest, \* of E131Bridge
    released    \* history: ports that ARTNET_SEL has taken back from sACN

artVars == <<node, out, scene, artFrame, artRest>>
sacnVars == <<state, port, groups, sacnFrame, sacnRest>>
vars == <<main, light, artVars, sacnVars, released>>

-----------------------------------------------------------------------------
(* The two receivers *)

\* IsMapUniverse0: universe 0 is none of sACN's.
UniverseOf(address) == IF MapUniverse0 THEN address + 1 ELSE address

Universes == {UniverseOf(a) : a \in PortAddresses} \ {0}

ASSUME PacketsAssumption ==
    /\ Priorities \subseteq Nat
    /\ PacketOptions \subseteq
          {"PREVIEW_DATA", "STREAM_TERMINATED", "FORCE_SYNCHRONIZATION"}
    /\ SyncAddresses \subseteq Universes \cup {0}

SacnFailSafe(failsafe) == IF failsafe = "LAST" THEN "HOLD" ELSE failsafe

\* The modules with the proofs, so that NodeProofs can cite their theorems.
ArtNet == INSTANCE ArtNetNodeProofs WITH
    frame <- artFrame, rest <- artRest,
    LossTimeout <- ArtNetLossTimeout, MergeTimeout <- ArtNetMergeTimeout

Sacn == INSTANCE E131BridgeProofs WITH
    frame <- sacnFrame, rest <- sacnRest,
    FailSafes <- {SacnFailSafe(failsafe) : failsafe \in FailSafes},
    LossTimeout <- SacnLossTimeout, MergeTimeout <- SacnMergeTimeout

\* Neither is in the middle of its loop over the ports.
BetweenRuns == artRest = {} /\ sacnRest = {}

\* A step of one receiver alone.
ArtNetStep(step) ==
    step /\ sacnRest = {} /\ UNCHANGED <<sacnVars, released>>

SacnStep(step) ==
    step /\ artRest = {} /\ UNCHANGED <<artVars, released>>

-----------------------------------------------------------------------------
(* SetUniverse4: what the bridge is told of a port *)

IsListening(p, universe) ==
    port[p].direction = "OUTPUT" /\ port[p].universe = universe

\* Mutant: the port's protocol is not asked for.
SetUniverse4Always(p, isActive, protocol, address) ==
    LET universe == UniverseOf(address)
    IN  IF isActive /\ universe # 0 /\ ~IsListening(p, universe)
          THEN Sacn!SetUniverseOutput(p, universe)
          ELSE UNCHANGED <<state, port, groups>>

(***************************************************************************)
(* Nothing is done for a port that is not under sACN.  One that is active, *)
(* an output, is set to its universe; any other is taken from the bridge.  *)
(***************************************************************************)
SetUniverse4(p, isActive, protocol, address) ==
    LET universe == UniverseOf(address)
    IN  CASE /\ protocol = "SACN" /\ isActive
             /\ universe # 0 /\ ~IsListening(p, universe) ->
               Sacn!SetUniverseOutput(p, universe)
          [] /\ protocol = "SACN" /\ ~isActive
             /\ port[p].direction = "OUTPUT" ->
               Sacn!SetUniverseDisable(p)
          [] OTHER -> UNCHANGED <<state, port, groups>>

-----------------------------------------------------------------------------
(* ArtAddress *)

\* What GetGoodOutput4 reports for the ports the bridge outputs.
Merging(bridge) == {p \in Ports : /\ bridge[p].direction = "OUTPUT"
                                  /\ bridge[p].IsMerging}

\* One ArtAddress carries a new address or a command, here never both.
ArtAddress(p, address, command) ==
    ArtNet!ReceiveAddress(p, address, command, Merging(port'))

\* SwOut, on an output only, tells the bridge.
SwitchUniverse(p, address) ==
    /\ BetweenRuns
    /\ SetUniverse4(p, TRUE, out[p].protocol, address)
    /\ out[p].direction = "OUTPUT"
    /\ ArtAddress(p, address, "NONE")
    /\ UNCHANGED <<sacnFrame, sacnRest, released>>

\* SubSwitch and NetSwitch do not.
SwitchSubnetOrNet(p, address) ==
    /\ BetweenRuns
    /\ UNCHANGED <<sacnVars, released>>
    /\ ArtAddress(p, address, "NONE")

\* Mutant: the protocol is assigned last.
SelectProtocolLast(p, protocol) ==
    /\ BetweenRuns
    /\ SetUniverse4(p, protocol = "SACN" /\ out[p].direction = "OUTPUT",
                    out[p].protocol, out[p].address)
    /\ ArtAddress(p, out[p].address, protocol)
    /\ UNCHANGED <<sacnFrame, sacnRest, released>>

\* ARTNET_SEL and ACN_SEL assign the protocol first, so that the DISABLE that
\* ARTNET_SEL sends to the bridge finds a port that is no longer under sACN.
SelectProtocol(p, protocol) ==
    /\ BetweenRuns
    /\ SetUniverse4(p, protocol = "SACN" /\ out[p].direction = "OUTPUT",
                    protocol, out[p].address)
    /\ ArtAddress(p, out[p].address, protocol)
    /\ released' = CASE protocol = "SACN" -> released \ {p}
                     [] protocol = "ARTNET" /\ out[p].protocol = "SACN" ->
                          released \cup {p}
                     [] OTHER -> released
    /\ UNCHANGED <<sacnFrame, sacnRest>>

\* CANCEL, RECORD and STYLE, and CLR of a port under Art-Net
CommandArtNet(p, command) ==
    /\ BetweenRuns
    /\ command = "CLR" => out[p].protocol = "ARTNET"
    /\ UNCHANGED <<sacnVars, released>>
    /\ ArtAddress(p, out[p].address, command)

CommandMergeMode(p, mergeMode) ==
    /\ BetweenRuns
    /\ Sacn!SetMergeMode(p, mergeMode)
    /\ ArtAddress(p, out[p].address, mergeMode)
    /\ UNCHANGED released

CommandFailSafe(p, failsafe) ==
    /\ BetweenRuns
    /\ Sacn!SetFailSafe(SacnFailSafe(failsafe))
    /\ ArtAddress(p, out[p].address, failsafe)
    /\ UNCHANGED released

\* CLR of a port under sACN
CommandClear(p) ==
    LET replied == ArtNet!SendPollReply(ArtNet!Arrived(ArtNet!ThisNode), {p},
                                        Merging(port))
    IN  /\ BetweenRuns
        /\ out[p].protocol = "SACN"
        /\ Sacn!Clear(p)
        /\ node' = replied.node
        /\ out' = replied.out
        /\ UNCHANGED <<scene, artFrame, artRest, released>>

-----------------------------------------------------------------------------
(* Boot, Start, Stop *)

\* ArtNetParams::Set, then SetUniverse in main(): once for every port.
SetPort(p, direction, address, protocol) ==
    /\ out[p].direction = "DISABLE"
    /\ ArtNet!SetPort(p, direction, address, out[p].mergeMode, protocol)
    /\ SetUniverse4(p, direction = "OUTPUT", protocol, address)
    /\ UNCHANGED <<sacnFrame, sacnRest, released>>

SetMergeMode(p, mergeMode) ==
    /\ ArtNet!SetPort(p, out[p].direction, out[p].address, mergeMode,
                      out[p].protocol)
    /\ Sacn!SetMergeMode(p, mergeMode)
    /\ UNCHANGED released

SetFailSafe(failsafe) ==
    /\ ArtNet!SetFailSafe(failsafe)
    /\ Sacn!SetFailSafe(SacnFailSafe(failsafe))
    /\ UNCHANGED released

\* Only the node forgets the failsafe it was configured with.
StartBoth == ArtNet!StartNode /\ Sacn!StartBridge /\ UNCHANGED released

StopBoth == ArtNet!StopNode /\ Sacn!StopBridge /\ UNCHANGED released

Reboot == ArtNet!Reboot /\ Sacn!Reboot /\ released' = {}

Tick == ArtNet!Tick /\ Sacn!Tick /\ UNCHANGED released

Init == ArtNet!Init /\ Sacn!Init /\ released = {}

-----------------------------------------------------------------------------
\* Process of the Art-Net node
ArtNetRun ==
    \/ \E packet \in ArtNet!ArtDmx :
          \/ ArtNetStep(ArtNet!ReceiveDmx(packet))
          \/ ArtNetStep(ArtNet!ReceiveDmxElsewhere(packet))
    \/ ArtNetStep(ArtNet!NextPort)
    \/ \E from \in Controllers : ArtNetStep(ArtNet!ReceiveSync(from))
    \/ ArtNetStep(ArtNet!ReceiveOther)
    \/ ArtNetStep(ArtNet!PollReply(Merging(port)))
    \/ ArtNetStep(ArtNet!RunIdle)

\* HandleAddress
HandleAddress ==
    \E p \in Ports :
        \/ \E address \in PortAddresses : \/ SwitchUniverse(p, address)
                                          \/ SwitchSubnetOrNet(p, address)
        \/ \E protocol \in Protocols : SelectProtocol(p, protocol)
        \/ \E command \in ArtNetCommands : CommandArtNet(p, command)
        \/ \E mergeMode \in MergeModes : CommandMergeMode(p, mergeMode)
        \/ \E failsafe \in FailSafes : CommandFailSafe(p, failsafe)
        \/ CommandClear(p)

SacnRun ==
    \/ \E packet \in Sacn!DataPacket : SacnStep(Sacn!ReceiveData(packet))
    \/ SacnStep(Sacn!NextPort)
    \/ SacnStep(Sacn!ReceiveOther)
    \/ \E address \in Universes \cup {0} :
          SacnStep(Sacn!ReceiveSynchronization(address))
    \/ SacnStep(Sacn!RunIdle)

Boot ==
    \/ \E p \in Ports, direction \in {"OUTPUT", "DISABLE"},
          address \in PortAddresses, protocol \in Protocols :
          SetPort(p, direction, address, protocol)
    \/ \E p \in Ports, mergeMode \in MergeModes : SetMergeMode(p, mergeMode)
    \/ \E failsafe \in FailSafes : SetFailSafe(failsafe)
    \/ StartBoth

Next == ArtNetRun \/ HandleAddress \/ SacnRun \/ Boot \/ Tick \/ StopBoth \/ Reboot

Spec == Init /\ [][Next]_vars

-----------------------------------------------------------------------------
(* Properties *)

\* Both receivers keep their types, whatever they do to the merge buffers that
\* they share.
TypeOK == /\ ArtNet!TypeOK
          /\ Sacn!TypeOK
          /\ released \subseteq Ports

\* The bridge outputs a port only if sACN was selected for it: no Art-Net port
\* has a second driver, unless ARTNET_SEL has taken it back, when SetUniverse4
\* leaves the bridge listening.
OwnPorts ==
    \A p \in Ports : port[p].direction = "OUTPUT"
                     => out[p].protocol = "SACN" \/ p \in released

\* An output that is under sACN has somebody to drive it: the bridge listens,
\* and to a universe whose multicast group is joined.  If Port-Address 0 is not
\* mapped, a port switched over with that address hears nothing.
SacnOutputsListen ==
    MapUniverse0 =>
        \A p \in Ports :
            out[p].direction = "OUTPUT" /\ out[p].protocol = "SACN"
            => /\ port[p].direction = "OUTPUT"
               /\ port[p].universe \in groups

\* The driver shows what the merge buffer holds, whichever receiver filled it,
\* unless it waits for a synchronization packet of either protocol.
OutputIsCurrent ==
    main = "loop" => \A p \in Ports :
        /\ out[p].IsTransmitting \/ port[p].IsTransmitting
        /\ light[p].filled
        /\ light[p].sent # light[p].data
        => out[p].IsDataPending \/ port[p].IsDataPending

-----------------------------------------------------------------------------
(* What a comment of the code says and the code does not do *)

\* artnet.h on ARTNET_SEL: the port outputs packets "from the Art-Net
\* protocol", so sACN data does not reach it.
SelectedProtocolDrives ==
    [][ \A p \in Ports, packet \in Sacn!DataPacket :
          /\ Sacn!ReceiveData(packet)
          /\ out[p].protocol = "ARTNET"
          => light'[p].data = light[p].data
      ]_vars
=============================================================================
