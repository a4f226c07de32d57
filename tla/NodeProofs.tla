----------------------------- MODULE NodeProofs -----------------------------
(***************************************************************************)
(* The node with both its receivers, for any number of ports, addresses,   *)
(* controllers and sources and any timeouts: the types, which protocol has *)
(* which port, and what the ports show.                                    *)
(*                                                                         *)
(* A receiver knows nothing of what the other does with the light and the  *)
(* ports, so their invariants are of no use here.  What is used of them is *)
(* what their steps do, whatever state they are made in: the lemmas of     *)
(* ArtNetNodeProofs and E131BridgeProofs that are named for "settles" and  *)
(* "stays".                                                                *)
(***************************************************************************)
EXTENDS Node, TLAPS

-----------------------------------------------------------------------------
(* The constants of the receivers *)

\* The constants of the node satisfy what the Art-Net node assumes of its own.
LEMMA ArtNetConstants ==
    /\ ArtNet!PortsAssumption /\ ArtNet!MaxLevelAssumption
    /\ ArtNet!MergeModesAssumption /\ ArtNet!AddressAssumption
    /\ ArtNet!ControllerAssumption /\ ArtNet!PhysicalAssumption
    /\ ArtNet!TimeoutAssumption /\ ArtNet!FailSafesAssumption
    /\ ArtNet!ProtocolsAssumption /\ ArtNet!DisableAssumption
BY PortsAssumption, MaxLevelAssumption, MergeModesAssumption,
   PortAddressesAssumption, SourcesAssumption, TimeoutsAssumption,
   FailSafesAssumption, ProtocolsAssumption, DisableAssumption
   DEF ArtNet!PortsAssumption, ArtNet!MaxLevelAssumption,
       ArtNet!MergeModesAssumption, ArtNet!AddressAssumption,
       ArtNet!ControllerAssumption, ArtNet!PhysicalAssumption,
       ArtNet!TimeoutAssumption, ArtNet!FailSafesAssumption,
       ArtNet!ProtocolsAssumption, ArtNet!DisableAssumption

\* A Port-Address that is mapped to a universe other than 0 is one of sACN's,
\* and with MapUniverse0 all are.
LEMMA UniverseOfType ==
    ASSUME NEW address \in PortAddresses
    PROVE  /\ UniverseOf(address) # 0 => UniverseOf(address) \in Universes
           /\ MapUniverse0 => UniverseOf(address) # 0
           /\ UniverseOf(address) \in Nat
BY PortAddressesAssumption, MapAssumption DEF UniverseOf, Universes

\* And the constants satisfy what the bridge assumes of its own.
LEMMA SacnConstants ==
    /\ Sacn!PortsAssumption /\ Sacn!MaxLevelAssumption
    /\ Sacn!MergeModesAssumption /\ Sacn!UniversesAssumption
    /\ Sacn!SenderAssumption /\ Sacn!PrioritiesAssumption
    /\ Sacn!PacketAssumption /\ Sacn!SequenceAssumption
    /\ Sacn!TimeoutAssumption /\ Sacn!FailSafesAssumption
    /\ Sacn!DisableAssumption
<1>1. Universes \subseteq Nat \ {0}
  BY UniverseOfType DEF Universes
<1>2. {SacnFailSafe(failsafe) : failsafe \in FailSafes}
        \subseteq {"HOLD", "OFF", "ON", "PLAYBACK"}
  BY FailSafesAssumption DEF SacnFailSafe
<1> QED
  BY <1>1, <1>2, PortsAssumption, MaxLevelAssumption, MergeModesAssumption,
     SourcesAssumption, PacketsAssumption, SequenceAssumption,
     TimeoutsAssumption, DisableAssumption
     DEF Sacn!PortsAssumption, Sacn!MaxLevelAssumption,
         Sacn!MergeModesAssumption, Sacn!UniversesAssumption,
         Sacn!SenderAssumption, Sacn!PrioritiesAssumption,
         Sacn!PacketAssumption, Sacn!SequenceAssumption,
         Sacn!TimeoutAssumption, Sacn!FailSafesAssumption,
         Sacn!DisableAssumption

-----------------------------------------------------------------------------
(* The light that both receivers write *)

\* Its type is the same for both.
LEMMA SameLightType == ArtNet!LightPort = Sacn!LightPort
BY DEF ArtNet!LightPort, Sacn!LightPort, ArtNet!Levels, Sacn!Levels,
       ArtNet!NoSlots, Sacn!NoSlots

\* A receiver that leaves its own variables alone keeps its types if the other
\* one does.
LEMMA ArtNetTypeKept ==
    ASSUME ArtNet!TypeOK, Sacn!TypeOK', UNCHANGED artVars
    PROVE  ArtNet!TypeOK'
BY SameLightType DEF ArtNet!TypeOK, Sacn!TypeOK, artVars

LEMMA SacnTypeKept ==
    ASSUME Sacn!TypeOK, ArtNet!TypeOK', UNCHANGED sacnVars
    PROVE  Sacn!TypeOK'
BY SameLightType DEF ArtNet!TypeOK, Sacn!TypeOK, sacnVars

-----------------------------------------------------------------------------
(***************************************************************************)
(* Which protocol has which port.  OwnPorts needs that what the bridge     *)
(* outputs is an output of the node, so that a port which is configured    *)
(* anew has no driver yet.  SacnOutputsListen needs that a port under sACN *)
(* has been given to the bridge, that its address is one, so that it maps  *)
(* to a universe, and that the bridge keeps its groups joined.             *)
(***************************************************************************)

Placed ==
    \A p \in Ports :
        /\ port[p].direction = "OUTPUT" => out[p].direction = "OUTPUT"
        /\ out[p].direction = "OUTPUT" => out[p].address \in PortAddresses

Given ==
    MapUniverse0 =>
        \A p \in Ports :
            out[p].direction = "OUTPUT" /\ out[p].protocol = "SACN"
            => port[p].direction = "OUTPUT"

IInv ==
    /\ TypeOK
    /\ Sacn!OutputUniversesJoined
    /\ Placed
    /\ Given
    /\ OwnPorts

\* The invariant is what is wanted, and more.
LEMMA IInvIsEnough == IInv => TypeOK /\ OwnPorts /\ SacnOutputsListen
BY DEF IInv, Given, SacnOutputsListen, Sacn!OutputUniversesJoined

\* A step that moves no port keeps it.
LEMMA StaysInPlace ==
    ASSUME IInv, TypeOK', ArtNet!StepKeepsPlaces, Sacn!StepStays,
           released' = released
    PROVE  IInv'
BY DEF IInv, Placed, Given, OwnPorts, ArtNet!StepKeepsPlaces,
       Sacn!StepStays, Sacn!StepKeepsPlaces

-----------------------------------------------------------------------------
(* What a step shows *)

\* A port is left as it is, or the driver has its data, or that waits.
Settles ==
    \A p \in Ports :
        \/ /\ light'[p] = light[p]
           /\ out'[p].IsTransmitting = out[p].IsTransmitting
           /\ out'[p].IsDataPending = out[p].IsDataPending
           /\ port'[p].IsTransmitting = port[p].IsTransmitting
           /\ port'[p].IsDataPending = port[p].IsDataPending
        \/ /\ light'[p].filled
           /\ light'[p].sent # light'[p].data
           => out'[p].IsDataPending \/ port'[p].IsDataPending

SameFlags(new, old) ==
    \A p \in Ports : /\ new[p].IsTransmitting = old[p].IsTransmitting
                     /\ new[p].IsDataPending = old[p].IsDataPending

\* What a receiver does settles, if the other's flags stay.
LEMMA ArtNetSettles ==
    ASSUME ArtNet!StepSettles, SameFlags(port', port)
    PROVE  Settles
BY DEF Settles, ArtNet!StepSettles, SameFlags

LEMMA SacnSettles ==
    ASSUME Sacn!StepSettles, SameFlags(out', out)
    PROVE  Settles
BY DEF Settles, Sacn!StepSettles, SameFlags

\* The promise of every action: a bridge that is to hold the last look on the
\* loss of its network changes nothing that it does not settle.
Keeps == IInv' /\ (state.failsafe = "HOLD" => Settles)

-----------------------------------------------------------------------------
(* The receivers on their own *)

\* Packets, ArtSync, replies and data loss of the Art-Net node
LEMMA ArtNetRunKeeps ==
    ASSUME IInv, ArtNetRun
    PROVE  Keeps
<1>1. /\ ArtNet!TypeOK /\ Sacn!TypeOK
      /\ UNCHANGED <<sacnVars, released>>
  BY DEF IInv, TypeOK, ArtNetRun, ArtNetStep
<1>2. ArtNet!Runs
  <2>1. Merging(port) \in SUBSET Ports
    BY DEF Merging
  <2> QED
    BY <2>1 DEF ArtNetRun, ArtNetStep, ArtNet!Runs
<1>3. ArtNet!TypeOK' /\ ArtNet!StepSettles /\ ArtNet!StepKeepsPlaces
  BY <1>1, <1>2, ArtNet!RunsType, ArtNet!RunsSettle, ArtNetConstants
<1>4. TypeOK'
  BY <1>1, <1>3, SacnTypeKept DEF TypeOK, IInv
<1>5. Sacn!StepStays /\ SameFlags(port', port)
  BY <1>1 DEF sacnVars, SameFlags, Sacn!StepStays, Sacn!StepKeepsPlaces,
              Sacn!OutputUniversesJoined
<1> QED
  BY <1>1, <1>3, <1>4, <1>5, StaysInPlace, ArtNetSettles DEF Keeps

\* Packets, synchronization and data loss of the bridge
LEMMA SacnRunKeeps ==
    ASSUME IInv, SacnRun
    PROVE  Keeps
<1>1. /\ ArtNet!TypeOK /\ Sacn!TypeOK
      /\ UNCHANGED <<artVars, released>>
  BY DEF IInv, TypeOK, SacnRun, SacnStep
<1>2. Sacn!Runs
  BY DEF SacnRun, SacnStep, Sacn!Runs, Sacn!NoUniverse
<1>3. Sacn!Next
  BY <1>2 DEF Sacn!Runs, Sacn!Next
<1>4. /\ Sacn!TypeOK' /\ Sacn!StepStays
      /\ state.failsafe = "HOLD" => Sacn!StepSettles
  BY <1>1, <1>2, <1>3, Sacn!NextType, Sacn!RunsSettle, SacnConstants
<1>5. TypeOK'
  BY <1>1, <1>4, ArtNetTypeKept DEF TypeOK, IInv
<1>6. ArtNet!StepKeepsPlaces /\ SameFlags(out', out)
  BY <1>1 DEF artVars, SameFlags, ArtNet!StepKeepsPlaces
<1> QED
  BY <1>1, <1>4, <1>5, <1>6, StaysInPlace, SacnSettles DEF Keeps
-----------------------------------------------------------------------------
(* SetUniverse4 *)

\* What the bridge is told of a port moves that port only, and only if it is
\* under sACN; an active one with a universe is then an output.
LEMMA SetUniverse4Moves ==
    ASSUME Sacn!TypeOK, Sacn!OutputUniversesJoined, NEW p \in Ports,
           NEW isActive \in BOOLEAN, NEW protocol, NEW address,
           isActive => address \in PortAddresses,
           SetUniverse4(p, isActive, protocol, address),
           Sacn!IsConfigurable,
           UNCHANGED <<main, light, sacnFrame, sacnRest>>
    PROVE  /\ Sacn!TypeOK' /\ Sacn!OutputUniversesJoined'
           /\ SameFlags(port', port)
           /\ \A q \in Ports : q # p => port'[q] = port[q]
           /\ port'[p].direction = "OUTPUT"
              => port[p].direction = "OUTPUT" \/ (isActive /\ protocol = "SACN")
           /\ protocol = "SACN" /\ ~isActive => port'[p].direction # "OUTPUT"
           /\ /\ isActive
              /\ port[p].direction = "OUTPUT"
                 \/ (protocol = "SACN" /\ UniverseOf(address) # 0)
              => port'[p].direction = "OUTPUT"
<1> DEFINE universe == UniverseOf(address)
           outputs == /\ protocol = "SACN" /\ isActive
                      /\ universe # 0 /\ ~IsListening(p, universe)
           disables == /\ protocol = "SACN" /\ ~isActive
                       /\ port[p].direction = "OUTPUT"
<1>1. ASSUME NEW u \in Universes, Sacn!SetUniverse(p, u)
      PROVE  /\ Sacn!TypeOK' /\ Sacn!OutputUniversesJoined'
             /\ SameFlags(port', port)
             /\ \A q \in Ports : q # p => port'[q] = port[q]
             /\ Sacn!SetUniverseOutput(p, u) => port'[p].direction = "OUTPUT"
             /\ Sacn!SetUniverseDisable(p) => port'[p].direction = "DISABLE"
  <2>1. Sacn!Next
    BY <1>1 DEF Sacn!Next
  <2>2. Sacn!TypeOK'
    BY <2>1, Sacn!NextType, SacnConstants
  <2> QED
    BY <1>1, <2>2, Sacn!SetUniversePlaces, SacnConstants DEF SameFlags
<1>2. CASE outputs
  <2>1. universe \in Universes
    BY <1>2, UniverseOfType
  <2>2. Sacn!SetUniverseOutput(p, universe)
    BY <1>2 DEF SetUniverse4
  <2>3. Sacn!SetUniverse(p, universe)
    BY <2>2 DEF Sacn!SetUniverse
  <2> QED
    BY <1>1, <1>2, <2>1, <2>2, <2>3
<1>3. CASE disables
  <2>1. Sacn!SetUniverseDisable(p)
    BY <1>3 DEF SetUniverse4
  <2>2. PICK u : u \in Universes
    BY <1>3 DEF Sacn!TypeOK, Sacn!OutputUniversesJoined
  <2>3. Sacn!SetUniverse(p, u)
    BY <2>1 DEF Sacn!SetUniverse
  <2> QED
    BY <1>1, <1>3, <2>1, <2>2, <2>3
<1>4. CASE ~outputs /\ ~disables
  <2>1. UNCHANGED <<state, port, groups>>
    BY <1>4 DEF SetUniverse4
  <2>2. Sacn!TypeOK'
    BY <2>1 DEF Sacn!TypeOK
  <2>3. isActive /\ protocol = "SACN" /\ universe # 0
        => port[p].direction = "OUTPUT"
    BY <1>4 DEF IsListening
  <2>4. protocol = "SACN" /\ ~isActive => port[p].direction # "OUTPUT"
    BY <1>4
  <2> HIDE DEF universe, outputs, disables
  <2> QED
    BY <2>1, <2>2, <2>3, <2>4 DEF universe, SameFlags, Sacn!OutputUniversesJoined
<1> HIDE DEF outputs, disables
<1> QED
  BY <1>2, <1>3, <1>4

-----------------------------------------------------------------------------
(* ArtAddress *)

\* What an ArtAddress does to the Art-Net node, whatever the bridge does.
LEMMA ArtAddressMoves ==
    ASSUME ArtNet!TypeOK, NEW p \in Ports, NEW address \in PortAddresses \cup {0},
           NEW command \in ArtNet!Commands, ArtAddress(p, address, command)
    PROVE  /\ ArtNet!TypeOK' /\ ArtNet!StepSettles
           /\ main' = main /\ main = "loop"
           /\ command # "CLR" => light' = light
           /\ \A q \in Ports :
                 /\ out'[q].direction = out[q].direction
                 /\ out'[q].address =
                       IF q = p /\ out[p].direction = "OUTPUT"
                         THEN address ELSE out[q].address
                 /\ out'[q].protocol = IF q = p /\ command \in Protocols
                                         THEN command ELSE out[q].protocol
<1>1. PICK merging : ArtNet!ReceiveAddress(p, address, command, merging)
  BY DEF ArtAddress
<1>2. main' = main /\ main = "loop"
  BY <1>1 DEF ArtNet!ReceiveAddress, ArtNet!IsRunning
<1> QED
  BY <1>1, <1>2, ArtNet!ReceiveAddressType, ArtNet!ReceiveAddressSettles,
     ArtNetConstants

\* The address that a command repeats moves no port, nor does the protocol of
\* the port change but by ARTNET_SEL and ACN_SEL.
LEMMA CommandStays ==
    ASSUME IInv, NEW p \in Ports, NEW command \in ArtNet!Commands \ Protocols,
           ArtAddress(p, out[p].address, command)
    PROVE  /\ ArtNet!TypeOK' /\ ArtNet!StepSettles /\ ArtNet!StepKeepsPlaces
           /\ main' = main /\ main = "loop"
           /\ command # "CLR" => light' = light
<1>1. ArtNet!TypeOK /\ out[p].address \in PortAddresses \cup {0}
  BY DEF IInv, TypeOK, ArtNet!TypeOK, ArtNet!OutputPort
<1>2. PICK address \in PortAddresses \cup {0} : address = out[p].address
  BY <1>1
<1>3. ArtAddress(p, address, command)
  BY <1>2
<1> QED
  BY <1>1, <1>2, <1>3, ArtAddressMoves DEF ArtNet!StepKeepsPlaces

\* SwOut: an output under sACN is told its new universe, and keeps a driver.
LEMMA SwitchUniverseKeeps ==
    ASSUME IInv, NEW p \in Ports, NEW address \in PortAddresses,
           SwitchUniverse(p, address)
    PROVE  Keeps
<1>1. ArtNet!TypeOK /\ Sacn!TypeOK /\ Sacn!OutputUniversesJoined
  BY DEF IInv, TypeOK
<1>2. "NONE" \in ArtNet!Commands /\ "NONE" \notin Protocols
  BY ProtocolsAssumption DEF ArtNet!Commands
<1>3. /\ ArtNet!TypeOK' /\ ArtNet!StepSettles
      /\ main' = main /\ main = "loop" /\ light' = light
      /\ \A q \in Ports :
            /\ out'[q].direction = out[q].direction
            /\ out'[q].address = IF q = p THEN address ELSE out[q].address
            /\ out'[q].protocol = out[q].protocol
  BY <1>1, <1>2, ArtAddressMoves DEF SwitchUniverse
<1>4. Sacn!IsConfigurable
  BY <1>3 DEF SwitchUniverse, BetweenRuns, Sacn!IsConfigurable, Sacn!IsRunning
<1>5. /\ Sacn!TypeOK' /\ Sacn!OutputUniversesJoined' /\ SameFlags(port', port)
      /\ \A q \in Ports : q # p => port'[q] = port[q]
      /\ port'[p].direction = "OUTPUT"
         => port[p].direction = "OUTPUT" \/ out[p].protocol = "SACN"
      /\ port[p].direction = "OUTPUT" => port'[p].direction = "OUTPUT"
  BY <1>1, <1>3, <1>4, SetUniverse4Moves DEF SwitchUniverse
<1>6. out[p].direction = "OUTPUT" /\ released' = released
  BY DEF SwitchUniverse
<1>7. TypeOK'
  BY <1>3, <1>5, <1>6 DEF IInv, TypeOK
<1>8. Placed'
  BY <1>3, <1>5, <1>6 DEF IInv, Placed
<1>9. Given'
  BY <1>3, <1>5 DEF IInv, Given
<1>10. OwnPorts'
  BY <1>3, <1>5, <1>6 DEF IInv, OwnPorts
<1> QED
  BY <1>3, <1>5, <1>7, <1>8, <1>9, <1>10, ArtNetSettles DEF Keeps, IInv

\* SubSwitch and NetSwitch leave the bridge with the universe that it has.
LEMMA SwitchSubnetOrNetKeeps ==
    ASSUME IInv, NEW p \in Ports, NEW address \in PortAddresses,
           SwitchSubnetOrNet(p, address)
    PROVE  Keeps
<1>1. ArtNet!TypeOK /\ Sacn!TypeOK /\ UNCHANGED <<sacnVars, released>>
  BY DEF IInv, TypeOK, SwitchSubnetOrNet
<1>2. "NONE" \in ArtNet!Commands /\ "NONE" \notin Protocols
  BY ProtocolsAssumption DEF ArtNet!Commands
<1>3. /\ ArtNet!TypeOK' /\ ArtNet!StepSettles
      /\ \A q \in Ports :
            /\ out'[q].direction = out[q].direction
            /\ out'[q].address \in {out[q].address, address}
            /\ out'[q].protocol = out[q].protocol
  BY <1>1, <1>2, ArtAddressMoves DEF SwitchSubnetOrNet
<1>4. TypeOK'
  BY <1>1, <1>3, SacnTypeKept DEF IInv, TypeOK
<1>5. port' = port /\ groups' = groups /\ released' = released
  BY <1>1 DEF sacnVars
<1>6. Placed'
  BY <1>3, <1>5 DEF IInv, Placed
<1>7. Given' /\ OwnPorts' /\ Sacn!OutputUniversesJoined'
  BY <1>3, <1>5 DEF IInv, Given, OwnPorts, Sacn!OutputUniversesJoined
<1>8. Settles
  BY <1>3, <1>5, ArtNetSettles DEF SameFlags
<1> QED
  BY <1>4, <1>6, <1>7, <1>8 DEF Keeps, IInv

\* ACN_SEL gives an output to the bridge; ARTNET_SEL does not take it back.
LEMMA SelectProtocolKeeps ==
    ASSUME IInv, NEW p \in Ports, NEW protocol \in Protocols,
           SelectProtocol(p, protocol)
    PROVE  Keeps
<1> DEFINE isActive == protocol = "SACN" /\ out[p].direction = "OUTPUT"
           address == out[p].address
<1>1. /\ ArtNet!TypeOK /\ Sacn!TypeOK /\ Sacn!OutputUniversesJoined
      /\ address \in PortAddresses \cup {0}
      /\ isActive => address \in PortAddresses
  BY DEF IInv, TypeOK, ArtNet!TypeOK, ArtNet!OutputPort, Placed
<1>2. protocol \in ArtNet!Commands /\ protocol # "CLR"
      /\ protocol \in {"ARTNET", "SACN"}
  BY ProtocolsAssumption DEF ArtNet!Commands
<1> HIDE DEF isActive, address
<1>3. /\ ArtAddress(p, address, protocol)
      /\ SetUniverse4(p, isActive, protocol, address)
  BY DEF SelectProtocol, isActive, address
<1>4. /\ ArtNet!TypeOK' /\ ArtNet!StepSettles
      /\ main' = main /\ main = "loop" /\ light' = light
      /\ \A q \in Ports :
            /\ out'[q].direction = out[q].direction
            /\ out'[q].address = out[q].address
            /\ out'[q].protocol = IF q = p THEN protocol ELSE out[q].protocol
  BY <1>1, <1>2, <1>3, ArtAddressMoves DEF address
<1>5. Sacn!IsConfigurable
  BY <1>4 DEF SelectProtocol, BetweenRuns, Sacn!IsConfigurable, Sacn!IsRunning
<1>6. isActive \in BOOLEAN /\ UNCHANGED <<sacnFrame, sacnRest>>
  BY DEF isActive, SelectProtocol
<1>7. /\ Sacn!TypeOK' /\ Sacn!OutputUniversesJoined' /\ SameFlags(port', port)
      /\ \A q \in Ports : q # p => port'[q] = port[q]
      /\ port'[p].direction = "OUTPUT"
         => port[p].direction = "OUTPUT" \/ isActive
      /\ protocol = "SACN" /\ ~isActive => port'[p].direction # "OUTPUT"
      /\ /\ isActive
         /\ port[p].direction = "OUTPUT" \/ UniverseOf(address) # 0
         => port'[p].direction = "OUTPUT"
  BY <1>1, <1>3, <1>4, <1>5, <1>6, SetUniverse4Moves DEF isActive
<1>8. released' = CASE protocol = "SACN" -> released \ {p}
                    [] protocol = "ARTNET" /\ out[p].protocol = "SACN" ->
                         released \cup {p}
                    [] OTHER -> released
  BY DEF SelectProtocol
<1>9. /\ released' \subseteq released \cup {p}
      /\ \A q \in Ports : q # p /\ q \in released => q \in released'
      /\ protocol = "ARTNET" /\ (p \in released \/ out[p].protocol = "SACN")
         => p \in released'
  BY <1>2, <1>8
<1>10. TypeOK'
  BY <1>4, <1>7, <1>9 DEF IInv, TypeOK
<1>11. Placed'
  BY <1>4, <1>7 DEF IInv, Placed, isActive
<1>12. Given'
  <2>1. isActive /\ MapUniverse0 => UniverseOf(address) # 0
    BY <1>1, UniverseOfType
  <2> QED
    BY <1>4, <1>7, <2>1 DEF IInv, Given, isActive
<1>13. OwnPorts'
  <2> SUFFICES ASSUME NEW q \in Ports, port'[q].direction = "OUTPUT"
               PROVE  out'[q].protocol = "SACN" \/ q \in released'
    BY DEF OwnPorts
  <2>1. CASE q # p
    BY <1>4, <1>7, <1>9, <2>1 DEF IInv, OwnPorts
  <2>2. CASE q = p /\ protocol = "SACN"
    BY <1>4, <2>2
  <2>3. CASE q = p /\ protocol = "ARTNET"
    <3>1. port[p].direction = "OUTPUT"
      BY <1>7, <2>3 DEF isActive
    <3> QED
      BY <1>9, <2>3, <3>1 DEF IInv, OwnPorts
  <2> QED
    BY <1>2, <2>1, <2>2, <2>3
<1> QED
  BY <1>4, <1>7, <1>10, <1>11, <1>12, <1>13, ArtNetSettles DEF Keeps, IInv

\* CANCEL, RECORD and CLR of a port under Art-Net are the node's alone.
LEMMA CommandArtNetKeeps ==
    ASSUME IInv, NEW p \in Ports, NEW command \in ArtNetCommands,
           CommandArtNet(p, command)
    PROVE  Keeps
<1>1. Sacn!TypeOK /\ UNCHANGED <<sacnVars, released>>
  BY DEF IInv, TypeOK, CommandArtNet
<1>2. command \in ArtNet!Commands \ Protocols
  BY CommandsAssumption, ProtocolsAssumption DEF ArtNet!Commands
<1>3. ArtNet!TypeOK' /\ ArtNet!StepSettles /\ ArtNet!StepKeepsPlaces
  BY <1>2, CommandStays DEF CommandArtNet
<1>4. TypeOK'
  BY <1>1, <1>3, SacnTypeKept DEF IInv, TypeOK
<1>5. Sacn!StepStays /\ SameFlags(port', port)
  BY <1>1 DEF sacnVars, SameFlags, Sacn!StepStays, Sacn!StepKeepsPlaces,
              Sacn!OutputUniversesJoined
<1> QED
  BY <1>1, <1>3, <1>4, <1>5, StaysInPlace, ArtNetSettles DEF Keeps

\* A merge mode is assigned by both.
LEMMA CommandMergeModeKeeps ==
    ASSUME IInv, NEW p \in Ports, NEW mergeMode \in MergeModes,
           CommandMergeMode(p, mergeMode)
    PROVE  Keeps
<1>1. Sacn!TypeOK /\ Sacn!SetMergeMode(p, mergeMode) /\ released' = released
  BY DEF IInv, TypeOK, CommandMergeMode
<1>2. mergeMode \in ArtNet!Commands \ Protocols
  BY MergeModesAssumption, ProtocolsAssumption DEF ArtNet!Commands
<1>3. ArtNet!TypeOK' /\ ArtNet!StepSettles /\ ArtNet!StepKeepsPlaces
  BY <1>2, CommandStays DEF CommandMergeMode
<1>4. Sacn!TypeOK'
  BY <1>1, Sacn!NextType, SacnConstants DEF Sacn!Next
<1>5. Sacn!StepStays /\ SameFlags(port', port)
  <2>1. Sacn!StepStays
    BY <1>1, Sacn!SetMergeModeSettles, SacnConstants
  <2>2. SameFlags(port', port)
    BY <1>1 DEF SameFlags, Sacn!TypeOK, Sacn!SetMergeMode, Sacn!OutputPort
  <2> QED
    BY <2>1, <2>2
<1>6. TypeOK'
  BY <1>1, <1>3, <1>4 DEF IInv, TypeOK
<1> QED
  BY <1>1, <1>3, <1>5, <1>6, StaysInPlace, ArtNetSettles DEF Keeps

\* And so is a failsafe.
LEMMA CommandFailSafeKeeps ==
    ASSUME IInv, NEW p \in Ports, NEW failsafe \in FailSafes,
           CommandFailSafe(p, failsafe)
    PROVE  Keeps
<1>1. /\ Sacn!TypeOK /\ Sacn!SetFailSafe(SacnFailSafe(failsafe))
      /\ released' = released
  BY DEF IInv, TypeOK, CommandFailSafe
<1>2. failsafe \in ArtNet!Commands \ Protocols
  BY FailSafesAssumption, ProtocolsAssumption DEF ArtNet!Commands
<1>3. ArtNet!TypeOK' /\ ArtNet!StepSettles /\ ArtNet!StepKeepsPlaces
  BY <1>2, CommandStays DEF CommandFailSafe
<1>4. Sacn!TypeOK'
  BY <1>1, Sacn!NextType, SacnConstants DEF Sacn!Next
<1>5. Sacn!StepStays /\ SameFlags(port', port)
  BY <1>1 DEF Sacn!SetFailSafe, SameFlags, Sacn!StepStays,
              Sacn!StepKeepsPlaces, Sacn!OutputUniversesJoined
<1>6. TypeOK'
  BY <1>1, <1>3, <1>4 DEF IInv, TypeOK
<1> QED
  BY <1>1, <1>3, <1>5, <1>6, StaysInPlace, ArtNetSettles DEF Keeps

\* CLR of a port under sACN is the bridge's, and the reply the node's.
LEMMA CommandClearKeeps ==
    ASSUME IInv, NEW p \in Ports, CommandClear(p)
    PROVE  Keeps
<1> DEFINE arrived == ArtNet!Arrived(ArtNet!ThisNode)
           replied == ArtNet!SendPollReply(arrived, {p}, Merging(port))
<1>1. /\ ArtNet!TypeOK /\ Sacn!TypeOK /\ Sacn!Clear(p)
      /\ released' = released
  BY DEF IInv, TypeOK, CommandClear
<1>2. /\ arrived \in ArtNet!Nodes
      /\ ArtNet!SameShow(ArtNet!ThisNode, arrived)
      /\ ArtNet!SamePlaces(ArtNet!ThisNode, arrived)
  BY <1>1, ArtNet!ThisNodeType, ArtNet!ArrivedType, ArtNet!ArrivedShows,
     ArtNetConstants
<1> HIDE DEF arrived
<1>3. /\ replied \in ArtNet!Nodes
      /\ ArtNet!SameShow(arrived, replied)
      /\ ArtNet!SamePlaces(arrived, replied)
  BY <1>2, ArtNet!SendPollReplyType, ArtNet!SendPollReplyShows, ArtNetConstants
<1>4. node' = replied.node /\ out' = replied.out
  BY DEF CommandClear, replied, arrived
<1> HIDE DEF replied
<1>5. ArtNet!StepKeepsPlaces /\ SameFlags(out', out)
  BY <1>2, <1>3, <1>4
     DEF ArtNet!StepKeepsPlaces, ArtNet!SamePlaces, ArtNet!SameShow,
         ArtNet!SameAt, ArtNet!ThisNode, SameFlags
<1>6. Sacn!TypeOK'
  BY <1>1, Sacn!NextType, SacnConstants DEF Sacn!Next
<1>7. Sacn!StepStays /\ Sacn!StepSettles
  BY <1>1, Sacn!ClearSettles, SacnConstants
<1>8. ArtNet!TypeOK'
  <2>1. node' \in ArtNet!State /\ out' \in [Ports -> ArtNet!OutputPort]
    BY <1>3, <1>4 DEF ArtNet!Nodes
  <2>2. UNCHANGED <<scene, artFrame, artRest>>
    BY DEF CommandClear
  <2> QED
    BY <1>1, <1>6, <2>1, <2>2, SameLightType DEF ArtNet!TypeOK, Sacn!TypeOK
<1>9. TypeOK'
  BY <1>1, <1>6, <1>8 DEF IInv, TypeOK
<1> QED
  BY <1>1, <1>5, <1>7, <1>9, StaysInPlace, SacnSettles DEF Keeps
-----------------------------------------------------------------------------
(* Boot, Start and Stop, the clock *)

\* A port is configured once, so it has no driver before.
LEMMA SetPortKeeps ==
    ASSUME IInv, NEW p \in Ports, NEW direction \in {"OUTPUT", "DISABLE"},
           NEW address \in PortAddresses, NEW protocol \in Protocols,
           SetPort(p, direction, address, protocol)
    PROVE  Keeps
<1> DEFINE isActive == direction = "OUTPUT"
           mergeMode == out[p].mergeMode
<1>1. /\ ArtNet!TypeOK /\ Sacn!TypeOK /\ Sacn!OutputUniversesJoined
      /\ mergeMode \in MergeModes \cup {"HTP"}
      /\ out[p].direction = "DISABLE" /\ released' = released
      /\ UNCHANGED <<sacnFrame, sacnRest>>
  BY DEF IInv, TypeOK, ArtNet!TypeOK, ArtNet!OutputPort, SetPort
<1> HIDE DEF mergeMode
<1>2. ArtNet!SetPort(p, direction, address, mergeMode, protocol)
  BY DEF SetPort, mergeMode
<1>3. main = "boot" /\ main' = main /\ light' = light
  BY <1>2 DEF ArtNet!SetPort
<1>4. ArtNet!TypeOK'
  BY <1>1, <1>2, ArtNet!ConfigurationType, ArtNetConstants
<1>5. /\ ArtNet!StepSettles
      /\ \A q \in Ports :
            /\ out'[q].direction = IF q = p THEN direction ELSE out[q].direction
            /\ out'[q].address = IF q = p /\ direction = "OUTPUT"
                                   THEN address ELSE out[q].address
            /\ out'[q].protocol = IF q = p THEN protocol ELSE out[q].protocol
  BY <1>1, <1>2, ArtNet!SetPortSettles, ArtNetConstants, ZenonT(120)
<1>6. Sacn!IsConfigurable /\ SetUniverse4(p, isActive, protocol, address)
  BY <1>3 DEF SetPort, Sacn!IsConfigurable
<1> HIDE DEF isActive
<1>7. isActive \in BOOLEAN
  BY DEF isActive
<1>8. /\ Sacn!TypeOK' /\ Sacn!OutputUniversesJoined' /\ SameFlags(port', port)
      /\ \A q \in Ports : q # p => port'[q] = port[q]
      /\ port'[p].direction = "OUTPUT"
         => port[p].direction = "OUTPUT" \/ (isActive /\ protocol = "SACN")
      /\ isActive /\ protocol = "SACN" /\ UniverseOf(address) # 0
         => port'[p].direction = "OUTPUT"
  BY <1>1, <1>3, <1>6, <1>7, SetUniverse4Moves
<1>9. port[p].direction # "OUTPUT"
  BY <1>1 DEF IInv, Placed
<1>10. TypeOK'
  BY <1>1, <1>4, <1>8 DEF IInv, TypeOK
<1>11. Placed'
  BY <1>5, <1>8, <1>9 DEF IInv, Placed, isActive
<1>12. Given'
  BY <1>5, <1>8, UniverseOfType DEF IInv, Given, isActive
<1>13. OwnPorts'
  BY <1>1, <1>5, <1>8, <1>9 DEF IInv, OwnPorts
<1> QED
  BY <1>5, <1>8, <1>10, <1>11, <1>12, <1>13, ArtNetSettles DEF Keeps, IInv

\* A merge mode that is configured is assigned by both.
LEMMA SetMergeModeKeeps ==
    ASSUME IInv, NEW p \in Ports, NEW mergeMode \in MergeModes,
           SetMergeMode(p, mergeMode)
    PROVE  Keeps
<1> DEFINE direction == out[p].direction
           address == out[p].address
           protocol == out[p].protocol
<1>1. /\ ArtNet!TypeOK /\ Sacn!TypeOK /\ Sacn!SetMergeMode(p, mergeMode)
      /\ direction \in {"OUTPUT", "DISABLE"}
      /\ address \in PortAddresses \cup {0}
      /\ protocol \in Protocols \cup {"ARTNET"}
      /\ released' = released
  BY DEF IInv, TypeOK, ArtNet!TypeOK, ArtNet!OutputPort, SetMergeMode
<1> HIDE DEF direction, address, protocol
<1>2. ArtNet!SetPort(p, direction, address, mergeMode, protocol)
  BY DEF SetMergeMode, direction, address, protocol
<1>3. ArtNet!TypeOK'
  BY <1>1, <1>2, ArtNet!ConfigurationType, ArtNetConstants
<1>4. /\ ArtNet!StepSettles
      /\ \A q \in Ports :
            /\ out'[q].direction = IF q = p THEN direction ELSE out[q].direction
            /\ out'[q].address = IF q = p /\ direction = "OUTPUT"
                                   THEN address ELSE out[q].address
            /\ out'[q].protocol = IF q = p THEN protocol ELSE out[q].protocol
  BY <1>1, <1>2, ArtNet!SetPortSettles, ArtNetConstants
<1>5. ArtNet!StepKeepsPlaces
  BY <1>4 DEF ArtNet!StepKeepsPlaces, direction, address, protocol
<1>6. Sacn!TypeOK'
  BY <1>1, Sacn!NextType, SacnConstants DEF Sacn!Next
<1>7. Sacn!StepStays /\ SameFlags(port', port)
  <2>1. Sacn!StepStays
    BY <1>1, Sacn!SetMergeModeSettles, SacnConstants
  <2>2. SameFlags(port', port)
    BY <1>1 DEF SameFlags, Sacn!TypeOK, Sacn!SetMergeMode, Sacn!OutputPort
  <2> QED
    BY <2>1, <2>2
<1>8. TypeOK'
  BY <1>1, <1>3, <1>6 DEF IInv, TypeOK
<1> QED
  BY <1>1, <1>4, <1>5, <1>7, <1>8, StaysInPlace, ArtNetSettles DEF Keeps

\* Steps that leave ports, light and groups alone: a failsafe is configured,
\* the node starts.
LEMMA QuietKeeps ==
    ASSUME IInv, TypeOK', UNCHANGED <<out, port, light, groups, released>>
    PROVE  Keeps
<1>1. ArtNet!StepKeepsPlaces /\ ArtNet!StepSettles
  BY DEF ArtNet!StepKeepsPlaces, ArtNet!StepSettles
<1>2. Sacn!StepStays /\ SameFlags(port', port)
  BY DEF SameFlags, Sacn!StepStays, Sacn!StepKeepsPlaces,
         Sacn!OutputUniversesJoined
<1> QED
  BY <1>1, <1>2, StaysInPlace, ArtNetSettles DEF Keeps

\* Both receivers make a step of their own: the types are kept.
LEMMA BothTypes ==
    ASSUME IInv, ArtNet!Next, Sacn!Next, released' \subseteq Ports
    PROVE  TypeOK'
<1>1. ArtNet!TypeOK /\ Sacn!TypeOK
  BY DEF IInv, TypeOK
<1>2. ArtNet!TypeOK'
  BY <1>1, ArtNet!NextType, ArtNetConstants
<1>3. Sacn!TypeOK'
  BY <1>1, Sacn!NextType, SacnConstants
<1> QED
  BY <1>2, <1>3 DEF TypeOK

LEMMA SetFailSafeKeeps ==
    ASSUME IInv, NEW failsafe \in FailSafes, SetFailSafe(failsafe)
    PROVE  Keeps
<1>1. ArtNet!SetFailSafe(failsafe) /\ Sacn!SetFailSafe(SacnFailSafe(failsafe))
  BY DEF SetFailSafe
<1>2. ArtNet!Next /\ Sacn!Next
  BY <1>1 DEF ArtNet!Next, Sacn!Next
<1>3. TypeOK'
  BY <1>2, BothTypes DEF SetFailSafe, IInv, TypeOK
<1> QED
  BY <1>1, <1>3, QuietKeeps
     DEF SetFailSafe, ArtNet!SetFailSafe, Sacn!SetFailSafe

LEMMA StartBothKeeps ==
    ASSUME IInv, StartBoth
    PROVE  Keeps
<1>1. ArtNet!Next /\ Sacn!Next
  BY DEF StartBoth, ArtNet!Next, Sacn!Next
<1>2. TypeOK'
  BY <1>1, BothTypes DEF StartBoth, IInv, TypeOK
<1> QED
  BY <1>2, QuietKeeps DEF StartBoth, ArtNet!StartNode, Sacn!StartBridge

\* The clock touches ages only.
LEMMA TickKeeps ==
    ASSUME IInv, Tick
    PROVE  Keeps
<1>1. ArtNet!Next /\ Sacn!Next
  BY DEF Tick, ArtNet!Next, Sacn!Next
<1>2. TypeOK'
  BY <1>1, BothTypes DEF Tick, IInv, TypeOK
<1>3. /\ ArtNet!TypeOK /\ ArtNet!Tick
      /\ Sacn!TypeOK /\ Sacn!Tick
  BY DEF Tick, IInv, TypeOK
<1>4. ArtNet!StepSettles /\ ArtNet!StepKeepsPlaces
  BY <1>3, ArtNet!TickSettles, ArtNetConstants
<1>5. Sacn!StepStays /\ SameFlags(port', port)
  <2>1. Sacn!StepStays
    BY <1>3, Sacn!TickSettles, SacnConstants
  <2>2. SameFlags(port', port)
    BY <1>3, ZenonT(60) DEF SameFlags, Sacn!Tick, Sacn!TypeOK, Sacn!OutputPort
  <2> QED
    BY <2>1, <2>2
<1> QED
  BY <1>2, <1>4, <1>5, StaysInPlace, ArtNetSettles DEF Keeps, Tick

\* A node that stops keeps its ports; what it shows does not matter any more.
LEMMA StopBothKeeps ==
    ASSUME IInv, StopBoth
    PROVE  IInv' /\ main' = "halt"
<1>1. ArtNet!Next /\ Sacn!Next
  BY DEF StopBoth, ArtNet!Next, Sacn!Next
<1>2. TypeOK'
  BY <1>1, BothTypes DEF StopBoth, IInv, TypeOK
<1>3. ArtNet!StepKeepsPlaces
  BY ArtNet!StopNodePlaces, ArtNetConstants DEF StopBoth, IInv, TypeOK
<1>4. Sacn!StepStays /\ main' = "halt"
  BY DEF StopBoth, Sacn!StopBridge, Sacn!StepStays, Sacn!StepKeepsPlaces,
         Sacn!OutputUniversesJoined
<1> QED
  BY <1>2, <1>3, <1>4, StaysInPlace DEF StopBoth

\* A node that boots has no port yet.
NoPort ==
    /\ out = [p \in Ports |-> ArtNet!PortAtBoot]
    /\ port = [p \in Ports |-> Sacn!PortAtBoot]

LEMMA NoPortPlaced ==
    ASSUME TypeOK, NoPort
    PROVE  IInv
BY DEF NoPort, IInv, Placed, Given, OwnPorts, Sacn!OutputUniversesJoined,
       ArtNet!PortAtBoot, Sacn!PortAtBoot

LEMMA RebootKeeps ==
    ASSUME IInv, Reboot
    PROVE  IInv' /\ NoPort'
<1>1. ArtNet!Next /\ Sacn!Next
  BY DEF Reboot, ArtNet!Next, Sacn!Next
<1>2. TypeOK'
  BY <1>1, BothTypes DEF Reboot
<1>3. NoPort'
  BY DEF NoPort, Reboot, ArtNet!Reboot, Sacn!Reboot, ArtNet!PortAtBoot,
         ArtNet!NoSource, Sacn!PortAtBoot, Sacn!NoSource, Sacn!NoUniverse
<1>4. IInv'
  BY <1>2, <1>3
     DEF NoPort, IInv, Placed, Given, OwnPorts, Sacn!OutputUniversesJoined,
         ArtNet!PortAtBoot, ArtNet!NoSource, Sacn!PortAtBoot, Sacn!NoSource,
         Sacn!NoUniverse
<1> QED
  BY <1>3, <1>4

LEMMA InitPlaced == Init => IInv /\ NoPort
<1> SUFFICES ASSUME Init
             PROVE  IInv /\ NoPort
  OBVIOUS
<1>1. ArtNet!TypeOK
  BY ArtNet!BootType, ArtNetConstants DEF Init, ArtNet!Init, ArtNet!TypeOK
<1>2. Sacn!TypeOK
  BY Sacn!InitType, SacnConstants DEF Init
<1>3. TypeOK /\ NoPort
  BY <1>1, <1>2 DEF Init, TypeOK, NoPort, ArtNet!Init, Sacn!Init
<1> QED
  BY <1>3, NoPortPlaced

-----------------------------------------------------------------------------
(* Every step *)

\* Every step but the end of a run keeps what the lemmas above keep.
LEMMA NextKeeps ==
    ASSUME IInv, [Next]_vars
    PROVE  \/ Keeps
           \/ IInv' /\ main' = "halt"
           \/ IInv' /\ Reboot
<1>1. CASE ArtNetRun
  BY <1>1, ArtNetRunKeeps
<1>2. CASE SacnRun
  BY <1>2, SacnRunKeeps
<1>3. CASE HandleAddress
  <2>1. PICK p \in Ports :
            \/ \E address \in PortAddresses : \/ SwitchUniverse(p, address)
                                              \/ SwitchSubnetOrNet(p, address)
            \/ \E protocol \in Protocols : SelectProtocol(p, protocol)
            \/ \E command \in ArtNetCommands : CommandArtNet(p, command)
            \/ \E mergeMode \in MergeModes : CommandMergeMode(p, mergeMode)
            \/ \E failsafe \in FailSafes : CommandFailSafe(p, failsafe)
            \/ CommandClear(p)
    BY <1>3 DEF HandleAddress
  <2> QED
    BY <2>1, SwitchUniverseKeeps, SwitchSubnetOrNetKeeps, SelectProtocolKeeps,
       CommandArtNetKeeps, CommandMergeModeKeeps, CommandFailSafeKeeps,
       CommandClearKeeps
<1>4. CASE Boot
  BY <1>4, SetPortKeeps, SetMergeModeKeeps, SetFailSafeKeeps, StartBothKeeps
     DEF Boot
<1>5. CASE Tick
  BY <1>5, TickKeeps
<1>6. CASE StopBoth
  BY <1>6, StopBothKeeps
<1>7. CASE Reboot
  BY <1>7, RebootKeeps
<1>8. CASE UNCHANGED vars
  <2>1. UNCHANGED <<main, light, artVars, sacnVars, released>>
    BY <1>8 DEF vars
  <2>2. TypeOK'
    BY <2>1 DEF IInv, TypeOK, artVars, sacnVars, ArtNet!TypeOK, Sacn!TypeOK
  <2> QED
    BY <2>1, <2>2, QuietKeeps DEF artVars, sacnVars
<1> QED
  BY <1>1, <1>2, <1>3, <1>4, <1>5, <1>6, <1>7, <1>8 DEF Next

LEMMA Inductive == Spec => []IInv
<1>1. Init => IInv
  BY InitPlaced
<1>2. IInv /\ [Next]_vars => IInv'
  BY NextKeeps DEF Keeps
<1> QED
  BY <1>1, <1>2, PTL DEF Spec

\* Both receivers keep their types, whatever they do to the merge buffers that
\* they share and to the ports that commands hand from one to the other.
THEOREM NodeTypes == Spec => []TypeOK
<1>1. IInv => TypeOK
  BY IInvIsEnough
<1> QED
  BY <1>1, Inductive, PTL

\* No Art-Net port has the bridge as a second driver, unless ARTNET_SEL has
\* taken it back from sACN.
THEOREM PortsOwned == Spec => []OwnPorts
<1>1. IInv => OwnPorts
  BY IInvIsEnough
<1> QED
  BY <1>1, Inductive, PTL

\* An output under sACN is always driven by the bridge, which has joined the
\* multicast group of its universe, if Port-Address 0 is mapped.
THEOREM SacnListens == Spec => []SacnOutputsListen
<1>1. IInv => SacnOutputsListen
  BY IInvIsEnough
<1> QED
  BY <1>1, Inductive, PTL

-----------------------------------------------------------------------------
(***************************************************************************)
(* OutputIsCurrent of the two receivers together.  When the bridge loses   *)
(* its network, its failsafes OFF and ON write the driver of every port,   *)
(* also of one that Art-Net goes on to drive, and that one is not current  *)
(* until its next packet.  So this is of a node that is never told another *)
(* failsafe than to hold the last look, which is what it boots with.       *)
(***************************************************************************)

Current ==
    \A p \in Ports :
        /\ out[p].IsTransmitting \/ port[p].IsTransmitting
        /\ light[p].filled
        /\ light[p].sent # light[p].data
        => out[p].IsDataPending \/ port[p].IsDataPending

CurrentInv ==
    /\ IInv
    /\ state.failsafe = "HOLD"
    /\ main # "halt" => Current

\* What settles stays current.
LEMMA SettlesIsCurrent ==
    ASSUME Current, Settles
    PROVE  Current'
BY DEF Current, Settles

\* The bridge knows no other failsafe than those it is told, and the first.
LEMMA FailSafeHolds ==
    ASSUME FailSafes \subseteq {"LAST"}, TypeOK
    PROVE  state.failsafe = "HOLD"
BY DEF TypeOK, Sacn!TypeOK, Sacn!State, SacnFailSafe

\* Every step of a node that holds its last look keeps the outputs current.
LEMMA NextCurrent ==
    ASSUME FailSafes \subseteq {"LAST"}, CurrentInv, [Next]_vars
    PROVE  CurrentInv'
<1>1. IInv' /\ TypeOK'
  BY NextKeeps DEF CurrentInv, Keeps, IInv
<1>2. state'.failsafe = "HOLD"
  BY <1>1 DEF TypeOK, Sacn!TypeOK, Sacn!State, SacnFailSafe
<1>3. CASE Reboot
  <2>1. NoPort'
    BY <1>3, RebootKeeps DEF CurrentInv
  <2>2. Current'
    BY <2>1 DEF NoPort, Current, ArtNet!PortAtBoot, ArtNet!NoSource,
                Sacn!PortAtBoot, Sacn!NoSource, Sacn!NoUniverse
  <2> QED
    BY <1>1, <1>2, <2>2 DEF CurrentInv
<1>4. CASE Keeps /\ main # "halt"
  BY <1>1, <1>2, <1>4, SettlesIsCurrent DEF CurrentInv, Keeps
<1>5. CASE main = "halt" /\ ~Reboot
  <2>1. main' = main
    BY <1>5 DEF Next, ArtNetRun, ArtNetStep, SacnRun, SacnStep, HandleAddress,
       Boot, Tick, StopBoth, SwitchUniverse, SwitchSubnetOrNet, SelectProtocol,
       CommandArtNet, CommandMergeMode, CommandFailSafe, CommandClear,
       ArtAddress, SetPort, SetMergeMode, SetFailSafe, StartBoth, vars,
       ArtNet!ReceiveDmx, ArtNet!ReceiveDmxElsewhere, ArtNet!NextPort,
       ArtNet!ReceiveSync, ArtNet!ReceiveOther, ArtNet!PollReply,
       ArtNet!RunIdle, ArtNet!ReceiveAddress, ArtNet!IsRunning,
       ArtNet!SetPort, ArtNet!SetFailSafe, ArtNet!StartNode, ArtNet!StopNode,
       ArtNet!Tick, Sacn!ReceiveData, Sacn!NextPort, Sacn!ReceiveOther,
       Sacn!ReceiveSynchronization, Sacn!RunIdle, Sacn!IsRunning, Sacn!Clear
  <2> QED
    BY <1>1, <1>2, <1>5, <2>1 DEF CurrentInv
<1>6. CASE main' = "halt"
  BY <1>1, <1>2, <1>6 DEF CurrentInv
<1> QED
  BY <1>3, <1>4, <1>5, <1>6, NextKeeps DEF CurrentInv

\* The driver of a port shows what the merge buffer holds, whichever receiver
\* filled it and however they take turns, or the data waits.
THEOREM NodeOutputsCurrentTogether ==
    ASSUME FailSafes \subseteq {"LAST"}
    PROVE  Spec => []OutputIsCurrent
<1>1. Init => CurrentInv
  <2> SUFFICES ASSUME Init
               PROVE  CurrentInv
    OBVIOUS
  <2>1. IInv /\ NoPort
    BY InitPlaced
  <2>2. Current
    BY <2>1 DEF NoPort, Current, ArtNet!PortAtBoot, Sacn!PortAtBoot
  <2> QED
    BY <2>1, <2>2, FailSafeHolds DEF CurrentInv, IInv
<1>2. CurrentInv /\ [Next]_vars => CurrentInv'
  BY NextCurrent
<1>3. CurrentInv => OutputIsCurrent
  BY DEF CurrentInv, Current, OutputIsCurrent
<1> QED
  BY <1>1, <1>2, <1>3, PTL DEF Spec
=============================================================================
