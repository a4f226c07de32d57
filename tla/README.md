# Orange Pi Zero front panel nodes: specifications and proofs

The firmware under `src/` turns a small board into an Art-Net 4 and sACN (E1.31)
node: it receives DMX data from the network, merges the streams of up to two
sources for each port, and drives DMX lines or LED pixels; it discovers RDM
devices on those lines, takes its address from DHCP or claims a static one,
serves a web page, and keeps its settings in flash memory. This directory holds
TLA+ modules of that core, the TLC configurations that check them on small
instances, and proofs that TLAPS checks.

## 1. Inventory

One main loop (`opi_emac_artnet_dmx/firmware/main.cpp`, lines 218-232) calls
`Run` of every service in turn. Nothing blocks for long, and apart from the
interrupt handlers of the DMX drivers nothing runs concurrently: what is hard is
the order in which packets, timeouts, interrupts and commands meet, state that
two services share, and what a power loss leaves behind.

| Component | State | Operations | Hard part |
|---|---|---|---|
| E1.31 bridge (`lib-e131/src/node`) | per port two source slots, merging, transmitting, pending; per node priority, synchronization, data loss | data, synchronization and other packets, idle run, universe, merge mode, failsafe, clear, start, stop | flags of node and ports that must agree after any order of events; stale slots; shared multicast groups |
| LightSet (`lib-lightset`, `lib-dmx/include/dmxsend.h`) | merge buffer, length and start bit of each port | merge, output, clear, start, stop, sync, blackout | a length of 0 means "nothing to send", and both receivers write it |
| Art-Net node (`lib-artnet/src/node`) | the same for Art-Net: slots with physical port, synchronous mode, merge bit, failsafe scene | ArtDmx, ArtSync, ArtAddress, ArtPoll's reply, idle run | expired slots, merge cancel, synchronous mode |
| Both together (`node/4`) | which receiver owns a port | select Art-Net or sACN, universes, commands for both | two receivers over one merge buffer and one LightSet |
| DMX driver of the H3 (`lib-dmx/src/h3/single`) | transmit state, UART buffer, timer | two interrupts, SetData, StartOutput, StopData, output style | interrupts against a main loop that spins on their state |
| RDM discovery (`lib-rdm`, `lib-artnet`) | stack of UID ranges, table of devices | one state a call of `Process`, full and background search, flush | answers that collide, come late, get lost, or belong to a controller's own request |
| Configuration store (`lib-configstore`) | RAM image, flash sector, flush state, device state | update, delay, flush step, factory reset, reboot | power loss between erase and write; a change during a save |
| TCP and web server (`lib-network/src/net/tcp.cpp`, `lib-remoteconfig/src/httpd`) | control blocks, one receive queue a port, one handler a control block, one shared answer buffer | segments, read, write | lost, repeated and reordered segments; control blocks used again |
| DHCP, conflict detection (`lib-network/src/net`) | client and detector states, software timers | packets, timers, SetIp, EnableDhcp | late answers; timers that both share and leak |
| IGMP | table of groups with timers | join, leave, query, timer, new address | reports that must follow an address change |
| Everything else | tables, registers, texts | | see section 6 |

What makes these parts correct:

- a port shows the merge of the sources it listens to; data that waits for
  synchronization is released with that of all other ports;
- no source counts twice, no source of a lower priority gets in while a better
  one lives, and none is locked out after it is gone;
- after silence every output leaves the transmitting state, the node's own
  state is as after boot, and no level of the old stream is met again;
- a port's multicast group stays joined as long as the port wants it, and every
  joined group is reported from the address the node has;
- a DMX frame on the line never mixes two packets, RDM has the line for itself,
  and the newest data reaches the fixtures;
- discovery finds every device that stays and publishes none that left;
- what the program reads after a restart is, setting by setting, what was saved
  or was being saved, and at rest everything is saved;
- a web client's messages are read in order, once.

PROJECT.json lists the components one by one and, under "hazards", what in this
code is hard to test, each at its line.

## 2. Plan

| | Module | Contents | State |
|---|---|---|---|
| 1 | `LightSet`, `E131Bridge` | merge buffers; the sACN receiver | modelled, checked, proved |
| 2 | `ArtNetNode` | the Art-Net receiver over the same `LightSet` | modelled, checked, invariants proved |
| 3 | `Node` | both receivers with one light; protocol switching | modelled, checked, invariants proved |
| 4 | `Settings`, `ConfigStore` | what a store promises; the flush state machine with power loss | modelled, checked, refinement proved |
| 5 | `Address`, `Igmp`, `Network` | address acquisition, group table, both composed | modelled, checked, proved |
| 6 | `Tcp`, `WebServer` | control blocks and queue; the web server over them | modelled, checked, proved |
| 7 | `RdmDiscovery` | UID search and table of devices | modelled, checked, invariants proved |
| 8 | `Dmx` | driver and interrupts below DmxSend | modelled, checked, invariants proved |

Modules with proofs, and the modules they extend, use no RECURSIVE operator.

## 3. The modules

### LightSet, E131Bridge, ArtNetNode

`LightSet` models `lightset::Data` and `DmxSend`. It has no variables: a "light"
is a function from ports to records, and each operator is one method. A DMX slot
stands for the 512 of a universe because no operation mixes slots. `sent` is
what the driver was last handed; the value `NoSlots` is a frame of length 0.

`E131Bridge` models the class `E131Bridge`, in the build of a pixel or output
node: release (NDEBUG, so assertions do nothing), ports that are outputs or
disabled (no `E131_HAVE_DMXIN`), `DmxSend` as LightSet. Methods are operators on
the record `this` of the members, so that an action reads like the handler: a
pipeline of the calls it makes.

| Variable | In the code |
|---|---|
| `main` | where `main()` is: boot, loop, or halted for a reboot |
| `state` | `m_State`; `packetAge` and `syncAge` are the ages of the two times kept |
| `port` | `m_Bridge.Port` and `m_OutputPort` |
| `light` | `lightset::Data` and `DmxSend` |
| `groups` | the multicast groups the socket has joined |
| `frame`, `rest` | the receive buffer and what is left of HandleDmx's loop |

Actions: `ReceiveData` and `NextPort` are `Process` with `HandleDmx` (one action
a port, because the loop serves them one after the other), `ReceiveSynchronization`
and `ReceiveOther` the other packets, `RunIdle` a call of `Run` without one, `Tick` the
passing of time; `SetUniverse`, `SetMergeMode`, `SetFailSafe` and `Clear` what
an Art-Net controller may call between two runs; `StartBridge`, `StopBridge`,
`Reboot` the life of the firmware. Times are kept as ages that saturate just
above the largest timeout they are compared with, which no comparison can
notice. A source is an IP address with a CID, a model value.
`PLAYBACK` as failsafe reaches `__builtin_unreachable()`: every case of the
switch is an outcome.

Environment: packets of any sender, priority, option bits and synchronization
address arrive at any time, out of sequence too. Addresses and universes are
what `SetUniverse4` can pass: a universe of 0 never reaches the bridge.

`ArtNetNode` models the class `ArtNetNode` in the same style and build, with
the failsafe scene in flash (`ARTNET_HAVE_FAILSAFE_RECORD`).

| Variable | In the code |
|---|---|
| `main` | as above |
| `node` | `m_State`, the failsafe of Status3, the ages of the last packet and the last ArtSync |
| `out` | `m_Node.Port` and `m_OutputPort`, with the two source slots |
| `light` | `lightset::Data` and `DmxSend` |
| `scene` | the failsafe scene; it survives `Reboot` |
| `frame`, `rest` | the ArtDmx packet and what is left of HandleDmx's loop |

Actions: `ReceiveDmx` and `NextPort` are `Process` with `HandleDmx`, one action a
port; `ReceiveDmxElsewhere` is ArtDmx for an address no port has, `ReceiveSync`
ArtSync, `ReceiveAddress` ArtAddress with one command and one address change (a change of the
output style is the command STYLE, which ends synchronous mode),
`ReceiveOther` every packet that only restarts the times, `PollReply` a delayed
reply to ArtPoll, which writes the merging bit of sACN ports back; `RunIdle`,
`Tick`, `SetPort`, `SetFailSafe`, `StartNode`, `StopNode` and `Reboot` as for
the bridge. `StartNode` sets the failsafe to LAST, because `Start` assigns
`Status3`.

A slot is given up by writing 0 to its IP address alone: the physical port of the
old source stays, and the module keeps it too, since the decision who is a new
source reads it. `HasSource` is the code's sum of IP addresses: two addresses of
one subnet never add up to 0.

### Node

`ArtNetNode` inherits from `E131Bridge`, so one object has both receivers, one
set of merge buffers and one LightSet. `Node` instantiates both modules over the
same `main` and `light`. Its own actions are what crosses the border:
`SwitchUniverse`, `SelectProtocol`, `CommandMergeMode`, `CommandFailSafe` and
`CommandClear` are commands of ArtAddress with the calls they make of the bridge
in the same step (`SetUniverse4`, `SetMergeMode`, `SetFailSafe`, `Clear`), and
the merging bit in a reply is the bridge's own. `ArtNetNode::Run` is its `Process`
and then `E131Bridge::Run`; here the two take turns in any order, which allows
more, but a loop over the ports ends before anything else is done. `released`
is history: the ports that ARTNET_SEL took back, of which the bridge is not told,
because `SelectProtocol` assigns the protocol before `SetUniverse4` reads it.

### Settings, ConfigStore

`Settings` is the abstract promise: settings change; a step of a save leaves of
each setting what was kept, what is to be kept, or a default; the end of a save keeps
all of them as they are then; a reboot that is asked for waits for that, and a power loss
brings back what is kept at that moment. It does not promise that a save is all or
nothing, and the code does not do that. `ConfigStore`
models the class: `ram` (`s_SpiFlashData`), `flash`, `state` (`s_State`), and
`device`, the progress of the store device's own Erase and Write: the SPI flash and
the EEPROM in one call, the file block by block, the GD32's flash page by page
and word by word. Of the many stores in the image two stand for all, which
between them have every kind of field: with and without a bit in a set list,
shared words, and the label that ArtAddress sets without its bit. `Restart` may
happen between any two steps. `whole` and `boot` are history. The refinement mapping takes
`~whole` for a save under way, and for what is kept what a start would make of `flash`.

### Address, Igmp, Network

`Address` is the DHCP client, the conflict detection of a static address, and the
table of software timers both draw from, in the build of the H3: neither
`CONFIG_NET_DHCP_USE_ACD` nor any `ENET_LINK_CHECK` is defined, so the link is
read once and an ACK binds at once. What was sent to servers stays in `sent` and
may be answered at any time and again. The detector's time is counted in seconds, so that its first wait,
random and shorter than one, is 0. `Igmp` is the table of groups.
`Network` EXTENDS the first and instantiates the second: `netif_do_set_ipaddr`
hands a new address to IGMP in the same step.

### Tcp, WebServer

`Tcp` is `tcp.cpp` as a server: control blocks `tcbs`, the receive `queue` of one
port, and the segment processing as operators (`Listen`, `Unacceptable`,
`Synchronized`, `TextAndFin`, `Fin`, `TcpRun`) from a control block and a
segment to a control block, segments to send, and data. `arriving` and `leaving`
are sets that only grow: a segment may be lost, repeated, delayed and reordered.
The clients at the other end are correct TCP. Sequence numbers count modulo
`Modulus`, 2^32 in the code; a message is one number long, which the constants
respect; a connection takes less than half of the numbers
(`NumbersAssumption`). `before` is history: how much was read of a client before its
connection was opened. `WebServer` adds `HttpDaemon::Run` with one handler for each control
block and the buffer they share; `net_handle` and it take turns.

### RdmDiscovery

`Process` of `RDMDiscovery`, one action a case of the switch, over a `line` of answers that
are received and not yet read. Requests reach all devices but those they are
lost to; answers may come late, collide, or be cut off. The Art-Net node starts,
stops and publishes discovery, and passes ArtRdm to the same line (`gateway`).
`past` is history, and also counts the losses and moves that are left. What a search
needs to succeed is assumed of the constants: fewer losses during one discovery than
the smallest counter (`LossesAssumption`), a table with room for all devices
(`TableAssumption`), and a stack with room for the halvings of a UID
(`StackAssumption`: 48 bits and 200 entries in the code). The first two say of which
environments discovery promises something; the third is a fact of the code.

### Dmx

The transmitting half of the H3's single-port driver: MAIN, the timer interrupt
(`Timer`), the UART's interrupt (`Transmit`) and the UART (`Shift`) interleave. A call of MAIN that spins is several
steps: `SetData`, `WaitOver`, `CopyPacket` are one packet; `SeeInter`, `EndCycle` and one
of `RestartContinuous`, `RdmSendRaw`, `StartAgain` are StopData in its callers.
`fixtures` is what the receivers on the line have understood. `asked` and `frame` are history:
who wrote the memory last, how long that packet was and whether its last slot is cut off; and what the memory
held when the present frame began. `StartDmxOutput` may begin a break while the UART still holds
the end of the last frame, which is thrown away: the receivers then see a frame that ends early.
Two assumptions on time are in the guards: two instructions of MAIN that follow
each other closely are closer than a break or a mark (`MainIsQuick`), and the time
between frames is longer than the UART's buffer takes to empty (`BeginBreak`).

### Proof modules

`E131BridgeProofs`, `ArtNetNodeProofs`, `NodeProofs`, `ConfigStoreProofs`,
`NetworkProofs`, `WebServerProofs`, `DmxProofs`, `RdmDiscoveryProofs`. `Node`
instantiates the proof modules of its two receivers instead of the receivers, so that
`NodeProofs` can cite their theorems (`ArtNet!...`, `Sacn!...`) for the variables and constants
of the node; for TLC it makes no difference. The MC modules only give constants their values;
symmetry is used for controllers and for groups, which are only compared with
each other, and never where liveness is checked.

## 4. What TLC checks

| Run | Instance | Shows |
|---|---|---|
| `bridge_one` | 1 port, 3 sources, 2 priorities, HTP, terminated and preview streams, timeouts 1/2/2 | types; no source in both slots; a priority falls only to silence; silence ends every transmission |
| `bridge_two` | 2 ports, 2 universes, 1 source, synchronization address 2, force bit | starts, kept data, what the loss leaves, joined groups, current output, synchronized release |
| `artnet_one` | 1 port, 3 controllers with 2 physical ports each, timeouts 1/1/1 | types; the slots of a port differ; a controller is turned away for two live streams only |
| `artnet_two` | 2 ports of one address, 1 controller, 2 levels, failsafe PLAYBACK | current output, synchronized release, silence frees the slots |
| `node_both` | 1 port, 2 addresses, both protocols with synchronization, CLR | a port under sACN listens to a joined universe; the shared buffer is shown or waits |
| `node_two` | 2 ports of one address, every kind of command | the bridge drives the ports under sACN only, and those taken back |
| `store_saves` | 4 devices, pages of 4 and blocks of 3 of 7 words, 2 values | idle means saved; no word programmed twice; saves end; implements `Settings` |
| `network_addresses` | 2 servers, a static and a secondary address, 2 groups, table of 2, 3 timers | types; requests name offers; waiting is timed; members kept; groups announced; probed before use |
| `web_serves` | 2 clients, 2 control blocks, numbers modulo 32, 2 messages, 2 connections | messages read in order; what is acknowledged is read or waits; only what was sent is acknowledged |
| `rdm_finds` | UIDs 0 to 6, 2 devices, counters and stack of 3, 2 losses, 1 move | none forgotten, no ghosts, branches fit the stack, discovery ends |
| `dmx_sends` | frames of 1 to 3 slots, UART buffer of 2, sessions with RDM and with styles | frames are of one packet, RDM has the line, calls return, the newest data is shown |
| `dmx_failsafe` | the same, packets and failsafe only | expected violation: Blackout and FullOn never start the output in the delta style |

Why the bounds are enough to be of interest. Ports interact through the node's
flags and the groups, and two of them show every pair. Two sources fill the slots and a third competes
for them. The priority rule compares two priorities, the current and the packet's; LOWEST is one of them. Two universes that are also
synchronization addresses give every way of sharing a group. Timeouts of 1 and 2
ticks order network loss before merge and priority timeouts; a difference of a tick
decides the comparisons with `>` and `>=`. Two levels let merges differ.
The sequence modulus of 256 is cut to 2. In `Node` timeouts of 0 make everything time out that
can. A page of 4 and a block of 3 split an image of 7 words unevenly in both
ways. UIDs 0 to 6 need three halvings to tell 2 from 3 apart, for which
a stack of 3 is just enough, as one of 48 is for 48 bits (the code has 200). A UART buffer of 2 with up to 4 bytes a frame (start code
included) has frames that fit it whole, that fill it twice and that end within it.

The ports of the Art-Net runs stay under Art-Net (`Protocols`): with both protocols
`DiscardedForTwoLive` fails on two ports, because a reply to ArtPoll clears the
merging bit of a port under sACN, and back under Art-Net the timeouts of its slots
are not looked at any more. RDM and a change of style are kept in sessions apart: together
`SetOutputStyle` leaves a started port in state IDLE, StopData then stops nothing,
and MAIN may spin for ever. `OutputIsCurrent` of `Node` is checked, and
proved, with the failsafe LAST: when the bridge loses its network, OFF and ON write the
driver of every port, also of one that Art-Net drives, whose buffer goes on to hold other data.
Two ports, one under each protocol, and a CLR of the first are enough to see it. `NewestIsShown` allows for three more things: a frame
that the UART takes whole stops the continuous output for good (`Stalled`); packets that come
faster than frames cut one another's last slots off (`Overtaken`); and of a packet that is one slot
longer than the one before the last slot is not sent, because the length of a frame is
compared with that of a packet (`IsCutOff`, `dmx.cpp:813`). What it says of all other slots is measured by
the packet's length, not by the driver's.

A web client's second message is never stored while the first one waits, and not because of the window: a
segment closes only part of it, and nothing looks at it. It is the main loop, which handles one packet
and then lets the application read, that keeps the ring of two entries from overflowing; `Handle` has
that schedule, and the mutant of `AcknowledgedIsKept` takes it away.

Deadlock is checked in all runs but `web_serves`, where all clients may be done.

### Fairness

`main()` calls `Run` without end and never blocks, so a loop over ports in
progress goes on (`NextPort`), time passes (`Tick`), and a `Run` without a
packet in which the timeout is due happens in the end (`RunIdle`: if packets
never leave room for one, the packets themselves reset the age). No packet is
assumed to arrive, and no command to be given. `Process` of discovery, and `Flash` and the reboot of the store, are calls of
the same loop: weak fairness. In `Dmx` the hardware goes on (weak fairness of
`Timer`, `Transmit`, `Shift`), and `MainGoesOn` is strongly fair: MAIN polls the
transmit state every few microseconds, and a time between frames lasts much
longer, so that it cannot miss every one.

### What the code does against a comment, or against expectation

These were met while modelling; the modules state most of them as properties that TLC
refutes, and no run of the project repeats them, but for `dmx_failsafe`.

- `FramesHaveSlots` (assert, `dmxsend.h:99`): after a loss a synchronization packet
  hands the driver a frame without slots.
- `TerminationEntersLoss` (`e131bridge.cpp:459`): a terminated stream empties one slot only.
- `LossForgetsSources`: the loss frees the slots and ends the merges of ports that transmit
  only (`e131bridge.cpp:604`); what remains on the others is met by the next stream.
- `MergingHasTwoSources`: the merging bit survives the merge.
- `DiscardedForTwoOthers`: "More than two sources" is reported with one slot free.
- `SynchronousDataIsBuffered`: in synchronous mode, the data of a single source is not
  held back while the merge bit stands.
- `SelectedProtocolDrives` (`artnet.h` on ARTNET_SEL): sACN data still reaches the port.
- `AcknowledgedIsReceived`: a FIN that overtakes data is acknowledged, and with it
  the data (`tcp.cpp:1031`). `WritesHaveContent`, `BodiesFollowTheirHeaders`: a
  POST that carries no body is answered with what the last answer left, and a control block
  used again takes another client's message for the body.
- `ReadsOnce`: a control block takes its initial sequence number when it is
  initialised (`_init_tcb`, `tcp.cpp:314`), not when it is used, so two that are free
  since boot share it, and the repeated SYN, acknowledgement and data of a client that
  is done are read a second time over the other one. Within a connection a message is
  read once: that is `ReadsInOrder`, and proved.
- `RebootKeepsModes`: an uninitialized merge mode is saved (`artnetparams.cpp`).
- `NamesAreGiven`: power lost in the middle of a write leaves the set list of a store that
  announces a name, and no name.
- `FramesAreComplete`: a packet throws away what the UART still holds of the frame before (`dmx.cpp:473`).
- `AllOfNewestIsShown`: the slot that `IsCutOff` excepts is not sent.
- Another host that probes for the address the node probes for is a conflict by the comment
  at `acd.cpp:250`. The condition below compares the hardware address for being the node's own and asks for
  a sender's address, which a probe does not have: the packet changes nothing, and
  `Conflict` has no case for it.

## 5. What is proved

For all values of the constants that satisfy the named assumptions of the
modules, and no others:

| Module | Theorem | Says |
|---|---|---|
| `E131BridgeProofs` | `TypeCorrect` | `Spec => []TypeOK` |
| | `TransmittingStarted` | `Spec => []TransmitImpliesStarted` |
| | `DataKept` | `Spec => []DataIsKept` |
| | `SourcesDistinct` | `Spec => []DistinctSources` |
| | `LossEnds` | `Spec => []LossEndsOutput` |
| | `UniversesJoined` | `Spec => []OutputUniversesJoined` |
| | `OutputsCurrent` | `Spec => []OutputIsCurrent` |
| | `PriorityHeld` | `Spec => PriorityIsHeld` |
| | `HeldBackTogether` | `Spec => SynchronizedTogether` |
| `ArtNetNodeProofs` | `NodeTypeCorrect` | `Spec => []TypeOK` |
| | `StreamsDiffer` | `Spec => []SlotsDiffer` |
| | `NodeOutputsCurrent` | `Spec => []OutputIsCurrent` |
| | `NodeHeldBackTogether` | `Spec => SynchronizedTogether` |
| | `NodeDiscardsForTwoLive` | `Spec => DiscardedForTwoLive`, without sACN ports and with the merge timeout |
| `NodeProofs` | `NodeTypes` | `Spec => []TypeOK` |
| | `PortsOwned` | `Spec => []OwnPorts` |
| | `SacnListens` | `Spec => []SacnOutputsListen` |
| | `NodeOutputsCurrentTogether` | `Spec => []OutputIsCurrent`, with the failsafe LAST |
| `ConfigStoreProofs` | `StoreTypeCorrect` | `Spec => []TypeOK` |
| | `SavedWhenIdle` | `Spec => []IdleIsSaved` |
| | `NeverSpoiled` | `Spec => []NothingSpoiled` |
| | `StoreImplementsSettings` | `Spec => ImplementsSettings` |
| `NetworkProofs` | `NetworkTypeCorrect` | `NetworkSpec => []NetworkTypeOK` |
| | `NetworkImplementsAddress` | `NetworkSpec => Spec` of `Address` |
| | `RequestsNameOffers` | `Spec => []RequestNamesOffer` |
| | `WaitingIsTimed` | `Spec => []WaitsWithTimer` |
| | `ProbedFirst` | `Spec => ProbedBeforeUse` |
| | `MembersKept` | `NetworkSpec => []MembersAreKept` |
| | `GroupsAnnounced` | `NetworkSpec => []GroupsAreAnnounced` |
| `WebServerProofs` | `WebTypeCorrect` | `Spec => []TypeOK` |
| | `ConnectionsReadInOrder` | `Spec => []ReadsInOrder` |
| | `ConnectionsKeepAcknowledged` | `Spec => []AcknowledgedIsKept` |
| | `AcknowledgesOnlySent` | `Spec => []AcknowledgesSent` |
| `DmxProofs` | `DmxTypeCorrect` | `Spec => []TypeOK` |
| | `DmxFramesAreWhole` | `Spec => [](OneUse => FramesAreWhole)` |
| | `DmxRdmHasTheLine` | `Spec => [](OneUse => RdmHasTheLine)` |
| `RdmDiscoveryProofs` | `RdmTypeCorrect` | `Spec => []TypeOK` |
| | `RdmNoneForgotten` | `Spec => []NoneForgotten` |
| | `RdmNoGhosts` | `Spec => []NoGhosts` |
| | `RdmBranchesFit` | `Spec => []BranchesFit` |

**Types.** `TypeCorrect` and `NodeTypeCorrect` go operator by operator: each
method maps a `Bridge` to a `Bridge`, or one of `Nodes` to another. There is one
lemma a method and one step an action.

**The bridge's sources and data.**
`DistinctSources` and `TransmitImpliesStarted` are not inductive. A port may
start to transmit on a synchronization packet, and then it is `DmxSend::Sync`
that starts it, only if its buffer has a length. So one needs that pending data
is still in the buffer or the port already started. Data loss empties buffers,
but only those of ports that transmit, which are started: that is `DataIsKept`,
and it in turn needs that a slot is filled only along with the buffer. The
inductive invariant is the conjunction of the type
invariant, `TransmitImpliesStarted`, `DataIsKept` and `DistinctSources`. Steps
that only take something away (a timeout, a loss) share one lemma: they relate
the bridge before and after by `Weakened`, and what is weakened stays safe.
`DistinctSources` holds because a packet goes to a slot only if its
source is not in the other one, judged on slots as they were before the
timeouts, and timeouts only empty slots.

**The bridge's outputs.** `OutputsInv` adds to the above that the groups of all
output universes are joined, that every port of a bridge that is not halted is
current (also while it boots, since it is about to run), that a loss ends the output, and that a bridge
that lost its network is neither booting nor in the middle of a packet. The last
one makes `LossEndsOutput` inductive: a packet resets the loss flag before it is
served port by port. The methods of HandleDmx are related by `OnlyAt`: they touch the
light and the flags of the port they serve, no universe, no group another port
needs. For `PriorityIsHeld`, which compares two states, `Aged` says that a
slot emptied by the merge timeout in the same packet belonged to a silent source
too, so that the priority fell to silence. It speaks of some port, as the code
does, not of all. For `SynchronizedTogether` `HoldsBack` relates the states before and after: while the
bridge is synchronized nothing is sent to a port that goes on transmitting. `Update`
holds the data back, the failsafe reaches only ports it stops, and what empties all ports
ends the synchronization as well.

**The Art-Net node.** `SlotsDiffer` is inductive given the types, which say that no packet comes from
the address of an empty slot. All but one of the methods fill no slot: the
lemmas `...Keeps` relate the slots before and after by `NoneFilled`, under which slots
go on to differ. `Merge` is the exception: in each case of the code the slot that
takes the packet is filled only if the other one does not hold the same
controller and physical port (`MergeDiffers`). `OutputIsCurrent` is strengthened to nodes that boot;
the lemmas `...Settles` say of each method that, port by port, it leaves light and flags
alone, shows what it wrote (`Update`, CLR), or leaves no data (ArtSync, the loss). `SynchronizedTogether` goes as on the bridge: but for CLR and
for ports that merge, which the property exempts, only an ArtSync sends data, and it
sends that of all ports. For `DiscardedForTwoLive` the invariant `MergesKnown` says that a port
that holds two slots has its merging bit set and the node is in merge mode, because HandleDmx runs
the merge timeouts only then: were it not, a packet would be turned away for a source that is
gone. sACN ports are excluded as there a poll reply overwrites the merging bit, and a node
whose merge timeout is disabled never frees a slot for silence.

**Both together.** Neither receiver's invariant survives the other, which writes the same
buffers: what they say of an empty or a filled one is true of a receiver alone. What does carry over is
what each step does. `StepSettles` (of both proof modules) says that a step leaves a port's buffer and flags as they
are, or the port is current after it; `StepKeepsPlaces` and `StepStays` say that it moves no port
and leaves no group an output needs. `Keeps` is the promise of every action of `Node`
made from these. The invariant itself adds to the types and the joined groups two facts on who drives a
port: `Placed`, that a port the bridge drives is an output of the node and that outputs have an
address, and `Given`, that an output under sACN is driven by the bridge. The second one
needs SetUniverse4 and the order of calls in ArtAddress, and `MapUniverse0`.
`OutputIsCurrent` is strengthened to all states but the halted ones and to a bridge that
holds the last look.

**The store.** `IInv` says where a save stands: `PhaseInv` that the device is at
rest unless the store erases or writes, `ErasedInv` that what the device has erased, and
everything once it is written, is blank, and `WrittenInv` that what it has
written equals RAM, which holds because every change of RAM sends the state back to waiting. Images in
RAM are `Settled` (what a start makes of them is themselves), those in flash `Stored`. Spoiling a
word contradicts `ErasedInv`. For the refinement each action is shown to be a step of
`Settings` or a stutter under the mapping in `ConfigStore`: the end of Write is `EndSave`,
every other step of Erase and Write a `Save`. That needs what a start makes of
torn memory, word by word: a word that is not erased counts only under the signature
(`StartedWord`), so a word that is old must have counted before too. `SignedInv` is the
invariant for it: while a save writes, memory without the signature is all erased, also in the file, where an
Erase that follows a Write broken off spares what had been written.

**The network.** `ClientInv` says that who waits has a transaction, a timeout
and a DISCOVER the servers know, and who requests has the offer of the server it
names. `ProbedBeforeUse` compares two states: the detector's `sent` and `conflicts`
count what it said, and a ranking (`Remaining`: the announcements that are left times their
interval, against `lastconflict`) shows, with `DefendAssumption`, that a second
conflict within the time to defend ends the announcement before the address is taken. The
composition refines `Address` because a step of IGMP leaves its variables alone, so all of this
carries over. For `GroupsAreAnnounced` an entry in use has been reported from
the present address or has its timer running; `IssueReports` starts the timers of all with
the change of address itself.

**The web server.** The inductive invariant follows each control block by a count:
how many messages of its connection were read or wait in the receive queue. RCV.NXT is the
number after them until a FIN is taken (`Counts`), the window is that of no or of one message (`WindowsFit`), what waits
in the queue is the message that was counted last (`QueueCounts`), and no two
control blocks in use have one peer (`TcbsAreDistinct`); on the clients' side, each segment under
way carries the number of its message. `Distance` turns the code's
comparisons, which are of signed differences modulo 2^32, into comparisons of messages: that
is where `NumbersAssumption` is needed. `Outcome` says what the processing of a segment may
return: the control block as it was, advanced by the one message that was next, past
the FIN, or released. The network's part is one lemma
(`Later`): segments only become more, so what was said of one stays true.

**The DMX driver.** `OneUse` excludes sessions with RDM and a change of the output
style, for which both properties are false (section 4); TLC's run makes the same
distinction by its sessions. `FrameControl` ties the transmit state to the UART: only in state
DMXDATA is the buffer filled, break and mark are over an empty one. While MAIN is
between its two instructions (`MainIsQuick`) no mark ends. `FrameContent` adds to
`FramesAreWhole`, in which what the fixtures have understood and what waits in the buffer are slots of
`frame`, that the memory still holds that frame while it is copied to the buffer, in state DMXDATA.
`LineIsFree`
says that a port that is an input, or was stopped, has no frame on the line.

**RDM discovery.** Only a discovery that is `Sound` is claimed anything of: it was not
flushed, and if it is incremental nothing else happens meanwhile. A device that stays and is not in
the table is left (in a branch of the stack, or in the one that is searched), not muted
unless its own mute is under way (`Unmuted`), and will be heard (`WillBeHeard`): the
counter of the state is larger than the losses that are still to come (`Patience`),
so it cannot run out, because each request that goes unheard uses up a loss along with a
count. The invariant has to say what may be on the line, as an answer that is late
would be taken for one that was asked for: `MutesFit` says in which states answers to a
mute are there, that one that came too late is the oldest, and that its device is not
left. `CalmLine` is the same for an incremental search, and `History` follows which entries
were looked at, which gives `NoGhosts`. For `BranchesFit` the
branches of the stack lie one behind the other, the one that is searched behind all of them, and the
i-th is no larger than the i-th of the sizes of `StackAssumption`; `MidPosition` rounds so
that both halves obey the next one.

## 6. Model-checked only, and not modelled

Out of the prover's reach, so checked on the instances alone: liveness and
ENABLED (`SilenceLeadsToLoss`, `SilenceFreesSources`, `SavesEnd`, `SearchEnds`,
`CallsReturn`, `NewestIsShown`), and whatever would need induction over data.

What is proved under a hypothesis of its own is false without it: `DiscardedForTwoLive` needs
a node without sACN ports and with the merge timeout, `OutputIsCurrent` of `Node` the failsafe
LAST, the two properties of `Dmx` sessions of one use.

Not modelled:

- Art-Net node: input ports, time code and triggers, the show file, the LED, the queue of
  delayed replies (a reply comes at any time), names and texts, the RDM responder.
- Bridge: input ports, local merge and discovery packets (`E131_HAVE_DMXIN`), the
  show file, the LED and the "is receiving" bits, which nothing else reads;
  parsing and validation of packets, of which `ReceiveOther` keeps the effect.
- DMX: the receiving half of the driver, the driver for several ports and those
  of other boards; pixels.
- Network: renewal of leases (nothing calls `dhcp_coarse_tmr`), DHCP with conflict
  detection, link-local addresses (`autoip_start` never keeps its object), changes
  of the link, ARP's cache, UDP, NTP, PTP, TFTP, mDNS, headers and checksums.
- TCP: active opens, `tcp_shutdown`, answers longer than a segment. There are no
  retransmission timers in the code, so no retransmission by the server either.
- Store: a flash that fails, the parameters' parsers.
- Displays, sensors, inputs, JTAG, properties, build files, vendored code (FatFs, the STAPL
  player, CMSIS) and the support of other boards: output, data and text, with no
  control that a property could be about. They are most of the repository's lines:
  the modules map a few percent of them.
