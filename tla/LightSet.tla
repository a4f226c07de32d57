------------------------------ MODULE LightSet ------------------------------
(***************************************************************************)
(* The output stage that the Art-Net node and the sACN bridge share:       *)
(* lightset::Data, the static merge buffer of every output port, and       *)
(* DmxSend, the LightSet that hands the buffers to the DMX driver.         *)
(*                                                                         *)
(* The module has no variables.  A "light" is a function from ports to     *)
(* LightPort records, and every operator is one method call: it takes the  *)
(* light before the call and yields the light after it.                    *)
(***************************************************************************)
EXTENDS Naturals

CONSTANTS
    Ports,      \* indices of the output ports, 0 .. LIGHTSET_PORTS - 1
    MaxLevel,   \* value of a slot at full (255 in the code)
    MergeModes  \* the merge modes ports are set to

ASSUME PortsAssumption == Ports \subseteq Nat
ASSUME MaxLevelAssumption == MaxLevel \in Nat
ASSUME MergeModesAssumption == MergeModes \subseteq {"HTP", "LTP"}

(***************************************************************************)
(* One DMX slot stands for the 512 of a universe: slots never interact.    *)
(***************************************************************************)
Levels == 0 .. MaxLevel

\* A frame without slots: the driver's state before the first data.
NoSlots == MaxLevel + 1

(***************************************************************************)
(* a, b     last data of source A and of source B                          *)
(* data     the merged data                                                *)
(* filled   nLength # 0                                                    *)
(* started  the port's bit of DmxSend::m_nStarted                          *)
(* sent     what Dmx::SetSendDataWithoutSC was last called with            *)
(***************************************************************************)
LightPort == [a : Levels, b : Levels, data : Levels, filled : BOOLEAN,
              started : BOOLEAN, sent : Levels \cup {NoSlots}]

LightAtBoot ==
    [p \in Ports |-> [a |-> 0, b |-> 0, data |-> 0, filled |-> FALSE,
                      started |-> FALSE, sent |-> NoSlots]]

-----------------------------------------------------------------------------
(* lightset::Data *)

Highest(x, y) == IF x >= y THEN x ELSE y

\* IMergeSourceA: LTP, also used by SetSourceA, copies the new data.
MergeSourceA(light, p, level, mergeMode) ==
    [light EXCEPT ![p].a = level,
                  ![p].filled = TRUE,
                  ![p].data = IF mergeMode = "HTP"
                                THEN Highest(level, light[p].b)
                                ELSE level]

\* IMergeSourceB
MergeSourceB(light, p, level, mergeMode) ==
    [light EXCEPT ![p].b = level,
                  ![p].filled = TRUE,
                  ![p].data = IF mergeMode = "HTP"
                                THEN Highest(light[p].a, level)
                                ELSE level]

\* Mutant: the length of every port is cleared.
ClearLengthOfAll(light, S) == [p \in Ports |-> [light[p] EXCEPT !.filled = FALSE]]

\* Mutant: the length is left as it is.
ClearLengthOfNone(light, S) == light

\* IClearLength, of every port in S
ClearLength(light, S) ==
    [p \in Ports |-> [light[p] EXCEPT !.filled = @ /\ p \notin S]]

-----------------------------------------------------------------------------
(* DmxSend *)

\* What the driver is handed of a merge buffer: a frame without slots when the
\* length is zero, which only assertions rule out.
Frame(light, p) == IF light[p].filled THEN light[p].data ELSE NoSlots

\* IOutput, then SetData with doUpdate; without doUpdate SetData does nothing.
Output(light, p) == [light EXCEPT ![p].sent = Frame(light, p)]

\* IOutputClear
OutputClear(light, p) ==
    [light EXCEPT ![p].data = 0, ![p].filled = TRUE, ![p].sent = 0]

Start(light, p) == [light EXCEPT ![p].started = TRUE]

Stop(light, S) ==
    [p \in Ports |-> [light[p] EXCEPT !.started = @ /\ p \notin S]]

\* Mutant: Sync() does not start the ports it hands data to.
SyncWithoutStart(light, pending) ==
    [p \in Ports |-> [light[p] EXCEPT
        !.sent   = IF p \in pending THEN Frame(light, p) ELSE @,
        !.filled = FALSE]]

(***************************************************************************)
(* Sync(p) for every pending port, then Sync(): each port whose length is  *)
(* not zero is started and its length is cleared, pending or not.          *)
(***************************************************************************)
Sync(light, pending) ==
    [p \in Ports |-> [light[p] EXCEPT
        !.sent    = IF p \in pending THEN Frame(light, p) ELSE @,
        !.started = @ \/ light[p].filled,
        !.filled  = FALSE]]

\* Dmx::Blackout writes every transmitting port's driver buffer, Dmx::FullOn
\* too: the merge buffers keep their data.
AllTo(light, level) ==
    [p \in Ports |-> [light[p] EXCEPT
        !.sent = IF light[p].started THEN level ELSE @]]

Blackout(light) == AllTo(light, 0)

FullOn(light) == AllTo(light, MaxLevel)
=============================================================================
