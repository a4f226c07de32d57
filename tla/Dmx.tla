-------------------------------- MODULE Dmx --------------------------------
(***************************************************************************)
(* The transmitting half of the driver of the single DMX port of the H3    *)
(* boards (lib-dmx/src/h3/single/dmx.cpp), below DmxSend (dmxsend.h) and   *)
(* the callers that the Art-Net node has for it.                           *)
(*                                                                         *)
(* Four actors share the driver's state.  The MAIN loop writes the data,   *)
(* starts and stops the output, changes its style, and takes the line for  *)
(* RDM; two of its calls spin on the transmit state.  The TIMER interrupt  *)
(* walks the state from the break to the first slots, the UART interrupt   *)
(* (an FIQ, which the timer's handler does not block) refills the UART's   *)
(* buffer, and the UART shifts the buffer out to the fixtures.             *)
(*                                                                         *)
(* Two instructions of MAIN that follow each other closely are apart by    *)
(* much less than the shortest break and mark (92 and 12 microseconds), so *)
(* the timer fires at most once between them: MainIsQuick.                 *)
(***************************************************************************)
EXTENDS Integers, Sequences

CONSTANTS
    MaxSlots,     \* dmx::max::CHANNELS
    FifoSize,     \* what the UART's buffer takes, the start code included
    MaxLevel,     \* the levels of a slot are 0 .. MaxLevel
    Lengths,      \* how many slots the packets have
    Sessions      \* what controllers use in a session: "RDM", "STYLE"

ASSUME DmxAssumption ==
    /\ {MaxSlots, FifoSize} \subseteq Nat \ {0} /\ MaxLevel \in Nat
    /\ Lengths \subseteq 1 .. MaxSlots
    /\ Sessions \subseteq SUBSET {"RDM", "STYLE"}

VARIABLES
    session,        \* what controllers use, fixed for a behaviour
    main,           \* what the main loop is doing
    node,           \* the callers' flags
    direction,      \* s_nPortDirection
    portState,      \* sv_PortState
    style,          \* s_OutputStyle
    state,          \* sv_DmxTransmitState
    data,           \* s_DmxData[0].Data, the start code in element 0
    sendLength,     \* s_nDmxSendDataLength, the start code included
    currentSlot,    \* sv_DmxTransmitCurrentSlot
    timer,          \* timer 0: its handler, and whether it is running
    uart,           \* the UART: interrupts, its buffer, the break bit
    fixtures,       \* what the line's receivers show, and the next slot
    asked,          \* history: who last set the data of a started port, the
                    \* last packet's length, and whether its last slot is lost
    frame           \* history: memory and length as the last frame began

driver == <<direction, portState, style, sendLength, data>>
history == <<asked, frame>>
vars == <<session, main, node, driver, state, currentSlot, timer, uart,
          fixtures, history>>

Memory == 0 .. MaxSlots
Slots == 1 .. MaxSlots
Filled(level) == [k \in Memory |-> IF k = 0 THEN 0 ELSE level]

Calls == {"SetData", "Blackout", "FullOn", "SetOutputStyle", "RdmSend",
          "RdmDone"}
Idle == [at |-> "loop"]

TypeOK ==
    /\ session \in Sessions
    /\ main \in {Idle} \cup
                [at : {"wait", "copy", "stop", "stopping"}, call : Calls,
                 level : 0 .. MaxLevel, length : 0 .. MaxSlots]
    /\ node \in [transmitting : BOOLEAN, started : BOOLEAN,
                 discovering : BOOLEAN]
    /\ direction \in {"INP", "OUTP"}
    /\ portState \in {"IDLE", "TX"}
    /\ style \in {"DELTA", "CONTINOUS"}
    /\ state \in {"IDLE", "BREAK", "MAB", "DMXDATA", "DMXINTER"}
    /\ data \in [Memory -> 0 .. MaxLevel]
    /\ sendLength \in 2 .. MaxSlots + 1
    /\ currentSlot \in 0 .. MaxSlots + 1
    /\ timer \in [handler : {"none", "sender", "receiver"},
                  running : BOOLEAN]
    /\ uart \in [fiq : BOOLEAN, transmit : BOOLEAN, break : BOOLEAN,
                fifo : Seq(0 .. MaxLevel)]
    /\ Len(uart.fifo) <= FifoSize
    /\ fixtures \in [shows : [Slots -> 0 .. MaxLevel],
                     next : 0 .. MaxSlots + 2]
    /\ asked \in [who : {"nobody", "packet", "failsafe"},
                  length : 1 .. MaxSlots, cutOff : BOOLEAN]
    /\ frame \in [data : [Memory -> 0 .. MaxLevel], length : 2 .. MaxSlots + 1]

(***************************************************************************)
(* The UART.  The line's receivers count the slots after a break; they do  *)
(* not see what is shifted out while the break bit is set.                 *)
(***************************************************************************)

\* Slots go to the buffer until it is full or the frame is in it.
Refilled(from) ==
    LET last == IF from + FifoSize < sendLength THEN from + FifoSize
                                                ELSE sendLength
    IN  [slot |-> last,
         fifo |-> [k \in 1 .. last - from |-> data[from + k - 1]]]

Ignoring == MaxSlots + 2

Shift ==
    /\ uart.fifo # <<>>
    /\ uart' = [uart EXCEPT !.fifo = Tail(@)]
    /\ fixtures' =
          IF uart.break \/ fixtures.next = Ignoring THEN fixtures
          ELSE [shows |-> [k \in Slots |-> IF k = fixtures.next
                                             THEN Head(uart.fifo)
                                             ELSE fixtures.shows[k]],
                next |-> fixtures.next + 1]
    /\ UNCHANGED <<session, main, node, driver, state, currentSlot, timer,
                   history>>

(***************************************************************************)
(* The timer interrupt, irq_timer0_dmx_sender.  The timer runs once for    *)
(* each time that it is started.                                           *)
(***************************************************************************)

\* MAIN is between two instructions that follow each other closely: a break
\* or a mark that has begun does not end before the second.
MainIsQuick == main.at \in {"copy", "stopping"}

\* The time between frames is longer than the buffer takes to empty
\* (SetDmxPeriodTime): the break does not begin before.
BeginBreak ==
    /\ state = "DMXINTER" /\ uart.fifo = <<>>
    /\ state' = "BREAK"
    /\ uart' = [uart EXCEPT !.break = TRUE]
    /\ UNCHANGED <<currentSlot, timer, fixtures, frame>>

EndBreak ==
    /\ state = "BREAK" /\ ~MainIsQuick
    /\ state' = "MAB"
    /\ uart' = [uart EXCEPT !.break = FALSE]
    /\ fixtures' = [fixtures EXCEPT !.next = 0]
    /\ UNCHANGED <<currentSlot, timer, frame>>

\* A frame that the buffer takes whole is over here, and in the continuous
\* style nothing starts the timer for the next.
BeginData ==
    /\ state = "MAB" /\ ~MainIsQuick
    /\ timer' = [timer EXCEPT !.running = FALSE]
    /\ LET filled == Refilled(0)
           isWhole == filled.slot = sendLength
       IN  /\ currentSlot' = filled.slot
           /\ uart' = [uart EXCEPT !.fifo = filled.fifo,
                                   !.transmit = ~isWhole
                                       \/ (@ /\ style = "CONTINOUS")]
           /\ state' = IF ~isWhole THEN "DMXDATA"
                       ELSE IF style = "DELTA" THEN "IDLE" ELSE "DMXINTER"
    /\ frame' = [data |-> data, length |-> sendLength]
    /\ UNCHANGED fixtures

\* The timer fires in another state and is not started again.
FireForNothing ==
    /\ state \in {"IDLE", "DMXDATA"}
    /\ timer' = [timer EXCEPT !.running = FALSE]
    /\ UNCHANGED <<state, currentSlot, uart, fixtures, frame>>

Timer ==
    /\ timer.running /\ timer.handler = "sender"
    /\ BeginBreak \/ EndBreak \/ BeginData \/ FireForNothing
    /\ UNCHANGED <<session, main, node, driver, asked>>

(***************************************************************************)
(* The UART's interrupt, fiq_dmx_out_handler: the buffer is empty.         *)
(***************************************************************************)
\* Mutant: the frame's end is seen one slot too late, which is never.
TransmitOneMore ==
    /\ uart.fiq /\ uart.transmit /\ uart.fifo = <<>> /\ direction = "OUTP"
    /\ LET filled == Refilled(currentSlot)
           isLast == filled.slot > sendLength
       IN  /\ currentSlot' = filled.slot
           /\ uart' = [uart EXCEPT !.fifo = filled.fifo,
                                   !.transmit = ~isLast]
           /\ state' = IF ~isLast THEN state
                       ELSE IF style = "DELTA" THEN "IDLE" ELSE "DMXINTER"
           /\ timer' = [timer EXCEPT
                           !.running = @ \/ (isLast /\ style = "CONTINOUS")]
    /\ UNCHANGED <<session, main, node, driver, fixtures, history>>

Transmit ==
    /\ uart.fiq /\ uart.transmit /\ uart.fifo = <<>> /\ direction = "OUTP"
    /\ LET filled == Refilled(currentSlot)
           isLast == filled.slot >= sendLength
       IN  /\ currentSlot' = filled.slot
           /\ uart' = [uart EXCEPT !.fifo = filled.fifo,
                                   !.transmit = ~isLast]
           /\ state' = IF ~isLast THEN state
                       ELSE IF style = "DELTA" THEN "IDLE" ELSE "DMXINTER"
           /\ timer' = [timer EXCEPT
                           !.running = @ \/ (isLast /\ style = "CONTINOUS")]
    /\ UNCHANGED <<session, main, node, driver, fixtures, history>>

(***************************************************************************)
(* The main loop.  A call that spins on the transmit state is several      *)
(* steps; one that does not is one.  StartDmxOutput is atomic: the timer   *)
(* that it starts is a break away.                                         *)
(***************************************************************************)

Loop == main = Idle
Call(at, call, level, length) ==
    main' = [at |-> at, call |-> call, level |-> level, length |-> length]

\* StartDmxOutput: the buffer is reset, and the break begins.
Restarted(u) == [fiq |-> TRUE, transmit |-> FALSE, break |-> TRUE,
                 fifo |-> <<>>]
Sending == [handler |-> "sender", running |-> TRUE]

\* DmxSend::SetData, Blackout and FullOn wait for the time between frames.
SetData(level, length) ==
    /\ Loop
    /\ Call("wait", "SetData", level, length)
    /\ UNCHANGED <<session, node, driver, state, currentSlot, timer, uart,
                   fixtures, history>>

FailSafe(call) ==
    /\ Loop
    /\ Call("wait", call, IF call = "Blackout" THEN 0 ELSE MaxLevel, MaxSlots)
    /\ UNCHANGED <<session, node, driver, state, currentSlot, timer, uart,
                   fixtures, history>>

\* Mutant: the data is written without waiting for the frame's end.
WaitOverAtOnce ==
    /\ main.at = "wait"
    /\ main' = [main EXCEPT !.at = "copy"]
    /\ UNCHANGED <<session, node, driver, state, currentSlot, timer, uart,
                   fixtures, history>>

WaitOver ==
    /\ main.at = "wait" /\ state \in {"IDLE", "DMXINTER"}
    /\ main' = [main EXCEPT !.at = "copy"]
    /\ UNCHANGED <<session, node, driver, state, currentSlot, timer, uart,
                   fixtures, history>>

\* Mutant: the start code is forgotten.
SetLengthWithoutSC(length) ==
    sendLength' = IF length = sendLength THEN sendLength ELSE length

\* The length that SetSendDataWithoutSC compares is without the start code.
SetLength(length) ==
    sendLength' = IF length = sendLength THEN sendLength ELSE length + 1

\* Dmx::StartOutput: in the delta style a frame is sent for each packet.
StartOutput ==
    IF portState = "TX" /\ style = "DELTA" /\ state = "IDLE"
      THEN state' = "BREAK" /\ uart' = Restarted(uart) /\ timer' = Sending
      ELSE UNCHANGED <<state, uart, timer>>

\* The packet is output, and then the port is started if it was not.
CopyPacket ==
    /\ main.at = "copy" /\ main.call = "SetData"
    /\ data' = [k \in Memory |-> IF k \in 1 .. main.length THEN main.level
                                                           ELSE data[k]]
    /\ SetLength(main.length)
    /\ StartOutput
    /\ asked' = [who |-> IF portState = "TX" THEN "packet" ELSE "nobody",
                 length |-> main.length, cutOff |-> main.length = sendLength]
    /\ node' = [node EXCEPT !.transmitting = TRUE,
                            !.started = @ \/ ~node.transmitting]
    /\ IF node.transmitting \/ node.started
         THEN UNCHANGED <<direction, portState>>
         ELSE direction' = "OUTP" /\ portState' = "TX"
    /\ main' = Idle
    /\ UNCHANGED <<session, style, currentSlot, fixtures, frame>>

CopyFailSafe ==
    /\ main.at = "copy" /\ main.call \in {"Blackout", "FullOn"}
    /\ data' = Filled(main.level)
    /\ asked' = [asked EXCEPT !.who = IF portState = "TX" THEN "failsafe"
                                                         ELSE "nobody"]
    /\ main' = Idle
    /\ UNCHANGED <<session, node, direction, portState, style, sendLength,
                   state, currentSlot, timer, uart, fixtures, frame>>

\* SetOutputStyle: the continuous style starts the output at once.
SetOutputStyle(s) ==
    /\ Loop /\ "STYLE" \in session /\ s # style
    /\ style' = s
    /\ IF s = "CONTINOUS" /\ direction = "OUTP"
         THEN Call("stop", "SetOutputStyle", 0, 0)
         ELSE UNCHANGED main
    /\ UNCHANGED <<session, node, direction, portState, sendLength, data,
                   state, currentSlot, timer, uart, fixtures, history>>

\* HandleRdm: an ArtRdm stops the output, and it stays stopped.
HandleRdm ==
    /\ Loop /\ "RDM" \in session
    /\ node' = [node EXCEPT !.transmitting = FALSE,
                            !.started = @ /\ ~node.transmitting]
    /\ direction' = "OUTP"
    /\ Call("stop", "RdmSend", 0, 0)
    /\ UNCHANGED <<session, portState, style, sendLength, data, state,
                   currentSlot, timer, uart, fixtures, history>>

\* A message of the discovery goes out, below DmxSend's back.
Discover ==
    /\ Loop /\ "RDM" \in session
    /\ node' = [node EXCEPT !.discovering = TRUE]
    /\ direction' = "OUTP"
    /\ Call("stop", "RdmSend", 0, 0)
    /\ UNCHANGED <<session, portState, style, sendLength, data, state,
                   currentSlot, timer, uart, fixtures, history>>

\* The discovery is finished: the output is stopped and started.
Discovered ==
    /\ Loop /\ node.discovering
    /\ node' = [node EXCEPT !.discovering = FALSE]
    /\ IF node.transmitting
         THEN Call("stop", "RdmDone", 0, 0) /\ direction' = "OUTP"
         ELSE UNCHANGED <<main, direction>>
    /\ UNCHANGED <<session, portState, style, sendLength, data, state,
                   currentSlot, timer, uart, fixtures, history>>

(***************************************************************************)
(* StopData: MAIN spins until it has seen the time between frames and      *)
(* ended the frame's cycle, or sees that the cycle is over.                *)
(***************************************************************************)
SeeInter ==
    /\ main.at = "stop" /\ portState = "TX" /\ state = "DMXINTER"
    /\ main' = [main EXCEPT !.at = "stopping"]
    /\ UNCHANGED <<session, node, driver, state, currentSlot, timer, uart,
                   fixtures, history>>

\* The timer may have begun a break since: nothing ends it.
EndCycle ==
    /\ main.at = "stopping" /\ uart.fifo = <<>>
    /\ state' = "IDLE"
    /\ main' = [main EXCEPT !.at = "stop"]
    /\ UNCHANGED <<session, node, driver, currentSlot, timer, uart, fixtures,
                   history>>

\* Mutant: the frame's end is not awaited.
StoppedAtOnce == main.at = "stop"

Stopped == main.at = "stop" /\ (portState = "TX" => state = "IDLE")

\* What StopData does to the interrupts: nothing unless the port is started.
TimerStopped == IF portState = "TX" THEN [timer EXCEPT !.handler = "none"]
                                    ELSE timer
UartStopped == IF portState = "TX" THEN [uart EXCEPT !.fiq = FALSE] ELSE uart

\* The port's state is now IDLE, though it is started and about to send.
RestartContinuous ==
    /\ Stopped /\ main.call = "SetOutputStyle"
    /\ portState' = "IDLE"
    /\ state' = "BREAK" /\ uart' = Restarted(UartStopped) /\ timer' = Sending
    /\ main' = Idle
    /\ UNCHANGED <<session, node, direction, style, sendLength, data,
                   currentSlot, fixtures, history>>

\* RdmSendRaw, and StartData of the input: the line is turned round.
RdmSendRaw ==
    /\ Stopped /\ main.call = "RdmSend" /\ uart.fifo = <<>>
    /\ portState' = "IDLE" /\ direction' = "INP"
    /\ timer' = [handler |-> "receiver", running |-> FALSE]
    /\ uart' = [UartStopped EXCEPT !.fiq = TRUE, !.transmit = FALSE,
                                   !.break = FALSE]
    /\ fixtures' = [fixtures EXCEPT !.next = Ignoring]
    /\ asked' = [asked EXCEPT !.who = "nobody"]
    /\ main' = Idle
    /\ UNCHANGED <<session, node, style, sendLength, data, state,
                   currentSlot, frame>>

StartAgain ==
    /\ Stopped /\ main.call = "RdmDone"
    /\ portState' = "TX"
    /\ timer' = TimerStopped /\ uart' = UartStopped
    /\ node' = [node EXCEPT !.started = TRUE]
    /\ asked' = [asked EXCEPT !.who = "nobody"]
    /\ main' = Idle
    /\ UNCHANGED <<session, direction, style, sendLength, data, state,
                   currentSlot, fixtures, frame>>

(***************************************************************************)
(* The specification.                                                      *)
(***************************************************************************)

\* main has called SetPortDirection(0, OUTP, false).
Init ==
    /\ session \in Sessions
    /\ main = Idle
    /\ node = [transmitting |-> FALSE, started |-> FALSE,
               discovering |-> FALSE]
    /\ direction = "OUTP" /\ portState = "IDLE" /\ style = "DELTA"
    /\ state = "IDLE"
    /\ data = Filled(0) /\ sendLength = MaxSlots + 1 /\ currentSlot = 0
    /\ timer = [handler |-> "none", running |-> FALSE]
    /\ uart = [fiq |-> FALSE, transmit |-> FALSE, break |-> FALSE,
               fifo |-> <<>>]
    /\ fixtures = [shows |-> [k \in Slots |-> 0], next |-> Ignoring]
    /\ asked = [who |-> "nobody", length |-> MaxSlots, cutOff |-> FALSE]
    /\ frame = [data |-> Filled(0), length |-> MaxSlots + 1]

MainCalls ==
    \/ \E level \in 0 .. MaxLevel, length \in Lengths : SetData(level, length)
    \/ \E call \in {"Blackout", "FullOn"} : FailSafe(call)
    \/ \E s \in {"DELTA", "CONTINOUS"} : SetOutputStyle(s)
    \/ HandleRdm \/ Discover \/ Discovered

MainGoesOn ==
    \/ WaitOver \/ CopyPacket \/ CopyFailSafe
    \/ SeeInter \/ EndCycle
    \/ RestartContinuous \/ RdmSendRaw \/ StartAgain

Next == MainCalls \/ MainGoesOn \/ Timer \/ Transmit \/ Shift

\* The hardware goes on, and MAIN looks at the transmit state so often that
\* it does not miss the time between frames for ever.
Fairness == /\ WF_vars(Timer) /\ WF_vars(Transmit) /\ WF_vars(Shift)
            /\ SF_vars(MainGoesOn)

Spec == Init /\ [][Next]_vars /\ Fairness
-----------------------------------------------------------------------------
(***************************************************************************)
(* Properties.                                                             *)
(***************************************************************************)

\* A frame is of one packet: what the fixtures have seen of it and what is in
\* the buffer are the slots that the memory held when it began, one after the
\* other, and past the state DMXDATA they are all of it, because
\* SetSendDataWithoutSC, Blackout and FullOn write only between frames.
FramesAreWhole ==
    ~uart.break /\ state # "MAB" /\ fixtures.next # Ignoring =>
        /\ fixtures.next + Len(uart.fifo) = currentSlot
        /\ IF state = "DMXDATA" THEN currentSlot < frame.length
                                ELSE currentSlot = frame.length
        /\ \A k \in 1 .. fixtures.next - 1 : fixtures.shows[k] = frame.data[k]
        /\ \A k \in 1 .. Len(uart.fifo) :
              uart.fifo[k] = frame.data[fixtures.next + k - 1]

\* A break waits until the buffer is empty.  Those of StartDmxOutput do not:
\* what is left of the frame before is thrown away.
FramesAreComplete == [][~uart.break /\ uart'.break => uart.fifo = <<>>]_vars

\* While the line is turned round for RDM nothing of a frame is sent and no
\* interrupt is left that would: StopData lets the frame's cycle end.
RdmHasTheLine ==
    direction = "INP" =>
        /\ state = "IDLE" /\ uart.fifo = <<>> /\ ~uart.transmit
        /\ timer.handler # "sender"

\* The calls that spin on the transmit state return, whatever the interrupts
\* do meanwhile.
CallsReturn == ~Loop ~> Loop

\* The output ended with a frame that the buffer takes whole, in the
\* continuous style: nobody starts the timer again.
Stalled == state = "DMXINTER" /\ ~timer.running

\* Of a packet that is one slot longer than the one before the last slot is
\* never sent: SetSendDataWithoutSC takes the length for that of the frame,
\* which has the start code.
IsCutOff(k) == asked.cutOff /\ k = asked.length

\* A slot that was asked for is not shown.
Behind(who) ==
    /\ asked.who = who /\ ~Stalled
    /\ \E k \in 1 .. asked.length :
          ~IsCutOff(k) /\ fixtures.shows[k] # data[k]

\* The main loop is about to write newer data, or to end the frame's cycle.
Overtaken == main.at \in {"copy", "stop"}

\* A packet's data that the driver of a started port is given reaches the
\* fixtures, every slot but one that is cut off, unless newer data, another
\* style or RDM overtakes it.
NewestIsShown == Behind("packet") ~> ~Behind("packet") \/ Overtaken

\* More than NewestIsShown, and not what the code does: every slot reaches them.
AllOfNewestIsShown ==
    LET behind == /\ asked.who = "packet" /\ ~Stalled
                  /\ \E k \in 1 .. asked.length : fixtures.shows[k] # data[k]
    IN  behind ~> ~behind \/ Overtaken

\* So does the data of the failsafe when the network's data is lost.
FailSafeIsShown == Behind("failsafe") ~> ~Behind("failsafe") \/ Overtaken
=============================================================================
