----------------------------- MODULE DmxProofs -----------------------------
(***************************************************************************)
(* The driver's interrupts and the main loop keep out of each other's way, *)
(* proved for every number of slots, every buffer and every packet:        *)
(*                                                                         *)
(*   the inductive invariant  Inv                                          *)
(*   its types                CallType, GoesOnType, InterruptType          *)
(*   the line                 CallsStep, LineStep                          *)
(*   the frame                ControlStep, ContentStep                     *)
(*                                                                         *)
(* Both properties need that a session has the RDM or a change of the      *)
(* output's style, not both.  With both they are false: SetOutputStyle     *)
(* leaves portState IDLE under a frame, so that StopData does not wait for *)
(* the frame's end before the line is turned round for RDM.                *)
(***************************************************************************)
EXTENDS Dmx, TLAPS

\* Controllers do not use RDM and the output's style in one session.
OneUse == session # {"RDM", "STYLE"}

\* SetData is called with a length of the packets.
CallsHaveArguments ==
    main.at \in {"wait", "copy"} /\ main.call = "SetData" => main.length >= 1

\* While StopData waits the port is an output, and who waits is known.
CallsOfTheSession ==
    /\ node.discovering => "RDM" \in session
    /\ main.at \in {"stop", "stopping"} =>
          /\ direction = "OUTP"
          /\ main.call = "SetOutputStyle" => "STYLE" \in session
          /\ main.call # "SetOutputStyle" => "RDM" \in session

\* A port that is not started has no frame; an input is not started.
LineIsFree ==
    /\ portState = "IDLE" /\ "STYLE" \notin session => state = "IDLE"
    /\ direction = "INP" => portState = "IDLE"
    /\ RdmHasTheLine

\* The UART's interrupt sends in the state DMXDATA only; the break and the
\* mark are over an empty buffer; a break or a mark does not end, and no slot
\* is sent, while main is between its two instructions.
FrameControl ==
    /\ MainIsQuick => state \notin {"MAB", "DMXDATA"}
    /\ uart.transmit <=> state = "DMXDATA"
    /\ state \in {"BREAK", "MAB"} => uart.fifo = <<>>
    /\ state \in {"MAB", "DMXDATA"} => ~uart.break
    /\ state = "MAB" => fixtures.next = 0

\* While a frame is filled in, the memory is what it was when the frame began.
FrameContent ==
    /\ state = "DMXDATA" => frame = [data |-> data, length |-> sendLength]
    /\ FramesAreWhole

FrameInv == FrameControl /\ FrameContent

\* The inductive invariant
Inv == TypeOK /\ CallsHaveArguments /\ CallsOfTheSession
       /\ (OneUse => LineIsFree /\ FrameInv)
-----------------------------------------------------------------------------
(* Types *)

Bytes == 0 .. MaxLevel

\* A function from 1 .. n is a sequence.
LEMMA FunctionIsSeq ==
    ASSUME NEW S, NEW n \in Nat, NEW f \in [1 .. n -> S]
    PROVE  f \in Seq(S) /\ Len(f) = n
OBVIOUS

\* What is missing, added
LEMMA Difference == \A a, b \in Nat : a + (b - a) = b
OBVIOUS

\* The buffer after it was refilled
LEMMA RefilledType ==
    ASSUME DmxAssumption, sendLength \in 2 .. MaxSlots + 1,
           data \in [Memory -> Bytes],
           NEW from \in 0 .. MaxSlots + 1
    PROVE  /\ Refilled(from).slot \in 0 .. MaxSlots + 1
           /\ Refilled(from).slot <= sendLength
           /\ from < sendLength => from < Refilled(from).slot
           /\ Refilled(from).fifo \in Seq(Bytes)
           /\ Len(Refilled(from).fifo) <= FifoSize
           /\ from <= sendLength =>
                 Len(Refilled(from).fifo) = Refilled(from).slot - from
           /\ \A k \in 1 .. Len(Refilled(from).fifo) :
                 Refilled(from).fifo[k] = data[from + k - 1]
<1> DEFINE last == IF from + FifoSize < sendLength THEN from + FifoSize
                                                  ELSE sendLength
           fifo == [k \in 1 .. last - from |-> data[from + k - 1]]
           n == IF from < last THEN last - from ELSE 0
<1>1. Refilled(from).slot = last /\ Refilled(from).fifo = fifo
  BY DEF Refilled
<1>2. /\ last \in 0 .. MaxSlots + 1 /\ last <= sendLength
      /\ from < sendLength => from < last
      /\ n \in Nat /\ n <= FifoSize
      /\ 1 .. last - from = 1 .. n
      /\ from <= sendLength => n = last - from
  BY DEF DmxAssumption
<1>3. \A k \in 1 .. n : from + k - 1 \in Memory
  BY <1>2 DEF DmxAssumption, Memory
<1>4. fifo \in [1 .. n -> Bytes]
  BY <1>2, <1>3
<1> HIDE DEF fifo
<1>5. fifo \in Seq(Bytes) /\ Len(fifo) = n
  BY <1>2, <1>4, FunctionIsSeq
<1> USE DEF fifo
<1>6. \A k \in 1 .. n : fifo[k] = data[from + k - 1]
  BY <1>2
<1> HIDE DEF last, fifo, n
<1> QED
  BY <1>1, <1>2, <1>5, <1>6

\* The parts of TypeOK
Waiting == [at : {"wait", "copy", "stop", "stopping"}, call : Calls,
            level : Bytes, length : 0 .. MaxSlots]
Timers == [handler : {"none", "sender", "receiver"}, running : BOOLEAN]
Uarts == [fiq : BOOLEAN, transmit : BOOLEAN, break : BOOLEAN,
          fifo : Seq(Bytes)]
Receivers == [shows : [Slots -> Bytes], next : 0 .. MaxSlots + 2]
Askers == [who : {"nobody", "packet", "failsafe"}, length : 1 .. MaxSlots,
           cutOff : BOOLEAN]
Frames == [data : [Memory -> Bytes], length : 2 .. MaxSlots + 1]

MainOK == main \in {Idle} \cup Waiting /\ CallsHaveArguments
NodeOK == node \in [transmitting : BOOLEAN, started : BOOLEAN,
                    discovering : BOOLEAN]
PortOK == /\ session \in Sessions
          /\ direction \in {"INP", "OUTP"}
          /\ portState \in {"IDLE", "TX"}
          /\ style \in {"DELTA", "CONTINOUS"}
StateOK == state \in {"IDLE", "BREAK", "MAB", "DMXDATA", "DMXINTER"}
DataOK == data \in [Memory -> Bytes] /\ sendLength \in 2 .. MaxSlots + 1
SlotOK == currentSlot \in 0 .. MaxSlots + 1
TimerOK == timer \in Timers
UartOK == uart \in Uarts /\ Len(uart.fifo) <= FifoSize
FixturesOK == fixtures \in Receivers
AskedOK == asked \in Askers
FrameOK == frame \in Frames

Types == MainOK /\ NodeOK /\ PortOK /\ StateOK /\ DataOK /\ SlotOK /\ TimerOK
         /\ UartOK /\ FixturesOK /\ AskedOK /\ FrameOK

\* They are all of it.
LEMMA TypesAre == Types <=> TypeOK /\ CallsHaveArguments
BY DEF Types, TypeOK, MainOK, NodeOK, PortOK, StateOK, DataOK, SlotOK,
       TimerOK, UartOK, FixturesOK, AskedOK, FrameOK, Waiting, Timers, Uarts,
       Receivers, Askers, Frames, Bytes

\* Main is in the loop, or waiting in a call.
LEMMA MainType ==
    ASSUME DmxAssumption, MainOK
    PROVE  /\ ~Loop => main \in Waiting
           /\ main.at \in {"wait", "copy", "stop", "stopping"} => ~Loop
           /\ Loop <=> main.at = "loop"
BY DEF MainOK, Waiting, Loop, Idle, Bytes

\* A call begins.
LEMMA CallIsWaiting ==
    ASSUME DmxAssumption,
           NEW at \in {"wait", "copy", "stop", "stopping"}, NEW call \in Calls,
           NEW level \in Bytes, NEW length \in 0 .. MaxSlots,
           Call(at, call, level, length),
           at \in {"wait", "copy"} /\ call = "SetData" => length >= 1
    PROVE  MainOK'
<1>1. main' \in Waiting
  BY DEF Call, Waiting
<1>2. CallsHaveArguments'
  BY DEF Call, CallsHaveArguments
<1> QED
  BY <1>1, <1>2 DEF MainOK

\* A call goes on.
LEMMA GoesOn ==
    ASSUME DmxAssumption, MainOK, ~Loop,
           NEW at \in {"wait", "copy", "stop", "stopping"},
           at = "copy" => main.at = "wait", at # "wait",
           main' = [main EXCEPT !.at = at]
    PROVE  MainOK'
<1>1. main \in Waiting
  BY MainType
<1>2. main' \in Waiting
  BY <1>1 DEF Waiting
<1>3. CallsHaveArguments'
  BY <1>1 DEF MainOK, Waiting, CallsHaveArguments
<1> QED
  BY <1>2, <1>3 DEF MainOK

\* A call returns.
LEMMA IdleIsOK == main' = Idle => MainOK'
BY DEF MainOK, Idle, CallsHaveArguments

\* Nothing happens to main.
LEMMA MainStays == UNCHANGED main /\ MainOK => MainOK'
BY DEF MainOK, CallsHaveArguments

\* The calls keep the types.
LEMMA CallType ==
    ASSUME DmxAssumption, Types, MainCalls
    PROVE  Types'
<1> USE DmxAssumption DEF DmxAssumption
<1>0. MainOK /\ NodeOK /\ PortOK
  BY DEF Types
<1>s. ASSUME MainOK', NodeOK', PortOK',
             UNCHANGED <<data, sendLength, state, currentSlot, timer, uart,
                         fixtures, history>>
      PROVE  Types'
  BY <1>s DEF Types, StateOK, DataOK, SlotOK, TimerOK, UartOK, FixturesOK,
              history, AskedOK, FrameOK
<1>1. ASSUME NEW level \in 0 .. MaxLevel, NEW length \in Lengths,
             SetData(level, length)
      PROVE  Types'
  <2>1. length \in 0 .. MaxSlots /\ length >= 1 /\ level \in Bytes
    BY DEF Bytes
  <2>2. MainOK'
    BY <1>1, <2>1, CallIsWaiting DEF SetData, Calls
  <2> QED
    BY <1>0, <1>1, <1>s, <2>2 DEF SetData, driver, NodeOK, PortOK
<1>2. ASSUME NEW call \in {"Blackout", "FullOn"}, FailSafe(call)
      PROVE  Types'
  <2>1. MainOK'
    BY <1>2, CallIsWaiting DEF FailSafe, Calls, Bytes
  <2> QED
    BY <1>0, <1>2, <1>s, <2>1 DEF FailSafe, driver, NodeOK, PortOK
<1>3. ASSUME NEW s \in {"DELTA", "CONTINOUS"}, SetOutputStyle(s)
      PROVE  Types'
  <2>1. MainOK'
    BY <1>0, <1>3, CallIsWaiting, MainStays DEF SetOutputStyle, Calls, Bytes
  <2> QED
    BY <1>0, <1>3, <1>s, <2>1 DEF SetOutputStyle, driver, NodeOK, PortOK
<1>4. CASE HandleRdm
  <2>1. MainOK'
    BY <1>4, CallIsWaiting DEF HandleRdm, Calls, Bytes
  <2>2. NodeOK'
    BY <1>0, <1>4, Zenon DEF HandleRdm, NodeOK
  <2> QED
    BY <1>0, <1>4, <1>s, <2>1, <2>2 DEF HandleRdm, driver, PortOK
<1>5. CASE Discover
  <2>1. MainOK'
    BY <1>5, CallIsWaiting DEF Discover, Calls, Bytes
  <2>2. NodeOK'
    BY <1>0, <1>5 DEF Discover, NodeOK
  <2> QED
    BY <1>0, <1>5, <1>s, <2>1, <2>2 DEF Discover, driver, PortOK
<1>6. CASE Discovered
  <2>1. MainOK'
    BY <1>0, <1>6, CallIsWaiting, MainStays DEF Discovered, Calls, Bytes
  <2>2. NodeOK'
    BY <1>0, <1>6 DEF Discovered, NodeOK
  <2> QED
    BY <1>0, <1>6, <1>s, <2>1, <2>2 DEF Discovered, driver, PortOK
<1> QED
  BY <1>1, <1>2, <1>3, <1>4, <1>5, <1>6 DEF MainCalls

\* So do the steps of a call.
LEMMA GoesOnType ==
    ASSUME DmxAssumption, Types, MainGoesOn
    PROVE  Types'
<1> USE DmxAssumption DEF DmxAssumption
<1>0. /\ MainOK /\ NodeOK /\ PortOK /\ StateOK /\ DataOK /\ SlotOK
      /\ TimerOK /\ UartOK /\ FixturesOK /\ AskedOK /\ FrameOK
  BY DEF Types
<1>s. ASSUME MainOK', UNCHANGED <<session, node, driver, currentSlot, timer,
                                  uart, fixtures, history>>, StateOK'
      PROVE  Types'
  BY <1>0, <1>s DEF Types, NodeOK, PortOK, driver, DataOK, SlotOK, TimerOK,
                    UartOK, FixturesOK, history, AskedOK, FrameOK
<1>a. ASSUME NEW who \in {"nobody", "packet", "failsafe"},
             \/ asked' = [asked EXCEPT !.who = who]
             \/ /\ asked' = [who |-> who, length |-> main.length,
                             cutOff |-> main.length = sendLength]
                /\ main.length \in 1 .. MaxSlots
      PROVE  AskedOK'
  <2>1. asked \in Askers /\ (main.length = sendLength) \in BOOLEAN
    BY <1>0 DEF AskedOK
  <2>2. CASE asked' = [asked EXCEPT !.who = who]
    BY <2>1, <2>2, Zenon DEF AskedOK, Askers
  <2>3. CASE /\ asked' = [who |-> who, length |-> main.length,
                          cutOff |-> main.length = sendLength]
             /\ main.length \in 1 .. MaxSlots
    BY <2>1, <2>3, Zenon DEF AskedOK, Askers
  <2> QED
    BY <1>a, <2>2, <2>3
<1>u. Restarted(uart) \in Uarts /\ Restarted(UartStopped) \in Uarts
      /\ Len(Restarted(uart).fifo) = 0 /\ Len(Restarted(UartStopped).fifo) = 0
  BY DEF Uarts, Restarted
<1>v. /\ UartStopped \in Uarts /\ UartStopped.fifo = uart.fifo
      /\ TimerStopped \in Timers
      /\ [uart EXCEPT !.fiq = FALSE] \in Uarts
  BY <1>0, Zenon DEF UartOK, Uarts, UartStopped, TimerStopped, TimerOK, Timers
<1>w. Sending \in Timers
  BY DEF Sending, Timers
<1>1. CASE WaitOver
  <2>1. MainOK'
    BY <1>0, <1>1, GoesOn, MainType DEF WaitOver
  <2> QED
    BY <1>0, <1>1, <1>s, <2>1 DEF WaitOver, StateOK
<1>2. CASE CopyPacket
  <2>0. main \in Waiting /\ main.length \in 1 .. MaxSlots
                         /\ main.level \in Bytes
    BY <1>0, <1>2, MainType DEF CopyPacket, Waiting, MainOK, CallsHaveArguments
  <2>1. MainOK'
    BY <1>2, IdleIsOK DEF CopyPacket
  <2>2. NodeOK'
    BY <1>0, <1>2, Zenon DEF CopyPacket, NodeOK
  <2>3. data' \in [Memory -> Bytes]
    BY <1>0, <1>2, <2>0 DEF CopyPacket, DataOK
  <2>4. sendLength' \in 2 .. MaxSlots + 1
    BY <1>0, <1>2, <2>0 DEF CopyPacket, SetLength, DataOK
  <2>a. AskedOK'
    <3>1. /\ asked' = [who |-> IF portState = "TX" THEN "packet" ELSE "nobody",
                       length |-> main.length,
                       cutOff |-> main.length = sendLength]
          /\ (IF portState = "TX" THEN "packet" ELSE "nobody")
                \in {"nobody", "packet", "failsafe"}
      BY <1>2 DEF CopyPacket
    <3> QED
      BY <1>a, <2>0, <3>1
  <2>5. CASE StartOutput /\ state' = "BREAK" /\ uart' = Restarted(uart)
             /\ timer' = Sending
    <3>1. UartOK'
      BY <2>5, <1>u DEF UartOK
    <3> QED
      BY <1>0, <1>2, <1>w, <2>1, <2>2, <2>3, <2>4, <2>5, <2>a, <3>1
      DEF CopyPacket, Types, PortOK, StateOK, DataOK, SlotOK, TimerOK,
          FixturesOK, FrameOK
  <2>6. CASE UNCHANGED <<state, uart, timer>>
    BY <1>0, <1>2, <2>1, <2>2, <2>3, <2>4, <2>6, <2>a
    DEF CopyPacket, Types, PortOK, StateOK, DataOK, SlotOK, TimerOK, UartOK,
        FixturesOK, FrameOK
  <2> QED
    BY <1>2, <2>5, <2>6 DEF CopyPacket, StartOutput
<1>3. CASE CopyFailSafe
  <2>1. main.level \in Bytes
    BY <1>0, <1>3, MainType DEF CopyFailSafe, Waiting
  <2>2. data' \in [Memory -> Bytes]
    BY <1>3, <2>1 DEF CopyFailSafe, Filled, Bytes
  <2>3. MainOK'
    BY <1>3, IdleIsOK DEF CopyFailSafe
  <2>4. AskedOK'
    <3>1. (IF portState = "TX" THEN "failsafe" ELSE "nobody")
              \in {"nobody", "packet", "failsafe"}
      OBVIOUS
    <3> QED
      BY <1>3, <1>a, <3>1 DEF CopyFailSafe
  <2> QED
    BY <1>0, <1>3, <2>2, <2>3, <2>4
    DEF CopyFailSafe, Types, NodeOK, PortOK, StateOK, DataOK, SlotOK,
        TimerOK, UartOK, FixturesOK, FrameOK
<1>4. CASE SeeInter
  <2>1. MainOK'
    BY <1>0, <1>4, GoesOn, MainType DEF SeeInter
  <2> QED
    BY <1>0, <1>4, <1>s, <2>1 DEF SeeInter, StateOK
<1>5. CASE EndCycle
  <2>1. MainOK'
    BY <1>0, <1>5, GoesOn, MainType DEF EndCycle
  <2> QED
    BY <1>0, <1>5, <1>s, <2>1 DEF EndCycle, StateOK
<1>6. CASE RestartContinuous
  <2>1. MainOK'
    BY <1>6, IdleIsOK DEF RestartContinuous
  <2>2. UartOK' /\ TimerOK'
    BY <1>6, <1>u, <1>w DEF RestartContinuous, UartOK, TimerOK
  <2> QED
    BY <1>0, <1>6, <2>1, <2>2
    DEF RestartContinuous, Types, NodeOK, PortOK, StateOK, DataOK, SlotOK,
        FixturesOK, history, AskedOK, FrameOK
<1>7. CASE RdmSendRaw
  <2>1. MainOK'
    BY <1>7, IdleIsOK DEF RdmSendRaw
  <2>2. uart' \in Uarts /\ uart'.fifo = uart.fifo
    BY <1>7, <1>v, Zenon DEF RdmSendRaw, Uarts
  <2>3. TimerOK'
    BY <1>7 DEF RdmSendRaw, TimerOK, Timers
  <2>4. FixturesOK'
    BY <1>0, <1>7 DEF RdmSendRaw, FixturesOK, Receivers, Ignoring
  <2>5. AskedOK'
    BY <1>7, <1>a DEF RdmSendRaw
  <2> QED
    BY <1>0, <1>7, <2>1, <2>2, <2>3, <2>4, <2>5
    DEF RdmSendRaw, Types, NodeOK, PortOK, StateOK, DataOK, SlotOK, UartOK,
        FrameOK
<1>8. CASE StartAgain
  <2>1. MainOK'
    BY <1>8, IdleIsOK DEF StartAgain
  <2>2. NodeOK'
    BY <1>0, <1>8 DEF StartAgain, NodeOK
  <2>3. AskedOK'
    BY <1>8, <1>a DEF StartAgain
  <2> QED
    BY <1>0, <1>8, <1>v, <2>1, <2>2, <2>3
    DEF StartAgain, Types, PortOK, StateOK, DataOK, SlotOK, TimerOK, UartOK,
        FixturesOK, FrameOK
<1> QED
  BY <1>1, <1>2, <1>3, <1>4, <1>5, <1>6, <1>7, <1>8 DEF MainGoesOn

\* So do the interrupts and the UART.
LEMMA InterruptType ==
    ASSUME DmxAssumption, Types, Timer \/ Transmit \/ Shift
    PROVE  Types'
<1> USE DmxAssumption DEF DmxAssumption
<1>0. /\ MainOK /\ NodeOK /\ PortOK /\ StateOK /\ DataOK /\ SlotOK
      /\ TimerOK /\ UartOK /\ FixturesOK /\ AskedOK /\ FrameOK
  BY DEF Types
<1>s. ASSUME UNCHANGED <<session, main, node, driver, asked>>,
             StateOK', SlotOK', TimerOK', UartOK', FixturesOK', FrameOK'
      PROVE  Types'
  <2>1. MainOK'
    BY <1>0, <1>s, MainStays
  <2> QED
    BY <1>0, <1>s, <2>1 DEF Types, NodeOK, PortOK, driver, DataOK, AskedOK
<1>u. ASSUME NEW t \in BOOLEAN, NEW f \in Seq(Bytes), Len(f) <= FifoSize,
             \/ uart' = [uart EXCEPT !.fifo = f, !.transmit = t]
             \/ uart' = [uart EXCEPT !.break = t] /\ f = uart.fifo
             \/ uart' = [uart EXCEPT !.fifo = f] 
      PROVE  UartOK'
  BY <1>0, <1>u, Zenon DEF UartOK, Uarts
<1>t. ASSUME NEW r \in BOOLEAN, timer' = [timer EXCEPT !.running = r]
      PROVE  TimerOK'
  BY <1>0, <1>t, Zenon DEF TimerOK, Timers
<1>r. ASSUME NEW from \in 0 .. MaxSlots + 1
      PROVE  /\ Refilled(from).slot \in 0 .. MaxSlots + 1
             /\ Refilled(from).fifo \in Seq(Bytes)
             /\ Len(Refilled(from).fifo) <= FifoSize
  BY <1>0, RefilledType DEF DataOK
<1>1. CASE Timer /\ BeginBreak
  <2>1. UartOK'
    BY <1>0, <1>1, Zenon DEF BeginBreak, UartOK, Uarts
  <2> QED
    BY <1>0, <1>1, <1>s, <2>1
    DEF Timer, BeginBreak, StateOK, SlotOK, TimerOK, FixturesOK, FrameOK
<1>2. CASE Timer /\ EndBreak
  <2>1. UartOK'
    BY <1>0, <1>2, Zenon DEF EndBreak, UartOK, Uarts
  <2>2. FixturesOK'
    BY <1>0, <1>2 DEF EndBreak, FixturesOK, Receivers
  <2> QED
    BY <1>0, <1>2, <1>s, <2>1, <2>2
    DEF Timer, EndBreak, StateOK, SlotOK, TimerOK, FrameOK
<1>3. CASE Timer /\ BeginData
  <2>1. UartOK'
    <3> DEFINE t == Refilled(0).slot # sendLength
                      \/ (uart.transmit /\ style = "CONTINOUS")
    <3>1. t \in BOOLEAN
      OBVIOUS
    <3>2. uart' = [uart EXCEPT !.fifo = Refilled(0).fifo, !.transmit = t]
      BY <1>3 DEF BeginData
    <3>3. Refilled(0).fifo \in Seq(Bytes) /\ Len(Refilled(0).fifo) <= FifoSize
      BY <1>r
    <3> HIDE DEF t
    <3> QED
      BY <1>u, <3>1, <3>2, <3>3, Zenon
  <2>2. TimerOK'
    BY <1>3, <1>t DEF BeginData
  <2>3. SlotOK'
    BY <1>3, <1>r DEF BeginData, SlotOK
  <2>4. StateOK' /\ FixturesOK'
    BY <1>0, <1>3 DEF BeginData, StateOK, FixturesOK
  <2>5. FrameOK'
    BY <1>0, <1>3 DEF BeginData, FrameOK, Frames, DataOK
  <2> QED
    BY <1>3, <1>s, <2>1, <2>2, <2>3, <2>4, <2>5 DEF Timer
<1>4. CASE Timer /\ FireForNothing
  <2>1. TimerOK'
    BY <1>4, <1>t DEF FireForNothing
  <2> QED
    BY <1>0, <1>4, <1>s, <2>1
    DEF Timer, FireForNothing, StateOK, SlotOK, UartOK, FixturesOK, FrameOK
<1>5. CASE Transmit
  <2>0. currentSlot \in 0 .. MaxSlots + 1
    BY <1>0 DEF SlotOK
  <2>1. UartOK'
    BY <1>5, <1>r, <1>u, <2>0 DEF Transmit
  <2>2. TimerOK'
    <3>1. timer.running \in BOOLEAN
      BY <1>0 DEF TimerOK, Timers
    <3> QED
      BY <1>5, <1>t, <3>1 DEF Transmit
  <2>3. SlotOK'
    BY <1>5, <1>r, <2>0 DEF Transmit, SlotOK
  <2>4. StateOK' /\ FixturesOK'
    BY <1>0, <1>5 DEF Transmit, StateOK, FixturesOK
  <2> QED
    BY <1>0, <1>5, <1>s, <2>1, <2>2, <2>3, <2>4 DEF Transmit, history, FrameOK
<1>6. CASE Shift
  <2>0. uart.fifo \in Seq(Bytes) /\ Len(uart.fifo) <= FifoSize
    BY <1>0 DEF UartOK, Uarts
  <2>1. /\ Head(uart.fifo) \in Bytes
        /\ Tail(uart.fifo) \in Seq(Bytes)
        /\ Len(Tail(uart.fifo)) <= FifoSize
    BY <1>6, <2>0 DEF Shift
  <2>2. UartOK'
    BY <1>6, <1>u, <2>1 DEF Shift
  <2>3. FixturesOK'
    <3>1. /\ fixtures.shows \in [Slots -> Bytes]
          /\ fixtures.next \in 0 .. MaxSlots + 2
      BY <1>0 DEF FixturesOK, Receivers
    <3> DEFINE shown == [k \in Slots |-> IF k = fixtures.next
                                           THEN Head(uart.fifo)
                                           ELSE fixtures.shows[k]]
    <3>2. shown \in [Slots -> Bytes]
      BY <2>1, <3>1
    <3>3. fixtures' = fixtures \/ fixtures.next + 1 \in 0 .. MaxSlots + 2
      BY <1>6, <3>1 DEF Shift, Ignoring
    <3>4. \/ fixtures' = fixtures
          \/ fixtures' = [shows |-> shown, next |-> fixtures.next + 1]
      BY <1>6 DEF Shift
    <3> HIDE DEF shown
    <3> QED
      BY <1>0, <3>2, <3>3, <3>4 DEF FixturesOK, Receivers
  <2> QED
    BY <1>0, <1>6, <1>s, <2>2, <2>3
    DEF Shift, StateOK, SlotOK, TimerOK, history, FrameOK
<1> QED
  BY <1>1, <1>2, <1>3, <1>4, <1>5, <1>6 DEF Timer

\* A step keeps the types.
LEMMA TypeStep == DmxAssumption /\ Types /\ [Next]_vars => Types'
<1> SUFFICES ASSUME DmxAssumption, Types, [Next]_vars PROVE Types'
  OBVIOUS
<1>1. CASE Next
  BY <1>1, CallType, GoesOnType, InterruptType DEF Next
<1>2. CASE UNCHANGED vars
  BY <1>2 DEF vars, driver, Types, MainOK, CallsHaveArguments, NodeOK, PortOK,
              StateOK, DataOK, SlotOK, TimerOK, UartOK, FixturesOK,
              history, AskedOK, FrameOK
<1> QED
  BY <1>1, <1>2

-----------------------------------------------------------------------------
(* The line *)

\* A step keeps CallsOfTheSession.
LEMMA CallsStep ==
    DmxAssumption /\ Types /\ CallsOfTheSession /\ [Next]_vars
        => CallsOfTheSession'
<1> SUFFICES ASSUME DmxAssumption, Types, CallsOfTheSession, [Next]_vars
             PROVE  CallsOfTheSession'
  OBVIOUS
<1> USE DEF CallsOfTheSession, driver
<1>m. /\ main = Idle \/ main.at \in {"wait", "copy", "stop", "stopping"}
      /\ Idle.at = "loop"
      /\ direction \in {"INP", "OUTP"}
  BY DEF Types, MainOK, PortOK, Waiting, Idle
<1>n. /\ node \in [transmitting : BOOLEAN, started : BOOLEAN,
                   discovering : BOOLEAN]
      /\ main \in {Idle} \cup Waiting
  BY DEF Types, NodeOK, MainOK
<1>1. ASSUME NEW level \in 0 .. MaxLevel, NEW length \in Lengths,
             SetData(level, length)
      PROVE  CallsOfTheSession'
  BY <1>1, <1>m, <1>n DEF SetData, Loop, Call, Waiting
<1>2. ASSUME NEW call \in {"Blackout", "FullOn"},
             FailSafe(call)
      PROVE  CallsOfTheSession'
  BY <1>2, <1>m, <1>n DEF FailSafe, Loop, Call, Waiting
<1>3. ASSUME NEW s \in {"DELTA", "CONTINOUS"},
             SetOutputStyle(s)
      PROVE  CallsOfTheSession'
  BY <1>3, <1>m, <1>n DEF SetOutputStyle, Loop, Call, Waiting
<1>4. CASE HandleRdm
  BY <1>4, <1>m, <1>n DEF HandleRdm, Loop, Call, Waiting
<1>5. CASE Discover
  BY <1>5, <1>m, <1>n DEF Discover, Loop, Call, Waiting
<1>6. CASE Discovered
  BY <1>6, <1>m, <1>n DEF Discovered, Loop, Call, Waiting
<1>7. CASE WaitOver
  BY <1>7, <1>m, <1>n DEF WaitOver, Waiting
<1>8. CASE CopyPacket
  BY <1>8, <1>m, <1>n DEF CopyPacket, Waiting
<1>9. CASE CopyFailSafe
  BY <1>9, <1>m, <1>n DEF CopyFailSafe, Waiting
<1>10. CASE SeeInter
  BY <1>10, <1>m, <1>n DEF SeeInter, Waiting
<1>11. CASE EndCycle
  BY <1>11, <1>m, <1>n DEF EndCycle, Waiting
<1>12. CASE RestartContinuous
  BY <1>12, <1>m, <1>n DEF RestartContinuous, Stopped, Waiting
<1>13. CASE RdmSendRaw
  BY <1>13, <1>m, <1>n DEF RdmSendRaw, Stopped, Waiting
<1>14. CASE StartAgain
  BY <1>14, <1>m, <1>n DEF StartAgain, Stopped, Waiting
<1>15. CASE Timer /\ BeginBreak
  BY <1>15, <1>m, <1>n DEF BeginBreak, Timer, Waiting
<1>16. CASE Timer /\ EndBreak
  BY <1>16, <1>m, <1>n DEF EndBreak, Timer, Waiting
<1>17. CASE Timer /\ BeginData
  BY <1>17, <1>m, <1>n DEF BeginData, Timer, Waiting
<1>18. CASE Timer /\ FireForNothing
  BY <1>18, <1>m, <1>n DEF FireForNothing, Timer, Waiting
<1>19. CASE Transmit
  BY <1>19, <1>m, <1>n DEF Transmit, Waiting
<1>20. CASE Shift
  BY <1>20, <1>m, <1>n DEF Shift, Waiting
<1>21. CASE UNCHANGED vars
  BY <1>21 DEF vars
<1> QED
  BY <1>1, <1>2, <1>3, <1>4, <1>5, <1>6, <1>7, <1>8, <1>9, <1>10, <1>11,
     <1>12, <1>13, <1>14, <1>15, <1>16, <1>17, <1>18, <1>19, <1>20, <1>21
  DEF Next, MainCalls, MainGoesOn, Timer

\* A session with one use has not both.
LEMMA SessionIs ==
    ASSUME DmxAssumption, Types, OneUse
    PROVE  "RDM" \notin session \/ "STYLE" \notin session
<1>1. session \in Sessions /\ Sessions \subseteq SUBSET {"RDM", "STYLE"}
  BY DEF DmxAssumption, Types, PortOK
<1>2. session \subseteq {"RDM", "STYLE"} /\ session # {"RDM", "STYLE"}
  BY <1>1 DEF OneUse
<1> QED
  BY <1>2

\* A step keeps the line free of frames that were not started.
LEMMA LineStep ==
    ASSUME DmxAssumption, Types, CallsOfTheSession, OneUse, LineIsFree,
           FrameInv, [Next]_vars
    PROVE  LineIsFree'
<1> USE DEF LineIsFree, RdmHasTheLine, driver
<1>m. /\ main = Idle \/ main.at \in {"wait", "copy", "stop", "stopping"}
      /\ Idle.at = "loop"
      /\ direction \in {"INP", "OUTP"} /\ portState \in {"IDLE", "TX"}
      /\ main.at \in {"stop", "stopping"} =>
            /\ direction = "OUTP"
            /\ main.call = "SetOutputStyle" => "STYLE" \in session
            /\ main.call # "SetOutputStyle" => "RDM" \in session
      /\ "RDM" \notin session \/ "STYLE" \notin session
  BY SessionIs DEF Types, MainOK, PortOK, Waiting, Idle, CallsOfTheSession
<1>b. uart.transmit <=> state = "DMXDATA"
  BY DEF FrameInv, FrameControl
<1>u. uart \in Uarts /\ timer \in Timers
  BY DEF Types, UartOK, TimerOK
<1> USE <1>u DEF Uarts, Timers
<1>1. ASSUME NEW level \in 0 .. MaxLevel, NEW length \in Lengths,
             SetData(level, length)
      PROVE  LineIsFree'
  BY <1>1, <1>m, <1>b DEF SetData, Loop, Call
<1>2. ASSUME NEW call \in {"Blackout", "FullOn"},
             FailSafe(call)
      PROVE  LineIsFree'
  BY <1>2, <1>m, <1>b DEF FailSafe, Loop, Call
<1>3. ASSUME NEW s \in {"DELTA", "CONTINOUS"},
             SetOutputStyle(s)
      PROVE  LineIsFree'
  BY <1>3, <1>m, <1>b DEF SetOutputStyle, Loop, Call
<1>4. CASE HandleRdm
  BY <1>4, <1>m, <1>b DEF HandleRdm, Loop, Call
<1>5. CASE Discover
  BY <1>5, <1>m, <1>b DEF Discover, Loop, Call
<1>6. CASE Discovered
  BY <1>6, <1>m, <1>b DEF Discovered, Loop, Call
<1>7. CASE WaitOver
  BY <1>7, <1>m, <1>b DEF WaitOver
<1>8. CASE CopyPacket
  BY <1>8, <1>m, <1>b DEF CopyPacket, StartOutput, Sending, SetLength, Restarted
<1>9. CASE CopyFailSafe
  BY <1>9, <1>m, <1>b DEF CopyFailSafe
<1>10. CASE SeeInter
  BY <1>10, <1>m, <1>b DEF SeeInter
<1>11. CASE EndCycle
  BY <1>11, <1>m, <1>b DEF EndCycle
<1>12. CASE RestartContinuous
  BY <1>12, <1>m, <1>b
  DEF RestartContinuous, Stopped, UartStopped, TimerStopped, Restarted
<1>13. CASE RdmSendRaw
  BY <1>13, <1>m, <1>b DEF RdmSendRaw, Stopped, UartStopped, TimerStopped
<1>14. CASE StartAgain
  BY <1>14, <1>m, <1>b DEF StartAgain, Stopped, UartStopped, TimerStopped
<1>15. CASE Timer /\ BeginBreak
  BY <1>15, <1>m, <1>b DEF BeginBreak, Timer
<1>16. CASE Timer /\ EndBreak
  BY <1>16, <1>m, <1>b DEF EndBreak, Timer
<1>17. CASE Timer /\ BeginData
  BY <1>17, <1>m, <1>b DEF BeginData, Timer
<1>18. CASE Timer /\ FireForNothing
  BY <1>18, <1>m, <1>b DEF FireForNothing, Timer
<1>19. CASE Transmit
  BY <1>19, <1>m, <1>b DEF Transmit
<1>20. CASE Shift
  BY <1>20, <1>m, <1>b DEF Shift
<1>21. CASE UNCHANGED vars
  BY <1>21 DEF vars
<1> QED
  BY <1>1, <1>2, <1>3, <1>4, <1>5, <1>6, <1>7, <1>8, <1>9, <1>10, <1>11,
     <1>12, <1>13, <1>14, <1>15, <1>16, <1>17, <1>18, <1>19, <1>20, <1>21
  DEF Next, MainCalls, MainGoesOn, Timer

-----------------------------------------------------------------------------
(* The frame *)

\* A step keeps the UART and the transmit state together.
LEMMA ControlStep ==
    ASSUME DmxAssumption, Types, CallsOfTheSession, OneUse, LineIsFree,
           FrameInv, [Next]_vars
    PROVE  FrameControl'
<1> USE DEF driver, FrameControl, MainIsQuick
<1>m. /\ main = Idle \/ main.at \in {"wait", "copy", "stop", "stopping"}
      /\ Idle.at = "loop"
      /\ state \in {"IDLE", "BREAK", "MAB", "DMXDATA", "DMXINTER"}
      /\ direction \in {"INP", "OUTP"} /\ portState \in {"IDLE", "TX"}
      /\ main.at \in {"stop", "stopping"} =>
            /\ main.call = "SetOutputStyle" => "STYLE" \in session
            /\ main.call # "SetOutputStyle" => "RDM" \in session
      /\ "RDM" \notin session \/ "STYLE" \notin session
  BY SessionIs DEF Types, MainOK, PortOK, StateOK, Waiting, Idle,
                   CallsOfTheSession
<1>b. /\ FrameControl
      /\ portState = "IDLE" /\ "STYLE" \notin session => state = "IDLE"
  BY DEF FrameInv, LineIsFree
<1>u. uart \in Uarts /\ fixtures \in Receivers
  BY DEF Types, UartOK, FixturesOK
<1> USE <1>u DEF Uarts, Receivers
<1>1. ASSUME NEW level \in 0 .. MaxLevel, NEW length \in Lengths,
             SetData(level, length)
      PROVE  FrameControl'
  BY <1>1, <1>m, <1>b DEF SetData, Loop, Call
<1>2. ASSUME NEW call \in {"Blackout", "FullOn"},
             FailSafe(call)
      PROVE  FrameControl'
  BY <1>2, <1>m, <1>b DEF FailSafe, Loop, Call
<1>3. ASSUME NEW s \in {"DELTA", "CONTINOUS"},
             SetOutputStyle(s)
      PROVE  FrameControl'
  BY <1>3, <1>m, <1>b DEF SetOutputStyle, Loop, Call
<1>4. CASE HandleRdm
  BY <1>4, <1>m, <1>b DEF HandleRdm, Loop, Call
<1>5. CASE Discover
  BY <1>5, <1>m, <1>b DEF Discover, Loop, Call
<1>6. CASE Discovered
  BY <1>6, <1>m, <1>b DEF Discovered, Loop, Call
<1>7. CASE WaitOver
  BY <1>7, <1>m, <1>b DEF WaitOver
<1>8. CASE CopyPacket
  BY <1>8, <1>m, <1>b DEF CopyPacket, StartOutput, Sending, SetLength, Restarted
<1>9. CASE CopyFailSafe
  BY <1>9, <1>m, <1>b DEF CopyFailSafe
<1>10. CASE SeeInter
  BY <1>10, <1>m, <1>b DEF SeeInter
<1>11. CASE EndCycle
  BY <1>11, <1>m, <1>b DEF EndCycle
<1>12. CASE RestartContinuous
  BY <1>12, <1>m, <1>b
  DEF RestartContinuous, Stopped, UartStopped, TimerStopped, Restarted
<1>13. CASE RdmSendRaw
  BY <1>13, <1>m, <1>b DEF RdmSendRaw, Stopped, UartStopped, TimerStopped
<1>14. CASE StartAgain
  BY <1>14, <1>m, <1>b DEF StartAgain, Stopped, UartStopped, TimerStopped
<1>15. CASE Timer /\ BeginBreak
  BY <1>15, <1>m, <1>b DEF BeginBreak, Timer
<1>16. CASE Timer /\ EndBreak
  BY <1>16, <1>m, <1>b DEF EndBreak, Timer
<1>17. CASE Timer /\ BeginData
  BY <1>17, <1>m, <1>b DEF BeginData, Timer
<1>18. CASE Timer /\ FireForNothing
  BY <1>18, <1>m, <1>b DEF FireForNothing, Timer
<1>19. CASE Transmit
  BY <1>19, <1>m, <1>b DEF Transmit
<1>20. CASE Shift
  BY <1>20, <1>m, <1>b DEF Shift
<1>21. CASE UNCHANGED vars
  BY <1>21, <1>b DEF vars
<1> QED
  BY <1>1, <1>2, <1>3, <1>4, <1>5, <1>6, <1>7, <1>8, <1>9, <1>10, <1>11,
     <1>12, <1>13, <1>14, <1>15, <1>16, <1>17, <1>18, <1>19, <1>20, <1>21
  DEF Next, MainCalls, MainGoesOn, Timer

\* A step keeps the frame of one packet: the steps that write the memory are
\* not taken while it is filled in, and Shift and Transmit go on where the
\* fixtures are.
LEMMA ContentStep ==
    ASSUME DmxAssumption, Types, CallsOfTheSession, OneUse, LineIsFree,
           FrameInv, [Next]_vars
    PROVE  FrameContent'
<1> USE DEF driver, history
<1>m. /\ main = Idle \/ main.at \in {"wait", "copy", "stop", "stopping"}
      /\ Idle.at = "loop"
      /\ direction \in {"INP", "OUTP"} /\ portState \in {"IDLE", "TX"}
      /\ main.at \in {"stop", "stopping"} =>
            /\ main.call = "SetOutputStyle" => "STYLE" \in session
            /\ main.call # "SetOutputStyle" => "RDM" \in session
      /\ "RDM" \notin session \/ "STYLE" \notin session
  BY SessionIs DEF Types, MainOK, PortOK, Waiting, Idle, CallsOfTheSession
<1>b. /\ FrameControl /\ FrameContent
      /\ portState = "IDLE" /\ "STYLE" \notin session => state = "IDLE"
  BY DEF FrameInv, LineIsFree
<1>c. /\ MainIsQuick => state \notin {"MAB", "DMXDATA"}
      /\ uart.transmit <=> state = "DMXDATA"
      /\ state \in {"MAB", "DMXDATA"} => ~uart.break
  BY <1>b DEF FrameControl
<1>u. /\ uart \in [fiq : BOOLEAN, transmit : BOOLEAN, break : BOOLEAN,
                    fifo : Seq(Bytes)]
      /\ uart.fifo \in Seq(Bytes)
      /\ fixtures.next \in 0 .. MaxSlots + 2
      /\ fixtures \in [shows : [Slots -> Bytes], next : 0 .. MaxSlots + 2]
  BY DEF Types, UartOK, FixturesOK, Uarts, Receivers
<1>d. sendLength \in 2 .. MaxSlots + 1 /\ data \in [Memory -> Bytes]
      /\ currentSlot \in 0 .. MaxSlots + 1
      /\ frame.length \in 2 .. MaxSlots + 1
      /\ MaxSlots \in Nat
  BY DEF Types, DataOK, SlotOK, FrameOK, Frames, DmxAssumption
\* Nothing is on the line.
<1>x. ASSUME state' # "DMXDATA",
             uart'.break \/ state' = "MAB" \/ fixtures'.next = Ignoring
      PROVE  FrameContent'
  BY <1>x DEF FrameContent, FramesAreWhole, Ignoring
\* Nothing happens to the frame.
<1>y. ASSUME UNCHANGED <<state, fixtures, data, sendLength, currentSlot, frame>>,
             uart'.fifo = uart.fifo, uart'.break = uart.break
      PROVE  FrameContent'
  BY <1>b, <1>y DEF FrameContent, FramesAreWhole, Ignoring
\* It is all in the buffer.
<1>z. ASSUME UNCHANGED <<fixtures, currentSlot, frame>>,
             uart'.fifo = uart.fifo, uart'.break = uart.break,
             state \notin {"MAB", "DMXDATA"}, state' \notin {"MAB", "DMXDATA"}
      PROVE  FrameContent'
  BY <1>b, <1>z DEF FrameContent, FramesAreWhole, Ignoring
<1>1. ASSUME NEW level \in 0 .. MaxLevel, NEW length \in Lengths,
             SetData(level, length)
      PROVE  FrameContent'
  BY <1>1, <1>y DEF SetData
<1>2. ASSUME NEW call \in {"Blackout", "FullOn"},
             FailSafe(call)
      PROVE  FrameContent'
  BY <1>2, <1>y DEF FailSafe
<1>3. ASSUME NEW s \in {"DELTA", "CONTINOUS"},
             SetOutputStyle(s)
      PROVE  FrameContent'
  BY <1>3, <1>y DEF SetOutputStyle
<1>4. CASE HandleRdm
  BY <1>4, <1>y DEF HandleRdm
<1>5. CASE Discover
  BY <1>5, <1>y DEF Discover
<1>6. CASE Discovered
  BY <1>6, <1>y DEF Discovered
<1>7. CASE WaitOver
  BY <1>7, <1>y DEF WaitOver
<1>8. CASE CopyPacket
  <2>1. state \notin {"MAB", "DMXDATA"} /\ UNCHANGED <<fixtures, currentSlot, frame>>
    BY <1>8, <1>c DEF CopyPacket, MainIsQuick
  <2>2. CASE state' = "BREAK" /\ uart' = Restarted(uart)
    BY <2>2, <1>x DEF Restarted
  <2>3. CASE UNCHANGED <<state, uart>>
    BY <2>1, <2>3, <1>z
  <2> QED
    BY <1>8, <2>2, <2>3 DEF CopyPacket, StartOutput
<1>9. CASE CopyFailSafe
  <2>1. state \notin {"MAB", "DMXDATA"}
    BY <1>9, <1>c DEF CopyFailSafe, MainIsQuick
  <2> QED
    BY <1>9, <2>1, <1>z DEF CopyFailSafe
<1>10. CASE SeeInter
  BY <1>10, <1>y DEF SeeInter
<1>11. CASE EndCycle
  <2>1. state \notin {"MAB", "DMXDATA"}
    BY <1>11, <1>c DEF EndCycle, MainIsQuick
  <2> QED
    BY <1>11, <2>1, <1>z DEF EndCycle
<1>12. CASE RestartContinuous
  BY <1>12, <1>x DEF RestartContinuous, Restarted
<1>13. CASE RdmSendRaw
  <2>1. state' = "IDLE"
    BY <1>13, <1>m, <1>b DEF RdmSendRaw, Stopped
  <2>2. fixtures'.next = Ignoring
    BY <1>13, <1>u DEF RdmSendRaw
  <2> QED
    BY <2>1, <2>2, <1>x
<1>14. CASE StartAgain
  <2>1. uart'.fifo = uart.fifo /\ uart'.break = uart.break
    BY <1>14, <1>u DEF StartAgain, UartStopped
  <2> QED
    BY <1>14, <2>1, <1>y DEF StartAgain
<1>15. CASE Timer /\ BeginBreak
  <2>1. uart'.break /\ state' = "BREAK"
    BY <1>15, <1>u DEF BeginBreak
  <2> QED
    BY <2>1, <1>x
<1>16. CASE Timer /\ EndBreak
  BY <1>16, <1>x DEF EndBreak
<1>17. CASE Timer /\ BeginData
  <2>1. fixtures.next = 0 /\ fixtures' = fixtures
    BY <1>17, <1>b DEF BeginData, FrameControl
  <2>2. /\ Refilled(0).slot <= sendLength /\ Refilled(0).slot \in Nat
        /\ Len(Refilled(0).fifo) = Refilled(0).slot - 0
        /\ \A k \in 1 .. Len(Refilled(0).fifo) :
              Refilled(0).fifo[k] = data[0 + k - 1]
    <3>1. 0 \in 0 .. MaxSlots + 1 /\ 0 <= sendLength
      BY <1>d
    <3> QED
      BY <1>d, <3>1, RefilledType
  <2>3. /\ currentSlot' = Refilled(0).slot /\ data' = data
        /\ sendLength' = sendLength
        /\ frame' = [data |-> data, length |-> sendLength]
        /\ uart'.fifo = Refilled(0).fifo
        /\ state' = "DMXDATA" <=> Refilled(0).slot # sendLength
    BY <1>17, <1>u DEF BeginData, Timer
  <2>4. IF state' = "DMXDATA" THEN currentSlot' < frame'.length
                              ELSE currentSlot' = frame'.length
    BY <1>d, <2>2, <2>3
  <2>5. fixtures.next + Len(uart'.fifo) = currentSlot'
    BY <2>1, <2>2, <2>3
  <2>6. \A k \in 1 .. Len(uart'.fifo) :
           uart'.fifo[k] = frame'.data[fixtures.next + k - 1]
    BY <2>1, <2>2, <2>3
  <2>7. 1 .. fixtures.next - 1 = {}
    BY <2>1
  <2> QED
    BY <2>1, <2>3, <2>4, <2>5, <2>6, <2>7
    DEF FrameContent, FramesAreWhole
<1>18. CASE Timer /\ FireForNothing
  BY <1>18, <1>y DEF FireForNothing, Timer
<1>19. CASE Transmit
  <2>1. /\ state = "DMXDATA" /\ fixtures' = fixtures
        /\ uart.fifo = <<>> /\ ~uart.break
    BY <1>19, <1>c DEF Transmit
  <2>2. frame.data = data /\ frame.length = sendLength /\ frame' = frame
    BY <1>19, <1>b, <2>1 DEF FrameContent, Transmit
  <2>3. CASE fixtures.next = Ignoring
    BY <1>19, <1>b, <2>1, <2>3 DEF FrameContent, FramesAreWhole, Ignoring, Transmit
  <2>4. CASE fixtures.next # Ignoring
    <3>1. /\ fixtures.next = currentSlot /\ currentSlot < sendLength
          /\ \A k \in 1 .. fixtures.next - 1 : fixtures.shows[k] = frame.data[k]
      BY <1>b, <1>u, <2>1, <2>2, <2>4 DEF FrameContent, FramesAreWhole
    <3>2. /\ Refilled(currentSlot).slot \in Nat
          /\ Refilled(currentSlot).slot <= sendLength
          /\ Len(Refilled(currentSlot).fifo)
                = Refilled(currentSlot).slot - currentSlot
          /\ \A k \in 1 .. Len(Refilled(currentSlot).fifo) :
                Refilled(currentSlot).fifo[k] = data[currentSlot + k - 1]
      BY <1>d, <3>1, RefilledType
    <3>3. /\ currentSlot' = Refilled(currentSlot).slot /\ data' = data
          /\ sendLength' = sendLength
          /\ uart'.fifo = Refilled(currentSlot).fifo
          /\ state' = "DMXDATA" <=> ~(Refilled(currentSlot).slot >= sendLength)
      BY <1>19, <1>u, <2>1 DEF Transmit
    <3>4. IF state' = "DMXDATA" THEN currentSlot' < frame'.length
                                ELSE currentSlot' = frame'.length
      BY <1>d, <2>2, <3>2, <3>3
    <3>5. fixtures.next + Len(uart'.fifo) = currentSlot'
      <4>1. currentSlot \in Nat /\ currentSlot' \in Nat
        BY <1>d, <3>2, <3>3
      <4>2. currentSlot + (currentSlot' - currentSlot) = currentSlot'
        BY <4>1, Difference
      <4>3. Len(uart'.fifo) = currentSlot' - currentSlot
        BY <3>2, <3>3
      <4> QED
        BY <3>1, <4>2, <4>3
    <3>6. \A k \in 1 .. Len(uart'.fifo) :
             uart'.fifo[k] = frame'.data[fixtures.next + k - 1]
      BY <2>2, <3>1, <3>2, <3>3
    <3>7. frame' = [data |-> data, length |-> sendLength]
      BY <1>b, <2>1, <2>2 DEF FrameContent
    <3> QED
      BY <2>1, <2>2, <3>1, <3>3, <3>4, <3>5, <3>6, <3>7
      DEF FrameContent, FramesAreWhole
  <2> QED
    BY <2>3, <2>4
<1>20. CASE Shift
  <2> DEFINE q == uart.fifo
             next == fixtures.next
  <2>1. /\ state' = state /\ data' = data /\ sendLength' = sendLength
        /\ currentSlot' = currentSlot /\ frame' = frame
        /\ q # <<>> /\ uart'.fifo = Tail(q) /\ uart'.break = uart.break
    BY <1>20, <1>u DEF Shift
  <2>2. state' = "DMXDATA" => frame' = [data |-> data', length |-> sendLength']
    BY <1>b, <2>1 DEF FrameContent
  <2>3. CASE uart.break \/ state = "MAB" \/ next = Ignoring
    <3>1. next = Ignoring => fixtures' = fixtures
      BY <1>20 DEF Shift
    <3>2. ~(~uart'.break /\ state' # "MAB" /\ fixtures'.next # Ignoring)
      BY <2>1, <2>3, <3>1
    <3>3. FramesAreWhole'
      BY <3>2 DEF FramesAreWhole, Ignoring
    <3> QED
      BY <2>2, <3>3 DEF FrameContent
  <2>4. CASE ~uart.break /\ state # "MAB" /\ next # Ignoring
    <3>2. /\ next + Len(q) = currentSlot
          /\ IF state = "DMXDATA" THEN currentSlot < frame.length
                                  ELSE currentSlot = frame.length
          /\ \A k \in 1 .. next - 1 : fixtures.shows[k] = frame.data[k]
          /\ \A k \in 1 .. Len(q) : q[k] = frame.data[next + k - 1]
      BY <1>b, <2>4 DEF FrameContent, FramesAreWhole
    <3>3. /\ Len(q) \in Nat \ {0} /\ Len(Tail(q)) = Len(q) - 1
          /\ \A k \in 1 .. Len(Tail(q)) : Tail(q)[k] = q[k + 1]
          /\ Head(q) = q[1]
      BY <1>u, <2>1
    <3>4. next <= MaxSlots /\ next \in Nat
      BY <1>d, <1>u, <3>2, <3>3
    <3>5. /\ fixtures'.next = next + 1
          /\ fixtures'.shows = [k \in Slots |-> IF k = next THEN Head(q)
                                                ELSE fixtures.shows[k]]
      BY <1>20, <2>4 DEF Shift
    <3>6. fixtures'.next + Len(uart'.fifo) = currentSlot'
      <4>1. fixtures'.next + Len(uart'.fifo) = (next + 1) + (Len(q) - 1)
        BY <2>1, <3>3, <3>5
      <4> QED
        BY <2>1, <3>2, <3>3, <3>4, <4>1
    <3>7. ASSUME NEW k \in 1 .. fixtures'.next - 1
          PROVE  fixtures'.shows[k] = frame.data[k]
      <4>1. k \in Slots /\ (k = next \/ k \in 1 .. next - 1)
        BY <3>4, <3>5 DEF Slots
      <4>2. CASE k = next
        <5>1. 1 \in 1 .. Len(q) /\ next + 1 - 1 = next
          BY <3>3, <3>4
        <5> QED
          BY <3>2, <3>3, <3>5, <4>1, <4>2, <5>1
      <4>3. CASE k \in 1 .. next - 1
        <5>1. k # next
          BY <3>4, <4>3
        <5> QED
          BY <3>2, <3>5, <4>1, <4>3, <5>1
      <4> QED
        BY <4>1, <4>2, <4>3
    <3>8. ASSUME NEW k \in 1 .. Len(uart'.fifo)
          PROVE  uart'.fifo[k] = frame.data[fixtures'.next + k - 1]
      <4>1. k + 1 \in 1 .. Len(q) /\ uart'.fifo[k] = q[k + 1]
        BY <2>1, <3>3
      <4>2. fixtures'.next + k - 1 = next + (k + 1) - 1
        BY <3>3, <3>4, <3>5
      <4> QED
        BY <3>2, <4>1, <4>2
    <3> HIDE DEF q, next
    <3>9. /\ IF state' = "DMXDATA" THEN currentSlot' < frame'.length
                                   ELSE currentSlot' = frame'.length
          /\ \A k \in 1 .. fixtures'.next - 1 :
                fixtures'.shows[k] = frame'.data[k]
          /\ \A k \in 1 .. Len(uart'.fifo) :
                uart'.fifo[k] = frame'.data[fixtures'.next + k - 1]
      BY <2>1, <3>2, <3>7, <3>8
    <3>10. FramesAreWhole'
      BY <3>6, <3>9 DEF FramesAreWhole
    <3> QED
      BY <2>2, <3>10 DEF FrameContent
  <2> QED
    BY <2>3, <2>4
<1>21. CASE UNCHANGED vars
  BY <1>21, <1>y DEF vars
<1> QED
  BY <1>1, <1>2, <1>3, <1>4, <1>5, <1>6, <1>7, <1>8, <1>9, <1>10, <1>11,
     <1>12, <1>13, <1>14, <1>15, <1>16, <1>17, <1>18, <1>19, <1>20, <1>21
  DEF Next, MainCalls, MainGoesOn, Timer

-----------------------------------------------------------------------------
(* The invariant *)

\* It holds at first.
LEMMA InitInv == Init => Inv
<1> SUFFICES ASSUME Init PROVE Inv
  OBVIOUS
<1> USE DmxAssumption DEF DmxAssumption
<1>1. TypeOK
  BY DEF Init, TypeOK, Idle, Filled, Memory, Slots, Ignoring
<1>2. CallsHaveArguments /\ CallsOfTheSession
  BY DEF Init, CallsHaveArguments, CallsOfTheSession, Idle
<1>3. LineIsFree /\ FrameInv
  BY DEF Init, LineIsFree, RdmHasTheLine, FrameInv, FrameControl,
         FrameContent, FramesAreWhole, MainIsQuick, Idle
<1> QED
  BY <1>1, <1>2, <1>3 DEF Inv

\* It is inductive.
LEMMA InvStep == DmxAssumption /\ Inv /\ [Next]_vars => Inv'
<1> SUFFICES ASSUME DmxAssumption, Inv, [Next]_vars PROVE Inv'
  OBVIOUS
<1>1. Types /\ CallsOfTheSession
  BY TypesAre DEF Inv
<1>2. Types' /\ CallsOfTheSession'
  BY <1>1, TypeStep, CallsStep
<1>3. TypeOK' /\ CallsHaveArguments'
  <2>1. Types' <=> TypeOK' /\ CallsHaveArguments'
    BY DEF Types, TypeOK, MainOK, NodeOK, PortOK, StateOK, DataOK, SlotOK,
           TimerOK, UartOK, FixturesOK, AskedOK, FrameOK, Waiting, Timers,
           Uarts, Receivers, Askers, Frames, Bytes
  <2> QED
    BY <1>2, <2>1
<1>4. ASSUME OneUse' PROVE LineIsFree' /\ FrameInv'
  <2>1. session' = session
    BY DEF Next, MainCalls, MainGoesOn, SetData, FailSafe, SetOutputStyle,
           HandleRdm, Discover, Discovered, WaitOver, CopyPacket,
           CopyFailSafe, SeeInter, EndCycle, RestartContinuous, RdmSendRaw,
           StartAgain, Timer, Transmit, Shift, vars
  <2>2. OneUse /\ LineIsFree /\ FrameInv
    BY <1>4, <2>1 DEF Inv, OneUse
  <2> QED
    BY <1>1, <2>2, LineStep, ControlStep, ContentStep DEF FrameInv
<1> QED
  BY <1>2, <1>3, <1>4 DEF Inv

\* It holds always.
THEOREM DmxInvariant == Spec => []Inv
<1>1. Init => Inv
  BY InitInv
<1>2. Inv /\ [Next]_vars => Inv'
  BY DmxAssumption, InvStep
<1> QED
  BY <1>1, <1>2, PTL DEF Spec

-----------------------------------------------------------------------------

\* The driver's state has its type: the slot that the interrupts read is one
\* of the memory's and what they write fits into the UART's buffer.
THEOREM DmxTypeCorrect == Spec => []TypeOK
<1>1. Inv => TypeOK
  BY DEF Inv
<1> QED
  BY <1>1, DmxInvariant, PTL

\* What is sent between two breaks is of one packet: SetSendDataWithoutSC,
\* Blackout and FullOn write only between frames, whatever the interrupts do
\* meanwhile.
THEOREM DmxFramesAreWhole == Spec => [](OneUse => FramesAreWhole)
<1>1. Inv => (OneUse => FramesAreWhole)
  BY DEF Inv, FrameInv, FrameContent
<1> QED
  BY <1>1, DmxInvariant, PTL

\* The line that is turned round for RDM carries no frame and no interrupt is
\* left to begin one: StopData has let the last one end.
THEOREM DmxRdmHasTheLine == Spec => [](OneUse => RdmHasTheLine)
<1>1. Inv => (OneUse => RdmHasTheLine)
  BY DEF Inv, LineIsFree
<1> QED
  BY <1>1, DmxInvariant, PTL
=============================================================================
