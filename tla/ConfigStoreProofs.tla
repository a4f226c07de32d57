------------------------- MODULE ConfigStoreProofs -------------------------
(***************************************************************************)
(* Proofs about the store of settings, for any ports, labels and values,   *)
(* any size of page and block, and every device: it implements Settings.   *)
(***************************************************************************)
EXTENDS ConfigStore, TLAPS

-----------------------------------------------------------------------------
(* Images and flash memory *)

\* The settings in RAM: the word of the DMX driver is never 0, which would
\* make the next start take the store for an empty one.
Settled ==
    [signature : {AvV}, env : UtcOffsets,
     dmxSet : {{}, {"dmx"}}, dmx : DmxValues \cup {Blank},
     nodeSet : {{}, {"label"}}, modes : Modes \cup {Blank},
     label : Labels \cup {0, Blank}]

\* Flash memory, torn or not: a word is erased, or some setting's.
Stored ==
    [signature : {AvV, Blank}, env : UtcOffsets \cup {Blank},
     dmxSet : {{}, {"dmx"}, Blank}, dmx : DmxValues \cup {Blank},
     nodeSet : {{}, {"label"}, Blank}, modes : Modes \cup {Blank},
     label : Labels \cup {0, Blank}]

LEMMA WordIs == Word = {"signature", "env", "dmxSet", "dmx", "nodeSet", "modes",
                        "label"}
  BY DEF Word, Zeroes

LEMMA Addresses == /\ Len(Layout) = 7
                   /\ \A w \in Word : Address(w) \in 1 .. Len(Layout)
  <1>1. /\ Len(Layout) = 7
        /\ DOMAIN Layout = 1 .. 7
    BY DEF Layout
  <1>2. \A w \in Word : \E i \in DOMAIN Layout : Layout[i] = w
    BY <1>1, WordIs DEF Layout
  <1> QED
    BY <1>1, <1>2 DEF Address

LEMMA SameWords ==
    ASSUME NEW f \in Stored, NEW g \in Stored, \A w \in Word : f[w] = g[w]
    PROVE  f = g
  BY WordIs DEF Stored

\* Words that are kept, erased or copied make flash memory again.
LEMMA MixedWords ==
    ASSUME NEW f \in Stored, NEW g \in Stored, NEW h,
           h = [w \in Word |-> h[w]],
           \A w \in Word : h[w] \in {Blank, f[w], g[w]}
    PROVE  h \in Stored
  BY WordIs DEF Stored

LEMMA ErasedType == Erased \in Stored /\ \A w \in Word : Erased[w] = Blank
  BY WordIs DEF Stored, Erased

LEMMA SettledType == ASSUME NEW f \in Settled PROVE f \in Stored /\ f \in Image
  BY DEF Stored, Settled, Image

\* Any flash memory starts with settings, and a whole image with itself.
LEMMA StartedType == ASSUME NEW f \in Stored PROVE Started(f) \in Settled
  <1>1. 0 \in UtcOffsets /\ DefaultDmx \in DmxValues
    BY OffsetsAssumption, DmxAssumption
  <1>2. CASE f.signature # AvV
    <2>1. Zeroes \in [signature : {AvV}, env : UtcOffsets,
                      dmxSet : {{}, {"dmx"}}, dmx : {0},
                      nodeSet : {{}, {"label"}}, modes : Modes \cup {Blank},
                      label : Labels \cup {0, Blank}]
      BY <1>1 DEF Zeroes, Modes, AllHTP, HTP
    <2>2. Started(f) = [Zeroes EXCEPT !.dmx = DefaultDmx]
      BY <1>2 DEF Started, Loaded, Constructed, NoDmx, Zeroes
    <2> QED
      BY <1>1, <2>1, <2>2 DEF Settled
  <1>3. CASE f.signature = AvV
    <2> DEFINE env == Known(f.env, 0)
               dmxSet == Known(f.dmxSet, {})
               nodeSet == Known(f.nodeSet, {})
               c == [f EXCEPT !.env = env, !.dmxSet = dmxSet,
                              !.nodeSet = nodeSet]
    <2>1. /\ env \in UtcOffsets
          /\ dmxSet \in {{}, {"dmx"}}
          /\ nodeSet \in {{}, {"label"}}
      BY <1>1 DEF Known, Stored
    <2> HIDE DEF env, dmxSet, nodeSet
    <2>2. c \in Settled
      BY <1>3, <2>1 DEF Settled, Stored
    <2>3. Constructed(f) = c
      BY <1>3 DEF Constructed, env, dmxSet, nodeSet
    <2> HIDE DEF c
    <2>4. Started(f) \in {c, [c EXCEPT !.dmx = DefaultDmx]}
      BY <2>3 DEF Started, Loaded
    <2> QED
      BY <1>1, <2>2, <2>4 DEF Settled
  <1> QED
    BY <1>2, <1>3

LEMMA StartedSame == ASSUME NEW f \in Settled
                     PROVE  Started(f) = f
  <1>1. f.signature = AvV /\ f.env # Blank /\ f.dmx # 0
    BY OffsetsAssumption, DmxAssumption, BlankAssumption DEF Settled
  <1>2. /\ Known(f.env, 0) = f.env
        /\ Known(f.dmxSet, {}) = f.dmxSet
        /\ Known(f.nodeSet, {}) = f.nodeSet
    BY <1>1, BlankAssumption DEF Known, Settled
  <1>3. Constructed(f) = f
    BY <1>1, <1>2 DEF Constructed, Settled
  <1> QED
    BY <1>1, <1>3 DEF Started, Loaded, NoDmx

LiveType == [label : Labels \cup {0, Blank}, modes : [Ports -> {HTP, LTP}]]

LEMMA InUseType == ASSUME NEW f \in Settled PROVE InUse(f) \in LiveType
  BY DEF InUse, Settled, LiveType

-----------------------------------------------------------------------------
(* The inductive invariant *)

DeviceType == [state : DeviceState, at : 0 .. Len(Layout)]

Types == /\ state \in States
         /\ ram \in Settled
         /\ flash \in Stored
         /\ device \in DeviceType
         /\ backend \in Devices
         /\ rebooting \in BOOLEAN
         /\ live \in LiveType
         /\ whole \in BOOLEAN
         /\ boot \in [by : {"reboot", "reset"}, odd : BOOLEAN]

\* The states that the device of a firmware may be in.
Fits(d) ==
    /\ backend \in {"spi", "i2c"} => d.state = "IDLE"
    /\ backend = "file" => d.state \in {"IDLE", "RUNNING"}
    /\ backend = "fmc" => d.state # "RUNNING"
    /\ d.state = "WRITE_PROGRAM" => d.at < Len(Layout)

\* Between Erase and Write the device is idle, and nothing whole is kept until
\* the save is done; when the store is idle, all is.
PhaseInv ==
    /\ Fits(device)
    /\ state \in {"ERASED_WAITING", "ERASED"} => device.state = "IDLE"
    /\ state \in {"ERASED_WAITING", "ERASED", "WRITING"} => ~ whole
    /\ state = "IDLE" => whole /\ Started(flash) = ram

\* What has been erased so far, also by an Erase that was broken off.
ErasedUpTo(d, mem) ==
    d.state \in {"ERASE_BUSY", "ERASE_PROGRAM"} =>
        \A w \in Word : Address(w) <= d.at => mem[w] = Blank

AllErased(mem) ==
    backend \in {"spi", "fmc"} => \A w \in Word : mem[w] = Blank

ErasedInv ==
    /\ ErasedUpTo(device, flash)
    /\ \/ state \in {"ERASED_WAITING", "ERASED"}
       \/ state = "WRITING" /\ device.state = "IDLE"
       => AllErased(flash)

\* What has been written so far is what RAM holds now, and the rest of a flash
\* that has to be erased still is.
WrittenUpTo(d, mem) ==
    d.state # "IDLE" =>
        /\ d.state \in {"RUNNING", "WRITE_BUSY", "WRITE_PROGRAM"}
        /\ \A w \in Word : Address(w) <= d.at => mem[w] = ram[w]
        /\ backend = "fmc" =>
               \A w \in Word : Address(w) > d.at => mem[w] = Blank

WrittenInv == state = "WRITING" => WrittenUpTo(device, flash)

IInv == Types /\ PhaseInv /\ ErasedInv /\ WrittenInv

LEMMA IInvImplies == IInv => TypeOK /\ IdleIsSaved
  <1> SUFFICES ASSUME IInv PROVE TypeOK /\ IdleIsSaved
    OBVIOUS
  <1>1. ram \in Image
    BY SettledType DEF IInv, Types
  <1> QED
    BY <1>1 DEF IInv, Types, PhaseInv, TypeOK, IdleIsSaved, LiveType, DeviceType

LEMMA InitInv == Init => IInv
  <1> SUFFICES ASSUME Init PROVE IInv
    OBVIOUS
  <1>1. flash \in Stored
    <2>1. Loaded(Zeroes) \in Stored
      <3>1. 0 \in UtcOffsets /\ DefaultDmx \in DmxValues
        BY OffsetsAssumption, DmxAssumption
      <3> QED
        BY <3>1 DEF Loaded, NoDmx, Zeroes, Stored, Modes, AllHTP, HTP
    <2> QED
      BY <2>1, ErasedType DEF Init
  <1>2. ram \in Settled /\ ram = Started(flash)
    BY <1>1, StartedType DEF Init
  <1>3. Types
    <2>1. state \in States
      BY DEF Init, StartState, States
    <2>2. device \in DeviceType
      BY Addresses DEF Init, Idle, DeviceState, DeviceType
    <2>3. live \in LiveType
      BY <1>2, InUseType DEF Init
    <2> QED
      BY <1>1, <1>2, <2>1, <2>2, <2>3 DEF Init, Types
  <1>4. state \in {"IDLE", "CHANGED"} /\ device.state = "IDLE" /\ whole
    BY DEF Init, StartState, Idle
  <1> QED
    BY <1>2, <1>3, <1>4 DEF IInv, PhaseInv, ErasedInv, WrittenInv, Fits,
                            ErasedUpTo

-----------------------------------------------------------------------------
(* The devices *)

LEMMA BlankedIs ==
    ASSUME NEW mem \in Stored, NEW first, NEW last
    PROVE  /\ Blanked(mem, first, last) \in Stored
           /\ \A w \in Word : Blanked(mem, first, last)[w] =
                  IF Within(w, first, last) THEN Blank ELSE mem[w]
  <1> DEFINE h == Blanked(mem, first, last)
  <1>1. h = [w \in Word |-> h[w]]
    BY Zenon DEF Blanked
  <1>2. \A w \in Word :
            h[w] = IF Within(w, first, last) THEN Blank ELSE mem[w]
    BY DEF Blanked
  <1> HIDE DEF h
  <1>3. h \in Stored
    BY <1>1, <1>2, MixedWords, ErasedType
  <1> QED
    BY <1>2, <1>3 DEF h

LEMMA CopiedIs ==
    ASSUME NEW mem \in Stored, NEW first, NEW last, ram \in Settled
    PROVE  /\ Copied(mem, first, last) \in Stored
           /\ \A w \in Word : Copied(mem, first, last)[w] =
                  IF Within(w, first, last) THEN ram[w] ELSE mem[w]
  <1> DEFINE h == Copied(mem, first, last)
  <1>1. h = [w \in Word |-> h[w]]
    BY Zenon DEF Copied
  <1>2. \A w \in Word :
            h[w] = IF Within(w, first, last) THEN ram[w] ELSE mem[w]
    BY DEF Copied
  <1> HIDE DEF h
  <1>3. h \in Stored
    BY <1>1, <1>2, MixedWords, SettledType
  <1> QED
    BY <1>2, <1>3 DEF h

\* Nothing is spoiled where the memory is erased.
LEMMA ProgrammedIs ==
    ASSUME NEW mem \in Stored, NEW first, NEW last, ram \in Settled,
           \A w \in Word : Within(w, first, last) => mem[w] = Blank
    PROVE  /\ Programmed(mem, first, last) \in Stored
           /\ \A w \in Word : Programmed(mem, first, last)[w] =
                  IF Within(w, first, last) THEN ram[w] ELSE mem[w]
  <1> DEFINE h == Programmed(mem, first, last)
  <1>1. h = [w \in Word |-> h[w]]
    BY Zenon DEF Programmed
  <1>2. \A w \in Word :
            h[w] = IF Within(w, first, last) THEN ram[w] ELSE mem[w]
    BY DEF Programmed
  <1> HIDE DEF h
  <1>3. h \in Stored
    BY <1>1, <1>2, MixedWords, SettledType
  <1> QED
    BY <1>2, <1>3 DEF h

LEMMA DoingType ==
    ASSUME NEW name \in DeviceState, NEW at \in 0 .. Len(Layout)
    PROVE  /\ Doing(name, at) \in DeviceType
           /\ Doing(name, at).state = name /\ Doing(name, at).at = at
  BY DEF Doing, DeviceType

LEMMA IdleType == Idle \in DeviceType /\ Idle.state = "IDLE"
  BY Addresses DEF Idle, DeviceType, DeviceState

\* The next position of a block or a page.
LEMMA NextIs ==
    ASSUME NEW at \in 0 .. Len(Layout), NEW step \in Nat \ {0}
    PROVE  /\ AtMostAll(at + step) \in 0 .. Len(Layout)
           /\ at <= AtMostAll(at + step)
  BY Addresses DEF AtMostAll

\* What a call of Erase makes of the device and the flash memory.
EraseResult(o) ==
    /\ o.device \in DeviceType
    /\ o.flash \in Stored
    /\ o.done \in BOOLEAN
    /\ Fits(o.device)
    /\ ErasedUpTo(o.device, o.flash)
    /\ o.done => o.device.state = "IDLE" /\ AllErased(o.flash)

LEMMA EraseResultIs ==
    ASSUME NEW d \in DeviceType, NEW mem \in Stored, NEW done \in BOOLEAN,
           Fits(d), ErasedUpTo(d, mem),
           done => d.state = "IDLE" /\ AllErased(mem)
    PROVE  EraseResult(Outcome(d, mem, done))
  <1> DEFINE o == Outcome(d, mem, done)
  <1>1. o.device = d /\ o.flash = mem /\ o.done = done
    BY DEF Outcome
  <1> HIDE DEF o
  <1>2. EraseResult(o)
    BY <1>1 DEF EraseResult
  <1> QED
    BY <1>2 DEF o

LEMMA EraseIs == ASSUME IInv PROVE EraseResult(Erase)
  <1> DEFINE at == device.at
  <1>1. /\ device \in DeviceType
        /\ flash \in Stored
        /\ ram \in Settled
        /\ backend \in {"spi", "i2c", "file", "fmc"}
        /\ at \in 0 .. Len(Layout)
        /\ 0 \in 0 .. Len(Layout)
        /\ \A w \in Word : Address(w) \in 1 .. 7
        /\ Len(Layout) = 7
    BY DevicesAssumption, Addresses DEF IInv, Types, DeviceType
  <1>2. CASE backend = "spi"
    <2>1. Erase = Outcome(Idle, Erased, TRUE)
      BY <1>2 DEF Erase
    <2>2. Fits(Idle) /\ ErasedUpTo(Idle, Erased) /\ AllErased(Erased)
      BY <1>2, IdleType, ErasedType DEF Fits, ErasedUpTo, AllErased
    <2> QED
      BY <2>1, <2>2, IdleType, ErasedType, EraseResultIs
  <1>3. CASE backend = "i2c"
    <2>1. Erase = Outcome(Idle, flash, TRUE)
      BY <1>3 DEF Erase
    <2>2. Fits(Idle) /\ ErasedUpTo(Idle, flash) /\ AllErased(flash)
      BY <1>3, IdleType DEF Fits, ErasedUpTo, AllErased
    <2> QED
      BY <1>1, <2>1, <2>2, IdleType, EraseResultIs
  <1>4. CASE backend = "file"
    <2> DEFINE mem == Blanked(flash, at, Len(Layout))
               d == Doing("RUNNING", 0)
    <2>1. \/ Erase = Outcome(d, flash, FALSE)
          \/ Erase = Outcome(Idle, mem, TRUE)
      BY <1>4 DEF Erase, FileErase
    <2>2. mem \in Stored
      BY <1>1, BlankedIs
    <2>3. d \in DeviceType /\ d.state = "RUNNING"
      <3>1. "RUNNING" \in DeviceState
        BY DEF DeviceState
      <3> QED
        BY <1>1, <3>1, DoingType
    <2> HIDE DEF d, mem
    <2>4. Fits(Idle) /\ ErasedUpTo(Idle, mem) /\ AllErased(mem)
      BY <1>4, IdleType DEF Fits, ErasedUpTo, AllErased
    <2>5. Fits(d) /\ ErasedUpTo(d, flash)
      BY <1>4, <2>3 DEF Fits, ErasedUpTo
    <2> QED
      BY <1>1, <2>1, <2>2, <2>3, <2>4, <2>5, IdleType, EraseResultIs
  <1>5. CASE backend = "fmc"
    <2>1. Erase = FmcErase
      BY <1>5 DEF Erase
    <2>2. "ERASE_BUSY" \in DeviceState /\ "ERASE_PROGRAM" \in DeviceState
      BY DEF DeviceState
    <2>3. ErasedUpTo(device, flash)
      BY DEF IInv, ErasedInv
    <2>4. Fits(Idle) /\ ErasedUpTo(Idle, flash)
      BY <1>5, IdleType DEF Fits, ErasedUpTo
    <2>5. CASE device.state = "IDLE"
      <3> DEFINE d == Doing("ERASE_BUSY", 0)
      <3>1. FmcErase = Outcome(d, flash, FALSE)
        BY <2>5 DEF FmcErase, FmcEraseWith
      <3>2. d \in DeviceType /\ d.state = "ERASE_BUSY" /\ d.at = 0
        BY <1>1, <2>2, DoingType
      <3> HIDE DEF d
      <3>3. Fits(d) /\ ErasedUpTo(d, flash)
        BY <1>1, <1>5, <3>2 DEF Fits, ErasedUpTo
      <3> QED
        BY <1>1, <2>1, <3>1, <3>2, <3>3, EraseResultIs
    <2>6. CASE device.state = "ERASE_BUSY" /\ at = Len(Layout)
      <3>1. FmcErase = Outcome(Idle, flash, TRUE)
        BY <2>6 DEF FmcErase, FmcEraseWith
      <3>2. AllErased(flash)
        BY <1>1, <2>3, <2>6 DEF ErasedUpTo, AllErased
      <3> QED
        BY <1>1, <2>1, <2>4, <3>1, <3>2, IdleType, EraseResultIs
    <2>7. CASE device.state = "ERASE_BUSY" /\ at # Len(Layout)
      <3> DEFINE d == Doing("ERASE_PROGRAM", at)
      <3>1. FmcErase = Outcome(d, flash, FALSE)
        BY <2>7 DEF FmcErase, FmcEraseWith
      <3>2. d \in DeviceType /\ d.state = "ERASE_PROGRAM" /\ d.at = at
        BY <1>1, <2>2, DoingType
      <3> HIDE DEF d
      <3>3. Fits(d) /\ ErasedUpTo(d, flash)
        BY <1>5, <2>3, <2>7, <3>2 DEF Fits, ErasedUpTo
      <3> QED
        BY <1>1, <2>1, <3>1, <3>2, <3>3, EraseResultIs
    <2>8. CASE device.state = "ERASE_PROGRAM"
      <3> DEFINE next == AtMostAll(at + PageWords)
                 mem == Blanked(flash, at, next)
                 d == Doing("ERASE_BUSY", next)
      <3>1. FmcErase = Outcome(d, mem, FALSE)
        BY <2>8 DEF FmcErase, FmcEraseWith
      <3>2. next \in 0 .. Len(Layout)
        BY <1>1, NextIs, SizeAssumption
      <3>3. /\ mem \in Stored
            /\ \A w \in Word : mem[w] =
                   IF Within(w, at, next) THEN Blank ELSE flash[w]
        BY <1>1, BlankedIs
      <3> HIDE DEF next, mem
      <3>4. d \in DeviceType /\ d.state = "ERASE_BUSY" /\ d.at = next
        BY <2>2, <3>2, DoingType
      <3> HIDE DEF d
      <3>5. \A w \in Word : Address(w) <= next => mem[w] = Blank
        BY <1>1, <2>3, <2>8, <3>2, <3>3 DEF ErasedUpTo, Within
      <3>6. Fits(d) /\ ErasedUpTo(d, mem)
        BY <1>5, <3>4, <3>5 DEF Fits, ErasedUpTo
      <3> QED
        BY <2>1, <3>1, <3>3, <3>4, <3>6, EraseResultIs
    <2>9. CASE device.state \notin {"IDLE", "ERASE_BUSY", "ERASE_PROGRAM"}
      <3>1. FmcErase = Outcome(Idle, flash, FALSE)
        BY <2>9 DEF FmcErase, FmcEraseWith
      <3> QED
        BY <1>1, <2>1, <2>4, <3>1, IdleType, EraseResultIs
    <2> QED
      BY <2>5, <2>6, <2>7, <2>8, <2>9
  <1> QED
    BY <1>1, <1>2, <1>3, <1>4, <1>5

\* What a call of Write makes of the device and the flash memory.
WriteResult(o) ==
    /\ o.device \in DeviceType
    /\ o.flash \in Stored
    /\ o.done \in BOOLEAN
    /\ Fits(o.device)
    /\ ErasedUpTo(o.device, o.flash)
    /\ IF o.done THEN o.device.state = "IDLE" /\ o.flash = ram
                 ELSE o.device.state # "IDLE" /\ WrittenUpTo(o.device, o.flash)

LEMMA WriteResultIs ==
    ASSUME NEW d \in DeviceType, NEW mem \in Stored, Fits(d),
           d.state \notin {"IDLE", "ERASE_BUSY", "ERASE_PROGRAM"},
           WrittenUpTo(d, mem)
    PROVE  WriteResult(Outcome(d, mem, FALSE))
  <1> DEFINE o == Outcome(d, mem, FALSE)
  <1>1. o.device = d /\ o.flash = mem /\ o.done = FALSE
    BY DEF Outcome
  <1> HIDE DEF o
  <1>2. WriteResult(o)
    BY <1>1 DEF WriteResult, ErasedUpTo
  <1> QED
    BY <1>2 DEF o

LEMMA WriteDoneIs ==
    ASSUME NEW mem \in Stored, ram \in Settled,
           \A w \in Word : mem[w] = ram[w]
    PROVE  WriteResult(Outcome(Idle, mem, TRUE))
  <1> DEFINE o == Outcome(Idle, mem, TRUE)
  <1>1. o.device = Idle /\ o.flash = mem /\ o.done = TRUE
    BY DEF Outcome
  <1>2. mem = ram
    BY SameWords, SettledType
  <1> HIDE DEF o
  <1>3. WriteResult(o)
    BY <1>1, <1>2, IdleType DEF WriteResult, ErasedUpTo, Fits
  <1> QED
    BY <1>3 DEF o

LEMMA WriteIs == ASSUME IInv, state = "WRITING" PROVE WriteResult(Write)
  <1> DEFINE at == device.at
  <1>1. /\ device \in DeviceType
        /\ flash \in Stored
        /\ ram \in Settled
        /\ backend \in {"spi", "i2c", "file", "fmc"}
        /\ at \in 0 .. Len(Layout)
        /\ 0 \in 0 .. Len(Layout)
        /\ \A w \in Word : Address(w) \in 1 .. 7
        /\ Len(Layout) = 7
    BY DevicesAssumption, Addresses DEF IInv, Types, DeviceType
  <1>2. /\ WrittenUpTo(device, flash)
        /\ device.state = "IDLE" => AllErased(flash)
        /\ Fits(device)
    BY DEF IInv, WrittenInv, ErasedInv, PhaseInv
  <1>3. CASE backend = "spi"
    <2> DEFINE mem == Programmed(flash, 0, Len(Layout))
    <2>1. Write = Outcome(Idle, mem, TRUE)
      BY <1>3 DEF Write
    <2>2. \A w \in Word : flash[w] = Blank
      BY <1>2, <1>3 DEF Fits, AllErased
    <2>3. /\ mem \in Stored
          /\ \A w \in Word : mem[w] =
                 IF Within(w, 0, Len(Layout)) THEN ram[w] ELSE flash[w]
      BY <1>1, <2>2, ProgrammedIs
    <2> HIDE DEF mem
    <2>4. \A w \in Word : mem[w] = ram[w]
      BY <1>1, <2>3 DEF Within
    <2> QED
      BY <1>1, <2>1, <2>3, <2>4, WriteDoneIs
  <1>4. CASE backend = "i2c"
    <2>1. Write = Outcome(Idle, ram, TRUE)
      BY <1>4 DEF Write
    <2> QED
      BY <1>1, <2>1, SettledType, WriteDoneIs
  <1>5. CASE backend = "file"
    <2>1. "RUNNING" \in DeviceState
      BY DEF DeviceState
    <2>2. CASE device.state = "IDLE"
      <3> DEFINE d == Doing("RUNNING", 0)
      <3>1. Write = Outcome(d, flash, FALSE)
        BY <1>5, <2>2 DEF Write, FileWrite
      <3>2. d \in DeviceType /\ d.state = "RUNNING" /\ d.at = 0
        BY <1>1, <2>1, DoingType
      <3> HIDE DEF d
      <3>3. Fits(d) /\ WrittenUpTo(d, flash)
        BY <1>1, <1>5, <3>2 DEF Fits, WrittenUpTo
      <3> QED
        BY <1>1, <3>1, <3>2, <3>3, WriteResultIs
    <2>3. CASE device.state # "IDLE"
      <3> DEFINE next == AtMostAll(at + BlockWords)
                 mem == Copied(flash, at, next)
                 d == Doing("RUNNING", next)
      <3>1. Write = IF next = Len(Layout) THEN Outcome(Idle, mem, TRUE)
                                          ELSE Outcome(d, mem, FALSE)
        BY <1>5, <2>3 DEF Write, FileWrite
      <3>2. next \in 0 .. Len(Layout)
        BY <1>1, NextIs, SizeAssumption
      <3>3. /\ mem \in Stored
            /\ \A w \in Word : mem[w] =
                   IF Within(w, at, next) THEN ram[w] ELSE flash[w]
        BY <1>1, CopiedIs
      <3> HIDE DEF next, mem
      <3>4. d \in DeviceType /\ d.state = "RUNNING" /\ d.at = next
        BY <2>1, <3>2, DoingType
      <3> HIDE DEF d
      <3>5. \A w \in Word : Address(w) <= next => mem[w] = ram[w]
        BY <1>1, <1>2, <2>3, <3>2, <3>3 DEF WrittenUpTo, Within
      <3>6. CASE next = Len(Layout)
        <4>1. \A w \in Word : mem[w] = ram[w]
          BY <1>1, <3>5, <3>6
        <4> QED
          BY <1>1, <3>1, <3>3, <3>6, <4>1, WriteDoneIs
      <3>7. CASE next # Len(Layout)
        <4>1. Fits(d) /\ WrittenUpTo(d, mem)
          BY <1>5, <3>4, <3>5 DEF Fits, WrittenUpTo
        <4> QED
          BY <3>1, <3>3, <3>4, <3>7, <4>1, WriteResultIs
      <3> QED
        BY <3>6, <3>7
    <2> QED
      BY <2>2, <2>3
  <1>6. CASE backend = "fmc"
    <2>1. Write = FmcWrite
      BY <1>6 DEF Write
    <2>2. "WRITE_BUSY" \in DeviceState /\ "WRITE_PROGRAM" \in DeviceState
      BY DEF DeviceState
    <2>3. CASE device.state = "IDLE"
      <3> DEFINE d == Doing("WRITE_BUSY", 0)
      <3>1. FmcWrite = Outcome(d, flash, FALSE)
        BY <2>3 DEF FmcWrite
      <3>2. d \in DeviceType /\ d.state = "WRITE_BUSY" /\ d.at = 0
        BY <1>1, <2>2, DoingType
      <3> HIDE DEF d
      <3>3. Fits(d) /\ WrittenUpTo(d, flash)
        BY <1>1, <1>2, <1>6, <2>3, <3>2 DEF Fits, WrittenUpTo, AllErased
      <3> QED
        BY <1>1, <2>1, <3>1, <3>2, <3>3, WriteResultIs
    <2>4. CASE device.state = "WRITE_BUSY" /\ at = Len(Layout)
      <3>1. FmcWrite = Outcome(Idle, flash, TRUE)
        BY <2>4 DEF FmcWrite
      <3>2. \A w \in Word : flash[w] = ram[w]
        BY <1>1, <1>2, <2>4 DEF WrittenUpTo
      <3> QED
        BY <1>1, <2>1, <3>1, <3>2, WriteDoneIs
    <2>5. CASE device.state = "WRITE_BUSY" /\ at # Len(Layout)
      <3> DEFINE d == Doing("WRITE_PROGRAM", at)
      <3>1. FmcWrite = Outcome(d, flash, FALSE)
        BY <2>5 DEF FmcWrite
      <3>2. d \in DeviceType /\ d.state = "WRITE_PROGRAM" /\ d.at = at
        BY <1>1, <2>2, DoingType
      <3> HIDE DEF d
      <3>3. Fits(d) /\ WrittenUpTo(d, flash)
        BY <1>1, <1>2, <1>6, <2>5, <3>2 DEF Fits, WrittenUpTo
      <3> QED
        BY <1>1, <2>1, <3>1, <3>2, <3>3, WriteResultIs
    <2>6. CASE device.state = "WRITE_PROGRAM"
      <3> DEFINE mem == Programmed(flash, at, at + 1)
                 d == Doing("WRITE_BUSY", at + 1)
      <3>1. FmcWrite = Outcome(d, mem, FALSE)
        BY <2>6 DEF FmcWrite
      <3>2. at + 1 \in 0 .. Len(Layout)
        BY <1>1, <1>2, <2>6 DEF Fits
      <3>3. /\ \A w \in Word : Address(w) <= at => flash[w] = ram[w]
            /\ \A w \in Word : Address(w) > at => flash[w] = Blank
        BY <1>2, <1>6, <2>6 DEF WrittenUpTo
      <3>4. \A w \in Word : Within(w, at, at + 1) => flash[w] = Blank
        BY <1>1, <3>3 DEF Within
      <3>5. /\ mem \in Stored
            /\ \A w \in Word : mem[w] =
                   IF Within(w, at, at + 1) THEN ram[w] ELSE flash[w]
        BY <1>1, <3>4, ProgrammedIs
      <3>6. d \in DeviceType /\ d.state = "WRITE_BUSY" /\ d.at = at + 1
        BY <2>2, <3>2, DoingType
      <3> HIDE DEF mem, d
      <3>7. /\ \A w \in Word : Address(w) <= at + 1 => mem[w] = ram[w]
            /\ \A w \in Word : Address(w) > at + 1 => mem[w] = Blank
        BY <1>1, <3>3, <3>5 DEF Within
      <3>8. Fits(d) /\ WrittenUpTo(d, mem)
        BY <1>6, <3>6, <3>7 DEF Fits, WrittenUpTo
      <3> QED
        BY <2>1, <3>1, <3>5, <3>6, <3>8, WriteResultIs
    <2>7. device.state \in {"IDLE", "WRITE_BUSY", "WRITE_PROGRAM"}
      BY <1>2, <1>6 DEF WrittenUpTo, Fits
    <2> QED
      BY <2>3, <2>4, <2>5, <2>6, <2>7
  <1> QED
    BY <1>1, <1>3, <1>4, <1>5, <1>6

-----------------------------------------------------------------------------
(* The steps of a save *)

Waits == \/ Wait("CHANGED", "CHANGED_WAITING")
         \/ Wait("CHANGED_WAITING", "ERASING")
         \/ Wait("ERASED_WAITING", "ERASED")
         \/ Wait("ERASED", "WRITING")

LEMMA WaitsInv == IInv /\ Waits => IInv'
  <1> SUFFICES ASSUME IInv, Waits PROVE IInv'
    OBVIOUS
  <1>1. /\ ram' = ram /\ flash' = flash /\ device' = device
        /\ backend' = backend /\ rebooting' = rebooting /\ live' = live
        /\ whole' = whole /\ boot' = boot
        /\ state' \in States \ {"IDLE"}
    BY DEF Waits, Wait, States
  <1>2. Types'
    BY <1>1 DEF IInv, Types
  <1>3. PhaseInv' /\ ErasedInv' /\ WrittenInv'
    <2>1. Fits(device)' /\ ErasedUpTo(device, flash)'
      BY <1>1 DEF IInv, PhaseInv, ErasedInv, Fits, ErasedUpTo
    <2>2. state' \in {"ERASED", "WRITING"} =>
              /\ device.state = "IDLE"
              /\ ~ whole
              /\ AllErased(flash)
      BY DEF Waits, Wait, IInv, PhaseInv, ErasedInv
    <2>3. state' # "ERASED_WAITING"
      BY DEF Waits, Wait
    <2> QED
      BY <1>1, <2>1, <2>2, <2>3
      DEF PhaseInv, ErasedInv, WrittenInv, AllErased, WrittenUpTo
  <1> QED
    BY <1>2, <1>3 DEF IInv

LEMMA EraseStepInv == IInv /\ EraseStep => IInv'
  <1> SUFFICES ASSUME IInv, EraseStep PROVE IInv'
    OBVIOUS
  <1> DEFINE o == Erase
  <1>1. /\ state = "ERASING"
        /\ state' = IF o.done THEN "ERASED_WAITING" ELSE state
        /\ flash' = o.flash
        /\ device' = o.device
        /\ whole' = FALSE
        /\ ram' = ram /\ backend' = backend /\ rebooting' = rebooting
        /\ live' = live /\ boot' = boot
    BY DEF EraseStep
  <1>2. EraseResult(o)
    BY EraseIs
  <1> HIDE DEF o
  <1>3. Types'
    BY <1>1, <1>2 DEF IInv, Types, EraseResult, States
  <1>4. Fits(device)' /\ ErasedUpTo(device, flash)'
    BY <1>1, <1>2 DEF EraseResult, Fits, ErasedUpTo
  <1>5. CASE o.done
    <2>1. state' = "ERASED_WAITING" /\ device'.state = "IDLE"
      BY <1>1, <1>2, <1>5 DEF EraseResult
    <2>2. AllErased(flash)'
      BY <1>1, <1>2, <1>5 DEF EraseResult, AllErased
    <2> QED
      BY <1>1, <1>3, <1>4, <2>1, <2>2
      DEF IInv, PhaseInv, ErasedInv, WrittenInv
  <1>6. CASE ~ o.done
    BY <1>1, <1>3, <1>4, <1>6 DEF IInv, PhaseInv, ErasedInv, WrittenInv
  <1> QED
    BY <1>5, <1>6

\* A save that is done has kept the settings as they are now.
LEMMA WriteStepKeeps ==
    ASSUME IInv, WriteStep
    PROVE  Write.done => flash' = ram /\ Started(flash') = ram
  <1>1. WriteResult(Write) /\ flash' = Write.flash
    BY WriteIs DEF WriteStep
  <1>2. ram \in Settled
    BY DEF IInv, Types
  <1> QED
    BY <1>1, <1>2, StartedSame DEF WriteResult

LEMMA WriteStepInv == IInv /\ WriteStep => IInv'
  <1> SUFFICES ASSUME IInv, WriteStep PROVE IInv'
    OBVIOUS
  <1> DEFINE o == Write
  <1>1. /\ state = "WRITING"
        /\ state' = IF o.done THEN "IDLE" ELSE state
        /\ flash' = o.flash
        /\ device' = o.device
        /\ whole' = o.done
        /\ ram' = ram /\ backend' = backend /\ rebooting' = rebooting
        /\ live' = live /\ boot' = boot
    BY DEF WriteStep
  <1>2. WriteResult(o) /\ (o.done => Started(flash') = ram)
    BY <1>1, WriteIs, WriteStepKeeps
  <1> HIDE DEF o
  <1>3. Types'
    BY <1>1, <1>2 DEF IInv, Types, WriteResult, States
  <1>4. Fits(device)' /\ ErasedUpTo(device, flash)'
    BY <1>1, <1>2 DEF WriteResult, Fits, ErasedUpTo
  <1>5. CASE o.done
    BY <1>1, <1>2, <1>3, <1>4, <1>5 DEF IInv, PhaseInv, ErasedInv, WrittenInv
  <1>6. CASE ~ o.done
    <2>1. state' = "WRITING" /\ device'.state # "IDLE" /\ whole' = FALSE
      BY <1>1, <1>2, <1>6 DEF WriteResult
    <2>2. WrittenUpTo(device, flash)'
      BY <1>1, <1>2, <1>6 DEF WriteResult, WrittenUpTo
    <2> QED
      BY <1>3, <1>4, <2>1, <2>2 DEF IInv, PhaseInv, ErasedInv, WrittenInv
  <1> QED
    BY <1>5, <1>6

-----------------------------------------------------------------------------
(* Changes of the settings *)

\* A change restarts the save, whatever it has come to.
LEMMA RestartedInv ==
    ASSUME IInv, ram' \in Settled, state' = "CHANGED", live' \in LiveType,
           rebooting' = rebooting, boot' = boot,
           UNCHANGED <<flash, device, backend, whole>>
    PROVE  IInv'
  <1>1. Types'
    BY DEF IInv, Types, States
  <1>2. Fits(device)' /\ ErasedUpTo(device, flash)'
    BY DEF IInv, PhaseInv, ErasedInv, Fits, ErasedUpTo
  <1> QED
    BY <1>1, <1>2 DEF IInv, PhaseInv, ErasedInv, WrittenInv

LEMMA SameInv ==
    ASSUME IInv, live' \in LiveType, rebooting' \in BOOLEAN,
           UNCHANGED <<state, ram, flash, device, backend, whole, boot>>
    PROVE  IInv'
  BY DEF IInv, Types, PhaseInv, ErasedInv, WrittenInv, Fits, ErasedUpTo,
         AllErased, WrittenUpTo

LEMMA ChangedInv ==
    ASSUME IInv, NEW image \in Settled, Changed(image), live' \in LiveType
    PROVE  IInv'
  <1>1. rebooting \in BOOLEAN
    BY DEF IInv, Types
  <1>2. CASE image = ram
    BY <1>1, <1>2, SameInv DEF Changed
  <1>3. CASE image # ram
    BY <1>3, RestartedInv DEF Changed
  <1> QED
    BY <1>2, <1>3

Changes == \/ \E l \in Labels : SetShortName(l)
           \/ \E p \in Ports, m \in {HTP, LTP} : SetMergeMode(p, m)
           \/ \E v \in DmxValues : SetDmx(v)
           \/ \E o \in UtcOffsets : SetEnvUtcOffset(o)

\* Every change puts settings in place of settings.
LEMMA ChangesAre ==
    ASSUME IInv, Changes
    PROVE  \E image \in Settled : Changed(image) /\ live' \in LiveType
  <1>1. ram \in Settled /\ live \in LiveType
    BY DEF IInv, Types
  <1>2. ASSUME NEW l \in Labels, SetShortName(l)
        PROVE  \E image \in Settled : Changed(image) /\ live' \in LiveType
    <2>1. UpdateLabel(l) \in Settled
      <3>1. ram.nodeSet \cup {"label"} = {"label"}
        BY <1>1 DEF Settled
      <3>2. UpdateLabel(l) \in
                {ram, [ram EXCEPT !.label = l, !.nodeSet = {"label"}]}
        BY <1>1, <3>1 DEF UpdateLabel, Settled
      <3> QED
        BY <1>1, <3>2 DEF Settled
    <2>2. live' \in LiveType
      BY <1>1, <1>2 DEF SetShortName, LiveType
    <2> QED
      BY <1>2, <2>1, <2>2 DEF SetShortName
  <1>3. ASSUME NEW p \in Ports, NEW m \in {HTP, LTP}, SetMergeMode(p, m)
        PROVE  \E image \in Settled : Changed(image) /\ live' \in LiveType
    <2>1. PICK modes \in ModesRead :
              Changed([ram EXCEPT !.modes = [modes EXCEPT ![p] = m]])
      BY <1>3 DEF SetMergeMode
    <2>2. modes \in Modes
      <3>1. [Ports -> Noise] \subseteq Modes
        BY NoiseAssumption DEF Modes
      <3>2. Bits(ram.modes) \in Modes
        BY <1>1 DEF Bits, Settled, Modes, Ones
      <3> QED
        BY <3>1, <3>2 DEF ModesRead
    <2> DEFINE new == [modes EXCEPT ![p] = m]
    <2>3. new \in Modes
      BY <2>2 DEF Modes, HTP, LTP
    <2> HIDE DEF new
    <2>4. [ram EXCEPT !.modes = new] \in Settled
      BY <1>1, <2>3 DEF Settled
    <2>5. live' \in LiveType
      <3> DEFINE used == [live.modes EXCEPT ![p] = m]
      <3>1. used \in [Ports -> {HTP, LTP}]
        BY <1>1 DEF LiveType
      <3>2. live' = [live EXCEPT !.modes = used]
        BY <1>3 DEF SetMergeMode
      <3> HIDE DEF used
      <3> QED
        BY <1>1, <3>1, <3>2 DEF LiveType
    <2> QED
      BY <2>1, <2>4, <2>5 DEF new
  <1>4. ASSUME NEW v \in DmxValues, SetDmx(v)
        PROVE  \E image \in Settled : Changed(image) /\ live' \in LiveType
    <2> DEFINE dmxSet == IF v = DefaultDmx THEN {} ELSE {"dmx"}
    <2>1. dmxSet \in {{}, {"dmx"}}
      OBVIOUS
    <2>2. Changed([ram EXCEPT !.dmx = v, !.dmxSet = dmxSet]) /\ live' = live
      BY <1>4 DEF SetDmx
    <2> HIDE DEF dmxSet
    <2>3. [ram EXCEPT !.dmx = v, !.dmxSet = dmxSet] \in Settled
      BY <1>1, <2>1 DEF Settled
    <2> QED
      BY <1>1, <2>2, <2>3
  <1>5. ASSUME NEW o \in UtcOffsets, SetEnvUtcOffset(o)
        PROVE  \E image \in Settled : Changed(image) /\ live' \in LiveType
    <2>1. [ram EXCEPT !.env = o] \in Settled
      BY <1>1 DEF Settled
    <2> QED
      BY <1>1, <1>5, <2>1 DEF SetEnvUtcOffset
  <1> QED
    BY <1>2, <1>3, <1>4, <1>5 DEF Changes

LEMMA FactoryIs == ASSUME IInv, HandleFactory PROVE ram' \in Settled
  BY DEF HandleFactory, IInv, Types, Settled

-----------------------------------------------------------------------------
(* Starts *)

LEMMA StartInv == ASSUME IInv, NEW by \in {"reboot", "reset"}, Start(by)
                  PROVE  IInv'
  <1>1. flash \in Stored /\ boot.odd \in BOOLEAN
    BY DEF IInv, Types
  <1>2. ram' \in Settled /\ ram' = Started(flash)
    BY <1>1, StartedType DEF Start
  <1>3. live' \in LiveType
    BY <1>2, InUseType DEF Start
  <1>4. /\ device' = Idle /\ rebooting' = FALSE /\ whole' = TRUE
        /\ backend' = backend /\ flash' = flash
        /\ state' \in {"IDLE", "CHANGED"}
    BY DEF Start, StartState
  <1>5. boot' \in [by : {"reboot", "reset"}, odd : BOOLEAN]
    BY DEF Start
  <1>6. Types'
    BY <1>1, <1>2, <1>3, <1>4, <1>5, IdleType DEF IInv, Types, States
  <1>7. Fits(device)' /\ ErasedUpTo(device, flash)'
    BY <1>4, IdleType DEF Fits, ErasedUpTo
  <1> QED
    BY <1>2, <1>4, <1>6, <1>7 DEF IInv, PhaseInv, ErasedInv, WrittenInv

-----------------------------------------------------------------------------
(* The invariant *)

LEMMA NextCases ==
    Next => \/ Waits \/ EraseStep \/ WriteStep \/ Changes \/ HandleFactory
            \/ Delay \/ HandleReboot \/ Reboot \/ Restart
  BY Zenon DEF Next, Flash, Waits, Changes

LEMMA StepInv == IInv /\ [Next]_vars => IInv'
  <1> SUFFICES ASSUME IInv, [Next]_vars PROVE IInv'
    OBVIOUS
  <1>1. ram \in Settled /\ live \in LiveType /\ rebooting \in BOOLEAN
    BY DEF IInv, Types
  <1>2. CASE Waits
    BY <1>2, WaitsInv
  <1>3. CASE EraseStep
    BY <1>3, EraseStepInv
  <1>4. CASE WriteStep
    BY <1>4, WriteStepInv
  <1>5. CASE Changes
    BY <1>5, ChangesAre, ChangedInv
  <1>6. CASE HandleFactory
    BY <1>1, <1>6, FactoryIs, RestartedInv DEF HandleFactory
  <1>7. CASE Delay
    BY <1>1, <1>7, RestartedInv DEF Delay
  <1>8. CASE HandleReboot
    BY <1>1, <1>8, SameInv DEF HandleReboot
  <1>9. CASE Reboot \/ Restart
    BY <1>9, StartInv DEF Reboot, Restart
  <1>10. CASE UNCHANGED vars
    BY <1>1, <1>10, SameInv DEF vars
  <1> QED
    BY <1>2, <1>3, <1>4, <1>5, <1>6, <1>7, <1>8, <1>9, <1>10, NextCases

\* Every state that the store reaches satisfies the inductive invariant.
THEOREM StoreInvariant == Spec => []IInv
  BY InitInv, StepInv, PTL DEF Spec

\* The types of the store's state, of the image in RAM and of the device.
THEOREM StoreTypeCorrect == Spec => []TypeOK
  BY StoreInvariant, IInvImplies, PTL

\* Flash of configstore.cpp: when the store is idle, what a start would read
\* back is exactly what is in RAM, whatever changed while it was saving.
THEOREM SavedWhenIdle == Spec => []IdleIsSaved
  BY StoreInvariant, IInvImplies, PTL

\* The devices' Erase and Write: no word is programmed that is not erased,
\* also after an Erase or a Write that was broken off.
THEOREM NeverSpoiled == Spec => []NothingSpoiled
  <1>1. IInv => NothingSpoiled
    <2> SUFFICES ASSUME IInv PROVE NothingSpoiled
      OBVIOUS
    <2>1. flash \in Stored
      BY DEF IInv, Types
    <2> QED
      BY <2>1, WordIs, SpoiledAssumption DEF NothingSpoiled, Stored
  <1> QED
    BY <1>1, StoreInvariant, PTL

-----------------------------------------------------------------------------
(* What a start finds in the middle of a save *)

\* The signature is the first word: while a save writes, memory that has it
\* not is erased.
Signed(mem) == mem.signature = AvV \/ \A w \in Word : mem[w] = Blank

LEMMA FirstWord == Address("signature") = 1
  <1>1. /\ DOMAIN Layout = 1 .. 7
        /\ \A i \in 1 .. 7 : Layout[i] = "signature" <=> i = 1
    BY DEF Layout
  <1> QED
    BY <1>1 DEF Address

\* A save to the file, broken off or not, that has written the first block.
\* An Erase after it starts behind that block.
SignedInv ==
    backend = "file" =>
        /\ device.state = "RUNNING" /\ device.at > 0 => flash.signature = AvV
        /\ state \in {"ERASED_WAITING", "ERASED", "WRITING"} => Signed(flash)

LEMMA EraseStepSigned ==
    ASSUME IInv, SignedInv, EraseStep
    PROVE  SignedInv'
  <1> SUFFICES ASSUME backend' = "file" PROVE SignedInv'
    BY DEF SignedInv
  <1> DEFINE at == device.at
             mem == Blanked(flash, at, Len(Layout))
  <1>1. /\ backend = "file" /\ Erase = FileErase /\ state = "ERASING"
        /\ device \in DeviceType /\ at \in 0 .. 7 /\ flash \in Stored
        /\ device.state \in {"IDLE", "RUNNING"}
    BY Addresses DEF EraseStep, Erase, IInv, Types, PhaseInv, Fits, DeviceType
  <1>2. CASE device.state = "IDLE"
    <2>1. Erase = Outcome(Doing("RUNNING", 0), flash, FALSE)
      BY <1>1, <1>2 DEF FileErase
    <2>2. state' = "ERASING" /\ device' = Doing("RUNNING", 0)
      BY <1>1, <2>1 DEF EraseStep, Outcome
    <2>3. device'.at = 0
      BY <2>2 DEF Doing
    <2> QED
      BY <2>2, <2>3 DEF SignedInv
  <1>3. CASE device.state = "RUNNING"
    <2>1. Erase = Outcome(Idle, mem, TRUE)
      BY <1>1, <1>3 DEF FileErase
    <2>2. device' = Idle /\ flash' = mem
      BY <2>1 DEF EraseStep, Outcome
    <2>3. \A w \in Word : mem[w] =
              IF Within(w, at, Len(Layout)) THEN Blank ELSE flash[w]
      BY <1>1, BlankedIs
    <2> HIDE DEF mem
    <2>4. CASE at = 0
      <3>1. \A w \in Word : mem[w] = Blank
        BY <2>3, <2>4, Addresses DEF Within
      <3> QED
        BY <2>2, <3>1, IdleType DEF SignedInv, Signed
    <2>5. CASE at # 0
      <3>1. flash.signature = AvV
        BY <1>1, <1>3, <2>5 DEF SignedInv
      <3>2. mem["signature"] = flash["signature"]
        BY <1>1, <2>3, <2>5, FirstWord, WordIs DEF Within
      <3> QED
        BY <2>2, <3>1, <3>2, IdleType DEF SignedInv, Signed
    <2> QED
      BY <2>4, <2>5
  <1> QED
    BY <1>1, <1>2, <1>3

LEMMA WriteStepSigned ==
    ASSUME IInv, SignedInv, WriteStep
    PROVE  SignedInv'
  <1> SUFFICES ASSUME backend' = "file" PROVE SignedInv'
    BY DEF SignedInv
  <1> DEFINE at == device.at
             next == AtMostAll(at + BlockWords)
             mem == Copied(flash, at, next)
  <1>1. /\ backend = "file" /\ Write = FileWrite /\ state = "WRITING"
        /\ device \in DeviceType /\ at \in 0 .. 7 /\ flash \in Stored
        /\ device.state \in {"IDLE", "RUNNING"}
        /\ ram \in Settled
    BY Addresses DEF WriteStep, Write, IInv, Types, PhaseInv, Fits, DeviceType
  <1>2. CASE device.state = "IDLE"
    <2>1. Write = Outcome(Doing("RUNNING", 0), flash, FALSE)
      BY <1>1, <1>2 DEF FileWrite
    <2>2. flash' = flash /\ device' = Doing("RUNNING", 0)
      BY <1>1, <2>1 DEF WriteStep, Outcome
    <2>3. device'.at = 0
      BY <2>2 DEF Doing
    <2>4. Signed(flash)
      BY <1>1 DEF SignedInv
    <2> QED
      BY <2>2, <2>3, <2>4 DEF SignedInv, Signed
  <1>3. CASE device.state = "RUNNING"
    <2>1. Write = IF next = Len(Layout)
                  THEN Outcome(Idle, mem, TRUE)
                  ELSE Outcome(Doing("RUNNING", next), mem, FALSE)
      BY <1>1, <1>3 DEF FileWrite
    <2>2. flash' = mem
      BY <2>1 DEF WriteStep, Outcome
    <2>3. \A w \in Word : mem[w] =
              IF Within(w, at, next) THEN ram[w] ELSE flash[w]
      BY <1>1, CopiedIs
    <2>4. next \in 1 .. 7
      BY <1>1, SizeAssumption, Addresses DEF AtMostAll
    <2> HIDE DEF mem, next
    <2>5. mem["signature"] = AvV
      <3>1. CASE at = 0
        BY <1>1, <2>3, <2>4, <3>1, FirstWord, WordIs DEF Within, Settled
      <3>2. CASE at # 0
        <4>1. flash.signature = AvV
          BY <1>1, <1>3, <3>2 DEF SignedInv
        <4> QED
          BY <1>1, <2>3, <3>2, <4>1, FirstWord, WordIs DEF Within
      <3> QED
        BY <3>1, <3>2
    <2> QED
      BY <2>2, <2>5 DEF SignedInv, Signed
  <1> QED
    BY <1>1, <1>2, <1>3

LEMMA StepSigned == IInv /\ SignedInv /\ [Next]_vars => SignedInv'
  <1> SUFFICES ASSUME IInv, SignedInv, [Next]_vars PROVE SignedInv'
    OBVIOUS
  <1>1. CASE Waits
    BY <1>1 DEF Waits, Wait, SignedInv, Signed
  <1>2. CASE Changes \/ HandleFactory \/ Delay \/ HandleReboot \/ UNCHANGED vars
    <2>1. /\ UNCHANGED <<flash, device, backend>>
          /\ state' \in {state, "CHANGED"}
      BY <1>2 DEF Changes, SetShortName, SetMergeMode, SetDmx, SetEnvUtcOffset,
                  Changed, HandleFactory, Delay, HandleReboot, vars
    <2> QED
      BY <2>1 DEF SignedInv, Signed
  <1>3. CASE Reboot \/ Restart
    <2>1. device' = Idle /\ state' \in {"IDLE", "CHANGED"}
      BY <1>3 DEF Reboot, Restart, Start, StartState
    <2> QED
      BY <2>1, IdleType DEF SignedInv
  <1> QED
    BY <1>1, <1>2, <1>3, EraseStepSigned, WriteStepSigned, NextCases

LEMMA InitSigned == Init => SignedInv
  BY IdleType DEF Init, StartState, SignedInv

\* A start finds a setting as it is stored, or makes it a default.
LEMMA StartedWord ==
    ASSUME NEW f \in Stored, NEW w \in Word
    PROVE  \/ Started(f)[w] \in DefaultWords[w]
           \/ /\ f.signature = AvV /\ f[w] # Blank
              /\ Started(f)[w] = f[w]
  <1>1. CASE f.signature # AvV
    <2>1. Started(f) = [Zeroes EXCEPT !.dmx = DefaultDmx]
      BY <1>1 DEF Started, Loaded, Constructed, NoDmx, Zeroes
    <2> QED
      BY <2>1, WordIs DEF Zeroes, DefaultWords
  <1>2. CASE f.signature = AvV
    <2>1. Started(f) = Constructed(f)
      <3>1. f.dmx # 0
        BY DmxAssumption, BlankAssumption DEF Stored
      <3>2. Constructed(f).dmx = f.dmx
        BY <1>2 DEF Constructed, Stored
      <3> QED
        BY <3>1, <3>2 DEF Started, Loaded, NoDmx
    <2>2. /\ Constructed(f).signature = AvV
          /\ Constructed(f).env = Known(f.env, 0)
          /\ Constructed(f).dmxSet = Known(f.dmxSet, {})
          /\ Constructed(f).nodeSet = Known(f.nodeSet, {})
          /\ \A x \in {"dmx", "modes", "label"} : Constructed(f)[x] = f[x]
      BY <1>2 DEF Constructed, Stored
    <2> QED
      BY <1>2, <2>1, <2>2, WordIs DEF Known, DefaultWords
  <1> QED
    BY <1>1, <1>2

LEMMA StoredWord ==
    ASSUME NEW f \in Stored, f.signature = AvV, NEW w \in Word, f[w] # Blank
    PROVE  Started(f)[w] = f[w]
  <1>1. Started(f) = Constructed(f)
    <2>1. f.dmx # 0
      BY DmxAssumption, BlankAssumption DEF Stored
    <2>2. Constructed(f).dmx = f.dmx
      BY DEF Constructed, Stored
    <2> QED
      BY <2>1, <2>2 DEF Started, Loaded, NoDmx
  <1>2. /\ Constructed(f).signature = AvV
        /\ Constructed(f).env = Known(f.env, 0)
        /\ Constructed(f).dmxSet = Known(f.dmxSet, {})
        /\ Constructed(f).nodeSet = Known(f.nodeSet, {})
        /\ \A x \in {"dmx", "modes", "label"} : Constructed(f)[x] = f[x]
    BY DEF Constructed, Stored
  <1> QED
    BY <1>1, <1>2, WordIs DEF Known

\* A step of a save that is not done: a start after it finds every setting as
\* before, as it is now in RAM, or a default.
TornBetween(mem) ==
    \A w \in Word :
        Started(mem)[w] \in {Started(flash)[w], ram[w]} \cup DefaultWords[w]

LEMMA ErasedIsTorn ==
    ASSUME flash \in Stored, NEW mem \in Stored,
           \A w \in Word : mem[w] \in {flash[w], Blank}
    PROVE  TornBetween(mem)
  <1> SUFFICES ASSUME NEW w \in Word,
                      mem.signature = AvV, mem[w] # Blank,
                      Started(mem)[w] = mem[w]
               PROVE  Started(mem)[w] = Started(flash)[w]
    BY StartedWord DEF TornBetween
  <1>1. flash.signature = AvV
    <2>1. mem["signature"] \in {flash["signature"], Blank}
      BY WordIs
    <2>2. AvV # Blank \/ flash.signature = AvV
      <3>1. CASE AvV = Blank
        BY <3>1 DEF Stored
      <3> QED
        BY <3>1
    <2> QED
      BY <2>1, <2>2
  <1>2. flash[w] = mem[w]
    OBVIOUS
  <1> QED
    BY <1>1, <1>2, StoredWord

LEMMA WrittenIsTorn ==
    ASSUME flash \in Stored, NEW mem \in Stored, Signed(flash),
           \A w \in Word : mem[w] \in {flash[w], ram[w]}
    PROVE  TornBetween(mem)
  <1> SUFFICES ASSUME NEW w \in Word,
                      mem.signature = AvV, mem[w] # Blank, mem[w] # ram[w],
                      Started(mem)[w] = mem[w]
               PROVE  Started(mem)[w] = Started(flash)[w]
    BY StartedWord DEF TornBetween
  <1>1. flash[w] = mem[w]
    OBVIOUS
  <1>2. flash.signature = AvV
    BY <1>1 DEF Signed
  <1> QED
    BY <1>1, <1>2, StoredWord

\* What Erase does to memory, on every device.
LEMMA EraseTears ==
    ASSUME IInv
    PROVE  \A w \in Word : Erase.flash[w] \in {flash[w], Blank}
  <1>1. flash \in Stored /\ backend \in {"spi", "i2c", "file", "fmc"}
    BY DevicesAssumption DEF IInv, Types
  <1>2. \A first, last : \A w \in Word :
            Blanked(flash, first, last)[w] \in {flash[w], Blank}
    BY <1>1, BlankedIs
  <1>3. \/ Erase.flash = flash
        \/ Erase.flash = Erased
        \/ \E first, last : Erase.flash = Blanked(flash, first, last)
    <2>1. CASE backend = "spi"
      BY <2>1 DEF Erase, Outcome
    <2>2. CASE backend = "i2c"
      BY <2>2 DEF Erase, Outcome
    <2>3. CASE backend = "file"
      <3>1. Erase.flash \in {flash, Blanked(flash, device.at, Len(Layout))}
        BY <2>3 DEF Erase, FileErase, Outcome
      <3> QED
        BY <3>1
    <2>4. CASE backend = "fmc"
      <3> DEFINE next == AtMostAll(device.at + PageWords)
                 mem == Blanked(flash, device.at, next)
      <3>1. Erase = FmcEraseWith(Outcome(Idle, flash, FALSE))
        BY <2>4 DEF Erase, FmcErase
      <3>2. \E d, done :
                Erase \in {Outcome(d, flash, done), Outcome(d, mem, done)}
        BY <3>1 DEF FmcEraseWith
      <3> HIDE DEF mem
      <3>3. Erase.flash \in {flash, mem}
        BY <3>2 DEF Outcome
      <3> QED
        BY <3>3 DEF mem
    <2> QED
      BY <1>1, <2>1, <2>2, <2>3, <2>4
  <1> QED
    BY <1>2, <1>3, ErasedType

\* What Write does to memory before it is done, on the two devices that take
\* more than one call.
LEMMA WriteTears ==
    ASSUME IInv, SignedInv, state = "WRITING", ~ Write.done
    PROVE  /\ Signed(flash)
           /\ \A w \in Word : Write.flash[w] \in {flash[w], ram[w]}
  <1>1. /\ flash \in Stored /\ ram \in Settled
        /\ backend \in {"spi", "i2c", "file", "fmc"}
        /\ device.state \in DeviceState /\ device.at \in 0 .. 7
        /\ Fits(device)
        /\ WrittenUpTo(device, flash)
        /\ device.state = "IDLE" => AllErased(flash)
    BY DevicesAssumption, Addresses
    DEF IInv, Types, DeviceType, PhaseInv, ErasedInv, WrittenInv
  <1>2. backend \in {"file", "fmc"}
    <2>1. backend \in {"spi", "i2c"} => Write.done
      BY DEF Write, Outcome
    <2> QED
      BY <1>1, <2>1
  <1>3. CASE backend = "file"
    <2>1. Write.flash \in
              {flash,
               Copied(flash, device.at, AtMostAll(device.at + BlockWords))}
      BY <1>3 DEF Write, FileWrite, Outcome
    <2>2. Signed(flash)
      BY <1>3 DEF SignedInv
    <2> QED
      BY <1>1, <2>1, <2>2, CopiedIs
  <1>4. CASE backend = "fmc"
    <2> DEFINE at == device.at
               mem == Programmed(flash, at, at + 1)
    <2>1. Write = FmcWrite
      BY <1>4 DEF Write
    <2>2. Signed(flash)
      <3>1. CASE device.state = "IDLE"
        BY <1>1, <1>4, <3>1 DEF AllErased, Signed
      <3>2. CASE device.state # "IDLE" /\ at = 0
        BY <1>1, <1>4, <3>2, Addresses DEF WrittenUpTo, Signed
      <3>3. CASE device.state # "IDLE" /\ at # 0
        <4>1. flash["signature"] = ram["signature"]
          BY <1>1, <3>3, FirstWord, WordIs DEF WrittenUpTo
        <4> QED
          BY <1>1, <4>1 DEF Signed, Settled
      <3> QED
        BY <3>1, <3>2, <3>3
    <2>3. CASE device.state # "WRITE_PROGRAM"
      <3>1. Write.flash = flash
        BY <1>1, <1>4, <2>1, <2>3 DEF FmcWrite, Outcome
      <3> QED
        BY <2>2, <3>1
    <2>4. CASE device.state = "WRITE_PROGRAM"
      <3>1. Write.flash = mem
        BY <2>1, <2>4 DEF FmcWrite, Outcome
      <3>2. \A w \in Word : Within(w, at, at + 1) => flash[w] = Blank
        BY <1>1, <1>4, <2>4 DEF WrittenUpTo, Within
      <3>3. \A w \in Word :
                mem[w] = IF Within(w, at, at + 1) THEN ram[w] ELSE flash[w]
        BY <1>1, <3>2, ProgrammedIs
      <3> HIDE DEF mem
      <3> QED
        BY <2>2, <3>1, <3>3
    <2> QED
      BY <2>3, <2>4
  <1> QED
    BY <1>2, <1>3, <1>4

-----------------------------------------------------------------------------
(* The refinement of Settings *)

LEMMA InitKept == Init => Kept!Init
  <1> SUFFICES ASSUME Init PROVE Kept!Init
    OBVIOUS
  <1>1. ram \in Image
    BY InitInv, IInvImplies DEF TypeOK
  <1> QED
    BY <1>1 DEF Init, Kept!Init

\* A step of a save that is not done is a step of the save of Settings.
LEMMA TearsKept ==
    ASSUME flash' \in Stored, TornBetween(flash'), whole' = FALSE,
           UNCHANGED <<ram, rebooting, boot>>
    PROVE  Kept!Save
  <1>1. Started(flash') \in Image
    BY StartedType, SettledType
  <1> QED
    BY <1>1 DEF Kept!Save, TornBetween

LEMMA StepKept ==
    IInv /\ IInv' /\ SignedInv /\ [Next]_vars => [Kept!Next]_(Kept!vars)
  <1> SUFFICES ASSUME IInv, IInv', SignedInv, [Next]_vars
               PROVE  Kept!Next \/ UNCHANGED Kept!vars
    OBVIOUS
  <1>1. ram' \in Image /\ flash \in Stored /\ flash' \in Stored
    BY SettledType DEF IInv, Types
  <1>2. CASE EraseStep
    <2>1. /\ flash' = Erase.flash /\ whole' = FALSE
          /\ UNCHANGED <<ram, rebooting, boot>>
      BY <1>2 DEF EraseStep
    <2>2. \A w \in Word : flash'[w] \in {flash[w], Blank}
      BY <2>1, EraseTears
    <2>3. TornBetween(flash')
      BY <1>1, <2>2, ErasedIsTorn
    <2> QED
      BY <1>1, <2>1, <2>3, TearsKept DEF Kept!Next
  <1>3. CASE WriteStep /\ ~ Write.done
    <2>1. /\ flash' = Write.flash /\ whole' = Write.done /\ state = "WRITING"
          /\ UNCHANGED <<ram, rebooting, boot>>
      BY <1>3 DEF WriteStep
    <2>2. whole' = FALSE
      BY <1>3, <2>1 DEF IInv, Types
    <2>3. Signed(flash) /\ \A w \in Word : flash'[w] \in {flash[w], ram[w]}
      BY <1>3, <2>1, WriteTears
    <2>4. TornBetween(flash')
      BY <1>1, <2>3, WrittenIsTorn
    <2> QED
      BY <1>1, <2>1, <2>2, <2>4, TearsKept DEF Kept!Next
  <1>4. CASE WriteStep /\ Write.done
    <2>1. Started(flash') = ram /\ whole' /\ UNCHANGED <<ram, rebooting, boot>>
      BY <1>4, WriteStepKeeps DEF WriteStep
    <2>2. ~ whole
      BY <1>4 DEF WriteStep, IInv, PhaseInv
    <2>3. ~ whole' = FALSE
      BY <2>1
    <2> QED
      BY <2>1, <2>2, <2>3 DEF Kept!Next, Kept!EndSave
  <1>5. CASE Changes
    <2>1. ~ rebooting /\ UNCHANGED <<flash, whole, rebooting, boot>>
      BY <1>5 DEF Changes, SetShortName, SetMergeMode, SetDmx,
                  SetEnvUtcOffset, Changed
    <2> QED
      BY <1>1, <2>1 DEF Kept!Next, Kept!Change
  <1>6. CASE HandleFactory
    <2>1. ~ rebooting /\ UNCHANGED <<flash, whole, rebooting, boot>>
      BY <1>6 DEF HandleFactory
    <2> QED
      BY <1>1, <2>1 DEF Kept!Next, Kept!Change
  <1>7. CASE HandleReboot
    <2>1. /\ ~ rebooting /\ rebooting' = TRUE
          /\ UNCHANGED <<ram, flash, whole, boot>>
      BY <1>7 DEF HandleReboot
    <2> QED
      BY <2>1 DEF Kept!Next, Kept!AskReboot
  <1>8. CASE Reboot
    <2>1. whole /\ Started(flash) = ram
      BY <1>8 DEF Reboot, IInv, PhaseInv
    <2>2. /\ rebooting /\ rebooting' = FALSE
          /\ ram' = Started(flash)
          /\ whole' = TRUE /\ flash' = flash
          /\ boot' = [by |-> "reboot", odd |-> ~ boot.odd]
      BY <1>8 DEF Reboot, Start
    <2>3. ram' = ram /\ (~ whole)' = ~ whole
      BY <2>1, <2>2
    <2> QED
      BY <2>1, <2>2, <2>3 DEF Kept!Next, Kept!Reboot, Kept!Started
  <1>9. CASE Restart
    <2>1. /\ rebooting' = FALSE
          /\ ram' = Started(flash)
          /\ whole' = TRUE /\ flash' = flash
          /\ boot' = [by |-> "reset", odd |-> ~ boot.odd]
      BY <1>9 DEF Restart, Start
    <2> QED
      BY <2>1 DEF Kept!Next, Kept!Restart, Kept!Started
  <1>10. CASE Waits \/ Delay \/ UNCHANGED vars
    <2>1. UNCHANGED <<ram, flash, whole, rebooting, boot>>
      BY <1>10 DEF Waits, Wait, Delay, vars
    <2> QED
      BY <2>1 DEF Kept!vars
  <1> QED
    BY <1>2, <1>3, <1>4, <1>5, <1>6, <1>7, <1>8, <1>9, <1>10, NextCases

\* The store keeps what Settings promises, whatever its device does in the
\* steps of a save and wherever the power fails: each setting is found as it
\* was, as it was to be, or a default.
THEOREM StoreImplementsSettings == Spec => ImplementsSettings
  <1>1. Spec => []SignedInv
    BY InitSigned, StepSigned, StoreInvariant, PTL DEF Spec
  <1> QED
    BY <1>1, InitKept, StepKept, StoreInvariant, PTL
    DEF Spec, ImplementsSettings, Kept!Spec
=============================================================================
