----------------------------- MODULE ConfigStore -----------------------------
(***************************************************************************)
(* The store of settings: class ConfigStore of lib-configstore, the store  *)
(* devices below it, and the settings of the Art-Net node and of the DMX   *)
(* driver that are kept in it.                                             *)
(*                                                                         *)
(* The settings live in one image in RAM.  Every change of it restarts a   *)
(* state machine which the main loop drives one step at a time with Flash: *)
(* wait, erase the flash memory, wait, write the image.  Changes go on     *)
(* while it works, and the power may fail between any two steps.           *)
(*                                                                         *)
(* An action is one call into the store.  Of the clock it matters only     *)
(* that a wait of 100 ms ends some time.  Of the image a few words stand   *)
(* for the rest, in the order of their addresses.                          *)
(***************************************************************************)
EXTENDS Naturals, Sequences

CONSTANTS
    Devices,      \* the store devices firmwares are built with
    Ports,        \* ports of the node whose merge modes share one word
    Labels,       \* short names that ArtAddress may set
    UtcOffsets,   \* of the environment, in seconds
    DmxValues,    \* settings of the DMX driver: break time and so on
    DefaultDmx,   \* those that DmxParams starts with
    Noise,        \* bits that an uninitialized merge mode may hold
    PageWords,    \* words erased at a time by the flash of the GD32
    BlockWords,   \* words written at a time to a file
    Blank,        \* an erased word: 0xFF
    Spoiled       \* a flash word that was programmed without being erased

ASSUME DevicesAssumption == Devices \subseteq {"spi", "i2c", "file", "fmc"}
ASSUME LabelsAssumption == 0 \notin Labels /\ Blank \notin Labels
ASSUME BlankAssumption == Blank \notin {0, {"dmx"}, {"label"}}
ASSUME DmxAssumption == /\ DefaultDmx \in DmxValues
                        /\ 0 \notin DmxValues
ASSUME NoiseAssumption == Noise \subseteq 0 .. 3
ASSUME SizeAssumption == PageWords \in Nat \ {0} /\ BlockWords \in Nat \ {0}
ASSUME OffsetsAssumption == 0 \in UtcOffsets /\ Blank \notin UtcOffsets

VARIABLES
    state,      \* s_State
    ram,        \* s_SpiFlashData
    flash,      \* the sectors at s_nStartAddress
    device,     \* the state of the device's own Erase and Write
    backend,    \* the device this firmware is built with
    rebooting,  \* HandleReboot is in its loop
    live,       \* the node's settings in use
    whole,      \* history: no save is under way or was broken off
    boot        \* history: what the last start came from, and a bit that flips

vars == <<state, ram, flash, device, backend, rebooting, live, whole, boot>>

-----------------------------------------------------------------------------
(* The image *)

Layout == <<"signature", "env", "dmxSet", "dmx", "nodeSet", "modes", "label">>

AvV == 1

\* Two bits for every port; erased flash reads as 3 on every port.
HTP == 0
LTP == 1
Modes == [Ports -> 0 .. 3]
AllHTP == [p \in Ports |-> HTP]
Ones == [p \in Ports |-> 3]

\* A set list tells which settings of a store have been given a value.
Image ==
    [signature : {AvV}, env : UtcOffsets,
     dmxSet : {{}, {"dmx"}}, dmx : DmxValues \cup {0, Blank},
     nodeSet : {{}, {"label"}}, modes : Modes \cup {Blank},
     label : Labels \cup {0, Blank}]

Zeroes == [signature |-> AvV, env |-> 0, dmxSet |-> {}, dmx |-> 0,
           nodeSet |-> {}, modes |-> AllHTP, label |-> 0]

Word == DOMAIN Zeroes

ASSUME SpoiledAssumption ==
    /\ Spoiled \notin {AvV, Blank, 0}
    /\ Spoiled \notin {{}, {"dmx"}, {"label"}}
    /\ Spoiled \notin UtcOffsets \cup DmxValues \cup Labels
    /\ Spoiled \notin Modes

Erased == [w \in Word |-> Blank]

Known(x, default) == IF x = Blank THEN default ELSE x

\* The constructor: without its signature the whole image is cleared, and a
\* set list (or UTC offset) that was erased but never written is cleared.
Constructed(image) ==
    IF image.signature = AvV
    THEN [image EXCEPT !.env = Known(@, 0),
                       !.dmxSet = Known(@, {}),
                       !.nodeSet = Known(@, {})]
    ELSE Zeroes

\* DmxParams::Load: Copy finds the store empty and updates it with the
\* defaults, or takes the store as it is.
NoDmx(image) == image.dmxSet = {} /\ image.dmx = 0

Loaded(image) == IF NoDmx(image) THEN [image EXCEPT !.dmx = DefaultDmx]
                                 ELSE image

Started(image) == Loaded(Constructed(image))

\* What a start makes of a setting that is not in the store: it is cleared, or
\* is left erased under a set list that is cleared.
DefaultWords ==
    [signature |-> {AvV}, env |-> {0}, dmxSet |-> {{}},
     dmx |-> {DefaultDmx, Blank}, nodeSet |-> {{}}, modes |-> {AllHTP, Blank},
     label |-> {0, Blank}]

StartState(image) ==
    IF image.signature # AvV \/ NoDmx(Constructed(image))
    THEN "CHANGED" ELSE "IDLE"

Bits(modes) == IF modes = Blank THEN Ones ELSE modes

\* ArtNetParams::Set: the label if its bit is set, merge modes in any case.
InUse(image) ==
    [label |-> IF "label" \in image.nodeSet THEN image.label ELSE 0,
     modes |-> [p \in Ports |->
                   IF Bits(image.modes)[p] = LTP THEN LTP ELSE HTP]]

-----------------------------------------------------------------------------
(* The devices.  Erase and Write give the device's next state, the flash   *)
(* memory, and whether the operation is done.                              *)

DeviceState == {"IDLE", "RUNNING", "ERASE_BUSY", "ERASE_PROGRAM",
                "WRITE_BUSY", "WRITE_PROGRAM"}

\* at counts the words that the operation has dealt with.
Idle == [state |-> "IDLE", at |-> 0]

Doing(name, at) == [state |-> name, at |-> at]

Outcome(dev, mem, done) == [device |-> dev, flash |-> mem, done |-> done]

Address(w) == CHOOSE i \in DOMAIN Layout : Layout[i] = w

Within(w, first, last) == first < Address(w) /\ Address(w) <= last

\* The words after first, up to last, erased or copied from RAM.
Blanked(mem, first, last) ==
    [w \in Word |-> IF Within(w, first, last) THEN Blank ELSE mem[w]]

Copied(mem, first, last) ==
    [w \in Word |-> IF Within(w, first, last) THEN ram[w] ELSE mem[w]]

\* Flash memory holds what is written to it only where it is erased.
Programmed(mem, first, last) ==
    [w \in Word |-> IF ~Within(w, first, last) THEN mem[w]
                    ELSE IF mem[w] = Blank THEN ram[w] ELSE Spoiled]

AtMostAll(n) == IF n > Len(Layout) THEN Len(Layout) ELSE n

\* The file: the first call only seeks.  An Erase that follows a Write which
\* was broken off starts where that Write had come to.
FileErase ==
    IF device.state = "IDLE"
    THEN Outcome(Doing("RUNNING", 0), flash, FALSE)
    ELSE Outcome(Idle, Blanked(flash, device.at, Len(Layout)), TRUE)

FileWrite ==
    LET next == AtMostAll(device.at + BlockWords) IN
    IF device.state = "IDLE"
    THEN Outcome(Doing("RUNNING", 0), flash, FALSE)
    ELSE LET mem == Copied(flash, device.at, next) IN
         IF next = Len(Layout) THEN Outcome(Idle, mem, TRUE)
                               ELSE Outcome(Doing("RUNNING", next), mem, FALSE)

\* The flash of the GD32, by FlashCode: a page or a word at each call, and a
\* call of the other operation only resets the one that was broken off.
FmcEraseWith(broken) ==
    LET at == device.at IN
    CASE device.state = "IDLE" ->
             Outcome(Doing("ERASE_BUSY", 0), flash, FALSE)
      [] device.state = "ERASE_BUSY" ->
             IF at = Len(Layout) THEN Outcome(Idle, flash, TRUE)
             ELSE Outcome(Doing("ERASE_PROGRAM", at), flash, FALSE)
      [] device.state = "ERASE_PROGRAM" ->
             LET next == AtMostAll(at + PageWords) IN
             Outcome(Doing("ERASE_BUSY", next), Blanked(flash, at, next), FALSE)
      [] OTHER -> broken

\* Mutants: the broken off Write is taken for an Erase that is done, or is
\* not reset.
FmcEraseHasty == FmcEraseWith(Outcome(Idle, flash, TRUE))
FmcEraseStuck == FmcEraseWith(Outcome(device, flash, FALSE))

FmcErase == FmcEraseWith(Outcome(Idle, flash, FALSE))

FmcWrite ==
    LET at == device.at IN
    CASE device.state = "IDLE" ->
             Outcome(Doing("WRITE_BUSY", 0), flash, FALSE)
      [] device.state = "WRITE_BUSY" ->
             IF at = Len(Layout) THEN Outcome(Idle, flash, TRUE)
             ELSE Outcome(Doing("WRITE_PROGRAM", at), flash, FALSE)
      [] device.state = "WRITE_PROGRAM" ->
             Outcome(Doing("WRITE_BUSY", at + 1),
                     Programmed(flash, at, at + 1), FALSE)
      [] OTHER -> Outcome(Idle, flash, FALSE)

Erase == CASE backend = "spi" -> Outcome(Idle, Erased, TRUE)
           [] backend = "i2c" -> Outcome(Idle, flash, TRUE)
           [] backend = "file" -> FileErase
           [] backend = "fmc" -> FmcErase

Write == CASE backend = "spi" ->
                  Outcome(Idle, Programmed(flash, 0, Len(Layout)), TRUE)
           [] backend = "i2c" -> Outcome(Idle, ram, TRUE)
           [] backend = "file" -> FileWrite
           [] backend = "fmc" -> FmcWrite

-----------------------------------------------------------------------------
(* Flash, the state machine of a save *)

States == {"IDLE", "CHANGED", "CHANGED_WAITING", "ERASING", "ERASED_WAITING",
           "ERASED", "WRITING"}

\* The states that wait, or pass on, without touching the device.
Wait(from, to) ==
    /\ state = from
    /\ state' = to
    /\ UNCHANGED <<ram, flash, device, backend, rebooting, live, whole, boot>>

EraseStep ==
    /\ state = "ERASING"
    /\ state' = IF Erase.done THEN "ERASED_WAITING" ELSE state
    /\ flash' = Erase.flash
    /\ device' = Erase.device
    /\ whole' = FALSE
    /\ UNCHANGED <<ram, backend, rebooting, live, boot>>

WriteStep ==
    /\ state = "WRITING"
    /\ state' = IF Write.done THEN "IDLE" ELSE state
    /\ flash' = Write.flash
    /\ device' = Write.device
    /\ whole' = Write.done
    /\ UNCHANGED <<ram, backend, rebooting, live, boot>>

Flash == \/ Wait("CHANGED", "CHANGED_WAITING")
         \/ Wait("CHANGED_WAITING", "ERASING")
         \/ EraseStep
         \/ Wait("ERASED_WAITING", "ERASED")
         \/ Wait("ERASED", "WRITING")
         \/ WriteStep

-----------------------------------------------------------------------------
(* Changes of the settings *)

\* Mutant: a save that has begun is not begun again.
ChangedWhenIdle(image) ==
    /\ ~rebooting
    /\ ram' = image
    /\ state' = IF image # ram /\ state = "IDLE" THEN "CHANGED" ELSE state
    /\ UNCHANGED <<flash, device, backend, rebooting, whole, boot>>

Changed(image) == /\ ~rebooting
                  /\ ram' = image
                  /\ state' = IF image = ram THEN state ELSE "CHANGED"
                  /\ UNCHANGED <<flash, device, backend, rebooting, whole, boot>>

\* Update: the bit of a setting is set only when one of its bytes changes.
UpdateLabel(l) ==
    IF ram.label = l THEN ram
    ELSE [ram EXCEPT !.label = l, !.nodeSet = @ \cup {"label"}]

\* SetShortName of a running node
SetShortName(l) == /\ Changed(UpdateLabel(l))
                   /\ live' = [live EXCEPT !.label = l]

\* SaveMergeMode reads the modes of all ports, replaces one and writes them.
\* Copy leaves its result alone when the modes are zero: then the variable
\* they should have been read into is used uninitialized.
ModesRead == IF ram.modes = AllHTP THEN [Ports -> Noise] ELSE {Bits(ram.modes)}

SetMergeMode(p, m) ==
    /\ \E modes \in ModesRead :
           Changed([ram EXCEPT !.modes = [modes EXCEPT ![p] = m]])
    /\ live' = [live EXCEPT !.modes = [@ EXCEPT ![p] = m]]

\* DmxParams::Load of a text sent by the user: a default value clears the bit.
SetDmx(v) ==
    /\ Changed([ram EXCEPT !.dmx = v,
                           !.dmxSet = IF v = DefaultDmx THEN {} ELSE {"dmx"}])
    /\ UNCHANGED live

SetEnvUtcOffset(o) == Changed([ram EXCEPT !.env = o]) /\ UNCHANGED live

\* ResetSetListAll clears the set lists and restarts the save in any case.
HandleFactory ==
    /\ ~rebooting
    /\ ram' = [ram EXCEPT !.dmxSet = {}, !.nodeSet = {}]
    /\ state' = "CHANGED"
    /\ UNCHANGED <<flash, device, backend, rebooting, live, whole, boot>>

\* The RDM responder puts off a save in any state but IDLE.
Delay == /\ ~rebooting
         /\ state # "IDLE"
         /\ state' = "CHANGED"
         /\ UNCHANGED <<ram, flash, device, backend, rebooting, live, whole,
                        boot>>

-----------------------------------------------------------------------------
(* Starts *)

HandleReboot == /\ ~rebooting
                /\ rebooting' = TRUE
                /\ UNCHANGED <<state, ram, flash, device, backend, live, whole,
                               boot>>

Start(by) ==
    /\ ram' = Started(flash)
    /\ state' = StartState(flash)
    /\ live' = InUse(Started(flash))
    /\ device' = Idle
    /\ rebooting' = FALSE
    /\ whole' = TRUE
    /\ boot' = [by |-> by, odd |-> ~boot.odd]
    /\ UNCHANGED <<flash, backend>>

\* HandleReboot leaves its loop when Flash returns false.
\* Mutant: the reboot does not wait for the save.
RebootAtOnce == rebooting /\ Start("reboot")

Reboot == rebooting /\ state = "IDLE" /\ Start("reboot")

\* Power loss, the watchdog, or RDM RESET_DEVICE, which does not wait.
Restart == Start("reset")

-----------------------------------------------------------------------------
(* The specification *)

\* A new board, or one whose settings have been saved before.
Init == /\ backend \in Devices
        /\ flash \in {Erased, Loaded(Zeroes)}
        /\ ram = Started(flash)
        /\ state = StartState(flash)
        /\ live = InUse(ram)
        /\ device = Idle
        /\ rebooting = FALSE
        /\ whole = TRUE
        /\ boot = [by |-> "reset", odd |-> FALSE]

Next == \/ Flash
        \/ \E l \in Labels : SetShortName(l)
        \/ \E p \in Ports, m \in {HTP, LTP} : SetMergeMode(p, m)
        \/ \E v \in DmxValues : SetDmx(v)
        \/ \E o \in UtcOffsets : SetEnvUtcOffset(o)
        \/ HandleFactory
        \/ Delay
        \/ HandleReboot
        \/ Reboot
        \/ Restart

\* The main loop, and the loop of HandleReboot, call Flash again and again.
Fairness == WF_vars(Flash) /\ WF_vars(Reboot)

Spec == Init /\ [][Next]_vars /\ Fairness

-----------------------------------------------------------------------------
(* Properties *)

TypeOK ==
    /\ state \in States
    /\ ram \in Image
    /\ device \in [state : DeviceState, at : 0 .. Len(Layout)]
    /\ backend \in Devices
    /\ rebooting \in BOOLEAN
    /\ live \in [label : Labels \cup {0, Blank}, modes : [Ports -> {HTP, LTP}]]
    /\ whole \in BOOLEAN
    /\ boot \in [by : {"reboot", "reset"}, odd : BOOLEAN]

\* When the store is idle, a start would find exactly the settings in RAM:
\* no change is forgotten by a save that was already erasing or writing when
\* it came, however often that happens.
IdleIsSaved == state = "IDLE" => Started(flash) = ram

\* No word of flash memory is programmed that has not been erased since it
\* was last programmed, even when an Erase or a Write is broken off.
NothingSpoiled == \A w \in Word : flash[w] # Spoiled

\* Once changes and starts end, the settings get saved: the store comes to
\* rest, on every device, from wherever it was interrupted.
SavesEnd == <>[][Flash]_vars => <>[](state = "IDLE")

\* The store implements Settings: at every step of a save, and wherever the
\* power fails, each setting is as it was, as it was to be, or a default, and a
\* reboot that was asked for comes when all is saved.
Kept == INSTANCE Settings WITH
            Words <- Word,
            Images <- Image,
            Defaults <- DefaultWords,
            settings <- ram,
            kept <- Started(flash),
            saving <- ~whole,
            asked <- rebooting

ImplementsSettings == Kept!Spec

-----------------------------------------------------------------------------
(* What one might expect, and the code does not do *)

\* A reboot that was asked for loses nothing: every port merges as it did.
RebootKeepsModes ==
    [][boot' # boot /\ boot'.by = "reboot" => live'.modes = live.modes]_vars

\* A name that a start puts to use has been given to the node.  The set list is
\* written before the name, so that a start after a loss of power in between
\* takes erased memory for a name.
NamesAreGiven == live.label # Blank
=============================================================================
