------------------------------ MODULE Settings ------------------------------
(***************************************************************************)
(* What a store of settings promises to the firmware that keeps its        *)
(* settings in it, whatever the flash memory below does.  ConfigStore is   *)
(* shown to implement this specification.                                  *)
(*                                                                         *)
(* It does not promise that a save is all or nothing: a start after a loss *)
(* of power finds settings each of which is as it was kept before, as it   *)
(* was to be saved, or a default.                                          *)
(***************************************************************************)
CONSTANTS
    Words,      \* the settings
    Images,     \* the values of all of them
    Defaults    \* for every setting, what stands for one that is not kept

VARIABLES
    settings,   \* the settings the program works with
    kept,       \* the settings that a start of the program would find now
    saving,     \* a save is under way, or was broken off
    asked,      \* a reboot has been asked for and waits for the save
    boot        \* what the last start came from, and a bit that flips

vars == <<settings, kept, saving, asked, boot>>

Init == /\ settings \in Images
        /\ kept = settings
        /\ saving = FALSE
        /\ asked = FALSE
        /\ boot = [by |-> "reset", odd |-> FALSE]

\* The program changes settings; the store asks for no permission and may
\* refuse none, but not once a reboot has been asked for.
Change == /\ ~asked
          /\ settings' \in Images
          /\ UNCHANGED <<kept, saving, asked, boot>>

\* One step of a save: what was kept of a setting is still kept, or is lost,
\* or is replaced by what the setting is now.
Save == /\ saving' = TRUE
        /\ kept' \in Images
        /\ \A w \in Words : kept'[w] \in {kept[w], settings[w]} \cup Defaults[w]
        /\ UNCHANGED <<settings, asked, boot>>

\* A save that ends keeps what the settings are then, not what they were when
\* it began.
EndSave == /\ saving
           /\ saving' = FALSE
           /\ kept' = settings
           /\ UNCHANGED <<settings, asked, boot>>

AskReboot == /\ ~asked
             /\ asked' = TRUE
             /\ UNCHANGED <<settings, kept, saving, boot>>

Started(by) == boot' = [by |-> by, odd |-> ~boot.odd]

\* The reboot that was asked for comes when nothing is left to save.
Reboot == /\ asked
          /\ ~saving /\ kept = settings
          /\ asked' = FALSE
          /\ Started("reboot")
          /\ UNCHANGED <<settings, kept, saving>>

\* Power loss, the watchdog, or a reset that does not wait: the program goes
\* on with what is kept, and without what was not saved.
Restart == /\ settings' = kept
           /\ saving' = FALSE
           /\ asked' = FALSE
           /\ Started("reset")
           /\ UNCHANGED kept

Next == Change \/ Save \/ EndSave \/ AskReboot \/ Reboot \/ Restart

Spec == Init /\ [][Next]_vars
=============================================================================
