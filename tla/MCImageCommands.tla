--------------------------- MODULE MCImageCommands ---------------------------
(***************************************************************************)
(* Values of the constants of ImageCommands for TLC: two devices, two      *)
(* images, and every way to invoke each command.  Times are in units of    *)
(* twenty seconds and more.                                                *)
(***************************************************************************)
EXTENDS ImageCommands

CONSTANTS d1, d2, old, new

Plain(name) == [name |-> name, hash |-> Default, slot |-> 0]
Named(name, hash) == [Plain(name) EXCEPT !.hash = hash]
Erase(s) == [Plain("erase") EXCEPT !.slot = s]

AnyCommand ==
    {Plain(name) : name \in {"list", "echo", "reset", "test", "confirm"}}
    \cup {Erase(1), Named("test", BadHash), Named("confirm", new)}

ConfirmOrReset == {Plain("confirm"), Plain("reset")}
EraseSlot1     == {Erase(1)}

AnyFault == {"request", "response", "garble", "late", "drop", "refuse", "erase",
             "connect", "reboot"}
Drops    == {"drop"}
=============================================================================
