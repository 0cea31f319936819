---------------------------- MODULE MCImageUpload ----------------------------
(***************************************************************************)
(* Values of the constants of ImageUpload for TLC.  Offsets count units of *)
(* data, not bytes: a file of five units in chunks of one or three has a   *)
(* first chunk, middle chunks and a shorter last one.                      *)
(***************************************************************************)
EXTENDS ImageUpload

AnyFault == {"request", "response", "garble", "late", "drop", "refuse", "erase"}

AnySlot   == SlotStates
ClearSlot == {"clear"}
=============================================================================
