---------------------------- MODULE ImageTransfer ----------------------------
(***************************************************************************)
(* What `image upload` promises whoever runs it, without chunks, windows,  *)
(* sequence numbers or a link: the command ends in success or in failure,  *)
(* success is reported only over a slot that holds the whole file, and     *)
(* from then on nothing the command started touches the slot.              *)
(***************************************************************************)
EXTENDS Naturals

CONSTANT Total      \* bytes in the file

VARIABLES
    status,         \* "running", "done" or "failed"
    image           \* offsets in the slot that hold the file's bytes

vars == <<status, image>>

Complete == 0..(Total - 1)

Init ==
    /\ status = "running"
    /\ image = {}

\* The slot changes in any way at all: written, started over, erased.
Write ==
    /\ status # "done"
    /\ image' \in SUBSET Complete
    /\ UNCHANGED status

Succeed ==
    /\ status = "running"
    /\ image = Complete
    /\ status' = "done"
    /\ UNCHANGED image

GiveUp ==
    /\ status = "running"
    /\ status' = "failed"
    /\ UNCHANGED image

Next == Write \/ Succeed \/ GiveUp

Spec == Init /\ [][Next]_vars
=============================================================================
