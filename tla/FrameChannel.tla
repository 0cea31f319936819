---------------------------- MODULE FrameChannel ----------------------------
(***************************************************************************)
(* What reading a stream of fragments promises, without bytes: the frames  *)
(* the device notified come out whole, in order and at most once; some may *)
(* be lost, and nothing comes out that the device did not notify.  The     *)
(* promise ends with a loss that leaves the reader in the middle of a      *)
(* frame, and is good again from the step on that finds the next boundary. *)
(***************************************************************************)
EXTENDS Naturals, Sequences

CONSTANT Message

VARIABLES
    queue,      \* frames notified and neither read nor lost
    astray,     \* whether the reader is in the middle of a frame
    received    \* what the reads have returned or skipped

vars == <<queue, astray, received>>

Init ==
    /\ queue = <<>>
    /\ astray = FALSE
    /\ received = <<>>

Notify ==
    /\ \E m \in Message : queue' = Append(queue, m)
    /\ UNCHANGED <<astray, received>>

Receive ==
    /\ ~astray
    /\ queue # <<>>
    /\ received' = Append(received, Head(queue))
    /\ queue' = Tail(queue)
    /\ UNCHANGED astray

\* Frames at the front are gone.
Loses(k) == queue' = SubSeq(queue, k + 1, Len(queue))

\* The reader is led astray only by the loss of a frame.
Lose ==
    /\ \E k \in 0..Len(queue) : Loses(k) /\ (k = 0 => ~astray')
    /\ astray' \in BOOLEAN
    /\ UNCHANGED received

\* Some bytes are taken for a frame.
Misread ==
    /\ astray
    /\ \E k \in 0..Len(queue) : Loses(k)
    /\ Len(received') = Len(received) + 1
    /\ received = SubSeq(received', 1, Len(received))
    /\ astray' \in BOOLEAN

Next == Notify \/ Receive \/ Lose \/ Misread

Spec == Init /\ [][Next]_vars
=============================================================================
