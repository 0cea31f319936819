------------------------------ MODULE SmpLink ------------------------------
(***************************************************************************)
(* One connected SMP session, seen at the level of whole frames: the       *)
(* fields of SmpSession (src/src/transport.rs), the requests on their way  *)
(* to the device and the notifications on their way back.                  *)
(*                                                                         *)
(* A request frame is a record [seq, req].  A response frame is a record   *)
(* [seq, ok, req, rsp]: req is the request it answers (a history field     *)
(* that no guard of the host reads), rsp the decoded payload, and ok says  *)
(* whether Header::decode accepts the frame.                               *)
(*                                                                         *)
(* The module has actions and no specification: SmpSession composes them   *)
(* with a client that calls the session's methods in any order, and        *)
(* ImageUpload with the firmware uploader.                                 *)
(***************************************************************************)
EXTENDS Naturals, Sequences

CONSTANTS
    SeqMod,     \* number of sequence numbers; the u8 of the code gives 256
    MaxBurst    \* most complete frames one read of the stream can push

ASSUME SeqModAssumption   == SeqMod \in Nat \ {0}
ASSUME MaxBurstAssumption == MaxBurst \in Nat \ {0}

VARIABLES
    seq,        \* SmpSession.seq: the number the next request will carry
    toDev,      \* requests written and not yet seen by the device
    notif,      \* responses sent and not yet read from the stream
    buf,        \* FrameAssembler: complete frames not yet taken
    up          \* whether the BLE link is up

link == <<seq, toDev, notif, buf, up>>

LinkInit ==
    /\ seq = 0
    /\ toDev = <<>>
    /\ notif = <<>>
    /\ buf = <<>>
    /\ up = TRUE

-----------------------------------------------------------------------------
(* Writing a request.  next_seq runs before the write, so a request takes  *)
(* its number even when the write fails.                                   *)

\* Mutant of next_seq: an addition that does not wrap.
SeqOverflows == seq + 1

next_seq == IF seq = SeqMod - 1 THEN 0 ELSE seq + 1

WriteRequest(req) ==
    /\ up
    /\ seq' = next_seq
    /\ toDev' = Append(toDev, [seq |-> seq, req |-> req])
    /\ UNCHANGED <<notif, buf, up>>

\* A write without response that no device will ever see: the call succeeds.
WriteUnseen ==
    /\ up
    /\ seq' = next_seq
    /\ UNCHANGED <<toDev, notif, buf, up>>

WriteFails ==
    /\ ~up
    /\ seq' = next_seq
    /\ UNCHANGED <<toDev, notif, buf, up>>

-----------------------------------------------------------------------------
(* Reading.  The read loops take every complete frame out of the assembler *)
(* before they await the notification stream again.                        *)

Push ==
    /\ buf = <<>>
    /\ \E k \in 1..Len(notif) :
          /\ k <= MaxBurst
          /\ buf' = SubSeq(notif, 1, k)
          /\ notif' = SubSeq(notif, k + 1, Len(notif))
    /\ UNCHANGED <<seq, toDev, up>>

TakeFrame ==
    /\ buf # <<>>
    /\ buf' = Tail(buf)
    /\ UNCHANGED <<seq, toDev, notif, up>>

\* Mutant of Matches: the next frame will do.
MatchesAny(want) == buf # <<>> /\ Head(buf).ok

\* The frame read_response returns for the request numbered want.
Matches(want) == buf # <<>> /\ Head(buf).ok /\ Head(buf).seq = want

\* A frame with another number is stale: read_response drops it and reads on.
Stale(want) == buf # <<>> /\ Head(buf).ok /\ Head(buf).seq # want

\* A frame Header::decode refuses: the read returns an error.
Undecodable == buf # <<>> /\ ~Head(buf).ok

reset_buffer ==
    /\ buf' = <<>>
    /\ UNCHANGED <<seq, toDev, notif, up>>

-----------------------------------------------------------------------------
(* The other end of the link and the link itself.                          *)

\* The device takes the oldest request and notifies rsp.
Answer(rsp) ==
    /\ up
    /\ toDev # <<>>
    /\ toDev' = Tail(toDev)
    /\ notif' = Append(notif, [seq |-> Head(toDev).seq, ok |-> TRUE,
                               req |-> Head(toDev).req, rsp |-> rsp])
    /\ UNCHANGED <<seq, buf, up>>

LoseRequest ==
    /\ toDev # <<>>
    /\ toDev' = Tail(toDev)
    /\ UNCHANGED <<seq, notif, buf, up>>

LoseResponse ==
    /\ notif # <<>>
    /\ notif' = Tail(notif)
    /\ UNCHANGED <<seq, toDev, buf, up>>

\* The stream yields bytes that parse as a frame with an unknown op code.
GarbleResponse ==
    /\ notif # <<>>
    /\ Head(notif).ok
    /\ notif' = [notif EXCEPT ![1].ok = FALSE]
    /\ UNCHANGED <<seq, toDev, buf, up>>

\* What was written and not yet received is gone; what was notified stays
\* in the stream, which does not end.
DropLink ==
    /\ up
    /\ up' = FALSE
    /\ toDev' = <<>>
    /\ UNCHANGED <<seq, notif, buf>>
=============================================================================
