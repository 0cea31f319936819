----------------------------- MODULE FrameStream -----------------------------
(***************************************************************************)
(* The bytes under SmpLink: a device notifies response frames in fragments *)
(* and the read loops of src/src/transport.rs (read_response and           *)
(* read_any_frame) put them together again with the FrameAssembler, while  *)
(* timeouts end the reads and the upload drops what is buffered.           *)
(*                                                                         *)
(* A response is what decode makes of its frame.  The history variable     *)
(* pending says what the device has notified, and where each frame ends:   *)
(* received, what the host has read, can be compared with the one, and the *)
(* bytes in the buffer with the other.  A frame whose beginning is dropped *)
(* with its end still on the way leaves stray bytes, which the read loops  *)
(* take for the beginning of a frame: the host is then out of step.        *)
(***************************************************************************)
EXTENDS FrameAssembler, Integers

CONSTANTS
    Frames,         \* the response frames the device may notify
    InFlight,       \* most frames on their way to a pipelined upload
    MaxFragment,    \* most bytes of one notification
    MaxFrames       \* bound: frames notified in a behaviour

ASSUME StreamAssumption ==
    /\ Frames \subseteq Seq(Byte)
    /\ \A frame \in Frames : Len(frame) >= HEADER_LEN /\ Len(frame) = FrameLen(frame)
    /\ InFlight \in Nat \ {0} /\ MaxFragment \in Nat \ {0} /\ MaxFrames \in Nat

VARIABLES
    serial,     \* whether the host has one request in flight at a time
    owed,       \* whether the read that runs is for a request nobody answered
    wire,       \* bytes notified and not yet yielded by the stream
    buf,        \* SmpSession.assembler
    read,       \* "idle", "reading", or "timed_out" until the buffer is reset
    received,   \* history: what the reads took out of the assembler, decoded
    pending,    \* history: what the device notified and nobody read, decoded, and
                \* how many bytes there are up to its end
    stray,      \* history: how many bytes before these frames belong to none of them
    notified    \* frames notified so far

vars == <<serial, owed, wire, buf, read, received, pending, stray, notified>>

Init ==
    /\ serial \in BOOLEAN
    /\ owed = FALSE
    /\ wire = <<>> /\ buf = <<>>
    /\ read = "idle"
    /\ received = <<>> /\ pending = <<>> /\ stray = 0
    /\ notified = 0

-----------------------------------------------------------------------------
(* The frames in the bytes that are buffered and on their way.             *)

Bytes == buf \o wire

\* Where the frame after the first i of them begins.
Boundary(i) == IF i = 0 THEN stray ELSE pending[i].end

\* A queue of frames when n bytes before them are gone.
Nearer(queue, n) == [i \in DOMAIN queue |-> [queue[i] EXCEPT !.end = @ - n]]

\* The first n bytes are gone: so are the frames that begin in them, and what
\* is left of the last of these is stray.
Gone(n) ==
    \E lost \in 0..Len(pending) :
       /\ \A i \in 1..Len(pending) : i <= lost <=> Boundary(i - 1) < n
       /\ pending' = Nearer(SubSeq(pending, lost + 1, Len(pending)), n)
       /\ stray' = Boundary(lost) - n

-----------------------------------------------------------------------------
(* The device and the link.                                                *)

\* With one request in flight the device notifies one answer to each, which
\* may come after the host has given up on it.
Notify(frame) ==
    /\ notified < MaxFrames
    /\ Len(pending) < InFlight
    /\ serial => owed
    /\ owed' = FALSE
    /\ wire' = wire \o frame
    /\ pending' = Append(pending, [says |-> decode(frame),
                                  end |-> Len(buf) + Len(wire) + Len(frame)])
    /\ notified' = notified + 1
    /\ UNCHANGED <<serial, buf, read, received, stray>>

\* What is on its way never arrives.  The beginning of a frame may be buffered.
Tear ==
    /\ wire # <<>>
    /\ \A i \in DOMAIN pending : Len(buf) < pending[i].end
    /\ wire' = <<>>
    /\ pending' = <<>>
    /\ stray' = Len(buf)
    /\ UNCHANGED <<serial, owed, buf, read, received, notified>>

-----------------------------------------------------------------------------
(* The read loops.                                                         *)

\* A caller that goes on after a timeout without a reset finds the buffer as
\* it was; the sequential upload always resets.
StartRead ==
    /\ read = "idle" \/ (read = "timed_out" /\ ~serial)
    /\ read' = "reading"
    /\ owed' = TRUE
    /\ UNCHANGED <<serial, wire, buf, received, pending, stray, notified>>

\* The stream is awaited only when the assembler has no complete frame.
ReadStream ==
    /\ read = "reading"
    /\ ~HasFrame(buf)
    /\ \E k \in 1..Len(wire) :
          /\ k <= MaxFragment
          /\ buf' = push(buf, SubSeq(wire, 1, k))
          /\ wire' = SubSeq(wire, k + 1, Len(wire))
    /\ UNCHANGED <<serial, owed, read, received, pending, stray, notified>>

\* The frame answers the call, or is refused, and the call returns; or it is
\* stale and the loop goes on.
TakeFrame ==
    /\ read = "reading"
    /\ HasFrame(buf)
    /\ LET response == decode(next_frame(buf)) IN
          /\ received' = Append(received, response)
          /\ read' \in (IF response.ok THEN {"idle", "reading"} ELSE {"idle"})
    /\ buf' = rest(buf)
    /\ Gone(FrameLen(buf))
    /\ UNCHANGED <<serial, owed, wire, notified>>

\* The timer fires while the loop awaits the stream.
Timeout ==
    /\ read = "reading"
    /\ ~HasFrame(buf)
    /\ read' = "timed_out"
    /\ UNCHANGED <<serial, owed, wire, buf, received, pending, stray, notified>>

-----------------------------------------------------------------------------
(* reset_buffer, which the upload calls when an attempt fails: after a     *)
(* timeout, and after an answer it does not like.                          *)

\* Mutant of reset_buffer: the upload goes on with what is buffered.
ForgetsToReset ==
    /\ read = "timed_out"
    /\ read' = "idle"
    /\ UNCHANGED <<serial, owed, wire, buf, received, pending, stray, notified>>

\* Nothing keeps it from being called with the end of a frame on its way.
reset_buffer ==
    /\ read \in {"idle", "timed_out"}
    /\ buf' = <<>>
    /\ read' = "idle"
    /\ Gone(Len(buf))
    /\ UNCHANGED <<serial, owed, wire, received, notified>>

Next ==
    \/ \E frame \in Frames : Notify(frame)
    \/ Tear
    \/ StartRead \/ ReadStream \/ TakeFrame \/ Timeout \/ reset_buffer

Spec == Init /\ [][Next]_vars

\* A read that is polled takes what the stream and the assembler have.
FairSpec == Spec /\ WF_vars(ReadStream) /\ WF_vars(TakeFrame)

-----------------------------------------------------------------------------
Channel == INSTANCE FrameChannel WITH
    Message <- {decode(frame) : frame \in Frames},
    queue <- [i \in DOMAIN pending |-> pending[i].says],
    astray <- stray > 0

\* The reads see a lossy queue of whole responses, however they were cut into
\* fragments and whenever reads time out, until what is lost is the beginning
\* or the end of a frame (FrameAssembler and reset_buffer).
ChannelSpec == Channel!Spec

\* What is buffered and on its way is, behind the stray bytes, frame by frame
\* what the device has notified and nobody has read: without stray bytes the
\* next frame read is the next one notified (next_frame keeps what follows the
\* frame it returns).
InStep ==
    LET Frame(i) == SubSeq(Bytes, Boundary(i - 1) + 1, pending[i].end)
    IN  /\ \A i \in DOMAIN pending :
              /\ 0 <= Boundary(i - 1) /\ Boundary(i - 1) <= pending[i].end
              /\ pending[i].end <= Len(Bytes)
              /\ HasFrame(Frame(i)) /\ next_frame(Frame(i)) = Frame(i)
              /\ decode(Frame(i)) = pending[i].says
        /\ Boundary(Len(pending)) = Len(Bytes)

\* The reset after a timeout puts the host in step again, whatever it has read,
\* unless bytes are still on their way (reset_buffer, and the callers that
\* call it after every failed attempt).
ResetRecovers ==
    [][read = "timed_out" /\ read' = "idle" /\ wire = <<>> => stray' = 0]_vars

\* A host in step does not go on waiting over a response that has been
\* notified: it returns, gives up, or reads all there was (the loops around
\* next_frame).
ReadsWhatArrives ==
    (read = "reading" /\ pending # <<>> /\ stray = 0)
       ~> (read # "reading" \/ pending = <<>>)

\* The comment on reset_buffer: called after a timeout, it keeps a half-received
\* frame from desyncing the next response.  Then a caller that resets after
\* every timeout reads only responses that were notified.
CannotDesync ==
    serial => \A i \in DOMAIN received : received[i] \in {decode(frame) : frame \in Frames}
=============================================================================
