--------------------------- MODULE UploadFallback ---------------------------
(***************************************************************************)
(* The state of one `image upload` and the arms of upload_with_fallback    *)
(* (src/src/commands/image.rs), which downgrade one tuning and start over. *)
(* SequentialUpload and WindowedUpload are the two loops it calls; they    *)
(* run inside its match, so the step in which a loop returns is the step   *)
(* in which the arm runs.                                                  *)
(***************************************************************************)
EXTENDS UploadDevice

CONSTANTS
    MinChunk,       \* the code's MIN_CHUNK, 64 bytes
    FaultKinds,     \* what may go wrong in this instance
    MaxFaults       \* bound: how often

ASSUME MinChunkAssumption == MinChunk \in Nat \ {0}
ASSUME FaultAssumption ==
    /\ FaultKinds \subseteq {"request", "response", "garble", "late", "drop",
                             "refuse", "erase"}
    /\ MaxFaults \in Nat

VARIABLES
    phase,      \* where the command is; a phase "x_wait" awaits an answer
    want,       \* the sequence number it awaits
    chunk,      \* data bytes per chunk
    window,     \* chunks in flight; 1 once the upload is sequential
    erased,     \* the slot has been erased by this command
    offset,     \* upload_sequential: the next offset to send
    attempt,    \* upload_sequential: failed attempts at this chunk
    stalls,     \* upload_sequential: answers in a row without progress
    sent,       \* upload_windowed: the next offset to hand to the device
    acked,      \* upload_windowed: highest offset the device has confirmed
    noProgress, \* upload_windowed: acks since the last progress
    totalStalls,\* upload_windowed: acks without progress
    faults      \* faults left

tuning  == <<chunk, window, erased>>
seqVars == <<offset, attempt, stalls>>
winVars == <<sent, acked, noProgress, totalStalls>>
host    == <<phase, want, tuning, seqVars, winVars>>

Phases == {"start", "state_wait", "win", "seq", "seq_wait", "erase", "erase_wait",
           "done", "failed"}

AwaitsNumber == phase \in {"state_wait", "seq_wait", "erase_wait"}
Awaits == AwaitsNumber \/ phase = "win"

\* Mutant of ChunkAt: the last chunk is as long as the others.
ChunkOverruns(off) == [cmd |-> "upload", off |-> off, len |-> chunk]

\* The payload of the chunk at off: the last one is what is left.
ChunkAt(off) ==
    [cmd |-> "upload", off |-> off,
     len |-> IF off + chunk <= Total THEN chunk ELSE Total - off]

Bare(cmd) == [cmd |-> cmd, off |-> 0, len |-> 0]

-----------------------------------------------------------------------------
(* How a wait ends without an answer.                                      *)

wires == <<seq, toDev, notif, up>>

MayFault(kind) ==
    /\ kind \in FaultKinds
    /\ faults > 0
    /\ faults' = faults - 1

Quiet == toDev = <<>> /\ notif = <<>>

\* The timer can only fire while the read awaits the stream.  Firing while
\* an answer is on its way is a fault.
TimerFires ==
    /\ buf = <<>>
    /\ \/ Quiet /\ UNCHANGED faults
       \/ ~Quiet /\ MayFault("late")

ReadFails ==
    \/ TimerFires
    \/ Undecodable /\ UNCHANGED faults

\* What is left in the assembler when the read fails.
Rest == IF buf = <<>> THEN <<>> ELSE Tail(buf)

-----------------------------------------------------------------------------
(* The arms.  Each is a conjunct of the step in which a loop returns; rest *)
(* is what that step left in the assembler.                                *)

SequentialFromZero ==
    /\ phase' = "seq"
    /\ offset' = 0 /\ attempt' = 0 /\ stalls' = 0

Fail(rest) ==
    /\ phase' = "failed"
    /\ buf' = rest
    /\ UNCHANGED <<tuning, seqVars>>

\* Mutant of OnWindowedError: sequential from where the pipeline was.
GoesOnSequentially ==
    /\ phase' = "seq"
    /\ offset' = IF sent < Total THEN sent ELSE 0
    /\ attempt' = 0 /\ stalls' = 0
    /\ buf' = <<>>
    /\ window' = 1
    /\ UNCHANGED <<want, chunk, erased>>

\* Pipelining to sequential, whatever upload_windowed failed with.
OnWindowedError ==
    /\ SequentialFromZero
    /\ buf' = <<>>
    /\ window' = 1
    /\ UNCHANGED <<want, chunk, erased>>

\* Mutant of Smaller: the downgrade keeps the chunk.
NoSmaller == chunk

SmallerThan(c) ==
    LET threeQuarters == (c * 3) \div 4
    IN  IF threeQuarters >= MinChunk THEN threeQuarters ELSE MinChunk

\* Oversized chunk to smaller chunk.
Smaller == SmallerThan(chunk)

OnMtuTooLarge(rest) ==
    \/ /\ chunk > MinChunk
       /\ SequentialFromZero
       /\ buf' = <<>>
       /\ chunk' = Smaller
       /\ UNCHANGED <<window, erased>>
    \/ /\ chunk <= MinChunk
       /\ Fail(rest)

\* Un-erased slot to erase-then-retry.
OnSlotNeedsErase(rest) ==
    \/ /\ ~erased
       /\ phase' = "erase"
       /\ buf' = rest
       /\ UNCHANGED <<tuning, seqVars>>
    \/ /\ erased
       /\ Fail(rest)

-----------------------------------------------------------------------------
(* erase_slot_simple, and the arm's retry when it succeeds.                *)

EraseSend ==
    /\ phase = "erase"
    /\ Transmit(Bare("erase"))
    /\ phase' = "erase_wait"
    /\ want' = seq
    /\ UNCHANGED <<device, tuning, seqVars, winVars, faults>>

EraseWriteFails ==
    /\ phase = "erase"
    /\ WriteFails
    /\ phase' = "failed"
    /\ UNCHANGED <<device, want, tuning, seqVars, winVars, faults>>

\* Mutant of EraseAcked: that the slot has been erased is not remembered.
ErasesForEver ==
    /\ phase = "erase_wait"
    /\ Matches(want)
    /\ Head(buf).rsp.rc = "ok"
    /\ SequentialFromZero
    /\ buf' = <<>>
    /\ UNCHANGED <<wires, device, want, tuning, winVars, faults>>

EraseAcked ==
    /\ phase = "erase_wait"
    /\ Matches(want)
    /\ Head(buf).rsp.rc = "ok"
    /\ SequentialFromZero
    /\ buf' = <<>>
    /\ erased' = TRUE
    /\ UNCHANGED <<wires, device, want, chunk, window, winVars, faults>>

\* The device refuses, no answer can be read, or the 60 seconds pass.
EraseFails ==
    /\ phase = "erase_wait"
    /\ \/ Matches(want) /\ Head(buf).rsp.rc # "ok" /\ UNCHANGED faults
       \/ ReadFails
    /\ Fail(Rest)
    /\ UNCHANGED <<wires, device, want, winVars>>
=============================================================================
