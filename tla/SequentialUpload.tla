-------------------------- MODULE SequentialUpload --------------------------
(***************************************************************************)
(* upload_sequential (src/src/commands/image.rs): send a chunk, wait for   *)
(* its ack, go on from the offset the device reports, with a retry per     *)
(* chunk.                                                                  *)
(***************************************************************************)
EXTENDS UploadFallback

FirstAttempts == 2
LaterAttempts == 6
MaxStalls     == 8

MaxAttempts == IF offset = 0 THEN FirstAttempts ELSE LaterAttempts

-----------------------------------------------------------------------------
(* One request of the retry loop: a write, then read_response.             *)

SeqSend ==
    /\ phase = "seq"
    /\ Transmit(ChunkAt(offset))
    /\ phase' = "seq_wait"
    /\ want' = seq
    /\ UNCHANGED <<device, tuning, seqVars, winVars, faults>>

\* The Err arm of the request: retry, or give up.  Giving up on the first
\* chunk is read as a chunk that exceeds the MTU.
AttemptFails(rest) ==
    \/ /\ attempt + 1 < MaxAttempts
       /\ phase' = "seq"
       /\ attempt' = attempt + 1
       /\ buf' = <<>>
       /\ UNCHANGED <<tuning, offset, stalls>>
    \/ /\ attempt + 1 >= MaxAttempts
       /\ offset = 0
       /\ OnMtuTooLarge(rest)
    \/ /\ attempt + 1 >= MaxAttempts
       /\ offset # 0
       /\ Fail(rest)

SeqWriteFails ==
    /\ phase = "seq"
    /\ ~up
    /\ seq' = next_seq
    /\ AttemptFails(buf)
    /\ UNCHANGED <<toDev, notif, up, device, want, winVars, faults>>

SeqReadFails ==
    /\ phase = "seq_wait"
    /\ ReadFails
    /\ AttemptFails(Rest)
    /\ UNCHANGED <<wires, device, want, winVars>>

-----------------------------------------------------------------------------
(* The answer to the chunk.                                                *)

SeqAnswered ==
    /\ phase = "seq_wait"
    /\ Matches(want)
    /\ UNCHANGED <<wires, device, want, winVars, faults>>

\* Mutant of ContinueFrom: the last chunk is forgotten.
EndsOneChunkEarly(next) ==
    /\ phase' = IF next + chunk < Total THEN "seq" ELSE "done"
    /\ offset' = next
    /\ attempt' = 0
    /\ buf' = Tail(buf)
    /\ UNCHANGED tuning

\* The loop goes on from next, or ends.
ContinueFrom(next) ==
    /\ phase' = IF next < Total THEN "seq" ELSE "done"
    /\ offset' = next
    /\ attempt' = 0
    /\ buf' = Tail(buf)
    /\ UNCHANGED tuning

SeqProgress ==
    /\ SeqAnswered
    /\ Head(buf).rsp.rc = "ok" /\ Head(buf).rsp.off > offset
    /\ ContinueFrom(Head(buf).rsp.off)
    /\ stalls' = 0

\* Mutant of SeqStall: stalls are not counted.
StallsForEver ==
    /\ SeqAnswered
    /\ Head(buf).rsp.rc = "ok" /\ Head(buf).rsp.off \in 0..offset
    /\ ContinueFrom(Head(buf).rsp.off)
    /\ UNCHANGED stalls

SeqStall ==
    /\ SeqAnswered
    /\ Head(buf).rsp.rc = "ok" /\ Head(buf).rsp.off \in 0..offset
    /\ stalls + 1 < MaxStalls
    /\ ContinueFrom(Head(buf).rsp.off)
    /\ stalls' = stalls + 1

\* A busy or bad-state slot, or one that never moves.
SeqNeedsErase ==
    /\ SeqAnswered
    /\ \/ Head(buf).rsp.rc = "busy"
       \/ /\ Head(buf).rsp.rc = "ok" /\ Head(buf).rsp.off \in 0..offset
          /\ stalls + 1 >= MaxStalls
    /\ OnSlotNeedsErase(Tail(buf))

\* Any other code, or an answer without an offset.
SeqRefused ==
    /\ SeqAnswered
    /\ <<Head(buf).rsp.rc, Head(buf).rsp.off>> \in
          {"other"} \X ((-1)..Total) \cup {<<"ok", NoOff>>}
    /\ Fail(Tail(buf))

SequentialStep ==
    \/ SeqSend \/ SeqWriteFails \/ SeqReadFails
    \/ SeqProgress \/ SeqStall \/ SeqNeedsErase \/ SeqRefused
=============================================================================
