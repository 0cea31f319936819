--------------------------- MODULE WindowedUpload ---------------------------
(***************************************************************************)
(* upload_windowed (src/src/commands/image.rs): keep up to window chunks   *)
(* of unacknowledged data in flight and take the device's acks in the      *)
(* order they come, whatever request they answer.                          *)
(***************************************************************************)
EXTENDS UploadFallback

CONSTANTS UsizeMod  \* usize arithmetic wraps at this in a release build

ASSUME UsizeAssumption == UsizeMod \in Nat /\ UsizeMod > 2 * Total

\* Mutant of ResyncAfter: the loop rewinds on the first ack that does not move.
RewindsAtOnce == 1

ResyncAfter    == window + 4
MaxTotalStalls == window * 16 + 32

\* sent - acked, in usize.
Unacked == IF sent >= acked THEN sent - acked ELSE sent + UsizeMod - acked

\* Mutant of CanSend: one chunk too many.
CanSendOneMore == sent < Total /\ Unacked <= window * chunk

CanSend == sent < Total /\ Unacked < window * chunk

WindowedFromZero ==
    /\ phase' = "win"
    /\ sent' = 0 /\ acked' = 0 /\ noProgress' = 0 /\ totalStalls' = 0

-----------------------------------------------------------------------------
(* The inner loop fills the window before the outer one reads an ack.      *)

WinSend ==
    /\ phase = "win"
    /\ CanSend
    /\ Transmit(ChunkAt(sent))
    /\ sent' = sent + ChunkAt(sent).len
    /\ UNCHANGED <<device, phase, want, tuning, seqVars, acked, noProgress,
                   totalStalls, faults>>

WinWriteFails ==
    /\ phase = "win"
    /\ CanSend
    /\ ~up
    /\ seq' = next_seq
    /\ OnWindowedError
    /\ UNCHANGED <<toDev, notif, up, device, winVars, faults>>

-----------------------------------------------------------------------------
(* recv_response: the next frame, whatever its number.                     *)

WinReceived ==
    /\ phase = "win"
    /\ ~CanSend
    /\ buf # <<>> /\ Head(buf).ok
    /\ UNCHANGED <<wires, device, want, faults>>

Ack == Head(buf).rsp
IsAck == Ack.rc = "ok" /\ Ack.off # NoOff

WinProgress ==
    /\ WinReceived
    /\ IsAck /\ Ack.off > acked
    /\ phase' = IF Ack.off < Total THEN "win" ELSE "done"
    /\ acked' = Ack.off
    /\ noProgress' = 0
    /\ buf' = Tail(buf)
    /\ UNCHANGED <<tuning, seqVars, sent, totalStalls>>

\* An ack that does not move: after enough of them in a row, rewind to it.
WinStall ==
    /\ WinReceived
    /\ IsAck /\ Ack.off <= acked
    /\ totalStalls + 1 < MaxTotalStalls
    /\ totalStalls' = totalStalls + 1
    /\ LET resync == noProgress + 1 >= ResyncAfter
       IN  /\ noProgress' = IF resync THEN 0 ELSE noProgress + 1
           /\ sent' = IF resync THEN Ack.off ELSE sent
           /\ buf' = IF resync THEN <<>> ELSE Tail(buf)
    /\ UNCHANGED <<phase, tuning, seqVars, acked>>

\* A code, an answer without an offset, or too many stalls in all.
WinGivesUp ==
    /\ WinReceived
    /\ IsAck => Ack.off <= acked /\ totalStalls + 1 >= MaxTotalStalls
    /\ OnWindowedError
    /\ UNCHANGED winVars

WinReadFails ==
    /\ phase = "win"
    /\ ~CanSend
    /\ ReadFails
    /\ OnWindowedError
    /\ UNCHANGED <<wires, device, winVars>>

WindowedStep ==
    WinSend \/ WinWriteFails \/ WinProgress \/ WinStall \/ WinGivesUp \/ WinReadFails
=============================================================================
