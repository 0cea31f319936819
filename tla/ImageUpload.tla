----------------------------- MODULE ImageUpload -----------------------------
(***************************************************************************)
(* `image upload` from an open session to its outcome: upload and          *)
(* upload_with_fallback (src/src/commands/image.rs) over the session of    *)
(* SmpLink, against UploadDevice.                                          *)
(*                                                                         *)
(* The session survives every downgrade, and with it everything a loop     *)
(* that gave up left on the link.                                          *)
(***************************************************************************)
EXTENDS SequentialUpload, WindowedUpload, FiniteSets

CONSTANTS
    Chunks,     \* values of --chunk
    Windows     \* values of --window

ASSUME TuningAssumption ==
    Chunks \subseteq Nat \ {0} /\ Windows \subseteq Nat \ {0}

vars == <<link, device, host, faults>>

\* --erase has been done (robust_erase) before the upload starts.
Init ==
    /\ LinkInit
    /\ DeviceInit
    /\ phase = "start"
    /\ want = 0
    /\ chunk \in Chunks
    /\ window \in Windows
    /\ erased \in BOOLEAN
    /\ erased => slot # "dirty" /\ devOff = 0
    /\ offset = 0 /\ attempt = 0 /\ stalls = 0
    /\ sent = 0 /\ acked = 0 /\ noProgress = 0 /\ totalStalls = 0
    /\ faults = MaxFaults

-----------------------------------------------------------------------------
(* upload: read the running version, which may fail, and start.            *)

\* The two calls of upload_with_fallback's loop.
EnterLoop ==
    IF window > 1
    THEN WindowedFromZero /\ UNCHANGED seqVars
    ELSE SequentialFromZero /\ UNCHANGED winVars

\* The file is no MCUboot image: there is no version to compare.
SkipReadState ==
    /\ phase = "start"
    /\ EnterLoop
    /\ UNCHANGED <<link, device, want, tuning, faults>>

ReadState ==
    /\ phase = "start"
    /\ Transmit(Bare("state"))
    /\ phase' = "state_wait"
    /\ want' = seq
    /\ UNCHANGED <<device, tuning, seqVars, winVars, faults>>

\* The answer, and every error, lead to the upload.
StateWriteFails ==
    /\ phase = "start"
    /\ WriteFails
    /\ EnterLoop
    /\ UNCHANGED <<device, want, tuning, faults>>

StateReturns ==
    /\ phase = "state_wait"
    /\ \/ Matches(want) /\ UNCHANGED faults
       \/ ReadFails
    /\ EnterLoop
    /\ buf' = Rest
    /\ UNCHANGED <<wires, device, want, tuning>>

-----------------------------------------------------------------------------
(* What every wait does with the stream.                                   *)

ReadStream ==
    /\ Awaits /\ (phase = "win" => ~CanSend)
    /\ Push
    /\ UNCHANGED <<device, host, faults>>

SkipStale ==
    /\ AwaitsNumber
    /\ Stale(want)
    /\ TakeFrame
    /\ UNCHANGED <<device, host, faults>>

\* The upload succeeded: the command lets go of the device.
Disconnect ==
    /\ phase = "done"
    /\ DropLink
    /\ UNCHANGED <<device, host, faults>>

-----------------------------------------------------------------------------
HostStep ==
    \/ SkipReadState \/ ReadState \/ StateWriteFails \/ StateReturns
    \/ SequentialStep \/ WindowedStep
    \/ EraseSend \/ EraseWriteFails \/ EraseAcked \/ EraseFails
    \/ ReadStream \/ SkipStale \/ Disconnect

DeviceAnswers == DeviceStep /\ UNCHANGED <<host, faults>>

Fault ==
    \/ MayFault("request")  /\ LoseRequest     /\ UNCHANGED <<device, host>>
    \/ MayFault("response") /\ LoseResponse    /\ UNCHANGED <<device, host>>
    \/ MayFault("garble")   /\ GarbleResponse  /\ UNCHANGED <<device, host>>
    \/ MayFault("drop")     /\ DropLink        /\ UNCHANGED <<device, host>>
    \/ MayFault("refuse")   /\ RefuseAny       /\ UNCHANGED host
    \/ MayFault("erase")    /\ EraseDropsLink  /\ UNCHANGED host

Ended == phase \in {"done", "failed"}

Next == HostStep \/ DeviceAnswers \/ Fault

Spec == Init /\ [][Next]_vars

\* Nothing the command or the device has to do waits for ever: the executor
\* polls the one task there is, timers fire, and a device that is heard
\* answers.  Nothing is assumed of the faults.
FairSpec == Spec /\ WF_vars(HostStep) /\ WF_vars(DeviceAnswers)

-----------------------------------------------------------------------------
Request  == [seq : 0..(SeqMod - 1), req : RequestBody]
Response == [seq : 0..(SeqMod - 1), ok : BOOLEAN, req : RequestBody, rsp : ReplyBody]

LinkTypeOK ==
    /\ seq \in 0..(SeqMod - 1)
    /\ toDev \in Seq(Request) /\ notif \in Seq(Response) /\ buf \in Seq(Response)
    /\ up \in BOOLEAN

DeviceTypeOK ==
    /\ devOff \in 0..Total /\ stored \subseteq 0..(Total - 1)
    /\ slot \in SlotStates /\ mtu \in Mtus

TuningTypeOK == chunk \in Nat \ {0} /\ window \in Nat \ {0} /\ erased \in BOOLEAN

LoopsTypeOK ==
    /\ offset \in 0..Total /\ attempt \in 0..(LaterAttempts - 1)
    /\ stalls \in 0..(MaxStalls - 1)
    /\ sent \in 0..Total /\ acked \in 0..Total
    /\ noProgress \in Nat /\ totalStalls \in Nat

\* Every variable stays in the range its type in the code is used for: no
\* offset passes the end of the file on either side, no attempt or stall
\* counter passes its limit, and the chunk never shrinks to nothing.
TypeOK ==
    /\ LinkTypeOK /\ DeviceTypeOK /\ TuningTypeOK /\ LoopsTypeOK
    /\ phase \in Phases /\ want \in 0..(SeqMod - 1)
    /\ faults \in 0..MaxFaults

-----------------------------------------------------------------------------
\* Success is only reported over a complete image: the loops trust offsets
\* they are told, so this needs every offset they believe to be about this
\* upload and not about an earlier phase of it.
UploadedIsComplete == phase = "done" => stored = 0..(Total - 1)

\* The command implements ImageTransfer: success means a complete slot, and
\* no chunk or erase left on the link by a loop that gave up reaches the slot
\* after success has been reported.
Transfer == INSTANCE ImageTransfer WITH
    status <- IF Ended THEN phase ELSE "running",
    image  <- stored
TransferSpec == Transfer!Spec

\* The offset a loop has reached is never ahead of the slot: all the bytes
\* below it are there, through retries, fallbacks, erases and late answers.
AckedBytesAreStored ==
    /\ phase \in {"seq", "seq_wait"} => 0..(offset - 1) \subseteq stored
    /\ phase = "win" => 0..(acked - 1) \subseteq stored

\* The pipelined loop and the device agree on where they are: what is acked has
\* been received, what was received has been sent, and no ack that is still on
\* the link is ahead of the device.  So no late or repeated ack takes the loop to
\* where the device is not, and sent - acked does not wrap, on a device without
\* the offset of an earlier upload.
DeviceInWindow ==
    phase = "win" =>
        /\ acked <= devOff /\ devOff <= sent
        /\ \A i \in 1..Len(notif) : notif[i].rsp.off <= devOff
        /\ \A i \in 1..Len(buf) : buf[i].rsp.off <= devOff

\* An arm of upload_with_fallback ran, and the upload starts over at 0.
StartsOver ==
    /\ phase \in {"win", "seq", "seq_wait", "erase_wait"}
    /\ phase' = "seq" /\ offset' = 0 /\ attempt' = 0 /\ stalls' = 0
    /\ host' # host

Downgrade ==
    \/ window > 1 /\ window' = 1 /\ UNCHANGED <<chunk, erased>>
    \/ chunk' \in MinChunk..(chunk - 1) /\ UNCHANGED <<window, erased>>
    \/ ~erased /\ erased' /\ UNCHANGED <<chunk, window>>

\* The upload starts over only with one tuning lowered, and no tuning is ever
\* raised or changed otherwise: no arm can run twice with the same tunings,
\* whatever the device answers in the meantime (upload_with_fallback).
EachArmDowngrades == [][IF StartsOver THEN Downgrade ELSE UNCHANGED tuning]_vars

\* The sequential loop moves on the answer to the chunk it is waiting for,
\* never on one that a pipelined or timed-out attempt is still owed.
AckAnswersItsChunk ==
    [][(phase = "seq_wait" /\ phase' \in {"seq", "done"} /\ offset' # offset)
          => Head(buf).req = ChunkAt(offset)]_vars

Uploads(q) == Cardinality({i \in 1..Len(q) : q[i].req.cmd = "upload"})
InFlight == Uploads(toDev) + Uploads(notif) + Uploads(buf)

\* The chunks in flight and the acks without progress never exceed the
\* window together.  Measuring the window from acked is what keeps the first
\* below it; the second is what resync_after is compared with.
StallsFitWindow == phase = "win" => noProgress + InFlight <= window

\* The pipelined loop sends on or stays, and never goes back: after a lost chunk
\* fewer acks come than the rewind of upload_windowed waits for, so the resync
\* that the comment on no_progress describes is never taken, and the loop starves
\* until its timeout.
NeverRewinds == [][(phase = "win" /\ phase' = "win") => sent' >= sent]_vars

\* The command ends, whatever is lost, late, garbled or refused.
Termination == <>Ended

\* As long as nothing goes wrong on the link or in the device, every tuning
\* is downgraded until the upload succeeds, on any device that can take the
\* smallest first chunk and whose slot can be erased (upload_with_fallback).
UndisturbedSucceeds ==
    (slot # "locked" /\ mtu >= FirstOverhead + MinChunk)
        => <>(phase = "done" \/ faults < MaxFaults)
=============================================================================
