-------------------------- MODULE ImageUploadProofs --------------------------
(***************************************************************************)
(* TLAPS proofs that ImageUpload is type correct, that it implements       *)
(* ImageTransfer, and of the invariants that make it so, for every file,   *)
(* chunk, window, MTU, device state and pattern of faults.                 *)
(*                                                                         *)
(* TypeOK bounds the offsets of the frames in flight as well as the host's *)
(* and the device's, and each of the three is computed from another; what  *)
(* it lacks to be inductive is the condition of the sequential loop, that  *)
(* a chunk is only cut at an offset inside the file.                       *)
(*                                                                         *)
(* The rest is about one line of frames: what the host has read, what it   *)
(* has been sent and what the device has yet to see, in this order.        *)
(* Frames leave the line and change into answers, but stay in the order in *)
(* which their requests were written, so the numbers they carry are older  *)
(* towards the front.  Hence a frame with the number that was written last *)
(* is the last one of the line, and when a loop has read it nothing is     *)
(* left on the link that could still change the slot.                      *)
(*                                                                         *)
(* It takes two assumptions, both of which the runs leftover_mixes and the *)
(* README show to be needed: the device has no upload of its own under     *)
(* way, and a number does not come round while a frame that carries it is  *)
(* still in the line.                                                      *)
(***************************************************************************)
EXTENDS ImageUpload, QueueFacts

Unfinished == phase \in {"seq", "seq_wait"} => offset < Total

Inv == TypeOK /\ Unfinished

LEMMA ParameterTypes ==
    /\ SeqMod \in Nat \ {0}
    /\ Total \in Nat \ {0}
    /\ MinChunk \in Nat \ {0}
    /\ Mtus \subseteq Nat /\ Leftovers \subseteq 0..Total /\ Slots \subseteq SlotStates
    /\ Chunks \subseteq Nat \ {0} /\ Windows \subseteq Nat \ {0}
    /\ MaxFaults \in Nat
BY SeqModAssumption, TotalAssumption, MinChunkAssumption, DeviceAssumption,
   TuningAssumption, FaultAssumption

-----------------------------------------------------------------------------
(* The link.                                                               *)

LEMMA NextSeqType ==
    ASSUME seq \in 0..(SeqMod - 1)
    PROVE  next_seq \in 0..(SeqMod - 1)
BY SeqModAssumption DEF next_seq

LEMMA EmptyQueues == <<>> \in Seq(Request) /\ <<>> \in Seq(Response)
BY EmptySeq

LEMMA TransmitType ==
    ASSUME LinkTypeOK, NEW req \in RequestBody, Transmit(req)
    PROVE  LinkTypeOK'
<1>1. seq' \in 0..(SeqMod - 1)
  BY NextSeqType DEF LinkTypeOK, Transmit, WriteRequest, WriteUnseen
<1>2. CASE WriteRequest(req)
  <2>1. [seq |-> seq, req |-> req] \in Request
    BY DEF LinkTypeOK, Request
  <2>2. toDev' \in Seq(Request)
    BY <1>2, <2>1, AppendKeeps DEF WriteRequest, LinkTypeOK
  <2>. QED  BY <1>1, <1>2, <2>2 DEF WriteRequest, LinkTypeOK
<1>3. CASE WriteUnseen
  BY <1>1, <1>3 DEF WriteUnseen, LinkTypeOK
<1>. QED  BY <1>2, <1>3 DEF Transmit

\* Every step that reads: the assembler keeps a part of what it had.
LEMMA TakeType ==
    ASSUME LinkTypeOK, UNCHANGED wires, buf' \in {<<>>, buf, Rest}
    PROVE  LinkTypeOK'
<1>1. Rest \in Seq(Response)
  <2>1. CASE buf = <<>>
    BY <2>1, EmptyQueues DEF Rest
  <2>2. CASE buf # <<>>
    BY <2>2, TailKeeps DEF Rest, LinkTypeOK
  <2>. QED  BY <2>1, <2>2
<1>. QED  BY <1>1, EmptyQueues DEF LinkTypeOK, wires

\* What the head of the assembler says.
LEMMA HeadType ==
    ASSUME LinkTypeOK, buf # <<>>
    PROVE  /\ Head(buf).rsp.rc \in {"ok", "busy", "other"}
           /\ Head(buf).rsp.off \in (-1)..Total
           /\ Rest = Tail(buf)
<1>1. Head(buf) \in Response
  BY TailKeeps DEF LinkTypeOK
<1>. QED  BY <1>1 DEF Response, ReplyBody, Rest

LEMMA AnswerType ==
    ASSUME LinkTypeOK, NEW rsp \in ReplyBody, Answer(rsp)
    PROVE  LinkTypeOK'
<1>1. /\ toDev # <<>> /\ toDev \in Seq(Request) /\ notif \in Seq(Response)
      /\ toDev' = Tail(toDev) /\ UNCHANGED <<seq, buf, up>>
  BY DEF Answer, LinkTypeOK
<1>2. Head(toDev) \in Request /\ toDev' \in Seq(Request)
  BY <1>1, TailKeeps
<1>. DEFINE f == [seq |-> Head(toDev).seq, ok |-> TRUE,
                  req |-> Head(toDev).req, rsp |-> rsp]
<1>3. f \in Response
  BY <1>2 DEF Request, Response
<1>4. notif' \in Seq(Response)
  <2>1. notif' = Append(notif, f)
    BY DEF Answer
  <2>. HIDE DEF f
  <2>. QED  BY <1>1, <1>3, <2>1, AppendKeeps
<1>. QED  BY <1>1, <1>2, <1>4 DEF LinkTypeOK

LEMMA PushType ==
    ASSUME LinkTypeOK, Push
    PROVE  LinkTypeOK'
<1>1. PICK k \in 1..Len(notif) : /\ buf' = SubSeq(notif, 1, k)
                                 /\ notif' = SubSeq(notif, k + 1, Len(notif))
  BY DEF Push
<1>2. notif \in Seq(Response) /\ Len(notif) \in Nat
  BY LenProperties DEF LinkTypeOK
<1>3. buf' \in Seq(Response) /\ notif' \in Seq(Response)
  BY <1>1, <1>2, SubSeqKeeps
<1>. QED  BY <1>3 DEF LinkTypeOK, Push

LEMMA LossType ==
    ASSUME LinkTypeOK, LoseRequest \/ LoseResponse \/ GarbleResponse \/ DropLink
    PROVE  LinkTypeOK'
<1>1. toDev \in Seq(Request) /\ notif \in Seq(Response)
  BY DEF LinkTypeOK
<1>2. CASE LoseRequest
  <2>1. toDev' \in Seq(Request)
    BY <1>1, <1>2, TailKeeps DEF LoseRequest
  <2>. QED  BY <1>2, <2>1 DEF LoseRequest, LinkTypeOK
<1>3. CASE LoseResponse
  <2>1. notif' \in Seq(Response)
    BY <1>1, <1>3, TailKeeps DEF LoseResponse
  <2>. QED  BY <1>3, <2>1 DEF LoseResponse, LinkTypeOK
<1>4. CASE GarbleResponse
  <2>1. Len(notif) \in Nat \ {0} /\ notif[1] \in Response
    BY <1>1, <1>4, TailKeeps DEF GarbleResponse
  <2>. DEFINE e == [notif[1] EXCEPT !.ok = FALSE]
  <2>2. e \in Response
    BY <2>1 DEF Response
  <2>3. notif' = [notif EXCEPT ![1] = e]
    BY <1>4 DEF GarbleResponse
  <2>. HIDE DEF e
  <2>4. notif' \in Seq(Response)
    BY <1>1, <2>1, <2>2, <2>3, ExceptSeq
  <2>. QED  BY <1>4, <2>4 DEF GarbleResponse, LinkTypeOK
<1>5. CASE DropLink
  BY <1>5, EmptyQueues DEF DropLink, LinkTypeOK
<1>. QED  BY <1>2, <1>3, <1>4, <1>5

-----------------------------------------------------------------------------
(* The device.                                                             *)

LEMMA ServedType ==
    ASSUME LinkTypeOK, toDev # <<>>
    PROVE  /\ Served.off \in 0..Total /\ Served.len \in 0..Total
           /\ Served.off + Served.len <= Total
<1>1. Head(toDev) \in Request
  BY TailKeeps DEF LinkTypeOK
<1>. QED  BY <1>1 DEF Served, Request, RequestBody

LEMMA DeviceStepType ==
    ASSUME LinkTypeOK, DeviceTypeOK, DeviceStep
    PROVE  LinkTypeOK' /\ DeviceTypeOK'
<1>. USE ParameterTypes
<1>0. toDev # <<>>
  BY DEF DeviceStep, AcceptFirst, AcceptNext, Repeat, RefuseChunk, Erased, ReportState, Serving
<1>1. /\ Served.off \in 0..Total /\ Served.len \in 0..Total
      /\ Served.off + Served.len <= Total
  BY <1>0, ServedType
<1>2. /\ \A off \in 0..Total : [rc |-> "ok", off |-> off] \in ReplyBody
      /\ [rc |-> "ok", off |-> NoOff] \in ReplyBody
      /\ [rc |-> "busy", off |-> NoOff] \in ReplyBody
  BY DEF ReplyBody, NoOff
<1>3. CASE AcceptFirst
  <2>1. DeviceTypeOK'
    BY <1>1, <1>3 DEF AcceptFirst, DeviceTypeOK, Bytes
  <2>2. devOff' \in 0..Total
    BY <2>1 DEF DeviceTypeOK
  <2>3. LinkTypeOK'
    BY <1>2, <1>3, <2>2, AnswerType DEF AcceptFirst
  <2>. QED  BY <2>1, <2>3
<1>4. CASE AcceptNext
  <2>0. devOff' \in 0..Total /\ Bytes(Served) \subseteq 0..(Total - 1)
    BY <1>1, <1>4 DEF AcceptNext, DeviceTypeOK, Bytes
  <2>1. DeviceTypeOK'
    BY <1>4, <2>0 DEF AcceptNext, DeviceTypeOK
  <2>2. devOff' \in 0..Total
    BY <2>1 DEF DeviceTypeOK
  <2>3. LinkTypeOK'
    BY <1>2, <1>4, <2>2, AnswerType DEF AcceptNext
  <2>. QED  BY <2>1, <2>3
<1>5. CASE Repeat
  <2>1. LinkTypeOK'
    BY <1>2, <1>5, AnswerType DEF Repeat, DeviceTypeOK
  <2>. QED  BY <1>5, <2>1 DEF Repeat, DeviceTypeOK, device
<1>6. CASE RefuseChunk
  <2>1. LinkTypeOK'
    BY <1>2, <1>6, AnswerType DEF RefuseChunk
  <2>. QED  BY <1>6, <2>1 DEF RefuseChunk, DeviceTypeOK, device
<1>7. CASE Erased
  <2>1. LinkTypeOK'
    BY <1>2, <1>7, AnswerType DEF Erased
  <2>. QED  BY <1>7, <2>1 DEF Erased, EraseSlot, DeviceTypeOK, SlotStates
<1>8. CASE ReportState
  <2>1. LinkTypeOK'
    BY <1>2, <1>8, AnswerType DEF ReportState
  <2>. QED  BY <1>8, <2>1 DEF ReportState, DeviceTypeOK, device
<1>. QED  BY <1>3, <1>4, <1>5, <1>6, <1>7, <1>8 DEF DeviceStep

LEMMA FaultType ==
    ASSUME Inv, Fault
    PROVE  Inv'
<1>1. faults' \in 0..MaxFaults /\ UNCHANGED host
  BY ParameterTypes DEF Fault, MayFault, TypeOK, Inv
<1>2. LinkTypeOK' /\ DeviceTypeOK'
  <2>1. CASE RefuseAny
    <3>1. [rc |-> "other", off |-> NoOff] \in ReplyBody
      BY ParameterTypes DEF ReplyBody, NoOff
    <3>. QED  BY <2>1, <3>1, AnswerType DEF RefuseAny, Inv, TypeOK, DeviceTypeOK, device
  <2>2. CASE EraseDropsLink
    <3>1. LinkTypeOK'
      BY <2>2, LossType DEF EraseDropsLink, Inv, TypeOK
    <3>. QED
      BY <2>2, <3>1, ParameterTypes
         DEF EraseDropsLink, EraseSlot, Inv, TypeOK, DeviceTypeOK, SlotStates
  <2>3. CASE (LoseRequest \/ LoseResponse \/ GarbleResponse \/ DropLink) /\ UNCHANGED device
    BY <2>3, LossType DEF Inv, TypeOK, DeviceTypeOK, device
  <2>. QED  BY <2>1, <2>2, <2>3 DEF Fault
<1>. QED
  BY <1>1, <1>2 DEF Inv, Unfinished, TypeOK, TuningTypeOK, LoopsTypeOK, host, tuning,
                    seqVars, winVars, LaterAttempts, MaxStalls

-----------------------------------------------------------------------------
(* The host.                                                               *)

Ranges ==
    /\ phase \in Phases /\ want \in 0..(SeqMod - 1)
    /\ faults \in 0..MaxFaults

LEMMA ChunkType ==
    ASSUME NEW off \in 0..Total, off < Total, chunk \in Nat \ {0}
    PROVE  /\ ChunkAt(off) \in RequestBody
           /\ off + ChunkAt(off).len \in 0..Total
BY ParameterTypes DEF ChunkAt, RequestBody, Commands

LEMMA BareType ==
    ASSUME NEW cmd \in Commands
    PROVE  Bare(cmd) \in RequestBody
BY ParameterTypes DEF Bare, RequestBody

LEMMA ReadFailsType ==
    ASSUME TypeOK, ReadFails
    PROVE  faults' \in 0..MaxFaults
BY ParameterTypes DEF ReadFails, TimerFires, MayFault, TypeOK

LEMMA SmallerType ==
    ASSUME chunk \in Nat \ {0}
    PROVE  Smaller \in Nat \ {0}
BY ParameterTypes DEF Smaller, SmallerThan

\* The arms keep the tuning and the sequential counters in range.
LEMMA ArmTypes ==
    ASSUME TypeOK, NEW rest,
           OnWindowedError \/ OnMtuTooLarge(rest) \/ OnSlotNeedsErase(rest) \/ Fail(rest)
    PROVE  /\ TuningTypeOK'
           /\ offset' \in 0..Total /\ attempt' \in 0..(LaterAttempts - 1)
           /\ stalls' \in 0..(MaxStalls - 1)
           /\ phase' \in {"seq", "erase", "failed"}
           /\ phase' = "seq" => offset' < Total
           /\ buf' \in {<<>>, rest}
<1>1. chunk \in Nat \ {0} /\ Smaller \in Nat \ {0}
  BY SmallerType DEF TypeOK, TuningTypeOK
<1>2. /\ 0 \in 0..Total /\ 0 \in 0..(LaterAttempts - 1) /\ 0 \in 0..(MaxStalls - 1)
      /\ offset \in 0..Total /\ attempt \in 0..(LaterAttempts - 1)
      /\ stalls \in 0..(MaxStalls - 1)
      /\ window \in Nat \ {0} /\ erased \in BOOLEAN
  BY ParameterTypes DEF TypeOK, LoopsTypeOK, TuningTypeOK, LaterAttempts, MaxStalls
<1>3. 0 < Total
  BY ParameterTypes
<1>4. CASE OnWindowedError
  BY <1>1, <1>2, <1>3, <1>4 DEF OnWindowedError, SequentialFromZero, TuningTypeOK
<1>5. CASE OnMtuTooLarge(rest)
  BY <1>1, <1>2, <1>3, <1>5
     DEF OnMtuTooLarge, SequentialFromZero, Fail, TuningTypeOK, tuning, seqVars
<1>6. CASE OnSlotNeedsErase(rest)
  BY <1>1, <1>2, <1>3, <1>6 DEF OnSlotNeedsErase, Fail, TuningTypeOK, tuning, seqVars
<1>7. CASE Fail(rest)
  BY <1>1, <1>2, <1>3, <1>7 DEF Fail, TuningTypeOK, tuning, seqVars
<1>. QED  BY <1>4, <1>5, <1>6, <1>7

LEMMA SequentialType ==
    ASSUME Inv, SequentialStep
    PROVE  Inv'
<1>. USE ParameterTypes
<1>1. /\ TypeOK /\ LinkTypeOK /\ DeviceTypeOK /\ TuningTypeOK /\ LoopsTypeOK /\ Ranges
      /\ {"seq", "seq_wait", "erase", "failed", "done"} \subseteq Phases
      /\ phase \in {"seq", "seq_wait"} => offset < Total
  BY DEF Inv, Unfinished, TypeOK, Ranges, Phases
<1>2. UNCHANGED <<device, winVars>> /\ phase \in {"seq", "seq_wait"}
  BY DEF SequentialStep, SeqSend, SeqWriteFails, SeqReadFails, SeqProgress, SeqStall,
         SeqNeedsErase, SeqRefused, SeqAnswered
<1>3. SUFFICES /\ LinkTypeOK' /\ TuningTypeOK'
               /\ want' \in 0..(SeqMod - 1) /\ faults' \in 0..MaxFaults
               /\ phase' \in {"seq", "seq_wait", "erase", "failed", "done"}
               /\ phase' \in {"seq", "seq_wait"} => offset' < Total
               /\ offset' \in 0..Total /\ attempt' \in 0..(LaterAttempts - 1)
               /\ stalls' \in 0..(MaxStalls - 1)
  BY <1>1, <1>2
     DEF Inv, Unfinished, TypeOK, DeviceTypeOK, LoopsTypeOK, Ranges, device, winVars
<1>4. CASE SeqSend
  <2>1. UNCHANGED <<tuning, seqVars, faults>> /\ phase' = "seq_wait" /\ want' = seq
    BY <1>4 DEF SeqSend
  <2>2. ChunkAt(offset) \in RequestBody
    BY <1>1, <1>2, ChunkType DEF LoopsTypeOK, TuningTypeOK
  <2>3. LinkTypeOK'
    BY <1>1, <1>4, <2>2, TransmitType DEF SeqSend
  <2>. QED
    BY <1>1, <1>2, <2>1, <2>3
       DEF LinkTypeOK, TuningTypeOK, LoopsTypeOK, Ranges, tuning, seqVars
<1>5. ASSUME NEW rest, AttemptFails(rest)
      PROVE  /\ TuningTypeOK'
             /\ offset' \in 0..Total /\ attempt' \in 0..(LaterAttempts - 1)
             /\ stalls' \in 0..(MaxStalls - 1)
             /\ phase' \in {"seq", "erase", "failed"}
             /\ phase' = "seq" => offset' < Total
             /\ buf' \in {<<>>, rest}
  <2>1. CASE OnMtuTooLarge(rest) \/ Fail(rest)
    BY <1>1, <2>1, ArmTypes
  <2>2. CASE /\ attempt + 1 < MaxAttempts /\ phase' = "seq" /\ attempt' = attempt + 1
             /\ buf' = <<>> /\ UNCHANGED <<tuning, offset, stalls>>
    BY <1>1, <1>2, <2>2
       DEF LoopsTypeOK, TuningTypeOK, tuning, MaxAttempts, FirstAttempts, LaterAttempts
  <2>. QED  BY <1>5, <2>1, <2>2 DEF AttemptFails
<1>6. CASE SeqWriteFails
  <2>1. LinkTypeOK'
    <3>1. seq' \in 0..(SeqMod - 1) /\ UNCHANGED <<toDev, notif, up>> /\ buf' \in {<<>>, buf}
      BY <1>1, <1>5, <1>6, NextSeqType DEF SeqWriteFails, LinkTypeOK
    <3>. QED  BY <1>1, <3>1, EmptyQueues DEF LinkTypeOK
  <2>. QED  BY <1>1, <1>5, <1>6, <2>1 DEF SeqWriteFails, Ranges
<1>7. CASE SeqReadFails
  <2>1. LinkTypeOK'
    BY <1>1, <1>5, <1>7, TakeType DEF SeqReadFails
  <2>. QED  BY <1>1, <1>5, <1>7, <2>1, ReadFailsType DEF SeqReadFails, Ranges
<1>8. CASE SeqAnswered /\ (SeqProgress \/ SeqStall \/ SeqNeedsErase \/ SeqRefused)
  <2>1. /\ UNCHANGED <<wires, want, faults>> /\ buf # <<>> /\ Rest = Tail(buf)
        /\ Head(buf).rsp.off \in (-1)..Total
    BY <1>1, <1>8, HeadType DEF SeqAnswered, Matches
  <2>2. (buf' \in {<<>>, Tail(buf)}) => LinkTypeOK'
    BY <1>1, <2>1, TakeType
  <2>3. CASE SeqProgress
    <3>1. /\ Head(buf).rsp.off \in 1..Total /\ ContinueFrom(Head(buf).rsp.off) /\ stalls' = 0
      BY <1>1, <2>1, <2>3 DEF SeqProgress, LoopsTypeOK
    <3>. QED
      BY <1>1, <2>1, <2>2, <3>1
         DEF ContinueFrom, Ranges, TuningTypeOK, tuning, LaterAttempts, MaxStalls
  <2>4. CASE SeqStall
    <3>1. /\ Head(buf).rsp.off \in 0..Total /\ ContinueFrom(Head(buf).rsp.off)
          /\ stalls' = stalls + 1 /\ stalls + 1 < MaxStalls /\ stalls \in Nat
      BY <1>1, <2>1, <2>4 DEF SeqStall, LoopsTypeOK
    <3>. QED
      BY <1>1, <2>1, <2>2, <3>1
         DEF ContinueFrom, Ranges, TuningTypeOK, tuning, LaterAttempts, MaxStalls
  <2>5. CASE SeqNeedsErase \/ SeqRefused
    <3>1. OnSlotNeedsErase(Tail(buf)) \/ Fail(Tail(buf))
      BY <2>5 DEF SeqNeedsErase, SeqRefused
    <3>. QED  BY <1>1, <2>1, <2>2, <3>1, ArmTypes DEF Ranges
  <2>. QED  BY <1>8, <2>3, <2>4, <2>5
<1>. QED
  BY <1>4, <1>6, <1>7, <1>8
     DEF SequentialStep, SeqProgress, SeqStall, SeqNeedsErase, SeqRefused

LEMMA WindowedType ==
    ASSUME Inv, WindowedStep
    PROVE  Inv'
<1>. USE ParameterTypes
<1>1. /\ TypeOK /\ LinkTypeOK /\ DeviceTypeOK /\ TuningTypeOK /\ LoopsTypeOK /\ Ranges
      /\ {"seq", "erase", "win", "failed", "done"} \subseteq Phases
  BY DEF Inv, TypeOK, Ranges, Phases
<1>2. UNCHANGED <<device, want>> /\ phase = "win"
  BY DEF WindowedStep, WinSend, WinWriteFails, WinProgress, WinStall, WinGivesUp,
         WinReadFails, WinReceived, OnWindowedError
<1>3. SUFFICES /\ LinkTypeOK' /\ TuningTypeOK' /\ LoopsTypeOK'
               /\ faults' \in 0..MaxFaults
               /\ phase' \in {"seq", "erase", "win", "failed", "done"}
               /\ phase' = "seq" => offset' < Total
  BY <1>1, <1>2 DEF Inv, Unfinished, TypeOK, DeviceTypeOK, Ranges, device
<1>4. CASE WinSend
  <2>1. /\ UNCHANGED <<phase, tuning, seqVars, acked, noProgress, totalStalls, faults>>
        /\ sent' = sent + ChunkAt(sent).len /\ Transmit(ChunkAt(sent))
        /\ sent \in 0..Total /\ sent < Total
    BY <1>1, <1>4 DEF WinSend, CanSend, LoopsTypeOK
  <2>2. ChunkAt(sent) \in RequestBody /\ sent' \in 0..Total
    BY <1>1, <2>1, ChunkType DEF TuningTypeOK
  <2>3. LinkTypeOK'
    BY <1>1, <2>1, <2>2, TransmitType
  <2>. QED
    BY <1>1, <1>2, <2>1, <2>2, <2>3 DEF TuningTypeOK, LoopsTypeOK, Ranges, tuning, seqVars
<1>5. ASSUME OnWindowedError, UNCHANGED winVars
      PROVE  /\ TuningTypeOK' /\ LoopsTypeOK' /\ phase' = "seq" /\ offset' < Total
             /\ buf' = <<>>
  <2>1. /\ TuningTypeOK' /\ offset' \in 0..Total /\ attempt' \in 0..(LaterAttempts - 1)
        /\ stalls' \in 0..(MaxStalls - 1)
    BY <1>1, <1>5, ArmTypes
  <2>2. phase' = "seq" /\ offset' < Total /\ buf' = <<>>
    BY <1>5 DEF OnWindowedError, SequentialFromZero
  <2>. QED  BY <1>1, <1>5, <2>1, <2>2 DEF LoopsTypeOK, winVars
<1>6. CASE WinWriteFails
  <2>1. seq' \in 0..(SeqMod - 1) /\ UNCHANGED <<toDev, notif, up, faults>> /\ buf' = <<>>
    BY <1>1, <1>5, <1>6, NextSeqType DEF WinWriteFails, LinkTypeOK
  <2>2. LinkTypeOK'
    BY <1>1, <2>1, EmptyQueues DEF LinkTypeOK
  <2>. QED  BY <1>1, <1>5, <1>6, <2>1, <2>2 DEF WinWriteFails, Ranges
<1>7. CASE WinReadFails
  <2>1. LinkTypeOK'
    BY <1>1, <1>5, <1>7, TakeType DEF WinReadFails
  <2>. QED  BY <1>1, <1>5, <1>7, <2>1, ReadFailsType DEF WinReadFails
<1>8. CASE WinReceived /\ (WinProgress \/ WinStall \/ WinGivesUp)
  <2>1. /\ UNCHANGED <<wires, faults>> /\ buf # <<>> /\ Rest = Tail(buf)
        /\ Ack.off \in (-1)..Total
    BY <1>1, <1>8, HeadType DEF WinReceived, Ack
  <2>2. (buf' \in {<<>>, Tail(buf)}) => LinkTypeOK'
    BY <1>1, <2>1, TakeType
  <2>3. CASE WinProgress
    <3>1. /\ acked' \in 0..Total /\ noProgress' = 0 /\ buf' = Tail(buf)
          /\ phase' \in {"win", "done"} /\ UNCHANGED <<tuning, seqVars, sent, totalStalls>>
      BY <1>1, <2>1, <2>3 DEF WinProgress, LoopsTypeOK
    <3>. QED
      BY <1>1, <2>1, <2>2, <3>1 DEF LoopsTypeOK, TuningTypeOK, Ranges, tuning, seqVars
  <2>4. CASE WinStall
    <3>1. /\ noProgress' \in Nat /\ totalStalls' \in Nat /\ sent' \in 0..Total
          /\ buf' \in {<<>>, Tail(buf)} /\ UNCHANGED <<phase, tuning, seqVars, acked>>
      BY <1>1, <2>1, <2>4 DEF WinStall, IsAck, NoOff, LoopsTypeOK
    <3>. QED
      BY <1>1, <1>2, <2>1, <2>2, <3>1 DEF LoopsTypeOK, TuningTypeOK, Ranges, tuning, seqVars
  <2>5. CASE WinGivesUp
    BY <1>1, <1>5, <2>1, <2>2, <2>5 DEF WinGivesUp, Ranges
  <2>. QED  BY <1>8, <2>3, <2>4, <2>5
<1>. QED
  BY <1>4, <1>6, <1>7, <1>8 DEF WindowedStep, WinProgress, WinStall, WinGivesUp

LEMMA EraseType ==
    ASSUME Inv, EraseSend \/ EraseWriteFails \/ EraseAcked \/ EraseFails
    PROVE  Inv'
<1>. USE ParameterTypes
<1>1. /\ TypeOK /\ LinkTypeOK /\ DeviceTypeOK /\ TuningTypeOK /\ LoopsTypeOK /\ Ranges
      /\ {"seq", "erase_wait", "failed"} \subseteq Phases
      /\ 0 \in 0..(LaterAttempts - 1) /\ 0 \in 0..(MaxStalls - 1)
  BY DEF Inv, TypeOK, Ranges, Phases, LaterAttempts, MaxStalls
<1>2. UNCHANGED <<device, winVars>>
  BY DEF EraseSend, EraseWriteFails, EraseAcked, EraseFails
<1>3. SUFFICES /\ LinkTypeOK' /\ TuningTypeOK'
               /\ want' \in 0..(SeqMod - 1) /\ faults' \in 0..MaxFaults
               /\ phase' \in {"seq", "erase_wait", "failed"}
               /\ phase' = "seq" => offset' < Total
               /\ offset' \in 0..Total /\ attempt' \in 0..(LaterAttempts - 1)
               /\ stalls' \in 0..(MaxStalls - 1)
  BY <1>1, <1>2
     DEF Inv, Unfinished, TypeOK, DeviceTypeOK, LoopsTypeOK, Ranges, device, winVars
<1>4. CASE EraseSend
  <2>1. LinkTypeOK'
    BY <1>1, <1>4, BareType, TransmitType DEF EraseSend, Commands
  <2>. QED
    BY <1>1, <1>4, <2>1
       DEF EraseSend, LinkTypeOK, TuningTypeOK, LoopsTypeOK, Ranges, tuning, seqVars
<1>5. CASE EraseWriteFails
  <2>1. LinkTypeOK'
    BY <1>1, <1>5, NextSeqType DEF EraseWriteFails, WriteFails, LinkTypeOK
  <2>. QED
    BY <1>1, <1>5, <2>1
       DEF EraseWriteFails, TuningTypeOK, LoopsTypeOK, Ranges, tuning, seqVars
<1>6. CASE EraseAcked
  <2>1. LinkTypeOK'
    BY <1>1, <1>6, TakeType DEF EraseAcked
  <2>. QED
    BY <1>1, <1>6, <2>1 DEF EraseAcked, SequentialFromZero, TuningTypeOK, Ranges
<1>7. CASE EraseFails
  <2>1. LinkTypeOK'
    BY <1>1, <1>7, TakeType DEF EraseFails, Fail
  <2>2. faults' \in 0..MaxFaults
    BY <1>1, <1>7, ReadFailsType DEF EraseFails, Ranges
  <2>. QED
    BY <1>1, <1>7, <2>1, <2>2
       DEF EraseFails, Fail, TuningTypeOK, LoopsTypeOK, Ranges, tuning, seqVars
<1>. QED  BY <1>4, <1>5, <1>6, <1>7

\* Entering either loop starts it at offset zero.
LEMMA EnterType ==
    ASSUME Inv, EnterLoop
    PROVE  /\ LoopsTypeOK'
           /\ phase' \in Phases
           /\ phase' \in {"seq", "seq_wait"} => offset' < Total
<1>1. /\ LoopsTypeOK /\ 0 \in 0..(LaterAttempts - 1) /\ 0 \in 0..(MaxStalls - 1)
      /\ 0 \in 0..Total /\ 0 < Total
  BY ParameterTypes DEF Inv, TypeOK, LaterAttempts, MaxStalls
<1>2. CASE window > 1
  BY <1>1, <1>2 DEF EnterLoop, WindowedFromZero, LoopsTypeOK, seqVars, Phases
<1>3. CASE ~(window > 1)
  BY <1>1, <1>3 DEF EnterLoop, SequentialFromZero, LoopsTypeOK, winVars, Phases
<1>. QED  BY <1>2, <1>3

LEMMA StartType ==
    ASSUME Inv, SkipReadState \/ ReadState \/ StateWriteFails \/ StateReturns
    PROVE  Inv'
<1>1. /\ TypeOK /\ LinkTypeOK /\ DeviceTypeOK /\ TuningTypeOK /\ LoopsTypeOK /\ Ranges
      /\ Unfinished /\ "state_wait" \in Phases
  BY DEF Inv, TypeOK, Ranges, Phases
<1>2. DeviceTypeOK' /\ TuningTypeOK'
  BY <1>1 DEF SkipReadState, ReadState, StateWriteFails, StateReturns,
              DeviceTypeOK, TuningTypeOK, device, tuning
<1>3. CASE SkipReadState
  BY <1>1, <1>2, <1>3, EnterType
     DEF SkipReadState, Inv, Unfinished, TypeOK, Ranges, LinkTypeOK, link
<1>4. CASE ReadState
  <2>1. LinkTypeOK'
    BY <1>1, <1>4, BareType, TransmitType DEF ReadState, Commands
  <2>2. LoopsTypeOK'
    BY <1>1, <1>4 DEF ReadState, LoopsTypeOK, seqVars, winVars
  <2>. QED
    BY <1>1, <1>2, <1>4, <2>1, <2>2 DEF ReadState, Inv, Unfinished, TypeOK, Ranges, LinkTypeOK
<1>5. CASE StateWriteFails
  <2>1. LinkTypeOK'
    BY <1>1, <1>5, NextSeqType DEF StateWriteFails, WriteFails, LinkTypeOK
  <2>. QED
    BY <1>1, <1>2, <1>5, <2>1, EnterType DEF StateWriteFails, Inv, Unfinished, TypeOK, Ranges
<1>6. CASE StateReturns
  <2>1. LinkTypeOK'
    BY <1>1, <1>6, TakeType DEF StateReturns
  <2>2. faults' \in 0..MaxFaults
    BY <1>1, <1>6, ReadFailsType DEF StateReturns, Ranges
  <2>. QED
    BY <1>1, <1>2, <1>6, <2>1, <2>2, EnterType
       DEF StateReturns, Inv, Unfinished, TypeOK, Ranges
<1>. QED  BY <1>3, <1>4, <1>5, <1>6

LEMMA QuietType ==
    ASSUME Inv, LinkTypeOK', UNCHANGED <<device, host, faults>>
    PROVE  Inv'
BY DEF Inv, Unfinished, TypeOK, DeviceTypeOK, TuningTypeOK, LoopsTypeOK,
       device, host, tuning, seqVars, winVars

LEMMA StreamType ==
    ASSUME Inv, ReadStream \/ SkipStale \/ Disconnect
    PROVE  Inv'
<1>1. LinkTypeOK
  BY DEF Inv, TypeOK
<1>2. CASE ReadStream
  BY <1>1, <1>2, PushType, QuietType DEF ReadStream
<1>3. CASE SkipStale
  <2>1. UNCHANGED wires /\ buf' = Rest
    BY <1>3 DEF SkipStale, Stale, TakeFrame, Rest, wires
  <2>. QED  BY <1>1, <1>3, <2>1, TakeType, QuietType DEF SkipStale
<1>4. CASE Disconnect
  <2>1. LinkTypeOK'
    BY <1>1, <1>4, EmptyQueues DEF Disconnect, DropLink, LinkTypeOK
  <2>. QED  BY <1>4, <2>1, QuietType DEF Disconnect
<1>. QED  BY <1>2, <1>3, <1>4

LEMMA InitType == Init => Inv
<1>. SUFFICES ASSUME Init PROVE Inv
  OBVIOUS
<1>. USE ParameterTypes
<1>1. LinkTypeOK
  BY EmptyQueues DEF Init, LinkInit, LinkTypeOK
<1>2. DeviceTypeOK
  BY DEF Init, DeviceInit, DeviceTypeOK
<1>3. TuningTypeOK
  BY DEF Init, TuningTypeOK
<1>4. LoopsTypeOK
  BY DEF Init, LoopsTypeOK, LaterAttempts, MaxStalls
<1>. QED
  BY <1>1, <1>2, <1>3, <1>4 DEF Init, Inv, Unfinished, TypeOK, Phases

LEMMA StepType == Inv /\ [Next]_vars => Inv'
<1>. SUFFICES ASSUME Inv, [Next]_vars PROVE Inv'
  OBVIOUS
<1>1. CASE HostStep
  BY <1>1, StartType, SequentialType, WindowedType, EraseType, StreamType DEF HostStep
<1>2. CASE DeviceAnswers
  <2>1. LinkTypeOK' /\ DeviceTypeOK'
    BY <1>2, DeviceStepType DEF DeviceAnswers, Inv, TypeOK
  <2>. QED
    BY <1>2, <2>1
       DEF DeviceAnswers, Inv, Unfinished, TypeOK, TuningTypeOK, LoopsTypeOK,
           host, tuning, seqVars, winVars
<1>3. CASE Fault
  BY <1>3, FaultType
<1>4. CASE UNCHANGED vars
  <2>1. LinkTypeOK'
    BY <1>4 DEF Inv, TypeOK, LinkTypeOK, vars, link
  <2>. QED  BY <1>4, <2>1, QuietType DEF vars
<1>. QED  BY <1>1, <1>2, <1>3, <1>4 DEF Next

\* Every offset the upload handles stays within the file, and every counter
\* within its limit, whatever the device answers: upload_chunk is never asked
\* to slice past the end, and the chunk never shrinks to nothing.
THEOREM UploadTypeOK == Spec => []TypeOK
<1>1. Inv => TypeOK
  BY DEF Inv
<1>. QED  BY <1>1, InitType, StepType, PTL DEF Spec

-----------------------------------------------------------------------------
(* What the refinement assumes of the parameters.                          *)

\* d[c] bounds how often a chunk of c bytes can be made smaller.
Bounds(d) ==
    /\ d \in [Nat -> Nat]
    /\ \A c \in Nat : c > MinChunk => d[SmallerThan(c)] < d[c]

\* Two requests per size of the first chunk, one for the version and a window
\* of chunks have numbers of their own; so have the attempts at a later chunk.
NumbersSuffice(d) ==
    /\ \A c \in Chunks, w \in Windows : w + 3 + 2 * d[c] <= SeqMod
    /\ LaterAttempts <= SeqMod

Assumptions ==
    /\ Leftovers = {0}
    /\ \E d : Bounds(d) /\ NumbersSuffice(d)

Downgrades == CHOOSE d : Bounds(d) /\ NumbersSuffice(d)

-----------------------------------------------------------------------------
(* The assumptions are those of the code.                                  *)

\* With the code's u8 numbers and its MIN_CHUNK of 64 bytes, a chunk of up to
\* 654 bytes can be made smaller eight times; the default one is 128 bytes and
\* the one of --fast 432.  Windows of up to 237 chunks leave numbers for that.
LEMMA CodeParameters ==
    ASSUME SeqMod = 256, MinChunk = 64, Leftovers = {0},
           \A c \in Chunks : c <= 654, \A w \in Windows : w <= 237
    PROVE  Assumptions
<1>. DEFINE d == [c \in Nat |->
        IF c <= 64 THEN 0 ELSE IF c <= 86 THEN 1 ELSE IF c <= 115 THEN 2
        ELSE IF c <= 154 THEN 3 ELSE IF c <= 206 THEN 4 ELSE IF c <= 275 THEN 5
        ELSE IF c <= 367 THEN 6 ELSE IF c <= 490 THEN 7 ELSE IF c <= 654 THEN 8 ELSE c]
<1>1. ASSUME NEW c \in Nat, c > 64
      PROVE  SmallerThan(c) \in Nat /\ d[SmallerThan(c)] < d[c]
  <2>1. PICK q \in Nat : q = (c * 3) \div 4 /\ 4 * q <= 3 * c
    BY <1>1
  <2>2. SmallerThan(c) = IF q >= 64 THEN q ELSE 64
    BY <2>1 DEF SmallerThan
  <2>3. /\ c <= 86 => q <= 64
        /\ c <= 115 => q <= 86
        /\ c <= 154 => q <= 115
        /\ c <= 206 => q <= 154
        /\ c <= 275 => q <= 206
        /\ c <= 367 => q <= 275
        /\ c <= 490 => q <= 367
        /\ c <= 654 => q <= 490
        /\ q < c
    BY <1>1, <2>1
  <2>. QED  BY <1>1, <2>1, <2>2, <2>3
<1>2. Bounds(d)
  <2>1. d \in [Nat -> Nat]
    OBVIOUS
  <2>. HIDE DEF d
  <2>. QED  BY <1>1, <2>1 DEF Bounds
<1>3. \A c \in Chunks : d[c] \in 0..8
  BY ParameterTypes
<1>4. NumbersSuffice(d)
  <2>. HIDE DEF d
  <2>1. ASSUME NEW c \in Chunks, NEW w \in Windows PROVE w + 3 + 2 * d[c] <= SeqMod
    <3>1. w \in Nat /\ w <= 237 /\ d[c] \in 0..8
      BY <1>3, ParameterTypes
    <3>. QED  BY <3>1
  <2>2. LaterAttempts <= SeqMod
    BY DEF LaterAttempts
  <2>. QED  BY <2>1, <2>2 DEF NumbersSuffice
<1>. QED  BY <1>2, <1>4 DEF Assumptions

-----------------------------------------------------------------------------
(* The line.                                                               *)

Answered == Len(buf) + Len(notif)
N        == Answered + Len(toDev)

Line == [k \in 1..N |->
    IF k <= Len(buf) THEN buf[k]
    ELSE IF k <= Answered THEN notif[k - Len(buf)]
    ELSE toDev[k - Answered]]

\* How many requests ago a number was given out.
Age(number) == IF number < seq THEN seq - number ELSE seq + SeqMod - number

Old == [k \in 1..N |-> Age(Line[k].seq)]

\* A product the provers need not look into.
Times(a, b) == a * b

\* Frames are in the order in which they were written, no two with the same
\* number.
InOrder ==
    /\ \A k \in 1..N : Old[k] >= N + 1 - k
    /\ \A k, l \in 1..N : k < l => Old[k] > Old[l]

\* Whether the number of the next request still matters.
Live == phase \notin {"done", "failed"} /\ (up \/ Awaits)

-----------------------------------------------------------------------------
(* The invariant.                                                          *)

\* The slot holds the file up to where the device is.
PrefixStored == stored = 0..(devOff - 1)

\* Only chunks are answered with an offset.
OffsetsAnswerChunks ==
    \A k \in 1..Answered : Line[k].req.cmd # "upload" => Line[k].rsp.off = NoOff

\* Before the upload there is at most the request for the version.
BeforeUpload ==
    /\ phase = "start" => N = 0
    /\ phase = "state_wait" =>
          /\ Age(want) = 1
          /\ \A k \in 1..N : Line[k].req.cmd = "state" /\ Old[k] = 1
    /\ phase \in {"start", "state_wait"} => devOff = 0

\* There are numbers for what may still be written at this size of chunk.
NumbersLeft ==
    /\ 2 * Downgrades[chunk] + 4 <= SeqMod
    /\ phase \in {"start", "state_wait", "win"} =>
          window + 3 + 2 * Downgrades[chunk] <= SeqMod

\* A frame of the pipelined upload, which has handed over m bytes counting
\* the last chunk as a whole one: a chunk lies as many chunks below m as it is
\* old, behind what is acked and behind the chunks the stalls answered.
InWindow(k, m) ==
    \/ /\ Line[k].req = ChunkAt(Line[k].req.off) /\ Line[k].req.off < Total
       /\ Line[k].req.off + Times(Old[k], chunk) = m
       /\ Line[k].req.off >= acked + Times(noProgress, chunk)
       /\ Old[k] + noProgress <= window
    \/ /\ Line[k].req.cmd = "state"
       /\ acked = 0 /\ noProgress = 0
       /\ Times(Old[k], chunk) = m + chunk
       /\ Old[k] <= window + 1

Pipelined(m) ==
    /\ m < Total + chunk
    /\ sent = IF m < Total THEN m ELSE Total
    /\ acked + Times(noProgress, chunk) <= m
    /\ noProgress <= window
    /\ acked <= devOff /\ devOff <= sent
    /\ \A k \in 1..N : InWindow(k, m)
    /\ \A k \in 1..N : k > Answered /\ Line[k].req.cmd = "upload" => Line[k].req.off >= devOff
    /\ \A k \in 1..Answered :
          Line[k].rsp.off <= devOff /\ (Line[k].req.cmd = "upload" => Line[k].rsp.off <= Line[k].req.off + chunk)

WindowInv == phase = "win" => \E m \in Nat : Pipelined(m)

\* What the sequential loop may still add to the age of a frame before the
\* line is known to be empty.
Slack ==
    IF offset = 0 THEN 2 * Downgrades[chunk] + FirstAttempts - attempt
    ELSE LaterAttempts - attempt

\* Past the first chunk, only the chunk at offset is in the line: an answer
\* to its number has emptied it.
SequentialInv ==
    /\ phase \in {"seq", "seq_wait"} =>
          /\ attempt < MaxAttempts
          /\ offset <= devOff
          /\ offset > 0 =>
                \A k \in 1..N : k > Answered => Line[k].req.cmd = "upload" /\ Line[k].req.off = offset
    /\ phase = "seq" /\ up => \A k \in 1..N : Old[k] + Slack <= SeqMod
    /\ phase = "seq_wait" =>
          /\ Age(want) = 1
          /\ \A k \in 1..N :
                /\ Old[k] + Slack <= SeqMod + 1
                /\ Line[k].seq = want => Line[k].req = ChunkAt(offset)
                /\ Line[k].seq = want /\ k <= Answered => Line[k].rsp.off \in {NoOff, devOff}

EraseInv ==
    /\ phase = "erase" => N = 0
    /\ phase = "erase_wait" => Age(want) = 1 /\ \A k \in 1..N : Old[k] = 1

\* Nothing that could change the slot is left when the upload succeeds.
DoneInv ==
    phase = "done" =>
        /\ devOff = Total
        /\ \A k \in 1..N : k > Answered => Line[k].req.cmd = "state"

LineInv ==
    /\ PrefixStored
    /\ OffsetsAnswerChunks
    /\ Live => InOrder
    /\ BeforeUpload
    /\ NumbersLeft
    /\ WindowInv
    /\ SequentialInv
    /\ EraseInv
    /\ DoneInv

-----------------------------------------------------------------------------
(* Products and ages.                                                      *)

LEMMA TimesNext ==
    ASSUME NEW a \in Nat, NEW c \in Nat
    PROVE  /\ Times(a, c) \in Nat
           /\ Times(a + 1, c) = Times(a, c) + c
           /\ Times(0, c) = 0 /\ Times(1, c) = c
BY DEF Times

LEMMA TimesSum ==
    ASSUME NEW a \in Nat, NEW b \in Nat, NEW c \in Nat
    PROVE  Times(a + b, c) = Times(a, c) + Times(b, c)
BY DEF Times

LEMMA TimesGrows ==
    ASSUME NEW a \in Nat, NEW b \in Nat, NEW c \in Nat
    PROVE  /\ a < b => Times(a, c) + c <= Times(b, c)
           /\ Times(a, c) < Times(b, c) => a < b
<1>1. ASSUME NEW x \in Nat, NEW y \in Nat, x < y
      PROVE  Times(x, c) + c <= Times(y, c)
  <2>. DEFINE e == y - x - 1
  <2>1. e \in Nat /\ y = x + 1 + e
    BY <1>1
  <2>2. Times(y, c) = Times(x + 1, c) + Times(e, c)
    BY <2>1, TimesSum
  <2>3. Times(e, c) \in Nat /\ Times(x + 1, c) = Times(x, c) + c /\ Times(x, c) \in Nat
    BY <2>1, TimesNext
  <2>. QED  BY <2>2, <2>3
<1>2. Times(a, c) \in Nat /\ Times(b, c) \in Nat
  BY TimesNext
<1>3. b < a => Times(b, c) + c <= Times(a, c)
  BY <1>1
<1>. QED  BY <1>1, <1>2, <1>3

LEMMA AgeType ==
    ASSUME seq \in 0..(SeqMod - 1), NEW number \in 0..(SeqMod - 1)
    PROVE  Age(number) \in 1..SeqMod
BY SeqModAssumption DEF Age

-----------------------------------------------------------------------------
(* What the line is made of, and how the steps of SmpLink change it.       *)

LEMMA Lengths ==
    ASSUME LinkTypeOK
    PROVE  /\ Len(buf) \in Nat /\ Len(notif) \in Nat /\ Len(toDev) \in Nat
           /\ Answered \in Nat /\ N \in Nat
           /\ Len(buf) <= Answered /\ Answered <= N
           /\ Answered = Len(buf) + Len(notif) /\ N = Answered + Len(toDev)
<1>1. Len(buf) \in Nat /\ Len(notif) \in Nat /\ Len(toDev) \in Nat
  BY LenProperties DEF LinkTypeOK
<1>. QED  BY <1>1 DEF Answered, N

LEMMA FrameTypes ==
    ASSUME LinkTypeOK, NEW k \in 1..N
    PROVE  /\ Line[k].seq \in 0..(SeqMod - 1)
           /\ Line[k].req \in RequestBody
           /\ k <= Answered => Line[k].rsp.off \in (-1)..Total
           /\ Old[k] = Age(Line[k].seq)
           /\ Old[k] \in 1..SeqMod
<1>. USE Lengths
<1>1. CASE k <= Len(buf)
  <2>1. Line[k] = buf[k]
    BY <1>1 DEF Line
  <2>2. buf[k] \in Response
    BY <1>1, ElementOfSeq DEF LinkTypeOK
  <2>. QED  BY <1>1, <2>1, <2>2, AgeType DEF Response, ReplyBody, Old, LinkTypeOK
<1>2. CASE k > Len(buf) /\ k <= Answered
  <2>1. Line[k] = notif[k - Len(buf)]
    BY <1>2 DEF Line
  <2>2. notif[k - Len(buf)] \in Response
    BY <1>2, ElementOfSeq DEF LinkTypeOK
  <2>. QED  BY <1>2, <2>1, <2>2, AgeType DEF Response, ReplyBody, Old, LinkTypeOK
<1>3. CASE k > Answered
  <2>1. Line[k] = toDev[k - Answered]
    BY <1>3 DEF Line
  <2>2. toDev[k - Answered] \in Request
    BY <1>3, ElementOfSeq DEF LinkTypeOK
  <2>. QED  BY <1>3, <2>1, <2>2, AgeType DEF Request, Old, LinkTypeOK
<1>. QED  BY <1>1, <1>2, <1>3

\* Frames leave the line and none joins it.
Leaves(h) ==
    /\ h \in [1..N' -> 1..N]
    /\ \A k \in 1..N' :
          /\ Line'[k].seq = Line[h[k]].seq /\ Line'[k].req = Line[h[k]].req
          /\ k <= Answered' => h[k] <= Answered /\ Line'[k].rsp = Line[h[k]].rsp
          /\ k > Answered' => h[k] > Answered
          /\ N' - k <= N - h[k]
    /\ \A k, l \in 1..N' : k < l => h[k] < h[l]

Fewer == \E h : Leaves(h)

Same(f, g) == f.seq = g.seq /\ f.req = g.req /\ f.rsp = g.rsp

\* d frames leave from behind the p-th, which are all answered or all not.
LEMMA RemovedRun ==
    ASSUME LinkTypeOK, LinkTypeOK',
           NEW p \in Nat, NEW d \in Nat, p + d <= N, N' = N - d,
           \/ p + d <= Answered /\ Answered' = Answered - d
           \/ p >= Answered /\ Answered' = Answered,
           \A k \in 1..N' : /\ k <= p => Same(Line'[k], Line[k])
                            /\ k > p => Same(Line'[k], Line[k + d])
    PROVE  \E h : Leaves(h) /\ \A k \in 1..N' : k > p => h[k] > d
<1>1. Answered \in Nat /\ N \in Nat /\ Answered <= N
  BY Lengths
<1>2. PICK n : n = N'
  OBVIOUS
<1>3. PICK a : a = Answered'
  OBVIOUS
<1>. DEFINE h == [k \in 1..n |-> IF k <= p THEN k ELSE k + d]
<1>4. n \in Nat /\ a \in Nat
  BY <1>1, <1>2, <1>3
<1>5. \A k \in 1..n : h[k] = IF k <= p THEN k ELSE k + d
  OBVIOUS
<1>6. h \in [1..n -> 1..N]
  BY <1>1, <1>2, <1>4
<1>. HIDE DEF h
<1>7. ASSUME NEW k \in 1..n
      PROVE  /\ Line'[k].seq = Line[h[k]].seq /\ Line'[k].req = Line[h[k]].req
             /\ k <= a => h[k] <= Answered /\ Line'[k].rsp = Line[h[k]].rsp
             /\ k > a => h[k] > Answered
             /\ n - k <= N - h[k]
  <2>1. h[k] = IF k <= p THEN k ELSE k + d
    BY <1>5
  <2>2. Same(Line'[k], Line[h[k]])
    BY <1>2, <2>1
  <2>3. /\ k <= a => h[k] <= Answered
        /\ k > a => h[k] > Answered
        /\ n - k <= N - h[k]
    BY <1>1, <1>2, <1>3, <1>4, <2>1
  <2>. QED  BY <2>2, <2>3 DEF Same
<1>8. \A k, l \in 1..n : k < l => h[k] < h[l]
  BY <1>4, <1>5
<1>9. Leaves(h)
  BY <1>2, <1>3, <1>6, <1>7, <1>8 DEF Leaves
<1>10. \A k \in 1..n : k > p => h[k] > d
  BY <1>4, <1>5
<1>. QED  BY <1>2, <1>9, <1>10

\* What a read does to the line: the frames of a part of the assembler leave.
LEMMA TakeLeaves ==
    ASSUME LinkTypeOK, LinkTypeOK', UNCHANGED <<toDev, notif>>, buf' \in {<<>>, buf, Rest}
    PROVE  \E h : Leaves(h) /\ \A k \in 1..N' : h[k] > Len(buf) - Len(buf')
<1>. DEFINE d == Len(buf) - Len(buf')
<1>1. /\ Len(buf) \in Nat /\ Len(notif) \in Nat /\ Len(toDev) \in Nat
      /\ Answered = Len(buf) + Len(notif) /\ N = Answered + Len(toDev)
  BY Lengths
<1>2. /\ Answered' = Len(buf') + Len(notif) /\ N' = Answered' + Len(toDev)
  BY DEF Answered, N
<1>3. /\ d \in Nat /\ Len(buf') \in Nat /\ Len(buf') = Len(buf) - d
      /\ \A k \in 1..Len(buf') : buf'[k] = buf[k + d]
  <2>1. CASE buf' = <<>>
    BY <1>1, <2>1
  <2>2. CASE buf' = buf
    BY <1>1, <2>2
  <2>3. CASE buf # <<>> /\ buf' = Tail(buf)
    BY <1>1, <2>3, TailKeeps DEF LinkTypeOK
  <2>. QED  BY <2>1, <2>2, <2>3 DEF Rest
<1>. HIDE DEF d
<1>4. N' = N - d /\ Answered' = Answered - d /\ d <= Answered /\ d <= N
  BY <1>1, <1>2, <1>3
<1>5. ASSUME NEW k \in 1..N'
      PROVE  Same(Line'[k], Line[k + d])
  <2>0. PICK j \in 1..N : j = k + d
    BY <1>1, <1>3, <1>4
  <2>1. Line'[k] = IF k <= Len(buf') THEN buf'[k]
                   ELSE IF k <= Answered' THEN notif[k - Len(buf')]
                   ELSE toDev[k - Answered']
    BY DEF Line
  <2>2. Line[j] = IF j <= Len(buf) THEN buf[j]
                  ELSE IF j <= Answered THEN notif[j - Len(buf)]
                  ELSE toDev[j - Answered]
    BY DEF Line
  <2>3. /\ (k <= Len(buf')) <=> (j <= Len(buf))
        /\ (k <= Answered') <=> (j <= Answered)
        /\ k - Len(buf') = j - Len(buf)
        /\ k - Answered' = j - Answered
    BY <1>1, <1>3, <1>4, <2>0
  <2>4. k <= Len(buf') => buf'[k] = buf[j]
    BY <1>3, <2>0
  <2>5. Line'[k] = Line[j]
    BY <2>1, <2>2, <2>3, <2>4
  <2>. QED  BY <2>0, <2>5 DEF Same
<1>6. 0 \in Nat /\ 0 + d <= N /\ 0 + d <= Answered
  BY <1>1, <1>3, <1>4
<1>7. \A k \in 1..N' : ~(k <= 0) /\ k > 0
  BY <1>1, <1>3, <1>4
<1>8. \E h : Leaves(h) /\ \A k \in 1..N' : k > 0 => h[k] > d
  BY <1>3, <1>4, <1>5, <1>6, <1>7, RemovedRun
<1>. QED  BY <1>7, <1>8 DEF d

LEMMA TakeFewer ==
    ASSUME LinkTypeOK, LinkTypeOK', UNCHANGED <<toDev, notif>>, buf' \in {<<>>, buf, Rest}
    PROVE  Fewer
BY TakeLeaves DEF Fewer

\* A read of the stream moves frames within the line.
LEMMA PushFewer ==
    ASSUME LinkTypeOK, LinkTypeOK', Push
    PROVE  Fewer
<1>1. /\ Len(buf) \in Nat /\ Len(notif) \in Nat /\ Len(toDev) \in Nat
      /\ Answered \in Nat /\ N \in Nat /\ Answered <= N
  BY Lengths
<1>2. buf = <<>> /\ Len(buf) = 0 /\ UNCHANGED toDev /\ notif \in Seq(Response)
  BY DEF Push, LinkTypeOK
<1>3. PICK b \in 1..Len(notif) : /\ buf' = SubSeq(notif, 1, b)
                                 /\ notif' = SubSeq(notif, b + 1, Len(notif))
  BY DEF Push
<1>4. /\ Len(buf') = b
      /\ \A i \in 1..b : buf'[i] = notif[i]
  BY <1>1, <1>2, <1>3, SubSeqKeeps
<1>5. /\ Len(notif') = Len(notif) - b
      /\ \A i \in 1..(Len(notif) - b) : notif'[i] = notif[b + i]
  BY <1>1, <1>2, <1>3, SubSeqKeeps
<1>6. Answered' = Answered /\ N' = N /\ Answered = Len(notif)
  BY <1>1, <1>2, <1>4, <1>5 DEF Answered, N
<1>7. ASSUME NEW k \in 1..N'
      PROVE  Same(Line'[k], Line[k])
  <2>0. k \in 1..N /\ b \in Nat
    BY <1>1, <1>6
  <2>1. Line'[k] = IF k <= b THEN buf'[k]
                   ELSE IF k <= Answered THEN notif'[k - b]
                   ELSE toDev[k - Answered]
    BY <1>2, <1>4, <1>6 DEF Line
  <2>2. Line[k] = IF k <= Answered THEN notif[k] ELSE toDev[k - Answered]
    BY <1>2, <2>0 DEF Line
  <2>3. CASE k <= b
    BY <1>1, <1>4, <1>6, <2>0, <2>1, <2>2, <2>3 DEF Same
  <2>4. CASE k > b /\ k <= Answered
    <3>1. PICK i \in 1..(Len(notif) - b) : i = k - b
      BY <1>1, <1>6, <2>0, <2>4
    <3>2. notif'[i] = notif[b + i] /\ b + i = k
      BY <1>1, <1>5, <2>0, <3>1
    <3>3. ~(k <= b)
      BY <2>0, <2>4
    <3>. QED  BY <2>1, <2>2, <2>4, <3>1, <3>2, <3>3 DEF Same
  <2>5. CASE k > b /\ k > Answered
    <3>1. ~(k <= b) /\ ~(k <= Answered)
      BY <1>1, <2>0, <2>5
    <3>. QED  BY <2>1, <2>2, <3>1 DEF Same
  <2>. QED  BY <1>1, <2>0, <2>3, <2>4, <2>5
<1>8. 0 \in Nat /\ 0 + 0 <= Answered /\ 0 + 0 <= N /\ N' = N - 0 /\ Answered' = Answered - 0
  BY <1>1, <1>6
<1>9. \A k \in 1..N' : k + 0 = k
  BY <1>1, <1>6
<1>. QED  BY <1>7, <1>8, <1>9, RemovedRun DEF Fewer

\* The frame at a place in the line.
LEMMA Place ==
    ASSUME LinkTypeOK, NEW k \in 1..N
    PROVE  /\ k \in Nat
           /\ k <= Len(buf) => Line[k] = buf[k] /\ k \in 1..Len(buf)
           /\ k > Len(buf) /\ k <= Answered =>
                 Line[k] = notif[k - Len(buf)] /\ k - Len(buf) \in 1..Len(notif)
           /\ k > Answered => Line[k] = toDev[k - Answered] /\ k - Answered \in 1..Len(toDev)
<1>1. /\ Len(buf) \in Nat /\ Len(notif) \in Nat /\ Len(toDev) \in Nat
      /\ Answered \in Nat /\ N \in Nat
  BY Lengths
<1>2. k \in Nat /\ k >= 1 /\ k <= N
  BY <1>1
<1>3. CASE k <= Len(buf)
  <2>1. k <= Answered
    BY <1>1, <1>2, <1>3, Lengths
  <2>. QED  BY <1>1, <1>2, <1>3, <2>1 DEF Line
<1>4. CASE k > Len(buf) /\ k <= Answered
  <2>1. Answered = Len(buf) + Len(notif)
    BY Lengths
  <2>2. k - Len(buf) \in 1..Len(notif)
    BY <1>1, <1>2, <1>4, <2>1
  <2>3. ~(k <= Len(buf)) /\ ~(k > Answered)
    BY <1>1, <1>2, <1>4
  <2>4. Line[k] = notif[k - Len(buf)]
    BY <1>4, <2>3 DEF Line
  <2>. QED  BY <1>2, <2>2, <2>3, <2>4
<1>5. CASE k > Answered
  <2>1. N = Answered + Len(toDev) /\ Len(buf) <= Answered
    BY Lengths
  <2>2. k - Answered \in 1..Len(toDev)
    BY <1>1, <1>2, <1>5, <2>1
  <2>3. ~(k <= Len(buf)) /\ ~(k <= Answered)
    BY <1>1, <1>2, <1>5, <2>1
  <2>4. Line[k] = toDev[k - Answered]
    BY <2>3 DEF Line
  <2>. QED  BY <1>2, <2>2, <2>3, <2>4
<1>. QED  BY <1>1, <1>2, <1>3, <1>4, <1>5

LEMMA Within ==
    ASSUME NEW x \in Nat, NEW y \in Nat, NEW k \in Nat, k > x, k + 1 <= x + y
    PROVE  k - x \in 1..(y - 1) /\ (k - x) + 1 = (k + 1) - x
OBVIOUS

LEMMA LossFewer ==
    ASSUME LinkTypeOK, LinkTypeOK', LoseRequest \/ LoseResponse \/ GarbleResponse \/ DropLink
    PROVE  Fewer
<1>1. /\ Len(buf) \in Nat /\ Len(notif) \in Nat /\ Len(toDev) \in Nat
      /\ Answered \in Nat /\ N \in Nat /\ Len(buf) <= Answered /\ Answered <= N
  BY Lengths
<1>2. /\ buf \in Seq(Response) /\ notif \in Seq(Response) /\ toDev \in Seq(Request)
      /\ UNCHANGED buf
  BY DEF LinkTypeOK, LoseRequest, LoseResponse, GarbleResponse, DropLink
<1>3. ASSUME NEW k \in 1..N'
      PROVE  Line'[k] = IF k <= Len(buf) THEN buf[k]
                        ELSE IF k <= Answered' THEN notif'[k - Len(buf)]
                        ELSE toDev'[k - Answered']
  BY <1>2 DEF Line
<1>4. CASE LoseRequest
  <2>1. /\ UNCHANGED notif /\ Len(toDev') = Len(toDev) - 1 /\ Len(toDev) >= 1
        /\ \A i \in 1..(Len(toDev) - 1) : toDev'[i] = toDev[i + 1]
    BY <1>1, <1>2, <1>4, TailKeeps DEF LoseRequest
  <2>2. N = Answered + Len(toDev)
    BY Lengths
  <2>3. Answered' = Answered
    BY <1>2, <2>1 DEF Answered
  <2>4. N' = N - 1 /\ Answered + 1 <= N
    BY <1>1, <2>1, <2>2, <2>3 DEF N
  <2>5. ASSUME NEW k \in 1..N'
        PROVE  /\ k <= Answered => Same(Line'[k], Line[k])
               /\ k > Answered => Same(Line'[k], Line[k + 1])
    <3>0. k \in Nat /\ k \in 1..N /\ k + 1 \in 1..N
      BY <1>1, <2>4
    <3>1. CASE k <= Answered
      <4>1. k <= Len(buf) \/ k > Len(buf)
        BY <1>1, <3>0
      <4>2. Line'[k] = Line[k]
        BY <1>3, <2>1, <2>3, <3>0, <3>1, <4>1, Place
      <4>3. ~(k > Answered)
        BY <1>1, <3>0, <3>1
      <4>. QED  BY <4>2, <4>3 DEF Same
    <3>2. CASE k > Answered
      <4>1. PICK j \in 1..N : j = k + 1
        BY <3>0
      <4>2. PICK i \in 1..(Len(toDev) - 1) : i = k - Answered
        BY <1>1, <2>2, <2>4, <3>0, <3>2
      <4>3. toDev'[i] = toDev[i + 1] /\ i + 1 = j - Answered /\ j > Answered
        <5>1. i + 1 = j - Answered /\ j > Answered
          BY <1>1, <3>0, <3>2, <4>1, <4>2
        <5>. QED  BY <2>1, <5>1
      <4>4. ~(k <= Answered) /\ ~(k <= Len(buf))
        BY <1>1, <3>0, <3>2
      <4>5. Line'[k] = toDev'[i]
        BY <1>3, <2>3, <4>2, <4>4
      <4>6. Line[j] = toDev[i + 1]
        BY <4>1, <4>3, Place
      <4>. QED  BY <4>1, <4>3, <4>4, <4>5, <4>6 DEF Same
    <3>. QED  BY <1>1, <3>0, <3>1, <3>2
  <2>. QED  BY <1>1, <2>3, <2>4, <2>5, RemovedRun DEF Fewer
<1>5. CASE LoseResponse
  <2>1. /\ UNCHANGED toDev /\ Len(notif') = Len(notif) - 1 /\ Len(notif) >= 1
        /\ \A i \in 1..(Len(notif) - 1) : notif'[i] = notif[i + 1]
    BY <1>1, <1>2, <1>5, TailKeeps DEF LoseResponse
  <2>2. Answered = Len(buf) + Len(notif)
    BY Lengths
  <2>3. Answered' = Answered - 1 /\ Len(buf) + 1 <= Answered
    BY <1>1, <1>2, <2>1, <2>2 DEF Answered
  <2>4. N' = N - 1 /\ Len(buf) + 1 <= N
    <3>1. N = Answered + Len(toDev)
      BY Lengths
    <3>. QED  BY <1>1, <2>1, <2>3, <3>1 DEF N
  <2>5. ASSUME NEW k \in 1..N'
        PROVE  /\ k <= Len(buf) => Same(Line'[k], Line[k])
               /\ k > Len(buf) => Same(Line'[k], Line[k + 1])
    <3>0. k \in Nat /\ k \in 1..N /\ k + 1 \in 1..N
      BY <1>1, <2>4
    <3>1. CASE k <= Len(buf)
      <4>1. Line'[k] = Line[k]
        BY <1>3, <3>0, <3>1, Place
      <4>2. ~(k > Len(buf))
        BY <1>1, <3>0, <3>1
      <4>. QED  BY <4>1, <4>2 DEF Same
    <3>2. CASE k > Len(buf)
      <4>1. PICK j \in 1..N : j = k + 1
        BY <3>0
      <4>2. /\ j > Len(buf) /\ (k <= Answered' <=> j <= Answered) /\ k - Answered' = j - Answered
            /\ ~(j <= Answered) => j > Answered
        BY <1>1, <2>3, <3>0, <3>2, <4>1
      <4>3. ~(k <= Len(buf))
        BY <1>1, <3>0, <3>2
      <4>4. CASE j <= Answered
        <5>1. /\ k - Len(buf) \in 1..(Len(notif) - 1)
              /\ (k - Len(buf)) + 1 = j - Len(buf)
          BY <1>1, <2>2, <3>0, <3>2, <4>1, <4>4, Within
        <5>0. PICK i \in 1..(Len(notif) - 1) : i = k - Len(buf)
          BY <5>1
        <5>2. notif'[i] = notif[i + 1] /\ i + 1 = j - Len(buf)
          BY <2>1, <5>0, <5>1
        <5>3. Line'[k] = notif'[i]
          BY <1>3, <4>2, <4>3, <4>4, <5>0
        <5>4. Line[j] = notif[i + 1]
          BY <4>1, <4>2, <4>4, <5>2, Place
        <5>. QED  BY <4>1, <4>3, <5>2, <5>3, <5>4 DEF Same
      <4>5. CASE ~(j <= Answered)
        <5>1. Line'[k] = toDev[k - Answered']
          BY <1>3, <2>1, <4>2, <4>3, <4>5
        <5>2. Line[j] = toDev[j - Answered]
          BY <4>1, <4>2, <4>5, Place
        <5>. QED  BY <4>1, <4>2, <4>3, <5>1, <5>2 DEF Same
      <4>. QED  BY <4>4, <4>5
    <3>. QED  BY <1>1, <3>0, <3>1, <3>2
  <2>. QED  BY <1>1, <2>3, <2>4, <2>5, RemovedRun DEF Fewer
<1>6. CASE GarbleResponse
  <2>1. UNCHANGED toDev /\ notif' \in Seq(Response)
    BY <1>6 DEF GarbleResponse, LinkTypeOK
  <2>2. /\ Len(notif') = Len(notif)
        /\ \A i \in 1..Len(notif) : Same(notif'[i], notif[i])
    <3>. DEFINE e == [notif[1] EXCEPT !.ok = FALSE]
    <3>1. notif # <<>> /\ notif' = [notif EXCEPT ![1] = e]
      BY <1>6 DEF GarbleResponse
    <3>2. Len(notif) \in Nat \ {0} /\ notif[1] \in Response
      BY <1>2, <3>1, TailKeeps
    <3>3. Same(e, notif[1])
      BY <3>2 DEF Same, Response
    <3>4. e \in Response
      BY <3>2 DEF Response
    <3>. HIDE DEF e
    <3>5. Len(notif') = Len(notif)
      BY <1>2, <3>1, <3>2, <3>4, ExceptSeq
    <3>6. \A i \in 1..Len(notif) : notif'[i] = IF i = 1 THEN e ELSE notif[i]
      BY <1>2, <3>1, <3>2, <3>4, ExceptSeq
    <3>7. \A i \in 1..Len(notif) : Same(notif[i], notif[i])
      BY DEF Same
    <3>. QED  BY <3>3, <3>5, <3>6, <3>7
  <2>3. Answered' = Answered
    BY <1>2, <2>2 DEF Answered
  <2>4. N' = N
    BY <2>1, <2>3 DEF N
  <2>5. ASSUME NEW k \in 1..N'
        PROVE  Same(Line'[k], Line[k])
    <3>0. k \in Nat /\ k \in 1..N
      BY <1>1, <2>4
    <3>1. CASE k <= Len(buf)
      <4>. QED  BY <1>3, <3>0, <3>1, Place DEF Same
    <3>2. CASE k > Len(buf) /\ k <= Answered
      <4>1. ~(k <= Len(buf))
        BY <1>1, <3>0, <3>2
      <4>2. Line'[k] = notif'[k - Len(buf)]
        BY <1>3, <2>3, <3>2, <4>1
      <4>. QED  BY <2>2, <3>0, <3>2, <4>2, Place
    <3>3. CASE k > Answered
      <4>1. ~(k <= Len(buf)) /\ ~(k <= Answered)
        BY <1>1, <3>0, <3>3
      <4>2. Line'[k] = toDev[k - Answered]
        BY <1>3, <2>1, <2>3, <4>1
      <4>. QED  BY <3>0, <3>3, <4>2, Place DEF Same
    <3>. QED  BY <1>1, <3>0, <3>1, <3>2, <3>3
  <2>6. 0 \in Nat /\ 0 + 0 <= Answered /\ 0 + 0 <= N /\ N' = N - 0 /\ Answered' = Answered - 0
    BY <1>1, <2>3, <2>4
  <2>7. \A k \in 1..N' : k + 0 = k
    BY <1>1, <2>4
  <2>. QED  BY <2>5, <2>6, <2>7, RemovedRun DEF Fewer
<1>7. CASE DropLink
  <2>1. UNCHANGED notif /\ toDev' = <<>>
    BY <1>7 DEF DropLink
  <2>2. Answered' = Answered
    BY <1>2, <2>1 DEF Answered
  <2>3. N' = Answered
    BY <1>1, <2>1, <2>2 DEF N
  <2>4. N' = N - Len(toDev) /\ Answered + Len(toDev) <= N
    BY <1>1, <2>3, Lengths
  <2>5. ASSUME NEW k \in 1..N'
        PROVE  Same(Line'[k], Line[k]) /\ ~(k > Answered)
    <3>1. k \in Nat /\ k \in 1..N /\ k <= Answered /\ ~(k > Answered)
      BY <1>1, <2>3
    <3>2. k <= Len(buf) \/ (k > Len(buf) /\ ~(k <= Len(buf)))
      BY <1>1, <3>1
    <3>3. Line'[k] = Line[k]
      BY <1>3, <2>1, <2>2, <3>1, <3>2, Place
    <3>. QED  BY <3>1, <3>3 DEF Same
  <2>6. \A k \in 1..N' : /\ k <= Answered => Same(Line'[k], Line[k])
                         /\ k > Answered => Same(Line'[k], Line[k + Len(toDev)])
    BY <2>5
  <2>7. Answered >= Answered
    BY <1>1
  <2>. QED  BY <1>1, <2>2, <2>4, <2>6, <2>7, RemovedRun DEF Fewer
<1>. QED  BY <1>4, <1>5, <1>6, <1>7

\* A request takes its number, and joins the line unless the device will not
\* see it.
Joins(req) ==
    /\ up /\ up' /\ seq' = next_seq
    /\ Answered' = Answered
    /\ N' \in {N, N + 1}
    /\ \A k \in 1..N : Same(Line'[k], Line[k])
    /\ N' = N + 1 => Line'[N'].seq = seq /\ Line'[N'].req = req

LEMMA TransmitJoins ==
    ASSUME LinkTypeOK, LinkTypeOK', NEW req \in RequestBody, Transmit(req)
    PROVE  Joins(req)
<1>1. /\ Len(buf) \in Nat /\ Len(notif) \in Nat /\ Len(toDev) \in Nat
      /\ Answered \in Nat /\ N \in Nat /\ Len(buf) <= Answered /\ Answered <= N
  BY Lengths
<1>2. up /\ up' /\ seq' = next_seq /\ UNCHANGED <<notif, buf>>
  BY DEF Transmit, WriteRequest, WriteUnseen
<1>3. Answered' = Answered
  BY <1>2 DEF Answered
<1>4. ASSUME NEW k \in 1..N'
      PROVE  Line'[k] = IF k <= Len(buf) THEN buf[k]
                        ELSE IF k <= Answered THEN notif[k - Len(buf)]
                        ELSE toDev'[k - Answered]
  BY <1>2, <1>3 DEF Line
<1>5. CASE toDev' = toDev
  <2>1. N' = N
    BY <1>3, <1>5 DEF N
  <2>2. ASSUME NEW k \in 1..N
        PROVE  Same(Line'[k], Line[k])
    <3>1. Line'[k] = Line[k]
      BY <1>2, <1>3, <1>5, <2>1 DEF Line
    <3>. QED  BY <3>1 DEF Same
  <2>3. N' # N + 1
    BY <1>1, <2>1
  <2>. QED  BY <1>2, <1>3, <2>1, <2>2, <2>3 DEF Joins
<1>6. CASE toDev' # toDev
  <2>. DEFINE r == [seq |-> seq, req |-> req]
  <2>1. toDev' = Append(toDev, r) /\ r \in Request /\ toDev \in Seq(Request)
    BY <1>6 DEF Transmit, WriteRequest, WriteUnseen, LinkTypeOK, Request
  <2>2. r.seq = seq /\ r.req = req
    OBVIOUS
  <2>. HIDE DEF r
  <2>3. /\ Len(toDev') = Len(toDev) + 1
        /\ \A i \in 1..(Len(toDev) + 1) : toDev'[i] = IF i = Len(toDev) + 1 THEN r ELSE toDev[i]
    BY <2>1, AppendKeeps
  <2>4. N = Answered + Len(toDev)
    BY Lengths
  <2>5. N' = N + 1
    BY <1>1, <1>3, <2>3, <2>4 DEF N
  <2>6. ASSUME NEW k \in 1..N
        PROVE  Same(Line'[k], Line[k])
    <3>0. k \in Nat /\ k \in 1..N'
      BY <1>1, <2>5
    <3>1. CASE k <= Answered
      <4>1. k <= Len(buf) \/ (k > Len(buf) /\ ~(k <= Len(buf)))
        BY <1>1, <3>0
      <4>2. Line'[k] = Line[k]
        BY <1>4, <3>0, <3>1, <4>1, Place
      <4>. QED  BY <4>2 DEF Same
    <3>2. CASE k > Answered
      <4>1. ~(k <= Answered) /\ ~(k <= Len(buf))
        BY <1>1, <3>0, <3>2
      <4>2. PICK i \in 1..Len(toDev) : i = k - Answered
        BY <3>2, Place
      <4>3. toDev'[i] = toDev[i]
        BY <1>1, <2>3, <4>2
      <4>4. Line'[k] = toDev'[i] /\ Line[k] = toDev[i]
        BY <1>4, <3>0, <3>2, <4>1, <4>2, Place
      <4>. QED  BY <4>3, <4>4 DEF Same
    <3>. QED  BY <1>1, <3>0, <3>1, <3>2
  <2>7. Line'[N'] = r
    <3>1. PICK n \in Nat : n = N' /\ n = N + 1
      BY <1>1, <2>5
    <3>2. n \in 1..N' /\ ~(n <= Answered) /\ ~(n <= Len(buf))
      BY <1>1, <3>1
    <3>3. n - Answered = Len(toDev) + 1
      BY <1>1, <2>4, <3>1
    <3>4. Line'[n] = toDev'[n - Answered]
      BY <1>4, <3>2
    <3>. QED  BY <1>1, <2>3, <3>1, <3>3, <3>4
  <2>. QED  BY <1>2, <1>3, <2>2, <2>5, <2>6, <2>7 DEF Joins
<1>. QED  BY <1>5, <1>6

\* What is in the line gets older; what was in it is told from the request.
LEMMA JoinAges ==
    ASSUME LinkTypeOK, LinkTypeOK', NEW req, Joins(req), \A k \in 1..N : Old[k] < SeqMod
    PROVE  /\ \A k \in 1..N : Old'[k] = Old[k] + 1 /\ Line[k].seq # seq
           /\ N' = N + 1 => Old'[N'] = 1
           /\ want' = seq => Age(want)' = 1
<1>1. /\ seq \in 0..(SeqMod - 1) /\ seq' = next_seq /\ SeqMod \in Nat \ {0}
      /\ N' \in {N, N + 1} /\ N \in Nat
  BY SeqModAssumption, Lengths DEF LinkTypeOK, Joins
<1>2. ASSUME NEW k \in 1..N
      PROVE  Old'[k] = Old[k] + 1 /\ Line[k].seq # seq
  <2>1. PICK number \in 0..(SeqMod - 1) : number = Line[k].seq
    BY FrameTypes
  <2>2. Line'[k].seq = number
    BY <2>1 DEF Joins, Same
  <2>3. k \in 1..N'
    BY <1>1
  <2>4. Old[k] = IF number < seq THEN seq - number ELSE seq + SeqMod - number
    BY <2>1 DEF Old, Age
  <2>5. Old'[k] = IF number < seq' THEN seq' - number ELSE seq' + SeqMod - number
    BY <2>2, <2>3 DEF Old, Age
  <2>6. Old[k] < SeqMod
    OBVIOUS
  <2>. QED  BY <1>1, <2>1, <2>4, <2>5, <2>6 DEF next_seq
<1>3. ASSUME N' = N + 1 PROVE Old'[N'] = 1
  <2>1. N' \in 1..N' /\ Line'[N'].seq = seq
    BY <1>1, <1>3 DEF Joins
  <2>2. Old'[N'] = IF seq < seq' THEN seq' - seq ELSE seq' + SeqMod - seq
    BY <2>1 DEF Old, Age
  <2>. QED  BY <1>1, <2>2 DEF next_seq
<1>4. want' = seq => Age(want)' = 1
  BY <1>1 DEF Age, next_seq
<1>. QED  BY <1>2, <1>3, <1>4

\* The first request of the line becomes an answer, where it is.
Answers(rsp) ==
    /\ UNCHANGED <<seq, up>>
    /\ N' = N /\ Answered' = Answered + 1 /\ Answered + 1 \in 1..N
    /\ Line[Answered + 1].req = Served
    /\ Line'[Answered + 1].rsp = rsp
    /\ \A k \in 1..N :
          /\ Line'[k].seq = Line[k].seq /\ Line'[k].req = Line[k].req
          /\ k <= Answered => Line'[k].rsp = Line[k].rsp

LEMMA AnswerAnswers ==
    ASSUME LinkTypeOK, LinkTypeOK', NEW rsp \in ReplyBody, Answer(rsp)
    PROVE  Answers(rsp)
<1>1. /\ Len(buf) \in Nat /\ Len(notif) \in Nat /\ Len(toDev) \in Nat
      /\ Answered \in Nat /\ N \in Nat /\ Len(buf) <= Answered /\ Answered <= N
  BY Lengths
<1>2. UNCHANGED <<seq, buf, up>>
  BY DEF Answer
<1>3. /\ Len(toDev') = Len(toDev) - 1 /\ Len(toDev) >= 1 /\ Head(toDev) = toDev[1]
      /\ \A i \in 1..(Len(toDev) - 1) : toDev'[i] = toDev[i + 1]
      /\ Head(toDev) \in Request
  BY <1>1, TailKeeps DEF Answer, LinkTypeOK
<1>. DEFINE f == [seq |-> Head(toDev).seq, ok |-> TRUE,
                  req |-> Head(toDev).req, rsp |-> rsp]
<1>4. notif' = Append(notif, f) /\ f \in Response /\ notif \in Seq(Response)
  BY <1>3 DEF Answer, LinkTypeOK, Request, Response
<1>5. f.seq = toDev[1].seq /\ f.req = toDev[1].req /\ f.req = Served /\ f.rsp = rsp
  BY <1>3 DEF Served
<1>. HIDE DEF f
<1>6. /\ Len(notif') = Len(notif) + 1
      /\ \A i \in 1..(Len(notif) + 1) : notif'[i] = IF i = Len(notif) + 1 THEN f ELSE notif[i]
  BY <1>4, AppendKeeps
<1>7. N = Answered + Len(toDev) /\ Answered + 1 \in 1..N
  <2>1. N = Answered + Len(toDev)
    BY Lengths
  <2>. QED  BY <1>1, <1>3, <2>1
<1>8. Answered = Len(buf) + Len(notif) /\ Answered' = Answered + 1
  <2>1. Answered = Len(buf) + Len(notif)
    BY Lengths
  <2>. QED  BY <1>1, <1>2, <1>6, <2>1 DEF Answered
<1>9. N' = N
  BY <1>1, <1>3, <1>7, <1>8 DEF N
<1>10. ASSUME NEW k \in 1..N
       PROVE  Line'[k] = IF k <= Len(buf) THEN buf[k]
                         ELSE IF k <= Answered + 1 THEN notif'[k - Len(buf)]
                         ELSE toDev'[k - (Answered + 1)]
  BY <1>2, <1>8, <1>9 DEF Line
<1>11. PICK a \in 1..N : a = Answered + 1
  BY <1>7
<1>12. Line'[a] = f /\ Line[a] = toDev[1]
  <2>1. a > Answered /\ a - Answered = 1 /\ ~(a <= Len(buf)) /\ a <= Answered + 1
    BY <1>1, <1>11
  <2>2. a - Len(buf) = Len(notif) + 1
    BY <1>1, <1>8, <1>11
  <2>3. Line'[a] = notif'[a - Len(buf)]
    BY <1>10, <2>1
  <2>4. Line[a] = toDev[a - Answered]
    BY <2>1, Place
  <2>. QED  BY <1>1, <1>6, <2>1, <2>2, <2>3, <2>4
<1>13. ASSUME NEW k \in 1..N, k # a
       PROVE  Line'[k] = Line[k]
  <2>0. k \in Nat
    BY <1>1
  <2>1. CASE k <= Len(buf)
    BY <1>10, <2>1, Place
  <2>2. CASE k > Len(buf) /\ k <= Answered
    <3>1. ~(k <= Len(buf)) /\ k <= Answered + 1
      BY <1>1, <2>0, <2>2
    <3>2. PICK i \in 1..Len(notif) : i = k - Len(buf)
      BY <2>2, Place
    <3>3. notif'[i] = notif[i]
      BY <1>1, <1>6, <3>2
    <3>. QED  BY <1>10, <2>2, <3>1, <3>2, <3>3, Place
  <2>3. CASE k > Answered
    <3>1. ~(k <= Len(buf)) /\ ~(k <= Answered + 1) /\ k > Answered + 1
      BY <1>1, <1>11, <1>13, <2>0, <2>3
    <3>2. /\ k - (Answered + 1) \in 1..(Len(toDev) - 1)
          /\ (k - (Answered + 1)) + 1 = k - Answered
      BY <1>1, <1>7, <2>0, <3>1
    <3>3. PICK i \in 1..(Len(toDev) - 1) : i = k - (Answered + 1) /\ i + 1 = k - Answered
      BY <3>2
    <3>4. toDev'[i] = toDev[i + 1]
      BY <1>3
    <3>5. Line'[k] = toDev'[i]
      BY <1>10, <3>1, <3>3
    <3>. QED  BY <2>3, <3>3, <3>4, <3>5, Place
  <2>. QED  BY <1>1, <2>0, <2>1, <2>2, <2>3
<1>14. ~(a <= Answered)
  BY <1>1, <1>11
<1>15. ASSUME NEW k \in 1..N
       PROVE  /\ Line'[k].seq = Line[k].seq /\ Line'[k].req = Line[k].req
              /\ k <= Answered => Line'[k].rsp = Line[k].rsp
  <2>1. CASE k = a
    BY <1>5, <1>12, <1>14, <2>1
  <2>2. CASE k # a
    BY <1>13, <2>2
  <2>. QED  BY <2>1, <2>2
<1>16. Line[Answered + 1].req = Served /\ Line'[Answered + 1].rsp = rsp
  BY <1>3, <1>5, <1>11, <1>12 DEF Served
<1>. QED  BY <1>2, <1>7, <1>8, <1>9, <1>15, <1>16 DEF Answers

-----------------------------------------------------------------------------
(* What losing frames keeps.                                               *)

LEMMA DowngradesLeft ==
    ASSUME Assumptions
    PROVE  /\ Leftovers = {0}
           /\ Bounds(Downgrades) /\ NumbersSuffice(Downgrades)
           /\ Downgrades \in [Nat -> Nat]
BY DEF Assumptions, Downgrades, Bounds

\* The frames of a step that loses some, with the indexes typed.
LEMMA NewLengths ==
    ASSUME LinkTypeOK'
    PROVE  N' \in Nat /\ Answered' \in Nat /\ Answered' <= N'
<1>1. Len(buf') \in Nat /\ Len(notif') \in Nat /\ Len(toDev') \in Nat
  BY LenProperties DEF LinkTypeOK
<1>. QED  BY <1>1 DEF N, Answered

\* The variables the arithmetic is about.
LEMMA Numbers ==
    ASSUME Inv
    PROVE  /\ LinkTypeOK
           /\ SeqMod \in Nat \ {0} /\ Total \in Nat \ {0}
           /\ chunk \in Nat \ {0} /\ window \in Nat \ {0}
           /\ devOff \in 0..Total /\ offset \in 0..Total
           /\ sent \in 0..Total /\ acked \in 0..Total /\ noProgress \in Nat
           /\ attempt \in 0..(LaterAttempts - 1)
           /\ N \in Nat /\ Answered \in Nat /\ Answered <= N
BY ParameterTypes, Lengths DEF Inv, TypeOK, DeviceTypeOK, TuningTypeOK, LoopsTypeOK

LEMMA LeavesOld ==
    ASSUME LinkTypeOK, LinkTypeOK', NEW h, Leaves(h), seq' = seq
    PROVE  \A k \in 1..N' : h[k] \in 1..N /\ Old'[k] = Old[h[k]]
<1>. SUFFICES ASSUME NEW k \in 1..N'
              PROVE  h[k] \in 1..N /\ Old'[k] = Old[h[k]]
  OBVIOUS
<1>1. h[k] \in 1..N /\ Line'[k].seq = Line[h[k]].seq
  BY DEF Leaves
<1>2. Old[h[k]] = Age(Line[h[k]].seq)
  BY <1>1, FrameTypes
<1>3. Old'[k] = Age(Line[k].seq)'
  BY DEF Old
<1>. QED  BY <1>1, <1>2, <1>3 DEF Age

LEMMA LeavesInOrder ==
    ASSUME LinkTypeOK, LinkTypeOK', NEW h, Leaves(h), seq' = seq, InOrder
    PROVE  InOrder'
<1>1. /\ N \in Nat /\ N' \in Nat
  <2>1. Len(buf') \in Nat /\ Len(notif') \in Nat /\ Len(toDev') \in Nat
    BY LenProperties DEF LinkTypeOK
  <2>. QED  BY <2>1, Lengths DEF N, Answered
<1>2. \A k \in 1..N' : h[k] \in 1..N /\ Old'[k] = Old[h[k]]
  BY LeavesOld
<1>3. \A k \in 1..N : Old[k] \in Nat
  BY FrameTypes, SeqModAssumption
<1>4. ASSUME NEW k \in 1..N'
      PROVE  Old'[k] >= N' + 1 - k
  <2>1. N' - k <= N - h[k] /\ Old[h[k]] >= N + 1 - h[k]
    BY <1>2 DEF Leaves, InOrder
  <2>2. k \in Int /\ h[k] \in Int /\ Old[h[k]] \in Int /\ Old'[k] = Old[h[k]]
    BY <1>1, <1>2, <1>3
  <2>. QED  BY <1>1, <2>1, <2>2
<1>5. ASSUME NEW k \in 1..N', NEW l \in 1..N', k < l
      PROVE  Old'[k] > Old'[l]
  <2>1. h[k] < h[l]
    BY <1>5 DEF Leaves
  <2>. QED  BY <1>2, <2>1 DEF InOrder
<1>. QED  BY <1>4, <1>5 DEF InOrder

LEMMA LeavesOffsets ==
    ASSUME LinkTypeOK, LinkTypeOK', NEW h, Leaves(h), OffsetsAnswerChunks
    PROVE  OffsetsAnswerChunks'
<1>1. Answered' \in Nat /\ N' \in Nat /\ Answered' <= N' /\ N \in Nat /\ Answered \in Nat
  <2>1. Len(buf') \in Nat /\ Len(notif') \in Nat /\ Len(toDev') \in Nat
    BY LenProperties DEF LinkTypeOK
  <2>. QED  BY <2>1, Lengths DEF N, Answered
<1>2. ASSUME NEW k \in 1..Answered', Line'[k].req.cmd # "upload"
      PROVE  Line'[k].rsp.off = NoOff
  <2>1. k \in 1..N' /\ k <= Answered'
    BY <1>1
  <2>2. h[k] \in 1..N /\ h[k] <= Answered
        /\ Line'[k].req = Line[h[k]].req /\ Line'[k].rsp = Line[h[k]].rsp
    BY <2>1 DEF Leaves
  <2>3. h[k] \in 1..Answered
    BY <1>1, <2>2
  <2>. QED  BY <1>2, <2>2, <2>3 DEF OffsetsAnswerChunks
<1>. QED  BY <1>2 DEF OffsetsAnswerChunks, NoOff

LEMMA SameChunks ==
    ASSUME UNCHANGED chunk, NEW off
    PROVE  ChunkAt(off)' = ChunkAt(off) /\ ChunkAt(off).cmd = "upload"
BY DEF ChunkAt

\* The frames that are left fit what is acked and the stalls that are counted
\* after the step.
LEMMA LeavesPipelined ==
    ASSUME Inv, Inv', NEW h, Leaves(h), UNCHANGED <<seq, devOff, chunk, window, sent>>,
           NEW m \in Nat, Pipelined(m),
           acked' <= devOff, noProgress' <= window, acked' + Times(noProgress', chunk) <= m,
           \A k \in 1..N' :
              /\ Line[h[k]].req.cmd = "upload" =>
                    /\ Line[h[k]].req.off >= acked' + Times(noProgress', chunk)
                    /\ Old[h[k]] + noProgress' <= window
              /\ Line[h[k]].req.cmd = "state" => acked' = 0 /\ noProgress' = 0
    PROVE  Pipelined(m)'
<1>1. LinkTypeOK /\ LinkTypeOK'
  BY DEF Inv, TypeOK
<1>2. /\ Answered' \in Nat /\ N' \in Nat /\ Answered' <= N' /\ N \in Nat /\ Answered \in Nat
  <2>1. Len(buf') \in Nat /\ Len(notif') \in Nat /\ Len(toDev') \in Nat
    BY <1>1, LenProperties DEF LinkTypeOK
  <2>. QED  BY <1>1, <2>1, Lengths DEF N, Answered
<1>3. \A k \in 1..N' :
         /\ h[k] \in 1..N /\ Old'[k] = Old[h[k]] /\ Line'[k].req = Line[h[k]].req
         /\ k <= Answered' => h[k] <= Answered /\ Line'[k].rsp = Line[h[k]].rsp
         /\ k > Answered' => h[k] > Answered
  BY <1>1, LeavesOld DEF Leaves
<1>4. ASSUME NEW k \in 1..N'
      PROVE  InWindow(k, m)'
  <2>1. PICK j \in 1..N : j = h[k]
    BY <1>3
  <2>2. InWindow(j, m)
    BY DEF Pipelined
  <2>3. CASE Line[j].req = ChunkAt(Line[j].req.off)
    <3>1. Line[j].req.cmd = "upload" /\ Line[j].req.cmd # "state"
      BY <2>3, SameChunks
    <3>2. /\ Line[j].req.off < Total
          /\ Line[j].req.off + Times(Old[j], chunk) = m
      BY <2>2, <3>1 DEF InWindow
    <3>. QED  BY <1>3, <2>1, <2>3, <3>1, <3>2, SameChunks DEF InWindow
  <2>4. CASE Line[j].req # ChunkAt(Line[j].req.off)
    <3>1. /\ Line[j].req.cmd = "state" /\ Times(Old[j], chunk) = m + chunk
          /\ Old[j] <= window + 1
      BY <2>2, <2>4 DEF InWindow
    <3>. QED  BY <1>3, <2>1, <3>1 DEF InWindow
  <2>. QED  BY <2>3, <2>4
<1>5. \A k \in 1..N' : k > Answered' /\ Line'[k].req.cmd = "upload" => Line'[k].req.off >= devOff'
  BY <1>3 DEF Pipelined
<1>6. ASSUME NEW k \in 1..Answered'
      PROVE  /\ Line'[k].rsp.off <= devOff'
             /\ Line'[k].req.cmd = "upload" => Line'[k].rsp.off <= Line'[k].req.off + chunk'
  <2>1. k \in 1..N' /\ k <= Answered'
    BY <1>2
  <2>2. PICK j \in 1..N : j = h[k] /\ j <= Answered /\ Line'[k].req = Line[j].req /\ Line'[k].rsp = Line[j].rsp
    BY <1>3, <2>1
  <2>3. j \in 1..Answered
    BY <1>2, <2>2
  <2>. QED  BY <2>2, <2>3 DEF Pipelined
<1>7. /\ m < Total + chunk' /\ sent' = (IF m < Total THEN m ELSE Total)
      /\ acked' + Times(noProgress', chunk') <= m /\ noProgress' <= window'
      /\ acked' <= devOff' /\ devOff' <= sent'
  BY DEF Pipelined
<1>. QED  BY <1>4, <1>5, <1>6, <1>7 DEF Pipelined

\* A step that only loses frames.
LEMMA FewerKeeps ==
    ASSUME Assumptions, Inv, Inv', LineInv, Fewer, seq' = seq, up' => up,
           UNCHANGED <<device, host>>
    PROVE  LineInv'
<1>1. LinkTypeOK /\ LinkTypeOK'
  BY DEF Inv, TypeOK
<1>2. PICK h : Leaves(h)
  BY DEF Fewer
<1>3. /\ UNCHANGED <<phase, want, chunk, window, erased, offset, attempt, stalls>>
      /\ UNCHANGED <<sent, acked, noProgress, totalStalls>>
      /\ UNCHANGED <<devOff, stored, slot, mtu>>
  BY DEF host, device, tuning, seqVars, winVars
<1>4. \A k \in 1..N' :
         /\ h[k] \in 1..N /\ Old'[k] = Old[h[k]]
         /\ Line'[k].seq = Line[h[k]].seq /\ Line'[k].req = Line[h[k]].req
         /\ k <= Answered' => h[k] <= Answered /\ Line'[k].rsp = Line[h[k]].rsp
         /\ k > Answered' => h[k] > Answered
  BY <1>1, <1>2, LeavesOld DEF Leaves
<1>5. N' \in Nat /\ (N = 0 => N' = 0)
  <2>1. Len(buf') \in Nat /\ Len(notif') \in Nat /\ Len(toDev') \in Nat
    BY <1>1, LenProperties DEF LinkTypeOK
  <2>2. N' \in Nat
    BY <2>1 DEF N, Answered
  <2>3. N = 0 /\ N' # 0 => 1 \in 1..N' /\ h[1] \in 1..0
    BY <1>4, <2>2
  <2>. QED  BY <2>2, <2>3
<1>6. Age(want)' = Age(want)
  BY <1>3 DEF Age
<1>7. PrefixStored' /\ OffsetsAnswerChunks' /\ NumbersLeft'
  BY <1>1, <1>2, <1>3, LeavesOffsets DEF LineInv, PrefixStored, NumbersLeft
<1>8. (Live => InOrder)'
  BY <1>1, <1>2, <1>3, LeavesInOrder DEF LineInv, Live, Awaits, AwaitsNumber
<1>9. BeforeUpload'
  BY <1>3, <1>4, <1>5, <1>6 DEF LineInv, BeforeUpload
<1>10. EraseInv'
  BY <1>3, <1>4, <1>5, <1>6 DEF LineInv, EraseInv
<1>11. DoneInv'
  BY <1>3, <1>4 DEF LineInv, DoneInv
<1>12. SequentialInv'
  <2>1. Slack' = Slack /\ MaxAttempts' = MaxAttempts /\ \A off : ChunkAt(off)' = ChunkAt(off)
    BY <1>3 DEF Slack, MaxAttempts, ChunkAt
  <2>. QED  BY <1>3, <1>4, <1>6, <2>1 DEF LineInv, SequentialInv
<1>13. WindowInv'
  <2>1. SUFFICES ASSUME phase = "win" PROVE \E m \in Nat : Pipelined(m)'
    BY <1>3 DEF WindowInv
  <2>2. PICK m \in Nat : Pipelined(m)
    BY <2>1 DEF LineInv, WindowInv
  <2>3. ASSUME NEW k \in 1..N'
        PROVE  /\ Line[h[k]].req.cmd = "upload" =>
                    /\ Line[h[k]].req.off >= acked' + Times(noProgress', chunk)
                    /\ Old[h[k]] + noProgress' <= window
               /\ Line[h[k]].req.cmd = "state" => acked' = 0 /\ noProgress' = 0
    <3>1. PICK j \in 1..N : j = h[k]
      BY <1>4
    <3>2. InWindow(j, m)
      BY <2>2 DEF Pipelined
    <3>. QED  BY <1>3, <3>1, <3>2 DEF InWindow, ChunkAt
  <2>4. acked' <= devOff /\ noProgress' <= window /\ acked' + Times(noProgress', chunk) <= m
    BY <1>3, <2>2 DEF Pipelined
  <2>. QED  BY <1>2, <1>3, <2>2, <2>3, <2>4, LeavesPipelined
<1>. QED
  BY <1>7, <1>8, <1>9, <1>10, <1>11, <1>12, <1>13 DEF LineInv

-----------------------------------------------------------------------------
(* The start.                                                              *)

LEMMA SumPositive ==
    ASSUME NEW a \in Nat, NEW b \in Nat, a > 0
    PROVE  0 < a + b
OBVIOUS

\* A pipeline that starts over an empty line, or behind the request for the
\* version.
LEMMA PipelineStarts ==
    ASSUME Inv, Inv', devOff' = 0, phase' = "win",
           WindowedFromZero, OffsetsAnswerChunks',
           \A k \in 1..N' : Line'[k].req.cmd = "state" /\ Old'[k] = 1
    PROVE  WindowInv'
<1>1. /\ N' \in Nat /\ Answered' \in Nat /\ Answered' <= N'
  BY NewLengths DEF Inv, TypeOK
<1>2. /\ chunk' \in Nat \ {0} /\ window' \in Nat \ {0} /\ Total \in Nat \ {0}
      /\ sent' = 0 /\ acked' = 0 /\ noProgress' = 0
  BY ParameterTypes DEF Inv, TypeOK, TuningTypeOK, WindowedFromZero
<1>3. Times(0, chunk') = 0 /\ Times(1, chunk') = chunk'
  BY <1>2, TimesNext
<1>4. \A k \in 1..N' : InWindow(k, 0)'
  BY <1>2, <1>3 DEF InWindow
<1>5. \A k \in 1..Answered' : Line'[k].rsp.off = -1 /\ Line'[k].req.cmd = "state"
  <2>. TAKE k \in 1..Answered'
  <2>1. k \in 1..N'
    BY <1>1
  <2>. QED  BY <2>1 DEF OffsetsAnswerChunks, NoOff
<1>6. Pipelined(0)'
  <2>1. /\ 0 < Total + chunk' /\ sent' = (IF 0 < Total THEN 0 ELSE Total)
        /\ noProgress' <= window' /\ acked' <= devOff' /\ devOff' <= sent'
    <3>1. 0 < Total + chunk'
      <4>1. chunk' \in Nat /\ Total \in Nat /\ Total > 0
        BY <1>2
      <4>. QED  BY <4>1, SumPositive
    <3>2. sent' = IF 0 < Total THEN 0 ELSE Total
      BY <1>2
    <3>3. noProgress' <= window'
      BY <1>2
    <3>4. acked' <= devOff' /\ devOff' <= sent'
      BY <1>2
    <3>. QED  BY <3>1, <3>2, <3>3, <3>4
  <2>4. acked' + Times(noProgress', chunk') <= 0
    <3>1. Times(noProgress', chunk') = 0
      BY <1>2, <1>3
    <3>. QED  BY <1>2, <3>1
  <2>2. \A k \in 1..N' : Line'[k].req.cmd # "upload"
    OBVIOUS
  <2>3. \A k \in 1..Answered' : Line'[k].rsp.off <= devOff' /\ Line'[k].req.cmd # "upload"
    BY <1>5
  <2>. QED  BY <1>4, <2>1, <2>2, <2>3, <2>4 DEF Pipelined
<1>. QED  BY <1>6 DEF WindowInv

LEMMA EnterKeeps ==
    ASSUME Assumptions, Inv, Inv', LineInv, phase \in {"start", "state_wait"},
           EnterLoop, Fewer, phase = "state_wait" => seq' = seq,
           UNCHANGED <<device, want, tuning>>
    PROVE  LineInv'
<1>1. LinkTypeOK /\ LinkTypeOK' /\ N' \in Nat
  BY NewLengths DEF Inv, TypeOK
<1>2. PICK h : Leaves(h)
  BY DEF Fewer
<1>3. /\ UNCHANGED <<want, chunk, window, erased, devOff, stored>>
      /\ chunk \in Nat \ {0}
  BY Numbers DEF device, tuning
<1>4. ASSUME NEW k \in 1..N'
      PROVE  phase = "state_wait" /\ Line'[k].req.cmd = "state" /\ Old'[k] = 1
  <2>1. h[k] \in 1..N /\ Line'[k].req = Line[h[k]].req
    BY <1>2 DEF Leaves
  <2>2. N # 0
    BY <2>1
  <2>3. phase = "state_wait"
    BY <2>2 DEF LineInv, BeforeUpload
  <2>4. Old'[k] = Old[h[k]]
    BY <1>1, <1>2, <2>3, LeavesOld
  <2>. QED  BY <2>1, <2>3, <2>4 DEF LineInv, BeforeUpload
<1>5. devOff = 0
  BY DEF LineInv, BeforeUpload
<1>6. PrefixStored' /\ OffsetsAnswerChunks'
  BY <1>1, <1>2, <1>3, LeavesOffsets DEF LineInv, PrefixStored
<1>7. InOrder'
  <2>1. CASE phase = "state_wait"
    <3>1. InOrder
      BY <2>1 DEF LineInv, Live, Awaits, AwaitsNumber
    <3>. QED  BY <1>1, <1>2, <2>1, <3>1, LeavesInOrder
  <2>2. CASE phase = "start"
    <3>1. \A k \in 1..N' : FALSE
      BY <1>4, <2>2
    <3>. QED  BY <3>1 DEF InOrder
  <2>. QED  BY <2>1, <2>2
<1>8. 2 * Downgrades[chunk] + 4 <= SeqMod /\ window + 3 + 2 * Downgrades[chunk] <= SeqMod
      /\ Downgrades[chunk] \in Nat
  BY <1>3, DowngradesLeft DEF LineInv, NumbersLeft
<1>9. NumbersLeft'
  BY <1>3, <1>8 DEF NumbersLeft
<1>10. phase' \in {"win", "seq"}
  BY DEF EnterLoop, WindowedFromZero, SequentialFromZero
<1>11. BeforeUpload' /\ EraseInv' /\ DoneInv'
  BY <1>10 DEF BeforeUpload, EraseInv, DoneInv
<1>12. WindowInv'
  <2>1. CASE phase' = "win"
    <3>1. WindowedFromZero
      BY <2>1 DEF EnterLoop, SequentialFromZero
    <3>. QED  BY <1>3, <1>4, <1>5, <1>6, <2>1, <3>1, PipelineStarts
  <2>2. CASE phase' # "win"
    BY <2>2 DEF WindowInv
  <2>. QED  BY <2>1, <2>2
<1>13. SequentialInv'
  <2>1. CASE phase' = "seq"
    <3>1. offset' = 0 /\ attempt' = 0
      BY <2>1 DEF EnterLoop, SequentialFromZero, WindowedFromZero
    <3>2. Slack' = 2 * Downgrades[chunk] + 2 /\ MaxAttempts' = 2
      BY <1>3, <1>8, <3>1 DEF Slack, MaxAttempts, FirstAttempts
    <3>3. \A k \in 1..N' : Old'[k] + Slack' <= SeqMod
      BY <1>4, <1>8, <3>2, SeqModAssumption
    <3>4. offset' <= devOff' /\ attempt' < MaxAttempts' /\ ~(offset' > 0)
      BY <1>3, <1>5, <3>1, <3>2
    <3>. QED  BY <2>1, <3>3, <3>4 DEF SequentialInv
  <2>2. CASE phase' # "seq"
    BY <1>10, <2>2 DEF SequentialInv
  <2>. QED  BY <2>1, <2>2
<1>. QED
  BY <1>6, <1>7, <1>9, <1>11, <1>12, <1>13 DEF LineInv

-----------------------------------------------------------------------------
(* The pipelined upload.                                                   *)

\* A frame of the pipelined upload is a chunk or the request for the version.
LEMMA WindowFrames ==
    ASSUME Inv, NEW m, Pipelined(m), NEW k \in 1..N
    PROVE  /\ Old[k] \in Nat \ {0} /\ Old[k] <= window + 1
           /\ Times(Old[k], chunk) \in Nat
           /\ \/ /\ Line[k].req = ChunkAt(Line[k].req.off) /\ Line[k].req.cmd = "upload"
                 /\ Line[k].req.off \in 0..Total /\ Line[k].req.off < Total
                 /\ Line[k].req.off + Times(Old[k], chunk) = m
                 /\ Line[k].req.off >= acked + Times(noProgress, chunk)
                 /\ Old[k] + noProgress <= window
              \/ /\ Line[k].req.cmd = "state"
                 /\ acked = 0 /\ noProgress = 0
                 /\ Times(Old[k], chunk) = m + chunk
                 /\ Old[k] <= window + 1
<1>1. InWindow(k, m)
  BY DEF Pipelined
<1>2. /\ Old[k] \in Nat \ {0} /\ Line[k].req.off \in 0..Total
      /\ chunk \in Nat \ {0} /\ window \in Nat /\ noProgress \in Nat
  <2>1. Old[k] \in 1..SeqMod /\ Line[k].req \in RequestBody
    BY Numbers, FrameTypes
  <2>. QED  BY <2>1, Numbers DEF RequestBody
<1>3. Times(Old[k], chunk) \in Nat
  BY <1>2, TimesNext
<1>4. CASE Line[k].req = ChunkAt(Line[k].req.off)
  <2>1. Line[k].req.cmd = "upload" /\ Line[k].req.cmd # "state"
    BY <1>4 DEF ChunkAt
  <2>2. /\ Line[k].req.off < Total
        /\ Line[k].req.off + Times(Old[k], chunk) = m
        /\ Line[k].req.off >= acked + Times(noProgress, chunk)
        /\ Old[k] + noProgress <= window
    BY <1>1, <2>1 DEF InWindow
  <2>3. Old[k] <= window + 1
    BY <1>2, <2>2
  <2>. QED  BY <1>2, <1>3, <1>4, <2>1, <2>2, <2>3
<1>5. CASE Line[k].req # ChunkAt(Line[k].req.off)
  BY <1>1, <1>2, <1>3, <1>5 DEF InWindow
<1>. QED  BY <1>4, <1>5

LEMMA WinSendKeeps ==
    ASSUME Assumptions, Inv, Inv', LineInv, WinSend
    PROVE  LineInv'
<1>1. /\ phase = "win" /\ phase' = "win" /\ sent < Total /\ Unacked < window * chunk
      /\ Transmit(ChunkAt(sent)) /\ sent' = sent + ChunkAt(sent).len
      /\ UNCHANGED <<devOff, stored, want, chunk, window, erased, offset, attempt, acked,
                     noProgress>>
  BY DEF WinSend, CanSend, device, tuning, seqVars
<1>2. /\ LinkTypeOK /\ LinkTypeOK' /\ SeqMod \in Nat \ {0} /\ Total \in Nat \ {0}
      /\ chunk \in Nat \ {0} /\ window \in Nat \ {0}
      /\ devOff \in 0..Total /\ sent \in 0..Total /\ acked \in 0..Total /\ noProgress \in Nat
      /\ N \in Nat /\ Answered \in Nat /\ Answered <= N
      /\ N' \in Nat /\ Answered' \in Nat /\ Answered' <= N'
  BY Numbers, NewLengths DEF Inv, TypeOK
<1>3. PICK m \in Nat : Pipelined(m)
  BY <1>1 DEF LineInv, WindowInv
<1>4. sent = m /\ m < Total /\ acked <= m /\ devOff <= m
  BY <1>1, <1>2, <1>3 DEF Pipelined
<1>5. m - acked < Times(window, chunk) /\ Times(window, chunk) \in Nat
  <2>1. Unacked = m - acked
    BY <1>2, <1>4 DEF Unacked
  <2>. QED  BY <1>1, <1>2, <2>1 DEF Times
<1>6. Joins(ChunkAt(sent))
  <2>1. ChunkAt(sent) \in RequestBody
    BY <1>1, <1>2, ChunkType
  <2>. QED  BY <1>1, <1>2, <2>1, TransmitJoins
<1>7. \A k \in 1..N : Old[k] < SeqMod
  <2>1. window + 3 + 2 * Downgrades[chunk] <= SeqMod /\ Downgrades[chunk] \in Nat
    BY <1>1, <1>2, DowngradesLeft DEF LineInv, NumbersLeft
  <2>. TAKE k \in 1..N
  <2>2. Old[k] \in Nat /\ Old[k] <= window + 1
    BY <1>3, WindowFrames
  <2>. QED  BY <1>2, <2>1, <2>2
<1>8. /\ \A k \in 1..N : Old'[k] = Old[k] + 1 /\ Line'[k].req = Line[k].req /\ Line'[k].rsp = Line[k].rsp
      /\ N' = N + 1 => Old'[N'] = 1 /\ Line'[N'].req = ChunkAt(sent)
      /\ Answered' = Answered /\ N' \in {N, N + 1}
  BY <1>2, <1>6, <1>7, JoinAges DEF Joins, Same
<1>9. \A k \in 1..N' : k \in 1..N \/ (k = N' /\ N' = N + 1)
  BY <1>2, <1>8
<1>10. InOrder
  BY <1>1 DEF LineInv, Live, Awaits
<1>11. InOrder'
  <2>1. \A k \in 1..N : Old[k] \in Nat \ {0}
    BY <1>3, WindowFrames
  <2>2. ASSUME NEW k \in 1..N' PROVE Old'[k] >= N' + 1 - k
    BY <1>2, <1>8, <1>9, <1>10, <2>1 DEF InOrder
  <2>3. ASSUME NEW k \in 1..N', NEW l \in 1..N', k < l PROVE Old'[k] > Old'[l]
    <3>1. k \in 1..N
      BY <1>2, <1>9, <2>3
    <3>2. CASE l \in 1..N
      BY <1>8, <1>10, <2>1, <2>3, <3>1, <3>2 DEF InOrder
    <3>3. CASE l = N' /\ N' = N + 1
      BY <1>8, <2>1, <3>1, <3>3
    <3>. QED  BY <1>9, <3>2, <3>3
  <2>. QED  BY <2>2, <2>3 DEF InOrder
<1>12. PICK n \in Nat : n = m + chunk
  BY <1>2
<1>13. ASSUME NEW k \in 1..N'
       PROVE  InWindow(k, n)'
  <2>1. CASE k \in 1..N
    <3>0. PICK a \in Nat \ {0} : a = Old[k]
      BY <1>3, <2>1, WindowFrames
    <3>1. /\ Times(Old[k] + 1, chunk) = Times(Old[k], chunk) + chunk
          /\ Old[k] \in Nat \ {0} /\ Times(Old[k], chunk) \in Nat
          /\ Times(noProgress, chunk) \in Nat
      BY <1>2, <3>0, TimesNext
    <3>2. CASE /\ Line[k].req = ChunkAt(Line[k].req.off)
               /\ Line[k].req.off \in 0..Total /\ Line[k].req.off < Total
               /\ Line[k].req.off + Times(Old[k], chunk) = m
               /\ Line[k].req.off >= acked + Times(noProgress, chunk)
               /\ Old[k] + noProgress <= window
      <4>1. Old[k] + noProgress < window
        <5>1. Times(Old[k] + noProgress, chunk) = Times(Old[k], chunk) + Times(noProgress, chunk)
          <6>1. a \in Nat /\ noProgress \in Nat /\ chunk \in Nat
            BY <1>2, <3>0
          <6>2. Times(a + noProgress, chunk) = Times(a, chunk) + Times(noProgress, chunk)
            BY <6>1, TimesSum
          <6>. QED  BY <3>0, <6>2
        <5>2. Times(Old[k] + noProgress, chunk) < Times(window, chunk)
          BY <1>2, <1>5, <3>1, <3>2, <5>1
        <5>. QED  BY <1>2, <3>1, <5>2, TimesGrows
      <4>2. Line[k].req.off + Times(Old[k] + 1, chunk) = n
        BY <1>2, <1>12, <3>1, <3>2
      <4>3. (Old[k] + 1) + noProgress <= window
        BY <1>2, <3>1, <4>1
      <4>4. \A off : ChunkAt(off)' = ChunkAt(off)
        BY <1>1, SameChunks
      <4>. QED  BY <1>1, <1>8, <2>1, <3>2, <4>2, <4>3, <4>4 DEF InWindow
    <3>3. CASE /\ Line[k].req.cmd = "state"
               /\ acked = 0 /\ noProgress = 0
               /\ Times(Old[k], chunk) = m + chunk
      <4>1. PICK j \in Nat : Old[k] = j + 1
        BY <3>1
      <4>2. j < window
        <5>1. Times(j + 1, chunk) = Times(j, chunk) + chunk /\ Times(j, chunk) \in Nat
          BY <1>2, <4>1, TimesNext
        <5>2. Times(j, chunk) < Times(window, chunk)
          BY <1>2, <1>5, <3>3, <4>1, <5>1
        <5>. QED  BY <1>2, <4>1, <5>2, TimesGrows
      <4>3. Old[k] + 1 <= window + 1
        BY <1>2, <4>1, <4>2
      <4>4. Times(Old[k] + 1, chunk) = n + chunk
        BY <1>2, <1>12, <3>1, <3>3
      <4>. QED  BY <1>1, <1>8, <2>1, <3>3, <4>3, <4>4 DEF InWindow
    <3>. QED  BY <1>3, <2>1, <3>2, <3>3, WindowFrames
  <2>2. CASE k = N' /\ N' = N + 1
    <3>1. Old'[k] = 1 /\ Line'[k].req = ChunkAt(m) /\ ChunkAt(m).off = m
      BY <1>4, <1>8, <2>2 DEF ChunkAt
    <3>2. \A off : ChunkAt(off)' = ChunkAt(off)
      BY <1>1, SameChunks
    <3>3. m + Times(1, chunk) = n /\ Times(noProgress, chunk) \in Nat
      BY <1>2, <1>12, TimesNext
    <3>4. m >= acked + Times(noProgress, chunk)
      BY <1>2, <1>3, <3>3 DEF Pipelined
    <3>5. 1 + noProgress <= window
      <4>1. Times(noProgress, chunk) < Times(window, chunk)
        BY <1>2, <1>5, <3>3, <3>4
      <4>2. noProgress < window
        BY <1>2, <4>1, TimesGrows
      <4>. QED  BY <1>2, <4>2
    <3>. QED  BY <1>1, <1>4, <3>1, <3>2, <3>3, <3>4, <3>5 DEF InWindow
  <2>. QED  BY <1>9, <2>1, <2>2
<1>14. /\ n < Total + chunk' /\ sent' = (IF n < Total THEN n ELSE Total)
       /\ m <= n /\ m <= sent'
  <2>1. ChunkAt(m).len = IF n <= Total THEN chunk ELSE Total - m
    BY <1>12 DEF ChunkAt
  <2>2. n < Total + chunk
    BY <1>2, <1>4, <1>12
  <2>3. sent' = IF n < Total THEN n ELSE Total
    BY <1>1, <1>2, <1>4, <1>12, <2>1
  <2>4. m <= n /\ m <= sent'
    BY <1>2, <1>4, <1>12, <2>3
  <2>. QED  BY <1>1, <2>2, <2>3, <2>4
<1>15. Pipelined(n)'
  <2>1. /\ acked' + Times(noProgress', chunk') <= n /\ noProgress' <= window'
        /\ acked' <= devOff' /\ devOff' <= sent'
    <3>1. Times(noProgress, chunk) \in Nat
      BY <1>2, TimesNext
    <3>2. acked + Times(noProgress, chunk) <= m /\ noProgress <= window /\ acked <= devOff
      BY <1>3 DEF Pipelined
    <3>3. acked + Times(noProgress, chunk) <= n
      BY <1>2, <1>12, <3>1, <3>2
    <3>4. devOff <= sent'
      <4>1. sent' \in Nat
        BY DEF Inv, TypeOK, LoopsTypeOK
      <4>. QED  BY <1>2, <1>4, <1>14, <4>1
    <3>. QED  BY <1>1, <3>2, <3>3, <3>4
  <2>2. ASSUME NEW k \in 1..N', k > Answered', Line'[k].req.cmd = "upload"
        PROVE  Line'[k].req.off >= devOff'
    <3>1. CASE k \in 1..N
      BY <1>1, <1>3, <1>8, <2>2, <3>1 DEF Pipelined
    <3>2. CASE k = N' /\ N' = N + 1
      BY <1>1, <1>2, <1>4, <1>8, <3>2 DEF ChunkAt
    <3>. QED  BY <1>9, <3>1, <3>2
  <2>3. ASSUME NEW k \in 1..Answered'
        PROVE  /\ Line'[k].rsp.off <= devOff'
               /\ Line'[k].req.cmd = "upload" => Line'[k].rsp.off <= Line'[k].req.off + chunk'
    <3>1. k \in 1..Answered /\ k \in 1..N
      BY <1>2, <1>8
    <3>. QED  BY <1>1, <1>3, <1>8, <3>1 DEF Pipelined
  <2>. QED  BY <1>13, <1>14, <2>1, <2>2, <2>3 DEF Pipelined
<1>16. WindowInv'
  BY <1>15 DEF WindowInv
<1>17. OffsetsAnswerChunks'
  <2>1. \A k \in 1..Answered : k \in 1..N
    BY <1>2
  <2>. QED  BY <1>8, <2>1 DEF LineInv, OffsetsAnswerChunks, NoOff
<1>18. PrefixStored' /\ NumbersLeft'
  BY <1>1 DEF LineInv, PrefixStored, NumbersLeft
<1>19. BeforeUpload' /\ SequentialInv' /\ EraseInv' /\ DoneInv'
  BY <1>1 DEF BeforeUpload, SequentialInv, EraseInv, DoneInv
<1>. QED
  BY <1>11, <1>16, <1>17, <1>18, <1>19 DEF LineInv

\* The next frame to read is the oldest.
LEMMA HeadFrame ==
    ASSUME LinkTypeOK, buf # <<>>
    PROVE  /\ 1 \in 1..N /\ 1 \in 1..Answered /\ 1 <= Answered
           /\ Line[1] = Head(buf)
           /\ Rest = Tail(buf) /\ Len(Tail(buf)) = Len(buf) - 1 /\ Len(buf) \in Nat
<1>1. Len(buf) \in Nat \ {0} /\ Head(buf) = buf[1] /\ Len(Tail(buf)) = Len(buf) - 1
  BY TailKeeps DEF LinkTypeOK
<1>2. 1 \in 1..N /\ 1 \in 1..Answered /\ 1 <= Len(buf)
  BY <1>1, Lengths
<1>. QED  BY <1>1, <1>2, Place DEF Rest

\* When a frame is read, those behind it stay, and are younger.
LEMMA ReadLeaves ==
    ASSUME LinkTypeOK, LinkTypeOK', InOrder, buf # <<>>, buf' = Tail(buf),
           UNCHANGED <<seq, toDev, notif>>
    PROVE  \E h : Leaves(h) /\ \A k \in 1..N' : Old[h[k]] < Old[1]
<1>1. PICK h : Leaves(h) /\ \A k \in 1..N' : h[k] > Len(buf) - Len(buf')
  BY HeadFrame, TakeLeaves
<1>2. Len(buf) - Len(buf') = 1
  BY HeadFrame
<1>3. ASSUME NEW k \in 1..N' PROVE Old[h[k]] < Old[1]
  <2>1. h[k] \in 1..N /\ h[k] > 1 /\ 1 \in 1..N
    BY <1>1, <1>2, HeadFrame DEF Leaves
  <2>. QED  BY <2>1 DEF InOrder
<1>. QED  BY <1>1, <1>3

LEMMA YoungerIsFarther ==
    ASSUME NEW x \in Nat, NEW y \in Nat, NEW t \in Nat, NEW u \in Nat, NEW c \in Nat, NEW m \in Nat,
           x + t = m, y + u = m, t + c <= u
    PROVE  x >= y + c
OBVIOUS

\* An ack answers a chunk, and every frame behind it is a later chunk.
LEMMA AckedFrame ==
    ASSUME Inv, LineInv, NEW m \in Nat, Pipelined(m), buf # <<>>, IsAck
    PROVE  /\ Ack.off \in Nat /\ Ack.off <= devOff /\ Ack.off <= Line[1].req.off + chunk
           /\ Line[1].req.cmd = "upload" /\ Line[1].req.off \in 0..Total
           /\ Line[1].req.off + Times(Old[1], chunk) = m
           /\ Line[1].req.off >= acked + Times(noProgress, chunk)
           /\ Old[1] \in Nat \ {0} /\ Old[1] + noProgress <= window
           /\ Times(Old[1], chunk) \in Nat
           /\ \A j \in 1..N : Old[j] < Old[1] =>
                 /\ Line[j].req.cmd = "upload" /\ Line[j].req.off \in 0..Total
                 /\ Line[j].req.off >= Line[1].req.off + chunk
                 /\ Old[j] \in Nat /\ Old[j] + 1 <= Old[1]
<1>1. 1 \in 1..N /\ 1 \in 1..Answered /\ Line[1].rsp = Ack
  BY Numbers, HeadFrame DEF Ack
<1>2. Ack.off \in Nat /\ Ack.off # NoOff
  <2>1. Ack.off \in (-1)..Total
    BY <1>1, Numbers, HeadType DEF Ack
  <2>. QED  BY <2>1, ParameterTypes DEF IsAck, NoOff
<1>3. Line[1].req.cmd = "upload"
  BY <1>1, <1>2 DEF LineInv, OffsetsAnswerChunks
<1>4. Ack.off <= devOff /\ Ack.off <= Line[1].req.off + chunk
  BY <1>1, <1>3 DEF Pipelined
<1>5. /\ Line[1].req.off \in 0..Total
      /\ Line[1].req.off + Times(Old[1], chunk) = m
      /\ Line[1].req.off >= acked + Times(noProgress, chunk)
      /\ Old[1] \in Nat \ {0} /\ Old[1] + noProgress <= window
      /\ Times(Old[1], chunk) \in Nat
  BY <1>1, <1>3, WindowFrames
<1>6. ASSUME NEW j \in 1..N, Old[j] < Old[1]
      PROVE  /\ Line[j].req.cmd = "upload" /\ Line[j].req.off \in 0..Total
             /\ Line[j].req.off >= Line[1].req.off + chunk
             /\ Old[j] \in Nat /\ Old[j] + 1 <= Old[1]
  <2>1. Old[j] \in Nat /\ Times(Old[j], chunk) \in Nat
    BY WindowFrames
  <2>2. chunk \in Nat \ {0} /\ Total \in Nat
    BY Numbers
  <2>3. Times(Old[j], chunk) + chunk <= Times(Old[1], chunk)
    <3>1. PICK a \in Nat, b \in Nat : a = Old[j] /\ b = Old[1] /\ a < b
      BY <1>5, <1>6, <2>1
    <3>. QED  BY <2>2, <3>1, TimesGrows
  <2>4. Old[j] + 1 <= Old[1]
    BY <1>5, <1>6, <2>1
  <2>5. CASE Line[j].req.cmd = "state" /\ Times(Old[j], chunk) = m + chunk
    <3>1. Times(Old[j], chunk) + chunk <= m
      BY <1>5, <2>1, <2>2, <2>3
    <3>. QED  BY <2>1, <2>2, <2>5, <3>1
  <2>6. CASE /\ Line[j].req.cmd = "upload" /\ Line[j].req.off \in 0..Total
             /\ Line[j].req.off + Times(Old[j], chunk) = m
    <3>1. Line[j].req.off >= Line[1].req.off + chunk
      <4>1. /\ Line[j].req.off \in Nat /\ Line[1].req.off \in Nat /\ chunk \in Nat
            /\ Times(Old[j], chunk) \in Nat /\ Times(Old[1], chunk) \in Nat
        BY <1>5, <2>1, <2>2, <2>6
      <4>2. PICK x \in Nat, y \in Nat, tx \in Nat, ty \in Nat, c \in Nat :
               /\ x = Line[j].req.off /\ y = Line[1].req.off /\ c = chunk
               /\ tx = Times(Old[j], chunk) /\ ty = Times(Old[1], chunk)
        BY <4>1
      <4>3. x + tx = m /\ y + ty = m /\ tx + c <= ty
        BY <1>5, <2>3, <2>6, <4>2
      <4>4. x >= y + c
        BY <4>3
      <4>. QED  BY <4>2, <4>4
    <3>. QED  BY <2>1, <2>4, <2>6, <3>1
  <2>. QED  BY <2>5, <2>6, WindowFrames
<1>. QED  BY <1>2, <1>3, <1>4, <1>5, <1>6

LEMMA WinAckKeeps ==
    ASSUME Assumptions, Inv, Inv', LineInv, WinProgress \/ WinStall
    PROVE  LineInv'
<1>1. /\ phase = "win" /\ buf # <<>> /\ IsAck
      /\ UNCHANGED <<seq, toDev, notif, up, devOff, stored, want, chunk, window, erased, offset,
                     attempt>>
  BY DEF WinProgress, WinStall, WinReceived, wires, device, tuning, seqVars
<1>2. /\ LinkTypeOK /\ LinkTypeOK' /\ Total \in Nat \ {0}
      /\ chunk \in Nat \ {0} /\ window \in Nat \ {0}
      /\ devOff \in 0..Total /\ sent \in 0..Total /\ acked \in 0..Total /\ noProgress \in Nat
      /\ N \in Nat /\ Answered \in Nat /\ Answered <= N
  BY Numbers DEF Inv, TypeOK
<1>3. PICK m \in Nat : Pipelined(m)
  BY <1>1 DEF LineInv, WindowInv
<1>4. /\ Ack.off \in Nat /\ Ack.off <= devOff /\ Ack.off <= Line[1].req.off + chunk
      /\ Line[1].req.cmd = "upload" /\ Line[1].req.off \in 0..Total
      /\ Line[1].req.off + Times(Old[1], chunk) = m
      /\ Line[1].req.off >= acked + Times(noProgress, chunk)
      /\ Old[1] \in Nat \ {0} /\ Old[1] + noProgress <= window
      /\ Times(Old[1], chunk) \in Nat
      /\ \A j \in 1..N : Old[j] < Old[1] =>
            /\ Line[j].req.cmd = "upload" /\ Line[j].req.off \in 0..Total
            /\ Line[j].req.off >= Line[1].req.off + chunk
            /\ Old[j] \in Nat /\ Old[j] + 1 <= Old[1]
  BY <1>1, <1>3, AckedFrame
<1>5. devOff <= sent /\ sent <= m /\ noProgress <= window /\ acked <= devOff
  BY <1>2, <1>3 DEF Pipelined
<1>6. InOrder
  BY <1>1 DEF LineInv, Live, Awaits
\* Stalls never add up to a resync.
<1>7. \/ /\ phase' = (IF Ack.off < Total THEN "win" ELSE "done")
         /\ acked' = Ack.off /\ noProgress' = 0 /\ sent' = sent /\ buf' = Tail(buf)
      \/ /\ phase' = "win" /\ acked' = acked /\ noProgress' = noProgress + 1
         /\ sent' = sent /\ buf' = Tail(buf)
  <2>1. ~(noProgress + 1 >= ResyncAfter)
    BY <1>2, <1>5 DEF ResyncAfter
  <2>. QED  BY <1>1, <2>1 DEF WinProgress, WinStall
<1>8. PICK h : Leaves(h) /\ \A k \in 1..N' : Old[h[k]] < Old[1]
  BY <1>1, <1>2, <1>6, <1>7, ReadLeaves
<1>9. \A k \in 1..N' : h[k] \in 1..N /\ Old[h[k]] < Old[1] /\ Line'[k].req = Line[h[k]].req
                      /\ (k > Answered' => h[k] > Answered)
  BY <1>8 DEF Leaves
<1>10. OffsetsAnswerChunks' /\ InOrder' /\ PrefixStored' /\ NumbersLeft'
  <2>1. OffsetsAnswerChunks' /\ InOrder'
    BY <1>1, <1>2, <1>6, <1>8, LeavesOffsets, LeavesInOrder DEF LineInv
  <2>2. phase' \in {"win", "done"}
    BY <1>7
  <2>. QED  BY <1>1, <2>1, <2>2 DEF LineInv, PrefixStored, NumbersLeft
<1>11. WindowInv'
  <2>1. SUFFICES ASSUME phase' = "win" PROVE Pipelined(m)'
    BY DEF WindowInv
  <2>2. /\ acked' <= devOff /\ noProgress' <= window /\ acked' + Times(noProgress', chunk) <= m
        /\ \A k \in 1..N' : /\ Line[h[k]].req.cmd = "upload"
                             /\ Line[h[k]].req.off >= acked' + Times(noProgress', chunk)
                             /\ Old[h[k]] + noProgress' <= window
    <3>1. CASE acked' = Ack.off /\ noProgress' = 0
      <4>1. Times(noProgress', chunk) = 0 /\ acked' + Times(noProgress', chunk) = Ack.off
        BY <1>2, <1>4, <3>1, TimesNext
      <4>2. ASSUME NEW k \in 1..N'
            PROVE  /\ Line[h[k]].req.cmd = "upload"
                   /\ Line[h[k]].req.off >= Ack.off
                   /\ Old[h[k]] + 0 <= window
        <5>1. PICK j \in 1..N : j = h[k] /\ Old[j] < Old[1]
          BY <1>9
        <5>2. /\ Line[j].req.cmd = "upload" /\ Line[j].req.off \in 0..Total
              /\ Line[j].req.off >= Line[1].req.off + chunk
              /\ Old[j] \in Nat /\ Old[j] + 1 <= Old[1]
          BY <1>4, <5>1
        <5>3. Line[j].req.off >= Ack.off
          BY <1>2, <1>4, <5>2
        <5>4. Old[j] + 0 <= window
          BY <1>2, <1>4, <5>2
        <5>. QED  BY <5>1, <5>2, <5>3, <5>4
      <4>3. Ack.off <= m
        BY <1>2, <1>4, <1>5
      <4>. QED  BY <1>2, <1>4, <3>1, <4>1, <4>2, <4>3
    <3>2. CASE acked' = acked /\ noProgress' = noProgress + 1
      <4>1. /\ Times(noProgress', chunk) = Times(noProgress, chunk) + chunk
            /\ Times(noProgress, chunk) \in Nat
        BY <1>2, <3>2, TimesNext
      <4>2. acked + Times(noProgress', chunk) <= Line[1].req.off + chunk
        <5>1. /\ Line[1].req.off >= acked + Times(noProgress, chunk)
              /\ Line[1].req.off \in Nat /\ acked \in Nat /\ chunk \in Nat
          BY <1>2, <1>4
        <5>2. PICK x \in Nat, t \in Nat :
                 x = Line[1].req.off /\ t = Times(noProgress, chunk)
          BY <4>1, <5>1
        <5>3. acked + (t + chunk) <= x + chunk
          BY <5>1, <5>2
        <5>. QED  BY <4>1, <5>2, <5>3
      <4>3. chunk <= Times(Old[1], chunk)
        <5>1. PICK a \in Nat : Old[1] = a + 1
          BY <1>4
        <5>2. Times(a + 1, chunk) = Times(a, chunk) + chunk /\ Times(a, chunk) \in Nat
          BY <1>2, TimesNext
        <5>3. chunk <= Times(a + 1, chunk)
          BY <1>2, <5>2
        <5>. QED  BY <5>1, <5>3
      <4>4. Times(noProgress', chunk) \in Nat
        BY <1>2, <4>1
      <4>5. acked + Times(noProgress', chunk) <= m
        BY <1>2, <1>4, <4>2, <4>3, <4>4
      <4>6. noProgress + 1 <= window
        BY <1>2, <1>4
      <4>7. ASSUME NEW k \in 1..N'
            PROVE  /\ Line[h[k]].req.cmd = "upload"
                   /\ Line[h[k]].req.off >= acked + Times(noProgress', chunk)
                   /\ Old[h[k]] + (noProgress + 1) <= window
        <5>1. PICK j \in 1..N : j = h[k] /\ Old[j] < Old[1]
          BY <1>9
        <5>2. /\ Line[j].req.cmd = "upload" /\ Line[j].req.off \in 0..Total
              /\ Line[j].req.off >= Line[1].req.off + chunk
              /\ Old[j] \in Nat /\ Old[j] + 1 <= Old[1]
          BY <1>4, <5>1
        <5>3. Line[j].req.off >= acked + Times(noProgress', chunk)
          BY <1>2, <1>4, <4>2, <4>4, <5>2
        <5>4. Old[j] + (noProgress + 1) <= window
          BY <1>2, <1>4, <5>2
        <5>. QED  BY <5>1, <5>2, <5>3, <5>4
      <4>. QED  BY <1>5, <3>2, <4>5, <4>6, <4>7
    <3>. QED  BY <1>7, <3>1, <3>2
  <2>3. sent' = sent
    BY <1>7
  <2>. QED  BY <1>1, <1>3, <1>8, <2>2, <2>3, LeavesPipelined
<1>12. DoneInv'
  <2>1. SUFFICES ASSUME phase' = "done"
                 PROVE  devOff = Total /\ \A k \in 1..N' : k > Answered' => Line'[k].req.cmd = "state"
    BY <1>1 DEF DoneInv
  <2>2. Ack.off >= Total
    BY <1>2, <1>4, <1>7, <2>1
  <2>3. devOff = Total
    BY <1>2, <1>4, <2>2
  <2>4. ASSUME NEW k \in 1..N', k > Answered' PROVE FALSE
    <3>1. PICK j \in 1..N : j = h[k] /\ Old[j] < Old[1] /\ j > Answered
      BY <1>9, <2>4
    <3>2. Line[j].req.cmd = "upload" /\ Line[j].req.off \in 0..Total
      BY <1>4, <3>1
    <3>3. Line[j].req.off >= devOff
      BY <1>3, <3>1, <3>2 DEF Pipelined
    <3>4. Line[j].req.off < Total
      BY <1>3, <3>2, WindowFrames
    <3>. QED  BY <1>2, <2>3, <3>2, <3>3, <3>4
  <2>. QED  BY <2>3, <2>4
<1>13. BeforeUpload' /\ SequentialInv' /\ EraseInv'
  BY <1>7 DEF BeforeUpload, SequentialInv, EraseInv
<1>. QED
  BY <1>10, <1>11, <1>12, <1>13 DEF LineInv

-----------------------------------------------------------------------------
(* The arms of upload_with_fallback.                                       *)

\* Every way to start the sequential loop over.
LEMMA KeptFromZero ==
    ASSUME Assumptions, Inv, Inv', Fewer, PrefixStored, OffsetsAnswerChunks,
           UNCHANGED <<devOff, stored>>,
           phase' = "seq", offset' = 0, attempt' = 0,
           2 * Downgrades[chunk'] + 4 <= SeqMod,
           up' => /\ seq' = seq /\ InOrder
                  /\ \A k \in 1..N : Old[k] + (2 * Downgrades[chunk'] + 2) <= SeqMod
    PROVE  LineInv'
<1>1. /\ LinkTypeOK /\ LinkTypeOK' /\ chunk' \in Nat /\ Downgrades[chunk'] \in Nat /\ devOff \in Nat
  BY Numbers, DowngradesLeft DEF Inv, TypeOK, TuningTypeOK
<1>2. PICK h : Leaves(h)
  BY DEF Fewer
<1>3. PrefixStored' /\ OffsetsAnswerChunks' /\ NumbersLeft'
  BY <1>1, <1>2, LeavesOffsets DEF PrefixStored, NumbersLeft
<1>4. (Live => InOrder)'
  BY <1>1, <1>2, LeavesInOrder DEF Live, Awaits, AwaitsNumber
<1>5. BeforeUpload' /\ WindowInv' /\ EraseInv' /\ DoneInv'
  BY DEF BeforeUpload, WindowInv, EraseInv, DoneInv
<1>6. SequentialInv'
  <2>1. Slack' = 2 * Downgrades[chunk'] + 2 /\ MaxAttempts' = 2
    BY <1>1 DEF Slack, MaxAttempts, FirstAttempts
  <2>2. up' => \A k \in 1..N' : Old'[k] + Slack' <= SeqMod
    <3>. SUFFICES ASSUME up', NEW k \in 1..N' PROVE Old'[k] + Slack' <= SeqMod
      OBVIOUS
    <3>1. h[k] \in 1..N /\ Old'[k] = Old[h[k]]
      BY <1>1, <1>2, LeavesOld
    <3>. QED  BY <2>1, <3>1
  <2>3. offset' <= devOff' /\ attempt' < MaxAttempts' /\ ~(offset' > 0)
    BY <1>1, <2>1
  <2>. QED  BY <2>2, <2>3 DEF SequentialInv
<1>. QED
  BY <1>3, <1>4, <1>5, <1>6 DEF LineInv

\* The command gives up.
LEMMA FailKeeps ==
    ASSUME Inv, Inv', Fewer, PrefixStored, OffsetsAnswerChunks,
           UNCHANGED <<devOff, stored>>, phase' = "failed", NumbersLeft, chunk' = chunk
    PROVE  LineInv'
<1>1. LinkTypeOK /\ LinkTypeOK'
  BY DEF Inv, TypeOK
<1>2. PICK h : Leaves(h)
  BY DEF Fewer
<1>3. PrefixStored' /\ OffsetsAnswerChunks' /\ NumbersLeft'
  BY <1>1, <1>2, LeavesOffsets DEF PrefixStored, NumbersLeft
<1>4. ~Live' /\ BeforeUpload' /\ WindowInv' /\ SequentialInv' /\ EraseInv' /\ DoneInv'
  BY DEF Live, BeforeUpload, WindowInv, SequentialInv, EraseInv, DoneInv
<1>. QED  BY <1>3, <1>4 DEF LineInv

LEMMA WinErrorKeeps ==
    ASSUME Assumptions, Inv, Inv', LineInv, WinWriteFails \/ WinGivesUp \/ WinReadFails
    PROVE  LineInv'
<1>1. /\ phase = "win" /\ phase' = "seq" /\ offset' = 0 /\ attempt' = 0
      /\ buf' = <<>> /\ UNCHANGED <<toDev, notif, up, devOff, stored, chunk>>
      /\ up' => seq' = seq
  BY DEF WinWriteFails, WinGivesUp, WinReadFails, WinReceived, OnWindowedError,
         SequentialFromZero, wires, device
<1>2. Fewer
  BY <1>1, TakeFewer DEF Inv, TypeOK
<1>3. /\ window + 3 + 2 * Downgrades[chunk] <= SeqMod /\ 2 * Downgrades[chunk] + 4 <= SeqMod
      /\ Downgrades[chunk] \in Nat /\ window \in Nat /\ SeqMod \in Nat
  BY <1>1, Numbers, DowngradesLeft DEF LineInv, NumbersLeft
<1>4. ASSUME NEW k \in 1..N
      PROVE  Old[k] + (2 * Downgrades[chunk] + 2) <= SeqMod
  <2>1. PICK m \in Nat : Pipelined(m)
    BY <1>1 DEF LineInv, WindowInv
  <2>2. Old[k] \in Nat /\ Old[k] <= window + 1
    BY <2>1, WindowFrames
  <2>. QED  BY <1>3, <2>2
<1>5. InOrder
  BY <1>1 DEF LineInv, Live, Awaits
<1>6. chunk' = chunk
  BY <1>1
<1>. QED
  BY <1>1, <1>2, <1>3, <1>4, <1>5, <1>6, KeptFromZero DEF LineInv

LEMMA WindowedKeeps ==
    ASSUME Assumptions, Inv, Inv', LineInv, WindowedStep
    PROVE  LineInv'
BY WinSendKeeps, WinAckKeeps, WinErrorKeeps DEF WindowedStep

-----------------------------------------------------------------------------
(* The sequential upload.                                                  *)

\* What the loop may still add to an age, as a number.
LEMMA SlackType ==
    ASSUME Assumptions, Inv, LineInv, phase \in {"seq", "seq_wait"}
    PROVE  /\ attempt < MaxAttempts
           /\ Slack \in Nat /\ Slack >= 1 /\ Slack <= SeqMod
           /\ Downgrades[chunk] \in Nat
           /\ offset = 0 => Slack = 2 * Downgrades[chunk] + 2 - attempt
           /\ offset > 0 => Slack = 6 - attempt
           /\ MaxAttempts = IF offset = 0 THEN 2 ELSE 6
<1>1. attempt < MaxAttempts /\ attempt \in Nat /\ offset \in Nat /\ SeqMod \in Nat /\ chunk \in Nat
  BY Numbers DEF LineInv, SequentialInv
<1>2. MaxAttempts = IF offset = 0 THEN 2 ELSE 6
  BY DEF MaxAttempts, FirstAttempts, LaterAttempts
<1>3. /\ Downgrades[chunk] \in Nat /\ 2 * Downgrades[chunk] + 4 <= SeqMod /\ 6 <= SeqMod
  BY <1>1, DowngradesLeft DEF LineInv, NumbersLeft, NumbersSuffice, LaterAttempts
<1>4. CASE offset = 0
  <2>1. Slack = 2 * Downgrades[chunk] + 2 - attempt
    BY <1>4 DEF Slack, FirstAttempts
  <2>. QED  BY <1>1, <1>2, <1>3, <1>4, <2>1
<1>5. CASE offset > 0
  <2>1. Slack = 6 - attempt /\ offset # 0
    BY <1>1, <1>5 DEF Slack, LaterAttempts
  <2>. QED  BY <1>1, <1>2, <1>3, <1>5, <2>1
<1>. QED  BY <1>1, <1>4, <1>5

LEMMA SeqSendKeeps ==
    ASSUME Assumptions, Inv, Inv', LineInv, SeqSend
    PROVE  LineInv'
<1>1. /\ phase = "seq" /\ phase' = "seq_wait" /\ want' = seq /\ Transmit(ChunkAt(offset))
      /\ UNCHANGED <<devOff, stored, chunk, window, erased, offset, attempt>>
  BY DEF SeqSend, device, tuning, seqVars
<1>2. /\ LinkTypeOK /\ LinkTypeOK' /\ SeqMod \in Nat \ {0}
      /\ N \in Nat /\ Answered \in Nat /\ Answered <= N
      /\ N' \in Nat /\ Answered' \in Nat /\ Answered' <= N'
      /\ offset \in 0..Total /\ chunk \in Nat \ {0} /\ offset < Total
  BY <1>1, Numbers, NewLengths DEF Inv, TypeOK, Unfinished
<1>3. Joins(ChunkAt(offset))
  <2>1. ChunkAt(offset) \in RequestBody
    BY <1>2, ChunkType
  <2>. QED  BY <1>1, <1>2, <2>1, TransmitJoins
<1>4. Slack \in Nat /\ Slack >= 1 /\ Slack <= SeqMod /\ attempt < MaxAttempts
  BY <1>1, SlackType
<1>5. InOrder /\ \A k \in 1..N : Old[k] \in Nat \ {0} /\ Old[k] + Slack <= SeqMod
  <2>1. up
    BY <1>3 DEF Joins
  <2>2. \A k \in 1..N : Old[k] \in 1..SeqMod
    BY <1>2, FrameTypes
  <2>. QED  BY <1>1, <1>2, <2>1, <2>2 DEF LineInv, Live, SequentialInv
<1>6. \A k \in 1..N : Old[k] < SeqMod
  BY <1>2, <1>4, <1>5
<1>7. /\ \A k \in 1..N : /\ Old'[k] = Old[k] + 1 /\ Line[k].seq # seq /\ Line'[k].seq = Line[k].seq
                         /\ Line'[k].req = Line[k].req /\ Line'[k].rsp = Line[k].rsp
      /\ N' = N + 1 => Old'[N'] = 1 /\ Line'[N'].req = ChunkAt(offset)
      /\ Answered' = Answered /\ N' \in {N, N + 1} /\ Age(want)' = 1
  BY <1>1, <1>2, <1>3, <1>6, JoinAges DEF Joins, Same
<1>8. \A k \in 1..N' : k \in 1..N \/ (k = N' /\ N' = N + 1)
  BY <1>2, <1>7
<1>9. InOrder'
  <2>2. ASSUME NEW k \in 1..N' PROVE Old'[k] >= N' + 1 - k
    BY <1>2, <1>5, <1>7, <1>8 DEF InOrder
  <2>3. ASSUME NEW k \in 1..N', NEW l \in 1..N', k < l PROVE Old'[k] > Old'[l]
    <3>1. k \in 1..N
      BY <1>2, <1>8, <2>3
    <3>2. CASE l \in 1..N
      BY <1>5, <1>7, <2>3, <3>1, <3>2 DEF InOrder
    <3>3. CASE l = N' /\ N' = N + 1
      BY <1>5, <1>7, <3>1, <3>3
    <3>. QED  BY <1>8, <3>2, <3>3
  <2>. QED  BY <2>2, <2>3 DEF InOrder
<1>10. SequentialInv'
  <2>1. Slack' = Slack /\ MaxAttempts' = MaxAttempts /\ \A off : ChunkAt(off)' = ChunkAt(off)
    BY <1>1, SameChunks DEF Slack, MaxAttempts
  <2>2. /\ attempt' < MaxAttempts' /\ offset' <= devOff'
    BY <1>1, <1>4, <2>1 DEF LineInv, SequentialInv
  <2>3. ASSUME offset' > 0, NEW k \in 1..N', k > Answered'
        PROVE  Line'[k].req.cmd = "upload" /\ Line'[k].req.off = offset'
    <3>1. CASE k \in 1..N
      BY <1>1, <1>7, <2>3, <3>1 DEF LineInv, SequentialInv
    <3>2. CASE k = N' /\ N' = N + 1
      BY <1>1, <1>7, <3>2 DEF ChunkAt
    <3>. QED  BY <1>8, <3>1, <3>2
  <2>4. ASSUME NEW k \in 1..N'
        PROVE  /\ Old'[k] + Slack' <= SeqMod + 1
               /\ Line'[k].seq = want' => Line'[k].req = ChunkAt(offset)
               /\ Line'[k].seq = want' /\ k <= Answered' => Line'[k].rsp.off \in {NoOff, devOff'}
    <3>1. CASE k \in 1..N
      <4>1. Line'[k].seq # want'
        BY <1>1, <1>7, <3>1
      <4>2. Old'[k] = Old[k] + 1 /\ Old[k] + Slack <= SeqMod /\ Old[k] \in Nat
        BY <1>5, <1>7, <3>1
      <4>3. Old'[k] + Slack' <= SeqMod + 1
        BY <1>2, <1>4, <2>1, <4>2
      <4>. QED  BY <4>1, <4>3
    <3>2. CASE k = N' /\ N' = N + 1
      <4>1. ~(k <= Answered')
        BY <1>2, <1>7, <3>2
      <4>2. Old'[k] + Slack' <= SeqMod + 1
        BY <1>2, <1>4, <1>7, <2>1, <3>2
      <4>. QED  BY <1>7, <3>2, <4>1, <4>2
    <3>. QED  BY <1>8, <3>1, <3>2
  <2>5. ChunkAt(offset)' = ChunkAt(offset)
    BY <1>1 DEF ChunkAt
  <2>. QED  BY <1>1, <1>7, <2>2, <2>3, <2>4, <2>5 DEF SequentialInv
<1>11. OffsetsAnswerChunks'
  <2>1. \A k \in 1..Answered : k \in 1..N
    BY <1>2
  <2>. QED  BY <1>7, <2>1 DEF LineInv, OffsetsAnswerChunks, NoOff
<1>12. PrefixStored' /\ NumbersLeft'
  BY <1>1 DEF LineInv, PrefixStored, NumbersLeft
<1>13. BeforeUpload' /\ WindowInv' /\ EraseInv' /\ DoneInv'
  BY <1>1 DEF BeforeUpload, WindowInv, EraseInv, DoneInv
<1>. QED
  BY <1>9, <1>10, <1>11, <1>12, <1>13 DEF LineInv

\* A retry of the same chunk uses up one of the ages it was left.
LEMMA RetryKeeps ==
    ASSUME Assumptions, Inv, Inv', LineInv, Fewer, phase \in {"seq", "seq_wait"},
           UNCHANGED <<devOff, stored, chunk, window, offset>>,
           up' => phase = "seq_wait" /\ seq' = seq,
           phase' = "seq", attempt + 1 < MaxAttempts, attempt' = attempt + 1
    PROVE  LineInv'
<1>1. LinkTypeOK /\ LinkTypeOK' /\ SeqMod \in Nat /\ attempt \in Nat /\ offset \in Nat
  BY Numbers DEF Inv, TypeOK
<1>2. PICK h : Leaves(h)
  BY DEF Fewer
<1>3. PrefixStored' /\ OffsetsAnswerChunks' /\ NumbersLeft'
  BY <1>1, <1>2, LeavesOffsets DEF LineInv, PrefixStored, NumbersLeft
<1>4. (Live => InOrder)'
  BY <1>1, <1>2, LeavesInOrder DEF LineInv, Live, Awaits, AwaitsNumber
<1>5. BeforeUpload' /\ WindowInv' /\ EraseInv' /\ DoneInv'
  BY DEF BeforeUpload, WindowInv, EraseInv, DoneInv
<1>6. Slack \in Nat /\ Slack' = Slack - 1 /\ MaxAttempts' = MaxAttempts
  <2>1. MaxAttempts' = MaxAttempts
    BY DEF MaxAttempts
  <2>2. Slack' = Slack - 1
    <3>1. CASE offset = 0
      <4>1. Slack = 2 * Downgrades[chunk] + 2 - attempt /\ Downgrades[chunk] \in Nat
        BY <3>1, SlackType
      <4>2. Slack' = 2 * Downgrades[chunk] + 2 - (attempt + 1)
        BY <3>1 DEF Slack, FirstAttempts
      <4>. QED  BY <1>1, <4>1, <4>2
    <3>2. CASE offset # 0
      BY <1>1, <3>2 DEF Slack, LaterAttempts
    <3>. QED  BY <3>1, <3>2
  <2>. QED  BY <2>1, <2>2, SlackType
<1>7. SequentialInv'
  <2>1. up' => \A k \in 1..N' : Old'[k] + Slack' <= SeqMod
    <3>. SUFFICES ASSUME up', NEW k \in 1..N' PROVE Old'[k] + Slack' <= SeqMod
      OBVIOUS
    <3>1. h[k] \in 1..N /\ Old'[k] = Old[h[k]]
      BY <1>1, <1>2, LeavesOld
    <3>2. Old[h[k]] + Slack <= SeqMod + 1 /\ Old[h[k]] \in Nat
      <4>1. Old[h[k]] \in 1..SeqMod
        BY <1>1, <3>1, FrameTypes
      <4>. QED  BY <3>1, <4>1 DEF LineInv, SequentialInv
    <3>. QED  BY <1>1, <1>6, <3>1, <3>2
  <2>2. offset' <= devOff' /\ attempt' < MaxAttempts'
    BY <1>6 DEF LineInv, SequentialInv
  <2>3. ASSUME offset' > 0, NEW k \in 1..N', k > Answered'
        PROVE  Line'[k].req.cmd = "upload" /\ Line'[k].req.off = offset'
    <3>1. h[k] \in 1..N /\ h[k] > Answered /\ Line'[k].req = Line[h[k]].req
      BY <1>2, <2>3 DEF Leaves
    <3>. QED  BY <2>3, <3>1 DEF LineInv, SequentialInv
  <2>. QED  BY <2>1, <2>2, <2>3 DEF SequentialInv
<1>. QED
  BY <1>3, <1>4, <1>5, <1>7 DEF LineInv

LEMMA AttemptFailsKeeps ==
    ASSUME Assumptions, Inv, Inv', LineInv, SeqWriteFails \/ SeqReadFails
    PROVE  LineInv'
<1>1. PICK rest \in {buf, Rest} :
         /\ AttemptFails(rest) /\ phase \in {"seq", "seq_wait"}
         /\ UNCHANGED <<toDev, notif, up, devOff, stored>>
         /\ up' => phase = "seq_wait" /\ seq' = seq
  BY DEF SeqWriteFails, SeqReadFails, wires, device
<1>2. buf' \in {<<>>, rest}
  BY <1>1 DEF AttemptFails, OnMtuTooLarge, Fail
<1>3. Fewer
  BY <1>1, <1>2, TakeFewer DEF Inv, TypeOK
<1>4. CASE /\ attempt + 1 < MaxAttempts /\ phase' = "seq" /\ attempt' = attempt + 1
           /\ UNCHANGED <<tuning, offset, stalls>>
  BY <1>1, <1>3, <1>4, RetryKeeps DEF tuning
<1>5. CASE Fail(rest)
  BY <1>1, <1>3, <1>5, FailKeeps DEF Fail, tuning, LineInv
<1>6. CASE /\ attempt + 1 >= MaxAttempts /\ offset = 0
           /\ chunk > MinChunk /\ SequentialFromZero /\ chunk' = Smaller
  <2>1. /\ chunk \in Nat \ {0} /\ chunk' \in Nat \ {0} /\ SeqMod \in Nat /\ attempt \in Nat
    BY <1>6, Numbers, SmallerType
  <2>2. attempt < MaxAttempts /\ Slack = 2 * Downgrades[chunk] + 2 - attempt /\ MaxAttempts = 2
    BY <1>1, <1>6, SlackType
  <2>3. Slack = 2 * Downgrades[chunk] + 1
    <3>1. attempt = 1
      BY <1>6, <2>1, <2>2
    <3>. QED  BY <2>1, <2>2, <3>1, DowngradesLeft
  <2>4. /\ Downgrades[chunk'] < Downgrades[chunk]
        /\ Downgrades[chunk'] \in Nat /\ Downgrades[chunk] \in Nat
    BY <1>6, <2>1, DowngradesLeft DEF Bounds, Smaller
  <2>5. ASSUME up', NEW k \in 1..N
        PROVE  Old[k] + (2 * Downgrades[chunk'] + 2) <= SeqMod
    <3>1. Old[k] \in 1..SeqMod /\ Old[k] + Slack <= SeqMod + 1
      BY <1>1, <2>5, Numbers, FrameTypes DEF LineInv, SequentialInv
    <3>2. 2 * Downgrades[chunk'] + 2 <= 2 * Downgrades[chunk]
      BY <2>4
    <3>. QED  BY <2>1, <2>3, <2>4, <3>1, <3>2
  <2>6. 2 * Downgrades[chunk'] + 4 <= SeqMod
    <3>1. 2 * Downgrades[chunk] + 4 <= SeqMod
      BY DEF LineInv, NumbersLeft
    <3>. QED  BY <2>1, <2>4, <3>1
  <2>7. up' => InOrder
    BY <1>1 DEF LineInv, Live, Awaits, AwaitsNumber
  <2>. QED
    BY <1>1, <1>3, <1>6, <2>5, <2>6, <2>7, KeptFromZero DEF SequentialFromZero, LineInv
<1>. QED  BY <1>1, <1>4, <1>5, <1>6 DEF AttemptFails, OnMtuTooLarge

\* The answer with the number that was given out last is the last frame.
LEMMA AnswerIsLast ==
    ASSUME Inv, LineInv, phase \in {"seq_wait", "erase_wait"}, Matches(want)
    PROVE  Line[1] = Head(buf) /\ 1 \in 1..N /\ 1 <= Answered /\ Old[1] = 1 /\ N = 1 /\ InOrder
<1>1. LinkTypeOK /\ N \in Nat
  BY Numbers
<1>2. 1 \in 1..N /\ 1 <= Answered /\ Line[1] = Head(buf) /\ Line[1].seq = want
  BY <1>1, HeadFrame DEF Matches
<1>3. Old[1] = 1
  <2>1. Age(want) = 1
    BY DEF LineInv, SequentialInv, EraseInv
  <2>. QED  BY <1>1, <1>2, <2>1, FrameTypes
<1>4. InOrder
  BY DEF LineInv, Live, Awaits, AwaitsNumber
<1>5. N = 1
  BY <1>1, <1>2, <1>3, <1>4 DEF InOrder
<1>. QED  BY <1>2, <1>3, <1>4, <1>5

\* Over an empty line nothing of an earlier phase can surprise the next one.
LEMMA EmptiedKeeps ==
    ASSUME Inv, Inv', LineInv, N' = 0, UNCHANGED <<devOff, stored, chunk>>,
           phase' \in {"seq", "erase", "done", "failed"},
           phase' = "seq" => attempt' < MaxAttempts' /\ offset' <= devOff,
           phase' = "done" => devOff = Total
    PROVE  LineInv'
<1>1. Answered' \in Nat /\ Answered' <= 0
  BY NewLengths DEF Inv, TypeOK
<1>2. \A k \in 1..N' : FALSE
  OBVIOUS
<1>3. \A k \in 1..Answered' : FALSE
  BY <1>1
<1>4. InOrder' /\ OffsetsAnswerChunks'
  BY <1>2, <1>3 DEF InOrder, OffsetsAnswerChunks
<1>5. PrefixStored' /\ NumbersLeft'
  BY DEF LineInv, PrefixStored, NumbersLeft
<1>6. SequentialInv' /\ EraseInv' /\ DoneInv'
  BY <1>2 DEF SequentialInv, EraseInv, DoneInv
<1>7. BeforeUpload' /\ WindowInv'
  BY DEF BeforeUpload, WindowInv
<1>. QED  BY <1>4, <1>5, <1>6, <1>7 DEF LineInv

\* The answer to the chunk is taken, and tells what the device has.
LEMMA SeqAnsweredKeeps ==
    ASSUME Assumptions, Inv, Inv', LineInv, SeqProgress \/ SeqStall \/ SeqNeedsErase \/ SeqRefused
    PROVE  LineInv'
<1>1. /\ phase = "seq_wait" /\ Matches(want) /\ buf # <<>>
      /\ UNCHANGED <<seq, toDev, notif, up, devOff, stored, want>>
  BY DEF SeqProgress, SeqStall, SeqNeedsErase, SeqRefused, SeqAnswered, wires, device, Matches
<1>2. buf' = Tail(buf) /\ UNCHANGED <<chunk, window>>
  BY DEF SeqProgress, SeqStall, SeqNeedsErase, SeqRefused, ContinueFrom, OnSlotNeedsErase,
         Fail, tuning
<1>3. LinkTypeOK /\ LinkTypeOK' /\ offset \in 0..Total /\ devOff \in 0..Total /\ Total \in Nat \ {0}
  BY Numbers DEF Inv, TypeOK
<1>4. /\ Line[1] = Head(buf) /\ 1 \in 1..N /\ 1 <= Answered /\ Old[1] = 1 /\ InOrder
  BY <1>1, AnswerIsLast
<1>5. N' = 0
  <2>1. PICK h : Leaves(h) /\ \A k \in 1..N' : Old[h[k]] < Old[1]
    BY <1>1, <1>2, <1>3, <1>4, ReadLeaves
  <2>2. ASSUME NEW k \in 1..N' PROVE FALSE
    <3>1. h[k] \in 1..N /\ Old[h[k]] < 1
      BY <1>4, <2>1 DEF Leaves
    <3>2. Old[h[k]] \in 1..SeqMod
      BY <1>3, <3>1, FrameTypes
    <3>. QED  BY <3>1, <3>2, SeqModAssumption
  <2>3. N' \in Nat
    BY <1>3, NewLengths
  <2>. QED  BY <2>2, <2>3
<1>6. /\ Head(buf).rsp.off \in {NoOff, devOff}
      /\ offset <= devOff
  BY <1>1, <1>4 DEF LineInv, SequentialInv, Matches
<1>7. ASSUME SeqProgress \/ SeqStall
      PROVE  /\ offset' = devOff /\ attempt' = 0
             /\ phase' = IF devOff < Total THEN "seq" ELSE "done"
  <2>1. Head(buf).rsp.off = devOff
    BY <1>3, <1>6, <1>7 DEF SeqProgress, SeqStall, NoOff
  <2>. QED  BY <1>7, <2>1 DEF SeqProgress, SeqStall, ContinueFrom
<1>8. CASE SeqProgress \/ SeqStall
  <2>1. MaxAttempts' \in {2, 6}
    BY DEF MaxAttempts, FirstAttempts, LaterAttempts
  <2>2. phase' = "seq" => attempt' < MaxAttempts' /\ offset' <= devOff
    BY <1>3, <1>7, <1>8, <2>1
  <2>3. phase' = "done" => devOff = Total
    BY <1>3, <1>7, <1>8
  <2>4. phase' \in {"seq", "erase", "done", "failed"}
    BY <1>7, <1>8
  <2>. QED  BY <1>1, <1>2, <1>5, <2>2, <2>3, <2>4, EmptiedKeeps
<1>9. CASE SeqNeedsErase \/ SeqRefused
  <2>1. phase' \in {"erase", "failed"}
    BY <1>9 DEF SeqNeedsErase, SeqRefused, OnSlotNeedsErase, Fail
  <2>. QED  BY <1>1, <1>2, <1>5, <2>1, EmptiedKeeps
<1>. QED  BY <1>8, <1>9

LEMMA SequentialKeeps ==
    ASSUME Assumptions, Inv, Inv', LineInv, SequentialStep
    PROVE  LineInv'
BY SeqSendKeeps, AttemptFailsKeeps, SeqAnsweredKeeps DEF SequentialStep

-----------------------------------------------------------------------------
(* The other steps of the host.                                            *)

\* A request written to an empty line is alone in it.
LEMMA JoinsEmpty ==
    ASSUME Inv, Inv', N = 0, NEW req \in RequestBody, Transmit(req), want' = seq
    PROVE  /\ \A k \in 1..N' : Line'[k].req = req /\ Old'[k] = 1 /\ k > Answered'
           /\ InOrder' /\ Age(want)' = 1 /\ Answered' = 0
<1>1. /\ LinkTypeOK /\ LinkTypeOK' /\ Answered = 0
  BY Numbers DEF Inv, TypeOK
<1>2. Joins(req)
  BY <1>1, TransmitJoins
<1>3. \A k \in 1..N : Old[k] < SeqMod
  OBVIOUS
<1>4. /\ N' \in {0, 1} /\ Answered' = 0 /\ Age(want)' = 1
      /\ N' = 1 => Old'[N'] = 1 /\ Line'[N'].req = req
  BY <1>1, <1>2, <1>3, JoinAges DEF Joins
<1>5. \A k \in 1..N' : k = 1 /\ N' = 1
  BY <1>4
<1>6. \A k \in 1..N' : Line'[k].req = req /\ Old'[k] = 1 /\ k > Answered'
  BY <1>4, <1>5
<1>7. InOrder'
  BY <1>4, <1>5, <1>6 DEF InOrder
<1>. QED  BY <1>4, <1>6, <1>7

LEMMA StartKeeps ==
    ASSUME Assumptions, Inv, Inv', LineInv,
           SkipReadState \/ ReadState \/ StateWriteFails \/ StateReturns
    PROVE  LineInv'
<1>1. LinkTypeOK /\ LinkTypeOK'
  BY DEF Inv, TypeOK
<1>2. CASE SkipReadState
  <2>1. UNCHANGED <<toDev, notif, buf>> /\ phase = "start" /\ EnterLoop
        /\ UNCHANGED <<device, want, tuning>>
    BY <1>2 DEF SkipReadState, link
  <2>2. Fewer
    BY <1>1, <2>1, TakeFewer
  <2>. QED  BY <2>1, <2>2, EnterKeeps
<1>3. CASE StateWriteFails
  <2>1. UNCHANGED <<toDev, notif, buf>> /\ phase = "start" /\ EnterLoop
        /\ UNCHANGED <<device, want, tuning>>
    BY <1>3 DEF StateWriteFails, WriteFails
  <2>2. Fewer
    BY <1>1, <2>1, TakeFewer
  <2>. QED  BY <2>1, <2>2, EnterKeeps
<1>4. CASE StateReturns
  <2>1. UNCHANGED <<seq, toDev, notif>> /\ buf' = Rest /\ phase = "state_wait" /\ EnterLoop
        /\ UNCHANGED <<device, want, tuning>>
    BY <1>4 DEF StateReturns, wires
  <2>2. Fewer
    BY <1>1, <2>1, TakeFewer
  <2>. QED  BY <2>1, <2>2, EnterKeeps
<1>5. CASE ReadState
  <2>1. /\ phase = "start" /\ phase' = "state_wait" /\ Transmit(Bare("state")) /\ want' = seq
        /\ UNCHANGED <<devOff, stored, chunk, window>>
    BY <1>5 DEF ReadState, device, tuning
  <2>2. N = 0 /\ devOff = 0
    BY <2>1 DEF LineInv, BeforeUpload
  <2>3. Bare("state") \in RequestBody /\ Bare("state").cmd = "state"
    BY BareType DEF Bare, Commands
  <2>4. /\ \A k \in 1..N' : Line'[k].req.cmd = "state" /\ Old'[k] = 1
        /\ InOrder' /\ Age(want)' = 1 /\ Answered' = 0
    BY <2>1, <2>2, <2>3, JoinsEmpty
  <2>5. BeforeUpload'
    BY <2>1, <2>2, <2>4 DEF BeforeUpload
  <2>6. OffsetsAnswerChunks'
    BY <2>4 DEF OffsetsAnswerChunks
  <2>7. PrefixStored' /\ NumbersLeft'
    BY <2>1 DEF LineInv, PrefixStored, NumbersLeft
  <2>8. WindowInv' /\ SequentialInv' /\ EraseInv' /\ DoneInv'
    BY <2>1 DEF WindowInv, SequentialInv, EraseInv, DoneInv
  <2>. QED  BY <2>4, <2>5, <2>6, <2>7, <2>8 DEF LineInv
<1>. QED  BY <1>2, <1>3, <1>4, <1>5

LEMMA EraseKeeps ==
    ASSUME Assumptions, Inv, Inv', LineInv,
           EraseSend \/ EraseWriteFails \/ EraseAcked \/ EraseFails
    PROVE  LineInv'
<1>1. LinkTypeOK /\ LinkTypeOK'
  BY DEF Inv, TypeOK
<1>2. CASE EraseSend
  <2>1. /\ phase = "erase" /\ phase' = "erase_wait" /\ Transmit(Bare("erase")) /\ want' = seq
        /\ UNCHANGED <<devOff, stored, chunk, window>>
    BY <1>2 DEF EraseSend, device, tuning
  <2>2. N = 0
    BY <2>1 DEF LineInv, EraseInv
  <2>3. Bare("erase") \in RequestBody
    BY BareType DEF Commands
  <2>4. (\A k \in 1..N' : Old'[k] = 1) /\ InOrder' /\ Age(want)' = 1 /\ Answered' = 0
    BY <2>1, <2>2, <2>3, JoinsEmpty
  <2>5. EraseInv'
    BY <2>1, <2>4 DEF EraseInv
  <2>6. OffsetsAnswerChunks'
    BY <2>4 DEF OffsetsAnswerChunks
  <2>7. PrefixStored' /\ NumbersLeft'
    BY <2>1 DEF LineInv, PrefixStored, NumbersLeft
  <2>8. BeforeUpload' /\ WindowInv' /\ SequentialInv' /\ DoneInv'
    BY <2>1 DEF BeforeUpload, WindowInv, SequentialInv, DoneInv
  <2>. QED  BY <2>4, <2>5, <2>6, <2>7, <2>8 DEF LineInv
<1>3. CASE EraseWriteFails
  <2>1. UNCHANGED <<toDev, notif, buf, devOff, stored, chunk>> /\ phase' = "failed"
    BY <1>3 DEF EraseWriteFails, WriteFails, device, tuning
  <2>2. Fewer
    BY <1>1, <2>1, TakeFewer
  <2>. QED  BY <2>1, <2>2, FailKeeps DEF LineInv
<1>4. CASE EraseFails
  <2>1. UNCHANGED <<toDev, notif, devOff, stored, chunk>> /\ phase' = "failed" /\ buf' = Rest
    BY <1>4 DEF EraseFails, Fail, wires, device, tuning
  <2>2. Fewer
    BY <1>1, <2>1, TakeFewer
  <2>. QED  BY <2>1, <2>2, FailKeeps DEF LineInv
<1>5. CASE EraseAcked
  <2>1. /\ phase = "erase_wait" /\ UNCHANGED <<seq, toDev, notif, devOff, stored, chunk>>
        /\ buf' = <<>> /\ phase' = "seq" /\ offset' = 0 /\ attempt' = 0
    BY <1>5 DEF EraseAcked, SequentialFromZero, wires, device
  <2>2. Fewer
    BY <1>1, <2>1, TakeFewer
  <2>3. InOrder /\ \A k \in 1..N : Old[k] = 1
    BY <2>1 DEF LineInv, Live, Awaits, AwaitsNumber, EraseInv
  <2>4. /\ 2 * Downgrades[chunk] + 4 <= SeqMod /\ Downgrades[chunk] \in Nat /\ SeqMod \in Nat
        /\ chunk' = chunk
    BY <2>1, Numbers, DowngradesLeft DEF LineInv, NumbersLeft
  <2>5. \A k \in 1..N : Old[k] + (2 * Downgrades[chunk] + 2) <= SeqMod
    BY <2>3, <2>4
  <2>. QED  BY <2>1, <2>2, <2>3, <2>4, <2>5, KeptFromZero DEF LineInv
<1>. QED  BY <1>2, <1>3, <1>4, <1>5

LEMMA StreamKeeps ==
    ASSUME Assumptions, Inv, Inv', LineInv, ReadStream \/ SkipStale \/ Disconnect
    PROVE  LineInv'
<1>1. LinkTypeOK /\ LinkTypeOK'
  BY DEF Inv, TypeOK
<1>2. UNCHANGED <<device, host>> /\ seq' = seq /\ (up' => up)
  BY DEF ReadStream, SkipStale, Disconnect, Push, TakeFrame, DropLink
<1>3. Fewer
  <2>1. CASE ReadStream
    BY <1>1, <2>1, PushFewer DEF ReadStream
  <2>2. CASE SkipStale
    <3>1. UNCHANGED <<toDev, notif>> /\ buf' = Rest
      BY <2>2 DEF SkipStale, TakeFrame, Rest
    <3>. QED  BY <1>1, <3>1, TakeFewer
  <2>3. CASE Disconnect
    BY <1>1, <2>3, LossFewer DEF Disconnect
  <2>. QED  BY <2>1, <2>2, <2>3
<1>. QED  BY <1>2, <1>3, FewerKeeps

-----------------------------------------------------------------------------
(* The device.                                                             *)

\* An answer changes no age.
LEMMA AnswersOld ==
    ASSUME LinkTypeOK, NEW rsp, Answers(rsp)
    PROVE  /\ \A k \in 1..N : Old'[k] = Old[k]
           /\ InOrder => InOrder'
<1>1. ASSUME NEW k \in 1..N PROVE Old'[k] = Old[k]
  <2>1. Old[k] = Age(Line[k].seq)
    BY DEF Old
  <2>2. k \in 1..N' /\ Line'[k].seq = Line[k].seq /\ seq' = seq
    BY DEF Answers
  <2>3. Old'[k] = Age(Line[k].seq)'
    BY <2>2 DEF Old
  <2>. QED  BY <2>1, <2>2, <2>3 DEF Age
<1>2. N' = N
  BY DEF Answers
<1>. QED  BY <1>1, <1>2 DEF InOrder

\* While a request is unanswered, the answer to the last one is not there.
LEMMA NotYetAnswered ==
    ASSUME Inv, LineInv, Answered + 1 \in 1..N, phase = "seq_wait"
    PROVE  /\ \A k \in 1..Answered : k \in 1..N /\ Line[k].seq # want
           /\ Line[Answered + 1].seq = want => Line[Answered + 1].req.cmd = "upload"
<1>1. LinkTypeOK /\ N \in Nat /\ Answered \in Nat
  BY Numbers
<1>2. InOrder /\ Age(want) = 1
  BY DEF LineInv, Live, Awaits, AwaitsNumber, SequentialInv
<1>3. ASSUME NEW k \in 1..Answered PROVE k \in 1..N /\ Line[k].seq # want
  <2>1. k \in 1..N /\ N + 1 - k >= 2
    BY <1>1
  <2>2. Old[k] >= N + 1 - k /\ Old[k] = Age(Line[k].seq) /\ Old[k] \in 1..SeqMod
    BY <1>1, <1>2, <2>1, FrameTypes DEF InOrder
  <2>3. Old[k] # 1
    BY <1>1, <2>1, <2>2, SeqModAssumption
  <2>. QED  BY <1>2, <2>1, <2>2, <2>3
<1>4. Line[Answered + 1].seq = want => Line[Answered + 1].req.cmd = "upload"
  BY DEF LineInv, SequentialInv, ChunkAt
<1>. QED  BY <1>3, <1>4

\* The answers after the step: the old ones and the new one.
LEMMA AnswersSplit ==
    ASSUME LinkTypeOK, NEW rsp, Answers(rsp), NEW k \in 1..Answered'
    PROVE  /\ k \in 1..N /\ Line'[k].seq = Line[k].seq /\ Line'[k].req = Line[k].req
           /\ \/ k \in 1..Answered /\ Line'[k].rsp = Line[k].rsp
              \/ k = Answered + 1 /\ Line'[k].rsp = rsp /\ Line[k].req = Served
<1>1. Answered \in Nat /\ N \in Nat /\ Answered' = Answered + 1 /\ Answered + 1 \in 1..N
  BY Lengths DEF Answers
<1>2. k \in 1..N /\ (k \in 1..Answered \/ k = Answered + 1) /\ (k \in 1..Answered => k <= Answered)
  BY <1>1
<1>. QED  BY <1>2 DEF Answers

\* The device answers and keeps the slot as it is.
LEMMA ReplyKeeps ==
    ASSUME Assumptions, Inv, Inv', LineInv, NEW rsp, Answers(rsp),
           rsp.off = NoOff \/ (Served.cmd = "upload" /\ rsp.off = devOff),
           UNCHANGED <<device, host>>
    PROVE  LineInv'
<1>1. /\ UNCHANGED <<phase, want, chunk, window, erased, offset, attempt, stalls>>
      /\ UNCHANGED <<sent, acked, noProgress, totalStalls>>
      /\ UNCHANGED <<devOff, stored, slot, mtu>>
      /\ UNCHANGED <<seq, up>>
  BY DEF host, device, tuning, seqVars, winVars, Answers
<1>2. /\ LinkTypeOK /\ N \in Nat /\ Answered \in Nat /\ devOff \in Nat /\ chunk \in Nat
      /\ N' = N /\ Answered' = Answered + 1 /\ Answered + 1 \in 1..N
      /\ Line[Answered + 1].req = Served
  BY Numbers DEF Answers
<1>3. /\ \A k \in 1..N : Old'[k] = Old[k] /\ Line'[k].seq = Line[k].seq /\ Line'[k].req = Line[k].req
      /\ InOrder => InOrder'
  BY <1>2, AnswersOld DEF Answers
<1>4. \A k \in 1..Answered' :
         /\ k \in 1..N
         /\ \/ k \in 1..Answered /\ Line'[k].rsp = Line[k].rsp
            \/ k = Answered + 1 /\ Line'[k].rsp = rsp /\ Line[k].req = Served
  BY <1>2, AnswersSplit
<1>5. \A k \in 1..N : k > Answered' => k > Answered
  BY <1>2
<1>6. Age(want)' = Age(want) /\ Slack' = Slack /\ MaxAttempts' = MaxAttempts
      /\ \A off : ChunkAt(off)' = ChunkAt(off)
  BY <1>1, SameChunks DEF Age, Slack, MaxAttempts
<1>7. OffsetsAnswerChunks'
  <2>. SUFFICES ASSUME NEW k \in 1..Answered', Line'[k].req.cmd # "upload"
                PROVE  Line'[k].rsp.off = NoOff
    BY DEF OffsetsAnswerChunks, NoOff
  <2>. QED  BY <1>3, <1>4 DEF LineInv, OffsetsAnswerChunks
<1>8. PrefixStored' /\ NumbersLeft' /\ (Live => InOrder)'
  BY <1>1, <1>3 DEF LineInv, PrefixStored, NumbersLeft, Live, Awaits, AwaitsNumber
<1>9. BeforeUpload' /\ EraseInv' /\ DoneInv'
  BY <1>1, <1>2, <1>3, <1>5, <1>6 DEF LineInv, BeforeUpload, EraseInv, DoneInv
<1>10. SequentialInv'
  <2>1. ASSUME phase = "seq_wait", NEW k \in 1..N, Line'[k].seq = want, k <= Answered'
        PROVE  Line'[k].rsp.off \in {NoOff, devOff}
    <3>1. k \in 1..Answered'
      BY <1>2, <2>1
    <3>2. Line[k].seq = want
      BY <1>3, <2>1
    <3>3. ~(k \in 1..Answered)
      BY <1>2, <2>1, <3>2, NotYetAnswered
    <3>. QED  BY <1>4, <3>1, <3>3
  <2>. QED  BY <1>1, <1>2, <1>3, <1>5, <1>6, <2>1 DEF LineInv, SequentialInv
<1>11. WindowInv'
  <2>1. SUFFICES ASSUME phase = "win" PROVE \E m \in Nat : Pipelined(m)'
    BY <1>1 DEF WindowInv
  <2>2. PICK m \in Nat : Pipelined(m)
    BY <2>1 DEF LineInv, WindowInv
  <2>3. \A k \in 1..N' : InWindow(k, m)'
    BY <1>1, <1>2, <1>3, <1>6, <2>2 DEF Pipelined, InWindow
  <2>4. ASSUME NEW k \in 1..Answered'
        PROVE  /\ Line'[k].rsp.off <= devOff
               /\ Line'[k].req.cmd = "upload" => Line'[k].rsp.off <= Line'[k].req.off + chunk
    <3>1. CASE k \in 1..Answered /\ Line'[k].rsp = Line[k].rsp
      BY <1>3, <1>4, <2>2, <3>1 DEF Pipelined
    <3>2. CASE k = Answered + 1 /\ Line'[k].rsp = rsp /\ Line[k].req = Served
      <4>1. k \in 1..N /\ k > Answered /\ Line'[k].req = Line[k].req
        BY <1>2, <1>3, <3>2
      <4>2. Line[k].req.off \in Nat
        <5>1. Line[k].req \in RequestBody
          BY <1>2, <4>1, FrameTypes
        <5>. QED  BY <5>1, ParameterTypes DEF RequestBody
      <4>3. CASE rsp.off = NoOff
        BY <1>2, <3>2, <4>1, <4>2, <4>3 DEF NoOff
      <4>4. CASE Served.cmd = "upload" /\ rsp.off = devOff
        <5>1. Line[k].req.off >= devOff
          BY <2>2, <3>2, <4>1, <4>4 DEF Pipelined
        <5>2. devOff <= Line[k].req.off + chunk
          BY <1>2, <4>2, <5>1
        <5>. QED  BY <1>2, <3>2, <4>1, <4>4, <5>2
      <4>. QED  BY <4>3, <4>4
    <3>. QED  BY <1>4, <3>1, <3>2
  <2>5. Pipelined(m)'
    BY <1>1, <1>2, <1>3, <1>5, <2>2, <2>3, <2>4 DEF Pipelined
  <2>. QED  BY <2>5
<1>. QED
  BY <1>7, <1>8, <1>9, <1>10, <1>11 DEF LineInv

\* The device takes a chunk, the first or the one it wants.
LEMMA AcceptKeeps ==
    ASSUME Assumptions, Inv, Inv', LineInv, NEW rsp, Answers(rsp), UNCHANGED host,
           Served.cmd = "upload", Served.off = 0 \/ Served.off = devOff,
           devOff' = Served.off + Served.len, rsp.off = devOff',
           PrefixStored'
    PROVE  LineInv'
<1>1. /\ UNCHANGED <<phase, want, chunk, window, erased, offset, attempt, stalls>>
      /\ UNCHANGED <<sent, acked, noProgress, totalStalls>>
      /\ UNCHANGED <<seq, up>>
  BY DEF host, tuning, seqVars, winVars, Answers
<1>2. /\ LinkTypeOK /\ N \in Nat /\ Answered \in Nat /\ devOff \in Nat /\ chunk \in Nat \ {0}
      /\ offset \in Nat /\ Total \in Nat \ {0} /\ acked \in Nat /\ sent \in 0..Total /\ noProgress \in Nat
      /\ N' = N /\ Answered' = Answered + 1 /\ Answered + 1 \in 1..N
      /\ Line[Answered + 1].req = Served
  BY Numbers DEF Answers
<1>3. /\ Served.off \in Nat /\ Served.len \in Nat /\ devOff' \in Nat /\ devOff' <= Total
  <2>1. Served \in RequestBody
    BY <1>2, FrameTypes
  <2>. QED  BY <2>1, ParameterTypes DEF RequestBody
<1>4. /\ \A k \in 1..N : Old'[k] = Old[k] /\ Line'[k].seq = Line[k].seq /\ Line'[k].req = Line[k].req
      /\ InOrder => InOrder'
  BY <1>2, AnswersOld DEF Answers
<1>5. \A k \in 1..Answered' :
         /\ k \in 1..N
         /\ \/ k \in 1..Answered /\ Line'[k].rsp = Line[k].rsp
            \/ k = Answered + 1 /\ Line'[k].rsp = rsp /\ Line[k].req = Served
  BY <1>2, AnswersSplit
<1>6. \A k \in 1..N : k > Answered' => k > Answered + 1 /\ k > Answered
  BY <1>2
<1>7. /\ Age(want)' = Age(want) /\ Slack' = Slack /\ MaxAttempts' = MaxAttempts
      /\ \A off : ChunkAt(off)' = ChunkAt(off)
  BY <1>1, SameChunks DEF Age, Slack, MaxAttempts
<1>8. Answered + 1 > Answered /\ Served.cmd # "state" /\ N # 0
  BY <1>2
<1>9. phase \in {"win", "seq", "seq_wait", "erase_wait", "failed"}
  <2>1. phase \notin {"start", "state_wait", "erase", "done"}
    BY <1>2, <1>8 DEF LineInv, BeforeUpload, EraseInv, DoneInv
  <2>. QED  BY <2>1 DEF Inv, TypeOK, Phases
<1>10. OffsetsAnswerChunks'
  <2>. SUFFICES ASSUME NEW k \in 1..Answered', Line'[k].req.cmd # "upload"
                PROVE  Line'[k].rsp.off = NoOff
    BY DEF OffsetsAnswerChunks, NoOff
  <2>. QED  BY <1>4, <1>5 DEF LineInv, OffsetsAnswerChunks
<1>11. NumbersLeft' /\ (Live => InOrder)'
  BY <1>1, <1>4 DEF LineInv, NumbersLeft, Live, Awaits, AwaitsNumber
<1>12. BeforeUpload' /\ EraseInv' /\ DoneInv'
  BY <1>1, <1>2, <1>4, <1>7, <1>9 DEF LineInv, BeforeUpload, EraseInv, DoneInv
<1>13. SequentialInv'
  <2>1. ASSUME phase = "seq_wait", NEW k \in 1..N, Line'[k].seq = want, k <= Answered'
        PROVE  Line'[k].rsp.off \in {NoOff, devOff'}
    <3>1. k \in 1..Answered'
      BY <1>2, <2>1
    <3>2. Line[k].seq = want
      BY <1>4, <2>1
    <3>3. ~(k \in 1..Answered)
      BY <1>2, <2>1, <3>2, NotYetAnswered
    <3>. QED  BY <1>5, <3>1, <3>3
  <2>2. phase \in {"seq", "seq_wait"} => offset <= devOff'
    <3>1. SUFFICES ASSUME phase \in {"seq", "seq_wait"} PROVE offset <= devOff'
      OBVIOUS
    <3>2. CASE offset = 0
      BY <1>3, <3>2
    <3>3. CASE offset > 0
      <4>1. Served.off = offset
        BY <1>2, <1>8, <3>1, <3>3 DEF LineInv, SequentialInv
      <4>. QED  BY <1>2, <1>3, <4>1
    <3>. QED  BY <1>2, <3>2, <3>3
  <2>. QED  BY <1>1, <1>2, <1>4, <1>6, <1>7, <2>1, <2>2 DEF LineInv, SequentialInv
<1>14. WindowInv'
  <2>1. SUFFICES ASSUME phase = "win" PROVE \E m \in Nat : Pipelined(m)'
    BY <1>1 DEF WindowInv
  <2>2. PICK m \in Nat : Pipelined(m)
    BY <2>1 DEF LineInv, WindowInv
  <2>3. \A k \in 1..N' : InWindow(k, m)'
    BY <1>1, <1>2, <1>4, <1>7, <2>2 DEF Pipelined, InWindow
  <2>4. PICK a \in 1..N : a = Answered + 1 /\ Line[a].req = Served
    BY <1>2
  <2>5. /\ Old[a] \in Nat \ {0} /\ Times(Old[a], chunk) \in Nat
        /\ Served = ChunkAt(Served.off) /\ Served.off < Total
        /\ Served.off + Times(Old[a], chunk) = m
        /\ Served.off >= acked + Times(noProgress, chunk)
    BY <1>8, <2>2, <2>4, WindowFrames
  <2>6. Served.off = devOff
    <3>1. Served.off >= devOff
      BY <1>2, <1>8, <2>2, <2>4 DEF Pipelined
    <3>. QED  BY <1>2, <1>3, <3>1
  <2>7. /\ Served.len <= chunk /\ devOff <= devOff'
        /\ devOff' <= Served.off + chunk
    <3>1. Served.len = IF Served.off + chunk <= Total THEN chunk ELSE Total - Served.off
      BY <2>5 DEF ChunkAt
    <3>. QED  BY <1>2, <1>3, <2>5, <2>6, <3>1
  <2>8. devOff' <= sent
    <3>1. chunk <= Times(Old[a], chunk)
      <4>1. PICK b \in Nat : Old[a] = b + 1
        BY <2>5
      <4>2. Times(b + 1, chunk) = Times(b, chunk) + chunk /\ Times(b, chunk) \in Nat
        BY <1>2, TimesNext
      <4>3. chunk <= Times(b + 1, chunk)
        BY <1>2, <4>2
      <4>. QED  BY <4>1, <4>3
    <3>2. Served.off + chunk <= m
      BY <1>2, <1>3, <2>5, <3>1
    <3>3. sent = IF m < Total THEN m ELSE Total
      BY <2>2 DEF Pipelined
    <3>. QED  BY <1>2, <1>3, <2>7, <3>2, <3>3
  <2>9. ASSUME NEW k \in 1..N, k > Answered + 1, Line[k].req.cmd = "upload"
        PROVE  Line[k].req.off >= devOff'
    <3>1. Old[k] < Old[a]
      <4>1. InOrder
        BY <2>1 DEF LineInv, Live, Awaits
      <4>2. a < k
        BY <1>2, <2>4, <2>9
      <4>. QED  BY <4>1, <4>2 DEF InOrder
    <3>2. /\ Line[k].req.off \in Nat /\ Old[k] \in Nat /\ Times(Old[k], chunk) \in Nat
          /\ Line[k].req.off + Times(Old[k], chunk) = m
      BY <1>2, <2>2, <2>9, WindowFrames
    <3>3. Times(Old[k], chunk) + chunk <= Times(Old[a], chunk)
      <4>1. PICK b \in Nat : b = Old[a]
        BY <2>5
      <4>2. PICK c \in Nat : c = Old[k] /\ c < b
        BY <3>1, <3>2, <4>1
      <4>. QED  BY <1>2, <4>1, <4>2, TimesGrows
    <3>4. Line[k].req.off >= Served.off + chunk
      BY <1>2, <1>3, <2>5, <3>2, <3>3, YoungerIsFarther
    <3>. QED  BY <1>2, <1>3, <2>7, <3>2, <3>4
  <2>10. ASSUME NEW k \in 1..Answered'
         PROVE  /\ Line'[k].rsp.off <= devOff'
                /\ Line'[k].req.cmd = "upload" => Line'[k].rsp.off <= Line'[k].req.off + chunk
    <3>1. CASE k \in 1..Answered /\ Line'[k].rsp = Line[k].rsp
      <4>1. k \in 1..N /\ k <= Answered
        BY <1>2, <1>5, <3>1
      <4>2. Line[k].rsp.off \in Int
        <5>1. Line[k].rsp.off \in (-1)..Total
          BY <1>2, <4>1, FrameTypes
        <5>. QED  BY <1>2, <5>1
      <4>3. Line[k].rsp.off <= devOff
        BY <2>2, <3>1 DEF Pipelined
      <4>4. Line[k].rsp.off <= devOff'
        BY <1>2, <1>3, <2>7, <4>2, <4>3
      <4>. QED  BY <1>4, <2>2, <3>1, <4>1, <4>4 DEF Pipelined
    <3>2. CASE k = Answered + 1 /\ Line'[k].rsp = rsp /\ Line[k].req = Served
      <4>1. Line'[k].req = Served
        BY <1>2, <1>4, <3>2
      <4>. QED  BY <1>3, <2>7, <3>2, <4>1
    <3>. QED  BY <1>5, <3>1, <3>2
  <2>11. /\ \A k \in 1..N' : k > Answered' /\ Line'[k].req.cmd = "upload" => Line'[k].req.off >= devOff'
    BY <1>2, <1>4, <1>6, <2>9
  <2>12. acked <= devOff'
    <3>1. acked <= devOff
      BY <2>2 DEF Pipelined
    <3>. QED  BY <1>2, <1>3, <2>7, <3>1
  <2>13. Pipelined(m)'
    BY <1>1, <2>2, <2>3, <2>8, <2>10, <2>11, <2>12 DEF Pipelined
  <2>. QED  BY <2>13
<1>. QED
  BY <1>10, <1>11, <1>12, <1>13, <1>14 DEF LineInv

\* An erase the device has yet to see was written by the arm that waits for
\* it, or by one that gave up on it.
LEMMA EraseWaits ==
    ASSUME Inv, LineInv, Answered + 1 \in 1..N, Line[Answered + 1].req.cmd = "erase"
    PROVE  /\ phase \in {"seq", "seq_wait", "erase_wait", "failed"}
           /\ phase \in {"seq", "seq_wait"} => offset = 0
           /\ phase = "seq_wait" => Line[Answered + 1].seq # want
<1>1. /\ Answered \in Nat /\ N \in Nat /\ Answered + 1 > Answered /\ N # 0 /\ offset \in Nat
      /\ LinkTypeOK
  BY Numbers
<1>2. PICK k \in 1..N : k = Answered + 1 /\ k > Answered /\ Line[k].req.cmd = "erase"
  BY <1>1
<1>3. phase \notin {"start", "state_wait", "erase", "done"}
  BY <1>1, <1>2 DEF LineInv, BeforeUpload, EraseInv, DoneInv
<1>4. phase # "win"
  <2>. SUFFICES ASSUME phase = "win" PROVE FALSE
    OBVIOUS
  <2>1. PICK m \in Nat : Pipelined(m)
    BY DEF LineInv, WindowInv
  <2>2. InWindow(k, m)
    BY <2>1 DEF Pipelined
  <2>. QED  BY <1>2, <2>2 DEF InWindow, ChunkAt
<1>5. phase \in {"seq", "seq_wait"} => offset = 0
  BY <1>1, <1>2 DEF LineInv, SequentialInv
<1>6. phase = "seq_wait" => Line[k].seq # want
  BY <1>2 DEF LineInv, SequentialInv, ChunkAt
<1>. QED  BY <1>2, <1>3, <1>4, <1>5, <1>6 DEF Inv, TypeOK, Phases

\* The device erases the slot and says so.
LEMMA ErasedKeeps ==
    ASSUME Assumptions, Inv, Inv', LineInv, NEW rsp, Answers(rsp), UNCHANGED host,
           Served.cmd = "erase", rsp.off = NoOff, EraseSlot
    PROVE  LineInv'
<1>1. /\ UNCHANGED <<phase, want, chunk, window, erased, offset, attempt, stalls>>
      /\ UNCHANGED <<seq, up>> /\ devOff' = 0 /\ stored' = {}
  BY DEF host, tuning, seqVars, winVars, Answers, EraseSlot
<1>2. /\ LinkTypeOK /\ N \in Nat /\ Answered \in Nat
      /\ N' = N /\ Answered' = Answered + 1 /\ Answered + 1 \in 1..N
      /\ Line[Answered + 1].req = Served
  BY Numbers DEF Answers
<1>3. /\ \A k \in 1..N : Old'[k] = Old[k] /\ Line'[k].seq = Line[k].seq /\ Line'[k].req = Line[k].req
      /\ InOrder => InOrder'
  BY <1>2, AnswersOld DEF Answers
<1>4. \A k \in 1..Answered' :
         /\ k \in 1..N
         /\ \/ k \in 1..Answered /\ Line'[k].rsp = Line[k].rsp
            \/ k = Answered + 1 /\ Line'[k].rsp = rsp /\ Line[k].req = Served
  BY <1>2, AnswersSplit
<1>5. \A k \in 1..N : k > Answered' => k > Answered
  BY <1>2
<1>6. Age(want)' = Age(want) /\ Slack' = Slack /\ MaxAttempts' = MaxAttempts
      /\ \A off : ChunkAt(off)' = ChunkAt(off)
  BY <1>1, SameChunks DEF Age, Slack, MaxAttempts
<1>7. /\ phase \in {"seq", "seq_wait", "erase_wait", "failed"}
      /\ phase \in {"seq", "seq_wait"} => offset = 0
      /\ phase = "seq_wait" => Line[Answered + 1].seq # want
  BY <1>2, EraseWaits
<1>8. PrefixStored' /\ NumbersLeft' /\ (Live => InOrder)'
  <2>1. 0..(0 - 1) = {}
    OBVIOUS
  <2>. QED  BY <1>1, <1>3, <2>1 DEF LineInv, PrefixStored, NumbersLeft, Live, Awaits, AwaitsNumber
<1>9. OffsetsAnswerChunks'
  <2>. SUFFICES ASSUME NEW k \in 1..Answered', Line'[k].req.cmd # "upload"
                PROVE  Line'[k].rsp.off = NoOff
    BY DEF OffsetsAnswerChunks, NoOff
  <2>. QED  BY <1>3, <1>4 DEF LineInv, OffsetsAnswerChunks
<1>10. BeforeUpload' /\ WindowInv' /\ DoneInv'
  BY <1>1, <1>7 DEF BeforeUpload, WindowInv, DoneInv
<1>11. EraseInv'
  BY <1>1, <1>2, <1>3, <1>6 DEF LineInv, EraseInv
<1>12. SequentialInv'
  <2>1. ASSUME phase = "seq_wait", NEW k \in 1..N, Line'[k].seq = want
        PROVE  ~(k <= Answered')
    <3>1. Line[k].seq = want
      BY <1>3, <2>1
    <3>2. k # Answered + 1 /\ ~(k \in 1..Answered)
      BY <1>2, <1>7, <2>1, <3>1, NotYetAnswered
    <3>. QED  BY <1>2, <3>2
  <2>2. phase \in {"seq", "seq_wait"} => offset <= devOff' /\ ~(offset > 0)
    BY <1>1, <1>7
  <2>. QED  BY <1>1, <1>2, <1>3, <1>5, <1>6, <2>1, <2>2 DEF LineInv, SequentialInv
<1>. QED
  BY <1>8, <1>9, <1>10, <1>11, <1>12 DEF LineInv

\* The device erases the slot, and the link does not live to say so.
LEMMA EraseDropKeeps ==
    ASSUME Assumptions, Inv, Inv', LineInv, EraseDropsLink, UNCHANGED host
    PROVE  LineInv'
<1>1. LinkTypeOK /\ LinkTypeOK' /\ N \in Nat /\ Answered \in Nat /\ N' \in Nat
  BY Numbers, NewLengths DEF Inv, TypeOK
<1>2. PICK h : Leaves(h)
  BY <1>1, LossFewer DEF EraseDropsLink, Fewer
<1>3. /\ UNCHANGED <<phase, want, chunk, window, erased, offset, attempt, stalls>>
      /\ UNCHANGED seq /\ up' = FALSE /\ devOff' = 0 /\ stored' = {}
      /\ toDev # <<>> /\ Head(toDev).req.cmd = "erase"
  BY DEF host, tuning, seqVars, winVars, EraseDropsLink, EraseSlot, DropLink, Serving
<1>4. Answered + 1 \in 1..N /\ Line[Answered + 1].req.cmd = "erase"
  <2>1. Len(toDev) \in Nat /\ Len(toDev) >= 1 /\ Head(toDev) = toDev[1]
    BY <1>1, <1>3, TailKeeps DEF LinkTypeOK
  <2>2. N = Answered + Len(toDev)
    BY <1>1, Lengths
  <2>3. PICK k \in 1..N : k = Answered + 1
    BY <1>1, <2>1, <2>2
  <2>4. k > Answered /\ k - Answered = 1
    BY <1>1, <2>3
  <2>5. Line[k] = toDev[k - Answered]
    BY <1>1, <2>4, Place
  <2>. QED  BY <1>3, <2>1, <2>3, <2>4, <2>5
<1>5. /\ phase \in {"seq", "seq_wait", "erase_wait", "failed"}
      /\ phase \in {"seq", "seq_wait"} => offset = 0
  BY <1>4, EraseWaits
<1>6. \A k \in 1..N' :
         /\ h[k] \in 1..N /\ Old'[k] = Old[h[k]]
         /\ Line'[k].seq = Line[h[k]].seq /\ Line'[k].req = Line[h[k]].req
         /\ k <= Answered' => h[k] \in 1..Answered
  <2>1. \A k \in 1..N' :
           /\ h[k] \in 1..N /\ Old'[k] = Old[h[k]]
           /\ Line'[k].seq = Line[h[k]].seq /\ Line'[k].req = Line[h[k]].req
           /\ k <= Answered' => h[k] <= Answered
    BY <1>1, <1>2, <1>3, LeavesOld DEF Leaves
  <2>. QED  BY <1>1, <2>1
<1>7. Age(want)' = Age(want) /\ Slack' = Slack /\ MaxAttempts' = MaxAttempts
      /\ \A off : ChunkAt(off)' = ChunkAt(off)
  BY <1>3, SameChunks DEF Age, Slack, MaxAttempts
<1>8. PrefixStored' /\ NumbersLeft' /\ OffsetsAnswerChunks'
  <2>1. 0..(0 - 1) = {}
    OBVIOUS
  <2>. QED  BY <1>1, <1>2, <1>3, <2>1, LeavesOffsets DEF LineInv, PrefixStored, NumbersLeft
<1>9. (Live => InOrder)'
  BY <1>1, <1>2, <1>3, LeavesInOrder DEF LineInv, Live, Awaits, AwaitsNumber
<1>10. BeforeUpload' /\ WindowInv' /\ DoneInv'
  BY <1>3, <1>5 DEF BeforeUpload, WindowInv, DoneInv
<1>11. EraseInv'
  BY <1>3, <1>5, <1>6, <1>7 DEF LineInv, EraseInv
<1>12. SequentialInv'
  <2>1. ASSUME phase = "seq_wait", NEW k \in 1..N', Line'[k].seq = want
        PROVE  ~(k <= Answered')
    BY <1>4, <1>6, <2>1, NotYetAnswered
  <2>2. phase \in {"seq", "seq_wait"} => offset <= devOff' /\ ~(offset > 0)
    BY <1>3, <1>5
  <2>. QED  BY <1>1, <1>3, <1>6, <1>7, <2>1, <2>2 DEF LineInv, SequentialInv
<1>. QED
  BY <1>8, <1>9, <1>10, <1>11, <1>12 DEF LineInv

\* The bytes below an offset and those of a chunk at it.
LEMMA PrefixGrows ==
    ASSUME NEW a \in Nat, NEW b \in Nat
    PROVE  (0..(a - 1)) \cup (a..(a + b - 1)) = 0..(a + b - 1)
OBVIOUS

LEMMA DeviceKeeps ==
    ASSUME Assumptions, Inv, Inv', LineInv, DeviceStep \/ RefuseAny, UNCHANGED host
    PROVE  LineInv'
<1>. USE ParameterTypes
<1>1. toDev # <<>> /\ LinkTypeOK /\ LinkTypeOK' /\ devOff \in 0..Total /\ devOff' \in 0..Total
  BY DEF DeviceStep, AcceptFirst, AcceptNext, Repeat, RefuseChunk, Erased, ReportState,
         RefuseAny, Serving, Inv, TypeOK, DeviceTypeOK
<1>2. Served.off \in Nat /\ Served.len \in Nat
  BY <1>1, ServedType
<1>3. /\ \A off \in 0..Total : [rc |-> "ok", off |-> off] \in ReplyBody
      /\ \A rc \in {"ok", "busy", "other"} : [rc |-> rc, off |-> NoOff] \in ReplyBody
  BY DEF ReplyBody, NoOff
<1>4. CASE AcceptFirst
  <2>. DEFINE rsp == [rc |-> "ok", off |-> devOff']
  <2>1. /\ Answer(rsp) /\ rsp \in ReplyBody /\ rsp.off = devOff'
        /\ Served.cmd = "upload" /\ Served.off = 0 /\ devOff' = Served.len
        /\ stored' = Bytes(Served)
    BY <1>1, <1>3, <1>4 DEF AcceptFirst, Serving, Served
  <2>. HIDE DEF rsp
  <2>2. Answers(rsp) /\ devOff' = Served.off + Served.len
    BY <1>1, <1>2, <2>1, AnswerAnswers
  <2>3. PrefixStored'
    BY <1>2, <2>1 DEF PrefixStored, Bytes
  <2>. QED  BY <2>1, <2>2, <2>3, AcceptKeeps
<1>5. CASE AcceptNext
  <2>. DEFINE rsp == [rc |-> "ok", off |-> devOff']
  <2>1. /\ Answer(rsp) /\ rsp \in ReplyBody /\ rsp.off = devOff'
        /\ Served.cmd = "upload" /\ Served.off = devOff /\ devOff' = devOff + Served.len
        /\ stored' = stored \cup Bytes(Served)
    BY <1>1, <1>3, <1>5 DEF AcceptNext, Serving, Served
  <2>. HIDE DEF rsp
  <2>2. Answers(rsp) /\ devOff' = Served.off + Served.len
    BY <1>1, <2>1, AnswerAnswers
  <2>3. PrefixStored'
    <3>1. stored' = (0..(devOff - 1)) \cup (devOff..(devOff + Served.len - 1))
      BY <2>1 DEF LineInv, PrefixStored, Bytes
    <3>. QED  BY <1>1, <1>2, <2>1, <3>1, PrefixGrows DEF PrefixStored
  <2>. QED  BY <2>1, <2>2, <2>3, AcceptKeeps
<1>6. CASE Repeat
  <2>. DEFINE rsp == [rc |-> "ok", off |-> devOff]
  <2>1. /\ Answer(rsp) /\ rsp \in ReplyBody /\ rsp.off = devOff
        /\ Served.cmd = "upload" /\ UNCHANGED device
    BY <1>1, <1>3, <1>6 DEF Repeat, Serving, Served
  <2>. HIDE DEF rsp
  <2>. QED  BY <1>1, <2>1, AnswerAnswers, ReplyKeeps
<1>7. ASSUME NEW rc \in {"ok", "busy", "other"}, Answer([rc |-> rc, off |-> NoOff]), UNCHANGED device
      PROVE  LineInv'
  <2>. DEFINE rsp == [rc |-> rc, off |-> NoOff]
  <2>1. Answer(rsp) /\ rsp \in ReplyBody /\ rsp.off = NoOff
    BY <1>3, <1>7
  <2>. HIDE DEF rsp
  <2>. QED  BY <1>1, <1>7, <2>1, AnswerAnswers, ReplyKeeps
<1>8. CASE Erased
  <2>. DEFINE rsp == [rc |-> "ok", off |-> NoOff]
  <2>1. /\ Answer(rsp) /\ rsp \in ReplyBody /\ rsp.off = NoOff
        /\ Served.cmd = "erase" /\ EraseSlot
    BY <1>1, <1>3, <1>8 DEF Erased, Serving, Served
  <2>. HIDE DEF rsp
  <2>. QED  BY <1>1, <2>1, AnswerAnswers, ErasedKeeps
<1>. QED
  BY <1>4, <1>5, <1>6, <1>7, <1>8 DEF DeviceStep, RefuseChunk, ReportState, RefuseAny

LEMMA FaultKeeps ==
    ASSUME Assumptions, Inv, Inv', LineInv, Fault
    PROVE  LineInv'
<1>1. UNCHANGED host
  BY DEF Fault
<1>2. CASE RefuseAny
  BY <1>1, <1>2, DeviceKeeps
<1>3. CASE EraseDropsLink
  BY <1>1, <1>3, EraseDropKeeps
<1>4. CASE (LoseRequest \/ LoseResponse \/ GarbleResponse \/ DropLink) /\ UNCHANGED device
  <2>1. Fewer
    BY <1>4, LossFewer DEF Inv, TypeOK
  <2>2. seq' = seq /\ (up' => up)
    BY <1>4 DEF LoseRequest, LoseResponse, GarbleResponse, DropLink
  <2>. QED  BY <1>1, <1>4, <2>1, <2>2, FewerKeeps
<1>. QED  BY <1>2, <1>3, <1>4 DEF Fault

-----------------------------------------------------------------------------
(* The invariant holds.                                                    *)

LEMMA LineInit ==
    ASSUME Assumptions, Init
    PROVE  LineInv
<1>1. Inv
  BY InitType
<1>2. /\ phase = "start" /\ devOff = 0 /\ stored = {}
      /\ buf = <<>> /\ notif = <<>> /\ toDev = <<>>
      /\ chunk \in Chunks /\ window \in Windows
  BY DowngradesLeft DEF Init, LinkInit, DeviceInit
<1>3. N = 0 /\ Answered = 0
  BY <1>2 DEF N, Answered
<1>4. /\ window + 3 + 2 * Downgrades[chunk] <= SeqMod
      /\ window \in Nat \ {0} /\ Downgrades[chunk] \in Nat /\ SeqMod \in Nat
  BY <1>1, <1>2, DowngradesLeft, Numbers DEF NumbersSuffice
<1>5. NumbersLeft
  BY <1>4 DEF NumbersLeft
<1>6. PrefixStored /\ OffsetsAnswerChunks /\ InOrder
  BY <1>2, <1>3 DEF PrefixStored, OffsetsAnswerChunks, InOrder
<1>7. BeforeUpload /\ WindowInv /\ SequentialInv /\ EraseInv /\ DoneInv
  BY <1>2, <1>3 DEF BeforeUpload, WindowInv, SequentialInv, EraseInv, DoneInv
<1>. QED  BY <1>5, <1>6, <1>7 DEF LineInv

LEMMA LineStep ==
    ASSUME Assumptions, Inv, Inv', LineInv, [Next]_vars
    PROVE  LineInv'
<1>1. CASE HostStep
  BY <1>1, StartKeeps, SequentialKeeps, WindowedKeeps, EraseKeeps, StreamKeeps DEF HostStep
<1>2. CASE DeviceAnswers
  BY <1>2, DeviceKeeps DEF DeviceAnswers
<1>3. CASE Fault
  BY <1>3, FaultKeeps
<1>4. CASE UNCHANGED vars
  <2>1. UNCHANGED <<seq, toDev, notif, buf, up, device, host>>
    BY <1>4 DEF vars, link
  <2>2. Fewer
    BY <2>1, TakeFewer DEF Inv, TypeOK
  <2>. QED  BY <2>1, <2>2, FewerKeeps
<1>. QED  BY <1>1, <1>2, <1>3, <1>4 DEF Next

LEMMA Invariant ==
    ASSUME Assumptions
    PROVE  Spec => [](Inv /\ LineInv)
<1>1. Init => Inv /\ LineInv
  BY InitType, LineInit
<1>2. (Inv /\ LineInv) /\ [Next]_vars => (Inv /\ LineInv)'
  BY StepType, LineStep
<1>. QED  BY <1>1, <1>2, PTL DEF Spec

-----------------------------------------------------------------------------
(* What it says of the upload.                                             *)

\* An offset that either loop has reached is covered by the slot: the bytes
\* below it are there, whatever was lost, answered late, refused or erased on
\* the way (upload_sequential, upload_windowed).
THEOREM OffsetsAreStored ==
    ASSUME Assumptions
    PROVE  Spec => []AckedBytesAreStored
<1>1. ASSUME Inv, LineInv PROVE AckedBytesAreStored
  <2>1. /\ devOff \in Nat /\ offset \in Nat /\ acked \in Nat
        /\ stored = 0..(devOff - 1)
    BY <1>1, Numbers DEF LineInv, PrefixStored
  <2>2. phase \in {"seq", "seq_wait"} => offset <= devOff
    BY <1>1 DEF LineInv, SequentialInv
  <2>3. phase = "win" => acked <= devOff
    BY <1>1 DEF LineInv, WindowInv, Pipelined
  <2>. QED  BY <2>1, <2>2, <2>3 DEF AckedBytesAreStored
<1>2. Inv /\ LineInv => AckedBytesAreStored
  BY <1>1
<1>. QED  BY <1>2, Invariant, PTL

\* Success is reported only over a complete image (upload_with_fallback).
THEOREM DoneIsComplete ==
    ASSUME Assumptions
    PROVE  Spec => []UploadedIsComplete
<1>1. Inv /\ LineInv => UploadedIsComplete
  BY DEF LineInv, PrefixStored, DoneInv, UploadedIsComplete
<1>. QED  BY <1>1, Invariant, PTL

LEMMA StepAnswersItsChunk ==
    ASSUME Inv, LineInv, [Next]_vars,
           phase = "seq_wait", phase' \in {"seq", "done"}, offset' # offset
    PROVE  Head(buf).req = ChunkAt(offset)
<1>1. CASE SeqProgress \/ SeqStall
  <2>1. Matches(want)
    BY <1>1 DEF SeqProgress, SeqStall, SeqAnswered
  <2>2. Line[1] = Head(buf) /\ 1 \in 1..N
    BY <2>1, AnswerIsLast
  <2>. QED  BY <2>1, <2>2 DEF LineInv, SequentialInv, Matches
<1>2. CASE SeqSend \/ SeqWriteFails \/ WindowedStep
  BY <1>2 DEF SeqSend, SeqWriteFails, WindowedStep, WinSend, WinWriteFails, WinProgress,
              WinStall, WinGivesUp, WinReadFails, WinReceived
<1>3. CASE SeqNeedsErase \/ SeqRefused
  BY <1>3 DEF SeqNeedsErase, SeqRefused, OnSlotNeedsErase, Fail
<1>4. CASE SeqReadFails
  BY <1>4 DEF SeqReadFails, AttemptFails, OnMtuTooLarge, SequentialFromZero, Fail
<1>5. CASE SkipReadState \/ ReadState \/ StateWriteFails \/ StateReturns
  BY <1>5 DEF SkipReadState, ReadState, StateWriteFails, StateReturns
<1>6. CASE EraseSend \/ EraseWriteFails \/ EraseAcked \/ EraseFails
  BY <1>6 DEF EraseSend, EraseWriteFails, EraseAcked, EraseFails
<1>7. CASE ReadStream \/ SkipStale \/ Disconnect \/ DeviceAnswers \/ Fault \/ UNCHANGED vars
  <2>1. UNCHANGED host
    BY <1>7 DEF ReadStream, SkipStale, Disconnect, DeviceAnswers, Fault, vars
  <2>. QED  BY <2>1 DEF host, seqVars
<1>. QED
  BY <1>1, <1>2, <1>3, <1>4, <1>5, <1>6, <1>7 DEF Next, HostStep, SequentialStep

\* The sequential loop moves on the answer to the very chunk it waits for
\* (read_response matches numbers only, and a number comes round).
THEOREM AnswersMatchChunks ==
    ASSUME Assumptions
    PROVE  Spec => AckAnswersItsChunk
<1>1. (Inv /\ LineInv) /\ [Next]_vars =>
         [(phase = "seq_wait" /\ phase' \in {"seq", "done"} /\ offset' # offset)
             => Head(buf).req = ChunkAt(offset)]_vars
  BY StepAnswersItsChunk
<1>. QED  BY <1>1, Invariant, PTL DEF Spec, AckAnswersItsChunk

-----------------------------------------------------------------------------
(* The window.                                                             *)

\* The chunks in a queue are no more than its frames, and fewer when the
\* first is none.
LEMMA UploadsCount ==
    ASSUME NEW S, NEW q \in Seq(S)
    PROVE  /\ Uploads(q) \in Nat /\ Uploads(q) <= Len(q)
           /\ q # <<>> /\ q[1].req.cmd # "upload" => Uploads(q) <= Len(q) - 1
<1>. DEFINE T == {i \in 1..Len(q) : q[i].req.cmd = "upload"}
<1>1. Len(q) \in Nat /\ (q # <<>> => Len(q) >= 1)
  BY LenProperties, TailKeeps
<1>2. /\ IsFiniteSet(1..Len(q)) /\ Cardinality(1..Len(q)) = Len(q)
      /\ IsFiniteSet(2..Len(q)) /\ (Len(q) >= 1 => Cardinality(2..Len(q)) = Len(q) - 1)
  <2>1. PICK n \in Int : n = Len(q) /\ n >= 0
    BY <1>1
  <2>2. IsFiniteSet(1..n) /\ IsFiniteSet(2..n)
    BY FS_Interval
  <2>3. Cardinality(1..n) = IF 1 > n THEN 0 ELSE n - 1 + 1
    BY FS_Interval
  <2>4. Cardinality(2..n) = IF 2 > n THEN 0 ELSE n - 2 + 1
    BY FS_Interval
  <2>. QED  BY <2>1, <2>2, <2>3, <2>4
<1>3. IsFiniteSet(T) /\ Cardinality(T) <= Len(q)
  <2>1. T \in SUBSET (1..Len(q))
    OBVIOUS
  <2>2. IsFiniteSet(1..Len(q)) /\ Cardinality(1..Len(q)) = Len(q)
    BY <1>2
  <2>. HIDE DEF T
  <2>3. IsFiniteSet(T) /\ Cardinality(T) <= Cardinality(1..Len(q))
    BY <2>1, <2>2, FS_Subset
  <2>. QED  BY <2>2, <2>3
<1>4. Cardinality(T) \in Nat
  BY <1>3, FS_CardinalityType
<1>5. ASSUME q # <<>>, q[1].req.cmd # "upload" PROVE Cardinality(T) <= Len(q) - 1
  <2>1. T \in SUBSET (2..Len(q))
    BY <1>1, <1>5
  <2>. HIDE DEF T
  <2>2. Cardinality(T) <= Cardinality(2..Len(q))
    BY <1>2, <2>1, FS_Subset
  <2>. QED  BY <1>1, <1>2, <1>5, <2>2
<1>. QED  BY <1>3, <1>4, <1>5 DEF Uploads

\* Less than the whole line is in flight when a frame that is no chunk leads.
LEMMA InFlightCount ==
    ASSUME LinkTypeOK
    PROVE  /\ InFlight \in Nat /\ InFlight <= N
           /\ N >= 1 /\ Line[1].req.cmd # "upload" => InFlight <= N - 1
<1>. DEFINE ub == Uploads(buf)
            un == Uploads(notif)
            ud == Uploads(toDev)
            lb == Len(buf)
            ln == Len(notif)
            ld == Len(toDev)
<1>1. buf \in Seq(Response) /\ notif \in Seq(Response) /\ toDev \in Seq(Request)
  BY DEF LinkTypeOK
<1>2. /\ ub \in Nat /\ ub <= lb /\ (buf # <<>> /\ buf[1].req.cmd # "upload" => ub <= lb - 1)
      /\ un \in Nat /\ un <= ln /\ (notif # <<>> /\ notif[1].req.cmd # "upload" => un <= ln - 1)
      /\ ud \in Nat /\ ud <= ld /\ (toDev # <<>> /\ toDev[1].req.cmd # "upload" => ud <= ld - 1)
  BY <1>1, UploadsCount
<1>3. /\ lb \in Nat /\ ln \in Nat /\ ld \in Nat
      /\ (buf = <<>> <=> lb = 0) /\ (notif = <<>> <=> ln = 0) /\ (toDev = <<>> <=> ld = 0)
  BY <1>1, LenProperties, TailKeeps
<1>4. N = lb + ln + ld /\ Answered = lb + ln /\ InFlight = ud + un + ub
  BY DEF N, Answered, InFlight
<1>5. ASSUME N >= 1, Line[1].req.cmd # "upload"
      PROVE  \/ buf # <<>> /\ buf[1].req.cmd # "upload"
             \/ notif # <<>> /\ notif[1].req.cmd # "upload"
             \/ toDev # <<>> /\ toDev[1].req.cmd # "upload"
  <2>1. 1 \in 1..N
    BY <1>5, Lengths
  <2>2. Line[1] = IF 1 <= lb THEN buf[1] ELSE IF 1 <= Answered THEN notif[1 - lb]
                  ELSE toDev[1 - Answered]
    BY <2>1 DEF Line
  <2>3. CASE lb >= 1
    BY <1>3, <1>5, <2>2, <2>3
  <2>4. CASE lb = 0 /\ ln >= 1
    <3>1. ~(1 <= lb) /\ 1 <= Answered /\ 1 - lb = 1
      BY <1>3, <1>4, <2>4
    <3>. QED  BY <1>3, <1>5, <2>2, <2>4, <3>1
  <2>5. CASE lb = 0 /\ ln = 0
    <3>1. ~(1 <= lb) /\ ~(1 <= Answered) /\ 1 - Answered = 1 /\ ld # 0
      BY <1>3, <1>4, <1>5, <2>5
    <3>. QED  BY <1>3, <1>5, <2>2, <3>1
  <2>. QED  BY <1>3, <2>3, <2>4, <2>5
<1>. HIDE DEF ub, un, ud, lb, ln, ld
<1>6. InFlight \in Nat /\ InFlight <= N
  BY <1>2, <1>3, <1>4
<1>7. N >= 1 /\ Line[1].req.cmd # "upload" => InFlight <= N - 1
  BY <1>2, <1>3, <1>4, <1>5
<1>. QED  BY <1>6, <1>7

LEMMA WindowHolds ==
    ASSUME Inv, LineInv, phase = "win"
    PROVE  noProgress + InFlight <= window
<1>1. /\ LinkTypeOK /\ N \in Nat /\ noProgress \in Nat /\ window \in Nat /\ InFlight \in Nat
      /\ InFlight <= N
  BY Numbers, InFlightCount
<1>2. PICK m \in Nat : Pipelined(m)
  BY DEF LineInv, WindowInv
<1>3. noProgress <= window
  BY <1>2 DEF Pipelined
<1>4. CASE N = 0
  BY <1>1, <1>3, <1>4
<1>5. CASE N # 0
  <2>1. 1 \in 1..N /\ N >= 1
    BY <1>1, <1>5
  <2>2. PICK a \in Nat : a = Old[1] /\ a >= N
    <3>1. InOrder
      BY DEF LineInv, Live, Awaits
    <3>2. Old[1] >= N + 1 - 1
      BY <2>1, <3>1 DEF InOrder
    <3>3. Old[1] \in Nat
      BY <1>1, <2>1, FrameTypes, SeqModAssumption
    <3>. QED  BY <1>1, <3>2, <3>3
  <2>3. InWindow(1, m)
    BY <1>2, <2>1 DEF Pipelined
  <2>4. CASE a + noProgress <= window
    BY <1>1, <2>2, <2>4
  <2>5. CASE Line[1].req.cmd = "state" /\ noProgress = 0 /\ a <= window + 1
    <3>1. InFlight <= N - 1
      BY <1>1, <2>1, <2>5, InFlightCount
    <3>. QED  BY <1>1, <2>2, <2>5, <3>1
  <2>. QED  BY <2>2, <2>3, <2>4, <2>5 DEF InWindow
<1>. QED  BY <1>4, <1>5

\* The chunks in flight and the acks without progress stay within the window
\* together (CanSend measures it from acked), so the loop never has the
\* resync_after = window + 4 such acks it rewinds on.
THEOREM StallsStayInWindow ==
    ASSUME Assumptions
    PROVE  Spec => []StallsFitWindow
<1>1. Inv /\ LineInv => StallsFitWindow
  BY WindowHolds DEF StallsFitWindow
<1>. QED  BY <1>1, Invariant, PTL

\* On a device without the offset of an earlier upload (Leftovers = {0} is one of
\* the Assumptions), the device is between what is acked and what was sent for as
\* long as the pipelined loop runs, and no ack on the link is ahead of it
\* (DeviceInWindow): the usize subtraction sent - acked does not wrap then.
THEOREM DeviceStaysInWindow ==
    ASSUME Assumptions
    PROVE  Spec => []DeviceInWindow
<1>1. ASSUME Inv, LineInv, phase = "win"
      PROVE  /\ acked <= devOff /\ devOff <= sent
             /\ \A i \in 1..Len(notif) : notif[i].rsp.off <= devOff
             /\ \A i \in 1..Len(buf) : buf[i].rsp.off <= devOff
  <2>1. PICK m \in Nat : Pipelined(m)
    BY <1>1 DEF LineInv, WindowInv
  <2>2. /\ acked <= devOff /\ devOff <= sent
        /\ \A k \in 1..Answered : Line[k].rsp.off <= devOff
    BY <2>1 DEF Pipelined
  <2>3. PICK b, n, t \in Nat : b = Len(buf) /\ n = Len(notif) /\ t = Len(toDev)
    BY <1>1, Numbers, Lengths
  <2>4. Answered = b + n /\ N = b + n + t
    BY <2>3 DEF Answered, N
  <2>5. ASSUME NEW i \in 1..b PROVE buf[i].rsp.off <= devOff
    <3>1. i \in 1..(b + n) /\ i \in 1..(b + n + t) /\ i <= b
      BY <2>5
    <3>2. Line[i] = buf[i]
      BY <2>3, <2>4, <3>1 DEF Line
    <3>. QED  BY <2>2, <2>4, <3>1, <3>2
  <2>6. ASSUME NEW i \in 1..n PROVE notif[i].rsp.off <= devOff
    <3>1. /\ b + i \in 1..(b + n) /\ b + i \in 1..(b + n + t)
          /\ ~(b + i <= b) /\ b + i <= b + n /\ (b + i) - b = i
      BY <2>6
    <3>2. Line[b + i] = notif[i]
      BY <2>3, <2>4, <3>1 DEF Line
    <3>. QED  BY <2>2, <2>4, <3>1, <3>2
  <2>. QED  BY <2>2, <2>3, <2>5, <2>6
<1>2. Inv /\ LineInv => DeviceInWindow
  BY <1>1 DEF DeviceInWindow
<1>. QED  BY <1>2, Invariant, PTL

\* For no file, chunk, window or pattern of faults does upload_windowed resync
\* to the first offset the device is missing (NeverRewinds).
THEOREM ResyncNeverHappens ==
    ASSUME Assumptions
    PROVE  Spec => NeverRewinds
<1>1. ASSUME Inv, LineInv, [Next]_vars, phase = "win", phase' = "win"
      PROVE  sent' >= sent
  <2>1. sent \in Nat /\ noProgress \in Nat /\ InFlight \in Nat /\ window \in Nat
    BY <1>1, Numbers, InFlightCount DEF Inv, TypeOK, LoopsTypeOK
  <2>2. noProgress + InFlight <= window
    BY <1>1, WindowHolds
  <2>3. CASE WinSend
    <3>1. sent' = sent + ChunkAt(sent).len /\ ChunkAt(sent).len \in Nat
      <4>1. sent < Total /\ sent \in 0..Total /\ chunk \in Nat \ {0}
        BY <1>1, <2>3, Numbers DEF WinSend, CanSend
      <4>2. ChunkAt(sent) \in RequestBody
        BY <4>1, ChunkType
      <4>3. ChunkAt(sent).len \in 0..Total
        BY <4>2 DEF RequestBody
      <4>. QED  BY <2>3, <4>3, ParameterTypes DEF WinSend
    <3>. QED  BY <2>1, <3>1
  <2>4. CASE WinStall
    <3>1. ~(noProgress + 1 >= ResyncAfter)
      BY <2>1, <2>2 DEF ResyncAfter
    <3>. QED  BY <2>1, <2>4, <3>1 DEF WinStall
  <2>5. CASE WinProgress
    BY <2>1, <2>5 DEF WinProgress
  <2>6. CASE WinWriteFails \/ WinGivesUp \/ WinReadFails
    BY <1>1, <2>6 DEF WinWriteFails, WinGivesUp, WinReadFails, OnWindowedError, SequentialFromZero
  <2>7. CASE HostStep /\ ~WindowedStep /\ ~ReadStream
    BY <1>1, <2>7
       DEF HostStep, SkipReadState, ReadState, StateWriteFails, StateReturns, SequentialStep,
           SeqSend, SeqWriteFails, SeqReadFails, SeqProgress, SeqStall, SeqNeedsErase,
           SeqRefused, SeqAnswered, EraseSend, EraseWriteFails, EraseAcked, EraseFails,
           SkipStale, AwaitsNumber, Disconnect
  <2>8. CASE ReadStream \/ DeviceAnswers \/ Fault \/ UNCHANGED vars
    <3>1. sent' = sent
      BY <2>8 DEF ReadStream, DeviceAnswers, Fault, vars, host, winVars
    <3>. QED  BY <2>1, <3>1
  <2>. QED
    BY <1>1, <2>3, <2>4, <2>5, <2>6, <2>7, <2>8 DEF Next, WindowedStep
<1>2. (Inv /\ LineInv) /\ [Next]_vars => [(phase = "win" /\ phase' = "win") => sent' >= sent]_vars
  BY <1>1
<1>. QED  BY <1>2, Invariant, PTL DEF Spec, NeverRewinds

-----------------------------------------------------------------------------
(* The downgrades.                                                         *)

\* Each arm is only reached while what it lowers can be lowered.
TuningInv ==
    /\ phase = "win" => window > 1
    /\ phase \in {"erase", "erase_wait"} => ~erased

LEMMA SmallerIsLess ==
    ASSUME Inv, chunk > MinChunk
    PROVE  Smaller \in MinChunk..(chunk - 1)
<1>1. chunk \in Nat /\ MinChunk \in Nat
  BY ParameterTypes DEF Inv, TypeOK, TuningTypeOK
<1>2. PICK q \in Nat : q = (chunk * 3) \div 4 /\ 4 * q <= 3 * chunk
  BY <1>1
<1>3. q < chunk
  BY <1>1, <1>2
<1>4. Smaller = IF q >= MinChunk THEN q ELSE MinChunk
  BY <1>2 DEF Smaller, SmallerThan
<1>. QED  BY <1>1, <1>3, <1>4

\* Every way in which the loops return, with what it does to the tunings.
LEMMA WindowedDowngrades ==
    ASSUME Inv, TuningInv, WindowedStep
    PROVE  TuningInv' /\ (IF StartsOver THEN Downgrade ELSE UNCHANGED tuning)
<1>1. CASE WinSend \/ WinProgress \/ WinStall
  BY <1>1 DEF WinSend, WinProgress, WinStall, WinReceived, StartsOver, tuning, TuningInv
<1>2. CASE WinWriteFails \/ WinGivesUp \/ WinReadFails
  <2>1. phase = "win" /\ phase' = "seq" /\ window' = 1 /\ UNCHANGED <<chunk, erased>> /\ window > 1
        /\ offset' = 0 /\ attempt' = 0 /\ stalls' = 0
    BY <1>2 DEF WinWriteFails, WinGivesUp, WinReadFails, WinReceived, OnWindowedError,
                SequentialFromZero, TuningInv
  <2>. QED  BY <2>1 DEF StartsOver, Downgrade, TuningInv, host
<1>. QED  BY <1>1, <1>2 DEF WindowedStep

LEMMA SequentialDowngrades ==
    ASSUME Inv, TuningInv, SequentialStep
    PROVE  TuningInv' /\ (IF StartsOver THEN Downgrade ELSE UNCHANGED tuning)
<1>1. /\ attempt \in Nat /\ offset \in Nat /\ stalls \in Nat
      /\ chunk \in Nat /\ MinChunk \in Nat
  BY ParameterTypes DEF Inv, TypeOK, TuningTypeOK, LoopsTypeOK, LaterAttempts, MaxStalls
<1>2. CASE SeqSend
  BY <1>2 DEF SeqSend, StartsOver, tuning, TuningInv
<1>3. ASSUME NEW rest, phase \in {"seq", "seq_wait"}, AttemptFails(rest)
      PROVE  TuningInv' /\ (IF StartsOver THEN Downgrade ELSE UNCHANGED tuning)
  <2>1. CASE attempt' = attempt + 1 /\ phase' = "seq" /\ UNCHANGED tuning
    BY <1>1, <2>1 DEF StartsOver, TuningInv
  <2>2. CASE chunk > MinChunk /\ SequentialFromZero /\ chunk' = Smaller /\ UNCHANGED <<window, erased>>
            /\ attempt + 1 >= MaxAttempts
    <3>1. chunk' \in MinChunk..(chunk - 1) /\ phase' = "seq"
      BY <2>2, SmallerIsLess DEF SequentialFromZero
    <3>2. chunk' # chunk
      BY <1>1, <3>1
    <3>3. host' # host
      BY <3>2 DEF host, tuning
    <3>4. StartsOver
      BY <1>3, <2>2, <3>3 DEF StartsOver, SequentialFromZero
    <3>. QED  BY <2>2, <3>1, <3>4 DEF Downgrade, TuningInv
  <2>3. CASE Fail(rest)
    BY <2>3 DEF Fail, StartsOver, TuningInv
  <2>. QED  BY <1>3, <2>1, <2>2, <2>3 DEF AttemptFails, OnMtuTooLarge
<1>4. CASE SeqWriteFails \/ SeqReadFails
  BY <1>3, <1>4 DEF SeqWriteFails, SeqReadFails
<1>5. CASE SeqProgress
  <2>1. UNCHANGED tuning /\ phase' \in {"seq", "done"} /\ offset' > offset
    BY <1>5 DEF SeqProgress, ContinueFrom
  <2>. QED  BY <1>1, <2>1 DEF StartsOver, TuningInv
<1>6. CASE SeqStall
  <2>1. UNCHANGED tuning /\ phase' \in {"seq", "done"} /\ stalls' = stalls + 1
    BY <1>6 DEF SeqStall, ContinueFrom
  <2>. QED  BY <1>1, <2>1 DEF StartsOver, TuningInv
<1>7. CASE SeqNeedsErase \/ SeqRefused
  <2>1. UNCHANGED tuning /\ (phase' = "failed" \/ (phase' = "erase" /\ ~erased))
    BY <1>7 DEF SeqNeedsErase, SeqRefused, OnSlotNeedsErase, Fail
  <2>. QED  BY <2>1 DEF StartsOver, TuningInv, tuning
<1>. QED  BY <1>2, <1>4, <1>5, <1>6, <1>7 DEF SequentialStep

LEMMA StepDowngrades ==
    ASSUME Inv, TuningInv, [Next]_vars
    PROVE  TuningInv' /\ (IF StartsOver THEN Downgrade ELSE UNCHANGED tuning)
<1>1. CASE SkipReadState \/ ReadState \/ StateWriteFails \/ StateReturns
  <2>1. /\ phase \in {"start", "state_wait"} /\ UNCHANGED tuning
        /\ phase' \in {"state_wait", "win", "seq"} /\ (phase' = "win" => window > 1)
    BY <1>1 DEF SkipReadState, ReadState, StateWriteFails, StateReturns, EnterLoop,
                WindowedFromZero, SequentialFromZero
  <2>. QED  BY <2>1 DEF StartsOver, TuningInv, tuning
<1>2. CASE SequentialStep
  BY <1>2, SequentialDowngrades
<1>3. CASE WindowedStep
  BY <1>3, WindowedDowngrades
<1>4. CASE EraseSend \/ EraseWriteFails \/ EraseFails
  <2>1. phase \in {"erase", "erase_wait"} /\ UNCHANGED tuning /\ phase' \in {"erase_wait", "failed"}
    BY <1>4 DEF EraseSend, EraseWriteFails, EraseFails, Fail
  <2>. QED  BY <2>1 DEF StartsOver, TuningInv, tuning
<1>5. CASE EraseAcked
  <2>1. /\ phase = "erase_wait" /\ phase' = "seq" /\ ~erased /\ erased' /\ UNCHANGED <<chunk, window>>
        /\ offset' = 0 /\ attempt' = 0 /\ stalls' = 0
    BY <1>5 DEF EraseAcked, SequentialFromZero, TuningInv
  <2>. QED  BY <2>1 DEF StartsOver, Downgrade, TuningInv, host
<1>6. CASE ReadStream \/ SkipStale \/ Disconnect \/ DeviceAnswers \/ Fault \/ UNCHANGED vars
  <2>1. UNCHANGED host
    BY <1>6 DEF ReadStream, SkipStale, Disconnect, DeviceAnswers, Fault, vars
  <2>2. UNCHANGED <<phase, tuning>>
    BY <2>1 DEF host
  <2>. QED  BY <2>1, <2>2 DEF StartsOver, TuningInv, tuning
<1>. QED  BY <1>1, <1>2, <1>3, <1>4, <1>5, <1>6 DEF Next, HostStep

LEMMA TuningHolds == Spec => [](Inv /\ TuningInv)
<1>1. Init => Inv /\ TuningInv
  BY InitType DEF Init, TuningInv
<1>2. (Inv /\ TuningInv) /\ [Next]_vars => (Inv /\ TuningInv)'
  BY StepType, StepDowngrades
<1>. QED  BY <1>1, <1>2, PTL DEF Spec

\* Every time the upload starts over one tuning has been lowered, and nothing
\* ever raises one (EachArmDowngrades, upload_with_fallback).
THEOREM ArmsDowngrade == Spec => EachArmDowngrades
<1>1. (Inv /\ TuningInv) /\ [Next]_vars =>
         [IF StartsOver THEN Downgrade ELSE UNCHANGED tuning]_vars
  BY StepDowngrades
<1>. QED  BY <1>1, TuningHolds, PTL DEF Spec, EachArmDowngrades

LEMMA SumFalls ==
    ASSUME NEW c \in Nat, NEW d \in Nat, d < c, NEW a \in Nat, NEW b \in Nat
    PROVE  d + a + b < c + a + b
OBVIOUS

\* What is left to lower.
Rank == chunk + (IF window > 1 THEN 1 ELSE 0) + (IF erased THEN 0 ELSE 1)

\* Starting over costs rank, and nothing gives any back.
RestartsCost == [][(IF StartsOver THEN Rank' < Rank ELSE Rank' = Rank) /\ Rank \in Nat]_vars

\* The upload starts over finitely often, at most once per byte of the chunk
\* and twice more, whatever the link and the device do (RestartsCost): the
\* outermost loop of upload_with_fallback ends if its inner ones do.
THEOREM RestartsAreFinite == Spec => RestartsCost
<1>1. ASSUME Inv, Inv', TuningInv, [Next]_vars
      PROVE  (IF StartsOver THEN Rank' < Rank ELSE Rank' = Rank) /\ Rank \in Nat
  <2>1. /\ chunk \in Nat /\ window \in Nat /\ MinChunk \in Nat /\ chunk' \in Nat
    BY <1>1, ParameterTypes DEF Inv, TypeOK, TuningTypeOK
  <2>2. Rank \in Nat
    BY <2>1 DEF Rank
  <2>3. CASE StartsOver
    <3>1. Downgrade
      BY <1>1, <2>3, StepDowngrades
    <3>2. CASE window > 1 /\ window' = 1 /\ UNCHANGED <<chunk, erased>>
      BY <2>1, <2>2, <2>3, <3>2 DEF Rank
    <3>3. CASE chunk' \in MinChunk..(chunk - 1) /\ UNCHANGED <<window, erased>>
      <4>. DEFINE x == IF window > 1 THEN 1 ELSE 0
                  y == IF erased THEN 0 ELSE 1
      <4>1. chunk' < chunk
        BY <2>1, <3>3
      <4>2. x' = x /\ y' = y
        <5>1. window' = window /\ erased' = erased
          BY <3>3
        <5>. QED  BY <5>1
      <4>3. Rank = chunk + x + y /\ Rank' = chunk' + x' + y'
        BY Zenon DEF Rank
      <4>4. PICK a \in Nat, b \in Nat : a = x /\ b = y
        OBVIOUS
      <4>5. chunk' + a + b < chunk + a + b
        BY <2>1, <4>1, <4>4, SumFalls
      <4>. QED  BY <2>2, <2>3, <4>2, <4>3, <4>4, <4>5
    <3>4. CASE ~erased /\ erased' /\ UNCHANGED <<chunk, window>>
      BY <2>1, <2>2, <2>3, <3>4 DEF Rank
    <3>. QED  BY <3>1, <3>2, <3>3, <3>4 DEF Downgrade
  <2>4. CASE ~StartsOver
    <3>1. UNCHANGED tuning
      BY <1>1, <2>4, StepDowngrades
    <3>2. Rank' = Rank
      <4>1. chunk' = chunk /\ window' = window /\ erased' = erased
        BY <3>1 DEF tuning
      <4>. QED  BY <4>1 DEF Rank
    <3>. QED  BY <2>2, <2>4, <3>2
  <2>. QED  BY <2>3, <2>4
<1>2. (Inv /\ TuningInv) /\ (Inv /\ TuningInv)' /\ [Next]_vars =>
         [(IF StartsOver THEN Rank' < Rank ELSE Rank' = Rank) /\ Rank \in Nat]_vars
  BY <1>1
<1>. QED  BY <1>2, TuningHolds, PTL DEF Spec, RestartsCost

-----------------------------------------------------------------------------
(* The refinement.                                                         *)

\* Once success has been reported the device has no chunk and no erase left.
LEMMA DoneIsFinal ==
    ASSUME Inv, LineInv, phase = "done", DeviceStep \/ Fault
    PROVE  stored' = stored
<1>1. LinkTypeOK
  BY Numbers
<1>2. ASSUME toDev # <<>> PROVE Head(toDev).req.cmd = "state"
  <2>1. Len(toDev) \in Nat /\ Len(toDev) >= 1 /\ Head(toDev) = toDev[1]
    BY <1>1, <1>2, TailKeeps DEF LinkTypeOK
  <2>2. N = Answered + Len(toDev) /\ Answered \in Nat /\ N \in Nat
    BY <1>1, Lengths
  <2>3. PICK k \in 1..N : k = Answered + 1
    BY <2>1, <2>2
  <2>4. k > Answered /\ k - Answered = 1
    BY <2>2, <2>3
  <2>5. Line[k] = toDev[1]
    BY <1>1, <2>4, Place
  <2>. QED  BY <2>1, <2>4, <2>5 DEF LineInv, DoneInv
<1>3. ~Serving("upload") /\ ~Serving("erase")
  BY <1>2 DEF Serving
<1>. QED
  BY <1>3 DEF DeviceStep, AcceptFirst, AcceptNext, Repeat, RefuseChunk, Erased, ReportState,
              Fault, RefuseAny, EraseDropsLink, device

\* The command writes to the link and to its own variables, and ends once.
LEMMA HostLeavesSlot ==
    ASSUME HostStep
    PROVE  stored' = stored /\ (Ended => phase' = phase)
<1>1. CASE SkipReadState \/ ReadState \/ StateWriteFails \/ StateReturns
  BY <1>1 DEF SkipReadState, ReadState, StateWriteFails, StateReturns, device, Ended
<1>2. CASE SequentialStep
  BY <1>2 DEF SequentialStep, SeqSend, SeqWriteFails, SeqReadFails, SeqProgress, SeqStall,
              SeqNeedsErase, SeqRefused, SeqAnswered, device, Ended
<1>3. CASE WindowedStep
  BY <1>3 DEF WindowedStep, WinSend, WinWriteFails, WinProgress, WinStall, WinGivesUp,
              WinReadFails, WinReceived, device, Ended
<1>4. CASE EraseSend \/ EraseWriteFails \/ EraseAcked \/ EraseFails
  BY <1>4 DEF EraseSend, EraseWriteFails, EraseAcked, EraseFails, device, Ended
<1>5. CASE ReadStream \/ SkipStale \/ Disconnect
  BY <1>5 DEF ReadStream, SkipStale, Disconnect, device, host
<1>. QED  BY <1>1, <1>2, <1>3, <1>4, <1>5 DEF HostStep

LEMMA StepTransfers ==
    ASSUME Inv, Inv', LineInv, LineInv', [Next]_vars
    PROVE  [Transfer!Next]_(Transfer!vars)
<1>. USE DEF Transfer!Next, Transfer!vars, Transfer!Write, Transfer!Succeed, Transfer!GiveUp
<1>1. CASE HostStep
  <2>1. stored' = stored /\ (Ended => phase' = phase)
    BY <1>1, HostLeavesSlot
  <2>2. phase' = "done" => stored' = Transfer!Complete
    BY DEF LineInv, PrefixStored, DoneInv, Transfer!Complete
  <2>. QED  BY <2>1, <2>2 DEF Ended
<1>2. CASE DeviceAnswers \/ Fault
  <2>1. phase' = phase
    BY <1>2 DEF DeviceAnswers, Fault, host
  <2>2. phase = "done" => stored' = stored
    BY <1>2, DoneIsFinal DEF DeviceAnswers
  <2>3. stored' \in SUBSET Transfer!Complete
    BY DEF Inv, TypeOK, DeviceTypeOK, Transfer!Complete
  <2>. QED  BY <2>1, <2>2, <2>3 DEF Ended
<1>3. CASE UNCHANGED vars
  BY <1>3 DEF vars, device, host, Ended
<1>. QED  BY <1>1, <1>2, <1>3 DEF Next

\* The command implements ImageTransfer: it reports success over a slot that
\* holds the whole file, and nothing it left on the link touches it then.
THEOREM UploadTransfers ==
    ASSUME Assumptions
    PROVE  Spec => TransferSpec
<1>1. Init => Transfer!Init
  BY DEF Init, DeviceInit, Ended, Transfer!Init
<1>2. (Inv /\ LineInv) /\ (Inv /\ LineInv)' /\ [Next]_vars => [Transfer!Next]_(Transfer!vars)
  BY StepTransfers
<1>. QED  BY <1>1, <1>2, Invariant, PTL DEF Spec, TransferSpec, Transfer!Spec
=============================================================================
