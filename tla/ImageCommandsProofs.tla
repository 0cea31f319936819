------------------------- MODULE ImageCommandsProofs -------------------------
(***************************************************************************)
(* TLAPS proofs about ImageCommands, for every set of devices and images,  *)
(* every number of commands and faults, and every budget of time.          *)
(***************************************************************************)
EXTENDS ImageCommands, QueueFacts

-----------------------------------------------------------------------------
(* The time reconnect_fresh takes.  Between the attempts the clock is      *)
(* still below the budget, and before one it is a pause further on.        *)

InTime ==
    /\ clock \in Nat
    /\ phase = "attempt" => clock < Budget + SleepTime
    /\ phase = "sleeping" => clock < Budget
    /\ WithinBudget

\* No command has begun, so no time has passed.
LEMMA InTimeInit == Init => InTime
BY TimesAssumption DEF Init, InTime, WithinBudget

\* Only the four steps of reconnect_fresh have to do with the clock.
LEMMA InTimeElsewhere ==
    ASSUME InTime, clock' \in {0, clock}, phase' \notin {"attempt", "sleeping"}
    PROVE  InTime'
BY TimesAssumption DEF InTime, WithinBudget

\* Each step of a command keeps the time, the steps that wait included.
LEMMA InTimeHost == InTime /\ HostStep => InTime'
<1> SUFFICES ASSUME InTime, HostStep
             PROVE  InTime'
  OBVIOUS
<1>1. CASE OpenSession
  BY <1>1, InTimeElsewhere DEF OpenSession, FirstPhase, Simple
<1>2. CASE OpenFails
  BY <1>2, InTimeElsewhere DEF OpenFails
<1>3. CASE SendRequest
  BY <1>3, InTimeElsewhere DEF SendRequest, NextPhase
<1>4. CASE SendFails
  BY <1>4, InTimeElsewhere DEF SendFails
<1>5. CASE WaitFails
  BY <1>5, InTimeElsewhere DEF WaitFails
<1>6. CASE ReadAnswered
  BY <1>6, InTimeElsewhere DEF ReadAnswered
<1>7. CASE Answered
  BY <1>7, InTimeElsewhere DEF Answered
<1>8. CASE ReadStream
  BY <1>8 DEF ReadStream, host, InTime, WithinBudget
<1>9. CASE Disconnect
  BY <1>9, InTimeElsewhere DEF Disconnect
<1>10. CASE RobustEraseStep
  <2>1. CASE EraseSend
    BY <2>1, InTimeElsewhere DEF EraseSend
  <2>2. CASE EraseAnswered
    BY <2>2, InTimeElsewhere DEF EraseAnswered
  <2>3. CASE EraseFails
    BY <2>3, TimesAssumption DEF EraseFails, InTime, WithinBudget
  <2>4. CASE AttemptConnects
    BY <2>4, TimesAssumption DEF AttemptConnects, InTime, WithinBudget
  <2>5. CASE AttemptFails
    BY <2>5, TimesAssumption DEF AttemptFails, OutOfTime, InTime, WithinBudget
  <2>6. CASE Sleep
    BY <2>6, TimesAssumption DEF Sleep, InTime, WithinBudget
  <2>7. CASE Recheck
    BY <2>7, InTimeElsewhere DEF Recheck
  <2>8. CASE Rechecked
    BY <2>8, InTimeElsewhere DEF Rechecked
  <2> QED
    BY <1>10, <2>1, <2>2, <2>3, <2>4, <2>5, <2>6, <2>7, <2>8 DEF RobustEraseStep
<1> QED
  BY <1>1, <1>2, <1>3, <1>4, <1>5, <1>6, <1>7, <1>8, <1>9, <1>10 DEF HostStep

\* The user, the devices and the faults do not touch the clock.
LEMMA InTimeNext == InTime /\ [Next]_vars => InTime'
<1> SUFFICES ASSUME InTime, [Next]_vars
             PROVE  InTime'
  OBVIOUS
<1>1. CASE UserBegins
  BY <1>1, InTimeElsewhere DEF UserBegins, Begin
<1>2. CASE HostStep
  BY <1>2, InTimeHost
<1>3. CASE UNCHANGED host
  BY <1>3 DEF host, InTime, WithinBudget
<1> QED
  BY <1>1, <1>2, <1>3 DEF Next, DeviceAnswers, DeviceReturns, Fault, vars

\* Reconnecting after an erase takes less than budget, pause and one attempt
\* together, however long the attempts take and the pauses fall.
THEOREM ReconnectWithinBudget == Spec => []WithinBudget
<1>1. InTime => WithinBudget
  BY DEF InTime
<1> QED
  BY <1>1, InTimeInit, InTimeNext, PTL DEF Spec

-----------------------------------------------------------------------------
(* What else is always true.                                               *)

\* A command that is about to write names an image.
NamesImage == phase \in {"write", "write_wait"} => target \in Image

-----------------------------------------------------------------------------
(* Types: the link.                                                        *)

\* The empty queue that drop_session and a new session leave.
LEMMA EmptyQueues == <<>> \in Seq(Request) /\ <<>> \in Seq(Response)
BY EmptySeq

\* A session that has been dropped is well typed, and so is a new one.
LEMMA FreshType ==
    ASSUME LinkTypeOK, toDev' = <<>>, notif' = <<>>, buf' = <<>>, up' \in BOOLEAN,
           seq' \in {0, seq}
    PROVE  LinkTypeOK'
BY SeqModAssumption, EmptyQueues DEF LinkTypeOK

\* Asking puts one more request on the link (send, next_seq).
LEMMA AskType ==
    ASSUME LinkTypeOK, NEW req \in RequestBody, Ask(req)
    PROVE  LinkTypeOK' /\ want' \in 0..(SeqMod - 1)
<1>1. seq' \in 0..(SeqMod - 1)
  BY SeqModAssumption DEF Ask, WriteRequest, next_seq, LinkTypeOK
<1>2. [seq |-> seq, req |-> req] \in Request
  BY DEF LinkTypeOK, Request
<1>3. toDev' \in Seq(Request)
  BY <1>2, AppendKeeps DEF Ask, WriteRequest, LinkTypeOK
<1> QED
  BY <1>1, <1>3 DEF Ask, WriteRequest, LinkTypeOK

\* A write that fails has only used a number up.
LEMMA WriteFailsType ==
    ASSUME LinkTypeOK, WriteFails
    PROVE  LinkTypeOK'
BY SeqModAssumption DEF WriteFails, next_seq, LinkTypeOK

\* Reading takes the head of the assembler, or clears it away with an error.
LEMMA TakeType ==
    ASSUME LinkTypeOK, UNCHANGED <<seq, toDev, notif, up>>,
           buf' = IF buf = <<>> THEN <<>> ELSE Tail(buf)
    PROVE  LinkTypeOK'
<1>1. buf' \in Seq(Response)
  <2>1. CASE buf = <<>>
    BY <2>1, EmptyQueues
  <2>2. CASE buf # <<>>
    BY <2>2, TailKeeps DEF LinkTypeOK
  <2> QED
    BY <2>1, <2>2
<1> QED
  BY <1>1 DEF LinkTypeOK

\* The answer at the head of the assembler is one a device can give.
LEMMA HeadType ==
    ASSUME LinkTypeOK, buf # <<>>
    PROVE  Head(buf).rsp \in ReplyBody
<1>1. Head(buf) \in Response
  BY TailKeeps DEF LinkTypeOK
<1> QED
  BY <1>1 DEF Response

\* Reading the stream moves whole frames to the assembler.
LEMMA PushType ==
    ASSUME LinkTypeOK, Push
    PROVE  LinkTypeOK'
<1>1. PICK k \in 1..Len(notif) : /\ buf' = SubSeq(notif, 1, k)
                                 /\ notif' = SubSeq(notif, k + 1, Len(notif))
  BY DEF Push
<1>2. notif \in Seq(Response) /\ Len(notif) \in Nat
  BY LenProperties DEF LinkTypeOK
<1>3. buf' \in Seq(Response) /\ notif' \in Seq(Response)
  BY <1>1, <1>2, SubSeqKeeps
<1> QED
  BY <1>3 DEF LinkTypeOK, Push

\* What a request in the device's hands asks for.
LEMMA ServedType ==
    ASSUME LinkTypeOK, toDev # <<>>
    PROVE  Served \in RequestBody /\ Head(toDev) \in Request
<1>1. Head(toDev) \in Request
  BY TailKeeps DEF LinkTypeOK
<1> QED
  BY <1>1 DEF Served, Request

\* An answer takes the place of its request on the link.
LEMMA AnswerType ==
    ASSUME LinkTypeOK, NEW rsp \in ReplyBody, Answer(rsp)
    PROVE  LinkTypeOK'
<1>1. /\ toDev # <<>> /\ toDev \in Seq(Request) /\ notif \in Seq(Response)
      /\ toDev' = Tail(toDev) /\ UNCHANGED <<seq, buf, up>>
  BY DEF Answer, LinkTypeOK
<1>2. Head(toDev) \in Request /\ toDev' \in Seq(Request)
  BY <1>1, TailKeeps
<1> DEFINE f == [seq |-> Head(toDev).seq, ok |-> TRUE,
                 req |-> Head(toDev).req, rsp |-> rsp]
<1>3. f \in Response
  BY <1>2 DEF Request, Response
<1>4. notif' \in Seq(Response)
  <2>1. notif' = Append(notif, f)
    BY DEF Answer
  <2> HIDE DEF f
  <2> QED
    BY <1>1, <1>3, <2>1, AppendKeeps
<1> QED
  BY <1>1, <1>2, <1>4 DEF LinkTypeOK

\* Frames that are lost or garbled, and a link that drops.
LEMMA LossType ==
    ASSUME LinkTypeOK, LoseRequest \/ LoseResponse \/ GarbleResponse \/ DropLink
    PROVE  LinkTypeOK'
<1>1. toDev \in Seq(Request) /\ notif \in Seq(Response)
  BY DEF LinkTypeOK
<1>2. CASE LoseRequest
  <2>1. toDev' \in Seq(Request)
    BY <1>1, <1>2, TailKeeps DEF LoseRequest
  <2> QED
    BY <1>2, <2>1 DEF LoseRequest, LinkTypeOK
<1>3. CASE LoseResponse
  <2>1. notif' \in Seq(Response)
    BY <1>1, <1>3, TailKeeps DEF LoseResponse
  <2> QED
    BY <1>3, <2>1 DEF LoseResponse, LinkTypeOK
<1>4. CASE GarbleResponse
  <2>1. Len(notif) \in Nat \ {0} /\ notif[1] \in Response
    BY <1>1, <1>4, TailKeeps DEF GarbleResponse
  <2> DEFINE e == [notif[1] EXCEPT !.ok = FALSE]
  <2>2. e \in Response
    BY <2>1 DEF Response
  <2>3. notif' = [notif EXCEPT ![1] = e]
    BY <1>4 DEF GarbleResponse
  <2> HIDE DEF e
  <2>4. notif' \in Seq(Response)
    BY <1>1, <2>1, <2>2, <2>3, ExceptSeq
  <2> QED
    BY <1>4, <2>4 DEF GarbleResponse, LinkTypeOK
<1>5. CASE DropLink
  BY <1>5, EmptyQueues DEF DropLink, LinkTypeOK
<1> QED
  BY <1>2, <1>3, <1>4, <1>5

-----------------------------------------------------------------------------
(* Types: the devices.                                                     *)

Occupied ==
    \A d \in Device :
        image[d][0] # NoImage /\ (swap[d] # "none" => image[d][1] # NoImage)

\* What a device lists is a listing of one or two slots.
LEMMA ListingType ==
    ASSUME SlotsTypeOK, Occupied
    PROVE  Listing \in {list \in Seq(ImageSlot) : Len(list) <= 2}
<1>1. image[peer][0] \in Image /\ image[peer][1] \in Image \cup {NoImage}
  BY DEF SlotsTypeOK, Occupied
<1>2. Report(0) \in ImageSlot
  BY <1>1 DEF Report, ImageSlot
<1>3. CASE image[peer][1] = NoImage
  BY <1>2, <1>3 DEF Listing
<1>4. CASE image[peer][1] # NoImage
  <2>1. Report(1) \in ImageSlot
    BY <1>1, <1>4 DEF Report, ImageSlot
  <2> QED
    BY <1>2, <1>4, <2>1 DEF Listing
<1> QED
  BY <1>3, <1>4

\* An answer that is only a code is well typed.
LEMMA CodeType ==
    ASSUME LinkTypeOK, NEW rc \in {"ok", "other"}, Code(rc)
    PROVE  LinkTypeOK'
<1>1. [rc |-> rc, images |-> <<>>] \in ReplyBody
  <2>1. <<>> \in Seq(ImageSlot) /\ Len(<<>>) <= 2
    OBVIOUS
  <2> QED
    BY <2>1 DEF ReplyBody
<1> QED
  BY <1>1, AnswerType DEF Code

\* So is one that lists the slots.
LEMMA ListType ==
    ASSUME LinkTypeOK, SlotsTypeOK, Occupied,
           Answer([rc |-> "ok", images |-> Listing])
    PROVE  LinkTypeOK'
<1>1. [rc |-> "ok", images |-> Listing] \in ReplyBody
  BY ListingType DEF ReplyBody
<1> QED
  BY <1>1, AnswerType

\* Booting leaves an image in slot 0, and in slot 1 if it may be swapped back.
LEMMA BootType ==
    ASSUME SlotsTypeOK, Occupied, NEW d \in Device, Boot(d), UNCHANGED peer
    PROVE  SlotsTypeOK' /\ Occupied'
<1>1. image[d] \in [{0, 1} -> Image \cup {NoImage}]
  BY DEF SlotsTypeOK
<1>2. [s \in {0, 1} |-> image[d][1 - s]] \in [{0, 1} -> Image \cup {NoImage}]
  BY <1>1
<1>3. /\ image' = [image EXCEPT ![d] = IF swap[d] = "none" THEN image[d]
                                       ELSE [s \in {0, 1} |-> image[d][1 - s]]]
      /\ swap' = [swap EXCEPT ![d] = IF swap[d] = "test" THEN "trial" ELSE "none"]
      /\ away' = away \cup {d}
  BY DEF Boot
<1>4. SlotsTypeOK'
  BY <1>1, <1>2, <1>3 DEF SlotsTypeOK, Swaps
<1>5. ASSUME NEW e \in Device
      PROVE  image'[e][0] # NoImage /\ (swap'[e] # "none" => image'[e][1] # NoImage)
  <2>1. CASE e # d
    BY <1>3, <2>1 DEF SlotsTypeOK, Occupied
  <2>2. CASE e = d /\ swap[d] = "none"
    BY <1>3, <2>2 DEF SlotsTypeOK, Occupied
  <2>3. CASE e = d /\ swap[d] # "none"
    BY <1>3, <2>3 DEF SlotsTypeOK, Occupied
  <2> QED
    BY <2>1, <2>2, <2>3
<1> QED
  BY <1>4, <1>5 DEF Occupied

\* Marking a slot of an image leaves none to boot from an empty slot.
LEMMA MarkType ==
    ASSUME LinkTypeOK, SlotsTypeOK, Occupied, MarkSlot
    PROVE  /\ LinkTypeOK' /\ SlotsTypeOK' /\ Occupied'
           /\ Served.hash \in Image
<1>1. Served.hash \in Image
  BY ServedType DEF MarkSlot, Serving, Served, RequestBody
<1>2. PICK s \in {0, 1} :
         /\ image[peer][s] = Served.hash
         /\ swap' = [swap EXCEPT ![peer] =
                        IF s = 0 THEN "none"
                        ELSE IF Served.confirm THEN "perm" ELSE "test"]
  BY DEF MarkSlot, Acceptable
<1>3. UNCHANGED <<image, away, peer>>
  BY DEF MarkSlot
<1>4. SlotsTypeOK'
  BY <1>2, <1>3 DEF SlotsTypeOK, Swaps
<1>5. Occupied'
  <2>1. NoImage \notin Image
    BY SlotDeviceAssumption
  <2>2. CASE s = 0
    BY <1>2, <1>3, <2>2 DEF SlotsTypeOK, Occupied
  <2>3. CASE s = 1
    BY <1>1, <1>2, <1>3, <2>1, <2>3 DEF SlotsTypeOK, Occupied
  <2> QED
    BY <2>2, <2>3
<1>6. LinkTypeOK'
  BY ListType DEF MarkSlot
<1> QED
  BY <1>1, <1>4, <1>5, <1>6

\* Erasing leaves slot 0 alone, and a slot the boot loader needs.
LEMMA EraseType ==
    ASSUME SlotsTypeOK, Occupied, Erasable, EraseSlot, away' \subseteq Device,
           UNCHANGED <<swap, peer>>
    PROVE  SlotsTypeOK' /\ Occupied'
<1>1. image' = [image EXCEPT ![peer] = [image[peer] EXCEPT ![1] = NoImage]]
  BY DEF EraseSlot
<1>2. swap[peer] = "none"
  BY DEF Erasable
<1>3. image[peer] \in [{0, 1} -> Image \cup {NoImage}]
  BY DEF SlotsTypeOK
<1>4. [image[peer] EXCEPT ![1] = NoImage] \in [{0, 1} -> Image \cup {NoImage}]
  BY <1>3
<1>5. SlotsTypeOK'
  BY <1>1, <1>4 DEF SlotsTypeOK
<1>6. [image[peer] EXCEPT ![1] = NoImage][0] = image[peer][0]
  BY <1>3
<1>7. Occupied'
  BY <1>1, <1>2, <1>6 DEF SlotsTypeOK, Occupied
<1> QED
  BY <1>5, <1>7

\* Every answer of a device keeps the types.
LEMMA DeviceStepType ==
    ASSUME LinkTypeOK, SlotsTypeOK, Occupied, DeviceStep
    PROVE  LinkTypeOK' /\ SlotsTypeOK' /\ Occupied'
<1>1. CASE AnswerEcho \/ RefuseMark \/ RefuseErase
  <2>1. LinkTypeOK'
    BY <1>1, CodeType DEF AnswerEcho, RefuseMark, RefuseErase
  <2> QED
    BY <1>1, <2>1 DEF AnswerEcho, RefuseMark, RefuseErase, SlotsTypeOK, Occupied, slots
<1>2. CASE ReportState
  <2>1. LinkTypeOK'
    BY <1>2, ListType DEF ReportState
  <2> QED
    BY <1>2, <2>1 DEF ReportState, SlotsTypeOK, Occupied, slots
<1>3. CASE Erased
  <2>1. LinkTypeOK'
    BY <1>3, CodeType DEF Erased
  <2>2. away' \subseteq Device
    BY <1>3 DEF Erased, SlotsTypeOK
  <2> QED
    BY <1>3, <2>1, <2>2, EraseType DEF Erased
<1>4. CASE Reset
  <2>1. LinkTypeOK'
    BY <1>4, LossType DEF Reset
  <2>2. peer \in Device
    BY DEF SlotsTypeOK
  <2> QED
    BY <1>4, <2>1, <2>2, BootType DEF Reset
<1> QED
  BY <1>1, <1>2, <1>3, <1>4 DEF DeviceStep

-----------------------------------------------------------------------------
(* Types: the commands.                                                    *)

TypeInv == TypeOK /\ NamesImage

CommandTypeOK ==
    /\ phase \in Phases /\ want \in 0..(SeqMod - 1) /\ slot \in {0, 1} /\ clock \in Nat
    /\ faults \in Nat /\ left \in Nat
    /\ cmd \in Commands /\ target \in Image \cup {NoImage} /\ opened \in Device
    /\ marked \in BOOLEAN /\ kept \in [Device -> Image \cup {NoImage}]

\* The type invariant, part by part.
LEMMA TypeParts ==
    TypeInv <=> LinkTypeOK /\ SlotsTypeOK /\ Occupied /\ CommandTypeOK /\ NamesImage
BY DEF TypeInv, TypeOK, Occupied, CommandTypeOK

\* The same of the state a step leads to.
LEMMA TypePartsNext ==
    LinkTypeOK' /\ SlotsTypeOK' /\ Occupied' /\ CommandTypeOK' /\ NamesImage' => TypeInv'
BY DEF TypeInv, TypeOK, Occupied, CommandTypeOK

\* A step that leaves the link, or the devices, alone keeps their types.
LEMMA UntouchedType ==
    /\ LinkTypeOK /\ UNCHANGED link => LinkTypeOK'
    /\ SlotsTypeOK /\ Occupied /\ UNCHANGED <<slots, peer>> => SlotsTypeOK' /\ Occupied'
BY DEF link, slots, LinkTypeOK, SlotsTypeOK, Occupied

\* Every device of the start is well typed, and no command runs.
LEMMA TypeInit == Init => TypeInv
<1> SUFFICES ASSUME Init PROVE TypeInv
  OBVIOUS
<1>1. LinkTypeOK
  <2>1. seq = 0 /\ toDev = <<>> /\ notif = <<>> /\ buf = <<>> /\ up = FALSE
    BY DEF Init
  <2>2. 0 \in 0..(SeqMod - 1)
    BY SeqModAssumption
  <2> QED
    BY <2>1, <2>2, EmptyQueues DEF LinkTypeOK
<1>2. SlotsTypeOK
  BY CandidatesAssumption DEF Init, SlotsInit, SlotsTypeOK
<1>3. Occupied
  BY SlotDeviceAssumption DEF Init, SlotsInit, Occupied
<1>4. CommandTypeOK
  <2>1. cmd \in Commands
    BY CommandsAssumption DEF Init
  <2>2. phase = "done" /\ want = 0 /\ slot = 0 /\ clock = 0 /\ left = MaxCommands
        /\ faults = MaxFaults /\ marked = FALSE /\ target = NoImage
    BY DEF Init
  <2>3. opened \in Device /\ kept \in [Device -> Image \cup {NoImage}]
    BY CandidatesAssumption DEF Init
  <2>4. 0 \in 0..(SeqMod - 1)
    BY SeqModAssumption
  <2>5. faults \in Nat /\ left \in Nat
    BY <2>2, CommandsAssumption, FaultAssumption
  <2> QED
    BY <2>1, <2>2, <2>3, <2>4, <2>5 DEF CommandTypeOK, Phases
<1>5. NamesImage
  BY DEF Init, NamesImage
<1> QED
  BY <1>1, <1>2, <1>3, <1>4, <1>5, TypeParts

\* The image select_default_target finds is one, or there is none.
LEMMA TargetType ==
    ASSUME NEW images \in Seq(ImageSlot), Len(images) <= 2
    PROVE  select_default_target(images) \in Image \cup {NoImage}
<1> DEFINE hits == {i \in DOMAIN images : Fits(images[i])}
           first == CHOOSE i \in hits : \A j \in hits : i <= j
<1>1. CASE hits = {}
  BY <1>1 DEF select_default_target
<1>2. CASE hits # {}
  <2>1. Len(images) \in Nat /\ DOMAIN images = 1..Len(images)
    BY LenProperties
  <2>2. hits \subseteq {1, 2}
    BY <2>1
  <2>3. \E i \in hits : \A j \in hits : i <= j
    <3>1. CASE 1 \in hits
      BY <2>2, <3>1
    <3>2. CASE 1 \notin hits
      BY <1>2, <2>2, <3>2
    <3> QED
      BY <3>1, <3>2
  <2>4. first \in hits
    <3> HIDE DEF hits
    <3> QED
      BY <2>3
  <2>5. images[first] \in ImageSlot
    BY <2>1, <2>4
  <2>6. select_default_target(images) = images[first].hash
    BY <1>2 DEF select_default_target
  <2> QED
    BY <2>5, <2>6 DEF ImageSlot
<1> QED
  BY <1>1, <1>2

\* The request of a phase is one a device understands.
LEMMA QueryType ==
    ASSUME TypeInv, phase \in DOMAIN NextPhase
    PROVE  Query \in RequestBody
<1>1. phase \in {"read", "echo", "write", "reset"}
  BY DEF NextPhase
<1>2. target \in Image \cup {NoImage} /\ (phase = "write" => target \in Image)
  BY DEF TypeInv, TypeOK, NamesImage
<1> QED
  BY <1>1, <1>2 DEF Query, RequestBody

\* Each step of a command keeps the types.
LEMMA HostType == TypeInv /\ HostStep => TypeInv'
<1> SUFFICES ASSUME TypeInv, HostStep
             PROVE  TypeInv'
  OBVIOUS
<1>0. LinkTypeOK /\ SlotsTypeOK /\ Occupied /\ CommandTypeOK /\ NamesImage
  BY TypeParts
<1>k. UNCHANGED <<marked, kept>>
  BY DEF HostStep, history
<1>1. CASE OpenSession
  <2>1. PICK d \in Candidates : NewSession(d) /\ opened' = d
    BY <1>1 DEF OpenSession
  <2>2. d \in Device
    BY CandidatesAssumption
  <2>3. LinkTypeOK'
    BY <1>0, <2>1, FreshType DEF NewSession
  <2>4. SlotsTypeOK' /\ Occupied'
    BY <1>0, <1>1, <2>1, <2>2 DEF OpenSession, NewSession, slots, SlotsTypeOK, Occupied
  <2>5. phase' \in Phases /\ target' \in Image \cup {NoImage}
    BY <1>1 DEF OpenSession, FirstPhase, Simple, Phases
  <2>6. CommandTypeOK'
    BY <1>0, <1>1, <1>k, <2>1, <2>2, <2>5 DEF OpenSession, CommandTypeOK
  <2>7. NamesImage'
    BY <1>1 DEF OpenSession, FirstPhase, Simple, NamesImage
  <2> QED
    BY <2>3, <2>4, <2>6, <2>7, TypePartsNext
<1>2. CASE OpenFails
  <2>1. faults' \in Nat
    BY <1>0, <1>2 DEF OpenFails, CannotOpen, MayFault, CommandTypeOK
  <2>2. CommandTypeOK'
    BY <1>0, <1>2, <1>k, <2>1 DEF OpenFails, command, CommandTypeOK, Phases
  <2> QED
    BY <1>0, <1>2, <2>2, UntouchedType, TypePartsNext DEF OpenFails, NamesImage
<1>3. CASE SendRequest
  <2>1. LinkTypeOK' /\ want' \in 0..(SeqMod - 1)
    BY <1>0, <1>3, QueryType, AskType DEF SendRequest
  <2>2. phase' \in Phases
    BY <1>3 DEF SendRequest, NextPhase, Phases
  <2>3. NamesImage'
    BY <1>0, <1>3 DEF SendRequest, NextPhase, command, NamesImage
  <2>4. CommandTypeOK'
    BY <1>0, <1>3, <1>k, <2>1, <2>2 DEF SendRequest, command, CommandTypeOK
  <2> QED
    BY <1>0, <1>3, <2>1, <2>3, <2>4, UntouchedType, TypePartsNext DEF SendRequest
<1>4. CASE SendFails
  <2>1. LinkTypeOK'
    BY <1>0, <1>4, WriteFailsType DEF SendFails
  <2>2. CommandTypeOK'
    BY <1>0, <1>4, <1>k DEF SendFails, command, CommandTypeOK, Phases
  <2> QED
    BY <1>0, <1>4, <2>1, <2>2, UntouchedType, TypePartsNext DEF SendFails, NamesImage
<1>5. CASE WaitFails
  <2>1. LinkTypeOK'
    BY <1>0, <1>5, TakeType DEF WaitFails
  <2>2. faults' \in Nat
    BY <1>0, <1>5 DEF WaitFails, ReadFails, TimerFires, MayFault, CommandTypeOK
  <2>3. CommandTypeOK'
    BY <1>0, <1>5, <1>k, <2>2 DEF WaitFails, command, CommandTypeOK, Phases
  <2> QED
    BY <1>0, <1>5, <2>1, <2>3, UntouchedType, TypePartsNext DEF WaitFails, NamesImage
<1>6. CASE ReadAnswered
  <2>1. LinkTypeOK'
    BY <1>0, <1>6, TakeType DEF ReadAnswered, TakeFrame
  <2>2. Head(buf).rsp \in ReplyBody
    BY <1>0, <1>6, HeadType DEF ReadAnswered, TakeFrame
  <2> DEFINE images == Head(buf).rsp.images
  <2>3. select_default_target(images) \in Image \cup {NoImage}
    BY <2>2, TargetType DEF ReplyBody
  <2> HIDE DEF images
  <2>4. \/ phase' \in {"failed", "closing"} /\ UNCHANGED target
        \/ /\ target' = select_default_target(images)
           /\ phase' = IF target' = NoImage THEN "failed" ELSE "write"
    BY <1>6 DEF ReadAnswered, images
  <2>5. /\ phase' \in Phases /\ target' \in Image \cup {NoImage}
        /\ NamesImage'
    BY <1>0, <2>3, <2>4 DEF CommandTypeOK, Phases, NamesImage
  <2>6. CommandTypeOK'
    BY <1>0, <1>6, <1>k, <2>5 DEF ReadAnswered, CommandTypeOK
  <2> QED
    BY <1>0, <1>6, <2>1, <2>5, <2>6, UntouchedType, TypePartsNext DEF ReadAnswered
<1>7. CASE Answered
  <2>1. LinkTypeOK'
    BY <1>0, <1>7, TakeType DEF Answered, TakeFrame
  <2>2. CommandTypeOK'
    BY <1>0, <1>7, <1>k DEF Answered, command, CommandTypeOK, Phases
  <2> QED
    BY <1>0, <1>7, <2>1, <2>2, UntouchedType, TypePartsNext DEF Answered, NamesImage
<1>8. CASE ReadStream
  <2>1. LinkTypeOK'
    BY <1>0, <1>8, PushType DEF ReadStream
  <2>2. CommandTypeOK' /\ NamesImage'
    BY <1>0, <1>8, <1>k DEF ReadStream, host, command, CommandTypeOK, NamesImage
  <2> QED
    BY <1>0, <1>8, <2>1, <2>2, UntouchedType, TypePartsNext DEF ReadStream
<1>9. CASE Disconnect
  <2>1. LinkTypeOK'
    BY <1>0, <1>9, LossType, UntouchedType DEF Disconnect
  <2>2. CommandTypeOK'
    BY <1>0, <1>9, <1>k DEF Disconnect, command, CommandTypeOK, Phases
  <2> QED
    BY <1>0, <1>9, <2>1, <2>2, UntouchedType, TypePartsNext DEF Disconnect, NamesImage
<1>10. CASE RobustEraseStep /\ UNCHANGED command
  <2> USE <1>0, <1>k, <1>10
  <2>c. UNCHANGED <<cmd, target, left, opened>>
    BY DEF command
  <2>1. CASE EraseSend
    <3>1. [Bare("erase") EXCEPT !.slot = slot] \in RequestBody
      BY DEF Bare, RequestBody, CommandTypeOK
    <3>2. LinkTypeOK' /\ want' \in 0..(SeqMod - 1)
      BY <2>1, <3>1, AskType DEF EraseSend
    <3>3. CommandTypeOK' /\ NamesImage'
      BY <2>1, <2>c, <3>2 DEF EraseSend, CommandTypeOK, Phases, NamesImage
    <3> QED
      BY <2>1, <3>2, <3>3, UntouchedType, TypePartsNext DEF EraseSend
  <2>2. CASE EraseAnswered \/ Rechecked
    <3>1. LinkTypeOK'
      BY <2>2, TakeType DEF EraseAnswered, Rechecked, TakeFrame
    <3>2. CommandTypeOK' /\ NamesImage'
      BY <2>2, <2>c DEF EraseAnswered, Rechecked, CommandTypeOK, Phases, NamesImage
    <3> QED
      BY <2>2, <3>1, <3>2, UntouchedType, TypePartsNext DEF EraseAnswered, Rechecked
  <2>3. CASE EraseFails
    <3>1. LinkTypeOK'
      BY <2>3, FreshType DEF EraseFails, drop_session
    <3>2. faults' \in Nat
      BY <2>3 DEF EraseFails, WatchFails, ReadFails, TimerFires, MayFault, CommandTypeOK
    <3>3. CommandTypeOK' /\ NamesImage'
      BY <2>3, <2>c, <3>2 DEF EraseFails, CommandTypeOK, Phases, NamesImage
    <3> QED
      BY <2>3, <3>1, <3>3, UntouchedType, TypePartsNext DEF EraseFails
  <2>4. CASE AttemptConnects
    <3>1. PICK d \in Candidates : NewSession(d)
      BY <2>4 DEF AttemptConnects
    <3>2. LinkTypeOK'
      BY <3>1, FreshType DEF NewSession
    <3>3. SlotsTypeOK' /\ Occupied'
      BY <2>4, <3>1, CandidatesAssumption
      DEF AttemptConnects, NewSession, slots, SlotsTypeOK, Occupied
    <3>4. CommandTypeOK' /\ NamesImage'
      BY <2>4, <2>c, TimesAssumption DEF AttemptConnects, CommandTypeOK, Phases, NamesImage
    <3> QED
      BY <3>2, <3>3, <3>4, TypePartsNext
  <2>5. CASE AttemptFails
    <3>1. faults' \in Nat
      BY <2>5 DEF AttemptFails, CannotOpen, MayFault, CommandTypeOK
    <3>2. CommandTypeOK' /\ NamesImage'
      BY <2>5, <2>c, <3>1, TimesAssumption DEF AttemptFails, CommandTypeOK, Phases, NamesImage
    <3> QED
      BY <2>5, <3>2, UntouchedType, TypePartsNext DEF AttemptFails
  <2>6. CASE Sleep
    <3>1. CommandTypeOK' /\ NamesImage'
      BY <2>6, <2>c, TimesAssumption DEF Sleep, CommandTypeOK, Phases, NamesImage
    <3> QED
      BY <2>6, <3>1, UntouchedType, TypePartsNext DEF Sleep
  <2>7. CASE Recheck
    <3>1. Bare("state") \in RequestBody
      BY DEF Bare, RequestBody
    <3>2. LinkTypeOK' /\ want' \in 0..(SeqMod - 1)
      BY <2>7, <3>1, AskType DEF Recheck
    <3>3. CommandTypeOK' /\ NamesImage'
      BY <2>7, <2>c, <3>2 DEF Recheck, CommandTypeOK, Phases, NamesImage
    <3> QED
      BY <2>7, <3>2, <3>3, UntouchedType, TypePartsNext DEF Recheck
  <2> QED
    BY <2>1, <2>2, <2>3, <2>4, <2>5, <2>6, <2>7 DEF RobustEraseStep
<1> QED
  BY <1>1, <1>2, <1>3, <1>4, <1>5, <1>6, <1>7, <1>8, <1>9, <1>10 DEF HostStep

\* So does everything the devices, the user and the faults do.
LEMMA TypeNext == TypeInv /\ [Next]_vars => TypeInv'
<1> SUFFICES ASSUME TypeInv, [Next]_vars
             PROVE  TypeInv'
  OBVIOUS
<1>0. LinkTypeOK /\ SlotsTypeOK /\ Occupied /\ CommandTypeOK /\ NamesImage
  BY TypeParts
<1>h. UNCHANGED host => (UNCHANGED <<marked, kept>> /\ faults' \in Nat => CommandTypeOK')
                        /\ NamesImage'
  BY <1>0 DEF host, command, CommandTypeOK, NamesImage
<1>1. CASE UserBegins
  <2>1. PICK c \in Commands : Begin(c)
    BY <1>1 DEF UserBegins
  <2>2. LinkTypeOK'
    BY <1>0, <2>1, FreshType DEF Begin, drop_session
  <2>3. c.slot \in {0, 1}
    BY CommandsAssumption DEF Command
  <2>4. /\ cmd' = c /\ slot' = c.slot /\ target' = NoImage /\ phase' = "open"
        /\ clock' = 0 /\ marked' = FALSE /\ UNCHANGED <<want, opened, kept, faults>>
    BY <2>1 DEF Begin
  <2>5. left' \in Nat
    BY <1>0, <2>1 DEF Begin, CommandTypeOK
  <2>6. CommandTypeOK' /\ NamesImage'
    BY <1>0, <2>3, <2>4, <2>5 DEF CommandTypeOK, Phases, NamesImage
  <2> QED
    BY <1>0, <2>1, <2>2, <2>6, UntouchedType, TypePartsNext DEF Begin
<1>2. CASE HostStep
  BY <1>2, HostType
<1>3. CASE DeviceAnswers
  <2>0. UNCHANGED <<host, faults>>
    BY <1>3 DEF DeviceAnswers
  <2>1. CASE MarkSlot /\ RecordMark
    <3>1. LinkTypeOK' /\ SlotsTypeOK' /\ Occupied' /\ Served.hash \in Image
      BY <1>0, <2>1, MarkType
    <3>2. marked' \in BOOLEAN /\ kept' \in [Device -> Image \cup {NoImage}]
      BY <1>0, <2>1, <3>1 DEF RecordMark, CommandTypeOK
    <3>3. CommandTypeOK' /\ NamesImage'
      BY <1>0, <2>0, <3>2 DEF host, command, CommandTypeOK, NamesImage
    <3> QED
      BY <3>1, <3>3, TypePartsNext
  <2>2. CASE DeviceStep /\ UNCHANGED history
    <3>1. LinkTypeOK' /\ SlotsTypeOK' /\ Occupied'
      BY <1>0, <2>2, DeviceStepType
    <3>2. CommandTypeOK' /\ NamesImage'
      BY <1>0, <1>h, <2>0, <2>2 DEF history, CommandTypeOK
    <3> QED
      BY <3>1, <3>2, TypePartsNext
  <2> QED
    BY <1>3, <2>1, <2>2 DEF DeviceAnswers
<1>4. CASE DeviceReturns
  <2>1. PICK d \in Device : ComesBack(d) /\ UNCHANGED <<host, history, faults>>
    BY <1>4 DEF DeviceReturns
  <2>2. SlotsTypeOK' /\ Occupied'
    BY <1>0, <2>1 DEF ComesBack, SlotsTypeOK, Occupied
  <2>3. CommandTypeOK' /\ NamesImage'
    BY <1>0, <1>h, <2>1 DEF history, CommandTypeOK
  <2>4. LinkTypeOK'
    BY <1>0, <2>1, UntouchedType DEF ComesBack
  <2> QED
    BY <2>2, <2>3, <2>4, TypePartsNext
<1>5. CASE Fault
  <2>1. UNCHANGED <<host, marked, kept>> /\ faults' \in Nat
    BY <1>0, <1>5 DEF Fault, MayFault, history, CommandTypeOK
  <2>2. CommandTypeOK' /\ NamesImage'
    BY <1>h, <2>1
  <2>3. LinkTypeOK' /\ SlotsTypeOK' /\ Occupied'
    <3>1. CASE (LoseRequest \/ LoseResponse \/ GarbleResponse) /\ UNCHANGED <<slots, peer>>
      BY <1>0, <3>1, LossType, UntouchedType
    <3>2. CASE Disconnected
      <4>1. LinkTypeOK'
        BY <1>0, <3>2, LossType DEF Disconnected
      <4>2. SlotsTypeOK' /\ Occupied'
        BY <1>0, <3>2 DEF Disconnected, SlotsTypeOK, Occupied
      <4> QED
        BY <4>1, <4>2
    <3>3. CASE RefuseAny
      <4>1. LinkTypeOK'
        BY <1>0, <3>3, CodeType DEF RefuseAny
      <4> QED
        BY <1>0, <3>3, <4>1, UntouchedType DEF RefuseAny
    <3>4. CASE EraseDropsLink
      <4>1. LinkTypeOK'
        BY <1>0, <3>4, LossType DEF EraseDropsLink
      <4>2. away' \subseteq Device
        BY <1>0, <3>4 DEF EraseDropsLink, SlotsTypeOK
      <4> QED
        BY <1>0, <3>4, <4>1, <4>2, EraseType DEF EraseDropsLink
    <3>5. CASE \E d \in Device : Reboot(d)
      <4>1. PICK d \in Device : Reboot(d)
        BY <3>5
      <4>2. LinkTypeOK'
        BY <1>0, <4>1, LossType, UntouchedType DEF Reboot
      <4> QED
        BY <1>0, <4>1, <4>2, BootType DEF Reboot
    <3> QED
      BY <1>5, <3>1, <3>2, <3>3, <3>4, <3>5 DEF Fault
  <2> QED
    BY <2>2, <2>3, TypePartsNext
<1>6. CASE UNCHANGED vars
  <2>1. CommandTypeOK' /\ NamesImage'
    BY <1>0, <1>h, <1>6 DEF vars, history, CommandTypeOK
  <2> QED
    BY <1>0, <1>6, <2>1, UntouchedType, TypePartsNext DEF vars
<1> QED
  BY <1>1, <1>2, <1>3, <1>4, <1>5, <1>6 DEF Next

\* A state write always names an image, whatever the user gave and the device
\* listed, and no boot loader is asked to run an empty slot.
THEOREM CommandsTypeOK == Spec => []TypeOK
<1>1. TypeInv => TypeOK
  BY DEF TypeInv
<1> QED
  BY <1>1, TypeInit, TypeNext, PTL DEF Spec

-----------------------------------------------------------------------------
(* What a command that reports success has achieved.  The argument: a      *)
(* session has one frame on the link at a time, it is the answer to the    *)
(* request that is awaited or the request itself, and what an answer       *)
(* without an error code says stays true until the command ends.           *)

\* Each command stays in the phases it has.
InItsPhases ==
    /\ phase \in {"echo", "reset", "echo_wait"} => cmd.name \in {"echo", "reset"}
    /\ phase \in {"read", "read_wait"} => cmd.name \in {"list", "test", "confirm"}
    /\ phase \in {"write", "write_wait"} => Marking
    /\ phase \in {"erase", "erase_wait", "attempt", "sleeping", "recheck", "recheck_wait"}
          => cmd.name = "erase"

\* The phases in which nothing of this session is on the link.
Calm == {"open", "read", "echo", "reset", "write", "erase", "attempt", "sleeping", "recheck"}

InFlight == Len(toDev) + Len(notif) + Len(buf)

\* A session has one frame on the link at a time: a command that gives up on
\* an answer sends nothing more in that session.
OneAtATime ==
    /\ InFlight <= 1
    /\ phase \in Calm => InFlight = 0

\* The request on the link is the one whose answer is awaited.
Asked(req) ==
    /\ phase = "erase_wait" => req.cmd = "erase" /\ req.slot = slot
    /\ phase = "recheck_wait" => req.cmd = "state"
    /\ phase = "write_wait" => req.cmd = "write"

\* What an answer without an error code says is true now.
Holds(rsp) ==
    check_rc(rsp) =>
        /\ phase = "erase_wait" => image[peer][slot] = NoImage
        /\ phase = "recheck_wait" => StillHolds(rsp.images) \/ image[peer][slot] = NoImage
        /\ phase = "write_wait" => marked

Exchange ==
    /\ toDev # <<>> => Asked(Head(toDev).req)
    /\ notif # <<>> => Holds(Head(notif).rsp)
    /\ buf # <<>> => Holds(Head(buf).rsp)

-----------------------------------------------------------------------------
(* The phases.                                                             *)

\* Only a step of a command changes its phase.
LEMMA PhasesKept == InItsPhases /\ [Next]_vars => InItsPhases'
<1> SUFFICES ASSUME InItsPhases, [Next]_vars
             PROVE  InItsPhases'
  OBVIOUS
<1>1. CASE UNCHANGED host
  BY <1>1 DEF host, command, InItsPhases, Marking
<1>2. CASE UserBegins
  BY <1>2 DEF UserBegins, Begin, InItsPhases
<1>3. CASE OpenSession
  BY <1>3 DEF OpenSession, FirstPhase, Simple, InItsPhases, Marking
<1>4. CASE OpenFails \/ SendFails \/ WaitFails \/ Disconnect
  BY <1>4 DEF OpenFails, SendFails, WaitFails, Disconnect, InItsPhases
<1>5. CASE SendRequest
  BY <1>5 DEF SendRequest, NextPhase, command, InItsPhases, Marking
<1>6. CASE ReadAnswered
  BY <1>6 DEF ReadAnswered, InItsPhases, Marking
<1>7. CASE Answered
  BY <1>7 DEF Answered, InItsPhases
<1>8. CASE RobustEraseStep /\ UNCHANGED command
  BY <1>8 DEF RobustEraseStep, EraseSend, EraseAnswered, EraseFails, AttemptConnects,
     AttemptFails, Sleep, Recheck, Rechecked, command, InItsPhases
<1> QED
  BY <1>1, <1>2, <1>3, <1>4, <1>5, <1>6, <1>7, <1>8
  DEF Next, HostStep, ReadStream, DeviceAnswers, DeviceReturns, Fault, vars

-----------------------------------------------------------------------------
(* One frame at a time.                                                    *)

\* The lengths of the queues.
LEMMA Lengths ==
    ASSUME LinkTypeOK
    PROVE  /\ Len(toDev) \in Nat /\ Len(notif) \in Nat /\ Len(buf) \in Nat
           /\ toDev = <<>> <=> Len(toDev) = 0
           /\ notif = <<>> <=> Len(notif) = 0
           /\ buf = <<>> <=> Len(buf) = 0
BY LenProperties, EmptySeq DEF LinkTypeOK

\* Dropping the session, or opening one, leaves nothing on the link.
LEMMA FreshIsEmpty ==
    (drop_session \/ \E d \in Candidates : NewSession(d)) => InFlight' = 0
BY EmptySeq DEF drop_session, NewSession, InFlight

\* A request is one frame more.
LEMMA AskAdds ==
    ASSUME LinkTypeOK, NEW req \in RequestBody, Ask(req)
    PROVE  InFlight' = InFlight + 1
<1>1. [seq |-> seq, req |-> req] \in Request
  BY DEF LinkTypeOK, Request
<1>2. Len(toDev') = Len(toDev) + 1
  BY <1>1, AppendKeeps DEF Ask, WriteRequest, LinkTypeOK
<1> QED
  BY <1>2, Lengths DEF Ask, WriteRequest, InFlight

\* Taking a frame, of which there is one, leaves none.
LEMMA TakeRemoves ==
    ASSUME LinkTypeOK, TakeFrame
    PROVE  InFlight' = InFlight - 1
<1>1. Len(buf') = Len(buf) - 1
  BY TailKeeps DEF TakeFrame, LinkTypeOK
<1> QED
  BY <1>1, Lengths DEF TakeFrame, InFlight

\* Reading the stream moves frames.
LEMMA PushMoves ==
    ASSUME LinkTypeOK, Push
    PROVE  InFlight' = InFlight
<1>1. PICK k \in 1..Len(notif) : /\ buf' = SubSeq(notif, 1, k)
                                 /\ notif' = SubSeq(notif, k + 1, Len(notif))
  BY DEF Push
<1>2. notif \in Seq(Response) /\ Len(notif) \in Nat /\ Len(buf) = 0
  BY Lengths DEF LinkTypeOK, Push
<1>3. Len(buf') = k /\ Len(notif') = Len(notif) - k
  BY <1>1, <1>2, SubSeqKeeps
<1> QED
  BY <1>2, <1>3, Lengths DEF Push, InFlight

\* An answer takes the place of its request.
LEMMA AnswerReplaces ==
    ASSUME LinkTypeOK, NEW rsp \in ReplyBody, Answer(rsp)
    PROVE  InFlight' = InFlight
<1>1. toDev # <<>> /\ toDev \in Seq(Request) /\ notif \in Seq(Response)
  BY DEF Answer, LinkTypeOK
<1>2. Len(toDev') = Len(toDev) - 1 /\ Head(toDev) \in Request
  BY <1>1, TailKeeps DEF Answer
<1> DEFINE f == [seq |-> Head(toDev).seq, ok |-> TRUE,
                 req |-> Head(toDev).req, rsp |-> rsp]
<1>3. f \in Response
  BY <1>2 DEF Request, Response
<1>4. Len(notif') = Len(notif) + 1
  <2>1. notif' = Append(notif, f)
    BY DEF Answer
  <2> HIDE DEF f
  <2> QED
    BY <1>1, <1>3, <2>1, AppendKeeps
<1> QED
  BY <1>2, <1>4, Lengths DEF Answer, InFlight

\* What is lost is on the link no more.
LEMMA LossRemoves ==
    ASSUME LinkTypeOK, LoseRequest \/ LoseResponse \/ GarbleResponse \/ DropLink
    PROVE  InFlight' \in Nat /\ InFlight' <= InFlight
<1>1. toDev \in Seq(Request) /\ notif \in Seq(Response)
  BY DEF LinkTypeOK
<1>2. CASE LoseRequest
  <2>1. Len(toDev') = Len(toDev) - 1
    BY <1>1, <1>2, TailKeeps DEF LoseRequest
  <2> QED
    BY <1>2, <2>1, Lengths DEF LoseRequest, InFlight
<1>3. CASE LoseResponse
  <2>1. Len(notif') = Len(notif) - 1
    BY <1>1, <1>3, TailKeeps DEF LoseResponse
  <2> QED
    BY <1>3, <2>1, Lengths DEF LoseResponse, InFlight
<1>4. CASE GarbleResponse
  <2>1. Len(notif') = Len(notif)
    BY <1>1, <1>4, LenProperties DEF GarbleResponse
  <2> QED
    BY <1>4, <2>1, Lengths DEF GarbleResponse, InFlight
<1>5. CASE DropLink
  <2>1. Len(toDev') = 0
    BY <1>5, EmptySeq DEF DropLink
  <2> QED
    BY <1>5, <2>1, Lengths DEF DropLink, InFlight
<1> QED
  BY <1>2, <1>3, <1>4, <1>5

\* Every answer of a device is a frame for a frame.
LEMMA AnswersReplace ==
    ASSUME TypeInv, MarkSlot \/ DeviceStep \/ RefuseAny \/ EraseDropsLink
    PROVE  InFlight' \in Nat /\ InFlight' <= InFlight
<1>1. LinkTypeOK /\ SlotsTypeOK /\ Occupied
  BY TypeParts
<1>2. InFlight \in Nat
  BY <1>1, Lengths DEF InFlight
<1>3. ASSUME \E rc \in {"ok", "other"} : Code(rc)
      PROVE  InFlight' = InFlight
  <2>1. PICK rc \in {"ok", "other"} : Code(rc)
    BY <1>3
  <2>2. <<>> \in Seq(ImageSlot) /\ Len(<<>>) <= 2
    OBVIOUS
  <2>3. [rc |-> rc, images |-> <<>>] \in ReplyBody
    BY <2>2 DEF ReplyBody
  <2> QED
    BY <1>1, <2>1, <2>3, AnswerReplaces DEF Code
<1>4. ASSUME Answer([rc |-> "ok", images |-> Listing])
      PROVE  InFlight' = InFlight
  <2>1. [rc |-> "ok", images |-> Listing] \in ReplyBody
    BY <1>1, ListingType DEF ReplyBody
  <2> QED
    BY <1>1, <1>4, <2>1, AnswerReplaces
<1>5. CASE MarkSlot \/ ReportState
  BY <1>2, <1>4, <1>5 DEF MarkSlot, ReportState
<1>6. CASE AnswerEcho \/ RefuseMark \/ Erased \/ RefuseErase \/ RefuseAny
  BY <1>2, <1>3, <1>6 DEF AnswerEcho, RefuseMark, Erased, RefuseErase, RefuseAny
<1>7. CASE Reset \/ EraseDropsLink
  BY <1>1, <1>7, LossRemoves DEF Reset, EraseDropsLink
<1> QED
  BY <1>5, <1>6, <1>7 DEF DeviceStep

\* What does not add a frame does not end the calm.
LEMMA FewerIsFine ==
    ASSUME TypeInv, OneAtATime, InFlight' \in Nat, InFlight' <= InFlight,
           phase' \in Calm => phase \in Calm
    PROVE  OneAtATime'
<1>1. InFlight \in Nat
  BY TypeParts, Lengths DEF InFlight
<1> QED
  BY <1>1 DEF OneAtATime

\* A session never has two frames on the link.
LEMMA OneKept == TypeInv /\ OneAtATime /\ [Next]_vars => OneAtATime'
<1> SUFFICES ASSUME TypeInv, OneAtATime, [Next]_vars
             PROVE  OneAtATime'
  OBVIOUS
<1>0. LinkTypeOK /\ InFlight \in Nat
  BY TypeParts, Lengths DEF InFlight
<1>u. UNCHANGED link => InFlight' = InFlight
  BY DEF link, InFlight
<1>1. CASE UserBegins \/ OpenSession \/ EraseFails \/ AttemptConnects
  <2>1. InFlight' = 0
    BY <1>1, FreshIsEmpty
    DEF UserBegins, Begin, OpenSession, EraseFails, AttemptConnects
  <2> QED
    BY <2>1 DEF OneAtATime
<1>2. CASE OpenFails \/ AttemptFails \/ Sleep
  <2>1. InFlight' = InFlight /\ (phase' \in Calm => phase \in Calm)
    BY <1>2, <1>u DEF OpenFails, AttemptFails, Sleep, Calm
  <2> QED
    BY <1>0, <2>1, FewerIsFine
<1>3. ASSUME NEW req \in RequestBody, Ask(req), phase \in Calm, phase' \notin Calm
      PROVE  OneAtATime'
  <2>1. InFlight' = InFlight + 1 /\ InFlight = 0
    BY <1>0, <1>3, AskAdds DEF OneAtATime
  <2> QED
    BY <1>3, <2>1 DEF OneAtATime
<1>4. CASE SendRequest
  <2>1. phase \in Calm /\ phase' \notin Calm
    BY <1>4 DEF SendRequest, NextPhase, Calm
  <2>2. Query \in RequestBody /\ Ask(Query)
    BY <1>4, QueryType DEF SendRequest
  <2> QED
    BY <1>3, <2>1, <2>2
<1>5. CASE EraseSend
  <2>1. slot \in {0, 1}
    BY TypeParts DEF CommandTypeOK
  <2>2. [Bare("erase") EXCEPT !.slot = slot] \in RequestBody
    BY <2>1 DEF Bare, RequestBody
  <2>3. phase \in Calm /\ phase' \notin Calm
    BY <1>5 DEF EraseSend, Calm
  <2> QED
    BY <1>3, <1>5, <2>2, <2>3 DEF EraseSend
<1>6. CASE Recheck
  <2>1. Bare("state") \in RequestBody
    BY DEF Bare, RequestBody
  <2>2. phase \in Calm /\ phase' \notin Calm
    BY <1>6 DEF Recheck, Calm
  <2> QED
    BY <1>3, <1>6, <2>1, <2>2 DEF Recheck
<1>7. CASE SendFails
  <2>1. InFlight' = InFlight /\ phase' \notin Calm
    BY <1>7 DEF SendFails, WriteFails, InFlight, Calm
  <2> QED
    BY <1>0, <2>1, FewerIsFine
<1>8. CASE WaitFails
  <2>1. InFlight' \in Nat /\ InFlight' <= InFlight
    <3>1. CASE buf = <<>>
      BY <1>0, <1>8, <3>1 DEF WaitFails, InFlight
    <3>2. CASE buf # <<>>
      <4>1. TakeFrame
        BY <1>8, <3>2 DEF WaitFails, TakeFrame
      <4>2. Len(buf) > 0
        BY <1>0, <3>2, Lengths
      <4> QED
        BY <1>0, <4>1, <4>2, TakeRemoves, Lengths DEF InFlight
    <3> QED
      BY <3>1, <3>2
  <2>2. phase' \notin Calm
    BY <1>8 DEF WaitFails, Calm
  <2> QED
    BY <2>1, <2>2, FewerIsFine
<1>9. CASE ReadAnswered \/ Answered \/ EraseAnswered \/ Rechecked
  <2>1. TakeFrame
    BY <1>9 DEF ReadAnswered, Answered, EraseAnswered, Rechecked
  <2>2. InFlight' = InFlight - 1
    BY <1>0, <2>1, TakeRemoves
  <2>3. Len(buf) > 0
    BY <1>0, <2>1, Lengths DEF TakeFrame
  <2>4. InFlight' = 0
    BY <1>0, <2>2, <2>3, Lengths DEF OneAtATime, InFlight
  <2> QED
    BY <2>4 DEF OneAtATime
<1>10. CASE ReadStream
  BY <1>0, <1>10, PushMoves, FewerIsFine DEF ReadStream, host
<1>11. CASE Disconnect
  <2>1. InFlight' \in Nat /\ InFlight' <= InFlight
    BY <1>0, <1>u, <1>11, LossRemoves DEF Disconnect
  <2>2. phase' \notin Calm
    BY <1>11 DEF Disconnect, Calm
  <2> QED
    BY <2>1, <2>2, FewerIsFine
<1>12. CASE DeviceAnswers
  <2>1. InFlight' \in Nat /\ InFlight' <= InFlight
    BY <1>12, AnswersReplace DEF DeviceAnswers
  <2> QED
    BY <1>12, <2>1, FewerIsFine DEF DeviceAnswers, host
<1>13. CASE DeviceReturns
  <2>1. UNCHANGED <<link, host>>
    BY <1>13 DEF DeviceReturns, ComesBack
  <2> QED
    BY <1>0, <1>u, <2>1, FewerIsFine DEF host
<1>14. CASE Fault
  <2>1. InFlight' \in Nat /\ InFlight' <= InFlight
    BY <1>0, <1>u, <1>14, LossRemoves, AnswersReplace DEF Fault, Disconnected, Reboot
  <2> QED
    BY <1>14, <2>1, FewerIsFine DEF Fault, host
<1>15. CASE UNCHANGED vars
  BY <1>0, <1>u, <1>15, FewerIsFine DEF vars, host
<1> QED
  BY <1>1, <1>2, <1>4, <1>5, <1>6, <1>7, <1>8, <1>9, <1>10, <1>11, <1>12, <1>13, <1>14, <1>15
  DEF Next, HostStep, RobustEraseStep

-----------------------------------------------------------------------------
(* What stays true.                                                        *)

\* No reset, reboot or other command fills a slot that is empty.
LEMMA ClearStays ==
    ASSUME SlotsTypeOK, Occupied, NEW d \in Device, NEW s \in {0, 1},
           image[d][s] = NoImage,
           UNCHANGED image \/ EraseSlot \/ (\E e \in Device : Boot(e))
    PROVE  image'[d][s] = NoImage
<1>0. s = 1 /\ image[d] \in [{0, 1} -> Image \cup {NoImage}] /\ swap[d] = "none"
  BY DEF SlotsTypeOK, Occupied
<1>1. CASE EraseSlot
  BY <1>0, <1>1 DEF EraseSlot, SlotsTypeOK
<1>2. CASE \E e \in Device : Boot(e)
  <2>1. PICK e \in Device : Boot(e)
    BY <1>2
  <2>2. image' = [image EXCEPT ![e] = IF swap[e] = "none" THEN image[e]
                                      ELSE [t \in {0, 1} |-> image[e][1 - t]]]
    BY <2>1 DEF Boot
  <2> QED
    BY <1>0, <2>2 DEF SlotsTypeOK
<1> QED
  BY <1>1, <1>2

\* The steps of the devices and the faults.
Around == DeviceAnswers \/ DeviceReturns \/ Fault

\* They change images only by erasing and booting, and do not take back that
\* a state write was accepted.
LEMMA AroundChanges ==
    ASSUME TypeInv, Around
    PROVE  /\ UNCHANGED image \/ EraseSlot \/ (\E e \in Device : Boot(e))
           /\ UNCHANGED <<host, peer>>
           /\ marked => marked'
<1>1. peer \in Device
  BY TypeParts DEF SlotsTypeOK
<1>2. CASE DeviceAnswers
  BY <1>1, <1>2 DEF DeviceAnswers, MarkSlot, RecordMark, DeviceStep, AnswerEcho,
     ReportState, RefuseMark, Erased, RefuseErase, Reset, slots, history
<1>3. CASE DeviceReturns
  BY <1>3 DEF DeviceReturns, ComesBack, history
<1>4. CASE Fault
  BY <1>4 DEF Fault, Disconnected, RefuseAny, EraseDropsLink, Reboot, slots, history
<1> QED
  BY <1>2, <1>3, <1>4 DEF Around

\* What an answer says stays true until the command goes on.
LEMMA HoldsStays ==
    ASSUME NEW r, TypeInv, Holds(r), UNCHANGED <<phase, slot, peer>>, marked => marked',
           UNCHANGED image \/ EraseSlot \/ (\E e \in Device : Boot(e))
    PROVE  Holds(r)'
<1>1. peer \in Device /\ slot \in {0, 1} /\ SlotsTypeOK /\ Occupied
  BY TypeParts DEF SlotsTypeOK, CommandTypeOK
<1>2. image[peer][slot] = NoImage => image'[peer][slot] = NoImage
  BY <1>1, ClearStays
<1>3. StillHolds(r.images)' <=> StillHolds(r.images)
  BY DEF StillHolds
<1> QED
  BY <1>2, <1>3 DEF Holds, check_rc

-----------------------------------------------------------------------------
(* The request on the link and its answer.                                 *)

Awaited == {"erase_wait", "recheck_wait", "write_wait"}

\* In the other phases nothing is asked.
LEMMA NothingAwaited == phase' \notin Awaited => Exchange'
BY DEF Awaited, Exchange, Asked, Holds

\* A queue of one frame.
LEMMA Single ==
    ASSUME NEW S, NEW q \in Seq(S), Len(q) = 1
    PROVE  Tail(q) = <<>> /\ q # <<>>
<1>1. q # <<>>
  BY EmptySeq
<1>2. Tail(q) \in Seq(S) /\ Len(Tail(q)) = 0
  BY <1>1, TailKeeps
<1> QED
  BY <1>1, <1>2, EmptySeq

\* Arithmetic: one and nothing else.
LEMMA OneOfThree ==
    \A a, b, c \in Nat : a # 0 /\ a + b + c <= 1 => a = 1 /\ b = 0 /\ c = 0
OBVIOUS

\* With one frame on the link, the request is alone when a device answers it,
\* and then its answer is.
LEMMA AloneOnLink ==
    ASSUME TypeInv, OneAtATime
    PROVE  /\ toDev # <<>> => Tail(toDev) = <<>> /\ notif = <<>> /\ buf = <<>>
           /\ notif # <<>> => Tail(notif) = <<>> /\ Len(notif) = 1 /\ toDev = <<>> /\ buf = <<>>
           /\ InFlight = 0 => toDev = <<>> /\ notif = <<>> /\ buf = <<>>
<1>1. LinkTypeOK
  BY TypeParts
<1>2. Len(toDev) + Len(notif) + Len(buf) <= 1
  BY DEF OneAtATime, InFlight
<1>3. CASE toDev # <<>>
  <2>1. Len(toDev) = 1 /\ Len(notif) = 0 /\ Len(buf) = 0
    <3>1. Len(toDev) # 0
      BY <1>1, <1>3, Lengths
    <3> QED
      BY <1>1, <1>2, <3>1, Lengths, OneOfThree
  <2> QED
    BY <1>1, <2>1, Lengths, Single DEF LinkTypeOK, InFlight
<1>4. CASE notif # <<>>
  <2>1. Len(toDev) = 0 /\ Len(notif) = 1 /\ Len(buf) = 0
    <3>1. Len(notif) # 0
      BY <1>1, <1>4, Lengths
    <3>2. Len(notif) + Len(toDev) + Len(buf) <= 1
      BY <1>1, <1>2, Lengths
    <3> QED
      BY <1>1, <3>1, <3>2, Lengths, OneOfThree
  <2> QED
    BY <1>1, <2>1, Lengths, Single DEF LinkTypeOK, InFlight
<1>5. CASE toDev = <<>> /\ notif = <<>>
  BY <1>1, <1>5, Lengths DEF InFlight
<1> QED
  BY <1>3, <1>4, <1>5

\* Asking on an empty link leaves the request alone on it.
LEMMA AskAlone ==
    ASSUME TypeInv, OneAtATime, phase \in Calm, NEW req, Ask(req)
    PROVE  toDev' # <<>> /\ Head(toDev').req = req /\ notif' = <<>> /\ buf' = <<>>
<1>1. toDev = <<>> /\ notif = <<>> /\ buf = <<>>
  BY AloneOnLink DEF OneAtATime
<1>2. toDev' = <<[seq |-> seq, req |-> req]>>
  BY <1>1 DEF Ask, WriteRequest
<1> QED
  BY <1>1, <1>2 DEF Ask, WriteRequest

\* An answer a device gives is about the state it leaves.
LEMMA AnswerHolds ==
    ASSUME TypeInv, OneAtATime, Exchange, UNCHANGED <<phase, slot, peer>>, NEW rsp, Answer(rsp),
           check_rc(rsp) =>
               /\ Served.cmd = "erase" => image'[peer][1] = NoImage /\ Served.slot = 1
               /\ Served.cmd = "state" => rsp.images = Listing /\ UNCHANGED image
               /\ Served.cmd = "write" => marked'
    PROVE  Exchange'
<1>1. toDev # <<>> /\ toDev' = Tail(toDev) /\ UNCHANGED buf
  BY DEF Answer
<1>2. toDev' = <<>> /\ notif = <<>> /\ buf' = <<>>
  BY <1>1, AloneOnLink
<1>3. notif' = <<[seq |-> Head(toDev).seq, ok |-> TRUE, req |-> Head(toDev).req, rsp |-> rsp]>>
  BY <1>2 DEF Answer
<1>4. Head(notif').rsp = rsp
  BY <1>3
<1>5. Asked(Served)
  BY <1>1 DEF Exchange, Served
<1>6. Served.cmd = "state" /\ check_rc(rsp)
         => (StillHolds(rsp.images) \/ image'[peer][slot] = NoImage)
  <2> SUFFICES ASSUME Served.cmd = "state", check_rc(rsp), image[peer][slot] # NoImage
               PROVE  StillHolds(rsp.images)
    OBVIOUS
  <2>1. rsp.images = Listing /\ slot \in {0, 1}
    BY TypeParts DEF CommandTypeOK
  <2>2. CASE slot = 0
    <3>1. 1 \in DOMAIN Listing /\ Listing[1].slot = 0
      BY DEF Listing, Report
    <3> QED
      BY <2>1, <2>2, <3>1 DEF StillHolds
  <2>3. CASE slot = 1
    <3>1. 2 \in DOMAIN Listing /\ Listing[2].slot = 1
      BY <2>3 DEF Listing, Report
    <3> QED
      BY <2>1, <2>3, <3>1 DEF StillHolds
  <2> QED
    BY <2>1, <2>2, <2>3
<1>7. Holds(rsp)'
  BY <1>5, <1>6 DEF Asked, Holds, check_rc, StillHolds
<1> QED
  BY <1>2, <1>4, <1>7 DEF Exchange

\* What is lost or garbled is not replaced by another answer.
LEMMA LossReads ==
    ASSUME TypeInv, OneAtATime,
           LoseRequest \/ LoseResponse \/ GarbleResponse \/ DropLink \/ UNCHANGED link
    PROVE  notif' = <<>> \/ (notif # <<>> /\ Head(notif').rsp = Head(notif).rsp)
<1>1. CASE LoseResponse
  BY <1>1, AloneOnLink DEF LoseResponse
<1>2. CASE GarbleResponse
  <2>1. notif # <<>> /\ notif \in Seq(Response) /\ notif' = [notif EXCEPT ![1].ok = FALSE]
    BY <1>2, TypeParts DEF GarbleResponse, LinkTypeOK
  <2>2. Len(notif) \in Nat \ {0} /\ notif[1] \in Response /\ Head(notif) = notif[1]
    BY <2>1, TailKeeps
  <2>3. PICK e : e = [notif[1] EXCEPT !.ok = FALSE]
    OBVIOUS
  <2>4. e \in Response /\ e.rsp = notif[1].rsp
    BY <2>2, <2>3 DEF Response
  <2>5. notif' = [notif EXCEPT ![1] = e]
    BY <2>1, <2>3
  <2>6. notif' \in Seq(Response) /\ notif'[1] = e /\ notif' # <<>>
    <3>1. 1 \in 1..Len(notif) /\ Len(notif) # 0
      BY <2>2
    <3>0. notif \in Seq(Response) /\ e \in Response
      BY <2>1, <2>4
    <3>2. notif' \in Seq(Response) /\ Len(notif') = Len(notif)
      BY <2>5, <3>0, <3>1, ExceptSeq
    <3>3. 1 \in DOMAIN notif
      BY <2>1, <3>1, LenProperties
    <3>4. notif'[1] = e
      BY <2>5, <3>3
    <3> QED
      BY <3>1, <3>2, <3>4, EmptySeq
  <2>7. Head(notif') = e
    BY <2>6, TailKeeps
  <2> QED
    BY <2>1, <2>2, <2>4, <2>7
<1>3. CASE UNCHANGED notif
  BY <1>3
<1> QED
  BY <1>1, <1>2, <1>3 DEF LoseRequest, DropLink, link

\* Frames lost, garbled or dropped leave nothing new to read.
LEMMA LossHolds ==
    ASSUME TypeInv, OneAtATime, Exchange, Around,
           LoseRequest \/ LoseResponse \/ GarbleResponse \/ DropLink \/ UNCHANGED link
    PROVE  Exchange'
<1>0. /\ UNCHANGED image \/ EraseSlot \/ (\E e \in Device : Boot(e))
      /\ UNCHANGED <<phase, slot, peer>> /\ (marked => marked')
  BY AroundChanges DEF host
<1>1. toDev' = <<>> \/ UNCHANGED toDev
  BY AloneOnLink DEF LoseRequest, LoseResponse, GarbleResponse, DropLink, link
<1>2. UNCHANGED buf
  BY DEF LoseRequest, LoseResponse, GarbleResponse, DropLink, link
<1>3. notif' = <<>> \/ (notif # <<>> /\ Head(notif').rsp = Head(notif).rsp)
  BY LossReads
<1>4. toDev' # <<>> => Asked(Head(toDev).req)'
  BY <1>0, <1>1 DEF Exchange, Asked
<1>5. ASSUME notif' # <<>>
      PROVE  Holds(Head(notif).rsp)'
  <2>1. PICK r : r = Head(notif).rsp
    OBVIOUS
  <2>2. Holds(r) /\ Head(notif').rsp = r
    BY <1>3, <1>5, <2>1 DEF Exchange
  <2>3. Holds(r)'
    BY <1>0, <2>2, HoldsStays
  <2> QED
    BY <2>2, <2>3 DEF Holds
<1>6. ASSUME buf' # <<>>
      PROVE  Holds(Head(buf).rsp)'
  <2>1. PICK r : r = Head(buf).rsp
    OBVIOUS
  <2>2. Holds(r) /\ Head(buf').rsp = r
    BY <1>2, <1>6, <2>1 DEF Exchange
  <2>3. Holds(r)'
    BY <1>0, <2>2, HoldsStays
  <2> QED
    BY <2>2, <2>3 DEF Holds
<1> QED
  BY <1>4, <1>5, <1>6 DEF Exchange

\* What is asked and answered stays true of the request on the link.
LEMMA ExchangeKept == TypeInv /\ OneAtATime /\ Exchange /\ [Next]_vars => Exchange'
<1> SUFFICES ASSUME TypeInv, OneAtATime, Exchange, [Next]_vars
             PROVE  Exchange'
  OBVIOUS
<1>1. CASE phase' \notin Awaited
  BY <1>1, NothingAwaited
<1>2. CASE SendRequest
  <2>1. phase \in Calm /\ Ask(Query)
    BY <1>2 DEF SendRequest, NextPhase, Calm
  <2>2. PICK q : q = Query
    OBVIOUS
  <2>3. toDev' # <<>> /\ Head(toDev').req = q /\ notif' = <<>> /\ buf' = <<>>
    BY <2>1, <2>2, AskAlone
  <2>4. /\ phase = "write" => q.cmd = "write"
        /\ phase' \notin {"erase_wait", "recheck_wait"}
        /\ phase' = "write_wait" => phase = "write"
    BY <1>2, <2>2 DEF Query, SendRequest, NextPhase
  <2> QED
    BY <2>3, <2>4 DEF Exchange, Asked
<1>3. CASE EraseSend
  <2>1. PICK q : q = [Bare("erase") EXCEPT !.slot = slot]
    OBVIOUS
  <2>2. q.cmd = "erase" /\ q.slot = slot
    BY <2>1 DEF Bare
  <2>3. phase \in Calm /\ Ask(q) /\ phase' = "erase_wait" /\ UNCHANGED slot
    BY <1>3, <2>1 DEF EraseSend, Calm
  <2> QED
    BY <2>2, <2>3, AskAlone DEF Exchange, Asked
<1>4. CASE Recheck
  <2>1. phase \in Calm /\ Ask(Bare("state")) /\ phase' = "recheck_wait"
    BY <1>4 DEF Recheck, Calm
  <2> QED
    BY <2>1, AskAlone DEF Exchange, Asked, Bare
<1>5. CASE ReadStream /\ UNCHANGED history
  <2>1. PICK k \in 1..Len(notif) : /\ buf' = SubSeq(notif, 1, k)
                                   /\ notif' = SubSeq(notif, k + 1, Len(notif))
    BY <1>5 DEF ReadStream, Push
  <2>2. UNCHANGED <<phase, slot, peer, image, marked, toDev>>
    BY <1>5 DEF ReadStream, Push, host, slots, history
  <2>3. notif \in Seq(Response) /\ Len(notif) \in Nat
    BY TypeParts, LenProperties DEF LinkTypeOK
  <2>4. notif # <<>>
    BY <2>1, <2>3, EmptySeq
  <2>5. k = 1 /\ Len(notif) = 1 /\ toDev = <<>>
    <3>1. Len(notif) = 1 /\ toDev = <<>>
      BY <2>4, AloneOnLink
    <3>2. k \in 1..1
      BY <3>1
    <3> QED
      BY <3>1, <3>2
  <2>6. Len(notif') = 0 /\ notif' \in Seq(Response)
    BY <2>1, <2>3, <2>5, SubSeqKeeps
  <2>7. Len(buf') = 1 /\ buf' \in Seq(Response) /\ buf'[1] = notif[1]
    BY <2>1, <2>3, <2>5, SubSeqKeeps
  <2>8. Head(buf') = Head(notif) /\ notif' = <<>>
    BY <2>3, <2>4, <2>6, <2>7, TailKeeps, EmptySeq
  <2>9. PICK r : r = Head(notif).rsp
    OBVIOUS
  <2>10. Holds(r) /\ Head(buf').rsp = r
    BY <2>4, <2>8, <2>9 DEF Exchange
  <2>11. Holds(r)'
    BY <2>2, <2>10, HoldsStays
  <2> QED
    BY <2>2, <2>5, <2>8, <2>10, <2>11 DEF Exchange, Holds
<1>6. CASE DeviceAnswers
  <2>0. /\ UNCHANGED <<phase, slot, peer>>
        /\ Around
    BY <1>6, AroundChanges DEF Around, host
  <2>1. CASE MarkSlot /\ RecordMark
    <3>1. Answer([rc |-> "ok", images |-> Listing]) /\ Served.cmd = "write" /\ marked' = TRUE
      BY <2>1 DEF MarkSlot, RecordMark, Serving, Served
    <3>2. PICK r : r = [rc |-> "ok", images |-> Listing]
      OBVIOUS
    <3> QED
      BY <2>0, <3>1, <3>2, AnswerHolds
  <2>2. CASE ReportState
    <3>1. Answer([rc |-> "ok", images |-> Listing]) /\ Served.cmd = "state" /\ UNCHANGED image
      BY <2>2 DEF ReportState, Serving, Served, slots
    <3>2. PICK r : r = [rc |-> "ok", images |-> Listing]
      OBVIOUS
    <3>3. r.images = Listing
      BY <3>2
    <3> QED
      BY <2>0, <3>1, <3>2, <3>3, AnswerHolds
  <2>3. CASE AnswerEcho \/ Erased
    <3>1. PICK r : r = [rc |-> "ok", images |-> <<>>]
      OBVIOUS
    <3>2. Answer(r)
      BY <2>3, <3>1 DEF AnswerEcho, Erased, Code
    <3>3. CASE AnswerEcho
      <4>1. Served.cmd = "echo"
        BY <3>3 DEF AnswerEcho, Serving, Served
      <4> QED
        BY <2>0, <3>2, <4>1, AnswerHolds
    <3>4. CASE Erased
      <4>1. Served.cmd = "erase" /\ Served.slot = 1
        BY <3>4 DEF Erased, Erasable, Serving, Served
      <4>2. image'[peer][1] = NoImage
        BY <3>4, TypeParts DEF Erased, EraseSlot, SlotsTypeOK
      <4> QED
        BY <2>0, <3>2, <4>1, <4>2, AnswerHolds
    <3> QED
      BY <2>3, <3>3, <3>4
  <2>4. CASE RefuseMark \/ RefuseErase
    <3>1. PICK r : r = [rc |-> "other", images |-> <<>>]
      OBVIOUS
    <3>2. Answer(r) /\ ~check_rc(r)
      BY <2>4, <3>1 DEF RefuseMark, RefuseErase, Code, check_rc
    <3> QED
      BY <2>0, <3>2, AnswerHolds
  <2>5. CASE Reset
    BY <2>0, <2>5, LossHolds DEF Reset
  <2> QED
    BY <1>6, <2>1, <2>2, <2>3, <2>4, <2>5 DEF DeviceAnswers, DeviceStep
<1>7. CASE DeviceReturns
  BY <1>7, LossHolds DEF DeviceReturns, ComesBack, Around
<1>8. CASE Fault
  <2>1. Around /\ UNCHANGED <<phase, slot, peer>>
    BY <1>8, AroundChanges DEF Around, host
  <2>2. CASE RefuseAny
    <3>1. PICK r : r = [rc |-> "other", images |-> <<>>]
      OBVIOUS
    <3>2. Answer(r) /\ ~check_rc(r)
      BY <2>2, <3>1 DEF RefuseAny, Code, check_rc
    <3> QED
      BY <2>1, <3>2, AnswerHolds
  <2> QED
    BY <1>8, <2>1, <2>2, LossHolds DEF Fault, Disconnected, EraseDropsLink, Reboot
<1>9. CASE UNCHANGED vars
  BY <1>9 DEF vars, link, slots, host, history, Exchange, Asked, Holds, StillHolds
<1>10. CASE HostStep \/ UserBegins
  <2>1. \/ SendRequest \/ EraseSend \/ Recheck
        \/ ReadStream /\ UNCHANGED history
        \/ phase' \notin Awaited
    BY <1>10 DEF HostStep, RobustEraseStep, UserBegins, Begin, OpenSession, OpenFails,
       FirstPhase, Simple, SendFails, WaitFails, ReadAnswered, Answered, Disconnect,
       EraseAnswered, EraseFails, AttemptConnects, AttemptFails, Sleep, Rechecked, Awaited
  <2> QED
    BY <1>1, <1>2, <1>3, <1>4, <1>5, <2>1
<1> QED
  BY <1>6, <1>7, <1>8, <1>9, <1>10 DEF Next

-----------------------------------------------------------------------------
(* What success means.                                                     *)

OutcomeInv ==
    TypeInv /\ InItsPhases /\ OneAtATime /\ Exchange /\ EraseIsDone /\ OkMeansMarked

\* Nothing runs at the start, and nothing is on the link.
LEMMA OutcomeInit == Init => OutcomeInv
<1> SUFFICES ASSUME Init PROVE OutcomeInv
  OBVIOUS
<1>1. TypeInv
  BY TypeInit
<1>2. phase = "done" /\ left = MaxCommands /\ toDev = <<>> /\ notif = <<>> /\ buf = <<>>
  BY DEF Init
<1>3. InFlight = 0
  BY <1>2, EmptySeq DEF InFlight
<1>4. InItsPhases /\ OneAtATime /\ Exchange
  BY <1>2, <1>3 DEF InItsPhases, OneAtATime, Calm, Exchange
<1>5. EraseIsDone /\ OkMeansMarked
  BY <1>2, CommandsAssumption DEF EraseIsDone, OkMeansMarked, Reported
<1> QED
  BY <1>1, <1>4, <1>5 DEF OutcomeInv

\* The step that makes a command succeed: it has done what it was to do.
LEMMA Closing ==
    ASSUME InItsPhases, Exchange, HostStep, phase' = "closing"
    PROVE  /\ cmd' = cmd
           /\ cmd.name = "erase" => image'[peer'][slot'] = NoImage
           /\ Marking => marked'
<1>0. UNCHANGED marked
  BY DEF HostStep, history
<1>1. CASE SendRequest
  BY <1>1 DEF SendRequest, NextPhase, command, InItsPhases, Marking
<1>2. CASE ReadAnswered
  BY <1>2 DEF ReadAnswered, InItsPhases, Marking
<1>3. CASE Answered
  <2>1. Holds(Head(buf).rsp) /\ check_rc(Head(buf).rsp)
    BY <1>3 DEF Answered, Matches, Exchange
  <2>2. phase \in {"echo_wait", "write_wait"} /\ UNCHANGED command
    BY <1>3 DEF Answered
  <2> QED
    BY <1>0, <2>1, <2>2 DEF Holds, InItsPhases, Marking, command
<1>4. CASE (EraseAnswered \/ Rechecked) /\ UNCHANGED command
  <2>1. Holds(Head(buf).rsp) /\ check_rc(Head(buf).rsp)
    BY <1>4 DEF EraseAnswered, Rechecked, Matches, Exchange
  <2>2. \/ phase = "erase_wait"
        \/ phase = "recheck_wait" /\ ~StillHolds(Head(buf).rsp.images)
    BY <1>4 DEF EraseAnswered, Rechecked
  <2>3. UNCHANGED <<cmd, image, peer, slot>>
    BY <1>4 DEF EraseAnswered, Rechecked, slots, command
  <2> QED
    BY <2>1, <2>2, <2>3 DEF Holds, InItsPhases, Marking
<1>5. CASE ReadStream
  BY <1>5 DEF ReadStream, host, Waiting
<1>6. CASE OpenSession
  BY <1>6 DEF OpenSession, FirstPhase, Simple
<1>7. CASE OpenFails \/ SendFails \/ WaitFails \/ Disconnect
  BY <1>7 DEF OpenFails, SendFails, WaitFails, Disconnect
<1>8. CASE EraseSend \/ EraseFails \/ AttemptConnects \/ AttemptFails \/ Sleep \/ Recheck
  BY <1>8 DEF EraseSend, EraseFails, AttemptConnects, AttemptFails, Sleep, Recheck
<1> QED
  BY <1>1, <1>2, <1>3, <1>4, <1>5, <1>6, <1>7, <1>8 DEF HostStep, RobustEraseStep

\* What was achieved stays achieved while nothing else is asked for.
LEMMA StaysAchieved ==
    ASSUME TypeInv, EraseIsDone, OkMeansMarked, UNCHANGED <<phase, cmd, slot, left, peer>>,
           marked => marked',
           UNCHANGED image \/ EraseSlot \/ (\E e \in Device : Boot(e))
    PROVE  EraseIsDone' /\ OkMeansMarked'
<1>1. peer \in Device /\ slot \in {0, 1} /\ SlotsTypeOK /\ Occupied
  BY TypeParts DEF SlotsTypeOK, CommandTypeOK
<1>2. image[peer][slot] = NoImage => image'[peer][slot] = NoImage
  BY <1>1, ClearStays
<1> QED
  BY <1>2 DEF EraseIsDone, OkMeansMarked, Reported

\* Every step keeps what success means.
LEMMA OutcomeNext == OutcomeInv /\ [Next]_vars => OutcomeInv'
<1> SUFFICES ASSUME OutcomeInv, [Next]_vars
             PROVE  OutcomeInv'
  OBVIOUS
<1>0. TypeInv /\ InItsPhases /\ OneAtATime /\ Exchange /\ EraseIsDone /\ OkMeansMarked
  BY DEF OutcomeInv
<1>1. TypeInv' /\ InItsPhases' /\ OneAtATime' /\ Exchange'
  BY <1>0, TypeNext, PhasesKept, OneKept, ExchangeKept
<1>2. EraseIsDone' /\ OkMeansMarked'
  <2>1. CASE UserBegins
    BY <2>1 DEF UserBegins, Begin, EraseIsDone, OkMeansMarked, Reported
  <2>2. CASE HostStep /\ phase' = "closing"
    BY <1>0, <2>2, Closing DEF EraseIsDone, OkMeansMarked, Reported, Marking
  <2>3. CASE Disconnect /\ UNCHANGED history
    BY <1>0, <2>3 DEF Disconnect, slots, command, history, EraseIsDone, OkMeansMarked,
       Reported
  <2>4. CASE HostStep /\ ~Disconnect /\ phase' # "closing"
    <3>1. phase' # "done"
      BY <2>4 DEF HostStep, RobustEraseStep, OpenSession, FirstPhase, Simple, OpenFails,
         SendRequest, NextPhase, SendFails, WaitFails, ReadAnswered, Answered, ReadStream,
         Waiting, host, EraseSend, EraseAnswered, EraseFails, AttemptConnects,
         AttemptFails, Sleep, Recheck, Rechecked
    <3> QED
      BY <2>4, <3>1 DEF EraseIsDone, OkMeansMarked, Reported
  <2>5. CASE Around
    BY <1>0, <2>5, AroundChanges, StaysAchieved DEF host, command
  <2>6. CASE UNCHANGED vars
    BY <1>0, <2>6, StaysAchieved DEF vars, host, command, slots, history
  <2> QED
    BY <2>1, <2>2, <2>3, <2>4, <2>5, <2>6 DEF Next, Around, HostStep
<1> QED
  BY <1>1, <1>2 DEF OutcomeInv

\* An erase that reports success leaves the slot of the device it ended with
\* empty, however often the link dropped, answers were lost and devices
\* rebooted (robust_erase).
THEOREM EraseReportsTruly == Spec => []EraseIsDone
<1>1. OutcomeInv => EraseIsDone
  BY DEF OutcomeInv
<1> QED
  BY <1>1, OutcomeInit, OutcomeNext, PTL DEF Spec

\* A test or confirm that reports success was accepted by the device
\* (set_state, check_rc).
THEOREM MarksReportTruly == Spec => []OkMeansMarked
<1>1. OutcomeInv => OkMeansMarked
  BY DEF OutcomeInv
<1> QED
  BY <1>1, OutcomeInit, OutcomeNext, PTL DEF Spec

-----------------------------------------------------------------------------
(* What a command picks from a listing.                                    *)

\* While the answer to a read is on its way the listing in it is that of the
\* device, and the image picked from it still fits when it is written: who
\* changes what a device lists loses the link, or serves another request.
AsksFor(req) ==
    /\ phase = "read_wait" => req.cmd = "state"
    /\ (phase = "write_wait" /\ cmd.hash = Default) => req.hash = Fitting

Lists(rsp) == (phase = "read_wait" /\ up /\ check_rc(rsp)) => rsp.images = Listing

PickInv ==
    /\ toDev # <<>> => up /\ AsksFor(Head(toDev).req)
    /\ notif # <<>> => Lists(Head(notif).rsp)
    /\ buf # <<>> => Lists(Head(buf).rsp)
    /\ (phase = "write" /\ up /\ cmd.hash = Default) => target = Fitting

Picking == {"read_wait", "write", "write_wait"}

\* What select_default_target picks from the listing of a device is what the
\* command means on that device, if it picks anything.
LEMMA SelectFits ==
    ASSUME SlotsTypeOK, Marking, select_default_target(Listing) # NoImage
    PROVE  select_default_target(Listing) = Fitting
<1> DEFINE hits == {i \in DOMAIN Listing : Fits(Listing[i])}
           first == CHOOSE i \in hits : \A j \in hits : i <= j
<1>1. hits # {} /\ select_default_target(Listing) = Listing[first].hash
  BY DEF select_default_target
<1>2. DOMAIN Listing = IF image[peer][1] = NoImage THEN {1} ELSE {1, 2}
  BY DEF Listing
<1>3. Listing[1] = Report(0) /\ (image[peer][1] # NoImage => Listing[2] = Report(1))
  BY DEF Listing
<1>4. Fits(Listing[1]) <=> cmd.name = "confirm" /\ swap[peer] = "trial"
  <2>1. Report(0).active = TRUE /\ Report(0).confirmed = (swap[peer] # "trial")
    BY DEF Report
  <2>2. Fits(Report(0)) <=> cmd.name = "confirm" /\ swap[peer] = "trial"
    BY <2>1 DEF Fits
  <2> QED
    BY <1>3, <2>2
<1>5. Report(0).hash = image[peer][0] /\ Report(1).hash = image[peer][1]
  BY DEF Report
<1>6. CASE Fits(Listing[1])
  <2>1. 1 \in hits /\ \A j \in hits : 1 <= j
    <3>1. 1 \in DOMAIN Listing /\ \A j \in DOMAIN Listing : j \in {1, 2}
      BY <1>2
    <3>2. 1 \in hits /\ \A j \in hits : j \in {1, 2}
      BY <1>6, <3>1
    <3> QED
      BY <3>2
  <2>2. first = 1
    <3>1. first \in hits /\ \A j \in hits : first <= j
      BY <2>1
    <3> QED
      BY <2>1, <3>1, <1>2
  <2> QED
    BY <1>1, <1>3, <1>4, <1>5, <1>6, <2>2 DEF Fitting
<1>7. CASE ~Fits(Listing[1])
  <2>1. hits = {2} /\ image[peer][1] # NoImage
    BY <1>1, <1>2, <1>7
  <2>2. first = 2
    BY <2>1
  <2> QED
    BY <1>1, <1>3, <1>4, <1>5, <1>7, <2>1, <2>2 DEF Fitting
<1> QED
  BY <1>6, <1>7

\* What a device lists, and what fits it, is its own.
LEMMA SameDevice ==
    ASSUME UNCHANGED <<cmd, peer>>, image'[peer] = image[peer], swap'[peer] = swap[peer]
    PROVE  Listing' = Listing /\ Fitting' = Fitting
BY DEF Listing, Report, Fitting

\* Away from the read and the write there is nothing to pick.
LEMMA NothingPicked ==
    ASSUME phase' \notin Picking, toDev' # <<>> => up'
    PROVE  PickInv'
BY DEF Picking, PickInv, AsksFor, Lists

\* With the link down there is nothing to serve.
LEMMA NothingServed ==
    ASSUME toDev' = <<>>, ~up'
    PROVE  PickInv'
BY DEF PickInv, Lists

\* Devices and faults lose the link, leave the device at its other end as it
\* is, or serve a request that changes it.
LEMMA AroundServes ==
    ASSUME TypeInv, Around, toDev # <<>> => up
    PROVE  \/ toDev' = <<>> /\ ~up'
           \/ up' = up /\ image'[peer] = image[peer] /\ swap'[peer] = swap[peer]
           \/ /\ toDev # <<>> /\ toDev' = Tail(toDev) /\ up' = up
              /\ Served.cmd \in {"write", "erase"}
<1>0. image \in [Device -> [{0, 1} -> Image \cup {NoImage}]] /\ swap \in [Device -> Swaps]
      /\ peer \in Device /\ toDev \in Seq(Request)
  BY TypeParts DEF SlotsTypeOK, LinkTypeOK
<1>1. CASE MarkSlot
  BY <1>1 DEF MarkSlot, Serving, Served, Answer
<1>2. CASE Erased
  BY <1>2 DEF Erased, Serving, Served, Code, Answer
<1>3. CASE AnswerEcho \/ ReportState \/ RefuseMark \/ RefuseErase \/ RefuseAny
  BY <1>3 DEF AnswerEcho, ReportState, RefuseMark, RefuseErase, RefuseAny, Code, Answer, slots
<1>4. CASE Reset \/ Disconnected \/ EraseDropsLink
  BY <1>4 DEF Reset, Disconnected, EraseDropsLink, DropLink
<1>5. CASE LoseRequest /\ UNCHANGED slots
  BY <1>5 DEF LoseRequest, slots
<1>6. CASE (LoseResponse \/ GarbleResponse) /\ UNCHANGED slots
  BY <1>6 DEF LoseResponse, GarbleResponse, slots
<1>7. ASSUME NEW d \in Device, Reboot(d)
      PROVE  \/ toDev' = <<>> /\ ~up'
             \/ up' = up /\ image'[peer] = image[peer] /\ swap'[peer] = swap[peer]
  <2>1. CASE d = peer
    BY <1>7, <2>1 DEF Reboot, DropLink, link
  <2>2. CASE d # peer
    <3>1. image'[peer] = image[peer] /\ swap'[peer] = swap[peer]
      BY <1>0, <1>7, <2>2 DEF Reboot, Boot
    <3> QED
      BY <1>7, <2>2, <3>1 DEF Reboot, link
  <2> QED
    BY <2>1, <2>2
<1>8. CASE DeviceReturns
  BY <1>8 DEF DeviceReturns, ComesBack, link
<1> QED
  BY <1>1, <1>2, <1>3, <1>4, <1>5, <1>6, <1>7, <1>8
  DEF Around, DeviceAnswers, DeviceStep, Fault

\* They lose frames, or answer the one request there is: a read with what the
\* device lists.
LEMMA AroundAnswers ==
    ASSUME Around
    PROVE  \/ LoseRequest \/ LoseResponse \/ GarbleResponse \/ DropLink \/ UNCHANGED link
           \/ \E rsp : /\ Answer(rsp)
                       /\ (Served.cmd = "state" /\ check_rc(rsp)) => rsp.images = Listing
<1>1. CASE MarkSlot \/ ReportState
  BY <1>1 DEF MarkSlot, ReportState
<1>2. CASE AnswerEcho \/ Erased
  BY <1>2 DEF AnswerEcho, Erased, Serving, Served, Code
<1>3. CASE RefuseMark \/ RefuseErase \/ RefuseAny
  <2>1. PICK r : r = [rc |-> "other", images |-> <<>>]
    OBVIOUS
  <2>2. Answer(r) /\ ~check_rc(r)
    BY <1>3, <2>1 DEF RefuseMark, RefuseErase, RefuseAny, Code, check_rc
  <2> QED
    BY <2>2
<1>4. CASE ~(MarkSlot \/ ReportState \/ AnswerEcho \/ Erased \/ RefuseMark \/ RefuseErase \/ RefuseAny)
  BY <1>4 DEF Around, DeviceAnswers, DeviceStep, Reset, DeviceReturns, ComesBack, Fault,
     Disconnected, EraseDropsLink, Reboot
<1> QED
  BY <1>1, <1>2, <1>3, <1>4

\* An answer is alone on the link.
LEMMA AnswerAlone ==
    ASSUME TypeInv, OneAtATime, NEW rsp, Answer(rsp)
    PROVE  toDev # <<>> /\ toDev' = <<>> /\ buf' = <<>> /\ Head(notif').rsp = rsp
<1>1. toDev # <<>> /\ toDev' = Tail(toDev) /\ UNCHANGED buf
  BY DEF Answer
<1>2. toDev' = <<>> /\ notif = <<>> /\ buf' = <<>>
  BY <1>1, AloneOnLink
<1>3. notif' = <<[seq |-> Head(toDev).seq, ok |-> TRUE, req |-> Head(toDev).req, rsp |-> rsp]>>
  BY <1>2 DEF Answer
<1> QED
  BY <1>1, <1>2, <1>3

\* Devices and faults keep it.
LEMMA PickAround ==
    ASSUME TypeInv, OneAtATime, PickInv, Around
    PROVE  PickInv'
<1>0. /\ UNCHANGED <<phase, cmd, target, peer>>
      /\ toDev # <<>> => up /\ AsksFor(Head(toDev).req)
  BY AroundChanges DEF host, command, PickInv
<1>1. CASE toDev' = <<>> /\ ~up'
  BY <1>1, NothingServed
<1>2. CASE /\ toDev # <<>> /\ toDev' = Tail(toDev) /\ up' = up
           /\ Served.cmd \in {"write", "erase"}
  <2>1. toDev' = <<>> /\ phase # "read_wait"
    BY <1>0, <1>2, AloneOnLink DEF AsksFor, Served
  <2>2. phase # "write"
    BY <1>2, AloneOnLink DEF OneAtATime, Calm
  <2> QED
    BY <1>0, <2>1, <2>2 DEF PickInv, Lists
<1>3. CASE up' = up /\ image'[peer] = image[peer] /\ swap'[peer] = swap[peer]
  <2>0. Listing' = Listing /\ Fitting' = Fitting
    BY <1>0, <1>3, SameDevice
  <2>1. CASE \E rsp : /\ Answer(rsp)
                      /\ (Served.cmd = "state" /\ check_rc(rsp)) => rsp.images = Listing
    <3>1. PICK r : /\ Answer(r)
                   /\ (Served.cmd = "state" /\ check_rc(r)) => r.images = Listing
      BY <2>1
    <3>2. toDev # <<>> /\ toDev' = <<>> /\ buf' = <<>> /\ Head(notif').rsp = r
      BY <3>1, AnswerAlone
    <3>3. phase = "read_wait" => Served.cmd = "state"
      BY <1>0, <3>2 DEF AsksFor, Served
    <3>4. phase # "write"
      BY <3>2, AloneOnLink DEF OneAtATime, Calm
    <3> QED
      BY <1>0, <2>0, <3>1, <3>2, <3>3, <3>4 DEF PickInv, Lists, check_rc
  <2>2. CASE LoseRequest \/ LoseResponse \/ GarbleResponse \/ DropLink \/ UNCHANGED link
    <3>1. toDev' = <<>> \/ UNCHANGED toDev
      BY <2>2, AloneOnLink DEF LoseRequest, LoseResponse, GarbleResponse, DropLink, link
    <3>2. UNCHANGED buf
      BY <2>2 DEF LoseRequest, LoseResponse, GarbleResponse, DropLink, link
    <3>3. notif' = <<>> \/ (notif # <<>> /\ Head(notif').rsp = Head(notif).rsp)
      BY <2>2, LossReads
    <3> QED
      BY <1>0, <1>3, <2>0, <3>1, <3>2, <3>3 DEF PickInv, Lists, AsksFor, check_rc
  <2> QED
    BY <2>1, <2>2, AroundAnswers
<1> QED
  BY <1>0, <1>1, <1>2, <1>3, AroundServes

\* Reading the stream moves the one answer there is.
LEMMA PushReads ==
    ASSUME TypeInv, OneAtATime, Push
    PROVE  /\ toDev' = <<>> /\ notif' = <<>> /\ UNCHANGED up
           /\ notif # <<>> /\ buf' # <<>> /\ Head(buf') = Head(notif)
<1>1. PICK k \in 1..Len(notif) : /\ buf' = SubSeq(notif, 1, k)
                                 /\ notif' = SubSeq(notif, k + 1, Len(notif))
  BY DEF Push
<1>2. notif \in Seq(Response) /\ Len(notif) \in Nat
  BY TypeParts, LenProperties DEF LinkTypeOK
<1>3. notif # <<>>
  BY <1>1, <1>2, EmptySeq
<1>4. k = 1 /\ Len(notif) = 1 /\ toDev = <<>>
  <2>1. Len(notif) = 1 /\ toDev = <<>>
    BY <1>3, AloneOnLink
  <2>2. k \in 1..1
    BY <2>1
  <2> QED
    BY <2>1, <2>2
<1>5. Len(notif') = 0 /\ notif' \in Seq(Response)
  BY <1>1, <1>2, <1>4, SubSeqKeeps
<1>6. Len(buf') = 1 /\ buf' \in Seq(Response) /\ buf'[1] = notif[1]
  BY <1>1, <1>2, <1>4, SubSeqKeeps
<1>7. Head(buf') = Head(notif) /\ notif' = <<>> /\ buf' # <<>>
  BY <1>2, <1>3, <1>5, <1>6, TailKeeps, EmptySeq
<1> QED
  BY <1>3, <1>4, <1>7 DEF Push

\* So does the host: it asks with what it picked.
LEMMA PickHost ==
    ASSUME OutcomeInv, PickInv, HostStep
    PROVE  PickInv'
<1>0. TypeInv /\ InItsPhases /\ OneAtATime
  BY DEF OutcomeInv
<1>1. CASE SendRequest
  <2>1. phase \in Calm /\ Ask(Query) /\ up /\ up'
    BY <1>1 DEF SendRequest, NextPhase, Calm, Ask, WriteRequest
  <2>2. PICK q : q = Query
    OBVIOUS
  <2>3. Head(toDev').req = q /\ notif' = <<>> /\ buf' = <<>>
    BY <1>0, <2>1, <2>2, AskAlone
  <2>4. UNCHANGED <<image, swap, peer, cmd, target>>
    BY <1>1 DEF SendRequest, slots, command
  <2>5. Listing' = Listing /\ Fitting' = Fitting
    BY <2>4, SameDevice
  <2>6. /\ phase' = "read_wait" => q.cmd = "state"
        /\ phase' = "write_wait" => phase = "write" /\ q.hash = target
        /\ phase' # "write"
    BY <1>1, <2>2 DEF SendRequest, NextPhase, Query
  <2> QED
    BY <2>1, <2>3, <2>4, <2>5, <2>6 DEF PickInv, AsksFor
<1>2. CASE ReadAnswered
  <2>1. buf # <<>> /\ Head(buf).ok /\ UNCHANGED <<notif, up, toDev>> /\ phase = "read_wait"
    BY <1>2 DEF ReadAnswered, Matches, TakeFrame
  <2>2. toDev' = <<>>
    BY <1>0, <2>1, AloneOnLink
  <2>3. PICK r : r = Head(buf).rsp
    OBVIOUS
  <2>4. Lists(r)
    BY <2>1, <2>3 DEF PickInv
  <2>5. UNCHANGED <<image, swap, peer, cmd>> /\ phase' # "read_wait"
    BY <1>2 DEF ReadAnswered, slots
  <2>6. phase' = "write" => /\ Marking /\ check_rc(r)
                            /\ target' = select_default_target(r.images) /\ target' # NoImage
    BY <1>2, <2>3 DEF ReadAnswered
  <2>7. (phase' = "write" /\ up') => target' = Fitting
    BY <1>0, <2>1, <2>4, <2>6, SelectFits, TypeParts DEF Lists
  <2>8. Fitting' = Fitting
    BY <2>5, SameDevice
  <2> QED
    BY <2>2, <2>5, <2>7, <2>8 DEF PickInv, Lists
<1>3. CASE ReadStream
  <2>1. /\ toDev' = <<>> /\ notif' = <<>> /\ UNCHANGED up
        /\ notif # <<>> /\ buf' # <<>> /\ Head(buf') = Head(notif)
    BY <1>0, <1>3, PushReads DEF ReadStream
  <2>2. UNCHANGED <<image, swap, peer, cmd, phase>> /\ phase # "write"
    BY <1>3 DEF ReadStream, slots, host, command, Waiting
  <2>3. Listing' = Listing
    BY <2>2, SameDevice
  <2>4. PICK r : r = Head(notif).rsp
    OBVIOUS
  <2>5. Lists(r) /\ Head(buf').rsp = r
    BY <2>1, <2>4 DEF PickInv
  <2>6. Lists(r)'
    BY <2>1, <2>2, <2>3, <2>5 DEF Lists, check_rc
  <2> QED
    BY <2>1, <2>2, <2>5, <2>6 DEF PickInv, Lists
<1>4. CASE OpenSession
  <2>1. toDev' = <<>> /\ notif' = <<>> /\ buf' = <<>>
    BY <1>4 DEF OpenSession, NewSession
  <2>2. phase' # "write" \/ cmd'.hash # Default
    BY <1>4, CommandsAssumption DEF OpenSession, FirstPhase, Simple
  <2> QED
    BY <2>1, <2>2 DEF PickInv
<1>5. CASE OpenFails \/ SendFails \/ WaitFails \/ Answered \/ Disconnect
  <2>1. phase' \notin Picking
    BY <1>5 DEF OpenFails, SendFails, WaitFails, Answered, Disconnect, Picking
  <2>2. (toDev' = toDev /\ up' = up) \/ toDev' = <<>>
    BY <1>5 DEF OpenFails, SendFails, WriteFails, WaitFails, Answered, TakeFrame, Disconnect,
       DropLink, link
  <2> QED
    BY <2>1, <2>2, NothingPicked DEF PickInv
<1>6. CASE RobustEraseStep
  <2>1. phase' \notin Picking
    BY <1>6 DEF RobustEraseStep, EraseSend, EraseAnswered, EraseFails, AttemptConnects,
       AttemptFails, Sleep, Recheck, Rechecked, Picking
  <2>2. (toDev' = toDev /\ up' = up) \/ toDev' = <<>> \/ up'
    BY <1>6 DEF RobustEraseStep, EraseSend, EraseAnswered, EraseFails, AttemptConnects,
       AttemptFails, Sleep, Recheck, Rechecked, TakeFrame, Ask, WriteRequest, drop_session,
       NewSession, link
  <2> QED
    BY <2>1, <2>2, NothingPicked DEF PickInv
<1> QED
  BY <1>1, <1>2, <1>3, <1>4, <1>5, <1>6 DEF HostStep

\* Every step keeps it.
LEMMA PickNext == OutcomeInv /\ PickInv /\ [Next]_vars => PickInv'
<1> SUFFICES ASSUME OutcomeInv, PickInv, [Next]_vars
             PROVE  PickInv'
  OBVIOUS
<1>0. TypeInv /\ OneAtATime
  BY DEF OutcomeInv
<1>1. CASE UserBegins
  BY <1>1, NothingPicked DEF UserBegins, Begin, drop_session, Picking
<1>2. CASE HostStep
  BY <1>2, PickHost
<1>3. CASE Around
  BY <1>0, <1>3, PickAround
<1>4. CASE UNCHANGED vars
  <2>1. UNCHANGED <<toDev, notif, buf, up, image, swap, peer, phase, cmd, target>>
    BY <1>4 DEF vars, link, slots, host, command
  <2>2. Listing' = Listing /\ Fitting' = Fitting
    BY <2>1, SameDevice
  <2> QED
    BY <2>1, <2>2 DEF PickInv, AsksFor, Lists, check_rc
<1> QED
  BY <1>1, <1>2, <1>3, <1>4 DEF Next, Around

\* Without a hash, a test or confirm names the image that is meant at the
\* moment the device reads the request: the listing it was picked from is
\* still true then (select_default_target, set_state).
THEOREM WritesFit == Spec => []WritesWhatFits
<1>1. Init => PickInv
  BY DEF Init, PickInv
<1>2. PickInv => WritesWhatFits
  BY DEF PickInv, AsksFor, WritesWhatFits
<1> QED
  BY <1>1, <1>2, OutcomeInit, OutcomeNext, PickNext, PTL DEF Spec
=============================================================================
