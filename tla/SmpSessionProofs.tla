-------------------------- MODULE SmpSessionProofs --------------------------
(***************************************************************************)
(* TLAPS proofs about SmpSession: type correctness, and that a request     *)
(* returns the answer to itself, for every number of sequence numbers,     *)
(* every burst size, every number of requests and of faults.               *)
(*                                                                         *)
(* Correlated is not inductive: whether a frame in the assembler can be    *)
(* mistaken for the answer depends on the number it carries, and that on   *)
(* how many requests ago it was asked.  The invariant says that a frame in *)
(* flight asked a requests ago carries the number a below the next one     *)
(* (modulo SeqMod) and that 1 <= a <= SeqMod, so that only the youngest    *)
(* request can carry the number that is waited for.                        *)
(***************************************************************************)
EXTENDS SmpSession, QueueFacts

\* Counting a numbers back from s.
Back(s, a) == IF a <= s THEN s - a ELSE s + SeqMod - a

\* x is a frame of one of the last SeqMod of n requests, and carries the
\* number that request was given; s is the number of the next request.
Fits(x, n, s) ==
    /\ n - x.req \in 1..SeqMod
    /\ x.seq = Back(s, n - x.req)

Numbered(q, n, s) == \A i \in 1..Len(q) : Fits(q[i], n, s)
Echoed(q) == \A i \in 1..Len(q) : q[i].rsp = q[i].req

WantFits == Waiting => issued >= 1 /\ want = Back(seq, 1)

Inv ==
    /\ TypeOK
    /\ Numbered(toDev, issued, seq)
    /\ Numbered(notif, issued, seq)
    /\ Numbered(buf, issued, seq)
    /\ Echoed(notif)
    /\ Echoed(buf)
    /\ WantFits
    /\ Correlated

-----------------------------------------------------------------------------
(* Frames.                                                                 *)

\* Ageing by one request: what an unanswered frame becomes when next_seq
\* hands out one more number, which may wrap.
LEMMA Ageing ==
    ASSUME NEW x, NEW n \in Nat, NEW s \in 0..(SeqMod - 1),
           x.req \in Nat, x.seq \in 0..(SeqMod - 1),
           Fits(x, n, s), n - x.req < SeqMod
    PROVE  Fits(x, n + 1, IF s = SeqMod - 1 THEN 0 ELSE s + 1)
BY SeqModAssumption DEF Fits, Back

\* Only the youngest request carries the number before the next one.
LEMMA OnlyYoungest ==
    ASSUME NEW x, NEW n \in Nat, NEW s \in 0..(SeqMod - 1),
           x.req \in Nat, Fits(x, n, s), x.seq = Back(s, 1)
    PROVE  x.req = n - 1
BY SeqModAssumption DEF Fits, Back

-----------------------------------------------------------------------------
(* The steps.                                                              *)

\* A new request ages every frame in flight by one, and each of them still
\* fits: MayIssue says that none is too old for it.
LEMMA IssueAges ==
    ASSUME Inv, MayIssue, seq' = next_seq, issued' = issued + 1
    PROVE  /\ seq' \in 0..(SeqMod - 1)
           /\ issued' \in Nat
           /\ seq = Back(seq', 1)
           /\ Numbered(toDev, issued', seq')
           /\ Numbered(notif, issued', seq')
           /\ Numbered(buf, issued', seq')
<1>. USE SeqModAssumption, MaxOutstandingAssumption
<1>1. seq \in 0..(SeqMod - 1) /\ issued \in Nat
  BY DEF Inv, TypeOK
<1>2. seq' \in 0..(SeqMod - 1) /\ issued' \in Nat /\ seq = Back(seq', 1)
  BY <1>1 DEF next_seq, Back
<1>3. ASSUME NEW S, NEW q \in Seq(S), Numbered(q, issued, seq), Young(q),
             \A x \in S : x.req \in Nat /\ x.seq \in 0..(SeqMod - 1)
      PROVE  Numbered(q, issued', seq')
  <2>1. SUFFICES ASSUME NEW i \in 1..Len(q)
                 PROVE  Fits(q[i], issued', seq')
    BY DEF Numbered
  <2>2. q[i].req \in Nat /\ q[i].seq \in 0..(SeqMod - 1)
    BY <1>3, ElementOfSeq
  <2>3. Fits(q[i], issued, seq) /\ issued - q[i].req < SeqMod
    BY <1>1, <1>3, <2>2 DEF Numbered, Young
  <2>. QED  BY <1>1, <2>2, <2>3, Ageing DEF next_seq
<1>4. /\ toDev \in Seq(Request) /\ notif \in Seq(Response) /\ buf \in Seq(Response)
      /\ Young(toDev) /\ Young(notif) /\ Young(buf)
      /\ Numbered(toDev, issued, seq)
      /\ Numbered(notif, issued, seq)
      /\ Numbered(buf, issued, seq)
  BY DEF Inv, TypeOK, MayIssue
<1>5. /\ \A x \in Request : x.req \in Nat /\ x.seq \in 0..(SeqMod - 1)
      /\ \A x \in Response : x.req \in Nat /\ x.seq \in 0..(SeqMod - 1)
  BY DEF Request, Response
<1>. QED  BY <1>2, <1>3, <1>4, <1>5

\* A request that reaches the radio is the youngest frame of all.
LEMMA IssuePreserves ==
    ASSUME Inv, NEW kind \in {"idle", "request", "watch"}, Issue(kind)
    PROVE  Inv'
<1>. USE DEF Issue, WriteRequest
<1>1. /\ seq' \in 0..(SeqMod - 1) /\ issued' \in Nat /\ seq = Back(seq', 1)
      /\ Numbered(toDev, issued', seq')
      /\ Numbered(notif, issued', seq')
      /\ Numbered(buf, issued', seq')
  BY IssueAges
<1>. DEFINE new == [seq |-> seq, req |-> issued]
<1>2. /\ new \in Request /\ new.seq = seq /\ new.req = issued
      /\ toDev \in Seq(Request) /\ toDev' = Append(toDev, new)
  BY DEF Inv, TypeOK, Request
<1>3. TypeOK'
  <2>1. toDev' \in Seq(Request)
    BY <1>2, AppendKeeps
  <2>. QED  BY <1>1, <2>1 DEF Inv, TypeOK
<1>4. Numbered(toDev', issued', seq')
  <2>1. Fits(new, issued', seq')
    BY <1>1, <1>2, SeqModAssumption DEF Fits, Inv, TypeOK
  <2>. HIDE DEF new
  <2>2. SUFFICES ASSUME NEW i \in 1..Len(toDev')
                 PROVE  Fits(toDev'[i], issued', seq')
    BY DEF Numbered
  <2>3. CASE i = Len(toDev) + 1
    BY <1>2, <2>1, <2>3, AppendKeeps
  <2>4. CASE i # Len(toDev) + 1
    <3>1. i \in 1..Len(toDev) /\ toDev'[i] = toDev[i]
      BY <1>2, <2>4, AppendKeeps
    <3>. QED  BY <1>1, <3>1 DEF Numbered
  <2>. QED  BY <2>3, <2>4
<1>5. WantFits'
  BY <1>1 DEF WantFits, Inv, TypeOK
<1>. QED  BY <1>1, <1>3, <1>4, <1>5 DEF Inv, Correlated, Echoed

\* A write that is refused, or that nobody sees, still uses up a number.
LEMMA NoFramePreserves ==
    ASSUME Inv, MayIssue, seq' = next_seq, issued' = issued + 1,
           UNCHANGED <<toDev, notif, buf, up>>,
           \/ call' = call /\ want' = want /\ result'.status = "failed"
              /\ result' \in [status : {"failed"}, asked : Int, rsp : Nat]
           \/ call' \in {"idle", "request", "watch"} /\ want' = seq /\ result' = result,
           faults' \in Nat
    PROVE  Inv'
<1>1. /\ seq' \in 0..(SeqMod - 1) /\ issued' \in Nat /\ seq = Back(seq', 1)
      /\ Numbered(toDev, issued', seq')
      /\ Numbered(notif, issued', seq')
      /\ Numbered(buf, issued', seq')
  BY IssueAges
<1>2. TypeOK'
  BY <1>1 DEF Inv, TypeOK, MayIssue
<1>3. WantFits'
  BY <1>1 DEF WantFits, Waiting, MayIssue, Inv, TypeOK
<1>. QED  BY <1>1, <1>2, <1>3 DEF Inv, Correlated, Echoed

\* Taking the head of a queue leaves frames that fit.
LEMMA TailFits ==
    ASSUME NEW S, NEW q \in Seq(S), q # <<>>, NEW n, NEW s, Numbered(q, n, s)
    PROVE  /\ Numbered(Tail(q), n, s)
           /\ Fits(Head(q), n, s)
           /\ Echoed(q) => Echoed(Tail(q)) /\ Head(q).rsp = Head(q).req
<1>1. /\ Len(Tail(q)) = Len(q) - 1 /\ Len(q) \in Nat \ {0}
      /\ \A i \in 1..Len(Tail(q)) : Tail(q)[i] = q[i + 1]
      /\ Head(q) = q[1]
  BY TailKeeps
<1>2. \A i \in 1..Len(Tail(q)) : i + 1 \in 1..Len(q)
  BY <1>1
<1>3. 1 \in 1..Len(q)
  BY <1>1
<1>. QED  BY <1>1, <1>2, <1>3 DEF Numbered, Echoed

\* So does splitting one in two.
LEMMA SubSeqFits ==
    ASSUME NEW S, NEW q \in Seq(S), NEW a \in 1..(Len(q) + 1), NEW b \in 0..Len(q),
           a <= b + 1, NEW n, NEW s, Numbered(q, n, s)
    PROVE  /\ Numbered(SubSeq(q, a, b), n, s)
           /\ Echoed(q) => Echoed(SubSeq(q, a, b))
<1>1. /\ Len(SubSeq(q, a, b)) = b + 1 - a
      /\ \A i \in 1..Len(SubSeq(q, a, b)) : SubSeq(q, a, b)[i] = q[a + i - 1]
      /\ Len(q) \in Nat
  BY SubSeqKeeps, LenProperties
<1>2. \A i \in 1..Len(SubSeq(q, a, b)) : a + i - 1 \in 1..Len(q)
  BY <1>1
<1>. QED  BY <1>1, <1>2 DEF Numbered, Echoed

LEMMA PushPreserves ==
    ASSUME Inv, ReadStream
    PROVE  Inv'
<1>1. PICK k \in 1..Len(notif) : /\ buf' = SubSeq(notif, 1, k)
                                 /\ notif' = SubSeq(notif, k + 1, Len(notif))
  BY DEF ReadStream, Push
<1>2. notif \in Seq(Response) /\ Len(notif) \in Nat
  BY LenProperties DEF Inv, TypeOK
<1>3. buf' \in Seq(Response) /\ notif' \in Seq(Response)
  BY <1>1, <1>2, SubSeqKeeps
<1>4. TypeOK'
  BY <1>3 DEF Inv, TypeOK, ReadStream, Push, client
<1>5. Numbered(notif, issued, seq) /\ Echoed(notif)
  BY DEF Inv
<1>6. Numbered(buf', issued, seq) /\ Echoed(buf')
  BY <1>1, <1>2, <1>5, SubSeqFits
<1>7. Numbered(notif', issued, seq) /\ Echoed(notif')
  BY <1>1, <1>2, <1>5, SubSeqFits
<1>. QED
  BY <1>4, <1>6, <1>7
     DEF Inv, ReadStream, Push, client, WantFits, Waiting, Correlated

\* The three ways a call returns with a frame, and the stale one it skips.
LEMMA TakePreserves ==
    ASSUME Inv, SkipStale \/ TakeAnswer \/ TakeAny \/ FailOnBadFrame
    PROVE  Inv'
<1>. USE DEF SkipStale, TakeAnswer, TakeAny, FailOnBadFrame, TakeFrame, Return, client
<1>1. /\ buf # <<>> /\ buf \in Seq(Response)
      /\ buf' = Tail(buf) /\ UNCHANGED <<seq, toDev, notif, up, want, issued, faults>>
  BY DEF Inv, TypeOK, Stale, Matches, Undecodable
<1>2. buf' \in Seq(Response) /\ Head(buf) \in Response
  BY <1>1, TailKeeps
<1>3. TypeOK'
  <2>1. issued - 1 \in Int /\ Head(buf).rsp \in Nat
    BY <1>2 DEF Inv, TypeOK, Response
  <2>2. call' \in {"idle", "request", "watch"}
    BY DEF Inv, TypeOK, Waiting
  <2>3. result' \in [status : {"none", "ok", "frame", "failed", "timeout", "dropped"},
                     asked : Int, rsp : Nat]
    <3>1. CASE SkipStale
      BY <3>1 DEF Inv, TypeOK
    <3>2. CASE TakeAnswer
      BY <2>1, <3>2
    <3>3. CASE TakeAny
      BY <2>1, <3>3
    <3>4. CASE FailOnBadFrame
      BY <2>1, <3>4
    <3>. QED  BY <3>1, <3>2, <3>3, <3>4
  <2>. QED  BY <1>1, <1>2, <2>2, <2>3 DEF Inv, TypeOK
<1>4. /\ Numbered(buf', issued, seq) /\ Echoed(buf')
      /\ Fits(Head(buf), issued, seq) /\ Head(buf).rsp = Head(buf).req
  BY <1>1, TailFits DEF Inv
<1>5. WantFits'
  BY <1>1 DEF Inv, WantFits, Waiting
<1>6. Correlated'
  <2>1. CASE TakeAnswer
    <3>1. Head(buf).seq = want /\ want = Back(seq, 1)
      BY <2>1 DEF Matches, Inv, WantFits
    <3>2. Head(buf).req = issued - 1
      BY <1>2, <1>4, <3>1, OnlyYoungest DEF Inv, TypeOK, Response
    <3>. QED  BY <1>4, <2>1, <3>2 DEF Correlated
  <2>2. CASE ~TakeAnswer
    BY <2>2 DEF Correlated, Inv
  <2>. QED  BY <2>1, <2>2
<1>. QED  BY <1>1, <1>3, <1>4, <1>5, <1>6 DEF Inv

\* What the device and the radio do to the two queues.
LEMMA OtherEndPreserves ==
    ASSUME Inv, DeviceAnswers \/ LinkGoes \/ Fault
    PROVE  Inv'
<1>. USE DEF client
<1>1. /\ toDev \in Seq(Request) /\ notif \in Seq(Response)
      /\ Numbered(toDev, issued, seq) /\ Numbered(notif, issued, seq) /\ Echoed(notif)
  BY DEF Inv, TypeOK
<1>2. /\ UNCHANGED <<seq, buf, call, want, issued, result>>
      /\ faults' \in Nat /\ up' \in BOOLEAN
  <2>1. up \in BOOLEAN /\ faults \in Nat
    BY DEF Inv, TypeOK
  <2>2. CASE DeviceAnswers
    BY <2>1, <2>2 DEF DeviceAnswers, Answer
  <2>3. CASE LinkGoes
    BY <2>1, <2>3 DEF LinkGoes, DropLink
  <2>4. CASE Fault
    BY <2>1, <2>4 DEF Fault, LoseRequest, LoseResponse, GarbleResponse
  <2>. QED  BY <2>2, <2>3, <2>4
<1>3. SUFFICES /\ toDev' \in Seq(Request) /\ notif' \in Seq(Response)
               /\ Numbered(toDev', issued, seq)
               /\ Numbered(notif', issued, seq) /\ Echoed(notif')
  BY <1>2 DEF Inv, TypeOK, WantFits, Waiting, Correlated
<1>4. CASE DeviceAnswers
  <2>. DEFINE x == Head(toDev)
              rsp == [seq |-> x.seq, ok |-> TRUE, req |-> x.req, rsp |-> x.req]
  <2>1. toDev # <<>> /\ toDev' = Tail(toDev) /\ notif' = Append(notif, rsp)
    BY <1>4 DEF DeviceAnswers, Answer
  <2>2. toDev' \in Seq(Request) /\ x \in Request /\ Numbered(toDev', issued, seq)
        /\ Fits(x, issued, seq)
    BY <1>1, <2>1, TailKeeps, TailFits
  <2>3. rsp \in Response /\ Fits(rsp, issued, seq) /\ rsp.rsp = rsp.req
    BY <2>2 DEF Request, Response, Fits
  <2>. HIDE DEF rsp
  <2>4. /\ notif' \in Seq(Response)
        /\ \A i \in 1..Len(notif') : notif'[i] = IF i = Len(notif) + 1 THEN rsp ELSE notif[i]
        /\ Len(notif') = Len(notif) + 1 /\ Len(notif) \in Nat
    BY <1>1, <2>1, <2>3, AppendKeeps
  <2>5. SUFFICES ASSUME NEW i \in 1..Len(notif')
                 PROVE  Fits(notif'[i], issued, seq) /\ notif'[i].rsp = notif'[i].req
    BY <2>2, <2>4 DEF Numbered, Echoed
  <2>6. CASE i = Len(notif) + 1
    BY <2>3, <2>4, <2>6
  <2>7. CASE i # Len(notif) + 1
    <3>1. i \in 1..Len(notif) /\ notif'[i] = notif[i]
      BY <2>4, <2>7
    <3>. QED  BY <1>1, <3>1 DEF Numbered, Echoed
  <2>. QED  BY <2>6, <2>7
<1>5. CASE LinkGoes
  <2>1. toDev' = <<>> /\ notif' = notif
    BY <1>5 DEF LinkGoes, DropLink
  <2>2. toDev' \in Seq(Request) /\ Numbered(toDev', issued, seq)
    BY <2>1, EmptySeq DEF Numbered
  <2>. QED  BY <1>1, <2>1, <2>2
<1>6. CASE LoseRequest
  <2>1. toDev # <<>> /\ toDev' = Tail(toDev) /\ notif' = notif
    BY <1>6 DEF LoseRequest
  <2>. QED  BY <1>1, <2>1, TailKeeps, TailFits
<1>7. CASE LoseResponse
  <2>1. notif # <<>> /\ notif' = Tail(notif) /\ toDev' = toDev
    BY <1>7 DEF LoseResponse
  <2>. QED  BY <1>1, <2>1, TailKeeps, TailFits
<1>8. CASE GarbleResponse
  <2>1. notif # <<>> /\ notif' = [notif EXCEPT ![1].ok = FALSE] /\ toDev' = toDev
    BY <1>8 DEF GarbleResponse
  <2>2. Len(notif) \in Nat \ {0} /\ notif[1] \in Response
    BY <1>1, <2>1, TailKeeps
  <2>3. /\ notif' \in Seq(Response) /\ Len(notif') = Len(notif)
        /\ \A i \in 1..Len(notif') : /\ notif'[i].seq = notif[i].seq
                                     /\ notif'[i].req = notif[i].req
                                     /\ notif'[i].rsp = notif[i].rsp
    <3>. DEFINE e == [notif[1] EXCEPT !.ok = FALSE]
    <3>1. /\ e \in Response
          /\ e.seq = notif[1].seq /\ e.req = notif[1].req /\ e.rsp = notif[1].rsp
      BY <2>2 DEF Response
    <3>2. notif' = [notif EXCEPT ![1] = e]
      BY <2>1
    <3>. HIDE DEF e
    <3>3. /\ notif' \in Seq(Response) /\ Len(notif') = Len(notif)
          /\ \A i \in 1..Len(notif) : notif'[i] = IF i = 1 THEN e ELSE notif[i]
      BY <1>1, <2>2, <3>1, <3>2, ExceptSeq
    <3>. QED  BY <3>1, <3>3
  <2>. QED  BY <1>1, <2>1, <2>3 DEF Numbered, Echoed, Fits
<1>. QED  BY <1>4, <1>5, <1>6, <1>7, <1>8 DEF Fault

\* A call that gives up, one that starts to wait, and a buffer thrown away.
LEMMA WaitPreserves ==
    ASSUME Inv, recv_response \/ Timeout \/ LinkCheck \/ ResetBuffer
    PROVE  Inv'
<1>. USE DEF recv_response, Timeout, LinkCheck, ResetBuffer, reset_buffer, Return, client, link
<1>1. /\ UNCHANGED <<seq, toDev, notif, up, want, issued, faults>>
      /\ buf' = buf \/ buf' = <<>>
      /\ call' = "idle" \/ call' = "recv"
  BY DEF ResetBuffer
<1>2. buf' \in Seq(Response) /\ Numbered(buf', issued, seq) /\ Echoed(buf')
  <2>1. /\ <<>> \in Seq(Response) /\ Numbered(<<>>, issued, seq) /\ Echoed(<<>>)
    BY EmptySeq DEF Numbered, Echoed
  <2>. QED  BY <1>1, <2>1 DEF Inv, TypeOK
<1>3. result' \in [status : {"none", "ok", "frame", "failed", "timeout", "dropped"},
                   asked : Int, rsp : Nat]
      /\ Correlated'
  BY DEF Inv, TypeOK, Correlated
<1>. QED  BY <1>1, <1>2, <1>3 DEF Inv, TypeOK, WantFits, Waiting

LEMMA InitInv == Init => Inv
<1>1. <<>> \in Seq(Request) /\ <<>> \in Seq(Response) /\ Len(<<>>) = 0
  BY EmptySeq
<1>. QED
  BY <1>1, SeqModAssumption, BoundsAssumption
     DEF Init, LinkInit, Inv, TypeOK, Numbered, Echoed, WantFits, Waiting, Correlated

LEMMA StepInv == Inv /\ [Next]_vars => Inv'
<1>. SUFFICES ASSUME Inv, [Next]_vars PROVE Inv'
  OBVIOUS
<1>1. CASE send_request \/ request_with_timeout \/ request_watching_link
  BY <1>1, IssuePreserves DEF send_request, request_with_timeout, request_watching_link
<1>2. CASE RequestFails
  <2>1. result' \in [status : {"failed"}, asked : Int, rsp : Nat] /\ faults' \in Nat
    BY <1>2 DEF RequestFails, Inv, TypeOK
  <2>. QED  BY <1>2, <2>1, NoFramePreserves DEF RequestFails, WriteFails
<1>3. CASE \E kind \in {"idle", "request", "watch"} : RequestUnseen(kind)
  <2>1. faults' \in Nat
    BY <1>3 DEF RequestUnseen, Inv, TypeOK
  <2>. QED  BY <1>3, <2>1, NoFramePreserves DEF RequestUnseen, WriteUnseen
<1>4. CASE recv_response \/ Timeout \/ LinkCheck \/ ResetBuffer
  BY <1>4, WaitPreserves
<1>5. CASE ReadStream
  BY <1>5, PushPreserves
<1>6. CASE SkipStale \/ TakeAnswer \/ TakeAny \/ FailOnBadFrame
  BY <1>6, TakePreserves
<1>7. CASE DeviceAnswers \/ LinkGoes \/ Fault
  BY <1>7, OtherEndPreserves
<1>8. CASE UNCHANGED vars
  BY <1>8 DEF vars, link, Inv, TypeOK, Numbered, Echoed, Fits, WantFits, Waiting, Correlated
<1>. QED
  BY <1>1, <1>2, <1>3, <1>4, <1>5, <1>6, <1>7, <1>8 DEF Next, Calls, Reads

\* Every state of the session satisfies the invariant.
THEOREM SessionInvariant == Spec => []Inv
BY InitInv, StepInv, PTL DEF Spec

\* The fields of SmpSession and the frames in flight keep their types, and
\* seq never leaves the range of its u8, for any SeqMod.
THEOREM SessionTypeOK == Spec => []TypeOK
<1>1. Inv => TypeOK
  BY DEF Inv
<1>. QED  BY <1>1, SessionInvariant, PTL

\* A request that succeeds returns the answer to itself and to no other
\* request (read_response skipping the frames with another number), as long
\* as no frame outlives SeqMod requests.
THEOREM SessionCorrelated == Spec => []Correlated
<1>1. Inv => Correlated
  BY DEF Inv
<1>. QED  BY <1>1, SessionInvariant, PTL

=============================================================================
