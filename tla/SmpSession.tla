----------------------------- MODULE SmpSession -----------------------------
(***************************************************************************)
(* SmpSession (src/src/transport.rs) under a client that calls its methods *)
(* in any order: write only, write and wait for the matching answer, the   *)
(* same while watching the link, wait for any frame, drop the buffered     *)
(* bytes, disconnect.  Every method takes &mut self, so calls never        *)
(* overlap; what overlaps is everything a call left behind when it gave up *)
(* (an answer that is still on its way, or already in the assembler) with  *)
(* the calls that come after it.                                           *)
(*                                                                         *)
(* Requests are numbered 0, 1, 2, ... by the history variable issued, and  *)
(* the device answers request r with the payload r.  The question is       *)
(* whether the u8 sequence number, which wraps, is enough to give each     *)
(* call the answer to its own request.                                     *)
(***************************************************************************)
EXTENDS SmpLink, Integers

CONSTANTS
    MaxOutstanding, \* a client leaves no frame in flight for this many requests
    MaxRequests,    \* bound: requests issued in a behaviour
    MaxFaults       \* bound: frames lost or garbled, requests nobody sees

ASSUME MaxOutstandingAssumption == MaxOutstanding \in 1..SeqMod
ASSUME BoundsAssumption         == MaxRequests \in Nat /\ MaxFaults \in Nat

VARIABLES
    call,       \* the method that is waiting, or "idle"
    want,       \* the sequence number it waits for
    issued,     \* history: requests issued so far
    result,     \* what the last call to return returned
    faults      \* faults left

vars == <<link, call, want, issued, result, faults>>
client == <<call, want, issued, result, faults>>

Init ==
    /\ LinkInit
    /\ call = "idle"
    /\ want = 0
    /\ issued = 0
    /\ result = [status |-> "none", asked |-> 0, rsp |-> 0]
    /\ faults = MaxFaults

\* The call returns: status, the request it made last and the payload.
Return(status, rsp) ==
    /\ call' = "idle"
    /\ result' = [status |-> status, asked |-> issued - 1, rsp |-> rsp]

-----------------------------------------------------------------------------
(* Requests.                                                               *)

Young(q) == \A i \in 1..Len(q) : issued - q[i].req < MaxOutstanding

\* The discipline under which a wrapping number identifies a request.  The
\* callers keep it by waiting for an answer, or a timeout, per request.
MayIssue ==
    /\ call = "idle"
    /\ issued < MaxRequests
    /\ Young(toDev) /\ Young(notif) /\ Young(buf)

Issue(kind) ==
    /\ MayIssue
    /\ WriteRequest(issued)
    /\ call' = kind
    /\ want' = seq
    /\ issued' = issued + 1
    /\ UNCHANGED <<result, faults>>

\* send and send_request return as soon as the frame is written.
send_request          == Issue("idle")
request_with_timeout  == Issue("request")
request_watching_link == Issue("watch")

\* The same calls when the write is refused.
RequestFails ==
    /\ MayIssue
    /\ WriteFails
    /\ issued' = issued + 1
    /\ result' = [status |-> "failed", asked |-> issued, rsp |-> 0]
    /\ UNCHANGED <<call, want, faults>>

\* The write succeeds and the frame gets nowhere.
RequestUnseen(kind) ==
    /\ faults > 0
    /\ MayIssue
    /\ WriteUnseen
    /\ call' = kind
    /\ want' = seq
    /\ issued' = issued + 1
    /\ faults' = faults - 1
    /\ UNCHANGED result

recv_response ==
    /\ call = "idle"
    /\ call' = "recv"
    /\ UNCHANGED <<link, want, issued, result, faults>>

-----------------------------------------------------------------------------
(* Waiting: read_response for a numbered answer, read_any_frame for any.   *)

Waiting == call \in {"request", "watch"}

ReadStream ==
    /\ call # "idle"
    /\ Push
    /\ UNCHANGED client

SkipStale ==
    /\ Waiting
    /\ Stale(want)
    /\ TakeFrame
    /\ UNCHANGED client

TakeAnswer ==
    /\ Waiting
    /\ Matches(want)
    /\ TakeFrame
    /\ Return("ok", Head(buf).rsp)
    /\ UNCHANGED <<want, issued, faults>>

TakeAny ==
    /\ call = "recv"
    /\ buf # <<>> /\ Head(buf).ok
    /\ TakeFrame
    /\ Return("frame", Head(buf).rsp)
    /\ UNCHANGED <<want, issued, faults>>

FailOnBadFrame ==
    /\ call # "idle"
    /\ Undecodable
    /\ TakeFrame
    /\ Return("failed", 0)
    /\ UNCHANGED <<want, issued, faults>>

\* A timer can only fire while the read awaits the stream.
Timeout ==
    /\ call # "idle"
    /\ buf = <<>>
    /\ Return("timeout", 0)
    /\ UNCHANGED <<link, want, issued, faults>>

\* Mutant of LinkCheck: an is_connected that never answers and has no timeout
\* of its own.
LinkCheckHangs ==
    /\ call = "watch"
    /\ buf = <<>>
    /\ ~up
    /\ UNCHANGED vars

\* A one-second slice of request_watching_link ends and the link is down:
\* is_connected answers false, fails or hangs, and the call gives up.  While
\* the link is up the call goes on with the next slice.
LinkCheck ==
    /\ call = "watch"
    /\ buf = <<>>
    /\ ~up
    /\ Return("dropped", 0)
    /\ UNCHANGED <<link, want, issued, faults>>

-----------------------------------------------------------------------------
ResetBuffer ==
    /\ call = "idle"
    /\ buf # <<>>
    /\ reset_buffer
    /\ UNCHANGED client

\* disconnect, or the link drops by itself at any time.
LinkGoes == DropLink /\ UNCHANGED client

DeviceAnswers == toDev # <<>> /\ Answer(Head(toDev).req) /\ UNCHANGED client

Fault ==
    /\ faults > 0
    /\ faults' = faults - 1
    /\ LoseRequest \/ LoseResponse \/ GarbleResponse
    /\ UNCHANGED <<call, want, issued, result>>

Calls ==
    \/ send_request \/ request_with_timeout \/ request_watching_link
    \/ RequestFails \/ recv_response \/ ResetBuffer
    \/ \E kind \in {"idle", "request", "watch"} : RequestUnseen(kind)

Reads == ReadStream \/ SkipStale \/ TakeAnswer \/ TakeAny \/ FailOnBadFrame

Next == Calls \/ Reads \/ Timeout \/ LinkCheck \/ LinkGoes \/ DeviceAnswers \/ Fault

Spec == Init /\ [][Next]_vars

\* The executor polls a read whose stream has something, and the slice timer
\* of request_watching_link fires.  Nothing is assumed of the long timeouts,
\* of the device or of the client.
FairSpec == Spec /\ WF_vars(Reads) /\ WF_vars(LinkCheck)

-----------------------------------------------------------------------------
Request  == [seq : 0..(SeqMod - 1), req : Nat]
Response == [seq : 0..(SeqMod - 1), ok : BOOLEAN, req : Nat, rsp : Nat]

\* The variables hold what the code's types allow; seq is a u8 that wraps.
TypeOK ==
    /\ seq \in 0..(SeqMod - 1)
    /\ toDev \in Seq(Request)
    /\ notif \in Seq(Response)
    /\ buf \in Seq(Response)
    /\ up \in BOOLEAN
    /\ call \in {"idle", "request", "watch", "recv"}
    /\ want \in 0..(SeqMod - 1)
    /\ issued \in Nat
    /\ result \in [status : {"none", "ok", "frame", "failed", "timeout", "dropped"},
                   asked : Int, rsp : Nat]
    /\ faults \in Nat

\* A call that succeeds returns the answer to the request it made, whatever
\* answers to earlier requests were late, lost, garbled or left in the
\* assembler (read_response skips frames with another sequence number).
Correlated == result.status = "ok" => result.rsp = result.asked

\* A request that watches the link returns after the link drops even if its
\* own timeout never fires: the stream does not end on a disconnect, and the
\* slices of request_watching_link are what notices.
WatchReturnsOnDrop == (call = "watch" /\ ~up) ~> (call = "idle")
=============================================================================
