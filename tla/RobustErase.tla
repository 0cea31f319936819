----------------------------- MODULE RobustErase -----------------------------
(***************************************************************************)
(* robust_erase and reconnect_fresh (src/src/commands/image.rs): erase a   *)
(* slot; if the request fails for any reason but a return code, drop the   *)
(* session, open another one within a budget of time, and look whether the *)
(* slot is clear.  open_session is one step that finds a device or fails;  *)
(* what it does with the cache and the scan is in CacheFile and            *)
(* DeviceResolve.                                                          *)
(***************************************************************************)
EXTENDS SlotDevice

CONSTANTS
    Candidates,     \* devices open_session may choose, given the options
    AttemptTime,    \* what one attempt to reconnect may take; the code's 45 s
    Budget,         \* when no further attempt is made; the code's 90 s
    SleepTime,      \* the pause between attempts; the code's 2 s
    FaultKinds,     \* what may go wrong in this instance
    MaxFaults       \* bound: how often

ASSUME CandidatesAssumption == Candidates \subseteq Device /\ Candidates # {}
ASSUME TimesAssumption ==
    AttemptTime \in Nat /\ Budget \in Nat /\ SleepTime \in Nat \ {0}
ASSUME FaultAssumption ==
    /\ FaultKinds \subseteq {"request", "response", "garble", "late", "drop",
                             "refuse", "erase", "connect", "reboot"}
    /\ MaxFaults \in Nat

VARIABLES
    phase,      \* where the command is; a phase "x_wait" awaits an answer
    want,       \* the sequence number it awaits
    slot,       \* the slot to erase
    clock,      \* time since reconnect_fresh began
    faults      \* faults left

Present == Candidates \ away

MayFault(kind) ==
    /\ kind \in FaultKinds
    /\ faults > 0
    /\ faults' = faults - 1

\* The session is dropped, and the link with it.
drop_session ==
    /\ toDev' = <<>> /\ notif' = <<>> /\ buf' = <<>> /\ up' = FALSE
    /\ UNCHANGED seq

\* open_session succeeds with a session to d that has number 0 to give.
NewSession(d) ==
    /\ d \in Present
    /\ seq' = 0 /\ toDev' = <<>> /\ notif' = <<>> /\ buf' = <<>> /\ up' = TRUE
    /\ peer' = d

\* open_session fails: there is nobody to find, or the connection does not
\* come about.
CannotOpen ==
    \/ Present = {} /\ UNCHANGED faults
    \/ MayFault("connect")

Ask(req) ==
    /\ WriteRequest(req)
    /\ want' = seq

Bare(cmd) == [cmd |-> cmd, hash |-> NoImage, confirm |-> FALSE, slot |-> 0]

\* Mutant of check_rc: the return code is not looked at.
IgnoresCodes(rsp) == TRUE

\* A return code that is missing or zero.
check_rc(rsp) == rsp.rc # "other"

-----------------------------------------------------------------------------
(* How a wait ends without an answer.                                      *)

Quiet == toDev = <<>> /\ notif = <<>>

\* The timer can only fire while the read awaits the stream.  Firing while
\* an answer is on its way is a fault.
TimerFires ==
    /\ buf = <<>>
    /\ \/ Quiet /\ UNCHANGED faults
       \/ ~Quiet /\ MayFault("late")

ReadFails == TimerFires \/ (Undecodable /\ UNCHANGED faults)

\* Mutant of WatchFails: the link is not watched and no timer set.
WaitsForTheStream == Undecodable /\ UNCHANGED faults

\* request_watching_link also fails when is_connected does not answer TRUE
\* in time: the link is down, or the answer is late.
WatchFails ==
    \/ ReadFails
    \/ buf = <<>> /\ ~up /\ UNCHANGED faults

-----------------------------------------------------------------------------
(* robust_erase                                                            *)

EraseSend ==
    /\ phase = "erase"
    /\ Ask([Bare("erase") EXCEPT !.slot = slot])
    /\ phase' = "erase_wait"
    /\ UNCHANGED <<slots, peer, slot, clock, faults>>

EraseAnswered ==
    /\ phase = "erase_wait"
    /\ Matches(want)
    /\ TakeFrame
    /\ phase' = IF check_rc(Head(buf).rsp) THEN "closing" ELSE "failed"
    /\ UNCHANGED <<slots, peer, want, slot, clock, faults>>

\* Any error of the request, the write included.
EraseFails ==
    /\ \/ phase = "erase" /\ ~up /\ UNCHANGED faults
       \/ phase = "erase_wait" /\ WatchFails
    /\ drop_session
    /\ phase' = "attempt"
    /\ clock' = 0
    /\ UNCHANGED <<slots, peer, want, slot>>

-----------------------------------------------------------------------------
(* reconnect_fresh                                                         *)

AttemptConnects ==
    /\ phase = "attempt"
    /\ \E d \in Candidates : NewSession(d)
    /\ \E t \in 0..AttemptTime : clock' = clock + t
    /\ phase' = "recheck"
    /\ UNCHANGED <<slots, want, slot, faults>>

\* Mutant of OutOfTime: each attempt has the budget for itself.
OutOfTimeAlone(t) == t - clock >= Budget

OutOfTime(t) == t >= Budget

\* An error of open_session, or the timeout at AttemptTime.
AttemptFails ==
    /\ phase = "attempt"
    /\ CannotOpen
    /\ \E t \in 0..AttemptTime :
          /\ clock' = clock + t
          /\ phase' = IF OutOfTime(clock + t) THEN "failed" ELSE "sleeping"
    /\ UNCHANGED <<link, slots, peer, want, slot>>

Sleep ==
    /\ phase = "sleeping"
    /\ clock' = clock + SleepTime
    /\ phase' = "attempt"
    /\ UNCHANGED <<link, slots, peer, want, slot, faults>>

-----------------------------------------------------------------------------
(* Back in robust_erase: read the state on the new session.                *)

Recheck ==
    /\ phase = "recheck"
    /\ Ask(Bare("state"))
    /\ phase' = "recheck_wait"
    /\ UNCHANGED <<slots, peer, slot, clock, faults>>

\* Mutants of StillHolds: any image will do; slots are counted from one.
HoldsAnything(images) == images # <<>>
HoldsInNextSlot(images) == \E i \in DOMAIN images : images[i].slot = slot + 1

StillHolds(images) == \E i \in DOMAIN images : images[i].slot = slot

Rechecked ==
    /\ phase = "recheck_wait"
    /\ Matches(want)
    /\ TakeFrame
    /\ phase' = IF check_rc(Head(buf).rsp) /\ ~StillHolds(Head(buf).rsp.images)
                THEN "closing" ELSE "failed"
    /\ UNCHANGED <<slots, peer, want, slot, clock, faults>>

RobustEraseStep ==
    \/ EraseSend \/ EraseAnswered \/ EraseFails
    \/ AttemptConnects \/ AttemptFails \/ Sleep \/ Recheck \/ Rechecked
=============================================================================
