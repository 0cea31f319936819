---------------------------- MODULE ImageCommands ----------------------------
(***************************************************************************)
(* The commands that read and change what a device will run: list, test,   *)
(* confirm and erase (src/src/commands/image.rs), echo and reset           *)
(* (src/src/commands/os.rs), one invocation after the other, each from     *)
(* open_session to its outcome.  Between and during them devices reboot,   *)
(* links drop and answers are lost.                                        *)
(***************************************************************************)
EXTENDS RobustErase

CONSTANTS
    Default,        \* no hash was given
    BadHash,        \* the hash given is not hexadecimal
    Commands,       \* invocations the user may make
    MaxCommands     \* bound: how many

Names == {"list", "echo", "reset", "test", "confirm", "erase"}

Command == [name : Names, hash : Image \cup {Default, BadHash}, slot : {0, 1}]

ASSUME CommandsAssumption ==
    /\ Default \notin Image /\ BadHash \notin Image \cup {Default}
    /\ Commands \subseteq Command /\ Commands # {}
    /\ MaxCommands \in Nat

VARIABLES
    cmd,        \* the invocation that runs
    target,     \* the hash to test or confirm; NoImage while unknown
    left,       \* invocations left
    opened,     \* history: the device the command opened its session to
    marked,     \* history: the device accepted the command's state write
    kept        \* history: the running image a command confirmed, per device,
                \* until the user asks for another one

command == <<cmd, target, left, opened>>
history == <<marked, kept>>
host    == <<phase, want, slot, clock, command>>
vars    == <<link, slots, peer, host, history, faults>>

Init ==
    /\ seq = 0 /\ toDev = <<>> /\ notif = <<>> /\ buf = <<>> /\ up = FALSE
    /\ SlotsInit
    /\ peer \in Candidates
    /\ opened = peer
    /\ phase = "done" /\ want = 0 /\ slot = 0 /\ clock = 0
    /\ cmd = (CHOOSE c \in Commands : TRUE) /\ target = NoImage
    /\ left = MaxCommands
    /\ marked = FALSE
    /\ kept = [d \in Device |-> NoImage]
    /\ faults = MaxFaults

Ended   == phase \in {"done", "failed"}
Marking == cmd.name \in {"test", "confirm"}

-----------------------------------------------------------------------------
(* open_session, and what each command does first.                         *)

Begin(c) ==
    /\ Ended
    /\ left > 0 /\ left' = left - 1
    /\ cmd' = c /\ slot' = c.slot /\ target' = NoImage
    /\ drop_session
    /\ phase' = "open"
    /\ clock' = 0
    /\ marked' = FALSE
    /\ UNCHANGED <<slots, peer, want, opened, kept, faults>>

Simple == cmd.name \in {"echo", "reset", "erase"}

\* Mutant of FirstPhase: a hash that does not parse is an empty one.
WritesAnyHash ==
    \/ Simple /\ phase' = cmd.name
    \/ (cmd.name = "list" \/ (Marking /\ cmd.hash = Default)) /\ phase' = "read"
    \/ Marking /\ cmd.hash # Default /\ phase' = "write"

\* The hash is parsed when the session is open.
FirstPhase ==
    \/ Simple /\ phase' = cmd.name
    \/ (cmd.name = "list" \/ (Marking /\ cmd.hash = Default)) /\ phase' = "read"
    \/ Marking /\ cmd.hash = BadHash /\ phase' = "failed"
    \/ Marking /\ cmd.hash \in Image /\ phase' = "write"

OpenSession ==
    /\ phase = "open"
    /\ \E d \in Candidates : NewSession(d) /\ opened' = d
    /\ FirstPhase
    /\ target' = IF Marking /\ cmd.hash \in Image THEN cmd.hash ELSE NoImage
    /\ UNCHANGED <<slots, want, slot, clock, cmd, left, faults>>

OpenFails ==
    /\ phase = "open"
    /\ CannotOpen
    /\ phase' = "failed"
    /\ UNCHANGED <<link, slots, peer, want, slot, clock, command>>

-----------------------------------------------------------------------------
(* Requests.                                                               *)

Query ==
    [cmd     |-> IF phase = "read" THEN "state" ELSE phase,
     hash    |-> IF phase = "write" THEN target ELSE NoImage,
     confirm |-> phase = "write" /\ cmd.name = "confirm",
     slot    |-> 0]

NextPhase ==
    [read |-> "read_wait", echo |-> "echo_wait", write |-> "write_wait",
     reset |-> "closing"]

\* reset does not wait for an answer.
SendRequest ==
    /\ phase \in DOMAIN NextPhase
    /\ Ask(Query)
    /\ phase' = NextPhase[phase]
    /\ UNCHANGED <<slots, peer, slot, clock, command, faults>>

SendFails ==
    /\ phase \in DOMAIN NextPhase \cup {"recheck"}
    /\ WriteFails
    /\ phase' = "failed"
    /\ UNCHANGED <<slots, peer, want, slot, clock, command, faults>>

WaitFails ==
    /\ phase \in {"read_wait", "echo_wait", "write_wait", "recheck_wait"}
    /\ ReadFails
    /\ phase' = "failed"
    /\ buf' = IF buf = <<>> THEN <<>> ELSE Tail(buf)
    /\ UNCHANGED <<seq, toDev, notif, up, slots, peer, want, slot, clock, command>>

-----------------------------------------------------------------------------
(* Answers.                                                                *)

\* Mutant of Fits: confirm and test pick by the same flag.
FitsNonActive(s) == ~s.active

\* What select_default_target looks for.
Fits(s) == IF cmd.name = "confirm" THEN ~s.confirmed ELSE ~s.active

\* The first image listed that fits.
select_default_target(images) ==
    LET hits == {i \in DOMAIN images : Fits(images[i])}
    IN  IF hits = {} THEN NoImage
        ELSE images[CHOOSE i \in hits : \A j \in hits : i <= j].hash

ReadAnswered ==
    /\ phase = "read_wait"
    /\ Matches(want)
    /\ TakeFrame
    /\ LET rsp == Head(buf).rsp IN
          \/ ~check_rc(rsp) /\ phase' = "failed" /\ UNCHANGED target
          \/ check_rc(rsp) /\ ~Marking /\ phase' = "closing" /\ UNCHANGED target
          \/ /\ check_rc(rsp) /\ Marking
             /\ target' = select_default_target(rsp.images)
             /\ phase' = IF target' = NoImage THEN "failed" ELSE "write"
    /\ UNCHANGED <<slots, peer, want, slot, clock, cmd, left, opened, faults>>

\* The answer to an echo or a state write ends the command.
Answered ==
    /\ phase \in {"echo_wait", "write_wait"}
    /\ Matches(want)
    /\ TakeFrame
    /\ phase' = IF check_rc(Head(buf).rsp) THEN "closing" ELSE "failed"
    /\ UNCHANGED <<slots, peer, want, slot, clock, command, faults>>

Waiting == phase \in {"read_wait", "echo_wait", "write_wait", "erase_wait", "recheck_wait"}

\* No frame here is stale: a command that gives up on an answer ends, or goes
\* on with another session.
ReadStream ==
    /\ Waiting
    /\ Push
    /\ UNCHANGED <<slots, peer, host, faults>>

\* disconnect ignores errors.
Disconnect ==
    /\ phase = "closing"
    /\ phase' = "done"
    /\ IF up THEN DropLink ELSE UNCHANGED link
    /\ UNCHANGED <<slots, peer, want, slot, clock, command, faults>>

-----------------------------------------------------------------------------
HostStep ==
    /\ \/ OpenSession \/ OpenFails
       \/ SendRequest \/ SendFails \/ WaitFails
       \/ ReadAnswered \/ Answered \/ ReadStream \/ Disconnect
       \/ RobustEraseStep /\ UNCHANGED command
    /\ UNCHANGED history

\* What a state write the device accepts means for the history.
RecordMark ==
    /\ marked' = TRUE
    /\ kept' = [kept EXCEPT ![peer] =
                   IF Served.hash = image[peer][0] THEN Served.hash
                   ELSE IF cmd.name = "test" \/ cmd.hash # Default THEN NoImage
                   ELSE @]

DeviceAnswers ==
    /\ \/ MarkSlot /\ RecordMark
       \/ DeviceStep /\ UNCHANGED history
    /\ UNCHANGED <<host, faults>>

DeviceReturns == \E d \in Device : ComesBack(d) /\ UNCHANGED <<host, history, faults>>

Fault ==
    /\ \/ MayFault("request")  /\ LoseRequest    /\ UNCHANGED <<slots, peer>>
       \/ MayFault("response") /\ LoseResponse   /\ UNCHANGED <<slots, peer>>
       \/ MayFault("garble")   /\ GarbleResponse /\ UNCHANGED <<slots, peer>>
       \/ MayFault("drop")     /\ Disconnected
       \/ MayFault("refuse")   /\ RefuseAny
       \/ MayFault("erase")    /\ EraseDropsLink
       \/ MayFault("reboot")   /\ \E d \in Device : Reboot(d)
    /\ UNCHANGED <<host, history>>

UserBegins == \E c \in Commands : Begin(c)

Next == UserBegins \/ HostStep \/ DeviceAnswers \/ DeviceReturns \/ Fault

Spec == Init /\ [][Next]_vars

\* The executor polls the one task there is and its timers fire, a device
\* that hears a request answers it, and one that is away comes back.  Nothing
\* is assumed of the user and of the faults.
FairSpec ==
    Spec /\ WF_vars(HostStep) /\ WF_vars(DeviceAnswers) /\ WF_vars(DeviceReturns)

-----------------------------------------------------------------------------
Phases == {"open", "read", "echo", "reset", "write", "erase", "read_wait", "echo_wait",
           "write_wait", "erase_wait", "attempt", "sleeping", "recheck", "recheck_wait",
           "closing", "done", "failed"}

Request  == [seq : 0..(SeqMod - 1), req : RequestBody]
Response == [seq : 0..(SeqMod - 1), ok : BOOLEAN, req : RequestBody, rsp : ReplyBody]

LinkTypeOK ==
    /\ seq \in 0..(SeqMod - 1)
    /\ toDev \in Seq(Request) /\ notif \in Seq(Response) /\ buf \in Seq(Response)
    /\ up \in BOOLEAN

SlotsTypeOK ==
    /\ image \in [Device -> [{0, 1} -> Image \cup {NoImage}]]
    /\ swap \in [Device -> Swaps]
    /\ away \subseteq Device
    /\ peer \in Device

\* Every state write names an image, whether the user gave a hash, a bad one
\* or none, and the boot loader is never asked to run an empty slot.
TypeOK ==
    /\ LinkTypeOK /\ SlotsTypeOK
    /\ phase \in Phases /\ want \in 0..(SeqMod - 1) /\ slot \in {0, 1} /\ clock \in Nat
    /\ faults \in Nat /\ left \in Nat
    /\ cmd \in Commands /\ target \in Image \cup {NoImage} /\ opened \in Device
    /\ marked \in BOOLEAN /\ kept \in [Device -> Image \cup {NoImage}]
    /\ \A d \in Device :
          image[d][0] # NoImage /\ (swap[d] # "none" => image[d][1] # NoImage)

-----------------------------------------------------------------------------
Reported(name) == phase \in {"closing", "done"} /\ cmd.name = name /\ left < MaxCommands

\* An erase that reports success leaves the slot of the device it ended with
\* empty, whether the answer came, was lost, or the link dropped under it
\* (robust_erase).
EraseIsDone == Reported("erase") => image[peer][slot] = NoImage

\* The same of the device the command began with: "the device re-advertises
\* once done", and the slot that is looked at is the one that was erased.
ErasedTheDevice == Reported("erase") => image[opened][slot] = NoImage

\* A test or confirm that reports success was accepted by the device: neither
\* a refusal nor the answer to the read before it passes for its answer
\* (set_state, check_rc).
OkMeansMarked == Reported("test") \/ Reported("confirm") => marked

\* What test and confirm without a hash mean on this device: confirm the image
\* on trial, or else mark the one in slot 1.
Fitting ==
    IF cmd.name = "confirm" /\ swap[peer] = "trial" THEN image[peer][0] ELSE image[peer][1]

\* Without a hash, the image that a test or confirm names is the one that is
\* meant at the moment the device reads the request, not only when it was
\* listed: no boot, erase or other device comes between the two
\* (select_default_target, set_state).
WritesWhatFits ==
    (phase = "write_wait" /\ cmd.hash = Default /\ toDev # <<>>)
        => Head(toDev).req.hash = Fitting

\* However the attempts and pauses fall, reconnect_fresh is over one attempt
\* and one pause after its budget at the latest.
WithinBudget == clock < Budget + SleepTime + AttemptTime

\* An image that was confirmed while it ran stays the running one until the
\* user marks another: confirming is for good, and doing it again, after an
\* answer that was lost, say, changes nothing.
ConfirmedStays == \A d \in Device : kept[d] # NoImage => image[d][0] = kept[d]

\* Every command ends: no answer, reboot or lost link keeps it waiting, and
\* the attempts to reconnect run out.
CommandsEnd == ~Ended ~> Ended

\* After an erase that cost the link, with every device back and nothing else
\* going wrong, the command fails only if the slot is not clear: the drop is
\* tolerated (robust_erase, reconnect_fresh).
RecoversWhenBack ==
    (phase = "attempt" /\ faults = 0 /\ Present = Candidates)
        ~> (phase = "done" \/ (phase = "failed" /\ image[peer][slot] # NoImage))
=============================================================================
