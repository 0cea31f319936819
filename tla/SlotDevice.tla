------------------------------ MODULE SlotDevice ------------------------------
(***************************************************************************)
(* Devices with two image slots: the MCUmgr image and OS groups and the    *)
(* MCUboot boot loader as the commands of src/src/commands/image.rs and    *)
(* src/src/commands/os.rs use them, through the requests and answers of    *)
(* src/src/smp/messages.rs.  They are no part of the repository.           *)
(*                                                                         *)
(* Slot 0 holds the running image.  swap is what the boot loader will do   *)
(* at the next boot: nothing, "test" (run slot 1 once, on trial), "perm"   *)
(* (run slot 1 for good) or "trial" (an image on trial runs, and is        *)
(* swapped back unless it is confirmed).                                   *)
(***************************************************************************)
EXTENDS SmpLink

CONSTANTS
    Device,     \* devices nearby
    Image,      \* image hashes
    Installed,  \* images that may run at the start
    NoImage     \* an empty slot

ASSUME SlotDeviceAssumption ==
    Device # {} /\ NoImage \notin Image /\ Installed \subseteq Image

VARIABLES
    image,      \* image[d][s]: the image in slot s of device d
    swap,       \* swap[d]: what the boot loader of d will do
    away,       \* devices that do not advertise: booting, erasing, out of range
    peer        \* the device at the other end of the session

slots == <<image, swap, away>>

Swaps == {"none", "test", "perm", "trial"}

\* A state write carries a hash.
RequestBody ==
    {r \in [cmd : {"echo", "reset", "state", "write", "erase"},
            hash : Image \cup {NoImage}, confirm : BOOLEAN, slot : {0, 1}] :
        r.cmd = "write" => r.hash \in Image}

\* ImageSlot; pending, permanent and the version are only printed.
ImageSlot ==
    [slot : {0, 1}, hash : Image, active : BOOLEAN, confirmed : BOOLEAN]

\* A device of two slots lists two images at most.
ReplyBody ==
    [rc : {"ok", "other"}, images : {list \in Seq(ImageSlot) : Len(list) <= 2}]

SlotsInit ==
    /\ image \in [Device -> [{0, 1} -> Image \cup {NoImage}]]
    /\ swap \in [Device -> Swaps]
    /\ \A d \in Device :
          /\ image[d][0] \in Installed
          /\ image[d][1] # image[d][0]
          /\ swap[d] # "none" => image[d][1] # NoImage
    /\ away = {}

-----------------------------------------------------------------------------
(* Answers.                                                                *)

Serving(cmd) == toDev # <<>> /\ Head(toDev).req.cmd = cmd
Served == Head(toDev).req

Report(s) ==
    [slot |-> s, hash |-> image[peer][s], active |-> s = 0,
     confirmed |-> IF s = 0 THEN swap[peer] # "trial" ELSE swap[peer] = "trial"]

Listing ==
    IF image[peer][1] = NoImage THEN <<Report(0)>> ELSE <<Report(0), Report(1)>>

\* An answer with a return code alone decodes as one that lists nothing: the
\* fields of ImageStateResponse default.
Code(rc) == Answer([rc |-> rc, images |-> <<>>])

AnswerEcho ==
    /\ Serving("echo")
    /\ Code("ok")
    /\ UNCHANGED <<slots, peer>>

ReportState ==
    /\ Serving("state")
    /\ Answer([rc |-> "ok", images |-> Listing])
    /\ UNCHANGED <<slots, peer>>

\* The running image can be confirmed unless another is about to replace it;
\* slot 1 can be marked unless it holds the image to swap back to.
Accepts(s, confirm) ==
    IF s = 0 THEN confirm /\ swap[peer] \in {"none", "trial"}
    ELSE swap[peer] \in {"none", "test"} \/ (confirm /\ swap[peer] = "perm")

Acceptable(s) == image[peer][s] = Served.hash /\ Accepts(s, Served.confirm)

MarkSlot ==
    /\ Serving("write")
    /\ \E s \in {0, 1} :
          /\ Acceptable(s)
          /\ swap' = [swap EXCEPT ![peer] =
                         IF s = 0 THEN "none"
                         ELSE IF Served.confirm THEN "perm" ELSE "test"]
    /\ Answer([rc |-> "ok", images |-> Listing])
    /\ UNCHANGED <<image, away, peer>>

RefuseMark ==
    /\ Serving("write")
    /\ \A s \in {0, 1} : ~Acceptable(s)
    /\ Code("other")
    /\ UNCHANGED <<slots, peer>>

\* Only a slot the boot loader has no use for is erased.
Erasable == Served.slot = 1 /\ swap[peer] = "none"

EraseSlot == image' = [image EXCEPT ![peer][1] = NoImage]

Erased ==
    /\ Serving("erase") /\ Erasable
    /\ EraseSlot
    /\ Code("ok")
    /\ UNCHANGED <<swap, away, peer>>

RefuseErase ==
    /\ Serving("erase") /\ ~Erasable
    /\ Code("other")
    /\ UNCHANGED <<slots, peer>>

\* The boot loader swaps, or not, and the device is gone for a while.
Boot(d) ==
    /\ image' = [image EXCEPT ![d] =
                    IF swap[d] = "none" THEN @ ELSE [s \in {0, 1} |-> @[1 - s]]]
    /\ swap' = [swap EXCEPT ![d] = IF @ = "test" THEN "trial" ELSE "none"]
    /\ away' = away \cup {d}

Reset ==
    /\ Serving("reset")
    /\ Boot(peer)
    /\ DropLink
    /\ UNCHANGED peer

\* Every answer but MarkSlot.
DeviceStep ==
    AnswerEcho \/ ReportState \/ RefuseMark \/ Erased \/ RefuseErase \/ Reset

ComesBack(d) ==
    /\ d \in away
    /\ away' = away \ {d}
    /\ UNCHANGED <<link, image, swap, peer>>

-----------------------------------------------------------------------------
(* What goes wrong.                                                        *)

RefuseAny ==
    /\ toDev # <<>>
    /\ Code("other")
    /\ UNCHANGED <<slots, peer>>

\* The link drops; the device advertises again at once or after a while.
Disconnected ==
    /\ DropLink
    /\ away' \in {away, away \cup {peer}}
    /\ UNCHANGED <<image, swap, peer>>

\* The erase keeps the radio busy past the supervision timeout: it
\* completes, and the link is gone.
EraseDropsLink ==
    /\ Serving("erase") /\ Erasable
    /\ EraseSlot
    /\ DropLink
    /\ away' \in {away, away \cup {peer}}
    /\ UNCHANGED <<swap, peer>>

\* A power cut or a watchdog.
Reboot(d) ==
    /\ Boot(d)
    /\ d = peer /\ up => DropLink
    /\ d # peer \/ ~up => UNCHANGED link
    /\ UNCHANGED peer
=============================================================================
