---------------------------- MODULE UploadDevice ----------------------------
(***************************************************************************)
(* The device an image is uploaded to: the MCUmgr image group as the code  *)
(* under src/ uses it (UploadChunk and UploadResponse in                   *)
(* src/src/smp/messages.rs, upload_with_fallback and its two upload loops  *)
(* in src/src/commands/image.rs).  It is no part of the repository.        *)
(*                                                                         *)
(* A request is [cmd, off, len].  A response payload is [rc, off]: rc is   *)
(* "ok", "busy" (one of the codes 2, 6 and 10 that the uploader takes for  *)
(* a slot that needs erasing) or "other"; off is the next offset the       *)
(* device wants, or NoOff when the field is missing.  Of the image in the  *)
(* slot the model keeps which of its bytes are bytes of the file.          *)
(***************************************************************************)
EXTENDS SmpLink, Integers

CONSTANTS
    Total,          \* bytes in the file
    FirstOverhead,  \* what len and sha add to the frame of the first chunk
    Mtus,           \* data bytes a frame can carry; 0 for a deaf device
    Leftovers,      \* offsets an interrupted earlier upload may have reached
    Slots           \* states the slot may be in at the start

\* A dirty slot takes no chunk until it is erased; a locked one never does
\* (the image in it is pending, say).
SlotStates == {"clear", "dirty", "locked"}

ASSUME TotalAssumption  == Total \in Nat \ {0}
ASSUME DeviceAssumption ==
    /\ FirstOverhead \in Nat /\ Mtus \subseteq Nat
    /\ Leftovers \subseteq 0..Total /\ Slots \subseteq SlotStates

VARIABLES
    devOff,     \* the next offset the device expects
    stored,     \* offsets in the slot that hold this file's bytes
    slot,       \* whether it takes chunks: one of SlotStates
    mtu         \* data bytes a frame can carry

device == <<devOff, stored, slot, mtu>>

NoOff == -1

Commands == {"upload", "erase", "state"}
RequestBody ==
    {r \in [cmd : Commands, off : 0..Total, len : 0..Total] : r.off + r.len <= Total}
ReplyBody == [rc : {"ok", "busy", "other"}, off : (-1)..Total]

DeviceInit ==
    /\ devOff \in Leftovers
    /\ stored = {}
    /\ slot \in Slots
    /\ mtu \in Mtus

\* Whether a request fits a frame.  A write without response that does not
\* is dropped below the API, and succeeds.
FitsFrame(req) ==
    /\ mtu > 0
    /\ req.cmd = "upload" =>
          req.len + (IF req.off = 0 THEN FirstOverhead ELSE 0) <= mtu

Transmit(req) ==
    \/ FitsFrame(req) /\ WriteRequest(req)
    \/ ~FitsFrame(req) /\ WriteUnseen

-----------------------------------------------------------------------------
(* Handling the oldest request.                                            *)

Serving(cmd) == toDev # <<>> /\ Head(toDev).req.cmd = cmd
Served == Head(toDev).req
Bytes(req) == req.off..(req.off + req.len - 1)

\* The first chunk starts the upload over, whatever came before it.
AcceptFirst ==
    /\ Serving("upload") /\ slot = "clear" /\ Served.off = 0
    /\ stored' = Bytes(Served)
    /\ devOff' = Served.len
    /\ Answer([rc |-> "ok", off |-> devOff'])
    /\ UNCHANGED <<slot, mtu>>

AcceptNext ==
    /\ Serving("upload") /\ slot = "clear"
    /\ Served.off # 0 /\ Served.off = devOff
    /\ stored' = stored \cup Bytes(Served)
    /\ devOff' = devOff + Served.len
    /\ Answer([rc |-> "ok", off |-> devOff'])
    /\ UNCHANGED <<slot, mtu>>

\* A chunk it cannot place: the device reports again what it wants.
Repeat ==
    /\ Serving("upload")
    /\ slot # "clear" \/ (Served.off # 0 /\ Served.off # devOff)
    /\ Answer([rc |-> "ok", off |-> devOff])
    /\ UNCHANGED device

RefuseChunk ==
    /\ Serving("upload") /\ slot # "clear"
    /\ Answer([rc |-> "busy", off |-> NoOff])
    /\ UNCHANGED device

EraseSlot ==
    /\ slot' = IF slot = "dirty" THEN "clear" ELSE slot
    /\ stored' = {}
    /\ devOff' = 0
    /\ UNCHANGED mtu

Erased ==
    /\ Serving("erase")
    /\ EraseSlot
    /\ Answer([rc |-> "ok", off |-> NoOff])

ReportState ==
    /\ Serving("state")
    /\ Answer([rc |-> "ok", off |-> NoOff])
    /\ UNCHANGED device

DeviceStep ==
    AcceptFirst \/ AcceptNext \/ Repeat \/ RefuseChunk \/ Erased \/ ReportState

\* The device fails a request with a code of its own.
RefuseAny ==
    /\ toDev # <<>>
    /\ Answer([rc |-> "other", off |-> NoOff])
    /\ UNCHANGED device

\* The erase keeps the radio busy past the supervision timeout: it
\* completes, and the link is gone.
EraseDropsLink ==
    /\ Serving("erase")
    /\ EraseSlot
    /\ DropLink
=============================================================================
