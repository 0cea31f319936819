# A TLA+ model of mcumgr-mac

mcumgr-mac is a command-line tool that manages MCUmgr/SMP devices over Bluetooth
LE: it finds a device, opens a session, and echoes, resets, lists, erases,
uploads or confirms firmware images. This directory holds TLA+ models of its
core, TLC configurations that check them on small instances, and TLAPS proofs.

Source paths below are relative to the repository root; `PROJECT.json` maps each
definition to the lines it models.

## The system

| Component | Source | State | Operations |
|---|---|---|---|
| SMP framing | `src/smp/mod.rs` | bytes in the `FrameAssembler` | `encode_frame`, `Header::encode/decode`, `push`, `next_frame` |
| SMP session | `src/transport.rs` | sequence number, assembler, notification stream, link | `send`, `request`, `request_with_timeout`, `request_watching_link`, `send_request`, `recv_response`, `reset_buffer`, `disconnect` |
| Image upload | `src/commands/image.rs` | chunk, window, erased; offsets, attempts and stalls of two loops | `upload`, `upload_with_fallback`, `upload_sequential`, `upload_windowed`, `erase_slot_simple` |
| Robust erase | `src/commands/image.rs` | the session it replaces, the time it takes | `robust_erase`, `reconnect_fresh` |
| Image state | `src/commands/image.rs` | the hash to write; the flags are the device's | `list`, `set_state`, `select_default_target`, `erase` |
| Device selection | `src/transport.rs` | devices seen in a scan window | `resolve_peripheral`, `select_after_scan`, `discover` |
| Device cache | `src/cache.rs`, `src/commands/mod.rs` | `devices.json`, one copy per invocation | `candidates`, `record_success`, `load_from`, `save_to` in `open_session` |
| Image file | `src/image.rs` | how far the walk over the TLVs is | `parse`, `find_sha256_tlv` (`info`, `upload`) |
| Echo, reset | `src/commands/os.rs` | none | one request each |
| Messages, CLI, output | `src/smp/messages.rs`, `src/smp/groups.rs`, `src/cli.rs`, `src/ui.rs`, `src/help.rs`, `src/main.rs` | none | CBOR, argument parsing, printing |

One invocation is one task. It resolves a device (device selection asks the
cache), connects, records the connection in the cache, and then makes calls on
the session, which owns the assembler. The upload uses one session throughout;
an erase may drop its session and go through all of this again.
What runs concurrently is the device, the link, the scan and, through the cache
file, other invocations.

What is hard about it:

- **Late answers.** Calls give up on timers. The answer to an abandoned request
  arrives during a later call, and only a u8 sequence number tells them apart;
  the pipelined loop does not even look at that.
- **Restarts on a live session.** Each downgrade starts the upload over while
  chunks and acks of the previous attempt are still on the link.
- **A device with a memory.** It remembers the offset of an interrupted upload,
  needs erasing, drops frames that are too large without a word, and may lose
  the link while it erases.
- **An erase that costs the link.** It is not answered, the device is gone for a
  while, and what comes back may have swapped its slots or be another device.
- **Flags that move.** Which image test and confirm take without a hash depends on
  what earlier commands and boots did to the flags.
- **Lengths out of a file.** The walk over the TLVs follows them.
- **Fragments.** Notifications cut frames anywhere, and `reset_buffer` drops
  what is buffered without knowing what is still on its way.
- **Asynchronous names.** A device is reported before its name is known, the scan
  window closes when it closes, and what is asked of the adapter may fail.
- **A shared file.** The cache is read before a scan and rewritten after it,
  without a lock, by a truncate and a write.

`PROJECT.json` lists the hazards one by one, with the properties that cover each.

## Modules

- `SmpLink` is one session at the level of frames: the numbers, the requests on
  their way, the notifications, the assembler's complete frames, the link and its
  faults. It has actions and no specification. A response carries the request it
  answers as a history field that no guard reads.
- `SmpSession` composes `SmpLink` with a client that calls the session's methods in
  any order. All methods take `&mut self`, so calls do not overlap; what overlaps
  is what earlier calls left behind.
- `FrameAssembler` has the framing as operators on bytes, and `FrameStream` puts
  them under a device that notifies fragments and a host that reads, times out and
  resets whenever it likes, as `reset_buffer` does. The history variable `pending` has
  where each frame ends, and `stray` counts the bytes before them that belong to none
  because the rest of their frame was lost or dropped, so the properties compare bytes
  with frames. `FrameChannel` is what reading promises: a lossy queue of whole frames,
  until part of one is lost.
- `UploadDevice` is the MCUmgr image group as the uploader uses it. It is external:
  nothing of it is in the repository. `UploadFallback` has the upload's state and
  the arms of `upload_with_fallback`; `SequentialUpload` and `WindowedUpload` are
  the two loops; `ImageUpload` composes them with the session and the device, from
  an open session to the outcome. A step in which a loop returns is the step in
  which the fallback's arm runs. `ImageTransfer` is what the command promises.
- `DeviceCache` has the bookkeeping as operators on a sequence of records.
  `CacheFile` has the invocations that load, connect, truncate and write.
- `DeviceResolve` is `resolve_peripheral`, with `discover`, which shares the scan.
  Starting the scan, reading the properties of a device and retrieving the one chosen
  may each fail; `unread` has the devices whose properties could not be read.
- `SlotDevice` is a device with two image slots and a boot loader, as the image and
  OS commands use it; external again. `image` and `swap` say what the slots hold
  and what the next boot does with them.
- `RobustErase` has `robust_erase` and `reconnect_fresh` with its clock, over
  `SmpLink` and `SlotDevice`; `open_session` is one step that finds a device or
  fails. `ImageCommands` has the invocations list, echo, reset, test, confirm and
  erase, one after the other, among several devices.
- `McubootImage` is `parse` and `find_sha256_tlv` on bytes, a step per block and per
  entry. `ImageFile` feeds it files built the way a signing tool and the tests of
  `src/image.rs` build them, whole, cut or with one byte changed.
- `QueueFacts`, `SmpSessionProofs`, `FrameStreamProofs`, `ImageUploadProofs`,
  `ImageCommandsProofs`, `ImageFileProofs`, `CacheFileProofs` and
  `DeviceResolveProofs` hold the proofs.
- `MCFrameStream`, `MCImageUpload`, `MCCacheFile`, `MCDeviceResolve`,
  `MCImageCommands` and `MCImageFile` only give values to constants.

How the model abstracts: offsets count units of data, and a chunk is `[cmd, off,
len]`; of the flash the model keeps which offsets hold bytes of this file; CBOR is
a record; return codes are "ok", "busy" (2, 6 and 10) and "other"; a name that
contains another is the same name. Statistics, progress bars and messages are left
out.

An error that names the image slot's state comes from the device in the code; the
model lets a slot that is not clear answer either "busy" or an offset that does not
move, since devices do both and the uploader handles both.

## Runs

Run one with `tlc -config X.cfg M`.

| Run | Module, cfg | What it shows |
|---|---|---|
| session | `SmpSession`, `SmpSession.cfg` | `Correlated`: a successful call has the answer to its own request. `WatchReturnsOnDrop`: `request_watching_link` returns after a drop without its long timeout. |
| frames | `MCFrameStream`, `Frames.cfg` | `InStep`: behind the stray bytes, buffer and wire are the frames nobody has read. `ChannelSpec` (refinement of `FrameChannel`): the reads see these frames, in order, and anything else only after part of a frame was lost or dropped. `ResetRecovers`: the reset after a timeout puts the host in step again unless bytes are still on their way. `ReadsWhatArrives`: no read in step waits over a complete frame. |
| upload | `MCImageUpload`, `Upload.cfg` | `TransferSpec` (refinement of `ImageTransfer`): success only over a complete slot. `AckedBytesAreStored`, `AckAnswersItsChunk`, `StallsFitWindow`; `NeverRewinds`: the resync of the pipelined loop is never taken; `DeviceInWindow`: loop and device agree on where they are and no ack is ahead of the device, so `sent - acked` does not wrap, on a device without the offset of an earlier upload. `EachArmDowngrades`: starting over costs a tuning. `Termination`, and `UndisturbedSucceeds`: without faults the downgrades lead to success. |
| commands | `MCImageCommands`, `Commands.cfg` | `EraseIsDone`, `OkMeansMarked`: success is what the device did. `WritesWhatFits`: the image picked from a listing is still the right one when the device reads the write. `WithinBudget`, `CommandsEnd`, `RecoversWhenBack`: the reconnection keeps its time, ends, and succeeds when it can. |
| image_file | `MCImageFile`, `ImageFile.cfg` | `InBounds`, `Terminates`: no length in a file leads the walk astray. `ValidIsBacked`: a hash is valid only if the file holds it. `ReadsWhatWasBuilt`, `CutIsRejected`, `ValidMeansIntact`, `ChangeIsSeen`: what it says of whole and damaged files. |
| resolve | `MCDeviceResolve`, `Resolve.cfg` | `PreferredWins`: no lesser device wins by advertising first. `UnknownOnlyFiltered`: a device nobody knows is chosen only by a scan for SMP devices that saw none of the cache; against the README, see below. `FindsWhatItSaw`: why the command fails. `Returns`. |
| cache | `MCCacheFile`, `Cache.cfg` | `CountsConnections` and `PrefersMostUsed`: exact counts, and the best device, while invocations do not overlap. `NeverOvercounts` and `OneRecordEach`: also when they do, or are killed. |

Each of the following runs finds its property violated by what the code does:

| Run | Finding |
|---|---|
| leftover_mixes | The device remembers an offset and the first chunk is too large for the MTU: the pipelined loop takes acks of the old upload for its own and reports success over a slot without the first chunk. |
| reset_desyncs | A read times out with the beginning of an answer buffered; `reset_buffer` drops it, and its end is read as the header of the next frame. The comment on `reset_buffer` says that it prevents this. |
| cache_forgets | A kill between truncate and write leaves a file that counts as an empty cache. |
| confirm_reverts | `image confirm` without a hash takes the first unconfirmed image. Given twice (the first answer was lost, say), it takes the previous image the second time, and the next reset boots that one for good. |
| erase_elsewhere | The link drops before the erase arrives; `robust_erase` takes that for an erase that went on, `reconnect_fresh` finds another device whose slot is clear, and the erase is reported as done. |

Other places where the code does not do what its documentation says, which the
models show and no run of its own is about:

- With `--smp-devices`, and neither a name nor an id, the tool connects to the first
  SMP device seen when none of the cache was. The comment at
  `src/src/transport.rs:324-326` calls that safe; `src/README.md:147-149` says that when
  nothing preferred shows up the tool "errors rather than connecting to an arbitrary
  device". `UnknownOnlyFiltered` states what the code does, that this happens in no other
  case; without its last disjunct it is violated.
- The comment at `src/src/commands/image.rs:513-515` says that the pipelined loop resyncs
  when the device "keeps re-reporting the first offset it is missing". After a dropped
  chunk at most `window` acks without progress can arrive (`StallsFitWindow`) and
  `resync_after` is `window + 4`: the resync is dead code (`NeverRewinds`), the loop waits
  with nothing in flight until its timeout, and the upload starts over sequentially.
- `connect_count` is "How many times we have successfully connected to this device"
  (`src/src/cache.rs:28`). The cache is loaded before the scan and saved after the
  connection, without a lock: of two invocations that overlap, the one that saves last
  takes the other's connection out of the count. `CountsConnections` without `alone` is
  violated.

Also seen while modelling: with more chunks in flight than sequence numbers
(`SeqMod = 4`, a window of 6) `UploadedIsComplete` is violated, as a late ack of the
pipelined attempt answers a sequential chunk. The erase-and-retry arm of the upload
fails the upload if the erase drops the link; only `--erase` reconnects. With `--name`
the ranked candidates are computed and not used, so a device the cache knows by that
name whose advertised name does not come in, or cannot be read, is not found. On a
device with the offset of an earlier upload an ack may be ahead of what was sent:
`sent - acked` wraps, and the pipelined loop stops sending. With offsets in the middle
and at the end of the file, windows of 1 and 2 and one fault, TLC finds that the upload
still ends (`Termination`, `UndisturbedSucceeds`); what its success is worth is
leftover_mixes.

### Bounds, and why they are enough

- *session*: 3 sequence numbers and 7 requests, so the numbers wrap twice; at most
  3 outstanding requests. The bound is tight: with 4, `Correlated` fails. In the
  code the number has 256 values; every caller but the pipelined upload waits for
  an answer or a timeout per request.
- *frames*: bytes of 5 values, so that a payload of 5 bytes needs both length bytes
  and an op code may be unknown; 3 frames of 8 or 13 bytes, cut anywhere, and
  what is on its way may be lost at any time. `serial` is a host with one request in
  flight, which resets after every timeout: the device answers each request at most
  once (`owed`), maybe late. A pipelined host may have 3 frames on their way, and
  may go on after a timeout with what is buffered.
- *upload*: a file of 5 units in chunks of 1 or 3 with windows 1 to 3 has a first,
  a middle and a shorter last chunk, fewer chunks than the window and more; 2
  faults of any kind; a deaf device, one whose MTU is too small for the first chunk
  alone, and an ample one. The retry limits are the code's. 16 sequence numbers are
  more than can be outstanding, and few, so that a run of retries that would never
  end comes back to a state soon.
- *commands*: 2 devices that run the old image, with any other slot and any plan of
  the boot loader's, 2 invocations and 2 faults of any kind: enough for a fault and another one during the recovery, and
  for a command that finds what the one before left. A session has one frame on the
  link at a time (proved, `OneAtATime`), so larger queues would be empty. Times are
  in units of more than twenty seconds: attempts of up to 2, a budget of 4 and
  pauses of 1 keep the order of the code's 45, 90 and 2 seconds, and let an attempt
  begin just before the budget is spent.
- *image_file*: bytes of 16 values, so that sizes need two bytes; 43 layouts of up to
  two entries in each block, empty ones and ones with the tag of the hash and another
  length among them; each file whole, cut at every length, and with every byte
  changed to every other value. The hash of the run is a checksum that meets
  `HashAssumption` on these files, which TLC evaluates when it starts.
- *resolve*: 3 devices of which two share a name, 4 advertisements, caches in which
  either of two devices is preferred, and any of the questions to the adapter failing.
- *cache*: 2 invocations, 2 devices, 4 connections, one kill.

`Upload.cfg` starts with no leftover offset on the device: with one, and a
first chunk that cannot land, `leftover_mixes` shows what happens.

`CHECK_DEADLOCK FALSE` is set everywhere: commands end, clients run out of requests
and radios go quiet.

### Fairness

`SmpSession`: the executor polls a read that has something to read, and the slice
timer of `request_watching_link` fires. `FrameStream`: the same for reads.
`ImageUpload`: the one task goes on and its timers fire, and a device that receives
a request answers it; nothing is assumed of faults. `DeviceResolve`: the task goes
on and the window's timer fires; nothing is assumed of advertisements.
`ImageCommands`: the task goes on and its timers fire, a device that hears a request
answers it, and one that is away comes back; nothing is assumed of the user.
`ImageFile`: sequential code goes on while it can.
A premature timeout is a fault ("late") and counts against `MaxFaults`.

## Proofs

`tlapm M.tla` checks a module.

- `SessionTypeOK` and `SessionCorrelated` (`SmpSessionProofs`), for every number of
  sequence numbers, requests and faults, under the assumption `MaxOutstanding <=
  SeqMod`. `Correlated` is not inductive. `Inv` adds, for every frame on the link
  and in the assembler, that its number is its request's index modulo `SeqMod`, that
  its answer is its request's, and that the request is less than `SeqMod` old when a
  call waits; then equal numbers mean equal requests.
- `StreamInStep`, `StreamChannel` and `ResetPutsInStep` (`FrameStreamProofs`), for every
  byte width, all frames that are as long as their header says, all ways to cut them,
  and losses, timeouts and resets at any moment. The inductive invariant `StreamInv`
  says that the frames nobody has read lie one behind the other, behind the stray bytes,
  to the end of the wire (`Laid`). Without stray bytes the first header in the buffer is
  the first frame's (`FirstFrame`), so what is read is that frame; with them, something
  else may be read (`Misread` of `FrameChannel`). A fragment that arrives moves no byte
  (`FragmentStays`), and whatever number of bytes a read or a reset drops from the front,
  what is left is the rest of a frame and whole frames behind it (`LaidShorter`).
- `EncodeDecodes` (`FrameStreamProofs`): what `encode_frame` writes is read back by
  `decode`, and the length field is the payload's modulo two bytes. So the frames of
  a payload that 16 bits can count are among those the two theorems speak of.
- `UploadTypeOK` (`ImageUploadProofs`), for every file size, chunk, window, MTU,
  starting state of the device and pattern of faults. The strengthening `Unfinished`
  says that the sequential loop only sends while its offset is below the file's
  size; without it a chunk could have a negative length. What the theorem means for
  the code: no slice in `upload_chunk` is out of range, no counter passes its limit,
  the chunk never becomes 0.
- `UploadTransfers`, `DoneIsComplete`, `OffsetsAreStored`, `AnswersMatchChunks` and
  `StallsStayInWindow` (`ImageUploadProofs`): the refinement of `ImageTransfer` and
  the upload's four safety properties, for every file, chunk, window, MTU and pattern
  of faults. The argument is told below.
- `DeviceStaysInWindow` and `ResyncNeverHappens` (`ImageUploadProofs`) follow from the
  same invariant, and so hold of a device without the offset of an earlier upload. With
  one, `sent - acked` may wrap. The second says for every window, file and pattern of
  faults that the resync of `upload_windowed` is dead code.
- `ArmsDowngrade` and `RestartsAreFinite` (`ImageUploadProofs`): every arm of
  `upload_with_fallback` that starts over has lowered the window to 1, made the chunk
  smaller or erased for the first time, and nothing undoes that; so a natural number
  falls with each start. `EachArmDowngrades` needs only `TuningInv`: who waits for an
  erase has not erased before, and the pipelined loop has a window above 1. It is the
  part of `Termination` that is safety, and needs neither fairness nor `LineInv`.
- `CacheTypeOK`, `CacheHasOneRecordEach`, `CacheNeverOvercounts` and
  `CacheIsExactAlone` (`CacheFileProofs`), for any number of invocations, devices,
  connections and kills. The first three are inductive together (`SafeInv`), as every
  file and every copy comes from a file by `record_success`. Exactness is not: between
  truncate and write the history is in no file. `AloneInv` says that it is then in the
  copy of the one invocation that writes. The assumptions on constants are that there
  is a device and that a missing and a torn file are not sequences of records.
- `CachePrefersMostUsed` (`CacheFileProofs`): the device connected to on sight has the
  most connections. `CandidatesSorted` says that `candidates` are the matching devices,
  each once, in the order of a stable sort; then exactness does the rest.
- `PreferredDeviceWins`, `UnknownIsFiltered` and `FailureSawNothing`
  (`DeviceResolveProofs`), for any devices, cache, options and order of events, and any
  failures of the adapter. The inductive invariant `ResolveInv` adds that names come in
  and stay (`NamesComeIn`), that what is read after the window is in the order of the
  scan and, where it can be read, no less than what was known when the window closed
  (`ReadsInOrder`), and that the filter lets nothing else through (`OnlyFiltered`).
- `ReconnectWithinBudget` (`ImageCommandsProofs`), for every budget, pause and limit
  of an attempt. `WithinBudget` alone is not inductive: `InTime` adds that the clock
  is below the budget when a pause begins, and below budget and pause when an
  attempt does.
- `CommandsTypeOK` (`ImageCommandsProofs`), for any number of devices, images,
  invocations and faults. `NamesImage` is the strengthening: what is about to be
  written was chosen from a listing or given by the user. It includes that every
  device keeps an image to run, and one to swap to or back when it will swap.
- `EraseReportsTruly` and `MarksReportTruly` (`ImageCommandsProofs`): what `EraseIsDone`
  and `OkMeansMarked` say, for any number of everything. The inductive invariant
  `OutcomeInv` says that a session has one frame on the link at a time
  (`OneAtATime`), that it is the request whose answer is awaited or its answer, and
  that an answer without an error code is true (`Exchange`). What it says stays true
  because no boot or erase fills an empty slot (`ClearStays`). No sequence number is
  needed for this: a command that gives up on an answer sends no more in that session.
- `WritesFit` (`ImageCommandsProofs`): what `WritesWhatFits` says, for any number of
  devices, commands and faults. It relates an answer to the state of the device that
  gave it: `PickInv` says, for each of the steps between the request for the listing
  and the write being read, that the device is still the one that was asked and that
  what it told still fits. A boot in between would falsify it; the invariant shows
  that a boot costs the link, and with it the session.
- `ParseInBounds` and `ParseMovesOn` (`ImageFileProofs`), for files of every length
  and content and every byte width: the slices `parse` and `find_sha256_tlv` take
  exist, so they do not panic, and every turn of the two loops leaves less to look at.
  The lemma `FilesAreParsed` carries this over to the files of the run.
- `ParseBacksValid` (`ImageFileProofs`), for every file: a hash that is reported as
  valid is the hash of the bytes its header declares, and stands behind the
  application. `Backing` adds that the walk never goes back before the end of the
  application and hashes what the header says.
- `BuiltIsRead`, `CutIsNotRead` and `ChangeIsReported` (`ImageFileProofs`), for every
  layout: sizes of header and application, both blocks, any number of entries. The
  inductive invariant `WalkInv` says which part of the layout each offset of the walk
  points to: `region` at the end of the application, of the signed part or of the
  file, `entries` behind the first `k` entries of a block (`AfterSome`). It is about a
  file that is whole, cut, or changed where `parse` reads nothing but to hash it
  (`AsBuilt`); a part that is still there is read as it was written (`Survives`,
  `ReadsHeader`, `ReadsBlock`, `ReadsEntry`). `LayoutAssumption` is what the file
  format demands: sizes and tags fit the two or four bytes of their fields, a hash has
  `HashLen` bytes, and only the unprotected block has an entry with the tag and the
  length of a hash that is one. TLC checked `WalkInv` on `ImageFile.cfg`, with `k`
  bounded, before it was proved.
- `DamageIsNotValid` (`ImageFileProofs`): no file that was cut, or changed in what the
  hash covers, is called valid. A cut, and a change where bytes are only hashed, is
  `WalkInv`; a change of the magic is refused (`MagicChanged`); for a change of a size
  or of a protected entry, after which `parse` hashes another part of the file and
  looks for the hash elsewhere, it is `ParseBacksValid` and `HashAssumption`.
  `HashAssumption` is all that is trusted of the hash, and is about `Layouts` only:
  a byte that is changed changes the hash, and a file with a changed size or
  protected entry does not come to hold the hash of what it then declares. It is a
  statement about SHA-256 and the bytes of a file, in which neither `parse` nor the
  walk occurs; of SHA-256 it cannot be proved, only believed.
- `QueueFacts` has the lemmas on sequences they use, and `LeastNumber`, which stands in
  for induction where a first place or a best device must exist.

### Why an upload that reports success is complete

`AckedBytesAreStored` is far from inductive: which ack a loop takes depends on
every frame it and its predecessors left behind. The invariant (`LineInv`) looks at
one line of frames: what the host has read (`buf`), what it has been sent (`notif`)
and what the device has yet to see (`toDev`), in this order. A step takes frames out
of the line, changes one in place into its answer, or appends one; so the frames stay
in the order in which they were written (`InOrder`), and the age of a frame's number
(how many requests ago it was given out) is at least its distance from the end. Then

- the number given out last is on the last frame only. When a sequential call has
  read its answer, nothing is left behind it (`AnswerIsLast`), so no late frame can
  touch the slot, and the ack is of the chunk the loop waits for (`SequentialInv`);
- during the pipelined attempt the line holds chunks of this attempt only, `m` of
  them counting from `acked` (`Pipelined(m)`): their offsets, and those of the answers,
  are at most where the device is, hence stored (`WindowInv`);
- chunks in flight and acks without progress are `window` at most together
  (`WindowHolds`), which is why the resync is never taken;
- after "done" no chunk and no erase is in the line (`DoneInv`), which the refinement
  needs for the steps that follow;
- an erase is answered before anything else is written, or ends the upload.

Two assumptions are needed. `Leftovers = {0}`: the device has no offset of an earlier
upload; leftover_mixes is the counterexample otherwise. `NumbersSuffice`: a number does
not come round while a frame that carries it may still be in the line, that is, a
window and two requests for each time the chunk can be made smaller have numbers of
their own. `CodeParameters` proves this of the code's u8 numbers and `MIN_CHUNK` for
every chunk of up to 654 bytes and every window of up to 237; the defaults are 128
bytes, 432 with `--fast`, and a window of 4. It is not only a convenience: with
`SeqMod = 4` `Upload.cfg` violates `AckAnswersItsChunk`. Its own instance, with 16
numbers, meets the assumption, which asks for 10 there.

`LineInv` was checked with TLC on the instance of `Upload.cfg`, with 16 numbers and
with exactly 10, before it was proved.

### Only model-checked

All liveness properties, which are outside the prover's reach: `WatchReturnsOnDrop`,
`ReadsWhatArrives`, `Termination`, `UndisturbedSucceeds`, `CommandsEnd`,
`RecoversWhenBack`, `Returns` and `Terminates`. Every invariant and
every action property that a passing run checks is proved as well, and so are both
refinements.

## Not modelled

- `upload` calls `robust_erase` before the loops when given `--erase`. The two are not
  composed: `ImageUpload` starts where `robust_erase` ends, so `erased` may be true at
  the start, and the slot is as `EraseIsDone` says only then.
- `upload --slot` only prints a warning; the requests carry no slot.
- Firmware that ignores the slot of an erase request and erases slot 1
  (`src/smp/messages.rs:138-139`): `SlotDevice` refuses what it cannot erase.
- Cancelling an attempt to reconnect leaves a scan or a connection behind in the
  system's Bluetooth stack; an attempt is one step here.
- The version and the flags of an image, `info`'s table and the table of return codes
  are only printed.
- CBOR, argument parsing, printing: no state, or generated code. In particular no device
  refuses with an answer `check_rc` cannot decode or without an `rc`, which the tool takes
  for success (`src/smp/messages.rs:24-33`).
- A debug build, in which `sent - acked` panics instead of wrapping.
- `connect` inside a session (services, characteristic, subscription): an error
  there is `GiveUp` in `CacheFile`.
- Overflow of `window * chunk`, `chunk * 3 / 4`, `window * 16 + 32`: only absurd
  command lines reach it. `sent - acked` does wrap in the model (`UsizeMod`).

## Plan

Done, in this order: `SmpLink` and `SmpSession` with their proofs; `ImageUpload`
and its parts with `ImageTransfer` and the type theorem; `FrameAssembler` and
`FrameStream`; `DeviceCache` and `CacheFile`; `DeviceResolve`; `SlotDevice`,
`RobustErase` and `ImageCommands` with the proofs of their outcomes; `McubootImage`
and `ImageFile` with the proofs that the walk stays in bounds and reads what was
built; the safety of `CacheFile`, `DeviceResolve` and `FrameStream`, and the
refinements of `ImageTransfer` and `FrameChannel`; what the pipelined loop and the
device agree on, what an upload that starts over costs, what a command picks from a
listing, and damage of every kind to a file.

Next, models: `robust_erase` in front of the upload loops, and `DeviceResolve`'s
outcome in place of the step that `open_session` is in `RobustErase`.
