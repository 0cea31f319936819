---------------------------- MODULE DeviceResolve ----------------------------
(***************************************************************************)
(* Choosing the device to connect to: resolve_peripheral, with the scan    *)
(* that `discover` shares with it (src/src/transport.rs).  Advertisements  *)
(* become events in a queue; CoreBluetooth fills in the name of a device   *)
(* some time after it was first reported; the window may close with events *)
(* still in the queue; and what is asked of the adapter may fail.          *)
(***************************************************************************)
EXTENDS DeviceCache

CONSTANTS
    NameOf,         \* what each device advertises
    SmpDevices,     \* devices that advertise the SMP service
    Caches,         \* what the device cache may hold
    Options,        \* the options of the invocation
    NoId,           \* no --id was given
    MaxEvents       \* bound: advertisements during the scan

ASSUME ResolveAssumption ==
    /\ NameOf \in [Device -> Name]
    /\ SmpDevices \subseteq Device
    /\ Caches \subseteq Seq(CachedDevice)
    /\ NoId \notin Device
    /\ Options \subseteq [listing : BOOLEAN, id : Device \cup {NoId},
                          name : Name \cup {NoName}, all_devices : BOOLEAN,
                          use_cache : BOOLEAN]
    /\ MaxEvents \in Nat

VARIABLES
    opts,       \* ResolveOptions; listing is the command `discover`
    cache,      \* the loaded cache
    phase,      \* where the command is
    shown,      \* the name CoreBluetooth has for each device so far
    events,     \* events the stream has not yielded
    heard,      \* advertisements so far
    order,      \* devices seen, in the order of their first event
    discovered, \* the same with the names read after the window closed
    chosen,     \* the devices chosen: none, or one
    atClose,    \* history: shown when the window closed
    unread      \* history: devices whose properties could not be read after that

vars == <<opts, cache, phase, shown, events, heard, order, discovered, chosen,
          atClose, unread>>
input == <<opts, cache>>

Init ==
    /\ opts \in Options
    /\ cache \in Caches
    /\ phase = "starting"
    /\ shown = [d \in Device |-> NoName] /\ atClose = shown
    /\ events = <<>> /\ heard = 0
    /\ order = <<>> /\ discovered = <<>>
    /\ chosen = {} /\ unread = {}

Ids(s) == {s[i] : i \in DOMAIN s}

ranked == IF opts.use_cache THEN candidates(cache, opts.name) ELSE <<>>

\* scan_filter: either every device or those that advertise the service.
PassesFilter(d) == opts.all_devices \/ d \in SmpDevices

-----------------------------------------------------------------------------
(* The radio.  The scan runs before anybody listens to its events.         *)

Advertise(d) ==
    /\ phase \in {"starting", "listening"}
    /\ heard < MaxEvents
    /\ PassesFilter(d)
    /\ heard' = heard + 1
    /\ events' = IF phase = "listening" THEN Append(events, d) ELSE events
    /\ UNCHANGED <<input, phase, shown, order, discovered, chosen, atClose, unread>>

LearnName(d) ==
    /\ d \in Ids(order) \cup Ids(events)
    /\ shown[d] = NoName
    /\ shown' = [shown EXCEPT ![d] = NameOf[d]]
    /\ UNCHANGED <<input, phase, events, heard, order, discovered, chosen, atClose, unread>>

-----------------------------------------------------------------------------
(* The scan window.                                                        *)

\* start_scan and adapter.events return, or one of them fails.
Subscribe ==
    /\ phase = "starting"
    /\ phase' \in {"listening", "failed"}
    /\ UNCHANGED <<input, shown, events, heard, order, discovered, chosen, atClose, unread>>

\* Mutant of NameRead: a name counts only if a cached device has it.
NameFromCache(d) ==
    {[ok |-> TRUE, name |-> IF d \in KnownIds(cache) THEN shown[d] ELSE NoName],
     [ok |-> FALSE, name |-> NoName]}

\* What device_properties returns of a name: the one there is by now, or none
\* because the peripheral or its properties could not be had.
NameRead(d) == {[ok |-> TRUE, name |-> shown[d]], [ok |-> FALSE, name |-> NoName]}

\* Mutant of Preferred: any cached device will do.
AnyCached(d, name) == ~opts.listing /\ opts.id = NoId /\ d \in Ids(ranked)

\* The event's device is the one to connect to at once.  Its name is read only
\* when the search is by name.
Preferred(d, name) ==
    /\ ~opts.listing
    /\ CASE opts.id # NoId     -> d = opts.id
         [] opts.id = NoId /\ opts.name # NoName -> name = opts.name
         [] OTHER              -> ranked # <<>> /\ d = ranked[1]

TakeEvent ==
    /\ phase = "listening"
    /\ events # <<>>
    /\ LET d == Head(events) IN
          /\ order' = IF d \in Ids(order) THEN order ELSE Append(order, d)
          /\ \E read \in NameRead(d) :
                IF Preferred(d, read.name)
                THEN phase' = "retrieving" /\ chosen' = {d}
                ELSE UNCHANGED <<phase, chosen>>
    /\ events' = Tail(events)
    /\ UNCHANGED <<input, shown, heard, discovered, atClose, unread>>

\* Mutant of WindowCloses: the scan goes on until something is found.
WaitsForADevice ==
    /\ phase = "listening"
    /\ order # <<>>
    /\ phase' = "naming"
    /\ atClose' = shown
    /\ UNCHANGED <<input, shown, events, heard, order, discovered, chosen, unread>>

\* The deadline is looked at before every event.
WindowCloses ==
    /\ phase = "listening"
    /\ phase' = "naming"
    /\ atClose' = shown
    /\ UNCHANGED <<input, shown, events, heard, order, discovered, chosen, unread>>

-----------------------------------------------------------------------------
(* After the window: device_properties of each device seen, one by one.    *)

device_properties ==
    /\ phase = "naming"
    /\ Len(discovered) < Len(order)
    /\ LET d == order[Len(discovered) + 1]
       IN  \E read \in NameRead(d) :
              /\ discovered' = Append(discovered, [id |-> d, name |-> read.name])
              /\ unread' = IF read.ok THEN unread ELSE unread \cup {d}
    /\ UNCHANGED <<input, phase, shown, events, heard, order, chosen, atClose>>

\* The first device discovered among those at some positions.
First(hits) ==
    IF hits = {} THEN {}
    ELSE {discovered[CHOOSE i \in hits : \A j \in hits : i <= j].id}

WithId   == {i \in DOMAIN discovered : discovered[i].id = opts.id}
WithName == {i \in DOMAIN discovered : discovered[i].name = opts.name}

\* The best-ranked cached device discovered.
BestCached ==
    LET seen == {r \in DOMAIN ranked : ranked[r] \in Ids(order)} IN
    IF seen = {} THEN {} ELSE {ranked[CHOOSE r \in seen : \A s \in seen : r <= s]}

\* Mutant of select_after_scan: the last resort needs no filter.
TakesAnyone ==
    CASE opts.id # NoId -> First(WithId)
      [] opts.id = NoId /\ opts.name # NoName -> First(WithName)
      [] OTHER -> IF BestCached # {} THEN BestCached ELSE First(DOMAIN discovered)

\* The device chosen, or none, which is an error.
select_after_scan ==
    CASE opts.id # NoId -> First(WithId)
      [] opts.id = NoId /\ opts.name # NoName -> First(WithName)
      [] OTHER -> IF BestCached # {} THEN BestCached
                  ELSE IF opts.all_devices THEN {} ELSE First(DOMAIN discovered)

Select ==
    /\ phase = "naming" /\ ~opts.listing
    /\ Len(discovered) = Len(order)
    /\ chosen' = select_after_scan
    /\ phase' = IF select_after_scan = {} THEN "failed" ELSE "retrieving"
    /\ UNCHANGED <<input, shown, events, heard, order, discovered, atClose, unread>>

\* The scan is stopped, and the peripheral chosen is had from the adapter or not.
Retrieve ==
    /\ phase = "retrieving"
    /\ phase' \in {"chosen", "failed"}
    /\ UNCHANGED <<input, shown, events, heard, order, discovered, chosen, atClose, unread>>

\* discover returns what it has read.
List ==
    /\ phase = "naming" /\ opts.listing
    /\ Len(discovered) = Len(order)
    /\ phase' = "listed"
    /\ UNCHANGED <<input, shown, events, heard, order, discovered, chosen, atClose, unread>>

Steps ==
    \/ Subscribe \/ TakeEvent \/ WindowCloses
    \/ device_properties \/ Select \/ Retrieve \/ List

Next == Steps \/ \E d \in Device : Advertise(d) \/ LearnName(d)

Spec == Init /\ [][Next]_vars

\* The executor goes on with the command and the window's timer fires.
\* Nothing is assumed of the radio.
FairSpec ==
    /\ Spec
    /\ WF_vars(Subscribe) /\ WF_vars(WindowCloses)
    /\ WF_vars(device_properties) /\ WF_vars(Select) /\ WF_vars(Retrieve) /\ WF_vars(List)

-----------------------------------------------------------------------------
\* With neither an id nor a name, a device other than the preferred one is
\* chosen only after the whole window has gone by without the preferred one:
\* no lesser device that advertises first wins (the early exit, best_cached).
PreferredWins ==
    (chosen # {} /\ opts.id = NoId /\ opts.name = NoName
        /\ ranked # <<>> /\ chosen # {ranked[1]})
    => ranked[1] \notin Ids(order) /\ Len(discovered) = Len(order)

\* The device was asked for, by its id or its name, or the cache knows it.
Known(d) ==
    \/ d = opts.id
    \/ opts.id = NoId /\ opts.name # NoName /\ NameOf[d] = opts.name
    \/ opts.id = NoId /\ opts.name = NoName /\ d \in Ids(ranked)

\* A device that is not known is chosen only if the scan was for SMP devices
\* and saw none the cache knows.  This last resort of select_after_scan is what
\* its comment says; the README says that the tool errors instead.
UnknownOnlyFiltered ==
    \A d \in chosen :
        \/ Known(d)
        \/ /\ opts.id = NoId /\ opts.name = NoName
           /\ ~opts.all_devices /\ d \in SmpDevices
           /\ Ids(order) \cap Ids(ranked) = {}

\* The command fails only if the device it chose could not be retrieved, or the
\* scan saw nothing that was asked for: not the id; no device whose name had
\* come in when the window closed, but for those whose properties could not be
\* read after that; no device the cache knows; and none at all, if any SMP
\* device would have done.
FindsWhatItSaw ==
    phase = "failed" /\ chosen = {} =>
        \A d \in Ids(order) :
            /\ d # opts.id
            /\ opts.id = NoId /\ opts.name # NoName =>
                  atClose[d] # opts.name \/ d \in unread
            /\ opts.id = NoId /\ opts.name = NoName =>
                  opts.all_devices /\ d \notin Ids(ranked)

\* Whatever advertises, the command chooses, lists or fails (the deadline of
\* resolve_peripheral and collect_ids).
Returns == <>(phase \in {"chosen", "failed", "listed"})
=============================================================================
