------------------------------ MODULE CacheFile ------------------------------
(***************************************************************************)
(* devices.json as the invocations of the tool see it: each one runs       *)
(* open_session (src/src/commands/mod.rs), which loads the cache, connects *)
(* to a device, records it in its own copy and saves the whole copy.       *)
(* std::fs::write truncates the file and then writes it, nothing locks the *)
(* file, and an invocation may be killed between any two steps.            *)
(***************************************************************************)
EXTENDS DeviceCache

CONSTANTS
    Process,        \* invocations that may run at the same time
    NameOf,         \* what each device advertises
    MaxConnects,    \* bound: connections in a behaviour
    MaxKills,       \* bound: invocations killed
    Missing, Torn   \* a file that is not there, and one that does not parse

ASSUME FileAssumption ==
    /\ NameOf \in [Device -> Name]
    /\ MaxConnects \in Nat /\ MaxKills \in Nat
    /\ Device # {}
    /\ Missing # Torn
    /\ Missing \notin Seq(CachedDevice) /\ Torn \notin Seq(CachedDevice)

VARIABLES
    file,       \* devices.json: a cache, Missing or Torn
    at,         \* where each invocation is in open_session
    cache,      \* its own copy of the cache
    using,      \* the device it is connected to
    clock,      \* the wall clock
    connects,   \* history: successful connections to each device
    saved,      \* history: devices whose save has completed
    alone,      \* history: no two invocations overlapped and none was killed
    kills       \* kills left

history == <<connects, saved>>
vars == <<file, at, cache, using, clock, history, alone, kills>>

Init ==
    /\ file = Missing
    /\ at = [p \in Process |-> "idle"]
    /\ cache = [p \in Process |-> <<>>]
    /\ using = [p \in Process |-> CHOOSE d \in Device : TRUE]
    /\ clock = 0
    /\ connects = [d \in Device |-> 0]
    /\ saved = {} /\ alone = TRUE
    /\ kills = MaxKills

Whole(f) == f \notin {Missing, Torn}

\* load_from with open_session's unwrap_or_default: what is missing and what
\* does not parse are both an empty cache.
Contents(f) == IF Whole(f) THEN f ELSE <<>>

load_from(p) ==
    /\ at[p] = "idle"
    /\ at' = [at EXCEPT ![p] = "loaded"]
    /\ cache' = [cache EXCEPT ![p] = Contents(file)]
    /\ alone' = (alone /\ \A q \in Process : at[q] = "idle")
    /\ UNCHANGED <<file, using, clock, history, kills>>

\* The scan and SmpSession::connect took any time and led to device d; the
\* name is read again after the connection and may not be known.
connect(p, d) ==
    /\ at[p] = "loaded"
    /\ clock < MaxConnects
    /\ at' = [at EXCEPT ![p] = "recorded"]
    /\ using' = [using EXCEPT ![p] = d]
    /\ \E name \in {NoName, NameOf[d]} :
          cache' = [cache EXCEPT ![p] = record_success(@, d, name, clock)]
    /\ clock' = clock + 1
    /\ connects' = [connects EXCEPT ![d] = @ + 1]
    /\ UNCHANGED <<file, saved, alone, kills>>

\* No device was found or the connection failed.
GiveUp(p) ==
    /\ at[p] = "loaded"
    /\ at' = [at EXCEPT ![p] = "idle"]
    /\ UNCHANGED <<file, cache, using, clock, history, alone, kills>>

\* save_to opens the file for std::fs::write.
truncate(p) ==
    /\ at[p] = "recorded"
    /\ at' = [at EXCEPT ![p] = "saving"]
    /\ file' = Torn
    /\ UNCHANGED <<cache, using, clock, history, alone, kills>>

\* The bytes land at the start of the file.  If another invocation has
\* written since the truncation, the tail of a longer file stays behind; only
\* a copy with more devices is sure to be longer.
write(p) ==
    /\ at[p] = "saving"
    /\ at' = [at EXCEPT ![p] = "idle"]
    /\ IF Whole(file) /\ Len(file) >= Len(cache[p])
       THEN file' \in {cache[p], Torn}
       ELSE file' = cache[p]
    /\ saved' = saved \cup {using[p]}
    /\ UNCHANGED <<cache, using, clock, connects, alone, kills>>

\* The invocation is killed, or its write fails, which is only a warning.
Kill(p) ==
    /\ kills > 0
    /\ at[p] # "idle"
    /\ at' = [at EXCEPT ![p] = "idle"]
    /\ kills' = kills - 1
    /\ alone' = FALSE
    /\ UNCHANGED <<file, cache, using, clock, history>>

Next ==
    \E p \in Process :
        \/ load_from(p) \/ GiveUp(p) \/ truncate(p) \/ write(p) \/ Kill(p)
        \/ \E d \in Device : connect(p, d)

Spec == Init /\ [][Next]_vars

-----------------------------------------------------------------------------
Quiet == \A p \in Process : at[p] \in {"idle", "loaded"}

\* The types of the code: a cache that parses is a list of records.
TypeOK ==
    /\ Whole(file) => file \in Seq(CachedDevice)
    /\ at \in [Process -> {"idle", "loaded", "recorded", "saving"}]
    /\ cache \in [Process -> Seq(CachedDevice)]
    /\ using \in [Process -> Device]
    /\ clock \in Nat /\ connects \in [Device -> Nat] /\ saved \subseteq Device
    /\ alone \in BOOLEAN /\ kills \in Nat

\* While invocations run one after the other, what the file says of a device
\* is how many times the tool has connected to it (CachedDevice.connect_count).
CountsConnections ==
    alone /\ Quiet => \A d \in Device : connect_count(Contents(file), d) = connects[d]

\* The documentation: the cache remembers the devices the tool connects to, so a
\* device whose save has completed is in it.
RemembersAlways == Quiet => saved \subseteq KnownIds(Contents(file))

\* Whatever invocations overlap and die, no file and no copy says a device has
\* been connected to more often than it was.
NeverOvercounts ==
    \A d \in Device :
        /\ connect_count(Contents(file), d) <= connects[d]
        /\ \A p \in Process : connect_count(cache[p], d) <= connects[d]

\* No cache has two records of one device: connect_count, candidates and
\* record_success each find the first and would disagree about the device.
OneRecordEach ==
    \A c \in {Contents(file)} \cup {cache[p] : p \in Process} :
        \A i, j \in DOMAIN c : c[i].id = c[j].id => i = j

\* While invocations run one after the other, the device one will connect to
\* on sight is one the tool has connected to most often (candidates,
\* resolve_peripheral).
PrefersMostUsed ==
    \A p \in Process : alone /\ at[p] = "loaded" /\ cache[p] # <<>> =>
        LET best == candidates(cache[p], NoName)[1] IN
            \A d \in Device : connects[d] <= connects[best]
=============================================================================
