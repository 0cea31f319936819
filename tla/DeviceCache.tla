----------------------------- MODULE DeviceCache -----------------------------
(***************************************************************************)
(* The bookkeeping of src/src/cache.rs: a cache is the sequence of records *)
(* of the devices the tool has connected to, in the order it first did.    *)
(* A name that contains another is abstracted to the same name.            *)
(***************************************************************************)
EXTENDS Naturals, Sequences, FiniteSets

CONSTANTS
    Device,     \* platform identifiers
    Name,       \* advertised names
    NoName      \* a device that has advertised none

ASSUME NameAssumption == NoName \notin Name

CachedDevice == [id : Device, name : Name \cup {NoName},
                 connect_count : Nat, last_connected : Nat]

KnownIds(cache) == {cache[i].id : i \in DOMAIN cache}

\* 0 for a device the cache does not know.
connect_count(cache, id) ==
    IF id \in KnownIds(cache)
    THEN cache[CHOOSE i \in DOMAIN cache : cache[i].id = id].connect_count
    ELSE 0

\* Mutant of record_success: a first connection is inserted and counted.
CountsTwice(cache, id, name, now) ==
    Append(SelectSeq(cache, LAMBDA d : d.id # id),
           [id |-> id, name |-> name, last_connected |-> now,
            connect_count |-> connect_count(cache, id) +
                              (IF id \in KnownIds(cache) THEN 1 ELSE 2)])

\* Mutant of record_success: a known device is not looked up.
AlwaysInserts(cache, id, name, now) ==
    Append(cache, [id |-> id, name |-> name, connect_count |-> 1, last_connected |-> now])

\* Mutant of record_success: id and name, both strings, change places.
SwapsArguments(cache, id, name, now) ==
    Append(cache, [id |-> name, name |-> id, connect_count |-> 1, last_connected |-> now])

\* A known device keeps its place, and its name if this connection has none.
record_success(cache, id, name, now) ==
    IF id \in KnownIds(cache)
    THEN [i \in DOMAIN cache |->
            IF cache[i].id # id THEN cache[i]
            ELSE [id |-> id, name |-> IF name = NoName THEN cache[i].name ELSE name,
                  connect_count |-> cache[i].connect_count + 1,
                  last_connected |-> now]]
    ELSE Append(cache, [id |-> id, name |-> name, connect_count |-> 1,
                        last_connected |-> now])

\* Mutant of RanksBefore: recency first.
RanksByRecency(d, e) == d.last_connected > e.last_connected

\* The key of the sort: count, then recency, both descending.
RanksBefore(d, e) ==
    \/ d.connect_count > e.connect_count
    \/ d.connect_count = e.connect_count /\ d.last_connected > e.last_connected

\* A stable sort: equals stay in insertion order.
Precedes(cache, i, j) ==
    \/ RanksBefore(cache[i], cache[j])
    \/ ~RanksBefore(cache[j], cache[i]) /\ i < j

\* NoName stands for no filter.
Matched(cache, name) == {i \in DOMAIN cache : name = NoName \/ cache[i].name = name}

Better(cache, name, i) == {j \in Matched(cache, name) : Precedes(cache, j, i)}

\* The ids of the devices to try, best first: the k-th has k - 1 better ones.
candidates(cache, name) ==
    [k \in 1..Cardinality(Matched(cache, name)) |->
        cache[CHOOSE i \in Matched(cache, name) :
                 Cardinality(Better(cache, name, i)) = k - 1].id]
=============================================================================
