------------------------- MODULE DeviceResolveProofs -------------------------
(***************************************************************************)
(* TLAPS proofs about DeviceResolve, for every set of devices, cache,      *)
(* combination of options and order in which advertisements, names and the *)
(* end of the window arrive.                                               *)
(*                                                                         *)
(* The argument: what device_properties reads, where it can read at all,   *)
(* is never less than what was known when the window closed and never      *)
(* anything but what the device advertises; it reads the devices in the    *)
(* order of the scan; and only devices the scan was for are in it.         *)
(***************************************************************************)
EXTENDS DeviceResolve, QueueFacts

NameOrNone == Name \cup {NoName}

Discovered == [id : Device, name : NameOrNone]

TypeInv ==
    /\ opts \in Options /\ cache \in Caches
    /\ phase \in {"starting", "listening", "naming", "retrieving", "chosen", "failed",
                 "listed"}
    /\ shown \in [Device -> NameOrNone] /\ atClose \in [Device -> NameOrNone]
    /\ events \in Seq(Device) /\ order \in Seq(Device)
    /\ discovered \in Seq(Discovered)

\* CoreBluetooth knows a device's name or not yet, and does not forget it.
NamesComeIn ==
    \A d \in Device :
        /\ shown[d] \in {NoName, NameOf[d]} /\ atClose[d] \in {NoName, NameOf[d]}
        /\ atClose[d] # NoName => shown[d] = atClose[d]

\* The scan's filter lets no other device through.
OnlyFiltered == \A d \in Ids(order) \cup Ids(events) : PassesFilter(d)

\* device_properties reads after the window, in the order of the scan.
ReadsInOrder ==
    /\ Len(discovered) <= Len(order)
    /\ \A i \in DOMAIN discovered :
          LET d == order[i] IN
          /\ discovered[i].id = d
          /\ discovered[i].name \in {NoName, NameOf[d]}
          /\ d \notin unread /\ atClose[d] # NoName => discovered[i].name = atClose[d]
    /\ phase \in {"starting", "listening"} => discovered = <<>>

NoneYet ==
    /\ phase \in {"starting", "listening", "naming", "listed"} => chosen = {}
    /\ phase = "starting" => order = <<>>
    /\ phase = "retrieving" => chosen # {}

ResolveInv ==
    /\ TypeInv /\ NamesComeIn /\ OnlyFiltered /\ ReadsInOrder /\ NoneYet
    /\ PreferredWins /\ UnknownOnlyFiltered /\ FindsWhatItSaw

LEMMA ParameterTypes ==
    /\ NoName \notin Name /\ NoId \notin Device
    /\ NameOf \in [Device -> Name]
    /\ Caches \subseteq Seq(CachedDevice)
    /\ \A o \in Options : /\ o.listing \in BOOLEAN /\ o.id \in Device \cup {NoId}
                          /\ o.name \in NameOrNone /\ o.all_devices \in BOOLEAN
                          /\ o.use_cache \in BOOLEAN
BY NameAssumption, ResolveAssumption DEF NameOrNone

-----------------------------------------------------------------------------
(* The operators.                                                          *)

\* The places of the candidates are the first numbers.
LEMMA RankedPlaces ==
    ASSUME cache \in Seq(CachedDevice)
    PROVE  /\ \E n \in Nat : DOMAIN ranked = 1..n
           /\ ranked # <<>> => 1 \in DOMAIN ranked
<1>. DEFINE M == Matched(cache, opts.name)
<1>1. IsFiniteSet(M)
  <2>1. Len(cache) \in Nat /\ DOMAIN cache = 1..Len(cache)
    BY LenProperties
  <2>2. IsFiniteSet(1..Len(cache)) /\ M \in SUBSET (1..Len(cache))
    BY <2>1, FS_Interval DEF Matched
  <2>. HIDE DEF M
  <2>. QED  BY <2>2, FS_Subset
<1>. HIDE DEF M
<1>2. PICK n \in Nat : n = Cardinality(M)
  BY <1>1, FS_CardinalityType
<1>3. CASE opts.use_cache
  <2>. DEFINE S == {ranked[k] : k \in 1..n}
  <2>1. DOMAIN ranked = 1..n /\ ranked \in [1..n -> S]
    <3>1. ranked = candidates(cache, opts.name)
      BY <1>3 DEF ranked
    <3>2. DOMAIN candidates(cache, opts.name) = 1..n
      BY <1>2 DEF candidates, M
    <3>3. candidates(cache, opts.name) = [k \in 1..n |-> candidates(cache, opts.name)[k]]
      BY <1>2 DEF candidates, M
    <3>. QED  BY <3>1, <3>2, <3>3
  <2>2. n # 0 \/ ranked = <<>>
    <3>. HIDE DEF S
    <3>1. ranked \in Seq(S) /\ Len(ranked) = n
      BY <2>1, SeqDef, LenProperties
    <3>. QED  BY <3>1, EmptySeq
  <2>. QED  BY <2>1, <2>2
<1>4. CASE ~opts.use_cache
  <2>1. ranked = <<>>
    BY <1>4 DEF ranked
  <2>2. DOMAIN ranked = 1..0
    BY <2>1, EmptySeq
  <2>. QED  BY <2>1, <2>2
<1>. QED  BY <1>3, <1>4

\* The first device discovered among those at some places is at one of them.
LEMMA FirstIsHit ==
    ASSUME NEW hits, hits \subseteq DOMAIN discovered, discovered \in Seq(Discovered)
    PROVE  IF hits = {} THEN First(hits) = {}
           ELSE \E i \in hits : First(hits) = {discovered[i].id}
<1>1. DOMAIN discovered \subseteq Nat
  BY LenProperties
<1>2. CASE hits # {}
  <2>1. \E i \in hits : \A j \in hits : i <= j
    BY <1>1, <1>2, LeastNumber
  <2>2. PICK i \in hits : i = CHOOSE k \in hits : \A j \in hits : k <= j
    BY <2>1
  <2>. QED  BY <1>2, <2>2 DEF First
<1>. QED  BY <1>2 DEF First

\* The best-ranked device discovered is a candidate, and the best candidate if
\* that one was seen.
LEMMA BestIsSeen ==
    ASSUME cache \in Seq(CachedDevice)
    PROVE  /\ BestCached = {} <=> Ids(order) \cap Ids(ranked) = {}
           /\ BestCached # {} => \E r \in DOMAIN ranked : BestCached = {ranked[r]}
           /\ ranked # <<>> /\ ranked[1] \in Ids(order) => BestCached = {ranked[1]}
<1>. DEFINE seen == {r \in DOMAIN ranked : ranked[r] \in Ids(order)}
            best == CHOOSE r \in seen : \A s \in seen : r <= s
<1>1. PICK n \in Nat : DOMAIN ranked = 1..n
  BY RankedPlaces
<1>2. BestCached = IF seen = {} THEN {} ELSE {ranked[best]}
  BY DEF BestCached
<1>3. seen = {} <=> Ids(order) \cap Ids(ranked) = {}
  BY DEF Ids
<1>4. ASSUME seen # {}
      PROVE  best \in seen /\ \A s \in seen : best <= s
  <2>1. seen \subseteq Nat
    BY <1>1
  <2>. HIDE DEF seen
  <2>2. \E r \in seen : \A s \in seen : r <= s
    BY <1>4, <2>1, LeastNumber
  <2>. QED  BY <2>2
<1>5. ASSUME ranked # <<>>, ranked[1] \in Ids(order)
      PROVE  seen # {} /\ best = 1
  <2>1. 1 \in seen
    BY <1>5, RankedPlaces
  <2>2. best \in 1..n /\ best <= 1
    BY <1>1, <1>4, <2>1
  <2>. QED  BY <2>1, <2>2
<1>. HIDE DEF best
<1>6. seen # {} => best \in DOMAIN ranked
  BY <1>4
<1>. HIDE DEF seen
<1>. QED  BY <1>2, <1>3, <1>5, <1>6

-----------------------------------------------------------------------------
(* The initial states, and the steps in which no device is chosen.         *)

LEMMA ResolveInit == Init => ResolveInv
<1>. SUFFICES ASSUME Init PROVE ResolveInv
  OBVIOUS
<1>1. /\ <<>> \in Seq(Device) /\ <<>> \in Seq(Discovered)
      /\ Len(<<>>) = 0 /\ DOMAIN <<>> = {} /\ Ids(<<>>) = {}
  BY EmptySeq DEF Ids
<1>2. /\ opts \in Options /\ cache \in Caches /\ phase = "starting"
      /\ shown = [d \in Device |-> NoName] /\ atClose = shown
      /\ events = <<>> /\ order = <<>> /\ discovered = <<>> /\ chosen = {}
  BY DEF Init
<1>3. TypeInv
  BY <1>1, <1>2 DEF TypeInv, NameOrNone
<1>4. NamesComeIn /\ OnlyFiltered /\ ReadsInOrder /\ NoneYet
  BY <1>1, <1>2 DEF NamesComeIn, OnlyFiltered, ReadsInOrder, NoneYet
<1>5. PreferredWins /\ UnknownOnlyFiltered /\ FindsWhatItSaw
  BY <1>2 DEF PreferredWins, UnknownOnlyFiltered, FindsWhatItSaw
<1>. QED  BY <1>3, <1>4, <1>5 DEF ResolveInv

\* The ids in a queue that grows, or loses its head.
LEMMA IdsOfQueues ==
    ASSUME NEW q \in Seq(Device), NEW d \in Device
    PROVE  /\ Append(q, d) \in Seq(Device) /\ Ids(Append(q, d)) = Ids(q) \cup {d}
           /\ q # <<>> => /\ Tail(q) \in Seq(Device) /\ Ids(Tail(q)) \subseteq Ids(q)
                          /\ Head(q) \in Ids(q) /\ Head(q) \in Device
<1>1. Len(q) \in Nat /\ DOMAIN q = 1..Len(q) /\ \A i \in 1..Len(q) : q[i] \in Device
  BY LenProperties, ElementOfSeq
<1>2. Append(q, d) \in Seq(Device) /\ Ids(Append(q, d)) = Ids(q) \cup {d}
  <2>1. /\ Append(q, d) \in Seq(Device)
        /\ DOMAIN Append(q, d) = 1..(Len(q) + 1)
        /\ \A i \in 1..Len(q) : Append(q, d)[i] = q[i]
        /\ Append(q, d)[Len(q) + 1] = d
    BY <1>1, AppendProperties
  <2>2. 1..(Len(q) + 1) = (1..Len(q)) \cup {Len(q) + 1}
    BY <1>1
  <2>3. \A x \in Ids(Append(q, d)) : x \in Ids(q) \cup {d}
    BY <1>1, <2>1, <2>2 DEF Ids
  <2>4. \A x \in Ids(q) \cup {d} : x \in Ids(Append(q, d))
    BY <1>1, <2>1, <2>2 DEF Ids
  <2>. QED  BY <2>1, <2>3, <2>4
<1>3. ASSUME q # <<>>
      PROVE  /\ Tail(q) \in Seq(Device) /\ Ids(Tail(q)) \subseteq Ids(q)
             /\ Head(q) \in Ids(q) /\ Head(q) \in Device
  <2>1. /\ Tail(q) \in Seq(Device) /\ Len(q) \in Nat \ {0} /\ Len(Tail(q)) = Len(q) - 1
        /\ \A i \in 1..Len(Tail(q)) : Tail(q)[i] = q[i + 1]
        /\ Head(q) = q[1] /\ Head(q) \in Device
    BY <1>3, TailKeeps
  <2>2. DOMAIN Tail(q) = 1..Len(Tail(q))
    BY <2>1, LenProperties
  <2>3. \A i \in 1..Len(Tail(q)) : i + 1 \in 1..Len(q)
    BY <2>1
  <2>4. 1 \in 1..Len(q)
    BY <2>1
  <2>. QED  BY <1>1, <2>1, <2>2, <2>3, <2>4 DEF Ids
<1>. QED  BY <1>2, <1>3

\* What was chosen stays right while the scan and the names go on.
LEMMA ChoiceStays ==
    ASSUME ResolveInv, UNCHANGED <<opts, cache, phase, order, discovered, chosen, atClose, unread>>
    PROVE  PreferredWins' /\ UnknownOnlyFiltered' /\ FindsWhatItSaw'
<1>1. ranked' = ranked
  BY DEF ranked
<1>. QED  BY <1>1 DEF ResolveInv, PreferredWins, UnknownOnlyFiltered, Known, FindsWhatItSaw

LEMMA AdvertiseKeeps ==
    ASSUME ResolveInv, NEW d \in Device, Advertise(d)
    PROVE  ResolveInv'
<1>1. /\ UNCHANGED <<opts, cache, phase, shown, order, discovered, chosen, atClose, unread>>
      /\ PassesFilter(d)
      /\ events' = events \/ events' = Append(events, d)
  BY DEF Advertise, input
<1>2. events \in Seq(Device)
  BY DEF ResolveInv, TypeInv
<1>3. events' \in Seq(Device) /\ Ids(events') \subseteq Ids(events) \cup {d}
  <2>1. Append(events, d) \in Seq(Device) /\ Ids(Append(events, d)) = Ids(events) \cup {d}
    BY <1>2, IdsOfQueues
  <2>2. CASE events' = events
    BY <1>2, <2>2
  <2>3. CASE events' = Append(events, d)
    BY <2>1, <2>3
  <2>. QED  BY <1>1, <2>2, <2>3
<1>4. TypeInv'
  BY <1>1, <1>3 DEF ResolveInv, TypeInv
<1>5. OnlyFiltered'
  BY <1>1, <1>3 DEF ResolveInv, OnlyFiltered, PassesFilter
<1>6. NamesComeIn' /\ ReadsInOrder' /\ NoneYet'
  BY <1>1 DEF ResolveInv, NamesComeIn, ReadsInOrder, NoneYet
<1>. QED  BY <1>1, <1>4, <1>5, <1>6, ChoiceStays DEF ResolveInv

LEMMA LearnNameKeeps ==
    ASSUME ResolveInv, NEW d \in Device, LearnName(d)
    PROVE  ResolveInv'
<1>1. /\ UNCHANGED <<opts, cache, phase, events, order, discovered, chosen, atClose, unread>>
      /\ shown[d] = NoName /\ shown' = [shown EXCEPT ![d] = NameOf[d]]
  BY DEF LearnName, input
<1>2. /\ NameOf[d] \in NameOrNone
      /\ shown \in [Device -> NameOrNone]
  BY ParameterTypes DEF ResolveInv, TypeInv, NameOrNone
<1>3. TypeInv'
  BY <1>1, <1>2 DEF ResolveInv, TypeInv
<1>4. NamesComeIn'
  BY <1>1, <1>2 DEF ResolveInv, NamesComeIn
<1>5. OnlyFiltered' /\ ReadsInOrder' /\ NoneYet'
  BY <1>1 DEF ResolveInv, OnlyFiltered, PassesFilter, ReadsInOrder, NoneYet
<1>. QED  BY <1>1, <1>3, <1>4, <1>5, ChoiceStays DEF ResolveInv

\* Subscribe, WindowCloses and List only move on, or fail with nothing seen.
LEMMA MovesOnKeeps ==
    ASSUME ResolveInv, Subscribe \/ WindowCloses \/ List
    PROVE  ResolveInv'
<1>1. /\ UNCHANGED <<opts, cache, shown, events, order, discovered, chosen, unread>>
      /\ phase' \in {"listening", "naming", "listed", "failed"}
      /\ phase \in {"starting", "listening", "naming"}
      /\ phase = "naming" => phase' = "listed"
      /\ phase' = "failed" => phase = "starting"
  BY DEF Subscribe, WindowCloses, List, input
<1>2. atClose' = atClose \/ (phase = "listening" /\ phase' = "naming" /\ atClose' = shown)
  BY DEF Subscribe, WindowCloses, List, input
<1>3. TypeInv' /\ NamesComeIn'
  BY <1>1, <1>2 DEF ResolveInv, TypeInv, NamesComeIn
<1>4. OnlyFiltered' /\ NoneYet'
  BY <1>1 DEF ResolveInv, OnlyFiltered, PassesFilter, NoneYet
<1>5. ReadsInOrder'
  <2>1. CASE atClose' = atClose
    BY <1>1, <2>1 DEF ResolveInv, ReadsInOrder
  <2>2. CASE phase = "listening"
    <3>1. discovered = <<>> /\ DOMAIN discovered = {} /\ Len(discovered) <= Len(order)
      BY <2>2, EmptySeq DEF ResolveInv, ReadsInOrder
    <3>. QED  BY <1>1, <3>1 DEF ReadsInOrder
  <2>. QED  BY <1>2, <2>1, <2>2
<1>6. PreferredWins' /\ UnknownOnlyFiltered' /\ FindsWhatItSaw'
  <2>1. chosen' = {} /\ (phase' = "failed" => order' = <<>>)
    BY <1>1 DEF ResolveInv, NoneYet
  <2>2. Ids(<<>>) = {}
    BY EmptySeq DEF Ids
  <2>. QED  BY <2>1, <2>2 DEF PreferredWins, UnknownOnlyFiltered, FindsWhatItSaw
<1>. QED  BY <1>3, <1>4, <1>5, <1>6 DEF ResolveInv

LEMMA ReadKeeps ==
    ASSUME ResolveInv, device_properties
    PROVE  ResolveInv'
<1>. DEFINE k == Len(discovered) + 1
<1>0. PICK read \in NameRead(order[k]) :
         /\ discovered' = Append(discovered, [id |-> order[k], name |-> read.name])
         /\ unread' = IF read.ok THEN unread ELSE unread \cup {order[k]}
  BY DEF device_properties
<1>. DEFINE new == [id |-> order[k], name |-> read.name]
<1>1. /\ UNCHANGED <<opts, cache, phase, shown, events, order, chosen, atClose>>
      /\ phase = "naming" /\ Len(discovered) < Len(order)
      /\ discovered' = Append(discovered, new)
  BY <1>0 DEF device_properties, input
<1>2. /\ order \in Seq(Device) /\ discovered \in Seq(Discovered)
      /\ shown \in [Device -> NameOrNone]
      /\ Len(order) \in Nat /\ Len(discovered) \in Nat
  BY LenProperties DEF ResolveInv, TypeInv
<1>3. order[k] \in Device /\ new \in Discovered
  <2>1. k \in 1..Len(order)
    BY <1>1, <1>2
  <2>2. order[k] \in Device
    BY <1>2, <2>1, ElementOfSeq
  <2>3. read.name \in NameOrNone
    BY <1>2, <2>2 DEF NameRead, NameOrNone
  <2>. QED  BY <2>2, <2>3 DEF Discovered
<1>4. /\ new.id = order[k] /\ new.name \in {NoName, shown[order[k]]}
      /\ new.name = shown[order[k]] \/ order[k] \in unread'
      /\ unread \subseteq unread'
  BY <1>0 DEF NameRead
<1>. HIDE DEF new
<1>5. /\ discovered' \in Seq(Discovered)
      /\ Len(discovered') = k /\ DOMAIN discovered' = 1..k
      /\ DOMAIN discovered = 1..Len(discovered)
      /\ \A i \in 1..Len(discovered) : discovered'[i] = discovered[i]
      /\ discovered'[k] = new
  BY <1>1, <1>2, <1>3, AppendProperties, LenProperties
<1>6. TypeInv'
  BY <1>1, <1>5 DEF ResolveInv, TypeInv
<1>7. NamesComeIn' /\ OnlyFiltered' /\ NoneYet'
  BY <1>1 DEF ResolveInv, NamesComeIn, OnlyFiltered, PassesFilter, NoneYet
<1>8. ReadsInOrder'
  <2>1. ASSUME NEW i \in 1..k
        PROVE  /\ discovered'[i].id = order[i]
               /\ discovered'[i].name \in {NoName, NameOf[order[i]]}
               /\ order[i] \notin unread' /\ atClose[order[i]] # NoName =>
                     discovered'[i].name = atClose[order[i]]
    <3>1. CASE i = k
      BY <1>3, <1>4, <1>5, <3>1 DEF ResolveInv, NamesComeIn
    <3>2. CASE i \in 1..Len(discovered)
      BY <1>4, <1>5, <3>2 DEF ResolveInv, ReadsInOrder
    <3>. QED  BY <1>2, <3>1, <3>2
  <2>2. Len(discovered') <= Len(order)
    BY <1>1, <1>2, <1>5
  <2>. QED  BY <1>1, <1>5, <2>1, <2>2 DEF ReadsInOrder
<1>9. PreferredWins' /\ UnknownOnlyFiltered' /\ FindsWhatItSaw'
  <2>1. chosen' = {} /\ phase' = "naming"
    BY <1>1 DEF ResolveInv, NoneYet
  <2>. QED  BY <2>1 DEF PreferredWins, UnknownOnlyFiltered, FindsWhatItSaw
<1>. QED  BY <1>6, <1>7, <1>8, <1>9 DEF ResolveInv

-----------------------------------------------------------------------------
(* The steps in which a device is chosen.                                  *)

\* On an event: the preferred device and no other, at once.
LEMMA TakeEventKeeps ==
    ASSUME ResolveInv, TakeEvent
    PROVE  ResolveInv'
<1>. DEFINE d == Head(events)
<1>0. PICK read \in NameRead(d) :
         IF Preferred(d, read.name) THEN phase' = "retrieving" /\ chosen' = {d}
                                    ELSE UNCHANGED <<phase, chosen>>
  BY DEF TakeEvent
<1>1. /\ UNCHANGED <<opts, cache, shown, discovered, atClose, unread>>
      /\ phase = "listening" /\ events # <<>> /\ events' = Tail(events)
      /\ order' = order \/ order' = Append(order, d)
      /\ \/ Preferred(d, read.name) /\ phase' = "retrieving" /\ chosen' = {d}
         \/ phase' = phase /\ chosen' = chosen
  BY <1>0 DEF TakeEvent, input
<1>12. read.name \in {NoName, shown[d]}
  BY <1>0 DEF NameRead
<1>2. events \in Seq(Device) /\ order \in Seq(Device) /\ cache \in Seq(CachedDevice)
  BY ParameterTypes DEF ResolveInv, TypeInv
<1>3. d \in Device /\ d \in Ids(events)
  BY <1>1, <1>2, IdsOfQueues
<1>4. events' \in Seq(Device) /\ Ids(events') \subseteq Ids(events)
  BY <1>1, <1>2, <1>3, IdsOfQueues
<1>. HIDE DEF d
<1>5. order' \in Seq(Device) /\ Ids(order') \subseteq Ids(order) \cup {d}
  <2>1. Append(order, d) \in Seq(Device) /\ Ids(Append(order, d)) = Ids(order) \cup {d}
    BY <1>2, <1>3, IdsOfQueues
  <2>2. CASE order' = order
    BY <1>2, <2>2
  <2>3. CASE order' = Append(order, d)
    BY <2>1, <2>3
  <2>. QED  BY <1>1, <2>2, <2>3
<1>6. TypeInv'
  BY <1>1, <1>4, <1>5 DEF ResolveInv, TypeInv
<1>7. OnlyFiltered'
  BY <1>1, <1>3, <1>4, <1>5 DEF ResolveInv, OnlyFiltered, PassesFilter
<1>8. NamesComeIn'
  BY <1>1 DEF ResolveInv, NamesComeIn
<1>9. ReadsInOrder'
  <2>1. discovered = <<>> /\ DOMAIN discovered = {} /\ Len(discovered) = 0
    BY <1>1, EmptySeq DEF ResolveInv, ReadsInOrder
  <2>2. Len(order') \in Nat
    BY <1>5, LenProperties
  <2>. QED  BY <1>1, <2>1, <2>2 DEF ReadsInOrder
<1>10. CASE Preferred(d, read.name) /\ phase' = "retrieving" /\ chosen' = {d}
  <2>1. NoneYet' /\ FindsWhatItSaw'
    BY <1>10 DEF NoneYet, FindsWhatItSaw
  <2>2. ranked' = ranked
    BY <1>1 DEF ranked
  <2>3. \/ opts.id # NoId /\ d = opts.id
        \/ opts.id = NoId /\ opts.name # NoName /\ read.name = opts.name
        \/ opts.id = NoId /\ opts.name = NoName /\ ranked # <<>> /\ d = ranked[1]
    BY <1>10 DEF Preferred
  <2>4. PreferredWins'
    BY <1>1, <1>10, <2>2, <2>3 DEF PreferredWins
  <2>5. d = ranked[1] /\ ranked # <<>> => d \in Ids(ranked)
    BY <1>2, RankedPlaces DEF Ids
  <2>6. read.name # NoName => NameOf[d] = read.name
    BY <1>3, <1>12 DEF ResolveInv, NamesComeIn
  <2>7. UnknownOnlyFiltered'
    BY <1>1, <1>10, <2>2, <2>3, <2>5, <2>6 DEF UnknownOnlyFiltered, Known
  <2>. QED  BY <1>6, <1>7, <1>8, <1>9, <2>1, <2>4, <2>7 DEF ResolveInv
<1>11. CASE phase' = phase /\ chosen' = chosen
  <2>1. chosen' = {} /\ phase' = "listening" /\ phase = "listening"
    BY <1>1, <1>11 DEF ResolveInv, NoneYet
  <2>2. NoneYet' /\ PreferredWins' /\ UnknownOnlyFiltered' /\ FindsWhatItSaw'
    BY <2>1 DEF NoneYet, PreferredWins, UnknownOnlyFiltered, FindsWhatItSaw
  <2>. QED  BY <1>6, <1>7, <1>8, <1>9, <2>2 DEF ResolveInv
<1>. QED  BY <1>1, <1>10, <1>11

\* When all devices seen have been read, each place of the scan is a device
\* discovered.
LEMMA AllRead ==
    ASSUME ResolveInv, Len(discovered) = Len(order)
    PROVE  /\ \A d \in Ids(order) : \E i \in DOMAIN discovered :
                 discovered[i].id = d /\ order[i] = d
           /\ \A i \in DOMAIN discovered : order[i] \in Ids(order) /\ order[i] \in Device
<1>1. /\ DOMAIN order = 1..Len(order) /\ DOMAIN discovered = 1..Len(discovered)
      /\ \A i \in DOMAIN order : order[i] \in Device
  BY LenProperties, ElementOfSeq DEF ResolveInv, TypeInv
<1>. QED  BY <1>1 DEF ResolveInv, ReadsInOrder, Ids

\* After the window: by id, by name, the best cached device or the first.
LEMMA SelectKeeps ==
    ASSUME ResolveInv, Select
    PROVE  ResolveInv'
<1>. DEFINE found == select_after_scan
<1>1. /\ UNCHANGED <<opts, cache, shown, events, order, discovered, atClose, unread>>
      /\ Len(discovered) = Len(order) /\ phase = "naming"
      /\ chosen' = found /\ phase' = IF found = {} THEN "failed" ELSE "retrieving"
  BY DEF Select, input
<1>2. /\ discovered \in Seq(Discovered) /\ cache \in Seq(CachedDevice)
      /\ opts.id \in Device \cup {NoId} /\ NoId \notin Device
      /\ Ids(order) \subseteq Device
  <2>1. /\ opts \in Options /\ cache \in Caches /\ discovered \in Seq(Discovered)
        /\ order \in Seq(Device)
    BY DEF ResolveInv, TypeInv
  <2>2. Ids(order) \subseteq Device
    BY <2>1, LenProperties, ElementOfSeq DEF Ids
  <2>. QED  BY <2>1, <2>2, ParameterTypes
<1>3. \A i \in DOMAIN discovered :
         /\ order[i] \in Ids(order) /\ order[i] \in Device /\ discovered[i].id = order[i]
         /\ discovered[i].name \in {NoName, NameOf[order[i]]}
         /\ order[i] \notin unread /\ atClose[order[i]] # NoName =>
               discovered[i].name = atClose[order[i]]
  BY <1>1, AllRead DEF ResolveInv, ReadsInOrder
<1>4. \A d \in Ids(order) : \E i \in DOMAIN discovered : discovered[i].id = d /\ order[i] = d
  BY <1>1, AllRead
<1>5. ranked' = ranked
  BY <1>1 DEF ranked
<1>6. TypeInv' /\ NamesComeIn' /\ OnlyFiltered' /\ ReadsInOrder' /\ NoneYet'
  <2>1. TypeInv' /\ NamesComeIn' /\ OnlyFiltered'
    BY <1>1 DEF ResolveInv, TypeInv, NamesComeIn, OnlyFiltered, PassesFilter
  <2>2. ReadsInOrder' /\ NoneYet'
    BY <1>1 DEF ResolveInv, ReadsInOrder, NoneYet
  <2>. QED  BY <2>1, <2>2
<1>7. CASE opts.id # NoId
  <2>1. found = First(WithId)
    BY <1>7 DEF select_after_scan
  <2>2. IF WithId = {} THEN found = {} ELSE found = {opts.id}
    <3>1. WithId \subseteq DOMAIN discovered /\ \A i \in WithId : discovered[i].id = opts.id
      BY DEF WithId
    <3>. QED  BY <1>2, <2>1, <3>1, FirstIsHit
  <2>3. WithId = {} => opts.id \notin Ids(order)
    BY <1>4 DEF WithId
  <2>. HIDE DEF found
  <2>4. UnknownOnlyFiltered'
    BY <1>1, <2>2 DEF UnknownOnlyFiltered, Known
  <2>5. FindsWhatItSaw'
    BY <1>1, <1>7, <2>2, <2>3 DEF FindsWhatItSaw
  <2>6. PreferredWins'
    BY <1>1, <1>7 DEF PreferredWins
  <2>. QED  BY <1>6, <2>4, <2>5, <2>6 DEF ResolveInv
<1>8. CASE opts.id = NoId /\ opts.name # NoName
  <2>1. found = First(WithName)
    BY <1>8 DEF select_after_scan
  <2>2. IF WithName = {} THEN found = {}
        ELSE \E i \in WithName : found = {discovered[i].id}
    <3>1. WithName \subseteq DOMAIN discovered
      BY DEF WithName
    <3>. QED  BY <1>2, <2>1, <3>1, FirstIsHit
  <2>3. \A i \in WithName : NameOf[discovered[i].id] = opts.name
    BY <1>3, <1>8 DEF WithName
  <2>4. WithName = {} => \A d \in Ids(order) :
                           atClose[d] # opts.name \/ d \in unread
    BY <1>3, <1>4, <1>8 DEF WithName
  <2>. HIDE DEF found
  <2>5. UnknownOnlyFiltered'
    BY <1>1, <1>8, <2>2, <2>3 DEF UnknownOnlyFiltered, Known
  <2>6. FindsWhatItSaw'
    BY <1>1, <1>2, <1>8, <2>2, <2>4 DEF FindsWhatItSaw
  <2>7. PreferredWins'
    BY <1>1, <1>8 DEF PreferredWins
  <2>. QED  BY <1>6, <2>5, <2>6, <2>7 DEF ResolveInv
<1>9. CASE opts.id = NoId /\ opts.name = NoName
  <2>1. found = IF BestCached # {} THEN BestCached
                ELSE IF opts.all_devices THEN {} ELSE First(DOMAIN discovered)
    BY <1>9 DEF select_after_scan
  <2>2. /\ BestCached = {} <=> Ids(order) \cap Ids(ranked) = {}
        /\ BestCached # {} => \E r \in DOMAIN ranked : BestCached = {ranked[r]}
        /\ ranked # <<>> /\ ranked[1] \in Ids(order) => BestCached = {ranked[1]}
    BY <1>2, BestIsSeen
  <2>3. IF DOMAIN discovered = {} THEN First(DOMAIN discovered) = {}
        ELSE \E i \in DOMAIN discovered : First(DOMAIN discovered) = {discovered[i].id}
    BY <1>2, FirstIsHit
  <2>4. ~opts.all_devices => \A i \in DOMAIN discovered : discovered[i].id \in SmpDevices
    BY <1>3 DEF ResolveInv, OnlyFiltered, PassesFilter
  <2>5. BestCached # {} => \A d \in BestCached : d \in Ids(ranked)
    BY <2>2 DEF Ids
  <2>. HIDE DEF found
  <2>6. UnknownOnlyFiltered'
    <3>1. CASE BestCached # {}
      BY <1>1, <1>5, <1>9, <2>1, <2>5, <3>1 DEF UnknownOnlyFiltered, Known
    <3>2. CASE BestCached = {}
      BY <1>1, <1>5, <1>9, <2>1, <2>2, <2>3, <2>4, <3>2 DEF UnknownOnlyFiltered, Known
    <3>. QED  BY <3>1, <3>2
  <2>7. FindsWhatItSaw'
    <3>1. found = {} => Ids(order) \cap Ids(ranked) = {}
      BY <2>1, <2>2
    <3>2. ASSUME found = {}, NEW d \in Ids(order)
          PROVE  opts.all_devices
      <4>1. First(DOMAIN discovered) # {}
        BY <1>4, <2>3
      <4>. QED  BY <2>1, <3>2, <4>1
    <3>. QED  BY <1>1, <1>2, <1>5, <1>9, <3>1, <3>2 DEF FindsWhatItSaw
  <2>8. PreferredWins'
    <3>1. ranked # <<>> /\ ranked[1] \in Ids(order) => found = {ranked[1]}
      BY <2>1, <2>2
    <3>. QED  BY <1>1, <1>5, <3>1 DEF PreferredWins
  <2>. QED  BY <1>6, <2>6, <2>7, <2>8 DEF ResolveInv
<1>. QED  BY <1>7, <1>8, <1>9

\* The device chosen does not change when it is retrieved, or is not.
LEMMA RetrieveKeeps ==
    ASSUME ResolveInv, Retrieve
    PROVE  ResolveInv'
<1>1. /\ UNCHANGED <<opts, cache, shown, events, order, discovered, chosen, atClose, unread>>
      /\ phase = "retrieving" /\ phase' \in {"chosen", "failed"}
  BY DEF Retrieve, input
<1>2. ranked' = ranked
  BY <1>1 DEF ranked
<1>3. chosen # {}
  BY <1>1 DEF ResolveInv, NoneYet
<1>4. TypeInv' /\ NamesComeIn' /\ OnlyFiltered'
  BY <1>1 DEF ResolveInv, TypeInv, NamesComeIn, OnlyFiltered, PassesFilter
<1>5. ReadsInOrder' /\ NoneYet'
  BY <1>1 DEF ResolveInv, ReadsInOrder, NoneYet
<1>6. PreferredWins' /\ UnknownOnlyFiltered' /\ FindsWhatItSaw'
  BY <1>1, <1>2, <1>3
     DEF ResolveInv, PreferredWins, UnknownOnlyFiltered, Known, FindsWhatItSaw
<1>. QED  BY <1>4, <1>5, <1>6 DEF ResolveInv

LEMMA ResolveStep == ResolveInv /\ [Next]_vars => ResolveInv'
<1>. SUFFICES ASSUME ResolveInv, [Next]_vars PROVE ResolveInv'
  OBVIOUS
<1>1. CASE Steps
  BY <1>1, MovesOnKeeps, TakeEventKeeps, ReadKeeps, SelectKeeps,
     RetrieveKeeps DEF Steps
<1>2. ASSUME NEW d \in Device, Advertise(d) \/ LearnName(d) PROVE ResolveInv'
  BY <1>2, AdvertiseKeeps, LearnNameKeeps
<1>3. CASE UNCHANGED vars
  <2>1. TypeInv' /\ NamesComeIn' /\ OnlyFiltered' /\ ReadsInOrder' /\ NoneYet'
    BY <1>3 DEF vars, ResolveInv, TypeInv, NamesComeIn, OnlyFiltered, PassesFilter,
                ReadsInOrder, NoneYet
  <2>. QED  BY <1>3, <2>1, ChoiceStays DEF vars, ResolveInv
<1>. QED  BY <1>1, <1>2, <1>3 DEF Next

-----------------------------------------------------------------------------
\* With neither an id nor a name, no lesser device wins by advertising first:
\* another than the preferred one is chosen only after a window without it
\* (the early exit and best_cached of resolve_peripheral).
THEOREM PreferredDeviceWins == Spec => []PreferredWins
<1>1. ResolveInv => PreferredWins
  BY DEF ResolveInv
<1>. QED  BY <1>1, ResolveInit, ResolveStep, PTL DEF Spec

\* A device neither asked for, by id or by name, nor in the cache is chosen only
\* by a scan for SMP devices that saw no device of the cache (the last resort of
\* select_after_scan).
THEOREM UnknownIsFiltered == Spec => []UnknownOnlyFiltered
<1>1. ResolveInv => UnknownOnlyFiltered
  BY DEF ResolveInv
<1>. QED  BY <1>1, ResolveInit, ResolveStep, PTL DEF Spec

\* The command fails without a device only when nothing that was asked for was
\* seen, or the name of what was asked for could not be read.
THEOREM FailureSawNothing == Spec => []FindsWhatItSaw
<1>1. ResolveInv => FindsWhatItSaw
  BY DEF ResolveInv
<1>. QED  BY <1>1, ResolveInit, ResolveStep, PTL DEF Spec
=============================================================================
