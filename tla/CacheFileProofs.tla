--------------------------- MODULE CacheFileProofs ---------------------------
(***************************************************************************)
(* TLAPS proofs about CacheFile, for every number of invocations, devices, *)
(* connections and kills.                                                  *)
(*                                                                         *)
(* What holds however invocations overlap and die (one record per device,  *)
(* no count above the history) is inductive with the types, since every    *)
(* file and every copy comes from a file by record_success.  What holds    *)
(* while they run one after the other is not: between truncate and write   *)
(* the history is in no file at all.  AloneInv says where it is instead.   *)
(* Of an exact cache the sort puts a device with the most connections      *)
(* first, as what `candidates` counts is a strict total order.             *)
(***************************************************************************)
EXTENDS CacheFile, QueueFacts

\* What a connection may know of the device's name.
NameOrNone == Name \cup {NoName}

Once(c) == \A i, j \in DOMAIN c : c[i].id = c[j].id => i = j

LEMMA ParameterTypes ==
    /\ NameOf \in [Device -> Name]
    /\ NoName \notin Name /\ Device # {} /\ Missing # Torn
    /\ Missing \notin Seq(CachedDevice) /\ Torn \notin Seq(CachedDevice)
    /\ MaxKills \in Nat /\ MaxConnects \in Nat
BY NameAssumption, FileAssumption

-----------------------------------------------------------------------------
(* The bookkeeping.                                                        *)

\* What a cache says of a device it has one record of, or none.
LEMMA CountOf ==
    ASSUME NEW c, NEW id, Once(c)
    PROVE  /\ \A i \in DOMAIN c : c[i].id = id => connect_count(c, id) = c[i].connect_count
           /\ id \notin KnownIds(c) => connect_count(c, id) = 0
<1>1. ASSUME NEW i \in DOMAIN c, c[i].id = id
      PROVE  connect_count(c, id) = c[i].connect_count
  <2>1. id \in KnownIds(c)
    BY <1>1 DEF KnownIds
  <2>. DEFINE k == CHOOSE j \in DOMAIN c : c[j].id = id
  <2>2. k \in DOMAIN c /\ c[k].id = id
    BY <1>1
  <2>3. k = i
    BY <1>1, <2>2 DEF Once
  <2>. QED  BY <2>1, <2>3 DEF connect_count
<1>. QED  BY <1>1 DEF connect_count

LEMMA CountType ==
    ASSUME NEW c \in Seq(CachedDevice), NEW id, Once(c)
    PROVE  connect_count(c, id) \in Nat
<1>1. CASE id \in KnownIds(c)
  <2>1. PICK i \in DOMAIN c : c[i].id = id
    BY <1>1 DEF KnownIds
  <2>2. connect_count(c, id) = c[i].connect_count /\ c[i] \in CachedDevice
    BY <2>1, CountOf
  <2>. QED  BY <2>2 DEF CachedDevice
<1>2. CASE id \notin KnownIds(c)
  BY <1>2, CountOf
<1>. QED  BY <1>1, <1>2

\* An empty cache knows nothing.
LEMMA EmptyCache ==
    /\ <<>> \in Seq(CachedDevice)
    /\ Once(<<>>)
    /\ KnownIds(<<>>) = {}
    /\ \A d : connect_count(<<>>, d) = 0
BY EmptySeq DEF Once, KnownIds, connect_count

\* record_success counts one connection, of the device it is told, and leaves
\* what the cache says of every other as it was.
LEMMA RecordCounts ==
    ASSUME NEW c \in Seq(CachedDevice), Once(c), NEW id \in Device,
           NEW name \in NameOrNone, NEW now \in Nat,
           NEW r, r = record_success(c, id, name, now)
    PROVE  /\ r \in Seq(CachedDevice)
           /\ Once(r)
           /\ id \in KnownIds(r) /\ KnownIds(c) \subseteq KnownIds(r)
           /\ connect_count(r, id) = connect_count(c, id) + 1
           /\ \A d : d # id => connect_count(r, d) = connect_count(c, d)
<1>1. /\ Len(c) \in Nat /\ DOMAIN c = 1..Len(c)
      /\ \A i \in DOMAIN c : c[i] \in CachedDevice
  BY LenProperties, ElementOfSeq
<1>2. /\ r \in Seq(CachedDevice)
      /\ Once(r)
      /\ \A d \in KnownIds(r) : d = id \/ d \in KnownIds(c)
      /\ \E i \in DOMAIN r : r[i].id = id
                             /\ r[i].connect_count = connect_count(c, id) + 1
      /\ \A i \in DOMAIN c : c[i].id # id =>
            \E j \in DOMAIN r : r[j].id = c[i].id
                                /\ r[j].connect_count = c[i].connect_count
  <2>1. CASE id \in KnownIds(c)
    <3>. DEFINE up(e) == [id |-> id, name |-> IF name = NoName THEN e.name ELSE name,
                           connect_count |-> e.connect_count + 1, last_connected |-> now]
    <3>1. r = [i \in DOMAIN c |-> IF c[i].id # id THEN c[i] ELSE up(c[i])]
      BY <2>1 DEF record_success
    <3>2. ASSUME NEW e \in CachedDevice
          PROVE  /\ up(e) \in CachedDevice /\ up(e).id = id
                 /\ up(e).connect_count = e.connect_count + 1
      <4>1. e.name \in NameOrNone /\ e.connect_count \in Nat
        BY DEF CachedDevice, NameOrNone
      <4>. QED  BY <4>1 DEF CachedDevice, NameOrNone
    <3>. HIDE DEF up
    <3>3. /\ DOMAIN r = DOMAIN c
          /\ \A i \in DOMAIN c : /\ r[i] \in CachedDevice /\ r[i].id = c[i].id
                                 /\ c[i].id # id => r[i] = c[i]
                                 /\ c[i].id = id =>
                                       r[i].connect_count = c[i].connect_count + 1
      BY <1>1, <3>1, <3>2
    <3>4. r \in Seq(CachedDevice)
      <4>1. r \in [1..Len(c) -> CachedDevice]
        BY <1>1, <3>1, <3>2
      <4>. QED  BY <1>1, <4>1, SeqDef
    <3>5. PICK i \in DOMAIN c : c[i].id = id
      BY <2>1 DEF KnownIds
    <3>6. connect_count(c, id) = c[i].connect_count
      BY <3>5, CountOf
    <3>7. \E k \in DOMAIN r : r[k].id = id
                              /\ r[k].connect_count = connect_count(c, id) + 1
      BY <3>3, <3>5, <3>6
    <3>. QED  BY <3>3, <3>4, <3>7 DEF Once, KnownIds
  <2>2. CASE id \notin KnownIds(c)
    <3>. DEFINE new == [id |-> id, name |-> name, connect_count |-> 1,
                        last_connected |-> now]
    <3>1. r = Append(c, new)
      BY <2>2 DEF record_success
    <3>2. new \in CachedDevice /\ new.id = id /\ new.connect_count = 1
      BY DEF CachedDevice, NameOrNone
    <3>. HIDE DEF new
    <3>3. /\ r \in Seq(CachedDevice)
          /\ DOMAIN r = 1..(Len(c) + 1)
          /\ \A i \in 1..Len(c) : r[i] = c[i]
          /\ r[Len(c) + 1] = new
      BY <1>1, <3>1, <3>2, AppendProperties
    <3>4. \A i \in DOMAIN c : c[i].id # id
      BY <2>2 DEF KnownIds
    <3>5. connect_count(c, id) = 0
      BY <2>2, CountOf
    <3>6. Once(r)
      BY <1>1, <3>2, <3>3, <3>4 DEF Once
    <3>7. Len(c) + 1 \in DOMAIN r
      BY <1>1, <3>3
    <3>. QED  BY <1>1, <3>2, <3>3, <3>5, <3>6, <3>7 DEF KnownIds
  <2>. QED  BY <2>1, <2>2
<1>3. KnownIds(r) = KnownIds(c) \cup {id}
  <2>1. ASSUME NEW d \in KnownIds(c)
        PROVE  d = id \/ d \in KnownIds(r)
    <3>1. PICK i \in DOMAIN c : c[i].id = d
      BY <2>1 DEF KnownIds
    <3>. QED  BY <1>2, <3>1 DEF KnownIds
  <2>2. id \in KnownIds(r)
    BY <1>2 DEF KnownIds
  <2>. QED  BY <1>2, <2>1, <2>2
<1>4. connect_count(r, id) = connect_count(c, id) + 1
  BY <1>2, CountOf
<1>5. ASSUME NEW d, d # id
      PROVE  connect_count(r, d) = connect_count(c, d)
  <2>1. CASE d \in KnownIds(c)
    <3>1. PICK i \in DOMAIN c : c[i].id = d
      BY <2>1 DEF KnownIds
    <3>2. PICK j \in DOMAIN r : r[j].id = d /\ r[j].connect_count = c[i].connect_count
      BY <1>2, <1>5, <3>1
    <3>3. connect_count(r, d) = r[j].connect_count /\ connect_count(c, d) = c[i].connect_count
      BY <1>2, <3>1, <3>2, CountOf
    <3>. QED  BY <3>2, <3>3
  <2>2. CASE d \notin KnownIds(c)
    BY <1>2, <1>3, <1>5, <2>2, CountOf
  <2>. QED  BY <2>1, <2>2
<1>. QED  BY <1>2, <1>3, <1>4, <1>5

-----------------------------------------------------------------------------
(* The sort.                                                               *)

\* The order of the sort is a strict total one: ties are broken by the place.
LEMMA PrecedesOrders ==
    ASSUME NEW c \in Seq(CachedDevice), NEW i \in DOMAIN c, NEW j \in DOMAIN c,
           NEW k \in DOMAIN c
    PROVE  /\ ~Precedes(c, i, i)
           /\ Precedes(c, i, j) /\ Precedes(c, j, k) => Precedes(c, i, k)
           /\ i # j => Precedes(c, i, j) \/ Precedes(c, j, i)
<1>. DEFINE less(m, t, x, n, u, y) ==
        \/ m > n
        \/ m = n /\ t > u
        \/ ~(n > m \/ (n = m /\ u > t)) /\ x < y
<1>1. \A x, y : Precedes(c, x, y) <=>
         less(c[x].connect_count, c[x].last_connected, x,
              c[y].connect_count, c[y].last_connected, y)
  BY DEF Precedes, RanksBefore
<1>2. i \in Nat /\ j \in Nat /\ k \in Nat
  BY LenProperties
<1>3. \A x \in DOMAIN c : c[x].connect_count \in Nat /\ c[x].last_connected \in Nat
  <2>1. \A x \in DOMAIN c : c[x] \in CachedDevice
    BY LenProperties, ElementOfSeq
  <2>. QED  BY <2>1 DEF CachedDevice
<1>4. PICK a \in Nat, b \in Nat, d \in Nat, p \in Nat, q \in Nat, r \in Nat :
         /\ a = c[i].connect_count /\ b = c[j].connect_count /\ d = c[k].connect_count
         /\ p = c[i].last_connected /\ q = c[j].last_connected /\ r = c[k].last_connected
  BY <1>3
<1>5. /\ ~less(a, p, i, a, p, i)
      /\ less(a, p, i, b, q, j) /\ less(b, q, j, d, r, k) => less(a, p, i, d, r, k)
      /\ i # j => less(a, p, i, b, q, j) \/ less(b, q, j, a, p, i)
  BY <1>2
<1>. HIDE DEF less
<1>. QED  BY <1>1, <1>4, <1>5

\* The k-th candidate exists and is of the k-th place of a sort: candidates
\* are the matching devices, all of them and each once, best first.
LEMMA CandidatesSorted ==
    ASSUME NEW c \in Seq(CachedDevice), NEW name
    PROVE  \E f \in Bijection(DOMAIN candidates(c, name), Matched(c, name)) :
              /\ \A k \in DOMAIN candidates(c, name) : candidates(c, name)[k] = c[f[k]].id
              /\ \A k, l \in DOMAIN candidates(c, name) : k < l => Precedes(c, f[k], f[l])
<1>. DEFINE M    == Matched(c, name)
            n    == Cardinality(M)
            B(i) == Better(c, name, i)
<1>1. M \subseteq DOMAIN c /\ IsFiniteSet(M) /\ n \in Nat
  <2>1. M \in SUBSET (1..Len(c)) /\ Len(c) \in Nat /\ DOMAIN c = 1..Len(c)
    BY LenProperties DEF Matched
  <2>2. IsFiniteSet(1..Len(c))
    BY <2>1, FS_Interval
  <2>3. IsFiniteSet(M)
    BY <2>1, <2>2, FS_Subset
  <2>. QED  BY <2>1, <2>3, FS_CardinalityType
<1>2. \A i : B(i) = {j \in M : Precedes(c, j, i)}
  BY DEF Better
<1>. HIDE DEF M, B
<1>3. ASSUME NEW i \in M
      PROVE  IsFiniteSet(B(i)) /\ Cardinality(B(i)) \in Nat /\ Cardinality(B(i)) < n
  <2>1. B(i) \in SUBSET M /\ B(i) # M
    BY <1>1, <1>2, PrecedesOrders
  <2>2. IsFiniteSet(B(i)) /\ Cardinality(B(i)) <= n /\ (Cardinality(B(i)) = n => B(i) = M)
    BY <1>1, <2>1, FS_Subset
  <2>3. Cardinality(B(i)) \in Nat
    BY <2>2, FS_CardinalityType
  <2>. QED  BY <1>1, <2>1, <2>2, <2>3
<1>4. ASSUME NEW i \in M, NEW j \in M, Precedes(c, j, i)
      PROVE  Cardinality(B(j)) < Cardinality(B(i))
  <2>1. B(j) \in SUBSET B(i) /\ B(j) # B(i)
    BY <1>1, <1>2, <1>4, PrecedesOrders
  <2>2. Cardinality(B(j)) <= Cardinality(B(i)) /\ (Cardinality(B(j)) = Cardinality(B(i)) => B(j) = B(i))
    BY <1>3, <2>1, FS_Subset
  <2>. QED  BY <1>3, <2>1, <2>2
<1>. DEFINE g == [i \in M |-> Cardinality(B(i)) + 1]
<1>5. g \in Injection(M, 1..n)
  <2>1. g \in [M -> 1..n]
    BY <1>1, <1>3
  <2>2. ASSUME NEW i \in M, NEW j \in M, i # j PROVE g[i] # g[j]
    <3>1. Precedes(c, i, j) \/ Precedes(c, j, i)
      BY <1>1, <2>2, PrecedesOrders
    <3>2. Cardinality(B(i)) # Cardinality(B(j)) /\ Cardinality(B(i)) \in Nat /\ Cardinality(B(j)) \in Nat
      BY <1>3, <1>4, <3>1
    <3>. QED  BY <3>2
  <2>. HIDE DEF g
  <2>. QED  BY <2>1, <2>2 DEF Injection, IsInjective
<1>6. g \in Surjection(M, 1..n)
  <2>1. IsFiniteSet(1..n)
    BY <1>1, FS_Interval
  <2>2. Cardinality(1..n) = n
    <3>1. PICK m \in Int : m = n /\ m >= 0
      BY <1>1
    <3>2. Cardinality(1..m) = IF 1 > m THEN 0 ELSE m - 1 + 1
      BY FS_Interval
    <3>. QED  BY <3>1, <3>2
  <2>. HIDE DEF g, n
  <2>. QED  BY <1>5, <2>1, <2>2, FS_Injection DEF n
<1>. DEFINE f == [k \in 1..n |-> CHOOSE i \in M : Cardinality(B(i)) = k - 1]
<1>7. ASSUME NEW k \in 1..n
      PROVE  f[k] \in M /\ Cardinality(B(f[k])) = k - 1
  <2>1. PICK i \in M : g[i] = k
    BY <1>6 DEF Surjection
  <2>2. Cardinality(B(i)) = k - 1
    BY <1>3, <2>1
  <2>. QED  BY <2>2
<1>8. f \in Bijection(1..n, M)
  <2>1. f \in [1..n -> M]
    BY <1>7
  <2>2. \A k, l \in 1..n : f[k] = f[l] => k = l
    <3>. HIDE DEF f
    <3>. QED  BY <1>1, <1>7
  <2>3. ASSUME NEW i \in M PROVE \E k \in 1..n : f[k] = i
    <3>1. PICK k \in 1..n : k = g[i]
      BY <1>5, <2>3 DEF Injection
    <3>2. Cardinality(B(i)) = k - 1
      BY <1>3, <3>1
    <3>3. g[f[k]] = g[i]
      <4>. HIDE DEF f
      <4>. QED  BY <1>3, <1>7, <3>2
    <3>. HIDE DEF f, g
    <3>4. f[k] = i
      BY <1>5, <1>7, <3>3 DEF Injection, IsInjective
    <3>. QED  BY <3>4
  <2>. HIDE DEF f
  <2>. QED  BY <2>1, <2>2, <2>3 DEF Bijection, Injection, Surjection, IsInjective
<1>9. ASSUME NEW k \in 1..n, NEW l \in 1..n, k < l PROVE Precedes(c, f[k], f[l])
  <2>. HIDE DEF f
  <2>1. f[k] \in M /\ f[l] \in M
    BY <1>7
  <2>2. f[k] # f[l] /\ ~Precedes(c, f[l], f[k])
    <3>1. Cardinality(B(f[k])) = k - 1 /\ Cardinality(B(f[l])) = l - 1
      BY <1>7
    <3>2. ~(l - 1 < k - 1) /\ l - 1 # k - 1
      BY <1>1, <1>9
    <3>. QED  BY <1>4, <2>1, <3>1, <3>2
  <2>. QED  BY <1>1, <2>1, <2>2, PrecedesOrders
<1>10. candidates(c, name) = [k \in 1..n |-> c[f[k]].id]
  BY DEF candidates, B, M
<1>. HIDE DEF f
<1>. QED  BY <1>8, <1>9, <1>10 DEF M

-----------------------------------------------------------------------------
(* Invocations that overlap and die.                                       *)

NeverMore(c) == \A d \in Device : connect_count(c, d) <= connects[d]

\* Whatever a file or a copy says is part of the history.
SafeInv ==
    /\ TypeOK
    /\ Once(Contents(file)) /\ NeverMore(Contents(file))
    /\ \A p \in Process : Once(cache[p]) /\ NeverMore(cache[p])

\* A cache that says all there is to say.
Exact(c) == \A d \in Device : connect_count(c, d) = connects[d]

\* Where the history is while invocations run one after the other: in the
\* file until one has connected, then in its copy until that is written.
AloneInv ==
    alone =>
        /\ \A p, q \in Process : at[p] # "idle" /\ at[q] # "idle" => p = q
        /\ Quiet => Exact(Contents(file))
        /\ \A p \in Process :
              /\ at[p] = "loaded" => cache[p] = Contents(file)
              /\ at[p] \in {"recorded", "saving"} => Exact(cache[p])
              /\ at[p] = "saving" => file = Torn

\* What a file is read as is a cache.
LEMMA ContentsType ==
    ASSUME TypeOK
    PROVE  Contents(file) \in Seq(CachedDevice)
BY EmptyCache DEF TypeOK, Contents

LEMMA SafeInit == Init => SafeInv
<1>. SUFFICES ASSUME Init PROVE SafeInv
  OBVIOUS
<1>. USE ParameterTypes, EmptyCache
<1>1. TypeOK
  BY DEF Init, TypeOK, Whole
<1>2. Contents(file) = <<>> /\ \A d \in Device : connects[d] = 0
  BY DEF Init, Contents, Whole
<1>3. \A p \in Process : cache[p] = <<>>
  BY DEF Init
<1>. QED  BY <1>1, <1>2, <1>3 DEF SafeInv, NeverMore

LEMMA SafeStep == SafeInv /\ [Next]_vars => SafeInv'
<1>. SUFFICES ASSUME SafeInv, [Next]_vars PROVE SafeInv'
  OBVIOUS
<1>. USE ParameterTypes
<1>0. /\ TypeOK /\ Contents(file) \in Seq(CachedDevice)
      /\ Once(Contents(file)) /\ NeverMore(Contents(file))
      /\ \A p \in Process : /\ Once(cache[p]) /\ NeverMore(cache[p])
                            /\ cache[p] \in Seq(CachedDevice)
      /\ \A q \in DOMAIN cache : q \in Process
  BY ContentsType DEF SafeInv, TypeOK
<1>1. ASSUME NEW p \in Process, load_from(p)
      PROVE  SafeInv'
  <2>1. \A q \in Process : cache'[q] \in {cache[q], Contents(file)}
    BY <1>0, <1>1 DEF load_from, TypeOK
  <2>2. TypeOK'
    BY <1>0, <1>1, <2>1 DEF load_from, TypeOK, history
  <2>. QED
    BY <1>0, <1>1, <2>1, <2>2 DEF load_from, SafeInv, NeverMore, Contents, history
<1>2. ASSUME NEW p \in Process, NEW d \in Device, connect(p, d)
      PROVE  SafeInv'
  <2>1. PICK name \in {NoName, NameOf[d]} :
           cache' = [cache EXCEPT ![p] = record_success(@, d, name, clock)]
    BY <1>2 DEF connect
  <2>0. PICK r : r = record_success(cache[p], d, name, clock)
    OBVIOUS
  <2>2. /\ name \in NameOrNone /\ clock \in Nat
        /\ cache[p] \in Seq(CachedDevice) /\ Once(cache[p])
    BY <1>0 DEF TypeOK, NameOrNone
  <2>3. /\ r \in Seq(CachedDevice) /\ Once(r)
        /\ connect_count(r, d) = connect_count(cache[p], d) + 1
        /\ \A e : e # d => connect_count(r, e) = connect_count(cache[p], e)
    BY <2>2, <2>0, RecordCounts
  <2>4. \A q \in Process : cache'[q] = IF q = p THEN r ELSE cache[q]
    BY <1>0, <2>1, <2>0 DEF TypeOK
  <2>5. cache' = [q \in Process |-> IF q = p THEN r ELSE cache[q]]
    BY <1>0, <2>1, <2>0 DEF TypeOK
  <2>6. TypeOK'
    BY <1>0, <1>2, <2>3, <2>5 DEF connect, TypeOK
  <2>7. \A e \in Device : /\ connects'[e] = connects[e] + (IF e = d THEN 1 ELSE 0)
                          /\ connects[e] \in Nat
    BY <1>0, <1>2 DEF connect, TypeOK
  <2>8. ASSUME NEW c \in Seq(CachedDevice), Once(c), NeverMore(c)
        PROVE  NeverMore(c)'
    <3>1. \A e \in Device : connect_count(c, e) \in Nat /\ connect_count(c, e) <= connects[e]
      BY <2>8, CountType DEF NeverMore
    <3>. QED  BY <2>7, <3>1 DEF NeverMore
  <2>9. NeverMore(r)'
    <3>1. \A e \in Device : /\ connect_count(cache[p], e) \in Nat
                            /\ connect_count(cache[p], e) <= connects[e]
      BY <1>0, CountType DEF NeverMore
    <3>. QED  BY <2>3, <2>7, <3>1 DEF NeverMore
  <2>10. Contents(file)' = Contents(file)
    BY <1>2 DEF connect, Contents, Whole
  <2>11. NeverMore(Contents(file))'
    BY <1>0, <2>8, <2>10
  <2>. QED
    BY <1>0, <2>3, <2>4, <2>6, <2>8, <2>9, <2>10, <2>11 DEF SafeInv
<1>3. ASSUME NEW p \in Process, GiveUp(p)
      PROVE  SafeInv'
  BY <1>0, <1>3 DEF GiveUp, SafeInv, TypeOK, NeverMore, Contents, Whole, history
<1>4. ASSUME NEW p \in Process, truncate(p)
      PROVE  SafeInv'
  <2>1. Contents(file)' = <<>>
    BY <1>4 DEF truncate, Contents, Whole
  <2>2. TypeOK'
    BY <1>0, <1>4 DEF truncate, TypeOK, Whole, history
  <2>3. \A d \in Device : connects[d] \in Nat
    BY <1>0 DEF TypeOK
  <2>4. NeverMore(<<>>)
    BY <2>3, EmptyCache DEF NeverMore
  <2>. QED
    BY <1>0, <1>4, <2>1, <2>2, <2>4, EmptyCache DEF truncate, SafeInv, NeverMore, history
<1>5. ASSUME NEW p \in Process, write(p)
      PROVE  SafeInv'
  <2>1. file' \in {cache[p], Torn}
    BY <1>5 DEF write
  <2>2. Contents(file)' \in {cache[p], <<>>}
    BY <2>1 DEF Contents, Whole
  <2>3. TypeOK'
    BY <1>0, <1>5, <2>1 DEF write, TypeOK, Whole
  <2>4. \A d \in Device : connects[d] \in Nat
    BY <1>0 DEF TypeOK
  <2>5. NeverMore(<<>>)
    BY <2>4, EmptyCache DEF NeverMore
  <2>. QED
    BY <1>0, <1>5, <2>2, <2>3, <2>5, EmptyCache DEF write, SafeInv, NeverMore
<1>6. ASSUME NEW p \in Process, Kill(p)
      PROVE  SafeInv'
  <2>1. TypeOK'
    <3>1. kills' \in Nat
      BY <1>0, <1>6 DEF Kill, TypeOK
    <3>2. alone' \in BOOLEAN
      BY <1>0, <1>6 DEF Kill, TypeOK
    <3>. QED  BY <1>0, <1>6, <3>1, <3>2 DEF Kill, TypeOK, Whole, history
  <2>. QED
    BY <1>0, <1>6, <2>1 DEF Kill, SafeInv, NeverMore, Contents, Whole, history
<1>7. CASE UNCHANGED vars
  BY <1>0, <1>7 DEF vars, SafeInv, TypeOK, NeverMore, Contents, Whole, history
<1>. QED  BY <1>1, <1>2, <1>3, <1>4, <1>5, <1>6, <1>7 DEF Next

-----------------------------------------------------------------------------
(* Invocations that run one after the other.                               *)

LEMMA AloneInit == Init => AloneInv
<1>. SUFFICES ASSUME Init PROVE AloneInv
  OBVIOUS
<1>1. Contents(file) = <<>> /\ \A d \in Device : connects[d] = 0
  BY ParameterTypes DEF Init, Contents, Whole
<1>2. Exact(Contents(file))
  BY <1>1, EmptyCache DEF Init, Exact
<1>3. \A p \in Process : at[p] = "idle"
  BY DEF Init
<1>. QED  BY <1>2, <1>3 DEF AloneInv

LEMMA AloneStep == SafeInv /\ AloneInv /\ [Next]_vars => AloneInv'
<1>. SUFFICES ASSUME SafeInv, AloneInv, [Next]_vars, alone'
              PROVE  AloneInv'
  BY DEF AloneInv
<1>. USE ParameterTypes
<1>0. /\ TypeOK /\ \A p \in Process : cache[p] \in Seq(CachedDevice) /\ Once(cache[p])
      /\ at \in [Process -> {"idle", "loaded", "recorded", "saving"}]
  BY DEF SafeInv, TypeOK
<1>1. ASSUME NEW p \in Process, load_from(p)
      PROVE  AloneInv'
  <2>1. alone /\ \A q \in Process : at[q] = "idle"
    BY <1>1 DEF load_from
  <2>2. Exact(Contents(file))
    BY <2>1 DEF AloneInv, Quiet
  <2>3. /\ \A q \in Process : at'[q] = IF q = p THEN "loaded" ELSE "idle"
        /\ cache'[p] = Contents(file)
        /\ UNCHANGED <<file, connects>>
    BY <1>0, <1>1, <2>1 DEF load_from, TypeOK, history
  <2>4. Exact(Contents(file))' /\ Contents(file)' = Contents(file)
    BY <2>2, <2>3 DEF Exact, Contents, Whole
  <2>. QED  BY <2>3, <2>4 DEF AloneInv
<1>2. ASSUME alone, NEW p \in Process, at[p] # "idle"
      PROVE  \A q \in Process : q # p => at[q] = "idle"
  BY <1>2 DEF AloneInv
<1>3. ASSUME NEW p \in Process, NEW d \in Device, connect(p, d)
      PROVE  AloneInv'
  <2>1. alone /\ at[p] = "loaded"
    BY <1>3 DEF connect
  <2>2. \A q \in Process : q # p => at[q] = "idle"
    BY <1>2, <2>1
  <2>3. cache[p] = Contents(file) /\ Exact(cache[p])
    BY <2>1, <2>2 DEF AloneInv, Quiet
  <2>4. PICK name \in {NoName, NameOf[d]} :
           cache' = [cache EXCEPT ![p] = record_success(@, d, name, clock)]
    BY <1>3 DEF connect
  <2>0. PICK r : r = record_success(cache[p], d, name, clock)
    OBVIOUS
  <2>5. /\ name \in NameOrNone /\ clock \in Nat
        /\ cache[p] \in Seq(CachedDevice) /\ Once(cache[p])
    BY <1>0 DEF TypeOK, NameOrNone
  <2>6. /\ connect_count(r, d) = connect_count(cache[p], d) + 1
        /\ \A e : e # d => connect_count(r, e) = connect_count(cache[p], e)
    BY <2>5, <2>0, RecordCounts
  <2>7. /\ cache'[p] = r
        /\ \A q \in Process : at'[q] = IF q = p THEN "recorded" ELSE "idle"
        /\ \A e \in Device : connects'[e] = connects[e] + (IF e = d THEN 1 ELSE 0)
        /\ \A e \in Device : connects[e] \in Nat
    BY <1>0, <1>3, <2>2, <2>4, <2>0 DEF connect, TypeOK
  <2>8. Exact(r)'
    BY <2>3, <2>6, <2>7 DEF Exact
  <2>9. ~Quiet'
    BY <2>7 DEF Quiet
  <2>. QED  BY <2>6, <2>7, <2>8, <2>9 DEF AloneInv
<1>4. ASSUME NEW p \in Process, GiveUp(p)
      PROVE  AloneInv'
  <2>1. alone /\ at[p] = "loaded" /\ UNCHANGED <<file, cache, connects>>
    BY <1>4 DEF GiveUp, history
  <2>2. \A q \in Process : at[q] # "idle" => q = p
    BY <1>2, <2>1
  <2>3. Exact(Contents(file))
    BY <2>1, <2>2 DEF AloneInv, Quiet
  <2>4. \A q \in Process : at'[q] = "idle"
    BY <1>0, <1>4, <2>2 DEF GiveUp
  <2>5. Exact(Contents(file))'
    BY <2>1, <2>3 DEF Exact, Contents, Whole
  <2>. QED  BY <2>4, <2>5 DEF AloneInv
<1>5. ASSUME NEW p \in Process, truncate(p)
      PROVE  AloneInv'
  <2>1. /\ alone /\ at[p] = "recorded" /\ UNCHANGED <<cache, connects>>
        /\ file' = Torn
    BY <1>5 DEF truncate, history
  <2>2. \A q \in Process : q # p => at[q] = "idle"
    BY <1>2, <2>1
  <2>3. \A q \in Process : at'[q] = IF q = p THEN "saving" ELSE "idle"
    BY <1>0, <1>5, <2>2 DEF truncate
  <2>4. Exact(cache[p])'
    BY <2>1 DEF AloneInv, Exact
  <2>5. ~Quiet'
    BY <2>3 DEF Quiet
  <2>. QED  BY <2>1, <2>3, <2>4, <2>5 DEF AloneInv
<1>6. ASSUME NEW p \in Process, write(p)
      PROVE  AloneInv'
  <2>1. alone /\ at[p] = "saving" /\ UNCHANGED <<cache, connects>>
    BY <1>6 DEF write
  <2>2. Exact(cache[p]) /\ file = Torn
    BY <2>1 DEF AloneInv
  <2>3. file' = cache[p]
    BY <1>6, <2>2 DEF write, Whole
  <2>4. Contents(file)' = cache[p]
    BY <1>0, <2>3 DEF Contents, Whole
  <2>5. Exact(Contents(file))'
    BY <2>1, <2>2, <2>4 DEF Exact
  <2>6. \A q \in Process : at'[q] = "idle"
    BY <1>0, <1>2, <1>6, <2>1 DEF write
  <2>. QED  BY <2>5, <2>6 DEF AloneInv
<1>7. ASSUME NEW p \in Process, Kill(p)
      PROVE  AloneInv'
  BY <1>7 DEF Kill
<1>8. CASE UNCHANGED vars
  BY <1>8 DEF vars, history, AloneInv, Exact, Quiet, Contents, Whole
<1>. QED  BY <1>1, <1>3, <1>4, <1>5, <1>6, <1>7, <1>8 DEF Next

-----------------------------------------------------------------------------
\* Every file that parses is a list of records, and so is every copy.
THEOREM CacheTypeOK == Spec => []TypeOK
<1>1. SafeInv => TypeOK
  BY DEF SafeInv
<1>. QED  BY <1>1, SafeInit, SafeStep, PTL DEF Spec

\* However invocations overlap, and wherever one is killed, no file and no
\* copy has two records of a device (record_success inserts only what it has
\* looked for in vain).
THEOREM CacheHasOneRecordEach == Spec => []OneRecordEach
<1>1. SafeInv => OneRecordEach
  BY DEF SafeInv, OneRecordEach, Once
<1>. QED  BY <1>1, SafeInit, SafeStep, PTL DEF Spec

\* Nor does any say that a device was connected to more often than it was:
\* what an overlap or a kill loses is only ever lost.
THEOREM CacheNeverOvercounts == Spec => []NeverOvercounts
<1>1. SafeInv => NeverOvercounts
  BY DEF SafeInv, NeverOvercounts, NeverMore
<1>. QED  BY <1>1, SafeInit, SafeStep, PTL DEF Spec

\* While invocations run one after the other the file counts every connection
\* (record_success).
THEOREM CacheIsExactAlone == Spec => []CountsConnections
<1>1. AloneInv => CountsConnections
  BY DEF AloneInv, CountsConnections, Exact
<1>. QED  BY <1>1, SafeInit, SafeStep, AloneInit, AloneStep, PTL DEF Spec

\* What an exact cache says of the candidates in the sort of one without a
\* filter: the best has the most connections of all devices.
LEMMA BestIsMostUsed ==
    ASSUME TypeOK, NEW c \in Seq(CachedDevice), Once(c), Exact(c), c # <<>>, NEW d \in Device
    PROVE  connects[d] <= connects[candidates(c, NoName)[1]]
<1>1. Len(c) \in Nat /\ DOMAIN c = 1..Len(c) /\ Len(c) # 0
  BY LenProperties, EmptySeq
<1>2. \A i \in DOMAIN c : c[i].connect_count \in Nat /\ c[i].id \in Device
  <2>1. \A i \in DOMAIN c : c[i] \in CachedDevice
    BY ElementOfSeq, <1>1
  <2>. QED  BY <2>1 DEF CachedDevice
<1>3. Matched(c, NoName) = DOMAIN c
  BY DEF Matched
<1>4. PICK f \in Bijection(DOMAIN candidates(c, NoName), DOMAIN c) :
         /\ \A k \in DOMAIN candidates(c, NoName) : candidates(c, NoName)[k] = c[f[k]].id
         /\ \A k, l \in DOMAIN candidates(c, NoName) : k < l => Precedes(c, f[k], f[l])
  BY <1>3, CandidatesSorted
<1>5. PICK n \in Nat : DOMAIN candidates(c, NoName) = 1..n
  <2>1. IsFiniteSet(DOMAIN c) /\ DOMAIN candidates(c, NoName) = 1..Cardinality(DOMAIN c)
    BY <1>1, <1>3, FS_Interval DEF candidates
  <2>. QED  BY <2>1, FS_CardinalityType
<1>. DEFINE best == f[1]
<1>6. ASSUME NEW i \in DOMAIN c
      PROVE  /\ best \in DOMAIN c /\ candidates(c, NoName)[1] = c[best].id
             /\ c[i].connect_count <= c[best].connect_count
  <2>1. PICK k \in 1..n : f[k] = i
    BY <1>4, <1>5 DEF Bijection, Surjection
  <2>2. 1 \in 1..n
    BY <2>1
  <2>3. best \in DOMAIN c /\ candidates(c, NoName)[1] = c[best].id
    BY <1>4, <1>5, <2>2 DEF Bijection, Injection
  <2>4. k = 1 \/ Precedes(c, best, i)
    BY <1>4, <1>5, <2>1, <2>2
  <2>. HIDE DEF best
  <2>5. CASE k = 1
    <3>1. i = best
      BY <2>1, <2>5 DEF best
    <3>. QED  BY <1>2, <2>3, <3>1
  <2>6. CASE Precedes(c, best, i)
    BY <1>2, <2>3, <2>6 DEF Precedes, RanksBefore
  <2>. QED  BY <2>3, <2>4, <2>5, <2>6
<1>. HIDE DEF best
<1>7. 1 \in DOMAIN c
  BY <1>1
<1>8. connects[c[best].id] = c[best].connect_count /\ c[best].connect_count \in Nat
  BY <1>2, <1>6, <1>7, CountOf DEF Exact
<1>9. connects[d] <= c[best].connect_count
  <2>1. CASE d \in KnownIds(c)
    <3>1. PICK i \in DOMAIN c : c[i].id = d
      BY <2>1 DEF KnownIds
    <3>2. connects[d] = c[i].connect_count
      BY <3>1, CountOf DEF Exact
    <3>. QED  BY <1>6, <3>2
  <2>2. CASE d \notin KnownIds(c)
    BY <1>8, <2>2, CountOf DEF Exact
  <2>. QED  BY <2>1, <2>2
<1>. QED  BY <1>6, <1>7, <1>8, <1>9

\* While invocations run one after the other, the device connected to on sight
\* is one the tool has connected to most often (candidates).
THEOREM CachePrefersMostUsed == Spec => []PrefersMostUsed
<1>1. ASSUME SafeInv, AloneInv PROVE PrefersMostUsed
  <2>1. SUFFICES ASSUME NEW p \in Process, alone, at[p] = "loaded", cache[p] # <<>>,
                        NEW d \in Device
                 PROVE  connects[d] <= connects[candidates(cache[p], NoName)[1]]
    BY DEF PrefersMostUsed
  <2>2. Quiet
    BY <1>1, <2>1 DEF AloneInv, Quiet, SafeInv, TypeOK
  <2>3. cache[p] = Contents(file) /\ Exact(cache[p])
    BY <1>1, <2>1, <2>2 DEF AloneInv
  <2>4. TypeOK /\ cache[p] \in Seq(CachedDevice) /\ Once(cache[p])
    BY <1>1 DEF SafeInv, TypeOK
  <2>. QED  BY <2>1, <2>3, <2>4, BestIsMostUsed
<1>2. SafeInv /\ AloneInv => PrefersMostUsed
  BY <1>1
<1>. QED  BY <1>2, SafeInit, SafeStep, AloneInit, AloneStep, PTL DEF Spec
=============================================================================
