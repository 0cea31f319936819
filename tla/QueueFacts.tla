----------------------------- MODULE QueueFacts -----------------------------
(***************************************************************************)
(* What the queue operations do to what is in a queue: facts about Tail,   *)
(* SubSeq and Append, in the form the proofs about the session, the        *)
(* upload, the cache and the scan cite them, and that among some places in *)
(* a queue there is a first.                                               *)
(***************************************************************************)
EXTENDS Integers, Sequences, SequenceTheorems, FiniteSetTheorems,
        WellFoundedInduction, TLAPS

\* What is left of a queue when its head is taken keeps its frames.
LEMMA TailKeeps ==
    ASSUME NEW S, NEW q \in Seq(S), q # <<>>
    PROVE  /\ Tail(q) \in Seq(S)
           /\ Len(q) \in Nat \ {0}
           /\ Len(Tail(q)) = Len(q) - 1
           /\ \A i \in 1..Len(Tail(q)) : Tail(q)[i] = q[i + 1]
           /\ Head(q) = q[1]
           /\ Head(q) \in S
BY HeadTailProperties

\* A part of a queue holds frames of the queue.
LEMMA SubSeqKeeps ==
    ASSUME NEW S, NEW q \in Seq(S),
           NEW m \in 1..(Len(q) + 1), NEW n \in 0..Len(q), m <= n + 1
    PROVE  /\ SubSeq(q, m, n) \in Seq(S)
           /\ Len(SubSeq(q, m, n)) = n + 1 - m
           /\ \A i \in 1..Len(SubSeq(q, m, n)) : SubSeq(q, m, n)[i] = q[m + i - 1]
<1>1. Len(q) \in Nat
  BY LenProperties
<1>2. \A i \in m..n : q[i] \in S
  BY <1>1, ElementOfSeq
<1>3. /\ SubSeq(q, m, n) \in Seq(S)
      /\ Len(SubSeq(q, m, n)) = IF m <= n THEN n - m + 1 ELSE 0
      /\ \A i \in 1..(n - m + 1) : SubSeq(q, m, n)[i] = q[m + i - 1]
  BY <1>1, <1>2, SubSeqProperties
<1>4. Len(SubSeq(q, m, n)) = n + 1 - m
  BY <1>1, <1>3
<1>5. 1..Len(SubSeq(q, m, n)) = 1..(n - m + 1)
  BY <1>1, <1>4
<1>. QED  BY <1>3, <1>4, <1>5

\* A request joins the queue behind the others.
LEMMA AppendKeeps ==
    ASSUME NEW S, NEW q \in Seq(S), NEW x \in S
    PROVE  /\ Append(q, x) \in Seq(S)
           /\ \A i \in 1..Len(Append(q, x)) :
                 Append(q, x)[i] = IF i = Len(q) + 1 THEN x ELSE q[i]
           /\ Len(Append(q, x)) = Len(q) + 1
           /\ Len(q) \in Nat
BY AppendProperties, LenProperties

\* Some numbers have a least one.  (The sets 0..m, for m among the numbers up
\* to one of them, have a smallest by the well-foundedness of inclusion.)
LEMMA LeastNumber ==
    ASSUME NEW T, T \subseteq Nat, T # {}
    PROVE  \E x \in T : \A y \in T : x <= y
<1>1. PICK n \in T : n \in Nat
  OBVIOUS
<1>2. IsWellFoundedOn(StrictSubsetOrdering(0..n), SUBSET (0..n))
  <2>1. IsFiniteSet(0..n)
    BY <1>1, FS_Interval
  <2>. QED  BY <2>1, FS_StrictSubsetOrderingWellFounded, FS_FiniteSubsetsOfFinite
<1>. DEFINE I == {0..m : m \in {k \in T : k <= n}}
<1>3. I \subseteq SUBSET (0..n) /\ I # {}
  BY <1>1
<1>. HIDE DEF I
<1>4. PICK s \in I : \A t \in I : ~(<<t, s>> \in StrictSubsetOrdering(0..n))
  BY <1>2, <1>3, WFMin
<1>5. PICK x \in T : s = 0..x /\ x <= n
  BY DEF I
<1>6. ASSUME NEW y \in T, y < x PROVE FALSE
  <2>1. (0..y) \in I
    BY <1>1, <1>5, <1>6 DEF I
  <2>2. (0..y) \subseteq s /\ (0..y) # s
    BY <1>1, <1>5, <1>6
  <2>. QED  BY <1>3, <1>4, <2>1, <2>2 DEF StrictSubsetOrdering
<1>. QED  BY <1>5, <1>6
=============================================================================
