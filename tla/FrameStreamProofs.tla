-------------------------- MODULE FrameStreamProofs --------------------------
(***************************************************************************)
(* TLAPS proofs about FrameStream and the framing it is built from, for    *)
(* every byte width, all frames of the device, and every way to cut them   *)
(* into fragments.                                                         *)
(*                                                                         *)
(* The argument: the frames nobody has read lie one behind the other behind *)
(* the stray bytes.  Without these the length in the first 8 bytes of the  *)
(* buffer is that of the first of them.  Whatever is dropped or misread,   *)
(* what is left begins with the rest of a frame, and frames follow it.     *)
(***************************************************************************)
EXTENDS FrameStream, QueueFacts

Message == {decode(frame) : frame \in Frames}

Response == {decode(bytes) : bytes \in Seq(Byte)}

Entry == [says : Message, end : Nat]

\* Where the k-th frame behind s other bytes ends.
Till(q, s, k) == IF k = 0 THEN s ELSE q[k].end

\* The frames of a queue lie one behind the other, behind s other bytes.
Laid(q, s, bytes) ==
    /\ \A i \in 1..Len(q) : \E f \in Frames :
          /\ q[i].says = decode(f)
          /\ q[i].end = Till(q, s, i - 1) + Len(f) /\ q[i].end <= Len(bytes)
          /\ \A j \in 1..Len(f) : bytes[Till(q, s, i - 1) + j] = f[j]
    /\ \A i, j \in 1..Len(q) : i < j => q[i].end < q[j].end
    /\ \A i \in 1..Len(q) : s < q[i].end

StreamInv ==
    /\ serial \in BOOLEAN /\ owed \in BOOLEAN
    /\ buf \in Seq(Byte) /\ wire \in Seq(Byte)
    /\ pending \in Seq(Entry) /\ stray \in Nat
    /\ Laid(pending, stray, Bytes)
    /\ Till(pending, stray, Len(pending)) = Len(Bytes)
    /\ received \in Seq(Response)

\* c is what follows the first n of the bytes b.
Behind(c, b, n) ==
    /\ c \in Seq(Byte) /\ Len(c) = Len(b) - n
    /\ \A p \in 1..Len(c) : c[p] = b[p + n]

\* The frames of r are those of q but for the first k.
Later(r, q, k) ==
    /\ r \in Seq(Entry) /\ Len(r) = Len(q) - k
    /\ \A i \in 1..Len(r) : r[i].says = q[i + k].says

LEMMA ParameterTypes ==
    /\ ByteMod \in Nat /\ ByteMod > 3 /\ HEADER_LEN = 8
    /\ \A f \in Frames : /\ f \in Seq(Byte) /\ Len(f) \in Nat /\ Len(f) >= 8
                         /\ Len(f) = FrameLen(f)
                         /\ decode(f) \in Message
BY ByteModAssumption, StreamAssumption, LenProperties DEF HEADER_LEN, Message

\* Arithmetic and concatenation, as the steps below use them.
LEMMA StillLess ==
    ASSUME NEW u \in Nat, NEW v \in Nat, NEW n \in Nat, u < v
    PROVE  u - n < v - n
OBVIOUS

LEMMA SameDistance ==
    ASSUME NEW p \in Nat, NEW l \in Nat, NEW n \in Nat, NEW m, m = l - n
    PROVE  p - m = p + n - l
OBVIOUS

LEMMA StillInside ==
    ASSUME NEW t \in Nat, NEW n \in Nat, t >= n, NEW l \in Nat, NEW m, m = l - n,
           NEW f \in Nat, t + f <= l, NEW j \in 1..f
    PROVE  (t - n) + j \in 1..m
OBVIOUS

LEMMA ThereAndBack ==
    ASSUME NEW t \in Nat, NEW n \in Nat, NEW f \in Nat, NEW j \in 1..f
    PROVE  ((t - n) + j) + n = t + j
OBVIOUS

LEMMA ThreeParts ==
    \A s, t, u \in Seq(Byte) : (s \o t) \o u = s \o (t \o u)
BY ConcatAssociative

-----------------------------------------------------------------------------
(* Frames one behind the other.                                            *)

\* The length in the header of the first frame is that of the frame, also in
\* a buffer that holds no more than its header.
LEMMA FirstFrame ==
    ASSUME NEW q \in Seq(Entry), NEW b \in Seq(Byte), Laid(q, 0, b), q # <<>>,
           NEW s \in Seq(Byte), Len(s) <= Len(b), \A p \in 1..Len(s) : s[p] = b[p],
           Len(s) >= HEADER_LEN
    PROVE  /\ FrameLen(s) = q[1].end
           /\ HasFrame(s) => decode(next_frame(s)) = q[1].says
<1>1. Len(q) \in Nat /\ 1 \in 1..Len(q) /\ Len(s) \in Nat /\ Len(b) \in Nat
  BY EmptySeq, LenProperties
<1>2. PICK f \in Frames :
         /\ q[1].says = decode(f) /\ q[1].end = Len(f) /\ Len(f) <= Len(b)
         /\ \A j \in 1..Len(f) : b[j] = f[j]
  <2>1. PICK f \in Frames :
           /\ q[1].says = decode(f)
           /\ q[1].end = Till(q, 0, 1 - 1) + Len(f) /\ q[1].end <= Len(b)
           /\ \A j \in 1..Len(f) : b[Till(q, 0, 1 - 1) + j] = f[j]
    BY <1>1 DEF Laid
  <2>2. Till(q, 0, 1 - 1) = 0
    BY DEF Till
  <2>3. Len(f) \in Nat
    BY ParameterTypes
  <2>4. \A j \in 1..Len(f) : 0 + j = j
    BY <2>3
  <2>. QED  BY <2>1, <2>2, <2>3, <2>4
<1>3. Len(f) \in Nat /\ Len(f) >= 8 /\ Len(f) = FrameLen(f) /\ f \in Seq(Byte)
  BY ParameterTypes
<1>4. \A j \in 1..Len(s) : j <= Len(f) => s[j] = f[j]
  BY <1>1, <1>2, <1>3
<1>5. s[3] = f[3] /\ s[4] = f[4]
  BY <1>1, <1>3, <1>4 DEF HEADER_LEN
<1>6. FrameLen(s) = Len(f)
  BY <1>3, <1>5 DEF FrameLen
<1>7. ASSUME HasFrame(s) PROVE next_frame(s) = f
  <2>1. Len(f) <= Len(s)
    BY <1>6, <1>7 DEF HasFrame
  <2>2. /\ SubSeq(s, 1, Len(f)) \in Seq(Byte) /\ Len(SubSeq(s, 1, Len(f))) = Len(f)
        /\ \A i \in 1..Len(f) : SubSeq(s, 1, Len(f))[i] = s[i]
    <3>1. 1 \in 1..(Len(s) + 1) /\ Len(f) \in 0..Len(s) /\ 1 <= Len(f) + 1
      BY <1>1, <1>3, <2>1
    <3>2. /\ SubSeq(s, 1, Len(f)) \in Seq(Byte)
          /\ Len(SubSeq(s, 1, Len(f))) = Len(f) + 1 - 1
          /\ \A i \in 1..Len(SubSeq(s, 1, Len(f))) : SubSeq(s, 1, Len(f))[i] = s[1 + i - 1]
      BY <3>1, SubSeqKeeps
    <3>. QED  BY <1>3, <3>2
  <2>3. \A i \in 1..Len(f) : SubSeq(s, 1, Len(f))[i] = f[i]
    BY <1>1, <1>3, <1>4, <2>1, <2>2
  <2>4. SubSeq(s, 1, Len(f)) = f
    BY <1>3, <2>2, <2>3, SeqEqual
  <2>. QED  BY <1>6, <2>4 DEF next_frame
<1>. QED  BY <1>2, <1>6, <1>7

\* A frame joins the others.
LEMMA LaidLonger ==
    ASSUME NEW q \in Seq(Entry), NEW b \in Seq(Byte), NEW z \in Nat, Laid(q, z, b),
           Till(q, z, Len(q)) = Len(b), NEW f \in Frames,
           NEW e, e = [says |-> decode(f), end |-> Len(b) + Len(f)]
    PROVE  /\ Append(q, e) \in Seq(Entry) /\ b \o f \in Seq(Byte)
           /\ Laid(Append(q, e), z, b \o f)
           /\ Till(Append(q, e), z, Len(Append(q, e))) = Len(b \o f)
<1>1. Len(q) \in Nat /\ Len(b) \in Nat /\ f \in Seq(Byte) /\ Len(f) \in Nat /\ Len(f) >= 8
  BY LenProperties, ParameterTypes
<1>2. e \in Entry /\ e.says = decode(f) /\ e.end = Len(b) + Len(f)
  BY <1>1, ParameterTypes DEF Entry
<1>. DEFINE r == Append(q, e)
            c == b \o f
<1>3. /\ r \in Seq(Entry) /\ Len(r) = Len(q) + 1 /\ r[Len(q) + 1] = e
      /\ \A i \in 1..Len(q) : r[i] = q[i]
  BY <1>1, <1>2, AppendProperties
<1>4. /\ c \in Seq(Byte) /\ Len(c) = Len(b) + Len(f)
      /\ \A p \in 1..Len(b) : c[p] = b[p]
      /\ \A p \in 1..Len(f) : c[Len(b) + p] = f[p]
  <2>1. /\ c \in Seq(Byte) /\ Len(c) = Len(b) + Len(f)
        /\ \A i \in 1..Len(b) + Len(f) : c[i] = IF i <= Len(b) THEN b[i] ELSE f[i - Len(b)]
    BY <1>1, ConcatProperties
  <2>2. \A p \in 1..Len(b) : p \in 1..Len(b) + Len(f) /\ p <= Len(b)
    BY <1>1
  <2>3. \A p \in 1..Len(f) : /\ Len(b) + p \in 1..Len(b) + Len(f) /\ ~(Len(b) + p <= Len(b))
                             /\ Len(b) + p - Len(b) = p
    BY <1>1
  <2>. QED  BY <2>1, <2>2, <2>3
<1>. HIDE DEF r, c
<1>5. \A k \in 0..Len(q) : Till(r, z, k) = Till(q, z, k)
  BY <1>1, <1>3 DEF Till
<1>6. ASSUME NEW i \in 1..Len(r)
      PROVE  \E g \in Frames :
                /\ r[i].says = decode(g)
                /\ r[i].end = Till(r, z, i - 1) + Len(g) /\ r[i].end <= Len(c)
                /\ \A j \in 1..Len(g) : c[Till(r, z, i - 1) + j] = g[j]
  <2>1. CASE i \in 1..Len(q)
    <3>1. PICK g \in Frames :
             /\ q[i].says = decode(g)
             /\ q[i].end = Till(q, z, i - 1) + Len(g) /\ q[i].end <= Len(b)
             /\ \A j \in 1..Len(g) : b[Till(q, z, i - 1) + j] = g[j]
      BY <2>1 DEF Laid
    <3>2. PICK t \in Nat : t = Till(q, z, i - 1)
      <4>1. CASE i = 1
        BY <4>1 DEF Till
      <4>2. CASE i # 1
        <5>1. i - 1 \in 1..Len(q)
          BY <1>1, <2>1, <4>2
        <5>2. q[i - 1] \in Entry
          BY <5>1, ElementOfSeq
        <5>. QED  BY <1>1, <5>1, <5>2 DEF Till, Entry
      <4>. QED  BY <4>1, <4>2
    <3>3. Till(r, z, i - 1) = t /\ r[i] = q[i]
      BY <1>1, <1>3, <1>5, <2>1, <3>2
    <3>4. Len(g) \in Nat /\ t + Len(g) <= Len(b)
      BY <3>1, <3>2, ParameterTypes
    <3>5. \A j \in 1..Len(g) : t + j \in 1..Len(b)
      BY <1>1, <3>4
    <3>6. \A j \in 1..Len(g) : c[t + j] = g[j]
      BY <1>4, <3>1, <3>2, <3>5
    <3>7. t + Len(g) <= Len(c)
      BY <1>1, <1>4, <3>4
    <3>. QED  BY <3>1, <3>2, <3>3, <3>6, <3>7
  <2>2. CASE i = Len(q) + 1
    <3>1. i - 1 = Len(q) /\ Len(q) \in 0..Len(q)
      BY <1>1, <2>2
    <3>2. Till(r, z, i - 1) = Len(b)
      BY <1>5, <3>1
    <3>3. r[i] = e /\ Len(b) + Len(f) <= Len(c)
      BY <1>1, <1>3, <1>4, <2>2
    <3>. QED  BY <1>2, <1>4, <3>2, <3>3
  <2>. QED  BY <1>1, <1>3, <2>1, <2>2
<1>7. ASSUME NEW i \in 1..Len(r), NEW j \in 1..Len(r), i < j
      PROVE  r[i].end < r[j].end
  <2>1. i \in 1..Len(q)
    BY <1>1, <1>3, <1>7
  <2>2. CASE j \in 1..Len(q)
    BY <1>3, <1>7, <2>1, <2>2 DEF Laid
  <2>3. CASE j = Len(q) + 1
    <3>1. q[i].end <= Len(b) /\ q[i].end \in Nat
      <4>1. q[i] \in Entry
        BY <2>1, ElementOfSeq
      <4>. QED  BY <2>1, <4>1 DEF Laid, Entry
    <3>. QED  BY <1>1, <1>2, <1>3, <2>1, <2>3, <3>1
  <2>. QED  BY <1>1, <1>3, <2>2, <2>3
<1>10. ASSUME NEW i \in 1..Len(r) PROVE z < r[i].end
  <2>1. CASE i \in 1..Len(q)
    BY <1>3, <2>1 DEF Laid
  <2>2. CASE i = Len(q) + 1
    <3>1. z <= Len(b)
      <4>1. CASE Len(q) = 0
        BY <1>1, <4>1 DEF Till
      <4>2. CASE Len(q) # 0
        <5>1. Len(q) \in 1..Len(q) /\ q[Len(q)].end = Len(b)
          BY <1>1, <4>2 DEF Till
        <5>2. z < q[Len(q)].end
          BY <5>1 DEF Laid
        <5>. QED  BY <1>1, <5>1, <5>2
      <4>. QED  BY <4>1, <4>2
    <3>2. r[i].end = Len(b) + Len(f)
      BY <1>2, <1>3, <2>2
    <3>. QED  BY <1>1, <3>1, <3>2
  <2>. QED  BY <1>1, <1>3, <2>1, <2>2
<1>8. Laid(r, z, c)
  BY <1>6, <1>7, <1>10 DEF Laid
<1>9. Till(r, z, Len(r)) = Len(c)
  BY <1>1, <1>2, <1>3, <1>4 DEF Till
<1>. QED  BY <1>3, <1>4, <1>8, <1>9 DEF r, c

\* The first k frames are gone, and bytes up to somewhere in the last of them.
LEMMA LaidShorter ==
    ASSUME NEW q \in Seq(Entry), NEW b \in Seq(Byte), NEW z \in Nat, Laid(q, z, b),
           NEW k \in 0..Len(q), NEW n \in Nat, n <= Till(q, z, k),
           NEW c, Behind(c, b, n), NEW y, y = Till(q, z, k) - n,
           NEW r, r = Nearer(SubSeq(q, k + 1, Len(q)), n)
    PROVE  /\ Later(r, q, k) /\ y \in Nat
           /\ Laid(r, y, c)
           /\ Till(q, z, Len(q)) = Len(b) => Till(r, y, Len(r)) = Len(c)
<1>0. Len(c) = Len(b) - n
  BY DEF Behind
<1>1. /\ Len(q) \in Nat /\ k \in Nat /\ k <= Len(q) /\ Len(b) \in Nat /\ Len(c) \in Nat
      /\ \A i \in 1..Len(q) : q[i].says \in Message /\ q[i].end \in Nat /\ q[i] \in Entry
  <2>1. \A i \in 1..Len(q) : q[i] \in Entry
    BY ElementOfSeq
  <2>. QED  BY <2>1, LenProperties DEF Entry, Behind
<1>2. n \in Nat /\ n <= Len(b)
  BY <1>0, <1>1
<1>15. y \in Nat
  <2>1. CASE k = 0
    BY <2>1 DEF Till
  <2>2. CASE k # 0
    BY <1>1, <2>2 DEF Till
  <2>. QED  BY <2>1, <2>2
\* Later frames end later.
<1>16. \A i \in 1..Len(q) : i > k => q[i].end > Till(q, z, k)
  <2>1. CASE k = 0
    BY <1>1, <2>1 DEF Till, Laid
  <2>2. CASE k # 0
    <3>1. k \in 1..Len(q)
      BY <1>1, <2>2
    <3>. QED  BY <1>1, <2>2, <3>1 DEF Till, Laid
  <2>. QED  BY <2>1, <2>2
<1>17. PICK u \in Nat : u = Till(q, z, k) /\ n <= u /\ y = u - n
  <2>1. CASE k = 0
    BY <2>1 DEF Till
  <2>2. CASE k # 0
    BY <1>1, <2>2 DEF Till
  <2>. QED  BY <2>1, <2>2
<1>3. \A i \in 1..Len(q) : i > k => q[i].end >= n
  BY <1>1, <1>16, <1>17
<1>. DEFINE m == Len(q) - k
            s == SubSeq(q, k + 1, Len(q))
<1>4. m \in Nat /\ \A i \in 1..m : i + k \in 1..Len(q) /\ i + k > k
  BY <1>1
<1>5. s \in Seq(Entry) /\ Len(s) = m /\ DOMAIN s = 1..m /\ \A i \in 1..m : s[i] = q[i + k]
  <2>1. k + 1 \in 1..(Len(q) + 1) /\ Len(q) \in 0..Len(q) /\ k + 1 <= Len(q) + 1
    BY <1>1
  <2>2. /\ s \in Seq(Entry) /\ Len(s) = Len(q) + 1 - (k + 1)
        /\ \A i \in 1..Len(s) : s[i] = q[k + 1 + i - 1]
    BY <2>1, SubSeqKeeps
  <2>3. Len(s) = m
    BY <1>1, <2>2
  <2>4. \A i \in 1..m : k + 1 + i - 1 = i + k
    BY <1>1
  <2>. QED  BY <2>2, <2>3, <2>4, LenProperties
<1>. HIDE DEF s
<1>6. /\ r = [i \in 1..m |-> [s[i] EXCEPT !.end = @ - n]]
      /\ \A i \in 1..m : r[i] = [q[i + k] EXCEPT !.end = @ - n]
  BY <1>5 DEF Nearer, s
<1>7. \A i \in 1..m : /\ r[i].says = q[i + k].says /\ r[i].end = q[i + k].end - n
                      /\ r[i] \in Entry
  <2>1. SUFFICES ASSUME NEW i \in 1..m
                 PROVE  /\ r[i].says = q[i + k].says /\ r[i].end = q[i + k].end - n
                        /\ r[i] \in Entry
    OBVIOUS
  <2>2. PICK e \in Entry : e = q[i + k] /\ e.end >= n
    BY <1>1, <1>3, <1>4
  <2>3. r[i] = [e EXCEPT !.end = @ - n] /\ e.says \in Message /\ e.end \in Nat
    BY <1>6, <2>2 DEF Entry
  <2>4. r[i].says = e.says /\ r[i].end = e.end - n
    BY <2>3 DEF Entry
  <2>5. e.end - n \in Nat
    BY <1>2, <2>2, <2>3
  <2>6. r[i] \in Entry
    BY <2>2, <2>3, <2>5 DEF Entry
  <2>. QED  BY <2>2, <2>4, <2>6
<1>8. r \in Seq(Entry) /\ Len(r) = m
  <2>1. r \in [1..m -> Entry]
    BY <1>6, <1>7
  <2>2. r \in Seq(Entry)
    BY <1>4, <2>1, SeqDef
  <2>3. DOMAIN r = 1..m /\ DOMAIN r = 1..Len(r) /\ Len(r) \in Nat
    BY <2>1, <2>2, LenProperties
  <2>4. Len(r) = m
    BY <1>4, <2>3
  <2>. QED  BY <2>2, <2>4
<1>. HIDE DEF m
<1>9. \A i \in 0..m : Till(r, y, i) = Till(q, z, i + k) - n
  <2>1. Till(r, y, 0) = Till(q, z, 0 + k) - n
    <3>1. 0 + k = k
      BY <1>1
    <3>2. Till(r, y, 0) = y
      BY DEF Till
    <3>. QED  BY <3>1, <3>2
  <2>2. ASSUME NEW i \in 1..m PROVE Till(r, y, i) = Till(q, z, i + k) - n
    <3>1. i # 0 /\ i + k # 0
      BY <1>1, <1>4
    <3>. QED  BY <1>7, <3>1 DEF Till
  <2>. QED  BY <1>4, <2>1, <2>2
<1>10. ASSUME NEW i \in 1..m
       PROVE  \E f \in Frames :
                 /\ r[i].says = decode(f)
                 /\ r[i].end = Till(r, y, i - 1) + Len(f) /\ r[i].end <= Len(c)
                 /\ \A j \in 1..Len(f) : c[Till(r, y, i - 1) + j] = f[j]
  <2>1. PICK x \in 1..Len(q) : x = i + k /\ x > k /\ x - 1 = (i - 1) + k
    BY <1>1, <1>4
  <2>2. PICK f \in Frames :
           /\ q[x].says = decode(f)
           /\ q[x].end = Till(q, z, x - 1) + Len(f) /\ q[x].end <= Len(b)
           /\ \A j \in 1..Len(f) : b[Till(q, z, x - 1) + j] = f[j]
    BY <2>1 DEF Laid
  <2>3. PICK t \in Nat : t = Till(q, z, x - 1) /\ t >= n
    <3>1. CASE x = k + 1
      <4>1. x - 1 = k
        BY <1>1, <3>1
      <4>. QED  BY <1>17, <4>1
    <3>2. CASE x # k + 1
      <4>1. x - 1 \in 1..Len(q) /\ x - 1 > k /\ x - 1 # 0
        BY <1>1, <2>1, <3>2
      <4>. QED  BY <1>1, <1>3, <4>1 DEF Till
    <3>. QED  BY <3>1, <3>2
  <2>4. i - 1 \in 0..m
    BY <1>4
  <2>5. Till(r, y, i - 1) = t - n
    BY <1>9, <2>1, <2>3, <2>4
  <2>6. r[i].says = q[x].says /\ r[i].end = q[x].end - n
    BY <1>7, <2>1
  <2>7. Len(f) \in Nat /\ q[x].end = t + Len(f) /\ t + Len(f) <= Len(b)
    BY <2>2, <2>3, ParameterTypes
  <2>8. r[i].end = (t - n) + Len(f) /\ r[i].end <= Len(c)
    <3>1. PICK e \in Nat, g \in Nat, l \in Nat : e = q[x].end /\ g = Len(f) /\ l = Len(b)
      BY <1>1, <2>7
    <3>2. e = t + g /\ t + g <= l /\ Len(c) = l - n /\ n \in Nat
      BY <1>0, <1>2, <2>7, <3>1
    <3>3. e - n = (t - n) + g
      BY <2>3, <3>2
    <3>4. e - n <= l - n
      BY <3>2
    <3>. QED  BY <2>6, <3>1, <3>2, <3>3, <3>4
  <2>9. ASSUME NEW j \in 1..Len(f) PROVE c[(t - n) + j] = f[j]
    <3>1. (t - n) + j \in 1..Len(c)
      BY <1>0, <1>1, <1>2, <2>3, <2>7, StillInside
    <3>4. ((t - n) + j) + n = t + j
      BY <1>2, <2>7, ThereAndBack
    <3>2. c[(t - n) + j] = b[((t - n) + j) + n]
      BY <3>1 DEF Behind
    <3>. QED  BY <2>2, <2>3, <3>2, <3>4
  <2>. QED  BY <2>2, <2>5, <2>6, <2>8, <2>9
<1>11. ASSUME NEW i \in 1..m, NEW j \in 1..m, i < j
       PROVE  r[i].end < r[j].end
  <2>1. PICK x \in 1..Len(q) : x = i + k
    BY <1>4
  <2>2. PICK w \in 1..Len(q) : w = j + k
    BY <1>4
  <2>3. x < w
    BY <1>1, <1>4, <1>11, <2>1, <2>2
  <2>4. q[x].end < q[w].end
    BY <2>3 DEF Laid
  <2>5. r[i].end = q[x].end - n /\ r[j].end = q[w].end - n
    BY <1>7, <2>1, <2>2
  <2>6. q[x].end \in Nat /\ q[w].end \in Nat /\ n \in Nat
    BY <1>1, <1>2
  <2>7. PICK a \in Nat, v \in Nat : a = q[x].end /\ v = q[w].end /\ a < v
    BY <2>4, <2>6
  <2>8. a - n < v - n
    BY <2>6, <2>7, StillLess
  <2>. QED  BY <2>5, <2>7, <2>8
<1>12. Laid(r, y, c)
  <2>1. 1..Len(r) = 1..m
    BY <1>8
  <2>2. \A i, j \in 1..Len(r) : i < j => r[i].end < r[j].end
    BY <1>11, <2>1
  <2>3. \A i \in 1..Len(r) : \E f \in Frames :
           /\ r[i].says = decode(f)
           /\ r[i].end = Till(r, y, i - 1) + Len(f) /\ r[i].end <= Len(c)
           /\ \A j \in 1..Len(f) : c[Till(r, y, i - 1) + j] = f[j]
    BY <1>10, <2>1
  <2>4. \A i \in 1..Len(r) : y < r[i].end
    <3>1. SUFFICES ASSUME NEW i \in 1..m PROVE y < r[i].end
      BY <2>1
    <3>2. i + k \in 1..Len(q) /\ i + k > k
      BY <1>4
    <3>3. PICK v \in Nat : v = q[i + k].end /\ v > u
      BY <1>1, <1>16, <1>17, <3>2
    <3>4. r[i].end = v - n
      BY <1>7, <3>3
    <3>5. u - n < v - n
      BY <1>17, <3>3, StillLess
    <3>. QED  BY <1>17, <3>4, <3>5
  <2>. QED  BY <2>2, <2>3, <2>4, Zenon DEF Laid
<1>13. Till(q, z, Len(q)) = Len(b) => Till(r, y, Len(r)) = Len(c)
  <2>1. m \in 0..m /\ m + k = Len(q)
    BY <1>1, <1>4 DEF m
  <2>2. Len(r) = m /\ Till(r, y, m) = Till(q, z, Len(q)) - n
    BY <1>8, <1>9, <2>1
  <2>. QED  BY <1>0, <2>2
<1>14. Later(r, q, k)
  BY <1>7, <1>8 DEF m, Later
<1>. QED  BY <1>12, <1>13, <1>14, <1>15

-----------------------------------------------------------------------------
(* The bytes in the buffer and on the wire.                                *)

\* The front of the bytes is the buffer.
LEMMA BufferIsFront ==
    ASSUME NEW b \in Seq(Byte), NEW w \in Seq(Byte)
    PROVE  /\ b \o w \in Seq(Byte) /\ Len(b) \in Nat /\ Len(w) \in Nat
           /\ Len(b \o w) = Len(b) + Len(w)
           /\ \A p \in 1..Len(b) : (b \o w)[p] = b[p]
<1>1. Len(b) \in Nat /\ Len(w) \in Nat
  BY LenProperties
<1>2. /\ b \o w \in Seq(Byte) /\ Len(b \o w) = Len(b) + Len(w)
      /\ \A i \in 1..Len(b) + Len(w) : (b \o w)[i] = IF i <= Len(b) THEN b[i] ELSE w[i - Len(b)]
  BY ConcatProperties
<1>3. \A p \in 1..Len(b) : p \in 1..Len(b) + Len(w) /\ p <= Len(b)
  BY <1>1
<1>. QED  BY <1>1, <1>2, <1>3

\* A fragment that arrives leaves the bytes as they were.
LEMMA FragmentStays ==
    ASSUME NEW b \in Seq(Byte), NEW w \in Seq(Byte), NEW k \in 1..Len(w)
    PROVE  /\ b \o SubSeq(w, 1, k) \in Seq(Byte) /\ SubSeq(w, k + 1, Len(w)) \in Seq(Byte)
           /\ (b \o SubSeq(w, 1, k)) \o SubSeq(w, k + 1, Len(w)) = b \o w
<1>1. Len(w) \in Nat
  BY LenProperties
<1>2. /\ 1 \in 1..(Len(w) + 1) /\ k \in 0..Len(w) /\ 1 <= k + 1
      /\ k + 1 \in 1..(Len(w) + 1) /\ Len(w) \in 0..Len(w) /\ k + 1 <= Len(w) + 1
      /\ k \in (1 - 1)..Len(w) /\ Len(w) \in k..Len(w)
  BY <1>1
<1>3. SubSeq(w, 1, k) \in Seq(Byte) /\ SubSeq(w, k + 1, Len(w)) \in Seq(Byte)
  BY <1>2, SubSeqKeeps
<1>4. SubSeq(w, 1, k) \o SubSeq(w, k + 1, Len(w)) = SubSeq(w, 1, Len(w))
  BY <1>2, ConcatAdjacentSubSeq
<1>5. SubSeq(w, 1, Len(w)) = w
  BY SubSeqFull
<1>6. b \o SubSeq(w, 1, k) \in Seq(Byte)
  BY <1>3, ConcatProperties
<1>7. (b \o SubSeq(w, 1, k)) \o SubSeq(w, k + 1, Len(w))
      = b \o (SubSeq(w, 1, k) \o SubSeq(w, k + 1, Len(w)))
  BY <1>3, ThreeParts
<1>. QED  BY <1>3, <1>4, <1>5, <1>6, <1>7

\* What is left of the buffer when its first n bytes are gone.
LEMMA BufferRest ==
    ASSUME NEW b \in Seq(Byte), NEW n \in 0..Len(b)
    PROVE  Behind(SubSeq(b, n + 1, Len(b)), b, n)
<1>1. Len(b) \in Nat /\ n + 1 \in 1..(Len(b) + 1) /\ Len(b) \in 0..Len(b) /\ n + 1 <= Len(b) + 1
  BY LenProperties
<1>2. /\ SubSeq(b, n + 1, Len(b)) \in Seq(Byte)
      /\ Len(SubSeq(b, n + 1, Len(b))) = Len(b) + 1 - (n + 1)
      /\ \A i \in 1..Len(SubSeq(b, n + 1, Len(b))) :
            SubSeq(b, n + 1, Len(b))[i] = b[n + 1 + i - 1]
  BY <1>1, SubSeqKeeps
<1>3. Len(b) + 1 - (n + 1) = Len(b) - n /\ Len(b) - n \in Nat
  BY <1>1
<1>4. \A i \in 1..(Len(b) - n) : n + 1 + i - 1 = i + n
  BY <1>1
<1>. QED  BY <1>2, <1>3, <1>4 DEF Behind

LEMMA FrontGoes ==
    ASSUME NEW b \in Seq(Byte), NEW w \in Seq(Byte), NEW n \in 0..Len(b),
           NEW a, Behind(a, b, n)
    PROVE  Behind(a \o w, b \o w, n)
<1>0. a \in Seq(Byte) /\ Len(a) = Len(b) - n /\ \A i \in 1..Len(a) : a[i] = b[i + n]
  BY DEF Behind
<1>1. Len(a) \in Nat /\ Len(b) \in Nat /\ Len(w) \in Nat /\ n \in Nat
  BY <1>0, LenProperties
<1>2. /\ a \o w \in Seq(Byte) /\ Len(a \o w) = Len(a) + Len(w)
      /\ \A i \in 1..Len(a) + Len(w) : (a \o w)[i] = IF i <= Len(a) THEN a[i] ELSE w[i - Len(a)]
  BY <1>0, ConcatProperties
<1>3. /\ Len(b \o w) = Len(b) + Len(w)
      /\ \A i \in 1..Len(b) + Len(w) : (b \o w)[i] = IF i <= Len(b) THEN b[i] ELSE w[i - Len(b)]
  BY ConcatProperties
<1>4. Len(a \o w) = Len(b \o w) - n
  BY <1>0, <1>1, <1>2, <1>3
<1>5. ASSUME NEW p \in 1..Len(a \o w) PROVE (a \o w)[p] = (b \o w)[p + n]
  <2>1. p \in 1..Len(a) + Len(w) /\ p \in Nat /\ p + n \in 1..Len(b) + Len(w)
    BY <1>0, <1>1, <1>2
  <2>2. CASE p <= Len(a)
    <3>1. p \in 1..Len(a) /\ p + n <= Len(b)
      BY <1>0, <1>1, <2>1, <2>2
    <3>2. (a \o w)[p] = a[p] /\ (b \o w)[p + n] = b[p + n]
      BY <1>2, <1>3, <2>1, <2>2, <3>1
    <3>. QED  BY <1>0, <3>1, <3>2
  <2>3. CASE ~(p <= Len(a))
    <3>1. ~(p + n <= Len(b)) /\ p - Len(a) = p + n - Len(b)
      BY <1>0, <1>1, <2>1, <2>3, SameDistance
    <3>2. (a \o w)[p] = w[p - Len(a)]
      BY <1>2, <2>1, <2>3
    <3>3. (b \o w)[p + n] = w[p + n - Len(b)]
      BY <1>3, <2>1, <3>1
    <3>. QED  BY <3>1, <3>2, <3>3
  <2>. QED  BY <2>2, <2>3
<1>. QED  BY <1>2, <1>4, <1>5 DEF Behind

-----------------------------------------------------------------------------
(* The actions keep the frames where they are.                             *)

\* A queue without frames, whatever the bytes.
LEMMA NothingLaid ==
    ASSUME NEW b, NEW z
    PROVE  <<>> \in Seq(Entry) /\ Len(<<>>) = 0 /\ Laid(<<>>, z, b) /\ Till(<<>>, z, 0) = z
<1>1. <<>> \in Seq(Entry) /\ Len(<<>>) = 0
  BY EmptySeq
<1>2. 1..Len(<<>>) = {}
  BY <1>1
<1>. QED  BY <1>1, <1>2 DEF Laid, Till

LEMMA InvInit ==
    ASSUME Init
    PROVE  StreamInv
<1>1. <<>> \in Seq(Byte) /\ <<>> \o <<>> = <<>> /\ Len(<<>>) = 0
  BY EmptySeq, ConcatEmptySeq
<1>2. serial \in BOOLEAN /\ owed \in BOOLEAN /\ received \in Seq(Response)
  BY EmptySeq DEF Init
<1>3. pending = <<>> /\ stray = 0 /\ buf = <<>> /\ wire = <<>>
  BY DEF Init
<1>4. Bytes = <<>>
  BY <1>1, <1>3 DEF Bytes
<1>. QED  BY <1>1, <1>2, <1>3, <1>4, NothingLaid DEF StreamInv

LEMMA BytesType ==
    ASSUME StreamInv
    PROVE  /\ buf \in Seq(Byte) /\ wire \in Seq(Byte) /\ pending \in Seq(Entry)
           /\ Bytes \in Seq(Byte) /\ Len(Bytes) = Len(buf) + Len(wire)
           /\ Len(buf) \in Nat /\ Len(wire) \in Nat /\ Len(pending) \in Nat
           /\ DOMAIN pending = 1..Len(pending)
           /\ \A p \in 1..Len(buf) : Bytes[p] = buf[p]
<1>1. buf \in Seq(Byte) /\ wire \in Seq(Byte) /\ pending \in Seq(Entry)
  BY DEF StreamInv
<1>2. Len(pending) \in Nat /\ DOMAIN pending = 1..Len(pending)
  BY <1>1, LenProperties
<1>. QED  BY <1>1, <1>2, BufferIsFront DEF Bytes

\* Boundary and Till are the same.
LEMMA Boundaries ==
    ASSUME StreamInv, NEW i \in 0..Len(pending)
    PROVE  Boundary(i) = Till(pending, stray, i) /\ Boundary(i) \in Nat
<1>1. CASE i = 0
  BY <1>1 DEF Boundary, Till, StreamInv
<1>2. CASE i # 0
  <2>1. i \in 1..Len(pending)
    BY <1>2, BytesType
  <2>2. pending[i] \in Entry
    BY <2>1, BytesType, ElementOfSeq
  <2>. QED  BY <1>2, <2>2 DEF Boundary, Till, Entry
<1>. QED  BY <1>1, <1>2

LEMMA NotifyKeeps ==
    ASSUME StreamInv, NEW f \in Frames, Notify(f)
    PROVE  /\ StreamInv'
           /\ stray' = stray
           /\ \E e \in Entry : pending' = Append(pending, e)
<1>. DEFINE e == [says |-> decode(f), end |-> Len(buf) + Len(wire) + Len(f)]
<1>1. e \in Entry /\ pending' = Append(pending, e)
  <2>1. Len(buf) + Len(wire) + Len(f) \in Nat /\ decode(f) \in Message
    BY BytesType, ParameterTypes
  <2>2. e \in Entry
    BY <2>1 DEF Entry
  <2>. QED  BY <2>2 DEF Notify
<1>2. Till(pending, stray, Len(pending)) = Len(Bytes)
  BY DEF StreamInv
<1>3. f \in Seq(Byte) /\ Bytes \in Seq(Byte) /\ wire' = wire \o f /\ buf' = buf
  BY BytesType, ParameterTypes DEF Notify
<1>4. Bytes' = Bytes \o f /\ wire' \in Seq(Byte)
  <2>1. (buf \o wire) \o f = buf \o (wire \o f)
    <3>1. buf \in Seq(Byte) /\ wire \in Seq(Byte) /\ f \in Seq(Byte)
      BY <1>3, BytesType
    <3>. QED  BY <3>1, ThreeParts
  <2>2. wire \o f \in Seq(Byte)
    BY <1>3, BytesType, ConcatProperties
  <2>. QED  BY <1>3, <2>1, <2>2 DEF Bytes
<1>5. e = [says |-> decode(f), end |-> Len(Bytes) + Len(f)]
  BY BytesType
<1>6. pending \in Seq(Entry) /\ stray \in Nat /\ Laid(pending, stray, Bytes)
  BY DEF StreamInv
<1>. HIDE DEF e
<1>7. /\ Append(pending, e) \in Seq(Entry)
      /\ Laid(Append(pending, e), stray, Bytes \o f)
      /\ Till(Append(pending, e), stray, Len(Append(pending, e))) = Len(Bytes \o f)
  BY <1>2, <1>3, <1>5, <1>6, LaidLonger
<1>8. serial' \in BOOLEAN /\ owed' \in BOOLEAN /\ buf' \in Seq(Byte) /\ stray' = stray
      /\ received' \in Seq(Response)
  BY DEF Notify, StreamInv
<1>. QED  BY <1>1, <1>4, <1>6, <1>7, <1>8 DEF StreamInv

LEMMA TearKeeps ==
    ASSUME StreamInv, Tear
    PROVE  StreamInv'
<1>1. wire' = <<>> /\ pending' = <<>> /\ stray' = Len(buf) /\ buf' = buf /\ <<>> \in Seq(Byte)
  BY EmptySeq DEF Tear
<1>2. serial' \in BOOLEAN /\ owed' \in BOOLEAN /\ buf' \in Seq(Byte) /\ stray' \in Nat
      /\ received' \in Seq(Response)
  BY <1>1, BytesType DEF Tear, StreamInv
<1>3. Bytes' = buf
  BY <1>1, BytesType, ConcatEmptySeq DEF Bytes
<1>. QED  BY <1>1, <1>2, <1>3, NothingLaid DEF StreamInv

\* Steps that leave the bytes and the queue as they are.
LEMMA WaitingKeeps ==
    ASSUME StreamInv, StartRead \/ ReadStream \/ Timeout \/ UNCHANGED vars
    PROVE  StreamInv' /\ pending' = pending /\ stray' = stray
<1>1. pending' = pending /\ stray' = stray /\ serial' = serial /\ owed' \in BOOLEAN
      /\ received' \in Seq(Response)
  BY DEF StreamInv, StartRead, ReadStream, Timeout, vars
<1>2. buf' \in Seq(Byte) /\ wire' \in Seq(Byte) /\ Bytes' = Bytes
  <2>1. CASE ReadStream
    <3>1. PICK k \in 1..Len(wire) : /\ buf' = push(buf, SubSeq(wire, 1, k))
                                    /\ wire' = SubSeq(wire, k + 1, Len(wire))
      BY <2>1 DEF ReadStream
    <3>2. buf' = buf \o SubSeq(wire, 1, k)
      BY <3>1 DEF push
    <3>3. buf \in Seq(Byte) /\ wire \in Seq(Byte)
      BY BytesType
    <3>4. /\ buf \o SubSeq(wire, 1, k) \in Seq(Byte)
          /\ SubSeq(wire, k + 1, Len(wire)) \in Seq(Byte)
          /\ (buf \o SubSeq(wire, 1, k)) \o SubSeq(wire, k + 1, Len(wire)) = buf \o wire
      BY <3>3, FragmentStays
    <3>. QED  BY <3>1, <3>2, <3>4 DEF Bytes
  <2>2. CASE ~ReadStream
    <3>1. buf' = buf /\ wire' = wire
      BY <2>2 DEF StartRead, Timeout, vars
    <3>. QED  BY <3>1, BytesType DEF Bytes
  <2>. QED  BY <2>1, <2>2
<1>. QED  BY <1>1, <1>2 DEF StreamInv

\* Whatever bytes of the buffer go, the frames behind them stay.
LEMMA GoneKeeps ==
    ASSUME StreamInv, NEW n \in 0..Len(buf), Gone(n), Behind(Bytes', Bytes, n)
    PROVE  /\ Laid(pending', stray', Bytes')
           /\ Till(pending', stray', Len(pending')) = Len(Bytes')
           /\ pending' \in Seq(Entry) /\ stray' \in Nat
           /\ \E k \in 0..Len(pending) :
                 /\ Later(pending', pending, k)
                 /\ stray' = Boundary(k) - n /\ n <= Boundary(k)
                 /\ \A i \in 1..Len(pending) : i <= k <=> Boundary(i - 1) < n
<1>1. PICK k \in 0..Len(pending) :
         /\ \A i \in 1..Len(pending) : i <= k <=> Boundary(i - 1) < n
         /\ pending' = Nearer(SubSeq(pending, k + 1, Len(pending)), n)
         /\ stray' = Boundary(k) - n
  BY DEF Gone
<1>2. /\ pending \in Seq(Entry) /\ stray \in Nat /\ Laid(pending, stray, Bytes)
      /\ Till(pending, stray, Len(pending)) = Len(Bytes)
  BY DEF StreamInv
<1>3. /\ Len(pending) \in Nat /\ Len(buf) \in Nat /\ Len(Bytes) \in Nat /\ n \in Nat
      /\ n <= Len(Bytes) /\ Bytes \in Seq(Byte)
  BY BytesType
<1>4. Boundary(k) = Till(pending, stray, k) /\ Boundary(k) \in Nat
  BY Boundaries
<1>5. n <= Boundary(k)
  <2>1. CASE k = Len(pending)
    BY <1>2, <1>3, <1>4, <2>1
  <2>2. CASE k # Len(pending)
    <3>1. k + 1 \in 1..Len(pending) /\ ~(k + 1 <= k) /\ (k + 1) - 1 = k
      BY <1>3, <2>2
    <3>2. ~(Boundary((k + 1) - 1) < n)
      BY <1>1, <3>1
    <3>3. ~(Boundary(k) < n)
      BY <3>1, <3>2
    <3>. QED  BY <1>3, <1>4, <3>3
  <2>. QED  BY <2>1, <2>2
<1>6. n <= Till(pending, stray, k) /\ stray' = Till(pending, stray, k) - n
  BY <1>1, <1>4, <1>5
<1>7. /\ Later(pending', pending, k) /\ stray' \in Nat
      /\ Laid(pending', stray', Bytes')
      /\ Till(pending', stray', Len(pending')) = Len(Bytes')
  BY <1>1, <1>2, <1>3, <1>6, LaidShorter
<1>. QED  BY <1>1, <1>5, <1>7 DEF Later

\* What is taken for a frame goes; in step it is the first frame.
LEMMA TakeKeeps ==
    ASSUME StreamInv, TakeFrame
    PROVE  /\ StreamInv'
           /\ \E r \in Response : received' = Append(received, r)
           /\ \E k \in 0..Len(pending) : Later(pending', pending, k)
           /\ stray = 0 => /\ pending # <<>> /\ received' = Append(received, pending[1].says)
                           /\ Later(pending', pending, 1) /\ stray' = 0
<1>1. Till(pending, stray, Len(pending)) = Len(Bytes) /\ HasFrame(buf)
  BY DEF StreamInv, TakeFrame
<1>2. Len(buf) >= HEADER_LEN /\ HEADER_LEN = 8 /\ Len(buf) >= FrameLen(buf)
  BY <1>1 DEF HasFrame, HEADER_LEN
<1>3. Len(buf) <= Len(Bytes) /\ Len(Bytes) > 0
  BY <1>2, BytesType
<1>4. PICK n \in 0..Len(buf) : n = FrameLen(buf) /\ n > 0
  <2>1. 3 \in 1..Len(buf) /\ 4 \in 1..Len(buf)
    BY <1>2, BytesType
  <2>2. buf[3] \in Byte /\ buf[4] \in Byte
    BY <2>1, BytesType, ElementOfSeq
  <2>3. PICK hi \in Nat, lo \in Nat : hi = buf[3] /\ lo = buf[4]
    BY <2>2 DEF Byte
  <2>4. hi * ByteMod + lo \in Nat
    <3>1. hi * ByteMod \in Nat
      BY ByteModAssumption
    <3>. QED  BY <3>1
  <2>5. FrameLen(buf) = 8 + (hi * ByteMod + lo)
    BY <1>2, <2>3 DEF FrameLen, FromBigEndian
  <2>. QED  BY <1>2, <2>4, <2>5, BytesType
<1>5. PICK a : a = rest(buf) /\ Behind(a, buf, n)
  BY <1>4, BytesType, BufferRest DEF rest
<1>6. buf' = a /\ wire' = wire /\ Bytes' = a \o wire /\ buf' \in Seq(Byte)
  BY <1>5 DEF TakeFrame, Bytes, Behind
<1>7. Behind(Bytes', Bytes, n)
  <2>1. Behind(a \o wire, buf \o wire, n)
    BY <1>5, BytesType, FrontGoes
  <2>. QED  BY <1>6, <2>1 DEF Bytes
<1>8. Gone(n)
  BY <1>4 DEF TakeFrame
<1>9. /\ Laid(pending', stray', Bytes')
      /\ Till(pending', stray', Len(pending')) = Len(Bytes')
      /\ pending' \in Seq(Entry) /\ stray' \in Nat
  BY <1>7, <1>8, GoneKeeps
<1>10. PICK k \in 0..Len(pending) :
          /\ Later(pending', pending, k)
          /\ stray' = Boundary(k) - n /\ n <= Boundary(k)
          /\ \A i \in 1..Len(pending) : i <= k <=> Boundary(i - 1) < n
  BY <1>7, <1>8, GoneKeeps
<1>11. serial' \in BOOLEAN /\ owed' \in BOOLEAN /\ wire' \in Seq(Byte)
  BY DEF TakeFrame, StreamInv
<1>14. PICK r \in Response : received' = Append(received, r)
  <2>1. next_frame(buf) \in Seq(Byte)
    <3>1. 1 \in 1..(Len(buf) + 1) /\ n \in 0..Len(buf) /\ 1 <= n + 1
      BY <1>4, BytesType
    <3>2. SubSeq(buf, 1, n) \in Seq(Byte)
      BY <3>1, BytesType, SubSeqKeeps
    <3>. QED  BY <1>4, <3>2 DEF next_frame
  <2>2. received' = Append(received, decode(next_frame(buf)))
    BY DEF TakeFrame
  <2>3. decode(next_frame(buf)) \in Response
    BY <2>1 DEF Response
  <2>. QED  BY <2>2, <2>3
<1>15. received' \in Seq(Response)
  BY <1>14, AppendProperties DEF StreamInv
<1>12. StreamInv'
  BY <1>6, <1>9, <1>11, <1>15 DEF StreamInv
<1>13. ASSUME stray = 0
       PROVE  /\ pending # <<>> /\ received' = Append(received, pending[1].says)
              /\ Later(pending', pending, 1) /\ stray' = 0
  <2>1. pending # <<>>
    BY <1>1, <1>3, <1>13, NothingLaid
  <2>2. pending \in Seq(Entry) /\ Laid(pending, 0, Bytes)
    BY <1>13 DEF StreamInv
  <2>3. FrameLen(buf) = pending[1].end /\ decode(next_frame(buf)) = pending[1].says
    <3>1. buf \in Seq(Byte) /\ Bytes \in Seq(Byte) /\ \A p \in 1..Len(buf) : buf[p] = Bytes[p]
      BY BytesType
    <3>. QED  BY <1>1, <1>2, <1>3, <2>1, <2>2, <3>1, FirstFrame
  <2>4. Len(pending) \in Nat /\ 1 \in 1..Len(pending) /\ 1 \in 0..Len(pending)
    BY <2>1, <2>2, EmptySeq
  <2>5. Boundary(1) = n /\ Boundary(0) = 0 /\ 1 - 1 = 0 /\ 2 - 1 = 1
    BY <1>4, <1>13, <2>3 DEF Boundary
  <2>6. 1 <= k
    <3>1. Boundary(1 - 1) < n
      BY <1>4, <2>5
    <3>. QED  BY <1>10, <2>4, <3>1
  <2>7. ~(2 <= k)
    <3>1. SUFFICES ASSUME 2 <= k PROVE FALSE
      OBVIOUS
    <3>2. 2 \in 1..Len(pending)
      BY <2>4, <3>1
    <3>3. Boundary(2 - 1) < n
      BY <1>10, <3>1, <3>2
    <3>4. n < n
      BY <2>5, <3>3
    <3>. QED  BY <3>4
  <2>8. k = 1
    BY <2>4, <2>6, <2>7
  <2>9. stray' = 0
    BY <1>10, <2>5, <2>8
  <2>10. received' = Append(received, pending[1].says)
    BY <2>3 DEF TakeFrame
  <2>. QED  BY <1>10, <2>1, <2>8, <2>9, <2>10
<1>. QED  BY <1>10, <1>12, <1>13, <1>14

\* The buffer goes.
LEMMA ResetKeeps ==
    ASSUME StreamInv, reset_buffer
    PROVE  /\ StreamInv'
           /\ Bytes' = wire
           /\ \E k \in 0..Len(pending) :
                 /\ Later(pending', pending, k)
                 /\ stray = 0 /\ k = 0 => stray' = 0
<1>1. /\ serial' \in BOOLEAN /\ owed' \in BOOLEAN
      /\ buf' = <<>> /\ wire' = wire /\ buf' \in Seq(Byte) /\ wire' \in Seq(Byte)
      /\ received' \in Seq(Response)
  BY EmptySeq DEF reset_buffer, StreamInv
<1>2. Bytes' = wire
  BY <1>1, BytesType, ConcatEmptySeq DEF Bytes
<1>3. Gone(Len(buf)) /\ Len(buf) \in 0..Len(buf)
  BY BytesType DEF reset_buffer
<1>4. Behind(Bytes', Bytes, Len(buf))
  <2>1. Behind(<<>>, buf, Len(buf))
    <3>1. <<>> \in Seq(Byte) /\ Len(<<>>) = 0 /\ 1..0 = {}
      BY EmptySeq
    <3>. QED  BY <3>1, BytesType DEF Behind
  <2>2. Behind(<<>> \o wire, buf \o wire, Len(buf))
    BY <1>3, <2>1, BytesType, FrontGoes
  <2>3. <<>> \o wire = wire
    BY BytesType, ConcatEmptySeq
  <2>. QED  BY <1>2, <2>2, <2>3 DEF Bytes
<1>5. /\ Laid(pending', stray', Bytes')
      /\ Till(pending', stray', Len(pending')) = Len(Bytes')
      /\ pending' \in Seq(Entry) /\ stray' \in Nat
  BY <1>3, <1>4, GoneKeeps
<1>6. PICK k \in 0..Len(pending) :
          /\ Later(pending', pending, k)
          /\ stray' = Boundary(k) - Len(buf) /\ Len(buf) <= Boundary(k)
          /\ \A i \in 1..Len(pending) : i <= k <=> Boundary(i - 1) < Len(buf)
  BY <1>3, <1>4, GoneKeeps
<1>7. ASSUME stray = 0, k = 0 PROVE stray' = 0
  <2>1. Boundary(k) = 0
    BY <1>7 DEF Boundary
  <2>. QED  BY <1>6, <2>1, BytesType
<1>8. StreamInv'
  BY <1>1, <1>5 DEF StreamInv
<1>. QED  BY <1>2, <1>6, <1>7, <1>8

LEMMA InvNext ==
    ASSUME StreamInv, [Next]_vars
    PROVE  StreamInv'
<1>1. ASSUME NEW f \in Frames, Notify(f) PROVE StreamInv'
  BY <1>1, NotifyKeeps
<1>2. CASE Tear
  BY <1>2, TearKeeps
<1>3. CASE StartRead \/ ReadStream \/ Timeout \/ UNCHANGED vars
  BY <1>3, WaitingKeeps
<1>4. CASE TakeFrame
  BY <1>4, TakeKeeps
<1>5. CASE reset_buffer
  BY <1>5, ResetKeeps
<1>. QED  BY <1>1, <1>2, <1>3, <1>4, <1>5 DEF Next

THEOREM StreamInvariant == Spec => []StreamInv
<1>1. Init => StreamInv
  BY InvInit
<1>2. StreamInv /\ [Next]_vars => StreamInv'
  BY InvNext
<1>. QED  BY <1>1, <1>2, PTL DEF Spec

-----------------------------------------------------------------------------
(* The assembler stays in step.                                            *)

\* A frame cut out of the bytes where it lies.
LEMMA CutOut ==
    ASSUME NEW b \in Seq(Byte), NEW f \in Seq(Byte), NEW t \in Nat, NEW u \in Nat,
           u = t + Len(f), u <= Len(b), \A j \in 1..Len(f) : b[t + j] = f[j]
    PROVE  SubSeq(b, t + 1, u) = f
<1>1. Len(b) \in Nat /\ Len(f) \in Nat
  BY LenProperties
<1>2. t + 1 \in 1..(Len(b) + 1) /\ u \in 0..Len(b) /\ t + 1 <= u + 1 /\ u + 1 - (t + 1) = Len(f)
  BY <1>1
<1>3. /\ SubSeq(b, t + 1, u) \in Seq(Byte) /\ Len(SubSeq(b, t + 1, u)) = u + 1 - (t + 1)
      /\ \A j \in 1..Len(SubSeq(b, t + 1, u)) : SubSeq(b, t + 1, u)[j] = b[t + 1 + j - 1]
  BY <1>2, SubSeqKeeps
<1>4. PICK s \in Seq(Byte) : /\ s = SubSeq(b, t + 1, u) /\ Len(s) = Len(f)
                             /\ \A j \in 1..Len(s) : s[j] = b[t + 1 + j - 1]
  BY <1>2, <1>3
<1>5. \A j \in 1..Len(f) : t + 1 + j - 1 = t + j
  BY <1>1
<1>6. \A j \in 1..Len(f) : s[j] = f[j]
  BY <1>4, <1>5
<1>7. s = f
  BY <1>4, <1>6, SeqEqual
<1>. QED  BY <1>4, <1>7

LEMMA FrameCut ==
    ASSUME NEW q \in Seq(Entry), NEW b \in Seq(Byte), NEW z \in Nat, Laid(q, z, b), NEW i \in 1..Len(q)
    PROVE  LET s == SubSeq(b, Till(q, z, i - 1) + 1, q[i].end) IN
           /\ 0 <= Till(q, z, i - 1) /\ Till(q, z, i - 1) <= q[i].end /\ q[i].end <= Len(b)
           /\ HasFrame(s) /\ next_frame(s) = s /\ decode(s) = q[i].says
<1>1. PICK f \in Frames :
         /\ q[i].says = decode(f)
         /\ q[i].end = Till(q, z, i - 1) + Len(f) /\ q[i].end <= Len(b)
         /\ \A j \in 1..Len(f) : b[Till(q, z, i - 1) + j] = f[j]
  BY DEF Laid
<1>2. PICK t \in Nat : t = Till(q, z, i - 1)
  <2>1. CASE i = 1
    BY <2>1 DEF Till
  <2>2. CASE i # 1
    <3>1. i - 1 \in 1..Len(q) /\ i - 1 # 0
      BY <2>2, LenProperties
    <3>2. q[i - 1] \in Entry
      BY <3>1, ElementOfSeq
    <3>. QED  BY <3>1, <3>2 DEF Till, Entry
  <2>. QED  BY <2>1, <2>2
<1>3. f \in Seq(Byte) /\ Len(f) \in Nat /\ Len(f) >= 8 /\ Len(f) = FrameLen(f)
  BY ParameterTypes
<1>4. PICK u \in Nat : u = q[i].end /\ u = t + Len(f) /\ u <= Len(b)
  BY <1>1, <1>2, <1>3
<1>5. SubSeq(b, t + 1, u) = f
  BY <1>1, <1>2, <1>3, <1>4, CutOut
<1>6. HasFrame(f) /\ next_frame(f) = f
  BY <1>3, SubSeqFull, ParameterTypes DEF HasFrame, next_frame
<1>7. 0 <= t /\ t <= u
  BY <1>3, <1>4
<1>. QED  BY <1>1, <1>2, <1>4, <1>5, <1>6, <1>7

LEMMA LaidInStep ==
    ASSUME StreamInv
    PROVE  InStep
<1>1. \A i \in 1..Len(pending) : Boundary(i - 1) = Till(pending, stray, i - 1)
  <2>1. \A i \in 1..Len(pending) : i - 1 \in 0..Len(pending)
    BY BytesType
  <2>. QED  BY <2>1, Boundaries
<1>2. \A i \in 1..Len(pending) :
         LET s == SubSeq(Bytes, Till(pending, stray, i - 1) + 1, pending[i].end) IN
         /\ 0 <= Till(pending, stray, i - 1) /\ Till(pending, stray, i - 1) <= pending[i].end
         /\ pending[i].end <= Len(Bytes)
         /\ HasFrame(s) /\ next_frame(s) = s /\ decode(s) = pending[i].says
  BY BytesType, FrameCut DEF StreamInv
<1>3. Boundary(Len(pending)) = Len(Bytes)
  <2>1. Len(pending) \in 0..Len(pending)
    BY BytesType
  <2>. QED  BY <2>1, Boundaries DEF StreamInv
<1>. QED  BY <1>1, <1>2, <1>3, BytesType DEF InStep

\* Behind the bytes of frames that were lost in part, what is buffered and on
\* its way is, frame by frame, what the device has notified and nobody has read
\* (next_frame, reset_buffer).
THEOREM StreamInStep == Spec => []InStep
<1>1. StreamInv => InStep
  BY LaidInStep
<1>. QED  BY <1>1, StreamInvariant, PTL

\* The reset after a timeout puts the host in step again, whatever it has read,
\* unless bytes are still on their way (reset_buffer).
THEOREM ResetPutsInStep == Spec => ResetRecovers
<1>. DEFINE Recovers == read = "timed_out" /\ read' = "idle" /\ wire = <<>> => stray' = 0
<1>1. StreamInv /\ [Next]_vars => [Recovers]_vars
  <2>1. SUFFICES ASSUME StreamInv, Next, read = "timed_out", read' = "idle", wire = <<>>
                 PROVE  stray' = 0
    OBVIOUS
  <2>2. reset_buffer
    BY <2>1 DEF Next, Notify, Tear, StartRead, ReadStream, TakeFrame, Timeout
  <2>3. StreamInv' /\ Bytes' = wire
    BY <2>1, <2>2, ResetKeeps
  <2>4. Len(Bytes') = 0
    BY <2>1, <2>3, EmptySeq
  <2>5. /\ pending' \in Seq(Entry) /\ stray' \in Nat /\ Laid(pending', stray', Bytes')
        /\ Till(pending', stray', Len(pending')) = 0
    BY <2>3, <2>4 DEF StreamInv
  <2>6. Len(pending') \in Nat
    BY <2>5, LenProperties
  <2>7. CASE Len(pending') = 0
    BY <2>5, <2>7 DEF Till
  <2>8. CASE Len(pending') # 0
    <3>1. Len(pending') \in 1..Len(pending') /\ pending'[Len(pending')].end = 0
      BY <2>5, <2>6, <2>8 DEF Till
    <3>2. stray' < pending'[Len(pending')].end
      BY <2>5, <3>1 DEF Laid
    <3>. QED  BY <2>5, <3>1, <3>2
  <2>. QED  BY <2>7, <2>8
<1>. QED  BY <1>1, StreamInvariant, PTL DEF Spec, ResetRecovers

-----------------------------------------------------------------------------
(* The reads see a lossy queue of responses.                               *)

Says(q) == [i \in DOMAIN q |-> q[i].says]

LEMMA SaysType ==
    ASSUME NEW q \in Seq(Entry)
    PROVE  /\ Says(q) \in Seq(Message) /\ Len(Says(q)) = Len(q) /\ Len(q) \in Nat
           /\ \A i \in 1..Len(q) : Says(q)[i] = q[i].says
<1>1. Len(q) \in Nat /\ DOMAIN q = 1..Len(q) /\ \A i \in 1..Len(q) : q[i] \in Entry
  BY LenProperties, ElementOfSeq
<1>2. Says(q) = [i \in 1..Len(q) |-> q[i].says]
  BY <1>1 DEF Says
<1>3. \A i \in 1..Len(q) : q[i].says \in Message
  BY <1>1 DEF Entry
<1>4. Says(q) \in [1..Len(q) -> Message]
  BY <1>2, <1>3
<1>5. Says(q) \in Seq(Message)
  BY <1>1, <1>4, SeqDef
<1>6. DOMAIN Says(q) = 1..Len(q) /\ DOMAIN Says(q) = 1..Len(Says(q)) /\ Len(Says(q)) \in Nat
  BY <1>4, <1>5, LenProperties
<1>7. Len(Says(q)) = Len(q)
  BY <1>1, <1>6
<1>. QED  BY <1>1, <1>2, <1>5, <1>7

LEMMA SaysLonger ==
    ASSUME NEW q \in Seq(Entry), NEW e \in Entry
    PROVE  e.says \in Message /\ Says(Append(q, e)) = Append(Says(q), e.says)
<1>. DEFINE r == Append(q, e)
            s == Append(Says(q), e.says)
<1>1. e.says \in Message
  BY DEF Entry
<1>2. /\ r \in Seq(Entry) /\ Len(r) = Len(q) + 1 /\ r[Len(q) + 1] = e
      /\ \A i \in 1..Len(q) : r[i] = q[i]
  BY AppendProperties
<1>3. /\ s \in Seq(Message) /\ Len(s) = Len(q) + 1 /\ s[Len(q) + 1] = e.says
      /\ \A i \in 1..Len(q) : s[i] = q[i].says
  BY <1>1, SaysType, AppendProperties
<1>. HIDE DEF r, s
<1>4. /\ Says(r) \in Seq(Message) /\ Len(Says(r)) = Len(r)
      /\ \A i \in 1..Len(r) : Says(r)[i] = r[i].says
  BY <1>2, SaysType
<1>5. Len(q) \in Nat
  BY LenProperties
<1>6. \A i \in 1..Len(Says(r)) : Says(r)[i] = s[i]
  <2>1. ASSUME NEW i \in 1..(Len(q) + 1) PROVE r[i].says = s[i]
    <3>1. i \in 1..Len(q) \/ i = Len(q) + 1
      BY <1>5
    <3>. QED  BY <1>2, <1>3, <3>1
  <2>. QED  BY <1>2, <1>4, <2>1
<1>7. Says(r) = s
  BY <1>2, <1>3, <1>4, <1>6, SeqEqual
<1>. QED  BY <1>1, <1>7 DEF r, s

LEMMA SaysLater ==
    ASSUME NEW q \in Seq(Entry), NEW k \in 0..Len(q), NEW r, Later(r, q, k)
    PROVE  Says(r) = SubSeq(Says(q), k + 1, Len(Says(q)))
<1>1. r \in Seq(Entry) /\ Len(r) = Len(q) - k /\ \A i \in 1..Len(r) : r[i].says = q[i + k].says
  BY DEF Later
<1>2. /\ Says(q) \in Seq(Message) /\ Len(Says(q)) = Len(q) /\ Len(q) \in Nat
      /\ \A i \in 1..Len(q) : Says(q)[i] = q[i].says
  BY SaysType
<1>3. /\ Says(r) \in Seq(Message) /\ Len(Says(r)) = Len(r)
      /\ \A i \in 1..Len(r) : Says(r)[i] = r[i].says
  BY <1>1, SaysType
<1>4. PICK s : s = SubSeq(Says(q), k + 1, Len(Says(q)))
  OBVIOUS
<1>5. /\ s \in Seq(Message) /\ Len(s) = Len(Says(q)) + 1 - (k + 1)
      /\ \A i \in 1..Len(s) : s[i] = Says(q)[k + 1 + i - 1]
  <2>1. k + 1 \in 1..(Len(Says(q)) + 1) /\ Len(Says(q)) \in 0..Len(Says(q))
        /\ k + 1 <= Len(Says(q)) + 1
    BY <1>2
  <2>. QED  BY <1>2, <1>4, <2>1, SubSeqKeeps
<1>6. Len(s) = Len(r)
  BY <1>1, <1>2, <1>5
<1>7. ASSUME NEW i \in 1..Len(r) PROVE Says(r)[i] = s[i]
  <2>1. k + 1 + i - 1 = i + k /\ i + k \in 1..Len(q)
    BY <1>1, <1>2
  <2>2. s[i] = Says(q)[i + k]
    BY <1>5, <1>6, <2>1
  <2>. QED  BY <1>1, <1>2, <1>3, <2>1, <2>2
<1>8. Says(r) = s
  BY <1>3, <1>5, <1>6, <1>7, SeqEqual
<1>. QED  BY <1>4, <1>8

LEMMA FrontOfAppend ==
    ASSUME NEW S, NEW q \in Seq(S), NEW x \in S
    PROVE  SubSeq(Append(q, x), 1, Len(q)) = q
<1>. DEFINE r == Append(q, x)
<1>1. /\ r \in Seq(S) /\ Len(r) = Len(q) + 1 /\ Len(q) \in Nat
      /\ \A i \in 1..Len(q) : r[i] = q[i]
  BY AppendProperties, LenProperties
<1>. HIDE DEF r
<1>2. 1 \in 1..(Len(r) + 1) /\ Len(q) \in 0..Len(r) /\ 1 <= Len(q) + 1 /\ Len(q) + 1 - 1 = Len(q)
  BY <1>1
<1>3. PICK s : s = SubSeq(r, 1, Len(q))
  OBVIOUS
<1>4. s \in Seq(S) /\ Len(s) = Len(q) /\ \A i \in 1..Len(s) : s[i] = r[1 + i - 1]
  BY <1>1, <1>2, <1>3, SubSeqKeeps
<1>5. \A i \in 1..Len(q) : 1 + i - 1 = i
  BY <1>1
<1>6. \A i \in 1..Len(s) : s[i] = q[i]
  BY <1>1, <1>4, <1>5
<1>7. s = q
  BY <1>4, <1>6, SeqEqual
<1>. QED  BY <1>3, <1>7 DEF r

LEMMA StepChannel ==
    ASSUME StreamInv, [Next]_vars
    PROVE  [Channel!Next]_(Channel!vars)
<1>. DEFINE Loses(k)  == Says(pending)' = SubSeq(Says(pending), k + 1, Len(Says(pending)))
            Notifies  == /\ \E m \in Message : Says(pending)' = Append(Says(pending), m)
                         /\ (stray > 0)' = (stray > 0) /\ received' = received
            Receives  == /\ ~(stray > 0) /\ Says(pending) # <<>>
                         /\ received' = Append(received, Head(Says(pending)))
                         /\ Says(pending)' = Tail(Says(pending))
                         /\ (stray > 0)' = (stray > 0)
            LosesSome == /\ \E k \in 0..Len(Says(pending)) : Loses(k) /\ (k = 0 => ~(stray > 0)')
                         /\ (stray > 0)' \in BOOLEAN
                         /\ received' = received
            Misreads  == /\ stray > 0
                         /\ \E k \in 0..Len(Says(pending)) : Loses(k)
                         /\ Len(received') = Len(received) + 1
                         /\ received = SubSeq(received', 1, Len(received))
                         /\ (stray > 0)' \in BOOLEAN
            Stays     == /\ Says(pending)' = Says(pending) /\ received' = received
                         /\ (stray > 0)' = (stray > 0)
<1>. SUFFICES Notifies \/ Receives \/ LosesSome \/ Misreads \/ Stays
  BY DEF Channel!Next, Channel!vars, Channel!Notify, Channel!Receive, Channel!Lose,
         Channel!Misread, Channel!Loses, Says, Message
<1>1. pending \in Seq(Entry) /\ stray \in Nat
  BY DEF StreamInv
<1>2. ASSUME NEW f \in Frames, Notify(f) PROVE Notifies
  <2>1. PICK e \in Entry : pending' = Append(pending, e)
    BY <1>2, NotifyKeeps
  <2>2. Says(pending)' = Append(Says(pending), e.says) /\ e.says \in Message
    BY <1>1, <2>1, SaysLonger
  <2>3. received' = received /\ (stray > 0)' = (stray > 0)
    BY <1>2 DEF Notify
  <2>4. \E m \in Message : Says(pending)' = Append(Says(pending), m)
    BY <2>2
  <2>. QED  BY <2>3, <2>4
<1>3. ASSUME NEW k \in 0..Len(pending), Later(pending', pending, k)
      PROVE  /\ Loses(k) /\ k \in 0..Len(Says(pending))
             /\ k = 0 => Says(pending)' = Says(pending)
  <2>1. Loses(k)
    BY <1>1, <1>3, SaysLater
  <2>2. Says(pending) \in Seq(Message) /\ Len(Says(pending)) = Len(pending)
    BY <1>1, SaysType
  <2>3. ASSUME k = 0 PROVE Says(pending)' = Says(pending)
    <3>1. k + 1 = 1
      BY <2>3
    <3>2. Says(pending)' = SubSeq(Says(pending), 1, Len(Says(pending)))
      BY <2>1, <3>1
    <3>. QED  BY <2>2, <3>2, SubSeqFull
  <2>. QED  BY <2>1, <2>2, <2>3
<1>. HIDE DEF Loses
<1>4. (stray > 0)' \in BOOLEAN
  OBVIOUS
\* Frames are lost, and nothing is read.
<1>5. ASSUME NEW k \in 0..Len(pending), Later(pending', pending, k), received' = received,
             stray = 0 /\ k = 0 => stray' = 0, stray' \in Nat
      PROVE  LosesSome \/ Stays
  <2>1. /\ Loses(k) /\ k \in 0..Len(Says(pending))
        /\ k = 0 => Says(pending)' = Says(pending)
    BY <1>3, <1>5
  <2>2. CASE k = 0 => ~(stray > 0)'
    <3>1. LosesSome
      BY <1>4, <1>5, <2>1, <2>2
    <3>. QED  BY <3>1
  <2>3. CASE k = 0 /\ stray' > 0
    <3>1. stray > 0
      BY <1>1, <1>5, <2>3
    <3>2. (stray > 0)' = (stray > 0)
      BY <2>3, <3>1
    <3>3. Stays
      BY <1>5, <2>1, <2>3, <3>2
    <3>. QED  BY <3>3
  <2>. QED  BY <2>2, <2>3
<1>6. CASE Tear
  <2>1. pending' = <<>> /\ received' = received /\ stray' \in Nat
    BY <1>6, TearKeeps DEF Tear, StreamInv
  <2>2. Len(pending) \in 0..Len(pending) /\ Later(pending', pending, Len(pending))
    <3>1. Len(pending) \in Nat /\ Len(pending) - Len(pending) = 0
      BY BytesType
    <3>2. /\ pending' \in Seq(Entry) /\ Len(pending') = 0
          /\ 1..0 = {}
      BY <2>1, NothingLaid
    <3>. QED  BY <3>1, <3>2 DEF Later
  <2>3. ASSUME stray = 0, Len(pending) = 0 PROVE stray' = 0
    <3>1. Len(Bytes) = 0
      BY <2>3 DEF StreamInv, Till
    <3>2. stray' = Len(buf)
      BY <1>6 DEF Tear
    <3>. QED  BY <3>1, <3>2, BytesType
  <2>4. LosesSome \/ Stays
    BY <1>5, <2>1, <2>2, <2>3
  <2>. QED  BY <2>4
<1>7. CASE StartRead \/ ReadStream \/ Timeout \/ UNCHANGED vars
  <2>1. pending' = pending /\ received' = received /\ stray' = stray
    BY <1>7, WaitingKeeps DEF StartRead, ReadStream, Timeout, vars
  <2>2. Stays
    BY <2>1 DEF Says
  <2>. QED  BY <2>2
<1>8. CASE TakeFrame /\ stray = 0
  <2>1. /\ pending # <<>> /\ received' = Append(received, pending[1].says)
        /\ Later(pending', pending, 1) /\ stray' = 0
    BY <1>8, TakeKeeps
  <2>2. Len(pending) \in Nat \ {0} /\ 1 \in 0..Len(pending) /\ 1 \in 1..Len(pending)
    BY <1>1, <2>1, EmptySeq
  <2>3. /\ Says(pending) \in Seq(Message) /\ Len(Says(pending)) = Len(pending)
        /\ Says(pending)[1] = pending[1].says
    BY <1>1, <2>2, SaysType
  <2>4. Says(pending) # <<>>
    BY <2>2, <2>3, EmptySeq
  <2>5. Says(pending)' = SubSeq(Says(pending), 1 + 1, Len(Says(pending)))
    BY <1>1, <2>1, <2>2, SaysLater
  <2>6. /\ Tail(Says(pending)) = SubSeq(Says(pending), 2, Len(Says(pending)))
        /\ Head(Says(pending)) = Says(pending)[1]
    BY <2>3, <2>4, TailIsSubSeq, TailKeeps
  <2>7. 1 + 1 = 2
    OBVIOUS
  <2>8. ~(stray > 0) /\ (stray > 0)' = (stray > 0)
    BY <1>8, <2>1
  <2>9. Receives
    BY <2>1, <2>3, <2>4, <2>5, <2>6, <2>7, <2>8
  <2>. QED  BY <2>9
<1>9. CASE TakeFrame /\ stray # 0
  <2>1. stray > 0
    BY <1>1, <1>9
  <2>2. PICK r \in Response : received' = Append(received, r)
    BY <1>9, TakeKeeps
  <2>3. Len(received') = Len(received) + 1 /\ received = SubSeq(received', 1, Len(received))
    <3>1. received \in Seq(Response) /\ Len(received) \in Nat
      BY LenProperties DEF StreamInv
    <3>. QED  BY <2>2, <3>1, AppendProperties, FrontOfAppend
  <2>4. PICK k \in 0..Len(pending) : Later(pending', pending, k)
    BY <1>9, TakeKeeps
  <2>5. Loses(k) /\ k \in 0..Len(Says(pending))
    BY <1>3, <2>4
  <2>6. Misreads
    BY <1>4, <2>1, <2>3, <2>5
  <2>. QED  BY <2>6
<1>10. CASE reset_buffer
  <2>1. PICK k \in 0..Len(pending) :
           /\ Later(pending', pending, k)
           /\ stray = 0 /\ k = 0 => stray' = 0
    BY <1>10, ResetKeeps
  <2>2. received' = received /\ stray' \in Nat
    BY <1>10, ResetKeeps DEF reset_buffer, StreamInv
  <2>3. LosesSome \/ Stays
    BY <1>5, <2>1, <2>2
  <2>. QED  BY <2>3
<1>. QED  BY <1>2, <1>6, <1>7, <1>8, <1>9, <1>10 DEF Next

\* The reads see a lossy queue of whole responses, however the bytes were cut
\* into fragments and whenever the reads time out, until what is lost is the
\* beginning or the end of a frame, and again from the next boundary they find
\* (FrameAssembler and reset_buffer).
THEOREM StreamChannel == Spec => ChannelSpec
<1>1. Init => Channel!Init
  <2>1. DOMAIN <<>> = {}
    BY NothingLaid, LenProperties
  <2>2. ASSUME stray = 0 PROVE (stray > 0) = FALSE
    BY <2>2
  <2>. QED  BY <2>1, <2>2 DEF Init, Channel!Init
<1>2. StreamInv /\ [Next]_vars => [Channel!Next]_(Channel!vars)
  BY StepChannel
<1>. QED  BY <1>1, <1>2, StreamInvariant, PTL DEF Spec, ChannelSpec, Channel!Spec

-----------------------------------------------------------------------------
(* Writing a frame and reading it.                                         *)

\* The two digits of a number.
LEMMA DivMod ==
    ASSUME NEW n \in Nat, NEW m \in Nat, m > 0, n < m * m
    PROVE  n \div m \in 0..(m - 1) /\ n % m \in 0..(m - 1) /\ n = (n \div m) * m + (n % m)
<1>1. n % m \in 0..(m - 1)
  OBVIOUS
<1>2. n \div m \in Nat
  OBVIOUS
<1>3. n = (n \div m) * m + (n % m)
  BY <1>2
<1>4. PICK d \in Nat, r \in Nat : d = n \div m /\ r = n % m
  BY <1>1, <1>2
<1>5. d < m
  <2>1. d * m + r = n
    BY <1>3, <1>4
  <2>2. SUFFICES ASSUME d >= m PROVE FALSE
    BY <1>4
  <2>3. d * m >= m * m
    BY <2>2
  <2>. QED  BY <1>4, <2>1, <2>3
<1>. QED  BY <1>1, <1>2, <1>3, <1>4, <1>5

Pair(a, b) == <<a, b>>

WithPair(s, a, b) == s \o Pair(a, b)

LEMMA PairBytes ==
    ASSUME NEW a \in Byte, NEW b \in Byte
    PROVE  Pair(a, b) \in Seq(Byte) /\ Len(Pair(a, b)) = 2 /\ Pair(a, b)[1] = a /\ Pair(a, b)[2] = b
BY DEF Pair

\* Two sequences, one behind the other.
LEMMA Join ==
    ASSUME NEW s \in Seq(Byte), NEW t \in Seq(Byte)
    PROVE  /\ s \o t \in Seq(Byte) /\ Len(s \o t) = Len(s) + Len(t)
           /\ Len(s) \in Nat /\ Len(t) \in Nat
           /\ \A i \in 1..Len(s) : (s \o t)[i] = s[i]
           /\ \A i \in 1..Len(t) : (s \o t)[Len(s) + i] = t[i]
<1>1. Len(s) \in Nat /\ Len(t) \in Nat
  BY LenProperties
<1>2. /\ s \o t \in Seq(Byte) /\ Len(s \o t) = Len(s) + Len(t)
      /\ \A i \in 1..Len(s) + Len(t) : (s \o t)[i] = IF i <= Len(s) THEN s[i] ELSE t[i - Len(s)]
  BY ConcatProperties
<1>3. \A i \in 1..Len(s) : i \in 1..Len(s) + Len(t) /\ i <= Len(s)
  BY <1>1
<1>4. \A i \in 1..Len(t) : /\ Len(s) + i \in 1..Len(s) + Len(t) /\ ~(Len(s) + i <= Len(s))
                           /\ Len(s) + i - Len(s) = i
  BY <1>1
<1>. QED  BY <1>1, <1>2, <1>3, <1>4

\* What a sequence that ends with a pair holds.
EndsWith(x, s, a, b) ==
    /\ x \in Seq(Byte) /\ Len(x) = Len(s) + 2
    /\ \A i \in 1..Len(s) : x[i] = s[i]
    /\ x[Len(s) + 1] = a /\ x[Len(s) + 2] = b

LEMMA JoinPair ==
    ASSUME NEW s \in Seq(Byte), NEW a \in Byte, NEW b \in Byte
    PROVE  EndsWith(WithPair(s, a, b), s, a, b)
<1>1. PICK t \in Seq(Byte) : t = Pair(a, b) /\ Len(t) = 2 /\ t[1] = a /\ t[2] = b
  BY PairBytes
<1>2. /\ s \o t \in Seq(Byte) /\ Len(s \o t) = Len(s) + Len(t)
      /\ \A i \in 1..Len(s) : (s \o t)[i] = s[i]
      /\ \A i \in 1..Len(t) : (s \o t)[Len(s) + i] = t[i]
  BY Join
<1>3. 1 \in 1..Len(t) /\ 2 \in 1..Len(t)
  BY <1>1
<1>. QED  BY <1>1, <1>2, <1>3 DEF WithPair, EndsWith

\* A header is written as four pairs.
LEMMA HeaderBytes ==
    ASSUME NEW a \in Byte, NEW b \in Byte, NEW c \in Byte, NEW d \in Byte,
           NEW e \in Byte, NEW f \in Byte, NEW g \in Byte, NEW h \in Byte,
           NEW x, x = <<a, b>> \o <<c, d>> \o <<e, f>> \o <<g, h>>
    PROVE  /\ x \in Seq(Byte) /\ Len(x) = 8
           /\ x[1] = a /\ x[3] = c /\ x[4] = d
           /\ x[5] = e /\ x[6] = f /\ x[7] = g /\ x[8] = h
<1>. DEFINE p == Pair(a, b)
            u == WithPair(p, c, d)
            v == WithPair(u, e, f)
<1>1. x = WithPair(v, g, h)
  BY DEF Pair, WithPair
<1>. HIDE DEF p, u, v
<1>2. p \in Seq(Byte) /\ Len(p) = 2 /\ p[1] = a
  BY PairBytes DEF p
<1>3. EndsWith(u, p, c, d)
  BY <1>2, JoinPair DEF u
<1>4. u \in Seq(Byte) /\ Len(u) = 4 /\ u[1] = a /\ u[3] = c /\ u[4] = d
  BY <1>2, <1>3 DEF EndsWith
<1>5. EndsWith(v, u, e, f)
  BY <1>4, JoinPair DEF v
<1>6. /\ v \in Seq(Byte) /\ Len(v) = 6 /\ v[1] = a /\ v[3] = c /\ v[4] = d
      /\ v[5] = e /\ v[6] = f
  BY <1>4, <1>5 DEF EndsWith
<1>7. EndsWith(x, v, g, h)
  BY <1>1, <1>6, JoinPair
<1>. QED  BY <1>6, <1>7 DEF EndsWith

\* What encode_frame puts in the header is what decode and next_frame find
\* there; the length is that of the payload when 16 bits hold it, and else
\* what is left of it (encode_frame's cast to u16).
THEOREM EncodeDecodes ==
    ASSUME NEW op \in Byte, NEW group \in 0..(ByteMod * ByteMod - 1),
           NEW seq \in Byte, NEW id \in Byte, NEW payload \in Seq(Byte)
    PROVE  LET frame == encode_frame(op, group, seq, id, payload) IN
           /\ frame \in Seq(Byte)
           /\ Len(frame) = HEADER_LEN + Len(payload)
           /\ FrameLen(frame) = HEADER_LEN + (Len(payload) % (ByteMod * ByteMod))
           /\ KnownOp(op) => decode(frame) = [ok |-> TRUE, op |-> op, group |-> group,
                                              seq |-> seq, id |-> id, payload |-> payload]
<1>. DEFINE n == Len(payload) % (ByteMod * ByteMod)
            h == EncodeHeader([op |-> op, len |-> n, group |-> group, seq |-> seq, id |-> id])
            frame == h \o payload
<1>1. encode_frame(op, group, seq, id, payload) = frame
  BY DEF encode_frame
<1>2. ByteMod \in Nat /\ ByteMod > 0 /\ 0 \in Byte /\ Len(payload) \in Nat
  BY ByteModAssumption, LenProperties DEF Byte
<1>3. n \in Nat /\ n < ByteMod * ByteMod
  <2>1. ByteMod * ByteMod \in Nat /\ ByteMod * ByteMod > 0
    BY <1>2
  <2>. QED  BY <1>2, <2>1
<1>4. group \in Nat /\ group < ByteMod * ByteMod
  <2>1. ByteMod * ByteMod \in Nat
    BY <1>2
  <2>. QED  BY <2>1
<1>. HIDE DEF n
<1>5. /\ n \div ByteMod \in Byte /\ n % ByteMod \in Byte
      /\ n = (n \div ByteMod) * ByteMod + (n % ByteMod)
  BY <1>2, <1>3, DivMod DEF Byte
<1>6. /\ group \div ByteMod \in Byte /\ group % ByteMod \in Byte
      /\ group = (group \div ByteMod) * ByteMod + (group % ByteMod)
  BY <1>2, <1>4, DivMod DEF Byte
<1>7. h = <<op, 0>> \o <<n \div ByteMod, n % ByteMod>>
          \o <<group \div ByteMod, group % ByteMod>> \o <<seq, id>>
  BY DEF EncodeHeader, ToBigEndian
<1>. HIDE DEF h
<1>8. /\ h \in Seq(Byte) /\ Len(h) = 8
      /\ h[1] = op /\ h[3] = n \div ByteMod /\ h[4] = n % ByteMod
      /\ h[5] = group \div ByteMod /\ h[6] = group % ByteMod /\ h[7] = seq /\ h[8] = id
  BY <1>2, <1>5, <1>6, <1>7, HeaderBytes
<1>. HIDE DEF frame
<1>9. /\ frame \in Seq(Byte) /\ Len(frame) = 8 + Len(payload)
      /\ \A i \in 1..8 : frame[i] = h[i]
      /\ \A i \in 1..Len(payload) : frame[8 + i] = payload[i]
  <2>1. /\ frame \in Seq(Byte) /\ Len(frame) = Len(h) + Len(payload)
        /\ \A i \in 1..Len(h) : frame[i] = h[i]
        /\ \A i \in 1..Len(payload) : frame[Len(h) + i] = payload[i]
    BY <1>8, Join DEF frame
  <2>. QED  BY <1>8, <2>1
<1>10. FrameLen(frame) = HEADER_LEN + n
  <2>1. frame[3] = n \div ByteMod /\ frame[4] = n % ByteMod
    BY <1>8, <1>9
  <2>. QED  BY <1>5, <2>1 DEF FrameLen, FromBigEndian
<1>11. SubSeq(frame, HEADER_LEN + 1, Len(frame)) = payload
  <2>1. Len(frame) \in Nat /\ 8 \in 0..Len(frame)
    BY <1>2, <1>9
  <2>2. Behind(SubSeq(frame, 8 + 1, Len(frame)), frame, 8)
    BY <1>9, <2>1, BufferRest
  <2>3. PICK s : s = SubSeq(frame, 8 + 1, Len(frame)) /\ Behind(s, frame, 8)
    BY <2>2
  <2>4. s \in Seq(Byte) /\ Len(s) = Len(payload) /\ \A i \in 1..Len(s) : s[i] = frame[i + 8]
    <3>1. Len(frame) - 8 = Len(payload)
      BY <1>2, <1>9
    <3>. QED  BY <2>3, <3>1 DEF Behind
  <2>5. \A i \in 1..Len(payload) : i + 8 = 8 + i
    BY <1>2
  <2>6. \A i \in 1..Len(s) : s[i] = payload[i]
    BY <1>9, <2>4, <2>5
  <2>7. s = payload
    BY <2>4, <2>6, SeqEqual
  <2>. QED  BY <2>3, <2>7 DEF HEADER_LEN
<1>12. ASSUME KnownOp(op)
       PROVE  decode(frame) = [ok |-> TRUE, op |-> op, group |-> group,
                               seq |-> seq, id |-> id, payload |-> payload]
  <2>1. /\ frame[1] = op /\ frame[5] = group \div ByteMod /\ frame[6] = group % ByteMod
        /\ frame[7] = seq /\ frame[8] = id
    BY <1>8, <1>9
  <2>2. ~(Len(frame) < HEADER_LEN)
    BY <1>2, <1>9 DEF HEADER_LEN
  <2>3. FromBigEndian(frame[5], frame[6]) = group
    BY <1>6, <2>1 DEF FromBigEndian
  <2>. QED  BY <1>11, <1>12, <2>1, <2>2, <2>3 DEF decode
<1>. QED  BY <1>1, <1>9, <1>10, <1>11, <1>12 DEF n, HEADER_LEN
=============================================================================
