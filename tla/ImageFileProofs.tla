-------------------------- MODULE ImageFileProofs --------------------------
(***************************************************************************)
(* What parse and find_sha256_tlv do with any file, and with the files a   *)
(* signing tool builds.  First, no file makes them take a slice out of     *)
(* range, and none is reported as valid that does not hold its hash.       *)
(* Then, whatever the sizes, the entries and the lengths of the blocks, a  *)
(* built file that is whole is read as what it was built from, one with a  *)
(* byte changed where it is only hashed is read to a hash that does not    *)
(* match, and one that was cut is refused or found without a valid hash:   *)
(* WalkInv says where in the layout each offset of the walk points.  Both  *)
(* together say that no damage to what the hash covers goes unnoticed.     *)
(***************************************************************************)
EXTENDS ImageFile, QueueFacts

TypeOK ==
    /\ file \in Seq(Byte)
    /\ pc \in {"header", "blocks", "entries", "done", "rejected"}
    /\ hashed \in Nat /\ region \in Nat /\ entries \in Nat /\ end \in Nat

Inv == TypeOK /\ InBounds

\* Two bytes that are in the file make a natural number (u16::from_le_bytes).
LEMMA ReadU16 ==
    ASSUME file \in Seq(Byte), NEW i \in Nat, i + 2 <= Len(file)
    PROVE  u16(i) \in Nat
<1>1. ByteMod \in Nat
  BY ByteModAssumption
<1>2. file[i + 1] \in Byte /\ file[i + 2] \in Byte
  <2>1. i + 1 \in 1..Len(file) /\ i + 2 \in 1..Len(file)
    OBVIOUS
  <2> QED
    BY <2>1
<1>3. file[i + 1] \in Nat /\ file[i + 2] \in Nat
  BY <1>1, <1>2 DEF Byte
<1>4. ASSUME NEW m \in Nat, NEW n \in Nat
      PROVE  m * n \in Nat
  BY <1>4
<1>5. ByteMod * file[i + 2] \in Nat
  BY <1>1, <1>3, <1>4
<1> QED
  BY <1>3, <1>5 DEF u16

\* Four bytes that are in the file do so too (u32::from_le_bytes).
LEMMA ReadU32 ==
    ASSUME file \in Seq(Byte), NEW i \in Nat, i + 4 <= Len(file)
    PROVE  u32(i) \in Nat
<1>1. u16(i) \in Nat /\ u16(i + 2) \in Nat
  <2>1. Len(file) \in Nat
    OBVIOUS
  <2>2. i + 2 \in Nat /\ i + 2 <= Len(file) /\ (i + 2) + 2 <= Len(file)
    BY <2>1
  <2> QED
    BY <2>2, ReadU16
<1>2. ASSUME NEW m \in Nat, NEW n \in Nat
      PROVE  m * n \in Nat
  BY <1>2
<1>3. ByteMod * ByteMod \in Nat
  BY <1>2, ByteModAssumption
<1>4. ByteMod * ByteMod * u16(i + 2) \in Nat
  BY <1>1, <1>2, <1>3
<1> QED
  BY <1>1, <1>4 DEF u32

\* The sizes that parse reads from a header of 32 bytes are natural numbers.
LEMMA HeaderSizes ==
    ASSUME file \in Seq(Byte), Len(file) >= MIN_HEADER_LEN
    PROVE  /\ header_size \in Nat
           /\ protected_tlv_size \in Nat
           /\ image_size \in Nat
<1>1. Len(file) \in Nat /\ Len(file) >= 32
  BY DEF MIN_HEADER_LEN
<1>2. u16(8) \in Nat
  BY <1>1, ReadU16
<1>3. u16(10) \in Nat
  BY <1>1, ReadU16
<1>4. u32(12) \in Nat
  BY <1>1, ReadU32
<1> QED
  BY <1>2, <1>3, <1>4 DEF header_size, protected_tlv_size, image_size

\* Every file is in bounds before it is looked at.
LEMMA InvInit == Init => Inv
BY DEF Init, Start, Inv, TypeOK, InBounds

\* Every step of parse and of the walk keeps the offsets in bounds.
LEMMA InvNext == Inv /\ [Next]_vars => Inv'
<1> SUFFICES ASSUME Inv, [Next]_vars
             PROVE  Inv'
  OBVIOUS
<1> USE DEF Inv, TypeOK, InBounds
<1>0. Len(file) \in Nat
  OBVIOUS
<1>1. CASE Reject
  BY <1>1 DEF Reject
<1>2. CASE Accept
  <2>1. hashed_len \in Nat /\ tlv_start \in Nat /\ tlv_start <= hashed_len
    BY <1>2, HeaderSizes DEF Accept, Acceptable, hashed_len, tlv_start
  <2> QED
    BY <1>0, <1>2, <2>1 DEF Accept, Acceptable
<1>3. CASE EnterBlock
  <2>1. region + 2 \in Nat /\ (region + 2) + 2 <= Len(file)
    BY <1>0, <1>3 DEF EnterBlock, BlockLeft
  <2>2. Total \in Nat
    BY <2>1, ReadU16 DEF Total
  <2> QED
    BY <1>0, <1>3, <2>2 DEF EnterBlock, BlockFits
<1>4. CASE NoHash
  BY <1>4 DEF NoHash
<1>5. CASE FindHash
  BY <1>5 DEF FindHash
<1>6. CASE SkipEntry
  <2>1. entries + 2 \in Nat /\ (entries + 2) + 2 <= Len(file)
    BY <1>0, <1>6 DEF SkipEntry, EntryLeft
  <2>2. ValueLen \in Nat
    BY <2>1, ReadU16 DEF ValueLen
  <2>3. AfterEntry \in Nat /\ region + 4 <= AfterEntry /\ AfterEntry <= end
    BY <1>6, <2>2 DEF SkipEntry, EntryFits, AfterEntry, Value
  <2> QED
    BY <1>6, <2>3 DEF SkipEntry
<1>7. CASE LeaveBlock
  BY <1>7 DEF LeaveBlock
<1>8. CASE UNCHANGED vars
  BY <1>8 DEF vars
<1> QED
  BY <1>1, <1>2, <1>3, <1>4, <1>5, <1>6, <1>7, <1>8 DEF Next

\* parse and find_sha256_tlv stay inside every file (InBounds).
THEOREM ParseInBounds == Spec => []InBounds
<1>1. Inv => InBounds
  BY DEF Inv
<1> QED
  BY <1>1, InvInit, InvNext, PTL DEF Spec

-----------------------------------------------------------------------------
(* The walk ends because every turn moves on.  Left is what an iteration   *)
(* makes smaller; that it cannot decrease for ever stays with TLC.         *)

\* The bytes that the two loops have still to look at.
Left == IF pc = "entries" THEN Len(file) - entries ELSE Len(file) - region

\* No turn of either loop leaves as much to look at as there was: a block costs
\* its info header and an entry its tag and length, whatever they say.
TurnsMoveOn == [][(EnterBlock \/ SkipEntry) => Left' < Left]_vars

\* A single turn moves on.
LEMMA TurnMovesOn ==
    ASSUME Inv, EnterBlock \/ SkipEntry
    PROVE  Left' < Left
<1> USE DEF Inv, TypeOK, InBounds, Left
<1>0. Len(file) \in Nat
  OBVIOUS
<1>1. CASE EnterBlock
  BY <1>0, <1>1 DEF EnterBlock
<1>2. CASE SkipEntry
  <2>1. entries + 2 \in Nat /\ (entries + 2) + 2 <= Len(file)
    BY <1>0, <1>2 DEF SkipEntry, EntryLeft
  <2>2. ValueLen \in Nat
    BY <2>1, ReadU16 DEF ValueLen
  <2>3. entries' = entries + 4 + ValueLen
    BY <1>2 DEF SkipEntry, AfterEntry, Value
  <2> QED
    BY <1>0, <1>2, <2>2, <2>3 DEF SkipEntry
<1> QED
  BY <1>1, <1>2

\* Every file is walked forwards only (the reason why the loops end).
THEOREM ParseMovesOn == Spec => TurnsMoveOn
<1>1. Inv /\ [Next]_vars => [(EnterBlock \/ SkipEntry) => Left' < Left]_vars
  BY TurnMovesOn
<1> QED
  BY <1>1, InvInit, InvNext, PTL DEF Spec, TurnsMoveOn

-----------------------------------------------------------------------------
(* A hash that is reported as valid is one that the file holds.            *)

\* What HoldsItsHash says of a file, in the terms of parse.
LEMMA Holding ==
    ASSUME file \in Seq(Byte), Len(file) >= MIN_HEADER_LEN, hashed_len <= Len(file),
           NEW i \in Nat, i >= tlv_start, i + 4 + HashLen <= Len(file),
           u16(i) = TLV_SHA256, u16(i + 2) = HashLen,
           SubSeq(file, i + 5, i + 4 + HashLen) = Sha256(SubSeq(file, 1, hashed_len))
    PROVE  HoldsItsHash(file)
<1>1. tlv_start \in Nat
  BY HeaderSizes DEF tlv_start
<1>2. Len(file) \in Nat /\ HashLen \in Nat
  BY HashLenAssumption
<1>3. i \in tlv_start..(Len(file) - 4 - HashLen)
  BY <1>1, <1>2
<1>4. u32(12) = u16(12) + ByteMod * ByteMod * u16(14)
  <2>1. 12 + 2 = 14
    OBVIOUS
  <2>. QED  BY <2>1 DEF u32
<1>5. tlv_start = u16(8) + (u16(12) + ByteMod * ByteMod * u16(14)) /\ hashed_len = tlv_start + u16(10)
  BY <1>4 DEF tlv_start, hashed_len, header_size, protected_tlv_size, image_size
<1>. QED  BY <1>3, <1>5, Zenon DEF HoldsItsHash, u16

\* The offsets of the walk lie behind the application of a file that was
\* accepted, and what was found valid is there.
Backing ==
    /\ pc \notin {"header", "rejected"} => Acceptable /\ hashed = hashed_len /\ tlv_start <= region
    /\ hash_valid = "valid" => pc = "done" /\ HoldsItsHash(file)

\* A hash that is found valid is in the file.
LEMMA FoundIsHeld ==
    ASSUME Inv, Backing, FindHash, hash_valid' = "valid"
    PROVE  HoldsItsHash(file)
<1>1. /\ pc = "entries" /\ Tag = TLV_SHA256 /\ ValueLen = HashLen /\ Value + ValueLen <= end
      /\ SubSeq(file, Value + 1, Value + ValueLen) = Sha256(SubSeq(file, 1, hashed))
  BY DEF FindHash, IsHash, EntryFits, Matches
<1>2. /\ file \in Seq(Byte) /\ Len(file) >= MIN_HEADER_LEN /\ hashed_len <= Len(file)
      /\ hashed = hashed_len /\ tlv_start <= region
  BY <1>1 DEF Inv, TypeOK, Backing, Acceptable
<1>3. tlv_start \in Nat /\ HashLen \in Nat /\ Len(file) \in Nat
  BY <1>2, HeaderSizes, HashLenAssumption DEF tlv_start
<1>4. region \in Nat /\ entries \in Nat /\ end \in Nat /\ region + 4 <= entries /\ end <= Len(file)
  BY <1>1 DEF Inv, TypeOK, InBounds
<1>5. /\ entries >= tlv_start /\ entries + 4 + HashLen <= Len(file)
      /\ Value + 1 = entries + 5 /\ Value + ValueLen = entries + 4 + HashLen
  BY <1>1, <1>2, <1>3, <1>4 DEF Value
<1>6. u16(entries) = TLV_SHA256 /\ u16(entries + 2) = HashLen
  BY <1>1 DEF Tag, ValueLen
<1>7. SubSeq(file, entries + 5, entries + 4 + HashLen) = Sha256(SubSeq(file, 1, hashed_len))
  BY <1>1, <1>2, <1>5
<1>. QED  BY <1>2, <1>4, <1>5, <1>6, <1>7, Holding

\* What is read of the header does not depend on how far the walk is.
LEMMA SameHeader ==
    ASSUME UNCHANGED file
    PROVE  /\ Acceptable' = Acceptable /\ hashed_len' = hashed_len /\ tlv_start' = tlv_start
           /\ HoldsItsHash(file)' = HoldsItsHash(file)
BY DEF Acceptable, hashed_len, tlv_start, header_size, protected_tlv_size, image_size, u32, u16,
   HoldsItsHash

\* Every step of parse and of the walk keeps a valid hash backed.
LEMMA BackingNext == Inv /\ Backing /\ [Next]_vars => Backing'
<1>. SUFFICES ASSUME Inv, Backing, [Next]_vars PROVE Backing'
  OBVIOUS
<1>1. file' = file
  BY DEF Next, Reject, Accept, EnterBlock, NoHash, FindHash, SkipEntry, LeaveBlock, vars
<1>2. /\ Acceptable' = Acceptable /\ hashed_len' = hashed_len /\ tlv_start' = tlv_start
      /\ HoldsItsHash(file)' = HoldsItsHash(file)
  BY <1>1, SameHeader
<1>3. CASE Reject
  BY <1>2, <1>3 DEF Reject, Backing
<1>4. CASE Accept
  <2>1. tlv_start \in Nat
    BY <1>4, HeaderSizes DEF Accept, Acceptable, Inv, TypeOK, tlv_start
  <2>2. tlv_start <= tlv_start
    BY <2>1
  <2>. QED  BY <1>2, <1>4, <2>2 DEF Accept, Backing
<1>5. CASE EnterBlock
  BY <1>2, <1>5 DEF EnterBlock, Backing
<1>6. CASE NoHash
  BY <1>2, <1>6 DEF NoHash, Backing
<1>7. CASE FindHash
  BY <1>2, <1>7, FoundIsHeld DEF FindHash, Backing
<1>8. CASE SkipEntry
  BY <1>2, <1>8 DEF SkipEntry, Backing
<1>9. CASE LeaveBlock
  <2>1. Acceptable /\ hashed = hashed_len /\ tlv_start <= region /\ file \in Seq(Byte)
    BY <1>9 DEF LeaveBlock, Backing, Inv, TypeOK
  <2>2. tlv_start \in Nat
    BY <2>1, HeaderSizes DEF Acceptable, tlv_start
  <2>3. /\ region \in Nat /\ entries \in Nat /\ end \in Nat
        /\ region + 4 <= entries /\ entries <= end
    BY <1>9 DEF LeaveBlock, Inv, TypeOK, InBounds
  <2>4. tlv_start <= end
    BY <2>1, <2>2, <2>3
  <2>. QED  BY <1>2, <1>9, <2>4 DEF LeaveBlock, Backing
<1>10. CASE UNCHANGED vars
  BY <1>2, <1>10 DEF vars, Backing
<1>. QED  BY <1>3, <1>4, <1>5, <1>6, <1>7, <1>8, <1>9, <1>10 DEF Next

\* Whatever is parsed, a valid hash is one the file holds.
LEMMA BackingHolds == Spec => []Backing
<1>1. Init => Backing
  BY DEF Init, Start, Backing
<1>. QED  BY <1>1, InvInit, InvNext, BackingNext, PTL DEF Spec

\* find_sha256_tlv reports a hash as valid only of a file that holds it
\* (ValidIsBacked).
THEOREM ParseBacksValid == Spec => []ValidIsBacked
<1>1. Backing => ValidIsBacked
  BY DEF Backing, ValidIsBacked
<1>. QED  BY <1>1, BackingHolds, PTL

-----------------------------------------------------------------------------
(* Where one sequence lies in another, and what u16 and u32 read there.    *)

\* x lies in s behind the first i bytes.
Occurs(x, i, s) ==
    /\ i \in Nat /\ i + Len(x) <= Len(s)
    /\ \A j \in 1..Len(x) : s[i + j] = x[j]

\* A byte has some values, and so have two and four of them.
LEMMA Parameters ==
    /\ ByteMod \in Nat \ {0} /\ 0 \in Byte
    /\ \A n : n \in U16 <=> n \in Nat /\ n < ByteMod * ByteMod
    /\ \A n : n \in U32 <=> n \in Nat /\ n < ByteMod * ByteMod * (ByteMod * ByteMod)
    /\ ByteMod * ByteMod \in Nat \ {0}
<1>1. ByteMod \in Nat \ {0} /\ 0 \in Byte
  BY ByteModAssumption DEF Byte
<1>2. ByteMod * ByteMod \in Nat \ {0}
  BY <1>1
<1>3. PICK m \in Nat \ {0} : m = ByteMod * ByteMod
  BY <1>2
<1>4. m * m \in Nat
  BY <1>3
<1>. QED  BY <1>1, <1>3, <1>4 DEF U16, U32

\* The two digits of a number.
LEMMA DivMod ==
    ASSUME NEW n \in Nat, NEW m \in Nat \ {0}, n < m * m
    PROVE  n \div m \in 0..(m - 1) /\ n % m \in 0..(m - 1) /\ n = (n % m) + m * (n \div m)
<1>1. n % m \in 0..(m - 1)
  OBVIOUS
<1>2. n \div m \in Nat
  OBVIOUS
<1>3. n = (n % m) + m * (n \div m)
  BY <1>2
<1>4. PICK d \in Nat, r \in Nat : d = n \div m /\ r = n % m
  BY <1>1, <1>2
<1>5. d < m
  <2>1. r + m * d = n
    BY <1>3, <1>4
  <2>2. SUFFICES ASSUME d >= m PROVE FALSE
    BY <1>4
  <2>3. m * d >= m * m
    BY <2>2
  <2>. QED  BY <1>4, <2>1, <2>3
<1>. QED  BY <1>1, <1>2, <1>3, <1>4, <1>5

\* A number is written as two bytes that make it (u16::to_le_bytes).
LEMMA LE16Bytes ==
    ASSUME NEW n \in U16
    PROVE  /\ LE16(n) \in Seq(Byte) /\ Len(LE16(n)) = 2
           /\ LE16(n)[1] = n % ByteMod /\ LE16(n)[2] = n \div ByteMod
           /\ n = (n % ByteMod) + ByteMod * (n \div ByteMod)
<1>1. n \in Nat /\ n < ByteMod * ByteMod /\ ByteMod \in Nat \ {0}
  BY Parameters
<1>2. /\ n \div ByteMod \in 0..(ByteMod - 1) /\ n % ByteMod \in 0..(ByteMod - 1)
      /\ n = (n % ByteMod) + ByteMod * (n \div ByteMod)
  BY <1>1, DivMod
<1>3. PICK a \in Byte, b \in Byte : a = n % ByteMod /\ b = n \div ByteMod
  BY <1>2 DEF Byte
<1>4. LE16(n) = <<a, b>>
  BY <1>3 DEF LE16
<1>. QED  BY <1>2, <1>3, <1>4

\* Sequences one behind the other.
LEMMA Concat ==
    ASSUME NEW s \in Seq(Byte), NEW t \in Seq(Byte)
    PROVE  /\ s \o t \in Seq(Byte) /\ Len(s \o t) = Len(s) + Len(t)
           /\ Len(s) \in Nat /\ Len(t) \in Nat
           /\ Occurs(s, 0, s \o t) /\ Occurs(t, Len(s), s \o t)
<1>1. Len(s) \in Nat /\ Len(t) \in Nat
  BY LenProperties
<1>2. /\ s \o t \in Seq(Byte) /\ Len(s \o t) = Len(s) + Len(t)
      /\ \A i \in 1..Len(s) + Len(t) : (s \o t)[i] = IF i <= Len(s) THEN s[i] ELSE t[i - Len(s)]
  BY ConcatProperties
<1>3. \A i \in 1..Len(s) : i \in 1..Len(s) + Len(t) /\ i <= Len(s) /\ 0 + i = i
  BY <1>1
<1>4. \A i \in 1..Len(t) : /\ Len(s) + i \in 1..Len(s) + Len(t) /\ ~(Len(s) + i <= Len(s))
                           /\ Len(s) + i - Len(s) = i
  BY <1>1
<1>5. \A i \in 1..Len(s) : (s \o t)[0 + i] = s[i]
  BY <1>2, <1>3
<1>6. \A i \in 1..Len(t) : (s \o t)[Len(s) + i] = t[i]
  BY <1>2, <1>4
<1>7. 0 + Len(s) <= Len(s \o t) /\ Len(s) + Len(t) <= Len(s \o t)
  BY <1>1, <1>2
<1>. QED  BY <1>1, <1>2, <1>5, <1>6, <1>7 DEF Occurs

\* What lies in a part lies in the whole.
LEMMA Within ==
    ASSUME NEW x \in Seq(Byte), NEW y \in Seq(Byte), NEW z \in Seq(Byte), NEW i, NEW j,
           Occurs(x, i, y), Occurs(y, j, z)
    PROVE  Occurs(x, j + i, z)
<1>1. Len(x) \in Nat /\ Len(y) \in Nat /\ Len(z) \in Nat
  BY LenProperties
<1>2. i \in Nat /\ i + Len(x) <= Len(y) /\ \A k \in 1..Len(x) : y[i + k] = x[k]
  BY DEF Occurs
<1>3. j \in Nat /\ j + Len(y) <= Len(z) /\ \A k \in 1..Len(y) : z[j + k] = y[k]
  BY DEF Occurs
<1>4. ASSUME NEW k \in 1..Len(x) PROVE z[(j + i) + k] = x[k]
  <2>1. i + k \in 1..Len(y) /\ (j + i) + k = j + (i + k)
    BY <1>1, <1>2, <1>3
  <2>2. z[j + (i + k)] = y[i + k]
    BY <1>3, <2>1
  <2>. QED  BY <1>2, <2>1, <2>2
<1>5. j + i \in Nat /\ (j + i) + Len(x) <= Len(z)
  BY <1>1, <1>2, <1>3
<1>. QED  BY <1>4, <1>5 DEF Occurs

\* Three parts.
LEMMA Concat3 ==
    ASSUME NEW s \in Seq(Byte), NEW t \in Seq(Byte), NEW u \in Seq(Byte)
    PROVE  /\ s \o t \o u \in Seq(Byte) /\ Len(s \o t \o u) = Len(s) + Len(t) + Len(u)
           /\ Occurs(s, 0, s \o t \o u) /\ Occurs(t, Len(s), s \o t \o u)
           /\ Occurs(u, Len(s) + Len(t), s \o t \o u)
<1>1. PICK a \in Seq(Byte) : /\ a = s \o t /\ Len(a) = Len(s) + Len(t)
                             /\ Occurs(s, 0, a) /\ Occurs(t, Len(s), a)
  BY Concat
<1>2. PICK b \in Seq(Byte) : /\ b = a \o u /\ Len(b) = Len(a) + Len(u)
                             /\ Occurs(a, 0, b) /\ Occurs(u, Len(a), b)
  BY Concat
<1>3. Occurs(s, 0 + 0, b) /\ Occurs(t, 0 + Len(s), b)
  BY <1>1, <1>2, Within
<1>4. 0 + 0 = 0 /\ 0 + Len(s) = Len(s)
  BY LenProperties
<1>5. b = s \o t \o u
  BY <1>1, <1>2
<1>. QED  BY <1>1, <1>2, <1>3, <1>4, <1>5

\* A number is written as two halves that make it (u32::to_le_bytes).
LEMMA LE32Bytes ==
    ASSUME NEW n \in U32
    PROVE  /\ LE32(n) \in Seq(Byte) /\ Len(LE32(n)) = 4
           /\ \E a \in U16, b \in U16 :
                 /\ n = a + ByteMod * ByteMod * b
                 /\ Occurs(LE16(a), 0, LE32(n)) /\ Occurs(LE16(b), 2, LE32(n))
<1>1. PICK m \in Nat \ {0} : m = ByteMod * ByteMod
  BY Parameters
<1>2. n \in Nat /\ n < m * m
  BY <1>1, Parameters
<1>3. n \div m \in 0..(m - 1) /\ n % m \in 0..(m - 1) /\ n = (n % m) + m * (n \div m)
  BY <1>2, DivMod
<1>4. PICK a \in U16, b \in U16 : a = n % m /\ b = n \div m
  BY <1>1, <1>3, Parameters
<1>5. LE32(n) = LE16(a) \o LE16(b)
  BY <1>1, <1>4 DEF LE32
<1>6. /\ LE16(a) \in Seq(Byte) /\ Len(LE16(a)) = 2
      /\ LE16(b) \in Seq(Byte) /\ Len(LE16(b)) = 2
  BY LE16Bytes
<1>7. n = a + ByteMod * ByteMod * b
  BY <1>1, <1>3, <1>4
<1>8. /\ LE32(n) \in Seq(Byte) /\ Len(LE32(n)) = Len(LE16(a)) + Len(LE16(b))
      /\ Occurs(LE16(a), 0, LE32(n)) /\ Occurs(LE16(b), Len(LE16(a)), LE32(n))
  <2>. HIDE DEF LE16, Occurs
  <2>. QED  BY <1>5, <1>6, Concat
<1>9. Len(LE32(n)) = 4 /\ Occurs(LE16(b), 2, LE32(n))
  BY <1>6, <1>8
<1>. QED  BY <1>7, <1>8, <1>9


\* u16 reads the number that was written.
LEMMA ReadsU16 ==
    ASSUME NEW n \in U16, NEW i, Occurs(LE16(n), i, file)
    PROVE  u16(i) = n
<1>1. /\ Len(LE16(n)) = 2
      /\ LE16(n)[1] = n % ByteMod /\ LE16(n)[2] = n \div ByteMod
      /\ n = (n % ByteMod) + ByteMod * (n \div ByteMod)
  BY LE16Bytes
<1>2. file[i + 1] = LE16(n)[1] /\ file[i + 2] = LE16(n)[2]
  BY <1>1 DEF Occurs
<1>. QED  BY <1>1, <1>2 DEF u16

\* u32 reads the number that was written.
LEMMA ReadsU32 ==
    ASSUME NEW n \in U32, NEW i, Occurs(LE32(n), i, file), file \in Seq(Byte)
    PROVE  u32(i) = n
<1>1. /\ LE32(n) \in Seq(Byte)
      /\ \E a \in U16, b \in U16 : /\ n = a + ByteMod * ByteMod * b
                                   /\ Occurs(LE16(a), 0, LE32(n)) /\ Occurs(LE16(b), 2, LE32(n))
  BY LE32Bytes
<1>2. PICK a \in U16, b \in U16 : /\ n = a + ByteMod * ByteMod * b
                                  /\ Occurs(LE16(a), 0, LE32(n)) /\ Occurs(LE16(b), 2, LE32(n))
  BY <1>1
<1>3. Occurs(LE16(a), i + 0, file) /\ Occurs(LE16(b), i + 2, file)
  BY <1>1, <1>2, LE16Bytes, Within
<1>4. i \in Nat /\ i + 0 = i
  BY DEF Occurs
<1>5. u16(i) = a /\ u16(i + 2) = b
  BY <1>3, <1>4, ReadsU16
<1>. QED  BY <1>2, <1>5 DEF u32

-----------------------------------------------------------------------------
(* How a built file is laid out.                                           *)

\* What is added behind hides nothing.
LEMMA Behind ==
    ASSUME NEW x \in Seq(Byte), NEW s \in Seq(Byte), NEW t \in Seq(Byte), NEW i, Occurs(x, i, s)
    PROVE  Occurs(x, i, s \o t)
<1>1. PICK u \in Seq(Byte) : u = s \o t /\ Occurs(s, 0, u)
  BY Concat
<1>2. Occurs(x, 0 + i, u)
  BY <1>1, Within
<1>3. i \in Nat
  BY DEF Occurs
<1>4. 0 + i = i
  BY <1>3
<1>. QED  BY <1>1, <1>2, <1>4

\* A tag, a length and a value, or a magic, a length and entries.
LEMMA Labelled ==
    ASSUME NEW t \in U16, NEW n \in U16, NEW v \in Seq(Byte)
    PROVE  LET e == LE16(t) \o LE16(n) \o v
           IN  /\ e \in Seq(Byte) /\ Len(e) = 4 + Len(v) /\ Len(v) \in Nat
               /\ Occurs(LE16(t), 0, e) /\ Occurs(LE16(n), 2, e) /\ Occurs(v, 4, e)
<1>1. PICK a \in Seq(Byte), b \in Seq(Byte) : a = LE16(t) /\ b = LE16(n) /\ Len(a) = 2 /\ Len(b) = 2
  BY LE16Bytes
<1>2. PICK e \in Seq(Byte) : /\ e = a \o b \o v /\ Len(e) = Len(a) + Len(b) + Len(v)
                             /\ Occurs(a, 0, e) /\ Occurs(b, Len(a), e)
                             /\ Occurs(v, Len(a) + Len(b), e)
  BY Concat3
<1>3. Len(v) \in Nat /\ 2 + 2 = 4
  BY LenProperties
<1>4. Len(e) = 4 + Len(v) /\ Occurs(b, 2, e) /\ Occurs(v, 4, e)
  BY <1>1, <1>2, <1>3
<1>. QED  BY <1>1, <1>2, <1>3, <1>4


\* What a layout says of an entry.
TagOf(e) == IF e = Hash THEN TLV_SHA256 ELSE e.tag
ValueOf(e, hash) == IF e = Hash THEN hash ELSE e.value

\* Entries that fit their fields.
Fit(es, hash) ==
    /\ Len(es) \in Nat
    /\ \A i \in 1..Len(es) : /\ TagOf(es[i]) \in U16
                             /\ ValueOf(es[i], hash) \in Seq(Byte)
                             /\ Len(ValueOf(es[i], hash)) \in U16
                             /\ es[i] = Hash => Len(hash) = HashLen

\* An entry is its tag, its length and its value.
LEMMA EntryShape ==
    ASSUME NEW es, NEW hash, Fit(es, hash), NEW i \in 1..Len(es)
    PROVE  LET e == Entry(es[i], hash)
               v == ValueOf(es[i], hash)
           IN  /\ e \in Seq(Byte) /\ Len(e) = 4 + Len(v) /\ Len(v) \in Nat
               /\ Occurs(LE16(TagOf(es[i])), 0, e) /\ Occurs(LE16(Len(v)), 2, e) /\ Occurs(v, 4, e)
<1>1. PICK t \in U16, v \in Seq(Byte) : t = TagOf(es[i]) /\ v = ValueOf(es[i], hash) /\ Len(v) \in U16
  BY DEF Fit
<1>2. Entry(es[i], hash) = LE16(t) \o LE16(Len(v)) \o v
  <2>1. CASE es[i] = Hash
    BY <1>1, <2>1 DEF Entry, TagOf, ValueOf, Fit
  <2>2. CASE es[i] # Hash
    BY <1>1, <2>2 DEF Entry, TagOf, ValueOf
  <2>. QED  BY <2>1, <2>2
<1>3. PICK e : e = Entry(es[i], hash) /\ e = LE16(t) \o LE16(Len(v)) \o v
  BY <1>2
<1>4. /\ e \in Seq(Byte) /\ Len(e) = 4 + Len(v) /\ Len(v) \in Nat
      /\ Occurs(LE16(t), 0, e) /\ Occurs(LE16(Len(v)), 2, e) /\ Occurs(v, 4, e)
  <2>1. Len(v) \in U16
    BY <1>1
  <2>. QED  BY <1>3, <2>1, Labelled
<1>. QED  BY <1>1, <1>3, <1>4

\* f joins the first n entries, for n up to m.
Joins(f, m, es, hash) ==
    f = [n \in 0..m |-> IF n = 0 THEN <<>> ELSE f[n - 1] \o Entry(es[n], hash)]

\* There is such a function, so that JoinedTo is one.
LEMMA JoinedToIs ==
    ASSUME NEW es, NEW hash, Len(es) \in Nat
    PROVE  /\ JoinedTo(es, hash)[0] = <<>>
           /\ \A n \in 1..Len(es) :
                 JoinedTo(es, hash)[n] = JoinedTo(es, hash)[n - 1] \o Entry(es[n], hash)
<1>. DEFINE Bad == {m \in Nat : ~\E f : Joins(f, m, es, hash)}
<1>1. Bad = {}
  <2>1. SUFFICES ASSUME Bad # {} PROVE FALSE
    OBVIOUS
  <2>2. PICK m \in Bad : \A k \in Bad : m <= k
    BY <2>1, LeastNumber
  <2>3. m # 0
    <3>1. Joins([n \in 0..0 |-> <<>>], 0, es, hash)
      BY DEF Joins
    <3>. QED  BY <2>2, <3>1
  <2>4. m - 1 \in Nat /\ m - 1 \notin Bad
    BY <2>2, <2>3
  <2>5. PICK f : Joins(f, m - 1, es, hash)
    BY <2>4
  <2>. DEFINE g == [n \in 0..m |-> IF n = 0 THEN <<>> ELSE f[n - 1] \o Entry(es[n], hash)]
  <2>6. \A n \in 0..(m - 1) : g[n] = f[n]
    BY <2>4, <2>5 DEF Joins
  <2>7. \A n \in 1..m : n - 1 \in 0..(m - 1)
    BY <2>4
  <2>8. \A n \in 0..m : g[n] = IF n = 0 THEN <<>> ELSE g[n - 1] \o Entry(es[n], hash)
    <3>1. TAKE n \in 0..m
    <3>2. CASE n = 0
      BY <3>2
    <3>3. CASE n # 0
      <4>1. n \in 1..m
        BY <3>3
      <4>2. g[n] = f[n - 1] \o Entry(es[n], hash)
        BY <3>3
      <4>3. g[n - 1] = f[n - 1]
        BY <4>1, <2>6, <2>7
      <4>. QED  BY <3>3, <4>2, <4>3
    <3>. QED  BY <3>2, <3>3
  <2>9. g = [n \in 0..m |-> g[n]]
    OBVIOUS
  <2>. HIDE DEF g
  <2>10. Joins(g, m, es, hash)
    BY <2>8, <2>9 DEF Joins
  <2>. QED  BY <2>2, <2>10
<1>2. PICK f : Joins(f, Len(es), es, hash)
  BY <1>1
<1>3. JoinedTo(es, hash)
         = [n \in 0..Len(es) |->
              IF n = 0 THEN <<>> ELSE JoinedTo(es, hash)[n - 1] \o Entry(es[n], hash)]
  BY <1>2 DEF Joins, JoinedTo
<1>. QED  BY <1>3

\* Longer joins begin with the shorter ones.
LEMMA JoinShape ==
    ASSUME NEW es, NEW hash, Fit(es, hash)
    PROVE  LET J == JoinedTo(es, hash)
           IN  /\ \A n \in 0..Len(es) : /\ J[n] \in Seq(Byte) /\ Len(J[n]) \in Nat
                                        /\ Occurs(J[n], 0, J[Len(es)])
               /\ J[0] = <<>>
               /\ \A n \in 1..Len(es) :
                     /\ Len(J[n]) = Len(J[n - 1]) + 4 + Len(ValueOf(es[n], hash))
                     /\ Occurs(Entry(es[n], hash), Len(J[n - 1]), J[Len(es)])
<1>. DEFINE J == JoinedTo(es, hash)
            N == Len(es)
<1>1. N \in Nat
  BY DEF Fit
<1>2. J[0] = <<>> /\ \A n \in 1..N : J[n] = J[n - 1] \o Entry(es[n], hash)
  BY <1>1, JoinedToIs
<1>3. \A n \in 1..N : Entry(es[n], hash) \in Seq(Byte)
  BY EntryShape
<1>. HIDE DEF J
<1>4. \A n \in 0..N : J[n] \in Seq(Byte)
  <2>. DEFINE Bad == {n \in 0..N : J[n] \notin Seq(Byte)}
  <2>1. SUFFICES ASSUME Bad # {} PROVE FALSE
    OBVIOUS
  <2>2. PICK m \in Bad : \A k \in Bad : m <= k
    <3>1. Bad \subseteq Nat
      BY <1>1
    <3>. QED  BY <2>1, <3>1, LeastNumber
  <2>3. m # 0
    <3>1. <<>> \in Seq(Byte)
      BY EmptySeq
    <3>. QED  BY <1>2, <2>2, <3>1
  <2>4. m \in 1..N /\ m - 1 \in 0..N /\ ~(m <= m - 1)
    BY <1>1, <2>2, <2>3
  <2>5. J[m - 1] \in Seq(Byte)
    BY <2>2, <2>4
  <2>6. J[m] \in Seq(Byte)
    <3>1. PICK a \in Seq(Byte), b \in Seq(Byte) : a = J[m - 1] /\ b = Entry(es[m], hash)
      BY <1>3, <2>4, <2>5
    <3>2. a \o b \in Seq(Byte)
      BY Concat
    <3>. QED  BY <1>2, <2>4, <3>1, <3>2
  <2>. QED  BY <2>2, <2>6
<1>5. ASSUME NEW n \in 1..N
      PROVE  /\ n - 1 \in 0..N
             /\ Len(J[n]) = Len(J[n - 1]) + Len(Entry(es[n], hash))
             /\ Occurs(J[n - 1], 0, J[n]) /\ Occurs(Entry(es[n], hash), Len(J[n - 1]), J[n])
  <2>1. n - 1 \in 0..N
    BY <1>1
  <2>2. PICK a \in Seq(Byte), b \in Seq(Byte) : a = J[n - 1] /\ b = Entry(es[n], hash)
    BY <1>3, <1>4, <2>1
  <2>3. J[n] = a \o b
    BY <1>2, <2>2
  <2>. QED  BY <2>1, <2>2, <2>3, Concat
<1>6. \A n \in 0..N : Occurs(J[n], 0, J[N])
  <2>. DEFINE Bad == {k \in 0..N : ~Occurs(J[N - k], 0, J[N])}
  <2>1. SUFFICES ASSUME Bad # {} PROVE FALSE
    <3>1. TAKE n \in 0..N
    <3>2. N - n \in 0..N /\ N - (N - n) = n
      BY <1>1
    <3>. QED  BY <2>1, <3>2
  <2>2. PICK m \in Bad : \A k \in Bad : m <= k
    <3>1. Bad \subseteq Nat
      BY <1>1
    <3>. QED  BY <2>1, <3>1, LeastNumber
  <2>3. m # 0
    <3>1. Occurs(J[N], 0, J[N])
      <4>1. PICK s \in Seq(Byte) : s = J[N]
        BY <1>1, <1>4
      <4>2. Len(s) \in Nat
        BY LenProperties
      <4>3. \A j \in 1..Len(s) : 0 + j = j
        BY <4>2
      <4>4. 0 + Len(s) <= Len(s)
        BY <4>2
      <4>. QED  BY <4>1, <4>3, <4>4 DEF Occurs
    <3>2. N - 0 = N
      BY <1>1
    <3>. QED  BY <2>2, <3>1, <3>2
  <2>4. /\ m - 1 \in 0..N /\ ~(m <= m - 1) /\ N - m + 1 \in 1..N
        /\ N - (m - 1) = N - m + 1 /\ (N - m + 1) - 1 = N - m /\ N - m \in 0..N
    BY <1>1, <2>2, <2>3
  <2>5. Occurs(J[N - m + 1], 0, J[N])
    BY <2>2, <2>4
  <2>6. Occurs(J[N - m], 0, J[N - m + 1])
    BY <1>5, <2>4
  <2>7. N - m + 1 \in 0..N /\ N \in 0..N
    BY <1>1, <2>4
  <2>8. Occurs(J[N - m], 0 + 0, J[N])
    BY <1>4, <2>4, <2>5, <2>6, <2>7, Within
  <2>. QED  BY <2>2, <2>8
<1>7. \A n \in 0..N : Len(J[n]) \in Nat
  BY <1>4, LenProperties
<1>8. ASSUME NEW n \in 1..N
      PROVE  /\ Len(J[n]) = Len(J[n - 1]) + 4 + Len(ValueOf(es[n], hash))
             /\ Occurs(Entry(es[n], hash), Len(J[n - 1]), J[N])
  <2>1. n - 1 \in 0..N /\ n \in 0..N /\ N \in 0..N
    BY <1>1
  <2>2. PICK a \in Nat, b \in Nat : a = Len(J[n - 1]) /\ b = Len(ValueOf(es[n], hash))
    BY <1>7, <2>1, EntryShape
  <2>3. Len(J[n]) = a + (4 + b)
    BY <1>5, <2>2, EntryShape
  <2>4. Len(J[n]) = a + 4 + b
    BY <2>3
  <2>5. Occurs(Entry(es[n], hash), 0 + a, J[N])
    BY <1>3, <1>4, <1>5, <1>6, <2>1, <2>2, Within
  <2>6. 0 + a = a
    OBVIOUS
  <2>. QED  BY <2>2, <2>4, <2>5, <2>6
<1>. QED  BY <1>2, <1>4, <1>6, <1>7, <1>8 DEF J

\* A block: its magic, its length, its entries.
LEMMA BlockShape ==
    ASSUME NEW magic \in U16, NEW es, NEW hash, es # NoBlock, Fit(es, hash),
           Len(Block(magic, es, hash)) \in U16
    PROVE  LET b == Block(magic, es, hash)
               body == JoinedTo(es, hash)[Len(es)]
           IN  /\ b \in Seq(Byte) /\ Len(b) = 4 + Len(body)
               /\ Occurs(LE16(magic), 0, b) /\ Occurs(LE16(Len(b)), 2, b) /\ Occurs(body, 4, b)
<1>1. Len(es) \in 0..Len(es)
  BY DEF Fit
<1>2. PICK body \in Seq(Byte) : body = JoinedTo(es, hash)[Len(es)]
  BY <1>1, JoinShape
<1>3. Block(magic, es, hash) = LE16(magic) \o LE16(4 + Len(body)) \o body
  BY <1>2 DEF Block
<1>4. LE16(magic) \in Seq(Int) /\ Len(LE16(magic)) = 2 /\ body \in Seq(Int)
  <2>1. Byte \subseteq Int
    BY Parameters DEF Byte
  <2>2. LE16(magic) \in Seq(Byte) /\ Len(LE16(magic)) = 2
    BY LE16Bytes
  <2>. QED  BY <2>1, <2>2, SeqMonotonic
\* A length has two digits, whatever it is.
<1>5. LE16(4 + Len(body)) \in Seq(Int) /\ Len(LE16(4 + Len(body))) = 2
  <2>1. PICK n \in Nat : n = 4 + Len(body)
    BY LenProperties
  <2>2. n % ByteMod \in Int /\ n \div ByteMod \in Int
    BY <2>1, Parameters
  <2>3. LE16(n) \in Seq(Int) /\ Len(LE16(n)) = 2
    BY <2>2 DEF LE16
  <2>. QED  BY <2>1, <2>3
<1>6. Len(Block(magic, es, hash)) = 4 + Len(body)
  <2>1. PICK x \in Seq(Int), y \in Seq(Int) : /\ x = LE16(magic) /\ y = LE16(4 + Len(body))
                                              /\ Len(x) = 2 /\ Len(y) = 2
    BY <1>4, <1>5
  <2>2. PICK z \in Seq(Int) : z = x \o y /\ Len(z) = Len(x) + Len(y)
    BY ConcatProperties
  <2>3. Len(z \o body) = Len(z) + Len(body)
    BY <1>4, ConcatProperties
  <2>4. Len(z) = 4
    BY <2>1, <2>2
  <2>. QED  BY <1>3, <2>1, <2>2, <2>3, <2>4
<1>7. PICK n \in U16 : n = Len(Block(magic, es, hash)) /\ n = 4 + Len(body)
  BY <1>6
<1>8. PICK b : b = Block(magic, es, hash) /\ b = LE16(magic) \o LE16(n) \o body
  BY <1>3, <1>7
<1>9. /\ b \in Seq(Byte)
      /\ Occurs(LE16(magic), 0, b) /\ Occurs(LE16(n), 2, b) /\ Occurs(body, 4, b)
  BY <1>8, Labelled
<1>. QED  BY <1>2, <1>7, <1>8, <1>9

\* What a layout may hold, for the lemmas that follow.
LEMMA LayoutFits ==
    ASSUME NEW l \in Layouts
    PROVE  /\ l.header \in U16 /\ l.header \in Nat /\ l.header >= 32 /\ l.app \in U32 /\ l.app \in Nat
           /\ Len(Protected(l)) \in U16 /\ Len(Unprotected(l)) \in U16
           /\ Sha256(Signed(l)) \in Seq(Byte) /\ Len(Sha256(Signed(l))) = HashLen
           /\ l.protected # NoBlock => Fit(l.protected, <<>>)
           /\ l.unprotected # NoBlock => Fit(l.unprotected, Sha256(Signed(l)))
           /\ l.protected # NoBlock =>
                 \A i \in 1..Len(l.protected) :
                     l.protected[i] # Hash /\ Plain(l.protected[i])
           /\ l.unprotected # NoBlock =>
                 \A i \in 1..Len(l.unprotected) :
                     l.unprotected[i] = Hash \/ Plain(l.unprotected[i])
<1>1. l.header \in U16 /\ l.app \in U32 /\ l.header >= 32
  BY LayoutAssumption DEF MIN_HEADER_LEN
<1>2. l.header \in Nat /\ l.app \in Nat
  BY <1>1, Parameters
<1>3. /\ Len(Protected(l)) \in U16 /\ Len(Unprotected(l)) \in U16
      /\ Sha256(Signed(l)) \in Seq(Byte) /\ Len(Sha256(Signed(l))) = HashLen
      /\ TLV_SHA256 \in U16 /\ HashLen \in U16
  BY LayoutAssumption
<1>4. /\ l.protected # NoBlock =>
            /\ Len(l.protected) \in Nat
            /\ \A i \in 1..Len(l.protected) :
                  l.protected[i] # Hash /\ Plain(l.protected[i])
      /\ l.unprotected # NoBlock =>
            /\ Len(l.unprotected) \in Nat
            /\ \A i \in 1..Len(l.unprotected) :
                  l.unprotected[i] = Hash \/ Plain(l.unprotected[i])
  BY LayoutAssumption
<1>5. ASSUME NEW e, NEW hash, e # Hash, Plain(e)
      PROVE  TagOf(e) \in U16 /\ ValueOf(e, hash) \in Seq(Byte) /\ Len(ValueOf(e, hash)) \in U16
  BY <1>5 DEF Plain, TagOf, ValueOf
<1>6. /\ TagOf(Hash) \in U16
      /\ ValueOf(Hash, Sha256(Signed(l))) \in Seq(Byte)
      /\ Len(ValueOf(Hash, Sha256(Signed(l)))) \in U16
  BY <1>3 DEF TagOf, ValueOf
<1>7. l.protected # NoBlock => Fit(l.protected, <<>>)
  BY <1>4, <1>5 DEF Fit
<1>8. l.unprotected # NoBlock => Fit(l.unprotected, Sha256(Signed(l)))
  BY <1>3, <1>4, <1>5, <1>6 DEF Fit
<1>. QED  BY <1>1, <1>2, <1>3, <1>4, <1>7, <1>8

\* The two blocks of a layout.
LEMMA Blocks ==
    ASSUME NEW l \in Layouts
    PROVE  /\ Protected(l) \in Seq(Byte) /\ Len(Protected(l)) \in Nat
           /\ Unprotected(l) \in Seq(Byte) /\ Len(Unprotected(l)) \in Nat
           /\ l.protected = NoBlock => Len(Protected(l)) = 0
           /\ l.unprotected = NoBlock => Len(Unprotected(l)) = 0
           /\ l.protected # NoBlock =>
                 /\ Len(Protected(l)) = 4 + Len(JoinedTo(l.protected, <<>>)[Len(l.protected)])
                 /\ Occurs(LE16(TLV_PROT_INFO_MAGIC), 0, Protected(l))
                 /\ Occurs(LE16(Len(Protected(l))), 2, Protected(l))
                 /\ Occurs(JoinedTo(l.protected, <<>>)[Len(l.protected)], 4, Protected(l))
           /\ l.unprotected # NoBlock =>
                 LET J == JoinedTo(l.unprotected, Sha256(Signed(l)))
                 IN  /\ Len(Unprotected(l)) = 4 + Len(J[Len(l.unprotected)])
                     /\ Occurs(LE16(TLV_INFO_MAGIC), 0, Unprotected(l))
                     /\ Occurs(LE16(Len(Unprotected(l))), 2, Unprotected(l))
                     /\ Occurs(J[Len(l.unprotected)], 4, Unprotected(l))
<1>1. TLV_PROT_INFO_MAGIC \in U16 /\ TLV_INFO_MAGIC \in U16
  BY LayoutAssumption
<1>2. /\ Protected(l) = Block(TLV_PROT_INFO_MAGIC, l.protected, <<>>)
      /\ Unprotected(l) = Block(TLV_INFO_MAGIC, l.unprotected, Sha256(Signed(l)))
  BY DEF Protected, Unprotected
<1>3. ASSUME l.protected = NoBlock
      PROVE  Protected(l) \in Seq(Byte) /\ Len(Protected(l)) = 0
  BY <1>2, <1>3, EmptySeq DEF Block
<1>4. ASSUME l.unprotected = NoBlock
      PROVE  Unprotected(l) \in Seq(Byte) /\ Len(Unprotected(l)) = 0
  BY <1>2, <1>4, EmptySeq DEF Block
<1>5. ASSUME l.protected # NoBlock
      PROVE  /\ Protected(l) \in Seq(Byte)
             /\ Len(Protected(l)) = 4 + Len(JoinedTo(l.protected, <<>>)[Len(l.protected)])
             /\ Occurs(LE16(TLV_PROT_INFO_MAGIC), 0, Protected(l))
             /\ Occurs(LE16(Len(Protected(l))), 2, Protected(l))
             /\ Occurs(JoinedTo(l.protected, <<>>)[Len(l.protected)], 4, Protected(l))
  BY <1>1, <1>2, <1>5, LayoutFits, BlockShape
<1>6. ASSUME l.unprotected # NoBlock
      PROVE  LET J == JoinedTo(l.unprotected, Sha256(Signed(l)))
             IN  /\ Unprotected(l) \in Seq(Byte)
                 /\ Len(Unprotected(l)) = 4 + Len(J[Len(l.unprotected)])
                 /\ Occurs(LE16(TLV_INFO_MAGIC), 0, Unprotected(l))
                 /\ Occurs(LE16(Len(Unprotected(l))), 2, Unprotected(l))
                 /\ Occurs(J[Len(l.unprotected)], 4, Unprotected(l))
  BY <1>1, <1>2, <1>6, LayoutFits, BlockShape
<1>7. Protected(l) \in Seq(Byte) /\ Unprotected(l) \in Seq(Byte)
  BY <1>3, <1>4, <1>5, <1>6
<1>8. Len(Protected(l)) \in Nat /\ Len(Unprotected(l)) \in Nat
  BY <1>7, LenProperties
<1>. QED  BY <1>3, <1>4, <1>5, <1>6, <1>7, <1>8

\* s and then t, kept closed in the proofs.
Both(s, t) == s \o t

\* What is somewhere in s is at the same place in c.
Keeps(s, c) == \A x \in Seq(Byte) : \A i : Occurs(x, i, s) => Occurs(x, i, c)

\* One more part goes behind the others.
LEMMA Put ==
    ASSUME NEW s \in Seq(Byte), NEW t \in Seq(Byte)
    PROVE  \E c \in Seq(Byte) :
              /\ c = Both(s, t) /\ Len(c) = Len(s) + Len(t)
              /\ Occurs(s, 0, c) /\ Occurs(t, Len(s), c)
              /\ Keeps(s, c)
BY Concat, Behind DEF Both, Keeps

\* Where the header's fields and the protected block are.
LEMMA SignedShape ==
    ASSUME NEW l \in Layouts
    PROVE  LET s == Signed(l)
           IN  /\ s \in Seq(Byte) /\ Len(s) = l.header + l.app + Len(Protected(l))
               /\ Occurs(LE32(IMAGE_MAGIC), 0, s) /\ Occurs(LE16(l.header), 8, s)
               /\ Occurs(LE16(Len(Protected(l))), 10, s) /\ Occurs(LE32(l.app), 12, s)
               /\ Occurs(Protected(l), l.header + l.app, s)
<1>1. PICK m \in Seq(Byte) : m = LE32(IMAGE_MAGIC) /\ Len(m) = 4
  BY LE32Bytes, LayoutAssumption
<1>2. PICK h \in Seq(Byte) : h = LE16(l.header) /\ Len(h) = 2
  BY LE16Bytes, LayoutFits
<1>3. PICK t \in Seq(Byte) : t = LE16(Len(Protected(l))) /\ Len(t) = 2
  BY LE16Bytes, LayoutFits
<1>4. PICK a \in Seq(Byte) : a = LE32(l.app) /\ Len(a) = 4
  BY LE32Bytes, LayoutFits
<1>5. ASSUME NEW n \in Nat PROVE Zeros(n) \in Seq(Byte) /\ Len(Zeros(n)) = n
  BY <1>5, Parameters DEF Zeros
<1>6. PICK z \in Seq(Byte) : z = Zeros(4) /\ Len(z) = 4
  BY <1>5
<1>7. PICK header \in Nat, app \in Nat : header = l.header /\ app = l.app /\ header >= 32
  BY LayoutFits
<1>8. PICK y \in Seq(Byte) : y = Zeros(l.header - 16) /\ Len(y) = header - 16
  <2>1. header - 16 \in Nat
    BY <1>7
  <2>. QED  BY <1>5, <1>7, <2>1
<1>9. PICK b \in Seq(Byte) : b = [i \in 1..l.app |-> i % ByteMod] /\ Len(b) = app
  <2>1. ByteMod \in Nat \ {0}
    BY Parameters
  <2>2. \A i \in 1..app : i % ByteMod \in 0..(ByteMod - 1)
    BY <1>7, <2>1
  <2>3. \A i \in 1..app : i % ByteMod \in Byte
    BY <2>2 DEF Byte
  <2>4. [i \in 1..app |-> i % ByteMod] \in Seq(Byte)
    <3>1. [i \in 1..app |-> i % ByteMod] \in [1..app -> Byte]
      BY <2>3
    <3>. QED  BY <3>1
  <2>5. Len([i \in 1..app |-> i % ByteMod]) = app
    BY <1>7
  <2>. QED  BY <1>7, <2>4, <2>5
<1>10. PICK p \in Seq(Byte) : p = Protected(l) /\ Len(p) \in Nat
  BY Blocks
<1>11. Signed(l) = Both(Both(Both(Both(Both(Both(Both(m, z), h), t), a), y), b), p)
  BY <1>1, <1>2, <1>3, <1>4, <1>6, <1>8, <1>9, <1>10 DEF Signed, Both
<1>12. PICK c1 \in Seq(Byte) : /\ c1 = Both(m, z) /\ Len(c1) = Len(m) + Len(z)
                              /\ Occurs(m, 0, c1) /\ Occurs(z, Len(m), c1) /\ Keeps(m, c1)
  BY Put
<1>13. Len(c1) = 8
  <2>1. Len(m) = 4 /\ Len(z) = 4
    BY <1>1, <1>6
  <2>. QED  BY <1>12, <2>1
<1>14. PICK c2 \in Seq(Byte) : /\ c2 = Both(c1, h) /\ Len(c2) = Len(c1) + Len(h)
                              /\ Occurs(c1, 0, c2) /\ Occurs(h, Len(c1), c2) /\ Keeps(c1, c2)
  BY Put
<1>15. Len(c2) = 10 /\ Occurs(h, 8, c2)
  BY <1>2, <1>13, <1>14
<1>16. Occurs(m, 0, c2)
  BY <1>13, <1>12, <1>14 DEF Keeps
<1>17. PICK c3 \in Seq(Byte) : /\ c3 = Both(c2, t) /\ Len(c3) = Len(c2) + Len(t)
                              /\ Occurs(c2, 0, c3) /\ Occurs(t, Len(c2), c3) /\ Keeps(c2, c3)
  BY Put
<1>18. Len(c3) = 12 /\ Occurs(t, 10, c3)
  BY <1>3, <1>15, <1>17
<1>19. Occurs(m, 0, c3) /\ Occurs(h, 8, c3)
  BY <1>15, <1>16, <1>17 DEF Keeps
<1>20. PICK c4 \in Seq(Byte) : /\ c4 = Both(c3, a) /\ Len(c4) = Len(c3) + Len(a)
                              /\ Occurs(c3, 0, c4) /\ Occurs(a, Len(c3), c4) /\ Keeps(c3, c4)
  BY Put
<1>21. Len(c4) = 16 /\ Occurs(a, 12, c4)
  BY <1>4, <1>18, <1>20
<1>22. Occurs(m, 0, c4) /\ Occurs(h, 8, c4) /\ Occurs(t, 10, c4)
  BY <1>18, <1>19, <1>20 DEF Keeps
<1>23. PICK c5 \in Seq(Byte) : /\ c5 = Both(c4, y) /\ Len(c5) = Len(c4) + Len(y)
                               /\ Occurs(c4, 0, c5) /\ Occurs(y, Len(c4), c5) /\ Keeps(c4, c5)
  BY Put
<1>24. Len(c5) = header
  <2>1. Len(c4) = 16 /\ Len(y) = header - 16
    BY <1>8, <1>21
  <2>. QED  BY <1>23, <2>1
<1>25. Occurs(m, 0, c5) /\ Occurs(h, 8, c5) /\ Occurs(t, 10, c5) /\ Occurs(a, 12, c5)
  BY <1>21, <1>22, <1>23 DEF Keeps
<1>26. PICK c6 \in Seq(Byte) : /\ c6 = Both(c5, b) /\ Len(c6) = Len(c5) + Len(b)
                               /\ Occurs(c5, 0, c6) /\ Occurs(b, Len(c5), c6) /\ Keeps(c5, c6)
  BY Put
<1>27. Len(c6) = header + app
  BY <1>9, <1>24, <1>26
<1>28. Occurs(m, 0, c6) /\ Occurs(h, 8, c6) /\ Occurs(t, 10, c6) /\ Occurs(a, 12, c6)
  BY <1>24, <1>25, <1>26 DEF Keeps
<1>29. PICK c7 \in Seq(Byte) : /\ c7 = Both(c6, p) /\ Len(c7) = Len(c6) + Len(p)
                               /\ Occurs(c6, 0, c7) /\ Occurs(p, Len(c6), c7) /\ Keeps(c6, c7)
  BY Put
<1>30. Len(c7) = header + app + Len(p) /\ Occurs(p, header + app, c7)
  BY <1>10, <1>27, <1>29
<1>31. Occurs(m, 0, c7) /\ Occurs(h, 8, c7) /\ Occurs(t, 10, c7) /\ Occurs(a, 12, c7)
  BY <1>27, <1>28, <1>29 DEF Keeps
<1>32. Signed(l) = c7
  BY <1>11, <1>12, <1>14, <1>17, <1>20, <1>23, <1>26, <1>29
<1>. QED  BY <1>1, <1>2, <1>3, <1>4, <1>7, <1>10, <1>29, <1>30, <1>31, <1>32

\* A built file is what the hash covers and the other block.
LEMMA BuiltShape ==
    ASSUME NEW l \in Layouts
    PROVE  LET f == Built(l)
               s == Signed(l)
           IN  /\ f \in Seq(Byte) /\ Len(f) = Len(s) + Len(Unprotected(l)) /\ Len(s) \in Nat
               /\ Occurs(s, 0, f) /\ Occurs(Unprotected(l), Len(s), f)
<1>1. PICK s \in Seq(Byte), u \in Seq(Byte) : s = Signed(l) /\ u = Unprotected(l)
  BY SignedShape, Blocks
<1>2. Built(l) = s \o u
  BY <1>1 DEF Built
<1>. QED  BY <1>1, <1>2, Concat

\* What is cut out where x lies is x.
LEMMA Cut ==
    ASSUME NEW x \in Seq(Byte), NEW s \in Seq(Byte), NEW i \in Nat, Occurs(x, i, s)
    PROVE  SubSeq(s, i + 1, i + Len(x)) = x
<1>1. PICK n \in Nat : n = Len(x)
  BY LenProperties
<1>2. Len(s) \in Nat
  BY LenProperties
<1>3. i + n <= Len(s) /\ \A j \in 1..n : s[i + j] = x[j]
  BY <1>1 DEF Occurs
<1>4. /\ i + 1 \in 1..(Len(s) + 1) /\ i + n \in 0..Len(s) /\ i + 1 <= (i + n) + 1
      /\ (i + n) + 1 - (i + 1) = n
  BY <1>2, <1>3
<1>5. PICK c \in Seq(Byte) : /\ c = SubSeq(s, i + 1, i + n) /\ Len(c) = (i + n) + 1 - (i + 1)
                             /\ \A j \in 1..Len(c) : c[j] = s[(i + 1) + j - 1]
  <2>1. PICK a \in 1..(Len(s) + 1), b \in 0..Len(s) : a = i + 1 /\ b = i + n /\ a <= b + 1
    BY <1>4
  <2>2. /\ SubSeq(s, a, b) \in Seq(Byte) /\ Len(SubSeq(s, a, b)) = b + 1 - a
        /\ \A j \in 1..Len(SubSeq(s, a, b)) : SubSeq(s, a, b)[j] = s[a + j - 1]
    BY <2>1, SubSeqKeeps
  <2>. QED  BY <2>1, <2>2
<1>6. Len(c) = n
  BY <1>4, <1>5
<1>7. \A j \in 1..n : (i + 1) + j - 1 = i + j
  OBVIOUS
<1>8. \A j \in 1..n : c[j] = x[j]
  BY <1>3, <1>5, <1>6, <1>7
<1>9. c = x
  BY <1>1, <1>6, <1>8, SeqEqual
<1>. QED  BY <1>1, <1>5, <1>9

\* Sums of offsets in a block.
LEMMA Offsets ==
    ASSUME NEW r \in Nat, NEW o \in Nat
    PROVE  /\ r + 4 + o \in Nat /\ r + 4 + o + 0 = r + 4 + o
           /\ ~((r + 4 + o) - (r + 4 + o) >= 4)
OBVIOUS

\* An entry behind others lies before the end of its block.
LEMMA EntryOffsets ==
    ASSUME NEW r \in Nat, NEW o \in Nat, NEW c \in Nat, NEW p \in Nat, NEW q \in Nat,
           p = o + 4 + c, p <= q
    PROVE  /\ (r + 4 + q) - (r + 4 + o) >= 4
           /\ (r + 4 + o) + 4 + c = r + 4 + p
           /\ r + 4 + p <= r + 4 + q
OBVIOUS

\* The walk is behind the first k entries of a block that begins at r.
AfterSome(es, hash, r, k) ==
    /\ k \in 0..Len(es)
    /\ Occurs(JoinedTo(es, hash)[Len(es)], r + 4, file)
    /\ entries = r + 4 + Len(JoinedTo(es, hash)[k])
    /\ end = r + 4 + Len(JoinedTo(es, hash)[Len(es)])

\* What the walk reads of the entry that follows.
LEMMA ReadsEntry ==
    ASSUME file \in Seq(Byte), NEW es, NEW hash, Fit(es, hash), NEW r \in Nat, NEW k,
           AfterSome(es, hash, r, k)
    PROVE  /\ k = Len(es) => ~EntryLeft
           /\ k # Len(es) =>
                 LET v == ValueOf(es[k + 1], hash)
                 IN  /\ k + 1 \in 1..Len(es)
                     /\ EntryLeft /\ EntryFits
                     /\ Tag = TagOf(es[k + 1]) /\ ValueLen = Len(v)
                     /\ AfterEntry = r + 4 + Len(JoinedTo(es, hash)[k + 1])
                     /\ SubSeq(file, Value + 1, Value + ValueLen) = v
<1>. DEFINE J == JoinedTo(es, hash)
            N == Len(es)
<1>1. N \in Nat /\ k \in 0..N /\ N \in 0..N
  BY DEF Fit, AfterSome
<1>2. /\ \A n \in 0..N : J[n] \in Seq(Byte) /\ Len(J[n]) \in Nat /\ Occurs(J[n], 0, J[N])
      /\ \A n \in 1..N : /\ Len(J[n]) = Len(J[n - 1]) + 4 + Len(ValueOf(es[n], hash))
                         /\ Occurs(Entry(es[n], hash), Len(J[n - 1]), J[N])
  BY JoinShape
<1>. HIDE DEF J
<1>3. Occurs(J[N], r + 4, file) /\ entries = r + 4 + Len(J[k]) /\ end = r + 4 + Len(J[N])
  BY DEF J, AfterSome
<1>4. ASSUME k = N PROVE ~EntryLeft
  <2>1. PICK q \in Nat : q = Len(J[N])
    BY <1>1, <1>2
  <2>2. entries = r + 4 + q /\ end = r + 4 + q
    BY <1>3, <1>4, <2>1
  <2>3. ~((r + 4 + q) - (r + 4 + q) >= 4)
    BY <2>1, Offsets
  <2>. QED  BY <2>2, <2>3 DEF EntryLeft
<1>5. ASSUME k # N
      PROVE  LET v == ValueOf(es[k + 1], hash)
             IN  /\ k + 1 \in 1..N
                 /\ EntryLeft /\ EntryFits
                 /\ Tag = TagOf(es[k + 1]) /\ ValueLen = Len(v)
                 /\ AfterEntry = r + 4 + Len(J[k + 1])
                 /\ SubSeq(file, Value + 1, Value + ValueLen) = v
  <2>1. k + 1 \in 1..N /\ k + 1 \in 0..N /\ (k + 1) - 1 = k
    BY <1>1, <1>5
  <2>2. PICK e \in Seq(Byte), v \in Seq(Byte), t \in U16 :
            /\ e = Entry(es[k + 1], hash) /\ v = ValueOf(es[k + 1], hash)
            /\ t = TagOf(es[k + 1])
    BY <2>1, EntryShape DEF Fit
  <2>3. /\ Len(e) = 4 + Len(v) /\ Len(v) \in Nat /\ Len(v) \in U16
        /\ Occurs(LE16(t), 0, e) /\ Occurs(LE16(Len(v)), 2, e) /\ Occurs(v, 4, e)
    BY <2>1, <2>2, EntryShape DEF Fit
  <2>4. PICK o \in Nat, p \in Nat, q \in Nat : o = Len(J[k]) /\ p = Len(J[k + 1]) /\ q = Len(J[N])
    BY <1>1, <1>2, <2>1
  <2>5. p = o + 4 + Len(v) /\ Occurs(e, o, J[N])
    BY <1>2, <2>1, <2>2, <2>4
  <2>6. p <= q
    <3>1. Occurs(J[k + 1], 0, J[N])
      BY <1>2, <2>1
    <3>2. 0 + p <= q
      BY <2>4, <3>1 DEF Occurs
    <3>. QED  BY <2>4, <3>2
  <2>7. entries = r + 4 + o /\ end = r + 4 + q
    BY <1>3, <2>4
  <2>8. Occurs(e, entries, file)
    <3>1. Occurs(e, r + 4 + o, file)
      BY <1>1, <1>2, <1>3, <2>5, Within
    <3>. QED  BY <2>7, <3>1
  <2>9. /\ LE16(t) \in Seq(Byte) /\ Len(LE16(t)) = 2
        /\ LE16(Len(v)) \in Seq(Byte) /\ Len(LE16(Len(v))) = 2
    BY <2>3, LE16Bytes
  <2>10. entries \in Nat /\ entries + 0 = entries
    BY <2>4, <2>7, Offsets
  <2>11. Tag = t
    <3>1. Occurs(LE16(t), entries + 0, file)
      BY <2>3, <2>8, <2>9, Within
    <3>. QED  BY <2>10, <3>1, ReadsU16 DEF Tag
  <2>12. ValueLen = Len(v)
    <3>1. Occurs(LE16(Len(v)), entries + 2, file)
      BY <2>3, <2>8, <2>9, Within
    <3>. QED  BY <2>3, <3>1, ReadsU16 DEF ValueLen
  <2>13. PICK c \in Nat : c = Len(v)
    BY <2>3
  <2>14. /\ (r + 4 + q) - (r + 4 + o) >= 4
         /\ (r + 4 + o) + 4 + c = r + 4 + p /\ r + 4 + p <= r + 4 + q
    <3>1. p = o + 4 + c
      BY <2>5, <2>13
    <3>2. p <= q
      BY <2>6
    <3>. QED  BY <3>1, <3>2, EntryOffsets
  <2>15. EntryLeft /\ AfterEntry = r + 4 + p /\ EntryFits
    BY <2>7, <2>12, <2>13, <2>14 DEF EntryLeft, AfterEntry, EntryFits, Value
  <2>16. SubSeq(file, Value + 1, Value + ValueLen) = v
    <3>1. Occurs(v, entries + 4, file)
      BY <2>3, <2>8, Within
    <3>2. PICK i \in Nat : i = entries + 4
      BY <2>10
    <3>3. SubSeq(file, i + 1, i + Len(v)) = v
      BY <3>1, <3>2, Cut
    <3>. QED  BY <2>12, <3>2, <3>3 DEF Value
  <2>. QED  BY <2>1, <2>2, <2>4, <2>11, <2>12, <2>15, <2>16
<1>. QED  BY <1>4, <1>5 DEF J

-----------------------------------------------------------------------------
(* A file that is whole, cut, or changed where it is only hashed.          *)

\* Names for the parts of a built file.
Covered == Signed(layout)
TlvStart == layout.header + layout.app

IsWhole == damage.kind # "cut"

Changed == damage.kind = "change"

\* What there is of the file is as it was built, but for a byte that is only
\* hashed.
AsBuilt ==
    /\ layout \in Layouts
    /\ file \in Seq(Byte) /\ Len(file) <= Len(Built(layout))
    /\ \A j \in 1..Len(file) : file[j] = Built(layout)[j] \/ (Changed /\ j = damage.at + 1)
    /\ IsWhole <=> Len(file) = Len(Built(layout))
    /\ ~IsWhole => Len(file) = damage.at
    /\ Changed => /\ damage.at \in OnlyHashed(layout) /\ damage \in Damages(Covered)
                  /\ file = Damaged(Built(layout), damage)

\* The byte that was changed, if any, is not among these n.
Spared(i, n) == Changed => damage.at < i \/ damage.at >= i + n

\* What is only hashed lies in two ranges.
LEMMA HashedRanges ==
    ASSUME NEW l, l.header \in Nat, l.app \in Nat, NEW at \in OnlyHashed(l)
    PROVE  /\ at \in Int
           /\ (at >= 4 /\ at <= 7) \/ (at >= 16 /\ at < l.header + l.app)
<1>1. at \in 4..7 \/ at \in 16..(l.header + l.app - 1)
  BY Zenon DEF OnlyHashed
<1>2. PICK h \in Nat, a \in Nat : h = l.header /\ a = l.app
  OBVIOUS
<1>3. at \in 4..7 \/ at \in 16..(h + a - 1)
  BY <1>1, <1>2
<1>4. at \in Int /\ ((at >= 4 /\ at <= 7) \/ (at >= 16 /\ at < h + a))
  BY <1>3
<1>. QED  BY <1>2, <1>4

\* The magic, the sizes and the TLVs are spared.
LEMMA SparedParts ==
    ASSUME AsBuilt
    PROVE  /\ TlvStart \in Nat
           /\ Spared(0, 4) /\ Spared(8, 2) /\ Spared(10, 2) /\ Spared(12, 4)
           /\ \A r \in Nat : \A n \in Nat : r >= TlvStart => Spared(r, n)
<1>0. layout \in Layouts
  BY DEF AsBuilt
<1>1. layout.header \in Nat /\ layout.app \in Nat /\ layout.header >= 32
  BY <1>0, LayoutFits
<1>2. PICK e \in Nat : e = layout.header + layout.app
  BY <1>1
<1>3. TlvStart \in Nat
  BY <1>2 DEF TlvStart
<1>4. CASE ~Changed
  BY <1>3, <1>4 DEF Spared
<1>5. CASE Changed
  <2>1. damage.at \in OnlyHashed(layout)
    BY <1>5 DEF AsBuilt
  <2>2. PICK b : b = damage.at
    OBVIOUS
  <2>3. PICK a \in Int : a = damage.at /\ ((a >= 4 /\ a <= 7) \/ (a >= 16 /\ a < e))
    BY <1>1, <1>2, <2>1, <2>2, HashedRanges
  <2>4. Spared(0, 4) /\ Spared(8, 2) /\ Spared(10, 2) /\ Spared(12, 4)
    BY <2>3 DEF Spared
  <2>5. ASSUME NEW r \in Nat, NEW n \in Nat, r >= TlvStart PROVE Spared(r, n)
    <3>1. r >= e /\ e >= 32
      BY <1>1, <1>2, <2>5 DEF TlvStart
    <3>2. a < r
      BY <1>2, <2>3, <3>1
    <3>. QED  BY <2>3, <3>2 DEF Spared
  <2>. QED  BY <1>3, <2>4, <2>5
<1>. QED  BY <1>4, <1>5

\* What lies in the part that is left and spared is still there.
LEMMA Survives ==
    ASSUME AsBuilt, NEW x \in Seq(Byte), NEW i, Occurs(x, i, Built(layout)), i + Len(x) <= Len(file),
           Spared(i, Len(x))
    PROVE  Occurs(x, i, file)
<1>1. Len(x) \in Nat /\ Len(file) \in Nat
  BY LenProperties DEF AsBuilt
<1>2. i \in Nat /\ \A j \in 1..Len(x) : Built(layout)[i + j] = x[j]
  BY DEF Occurs
<1>3. \A j \in 1..Len(x) : i + j \in 1..Len(file)
  BY <1>1, <1>2
<1>4. ASSUME NEW j \in 1..Len(x), Changed PROVE i + j # damage.at + 1
  <2>1. damage.at \in Int
    BY <1>4 DEF AsBuilt, OnlyHashed
  <2>2. damage.at < i \/ damage.at >= i + Len(x)
    BY <1>4 DEF Spared
  <2>. QED  BY <1>1, <1>2, <2>1, <2>2
<1>5. \A j \in 1..Len(x) : file[i + j] = x[j]
  BY <1>2, <1>3, <1>4 DEF AsBuilt
<1>. QED  BY <1>2, <1>5 DEF Occurs

\* The header says what the file was built from.
LEMMA ReadsHeader ==
    ASSUME AsBuilt, Len(file) >= MIN_HEADER_LEN
    PROVE  /\ u32(0) = IMAGE_MAGIC
           /\ hashed_len = Len(Signed(layout)) /\ tlv_start = layout.header + layout.app
<1>. DEFINE s == Signed(layout)
            f == Built(layout)
<1>1. layout \in Layouts /\ file \in Seq(Byte) /\ Len(file) \in Nat /\ Len(file) >= 32
  BY LenProperties DEF AsBuilt, MIN_HEADER_LEN
<1>2. /\ s \in Seq(Byte) /\ Len(s) = layout.header + layout.app + Len(Protected(layout))
      /\ Occurs(LE32(IMAGE_MAGIC), 0, s) /\ Occurs(LE16(layout.header), 8, s)
      /\ Occurs(LE16(Len(Protected(layout))), 10, s) /\ Occurs(LE32(layout.app), 12, s)
  BY <1>1, SignedShape
<1>3. f \in Seq(Byte) /\ Occurs(s, 0, f)
  BY <1>1, BuiltShape
<1>4. /\ IMAGE_MAGIC \in U32 /\ layout.header \in U16 /\ Len(Protected(layout)) \in U16
      /\ layout.app \in U32 /\ layout.header \in Nat /\ layout.app \in Nat
      /\ Len(Protected(layout)) \in Nat
  BY <1>1, LayoutAssumption, LayoutFits, Blocks
<1>5. ASSUME NEW x \in Seq(Byte), NEW i \in Nat, Occurs(x, i, s), i + Len(x) <= 32,
             Spared(i, Len(x))
      PROVE  Occurs(x, i, file)
  <2>1. Occurs(x, 0 + i, f)
    BY <1>2, <1>3, <1>5, Within
  <2>2. 0 + i = i
    OBVIOUS
  <2>3. i + Len(x) <= Len(file)
    <3>1. Len(x) \in Nat
      BY LenProperties
    <3>. QED  BY <1>1, <1>5, <3>1
  <2>. QED  BY <1>5, <2>1, <2>2, <2>3, Survives
<1>. HIDE DEF s, f
<1>6. /\ LE32(IMAGE_MAGIC) \in Seq(Byte) /\ 0 + Len(LE32(IMAGE_MAGIC)) <= 32
      /\ LE32(layout.app) \in Seq(Byte) /\ 12 + Len(LE32(layout.app)) <= 32
      /\ Spared(0, Len(LE32(IMAGE_MAGIC))) /\ Spared(12, Len(LE32(layout.app)))
  <2>1. /\ LE32(IMAGE_MAGIC) \in Seq(Byte) /\ Len(LE32(IMAGE_MAGIC)) = 4
        /\ LE32(layout.app) \in Seq(Byte) /\ Len(LE32(layout.app)) = 4
    BY <1>4, LE32Bytes
  <2>. QED  BY <2>1, SparedParts
<1>7. /\ LE16(layout.header) \in Seq(Byte) /\ 8 + Len(LE16(layout.header)) <= 32
      /\ LE16(Len(Protected(layout))) \in Seq(Byte)
      /\ 10 + Len(LE16(Len(Protected(layout)))) <= 32
      /\ Spared(8, Len(LE16(layout.header))) /\ Spared(10, Len(LE16(Len(Protected(layout)))))
  <2>1. /\ LE16(layout.header) \in Seq(Byte) /\ Len(LE16(layout.header)) = 2
        /\ LE16(Len(Protected(layout))) \in Seq(Byte)
        /\ Len(LE16(Len(Protected(layout)))) = 2
    BY <1>4, LE16Bytes
  <2>. QED  BY <2>1, SparedParts
<1>8. u32(0) = IMAGE_MAGIC
  <2>1. Occurs(LE32(IMAGE_MAGIC), 0, file)
    BY <1>2, <1>5, <1>6
  <2>. QED  BY <1>1, <1>4, <2>1, ReadsU32
<1>9. header_size = layout.header
  <2>1. Occurs(LE16(layout.header), 8, file)
    BY <1>2, <1>5, <1>7
  <2>. QED  BY <1>4, <2>1, ReadsU16 DEF header_size
<1>10. protected_tlv_size = Len(Protected(layout))
  <2>1. Occurs(LE16(Len(Protected(layout))), 10, file)
    BY <1>2, <1>5, <1>7
  <2>. QED  BY <1>4, <2>1, ReadsU16 DEF protected_tlv_size
<1>11. image_size = layout.app
  <2>1. Occurs(LE32(layout.app), 12, file)
    BY <1>2, <1>5, <1>6
  <2>. QED  BY <1>1, <1>4, <2>1, ReadsU32 DEF image_size
<1>. QED  BY <1>2, <1>8, <1>9, <1>10, <1>11 DEF hashed_len, tlv_start, s

\* parse goes on if what the hash covers is there.
LEMMA AcceptsTheSigned ==
    ASSUME AsBuilt
    PROVE  Acceptable <=> Len(file) >= Len(Signed(layout))
<1>1. layout \in Layouts /\ Len(file) \in Nat
  BY LenProperties DEF AsBuilt
<1>2. PICK h \in Nat, a \in Nat, p \in Nat : Len(Signed(layout)) = h + a + p /\ h >= 32
  BY <1>1, SignedShape, LayoutFits, Blocks
<1>3. CASE Len(file) >= 32
  BY <1>3, ReadsHeader DEF Acceptable, MIN_HEADER_LEN
<1>4. CASE ~(Len(file) >= 32)
  <2>1. ~(Len(file) >= h + a + p)
    BY <1>1, <1>2, <1>4
  <2>. QED  BY <1>2, <1>4, <2>1 DEF Acceptable, MIN_HEADER_LEN
<1>. QED  BY <1>3, <1>4

\* What the walk reads where a block begins of which there are four bytes.
LEMMA ReadsBlock ==
    ASSUME AsBuilt, NEW b \in Seq(Byte), NEW magic \in U16, NEW r \in Nat,
           Occurs(b, r, Built(layout)), Len(b) \in U16,
           Occurs(LE16(magic), 0, b), Occurs(LE16(Len(b)), 2, b),
           region = r, BlockLeft, r >= TlvStart
    PROVE  Magic = magic /\ Total = Len(b)
<1>1. /\ LE16(magic) \in Seq(Byte) /\ Len(LE16(magic)) = 2
      /\ LE16(Len(b)) \in Seq(Byte) /\ Len(LE16(Len(b))) = 2
  BY LE16Bytes
<1>2. Built(layout) \in Seq(Byte) /\ Len(file) \in Nat
  BY BuiltShape, LenProperties DEF AsBuilt
<1>3. Occurs(LE16(magic), r + 0, Built(layout)) /\ Occurs(LE16(Len(b)), r + 2, Built(layout))
  BY <1>1, <1>2, Within
<1>4. r + 0 = r /\ r + 2 <= Len(file) /\ (r + 2) + 2 <= Len(file)
  <2>1. Len(file) - r >= 4
    BY DEF BlockLeft
  <2>. QED  BY <1>2, <2>1
<1>5. Spared(r, 2) /\ Spared(r + 2, 2)
  <2>1. TlvStart \in Nat
    BY SparedParts
  <2>2. r + 2 \in Nat /\ r + 2 >= TlvStart
    BY <2>1
  <2>. QED  BY <2>2, SparedParts
<1>6. Occurs(LE16(magic), r, file) /\ Occurs(LE16(Len(b)), r + 2, file)
  BY <1>1, <1>3, <1>4, <1>5, Survives
<1>. QED  BY <1>6, ReadsU16 DEF Magic, Total

\* How long the parts are, and the file.
LEMMA Sizes ==
    ASSUME AsBuilt
    PROVE  /\ TlvStart \in Nat /\ Len(Covered) \in Nat /\ Len(file) \in Nat
           /\ Len(Covered) = TlvStart + Len(Protected(layout))
           /\ Len(Covered) >= TlvStart
           /\ layout.protected = NoBlock => TlvStart = Len(Covered)
           /\ IsWhole => Len(file) = Len(Covered) + Len(Unprotected(layout))
           /\ ~IsWhole => Len(file) < Len(Covered) + Len(Unprotected(layout))
<1>1. layout \in Layouts /\ Len(file) \in Nat
  BY LenProperties DEF AsBuilt
<1>2. TlvStart \in Nat
  BY SparedParts
<1>3. Len(Covered) = TlvStart + Len(Protected(layout)) /\ Len(Protected(layout)) \in Nat
  BY <1>1, SignedShape, Blocks DEF Covered, TlvStart
<1>4. Len(Covered) \in Nat /\ Len(Covered) >= TlvStart
  BY <1>2, <1>3
<1>5. layout.protected = NoBlock => TlvStart = Len(Covered)
  <2>1. layout.protected = NoBlock => Len(Protected(layout)) = 0
    BY <1>1, Blocks
  <2>. QED  BY <1>2, <1>3, <2>1
<1>6. Len(Built(layout)) = Len(Covered) + Len(Unprotected(layout)) /\ Len(Unprotected(layout)) \in Nat
  BY <1>1, BuiltShape, Blocks DEF Covered
<1>7. Len(file) <= Len(Built(layout)) /\ (IsWhole <=> Len(file) = Len(Built(layout)))
  BY DEF AsBuilt, IsWhole
<1>. QED  BY <1>1, <1>2, <1>3, <1>4, <1>5, <1>6, <1>7

\* The protected block is found where the application ends.
LEMMA BeginsProtected ==
    ASSUME AsBuilt, Len(file) >= Len(Covered), region = TlvStart, layout.protected # NoBlock
    PROVE  /\ BlockLeft /\ IsBlock /\ BlockFits
           /\ region + Total = Len(Covered)
           /\ Len(Covered) = TlvStart + 4 + Len(JoinedTo(layout.protected, <<>>)[Len(layout.protected)])
           /\ Occurs(JoinedTo(layout.protected, <<>>)[Len(layout.protected)], TlvStart + 4, file)
<1>. DEFINE p == Protected(layout)
            body == JoinedTo(layout.protected, <<>>)[Len(layout.protected)]
<1>1. layout \in Layouts
  BY DEF AsBuilt
<1>2. /\ p \in Seq(Byte) /\ Len(p) = 4 + Len(body)
      /\ Occurs(LE16(TLV_PROT_INFO_MAGIC), 0, p) /\ Occurs(LE16(Len(p)), 2, p) /\ Occurs(body, 4, p)
  BY <1>1, Blocks
<1>3. /\ Covered \in Seq(Byte) /\ Occurs(p, TlvStart, Covered)
      /\ Built(layout) \in Seq(Byte) /\ Occurs(Covered, 0, Built(layout))
  BY <1>1, SignedShape, BuiltShape DEF Covered, TlvStart
<1>4. body \in Seq(Byte) /\ Len(p) \in U16 /\ TLV_PROT_INFO_MAGIC \in U16
  <2>1. Fit(layout.protected, <<>>)
    BY <1>1, LayoutFits
  <2>2. Len(layout.protected) \in 0..Len(layout.protected)
    BY <2>1 DEF Fit
  <2>. QED  BY <1>1, <2>1, <2>2, JoinShape, LayoutFits, LayoutAssumption
<1>. HIDE DEF p, body
<1>5. PICK n \in Nat : n = Len(body)
  BY <1>4, LenProperties
<1>6. /\ TlvStart \in Nat /\ Len(Covered) \in Nat /\ Len(file) \in Nat
      /\ Len(Covered) = TlvStart + Len(p)
  BY Sizes DEF p
<1>7. Len(p) = 4 + n
  BY <1>2, <1>5
<1>8. /\ Len(file) - TlvStart >= 4 /\ 4 + n >= 4 /\ 4 + n <= Len(file) - TlvStart
      /\ TlvStart + (4 + n) = Len(Covered) /\ Len(Covered) = TlvStart + 4 + n
      /\ 0 + TlvStart = TlvStart
  BY <1>5, <1>6, <1>7
<1>9. BlockLeft
  BY <1>8 DEF BlockLeft
<1>10. Occurs(p, TlvStart, Built(layout))
  <2>1. Occurs(p, 0 + TlvStart, Built(layout))
    BY <1>2, <1>3, Within
  <2>. QED  BY <1>8, <2>1
<1>11. Magic = TLV_PROT_INFO_MAGIC /\ Total = Len(p)
  <2>1. TlvStart >= TlvStart
    BY <1>6
  <2>. QED  BY <1>2, <1>4, <1>6, <1>9, <1>10, <2>1, ReadsBlock
<1>12. IsBlock /\ BlockFits /\ region + Total = Len(Covered)
  BY <1>7, <1>8, <1>11 DEF IsBlock, BlockFits
<1>13. Occurs(body, TlvStart + 4, file)
  <2>1. Occurs(body, TlvStart + 4, Built(layout))
    BY <1>2, <1>3, <1>4, <1>10, Within
  <2>2. (TlvStart + 4) + Len(body) <= Len(file)
    BY <1>5, <1>6, <1>8
  <2>3. TlvStart + 4 \in Nat /\ TlvStart + 4 >= TlvStart
    BY <1>6
  <2>4. Spared(TlvStart + 4, Len(body))
    BY <1>5, <2>3, SparedParts
  <2>. QED  BY <1>4, <2>1, <2>2, <2>4, Survives
<1>. QED  BY <1>5, <1>8, <1>9, <1>12, <1>13 DEF body

\* The other block is found behind it, in a whole file.
LEMMA BeginsUnprotected ==
    ASSUME AsBuilt, IsWhole, region = Len(Covered), layout.unprotected # NoBlock
    PROVE  LET J == JoinedTo(layout.unprotected, Sha256(Covered))
               N == Len(layout.unprotected)
           IN  /\ BlockLeft /\ IsBlock /\ BlockFits
               /\ region + Total = Len(file)
               /\ Len(file) = Len(Covered) + 4 + Len(J[N])
               /\ Occurs(J[N], Len(Covered) + 4, file)
<1>. DEFINE u == Unprotected(layout)
            body == JoinedTo(layout.unprotected, Sha256(Covered))[Len(layout.unprotected)]
<1>1. layout \in Layouts
  BY DEF AsBuilt
<1>2. /\ u \in Seq(Byte) /\ Len(u) = 4 + Len(body)
      /\ Occurs(LE16(TLV_INFO_MAGIC), 0, u) /\ Occurs(LE16(Len(u)), 2, u) /\ Occurs(body, 4, u)
  BY <1>1, Blocks DEF Covered
<1>3. Built(layout) \in Seq(Byte) /\ Occurs(u, Len(Covered), Built(layout))
  BY <1>1, BuiltShape DEF Covered
<1>4. body \in Seq(Byte) /\ Len(u) \in U16 /\ TLV_INFO_MAGIC \in U16
  <2>1. Fit(layout.unprotected, Sha256(Covered))
    BY <1>1, LayoutFits DEF Covered
  <2>2. Len(layout.unprotected) \in 0..Len(layout.unprotected)
    BY <2>1 DEF Fit
  <2>. QED  BY <1>1, <2>1, <2>2, JoinShape, LayoutFits, LayoutAssumption
<1>. HIDE DEF u, body
<1>5. PICK n \in Nat : n = Len(body)
  BY <1>4, LenProperties
<1>6. Len(Covered) \in Nat /\ Len(file) \in Nat /\ Len(file) = Len(Covered) + Len(u)
      /\ TlvStart \in Nat /\ Len(Covered) >= TlvStart
  BY Sizes DEF u
<1>7. Len(u) = 4 + n
  BY <1>2, <1>5
<1>8. /\ Len(file) - Len(Covered) >= 4 /\ 4 + n >= 4 /\ 4 + n <= Len(file) - Len(Covered)
      /\ Len(Covered) + (4 + n) = Len(file) /\ Len(file) = Len(Covered) + 4 + n
      /\ Len(Covered) + 4 + n <= Len(file)
  BY <1>5, <1>6, <1>7
<1>9. BlockLeft
  BY <1>8 DEF BlockLeft
<1>10. Magic = TLV_INFO_MAGIC /\ Total = Len(u)
  BY <1>2, <1>3, <1>4, <1>6, <1>9, ReadsBlock
<1>11. IsBlock /\ BlockFits /\ region + Total = Len(file)
  BY <1>7, <1>8, <1>10 DEF IsBlock, BlockFits
<1>12. Occurs(body, Len(Covered) + 4, file)
  <2>1. Occurs(body, Len(Covered) + 4, Built(layout))
    BY <1>2, <1>3, <1>4, Within
  <2>2. (Len(Covered) + 4) + Len(body) <= Len(file)
    BY <1>5, <1>8
  <2>3. Len(Covered) + 4 \in Nat /\ Len(Covered) + 4 >= TlvStart
    BY <1>6
  <2>4. Spared(Len(Covered) + 4, Len(body))
    BY <1>5, <2>3, SparedParts
  <2>. QED  BY <1>4, <2>1, <2>2, <2>4, Survives
<1>. QED  BY <1>5, <1>8, <1>9, <1>11, <1>12 DEF body

\* There is none, or it is cut.
LEMMA NothingFollows ==
    ASSUME AsBuilt, region = Len(Covered), layout.unprotected = NoBlock \/ ~IsWhole
    PROVE  ~(BlockLeft /\ BlockFits)
<1>. DEFINE u == Unprotected(layout)
<1>1. layout \in Layouts
  BY DEF AsBuilt
<1>2. /\ Len(Covered) \in Nat /\ Len(file) \in Nat /\ Len(file) <= Len(Covered) + Len(u)
      /\ Len(Covered) >= TlvStart
      /\ IsWhole => Len(file) = Len(Covered) + Len(u)
      /\ ~IsWhole => Len(file) < Len(Covered) + Len(u)
      /\ Len(u) \in Nat
  BY <1>1, Sizes, Blocks
<1>3. CASE layout.unprotected = NoBlock
  <2>1. Len(u) = 0
    BY <1>1, <1>3, Blocks
  <2>2. ~(Len(file) - Len(Covered) >= 4)
    <3>. HIDE DEF u
    <3>. QED  BY <1>2, <2>1
  <2>. QED  BY <2>2 DEF BlockLeft
<1>4. CASE layout.unprotected # NoBlock
  <2>1. SUFFICES ASSUME BlockLeft, BlockFits PROVE FALSE
    OBVIOUS
  <2>2. /\ u \in Seq(Byte) /\ Occurs(LE16(TLV_INFO_MAGIC), 0, u) /\ Occurs(LE16(Len(u)), 2, u)
        /\ Len(u) \in U16 /\ TLV_INFO_MAGIC \in U16 /\ Occurs(u, Len(Covered), Built(layout))
    BY <1>1, <1>4, Blocks, BuiltShape, LayoutFits, LayoutAssumption DEF Covered
  <2>3. Total = Len(u)
    BY <1>2, <2>1, <2>2, ReadsBlock
  <2>4. Len(u) <= Len(file) - Len(Covered)
    BY <2>1, <2>3 DEF BlockFits
  <2>5. Len(file) < Len(Covered) + Len(u)
    BY <1>2, <1>4
  <2>. HIDE DEF u
  <2>. QED  BY <1>2, <2>4, <2>5
<1>. QED  BY <1>3, <1>4

-----------------------------------------------------------------------------
(* The walk over such a file.                                              *)

InProtected ==
    /\ layout.protected # NoBlock /\ end = Len(Covered)
    /\ \E k : AfterSome(layout.protected, <<>>, TlvStart, k)

InUnprotected ==
    /\ layout.unprotected # NoBlock /\ end = Len(file) /\ IsWhole
    /\ \E k : /\ AfterSome(layout.unprotected, Sha256(Covered), Len(Covered), k)
              /\ \A i \in 1..k : layout.unprotected[i] # Hash

Where ==
    /\ pc \in {"header", "blocks", "entries", "done", "rejected"}
    /\ pc \notin {"header", "rejected"} => Len(file) >= Len(Covered) /\ hashed = Len(Covered)
    /\ pc = "rejected" => ~(Len(file) >= Len(Covered))
    /\ pc = "blocks" => \/ region = TlvStart \/ region = Len(Covered)
                        \/ region = Len(file) /\ IsWhole /\ ~HasHash(layout)
    /\ pc = "entries" => InProtected \/ InUnprotected

Verdict == IF Changed THEN "mismatch" ELSE "valid"

Found ==
    hash_valid = IF pc = "done" /\ IsWhole /\ HasHash(layout) THEN Verdict ELSE "none"

\* The file was not changed where parse reads it.
Readable == Changed => damage.at \in OnlyHashed(layout)

WalkInv == Readable => AsBuilt /\ Where /\ Found

\* A byte that is changed changes nothing else.
LEMMA OneByteOff ==
    ASSUME NEW b \in Seq(Byte), NEW i \in 1..Len(b), NEW by \in 1..(ByteMod - 1)
    PROVE  LET f == [b EXCEPT ![i] = (b[i] + by) % ByteMod]
           IN  /\ f \in Seq(Byte) /\ Len(f) = Len(b)
               /\ \A j \in 1..Len(f) : j # i => f[j] = b[j]
               /\ f[i] = (b[i] + by) % ByteMod
<1>1. PICK x : x = (b[i] + by) % ByteMod
  OBVIOUS
<1>2. x \in Byte
  <2>1. ByteMod \in Nat \ {0} /\ b[i] \in Byte
    BY Parameters, ElementOfSeq
  <2>2. b[i] \in Nat /\ by \in Nat
    BY <2>1 DEF Byte
  <2>3. (b[i] + by) % ByteMod \in 0..(ByteMod - 1)
    BY <2>1, <2>2
  <2>. QED  BY <1>1, <2>3 DEF Byte
<1>3. PICK f : f = [b EXCEPT ![i] = x]
  OBVIOUS
<1>4. f \in Seq(Byte) /\ Len(f) = Len(b)
  BY <1>2, <1>3, ExceptSeq
<1>5. DOMAIN b = 1..Len(b)
  BY LenProperties
<1>6. f[i] = x /\ \A j \in 1..Len(f) : j # i => f[j] = b[j]
  BY <1>3, <1>4, <1>5
<1>. QED  BY <1>1, <1>3, <1>4, <1>6

\* What is only hashed is hashed.
LEMMA HashedIsCovered ==
    ASSUME NEW l \in Layouts, NEW at \in OnlyHashed(l)
    PROVE  at \in 0..(Len(Signed(l)) - 1)
<1>1. PICK h \in Nat, a \in Nat, p \in Nat :
         Len(Signed(l)) = h + a + p /\ h >= 32 /\ h = l.header /\ a = l.app
  BY SignedShape, LayoutFits, Blocks
<1>2. at \in Int /\ ((at >= 4 /\ at <= 7) \/ (at >= 16 /\ at < h + a))
  BY <1>1, HashedRanges
<1>3. PICK n \in Nat : n = Len(Signed(l)) /\ n = h + a + p
  BY <1>1
<1>4. at >= 0 /\ at <= n - 1
  <2>1. \A x \in Int : ((x >= 4 /\ x <= 7) \/ (x >= 16 /\ x < h + a)) /\ h >= 32
                          => x >= 0 /\ x <= (h + a + p) - 1
    OBVIOUS
  <2>2. h >= 32
    BY <1>1
  <2>. QED  BY <1>2, <1>3, <2>1, <2>2
<1>. QED  BY <1>2, <1>3, <1>4

\* At first nothing is read.
LEMMA WalkInit == FileInit => WalkInv
<1>. SUFFICES ASSUME FileInit, Readable PROVE AsBuilt /\ Where /\ Found
  BY DEF WalkInv
<1>1. /\ layout \in Layouts /\ damage \in Damages(Built(layout))
      /\ file = Damaged(Built(layout), damage) /\ Start
  BY DEF FileInit
<1>2. layout \in Layouts
  BY <1>1
<1>3. PICK b \in Seq(Byte) : b = Built(layout)
  BY <1>2, BuiltShape
<1>4. Len(b) \in Nat
  BY LenProperties
<1>5. ASSUME damage = Whole PROVE AsBuilt
  <2>1. damage.kind = "none"
    BY <1>5 DEF Whole
  <2>2. file = b
    BY <1>1, <1>3, <2>1 DEF Damaged
  <2>3. /\ file \in Seq(Byte) /\ Len(file) <= Len(Built(layout))
        /\ \A j \in 1..Len(file) : file[j] = Built(layout)[j]
        /\ Len(file) = Len(Built(layout)) /\ IsWhole /\ ~Changed
    BY <1>3, <1>4, <2>1, <2>2 DEF IsWhole, Changed
  <2>. QED  BY <1>2, <2>3 DEF AsBuilt
<1>6. ASSUME damage.kind = "cut" PROVE AsBuilt
  <2>1. damage.kind = "cut" /\ damage.at \in 0..(Len(b) - 1)
    BY <1>1, <1>3, <1>6 DEF Damages, Whole
  <2>2. PICK at \in Nat : at = damage.at /\ at < Len(b) /\ at <= Len(b) /\ at \in 0..Len(b)
    BY <1>4, <2>1
  <2>3. file = SubSeq(b, 1, at)
    BY <1>1, <1>3, <2>1, <2>2 DEF Damaged
  <2>4. 1 \in 1..(Len(b) + 1) /\ 1 <= at + 1 /\ at + 1 - 1 = at
    BY <1>4, <2>2
  <2>5. /\ file \in Seq(Byte) /\ Len(file) = at + 1 - 1
        /\ \A j \in 1..Len(file) : file[j] = b[1 + j - 1]
    <3>1. PICK m \in 1..(Len(b) + 1), n \in 0..Len(b) : m = 1 /\ n = at /\ m <= n + 1
      BY <2>2, <2>4
    <3>2. /\ SubSeq(b, m, n) \in Seq(Byte) /\ Len(SubSeq(b, m, n)) = n + 1 - m
          /\ \A j \in 1..Len(SubSeq(b, m, n)) : SubSeq(b, m, n)[j] = b[m + j - 1]
      BY <3>1, SubSeqKeeps
    <3>. QED  BY <2>3, <3>1, <3>2
  <2>6. \A j \in 1..at : 1 + j - 1 = j
    BY <2>2
  <2>7. Len(file) = at /\ \A j \in 1..Len(file) : file[j] = b[j]
    BY <2>4, <2>5, <2>6
  <2>8. Len(file) # Len(b)
    BY <1>4, <2>2, <2>7
  <2>9. /\ file \in Seq(Byte) /\ Len(file) <= Len(Built(layout))
        /\ \A j \in 1..Len(file) : file[j] = Built(layout)[j]
        /\ Len(file) # Len(Built(layout)) /\ Len(file) = damage.at
    BY <1>3, <2>2, <2>5, <2>7, <2>8
  <2>10. ~IsWhole /\ ~Changed
    BY <1>6 DEF IsWhole, Changed
  <2>. QED  BY <1>2, <2>9, <2>10 DEF AsBuilt
<1>7. ASSUME Changed PROVE AsBuilt
  <2>1. damage.kind = "change" /\ damage.at \in OnlyHashed(layout) /\ IsWhole
    BY <1>7 DEF Changed, Readable, IsWhole
  <2>2. damage.at \in 0..(Len(b) - 1) /\ damage.by \in 1..(ByteMod - 1)
    BY <1>1, <1>3, <2>1 DEF Damages, Whole
  <2>3. PICK i \in 1..Len(b) : i = damage.at + 1
    BY <1>4, <2>2
  <2>4. file = [b EXCEPT ![i] = (b[i] + damage.by) % ByteMod]
    BY <1>1, <1>3, <2>1, <2>3 DEF Damaged
  <2>5. /\ file \in Seq(Byte) /\ Len(file) = Len(b)
        /\ \A j \in 1..Len(file) : j # i => file[j] = b[j]
    BY <1>3, <2>2, <2>3, <2>4, OneByteOff
  <2>6. damage \in Damages(Covered)
    <3>1. damage.at \in 0..(Len(Covered) - 1)
      BY <1>2, <2>1, <2>2, HashedIsCovered DEF Covered
    <3>2. damage \in [kind : {"change"}, at : 0..(Len(b) - 1), by : 1..(ByteMod - 1)]
      BY <1>1, <1>3, <2>1 DEF Damages, Whole
    <3>. QED  BY <3>1, <3>2 DEF Damages
  <2>7. \A j \in 1..Len(file) : file[j] = Built(layout)[j] \/ (Changed /\ j = damage.at + 1)
    BY <1>3, <1>7, <2>3, <2>5
  <2>8. Len(file) = Len(Built(layout)) /\ Len(file) <= Len(Built(layout))
    BY <1>3, <1>4, <2>5
  <2>. QED  BY <1>1, <1>2, <1>7, <2>1, <2>5, <2>6, <2>7, <2>8 DEF AsBuilt
<1>8. AsBuilt
  BY <1>1, <1>5, <1>6, <1>7 DEF Damages, Changed
<1>. QED  BY <1>1, <1>8 DEF Start, Where, Found

\* A step of parse leaves the file alone, and what is known of it.
LEMMA SameFile ==
    ASSUME UNCHANGED <<file, layout, damage>>
    PROVE  /\ Covered' = Covered /\ TlvStart' = TlvStart /\ IsWhole' = IsWhole /\ Readable' = Readable
           /\ Changed' = Changed /\ AsBuilt' = AsBuilt /\ HasHash(layout)' = HasHash(layout)
BY DEF Covered, TlvStart, IsWhole, Changed, Readable, AsBuilt, HasHash, OnlyHashed, Damaged,
   Damages, Built

\* The walk stays in a block as long as it has entries that are not the hash.
LEMMA Enters ==
    ASSUME AsBuilt, Where, EnterBlock, UNCHANGED <<layout, damage>>
    PROVE  InProtected' \/ InUnprotected'
<1>1. /\ UNCHANGED <<file, layout, damage>> /\ pc = "blocks"
      /\ BlockLeft /\ IsBlock /\ BlockFits
      /\ entries' = region + 4 /\ end' = region + Total
  BY DEF EnterBlock
<1>2. Len(file) >= Len(Covered) /\ layout \in Layouts
  BY <1>1 DEF Where, AsBuilt
<1>3. /\ TlvStart \in Nat /\ Len(Covered) \in Nat /\ Len(file) \in Nat
      /\ layout.protected = NoBlock => TlvStart = Len(Covered)
  BY Sizes
<1>4. \A n \in Nat : n + 4 + 0 = n + 4 /\ ~(n - n >= 4)
  OBVIOUS
<1>5. CASE region = TlvStart /\ layout.protected # NoBlock
  <2>. DEFINE es == layout.protected
              J == JoinedTo(es, <<>>)
  <2>1. /\ region + Total = Len(Covered) /\ Len(Covered) = TlvStart + 4 + Len(J[Len(es)])
        /\ Occurs(J[Len(es)], TlvStart + 4, file)
    BY <1>2, <1>5, BeginsProtected
  <2>2. Fit(es, <<>>)
    BY <1>2, <1>5, LayoutFits
  <2>3. 0 \in 0..Len(es)
    BY <2>2 DEF Fit
  <2>4. J[0] = <<>>
    BY <2>2, JoinShape
  <2>5. Len(J[0]) = 0
    BY <2>4
  <2>. HIDE DEF J
  <2>6. entries' = TlvStart + 4 + Len(J[0]) /\ end' = TlvStart + 4 + Len(J[Len(es)])
    BY <1>1, <1>3, <1>4, <1>5, <2>1, <2>5
  <2>7. AfterSome(es, <<>>, TlvStart, 0)'
    BY <1>1, <2>1, <2>3, <2>6 DEF AfterSome, J, TlvStart
  <2>. QED  BY <1>1, <1>5, <2>1, <2>7 DEF InProtected, Covered, TlvStart
<1>6. CASE region = Len(Covered)
  <2>1. layout.unprotected # NoBlock /\ IsWhole
    BY <1>1, <1>6, NothingFollows
  <2>. DEFINE es == layout.unprotected
              J == JoinedTo(es, Sha256(Covered))
  <2>2. /\ region + Total = Len(file) /\ Len(file) = Len(Covered) + 4 + Len(J[Len(es)])
        /\ Occurs(J[Len(es)], Len(Covered) + 4, file)
    BY <1>6, <2>1, BeginsUnprotected
  <2>3. Fit(es, Sha256(Covered))
    BY <1>2, <2>1, LayoutFits DEF Covered
  <2>4. 0 \in 0..Len(es) /\ 1..0 = {}
    BY <2>3 DEF Fit
  <2>5. J[0] = <<>>
    BY <2>3, JoinShape
  <2>6. Len(J[0]) = 0
    BY <2>5
  <2>. HIDE DEF J
  <2>7. entries' = Len(Covered) + 4 + Len(J[0]) /\ end' = Len(Covered) + 4 + Len(J[Len(es)])
    BY <1>1, <1>3, <1>4, <1>6, <2>2, <2>6
  <2>8. AfterSome(es, Sha256(Covered), Len(Covered), 0)'
    BY <1>1, <2>2, <2>4, <2>7 DEF AfterSome, J, Covered
  <2>. QED  BY <1>1, <2>1, <2>2, <2>4, <2>8 DEF InUnprotected, IsWhole, Covered
<1>7. CASE region = Len(file)
  BY <1>1, <1>3, <1>4, <1>7 DEF BlockLeft
<1>. QED  BY <1>1, <1>3, <1>5, <1>6, <1>7 DEF Where

\* Between two entries of a block the walk reads the next one.
LEMMA Reads ==
    ASSUME AsBuilt, NEW es, NEW hash, NEW r \in Nat, NEW k, Fit(es, hash), AfterSome(es, hash, r, k)
    PROVE  /\ k \in Nat /\ k \in 0..Len(es) /\ Len(es) \in Nat
           /\ k = Len(es) => ~EntryLeft
           /\ k # Len(es) =>
                /\ k + 1 \in 1..Len(es) /\ k + 1 \in 0..Len(es)
                /\ EntryLeft /\ EntryFits
                /\ es[k + 1] = Hash => IsHash /\ SubSeq(file, Value + 1, Value + ValueLen) = hash
                /\ Plain(es[k + 1]) /\ es[k + 1] # Hash => ~IsHash
                /\ (UNCHANGED <<file, end>> /\ entries' = AfterEntry) =>
                     AfterSome(es, hash, r, k + 1)'
<1>1. file \in Seq(Byte)
  BY DEF AsBuilt
<1>2. k \in 0..Len(es) /\ Len(es) \in Nat
  BY DEF AfterSome, Fit
<1>3. k \in Nat
  BY <1>2
<1>4. k = Len(es) => ~EntryLeft
  BY <1>1, ReadsEntry
<1>5. ASSUME k # Len(es)
      PROVE  /\ k + 1 \in 1..Len(es) /\ EntryLeft /\ EntryFits
             /\ Tag = TagOf(es[k + 1]) /\ ValueLen = Len(ValueOf(es[k + 1], hash))
             /\ AfterEntry = r + 4 + Len(JoinedTo(es, hash)[k + 1])
             /\ SubSeq(file, Value + 1, Value + ValueLen) = ValueOf(es[k + 1], hash)
  <2>1. k # Len(es) =>
           LET v == ValueOf(es[k + 1], hash)
           IN  /\ k + 1 \in 1..Len(es)
               /\ EntryLeft /\ EntryFits
               /\ Tag = TagOf(es[k + 1]) /\ ValueLen = Len(v)
               /\ AfterEntry = r + 4 + Len(JoinedTo(es, hash)[k + 1])
               /\ SubSeq(file, Value + 1, Value + ValueLen) = v
    BY <1>1, ReadsEntry
  <2>. QED  BY <1>5, <2>1
<1>6. ASSUME k # Len(es) PROVE k + 1 \in 0..Len(es)
  BY <1>2, <1>6
<1>7. ASSUME k # Len(es), es[k + 1] = Hash
      PROVE  IsHash /\ SubSeq(file, Value + 1, Value + ValueLen) = hash
  <2>1. TagOf(es[k + 1]) = TLV_SHA256 /\ ValueOf(es[k + 1], hash) = hash
    BY <1>7 DEF TagOf, ValueOf
  <2>2. Len(hash) = HashLen
    BY <1>5, <1>7 DEF Fit
  <2>. QED  BY <1>5, <1>7, <2>1, <2>2 DEF IsHash
<1>8. ASSUME k # Len(es), Plain(es[k + 1]), es[k + 1] # Hash
      PROVE  ~IsHash
  BY <1>5, <1>8 DEF TagOf, ValueOf, Plain, IsHash
<1>9. ASSUME k # Len(es), UNCHANGED <<file, end>>, entries' = AfterEntry
      PROVE  AfterSome(es, hash, r, k + 1)'
  BY <1>5, <1>6, <1>9 DEF AfterSome
<1>. QED  BY <1>2, <1>3, <1>4, <1>5, <1>6, <1>7, <1>8, <1>9

\* What is hashed is what was signed, but for the byte that was changed.
LEMMA HashedBytes ==
    ASSUME AsBuilt, Len(file) >= Len(Covered)
    PROVE  SubSeq(file, 1, Len(Covered)) = IF Changed THEN Damaged(Covered, damage) ELSE Covered
<1>0. layout \in Layouts /\ file \in Seq(Byte)
  BY DEF AsBuilt
<1>1. PICK s \in Seq(Byte), b \in Seq(Byte) : s = Covered /\ b = Built(layout) /\ Occurs(s, 0, b)
  BY <1>0, SignedShape, BuiltShape DEF Covered
<1>2. PICK n \in Nat : n = Len(s)
  BY LenProperties
<1>3. 0 + n <= Len(file) /\ n <= Len(b) /\ \A j \in 1..n : b[j] = s[j]
  <2>1. 0 + n <= Len(b) /\ \A j \in 1..n : b[0 + j] = s[j]
    BY <1>1, <1>2 DEF Occurs
  <2>2. \A j \in 1..n : 0 + j = j
    OBVIOUS
  <2>. QED  BY <1>1, <1>2, <2>1, <2>2, LenProperties
<1>4. CASE ~Changed
  <2>1. Spared(0, n)
    BY <1>4 DEF Spared
  <2>2. Occurs(s, 0, file)
    BY <1>1, <1>2, <1>3, <2>1, Survives
  <2>3. SubSeq(file, 0 + 1, 0 + n) = s
    BY <1>0, <1>2, <2>2, Cut
  <2>4. 0 + 1 = 1 /\ 0 + n = n
    OBVIOUS
  <2>. QED  BY <1>1, <1>2, <1>4, <2>3, <2>4
<1>5. CASE Changed
  <2>1. /\ damage.kind = "change" /\ damage.at \in 0..(n - 1) /\ damage.by \in 1..(ByteMod - 1)
        /\ file = Damaged(b, damage)
    BY <1>1, <1>2, <1>5 DEF AsBuilt, Changed, Damages, Whole
  <2>2. PICK i \in 1..n : i = damage.at + 1
    BY <2>1
  <2>3. PICK by \in 1..(ByteMod - 1) : by = damage.by
    BY <2>1
  <2>4. i \in 1..Len(s) /\ i \in 1..Len(b)
    BY <1>2, <1>3, LenProperties
  <2>5. PICK c : c = [s EXCEPT ![i] = (s[i] + by) % ByteMod]
    OBVIOUS
  <2>6. /\ c \in Seq(Byte) /\ Len(c) = n /\ c[i] = (s[i] + by) % ByteMod
        /\ \A j \in 1..Len(c) : j # i => c[j] = s[j]
    BY <1>2, <2>4, <2>5, OneByteOff
  <2>7. file = [b EXCEPT ![i] = (b[i] + by) % ByteMod]
    BY <2>1, <2>2, <2>3 DEF Damaged
  <2>8. /\ file[i] = (b[i] + by) % ByteMod /\ Len(file) = Len(b)
        /\ \A j \in 1..Len(file) : j # i => file[j] = b[j]
    BY <2>4, <2>7, OneByteOff
  <2>9. ASSUME NEW j \in 1..n PROVE file[0 + j] = c[j]
    <3>1. j \in 1..Len(file) /\ j \in 1..Len(c) /\ 0 + j = j /\ b[j] = s[j]
      BY <1>3, <2>6, <2>8
    <3>. QED  BY <1>3, <2>6, <2>8, <3>1
  <2>10. Occurs(c, 0, file)
    BY <1>3, <2>6, <2>9 DEF Occurs
  <2>11. SubSeq(file, 0 + 1, 0 + n) = c
    BY <1>0, <2>6, <2>10, Cut
  <2>12. 0 + 1 = 1 /\ 0 + n = n
    OBVIOUS
  <2>13. c = Damaged(s, damage)
    BY <2>1, <2>2, <2>3, <2>5 DEF Damaged
  <2>. QED  BY <1>1, <1>2, <1>5, <2>11, <2>12, <2>13
<1>. QED  BY <1>4, <1>5

\* A change that is only hashed changes the hash.
LEMMA ChangesHash ==
    ASSUME AsBuilt, Changed
    PROVE  Sha256(Damaged(Covered, damage)) # Sha256(Covered)
<1>1. /\ layout \in Layouts /\ damage \in Damages(Signed(layout))
      /\ damage.kind = "change" /\ damage.at \in OnlyHashed(layout)
  BY DEF AsBuilt, Changed, Covered
<1>. QED  BY <1>1, HashAssumption DEF Covered

\* Every step of parse keeps the walk where it should be.
LEMMA WalkNext == WalkInv /\ [FileNext]_<<vars, layout, damage>> => WalkInv'
<1>1. CASE UNCHANGED <<vars, layout, damage>>
  <2>1. UNCHANGED <<file, pc, hashed, region, entries, end, hash_valid, layout, damage>>
    BY <1>1 DEF vars
  <2>2. /\ Covered' = Covered /\ TlvStart' = TlvStart /\ IsWhole' = IsWhole /\ Readable' = Readable
        /\ AsBuilt' = AsBuilt /\ HasHash(layout)' = HasHash(layout) /\ Changed' = Changed
    BY <2>1, SameFile
  <2>3. InProtected' = InProtected
    BY <2>1, <2>2 DEF InProtected, AfterSome
  <2>4. InUnprotected' = InUnprotected
    BY <2>1, <2>2 DEF InUnprotected, AfterSome
  <2>5. Where' = Where
    BY <2>1, <2>2, <2>3, <2>4 DEF Where
  <2>6. Found' = Found
    BY <2>1, <2>2 DEF Found, Verdict
  <2>. QED  BY <2>2, <2>5, <2>6 DEF WalkInv
<1>2. SUFFICES ASSUME WalkInv, FileNext, Readable' PROVE AsBuilt' /\ Where' /\ Found'
  BY <1>1 DEF WalkInv
<1>3. UNCHANGED <<file, layout, damage>>
  BY <1>2 DEF FileNext, Next, Reject, Accept, EnterBlock, NoHash, FindHash, SkipEntry, LeaveBlock
<1>4. /\ AsBuilt /\ Where /\ Found /\ AsBuilt'
      /\ Covered' = Covered /\ TlvStart' = TlvStart /\ IsWhole' = IsWhole /\ HasHash(layout)' = HasHash(layout)
      /\ Changed' = Changed
  <2>1. /\ Covered' = Covered /\ TlvStart' = TlvStart /\ IsWhole' = IsWhole /\ Readable' = Readable
        /\ Changed' = Changed /\ AsBuilt' = AsBuilt /\ HasHash(layout)' = HasHash(layout)
    BY <1>3, SameFile
  <2>2. AsBuilt /\ Where /\ Found
    BY <1>2, <2>1 DEF WalkInv
  <2>. QED  BY <2>1, <2>2
<1>5. /\ TlvStart \in Nat /\ Len(Covered) \in Nat /\ Len(file) \in Nat /\ layout \in Layouts
      /\ layout.protected = NoBlock => TlvStart = Len(Covered)
  BY <1>4, Sizes DEF AsBuilt
<1>6. CASE Reject
  <2>1. pc = "header" /\ pc' = "rejected" /\ hash_valid' = hash_valid /\ ~(Len(file) >= Len(Covered))
    BY <1>4, <1>6, AcceptsTheSigned DEF Reject, Covered
  <2>2. ~(Len(file)' >= Len(Covered)')
    BY <1>3, <1>4, <2>1
  <2>. QED  BY <1>4, <2>1, <2>2 DEF Where, Found, Verdict
<1>7. CASE Accept
  <2>1. /\ pc = "header" /\ pc' = "blocks" /\ hash_valid' = hash_valid
        /\ Len(file) >= Len(Covered) /\ Acceptable
        /\ hashed' = hashed_len /\ region' = tlv_start
    BY <1>4, <1>7, AcceptsTheSigned DEF Accept, Covered
  <2>2. hashed' = Len(Covered) /\ region' = TlvStart
    BY <1>4, <2>1, ReadsHeader DEF Acceptable, Covered, TlvStart
  <2>3. Len(file)' >= Len(Covered)' /\ hashed' = Len(Covered)' /\ region' = TlvStart'
    BY <1>3, <1>4, <2>1, <2>2
  <2>. QED  BY <1>4, <2>1, <2>3 DEF Where, Found, Verdict
<1>8. CASE EnterBlock
  <2>1. pc = "blocks" /\ pc' = "entries" /\ hash_valid' = hash_valid /\ hashed' = hashed
    BY <1>8 DEF EnterBlock
  <2>2. InProtected' \/ InUnprotected'
    BY <1>3, <1>4, <1>8, Enters
  <2>3. Len(file)' >= Len(Covered)' /\ hashed' = Len(Covered)'
    BY <1>3, <1>4, <2>1 DEF Where
  <2>. QED  BY <1>4, <2>1, <2>2, <2>3 DEF Where, Found, Verdict
<1>9. CASE pc = "entries" /\ FileNext
  <2>1. Len(file) >= Len(Covered) /\ hashed = Len(Covered) /\ hash_valid = "none"
    BY <1>4, <1>9 DEF Where, Found, Verdict
  <2>2. Len(file)' >= Len(Covered)' /\ (UNCHANGED hashed => hashed' = Len(Covered)')
    BY <1>3, <1>4, <2>1
  <2>3. CASE InProtected
    <3>1. PICK es : es = layout.protected
      OBVIOUS
    <3>2. PICK r \in Nat : r = TlvStart
      BY <1>5
    <3>3. PICK k : es = layout.protected /\ r = TlvStart /\ AfterSome(es, <<>>, r, k)
      BY <2>3, <3>1, <3>2 DEF InProtected
    <3>4. es # NoBlock /\ end = Len(Covered)
      BY <2>3, <3>3 DEF InProtected
    <3>5. Fit(es, <<>>) /\ \A i \in 1..Len(es) : es[i] # Hash /\ Plain(es[i])
      BY <1>5, <3>3, <3>4, LayoutFits
    <3>6. /\ k \in Nat /\ k \in 0..Len(es) /\ Len(es) \in Nat
          /\ k = Len(es) => ~EntryLeft
          /\ k # Len(es) =>
                /\ k + 1 \in 1..Len(es) /\ k + 1 \in 0..Len(es)
                /\ EntryLeft /\ EntryFits
                /\ es[k + 1] = Hash => IsHash /\ SubSeq(file, Value + 1, Value + ValueLen) = <<>>
                /\ Plain(es[k + 1]) /\ es[k + 1] # Hash => ~IsHash
                /\ (UNCHANGED <<file, end>> /\ entries' = AfterEntry) =>
                      AfterSome(es, <<>>, r, k + 1)'
      BY <1>4, <3>3, <3>5, Reads
    <3>7. /\ k = Len(es) => ~EntryLeft
          /\ k # Len(es) =>
                /\ EntryLeft /\ EntryFits /\ ~IsHash
                /\ (UNCHANGED <<file, end>> /\ entries' = AfterEntry) =>
                      AfterSome(es, <<>>, r, k + 1)'
      BY <3>5, <3>6
    <3>8. CASE k = Len(es)
      <4>1. LeaveBlock
        BY <1>2, <1>9, <3>7, <3>8
           DEF FileNext, Next, Reject, Accept, EnterBlock, NoHash, FindHash, SkipEntry
      <4>2. pc' = "blocks" /\ region' = Len(Covered) /\ UNCHANGED <<hashed, hash_valid>>
        BY <3>4, <4>1 DEF LeaveBlock
      <4>. QED  BY <1>4, <2>1, <2>2, <4>2 DEF Where, Found, Verdict
    <3>9. CASE k # Len(es)
      <4>1. SkipEntry
        BY <1>2, <1>9, <3>7, <3>9
           DEF FileNext, Next, Reject, Accept, EnterBlock, NoHash, FindHash, LeaveBlock
      <4>2. pc' = pc /\ UNCHANGED <<hashed, hash_valid, end>> /\ entries' = AfterEntry
        BY <4>1 DEF SkipEntry
      <4>3. AfterSome(es, <<>>, r, k + 1)'
        BY <1>3, <3>7, <3>9, <4>2
      <4>4. es = layout.protected' /\ r = TlvStart' /\ end' = Len(Covered)'
        BY <1>3, <1>4, <3>3, <3>4, <4>2
      <4>5. InProtected'
        BY <3>4, <4>3, <4>4 DEF InProtected, AfterSome
      <4>. QED  BY <1>4, <1>9, <2>1, <2>2, <4>2, <4>5 DEF Where, Found, Verdict
    <3>. QED  BY <3>8, <3>9
  <2>4. CASE InUnprotected
    <3>1. PICK es : es = layout.unprotected
      OBVIOUS
    <3>2. PICK hash : hash = Sha256(Covered)
      OBVIOUS
    <3>3. PICK r \in Nat : r = Len(Covered)
      BY <1>5
    <3>4. PICK k : /\ es = layout.unprotected /\ hash = Sha256(Covered) /\ r = Len(Covered)
                   /\ AfterSome(es, hash, r, k) /\ \A i \in 1..k : es[i] # Hash
      BY <2>4, <3>1, <3>2, <3>3 DEF InUnprotected
    <3>5. es # NoBlock /\ end = Len(file) /\ IsWhole
      BY <2>4, <3>4 DEF InUnprotected
    <3>6. Fit(es, hash) /\ \A i \in 1..Len(es) : es[i] = Hash \/ Plain(es[i])
      BY <1>5, <3>4, <3>5, LayoutFits DEF Covered
    <3>7. /\ k \in Nat /\ k \in 0..Len(es) /\ Len(es) \in Nat
          /\ k = Len(es) => ~EntryLeft
          /\ k # Len(es) =>
                /\ k + 1 \in 1..Len(es) /\ k + 1 \in 0..Len(es)
                /\ EntryLeft /\ EntryFits
                /\ es[k + 1] = Hash => IsHash /\ SubSeq(file, Value + 1, Value + ValueLen) = hash
                /\ Plain(es[k + 1]) /\ es[k + 1] # Hash => ~IsHash
                /\ (UNCHANGED <<file, end>> /\ entries' = AfterEntry) =>
                      AfterSome(es, hash, r, k + 1)'
      BY <1>4, <3>4, <3>6, Reads
    <3>8. CASE k = Len(es)
      <4>1. LeaveBlock
        BY <1>2, <1>9, <3>7, <3>8
           DEF FileNext, Next, Reject, Accept, EnterBlock, NoHash, FindHash, SkipEntry
      <4>2. pc' = "blocks" /\ region' = Len(file) /\ UNCHANGED <<hashed, hash_valid>>
        BY <3>5, <4>1 DEF LeaveBlock
      <4>3. ~HasHash(layout)
        BY <3>4, <3>8 DEF HasHash
      <4>4. region' = Len(file)'
        BY <1>3, <4>2
      <4>. QED  BY <1>4, <2>1, <2>2, <3>5, <4>2, <4>3, <4>4 DEF Where, Found, Verdict
    <3>9. CASE k # Len(es) /\ es[k + 1] = Hash
      <4>1. FindHash
        BY <1>2, <1>9, <3>7, <3>9
           DEF FileNext, Next, Reject, Accept, EnterBlock, NoHash, SkipEntry, LeaveBlock
      <4>2. SubSeq(file, 1, hashed) = IF Changed THEN Damaged(Covered, damage) ELSE Covered
        BY <1>4, <2>1, HashedBytes
      <4>3. hash = Sha256(SubSeq(file, 1, hashed)) <=> ~Changed
        BY <1>4, <3>4, <4>2, ChangesHash
      <4>5. pc' = "done" /\ hash_valid' = Verdict /\ UNCHANGED hashed
        BY <3>7, <3>9, <4>1, <4>3 DEF FindHash, Matches, Verdict
      <4>4. HasHash(layout)
        BY <3>4, <3>5, <3>7, <3>9 DEF HasHash
      <4>. QED  BY <1>4, <2>2, <3>5, <4>4, <4>5 DEF Where, Found, Verdict
    <3>10. CASE k # Len(es) /\ es[k + 1] # Hash
      <4>1. Plain(es[k + 1]) /\ ~IsHash
        BY <3>6, <3>7, <3>10
      <4>2. SkipEntry
        BY <1>2, <1>9, <3>7, <3>10, <4>1
           DEF FileNext, Next, Reject, Accept, EnterBlock, NoHash, FindHash, LeaveBlock
      <4>3. pc' = pc /\ UNCHANGED <<hashed, hash_valid, end>> /\ entries' = AfterEntry
        BY <4>2 DEF SkipEntry
      <4>4. AfterSome(es, hash, r, k + 1)'
        BY <1>3, <3>7, <3>10, <4>3
      <4>5. \A i \in 1..(k + 1) : es[i] # Hash
        <5>1. \A i \in 1..(k + 1) : i \in 1..k \/ i = k + 1
          BY <3>7
        <5>. QED  BY <3>4, <3>10, <5>1
      <4>6. /\ es = layout.unprotected' /\ hash = Sha256(Covered)' /\ r = Len(Covered)'
            /\ end' = Len(file)' /\ IsWhole'
        BY <1>3, <1>4, <3>4, <3>5, <4>3
      <4>7. InUnprotected'
        BY <3>5, <4>4, <4>5, <4>6 DEF InUnprotected, AfterSome
      <4>. QED  BY <1>4, <1>9, <2>1, <2>2, <4>3, <4>7 DEF Where, Found, Verdict
    <3>. QED  BY <3>8, <3>9, <3>10
  <2>. QED  BY <1>4, <1>9, <2>3, <2>4 DEF Where
<1>10. CASE NoHash /\ pc = "blocks"
  <2>1. /\ pc' = "done" /\ UNCHANGED <<hashed, hash_valid>> /\ ~(BlockLeft /\ IsBlock /\ BlockFits)
        /\ Len(file) >= Len(Covered) /\ hashed = Len(Covered) /\ hash_valid = "none"
    BY <1>4, <1>10 DEF NoHash, Where, Found
  <2>2. ~(IsWhole /\ HasHash(layout))
    <3>1. CASE region = TlvStart /\ layout.protected # NoBlock
      BY <1>4, <2>1, <3>1, BeginsProtected
    <3>2. CASE region = Len(Covered)
      <4>1. IsWhole => layout.unprotected = NoBlock
        BY <1>4, <2>1, <3>2, BeginsUnprotected
      <4>. QED  BY <4>1 DEF HasHash
    <3>. QED  BY <1>4, <1>5, <1>10, <3>1, <3>2 DEF Where
  <2>3. Len(file)' >= Len(Covered)' /\ hashed' = Len(Covered)'
    BY <1>3, <1>4, <2>1
  <2>. QED  BY <1>4, <2>1, <2>2, <2>3 DEF Where, Found, Verdict
<1>11. Reject \/ Accept \/ EnterBlock \/ pc = "entries" \/ (NoHash /\ pc = "blocks")
  <2>1. FindHash \/ SkipEntry \/ LeaveBlock => pc = "entries"
    BY DEF FindHash, SkipEntry, LeaveBlock
  <2>2. NoHash => pc = "entries" \/ pc = "blocks"
    BY DEF NoHash
  <2>3. Next
    BY <1>2 DEF FileNext
  <2>4. Reject \/ Accept \/ EnterBlock \/ NoHash \/ FindHash \/ SkipEntry \/ LeaveBlock
    BY <2>3 DEF Next
  <2>. QED  BY <2>1, <2>2, <2>4
<1>. QED  BY <1>2, <1>6, <1>7, <1>8, <1>9, <1>10, <1>11

\* The walk is always where the layout says.
LEMMA WalkHolds == FileSpec => []WalkInv
BY WalkInit, WalkNext, PTL DEF FileSpec

\* A file that was not cut has all that the hash covers.
LEMMA WholeIsCovered ==
    ASSUME AsBuilt, IsWhole
    PROVE  Len(file) >= Len(Covered)
<1>1. layout \in Layouts
  BY DEF AsBuilt
<1>2. Len(Unprotected(layout)) \in Nat
  BY <1>1, Blocks
<1>3. Len(Covered) \in Nat /\ Len(file) = Len(Covered) + Len(Unprotected(layout))
  BY Sizes
<1>. QED  BY <1>2, <1>3

\* parse accepts every whole file, and finds its hash valid if it has one,
\* whatever other entries and blocks it has (ReadsWhatWasBuilt).
THEOREM BuiltIsRead == FileSpec => []ReadsWhatWasBuilt
<1>1. WalkInv => ReadsWhatWasBuilt
  <2>1. SUFFICES ASSUME WalkInv, Finished, damage = Whole
                 PROVE  pc = "done" /\ hash_valid = (IF HasHash(layout) THEN "valid" ELSE "none")
    BY DEF ReadsWhatWasBuilt
  <2>2. Readable /\ IsWhole /\ ~Changed
    BY <2>1 DEF Readable, IsWhole, Changed, Whole
  <2>3. AsBuilt /\ Where /\ Found
    BY <2>1, <2>2 DEF WalkInv
  <2>4. Len(file) >= Len(Covered)
    BY <2>2, <2>3, WholeIsCovered
  <2>. QED  BY <2>1, <2>2, <2>3, <2>4 DEF Finished, Where, Found, Verdict
<1>. QED  BY <1>1, WalkHolds, PTL

\* parse refuses every file that ends within what its header declares
\* (CutIsRejected).
THEOREM CutIsNotRead == FileSpec => []CutIsRejected
<1>1. WalkInv => CutIsRejected
  <2>1. SUFFICES ASSUME WalkInv, Finished, damage.kind = "cut", damage.at < Len(Signed(layout))
                 PROVE  pc = "rejected"
    BY DEF CutIsRejected
  <2>2. AsBuilt /\ Where
    BY <2>1 DEF WalkInv, Readable, Changed
  <2>3. Len(file) = damage.at /\ Len(file) \in Nat /\ Len(Covered) \in Nat
    BY <2>1, <2>2, Sizes DEF AsBuilt, IsWhole
  <2>4. ~(Len(file) >= Len(Covered))
    BY <2>1, <2>3 DEF Covered
  <2>. QED  BY <2>1, <2>2, <2>4 DEF Finished, Where
<1>. QED  BY <1>1, WalkHolds, PTL

\* parse reads every file with a byte changed where it is only hashed, and
\* reports that its hash does not match (ChangeIsSeen).
THEOREM ChangeIsReported == FileSpec => []ChangeIsSeen
<1>1. WalkInv => ChangeIsSeen
  <2>1. SUFFICES ASSUME WalkInv, Finished, damage.kind = "change", damage.at \in OnlyHashed(layout)
                 PROVE  pc = "done" /\ hash_valid = (IF HasHash(layout) THEN "mismatch" ELSE "none")
    BY DEF ChangeIsSeen
  <2>2. Readable /\ IsWhole /\ Changed
    BY <2>1 DEF Readable, IsWhole, Changed
  <2>3. AsBuilt /\ Where /\ Found
    BY <2>1, <2>2 DEF WalkInv
  <2>4. Len(file) >= Len(Covered)
    BY <2>2, <2>3, WholeIsCovered
  <2>. QED  BY <2>1, <2>2, <2>3, <2>4 DEF Finished, Where, Found, Verdict
<1>. QED  BY <1>1, WalkHolds, PTL

\* What is checked of the walk over built files is what is proved of the walk
\* over any file: a file that was built, and then damaged, is a file.
LEMMA FilesAreParsed == FileSpec => Spec
<1>1. FileInit => Init
  <2>1. SUFFICES ASSUME FileInit PROVE file \in Seq(Byte)
    BY DEF FileInit, Init
  <2>2. layout \in Layouts /\ damage \in Damages(Built(layout)) /\ file = Damaged(Built(layout), damage)
    BY <2>1 DEF FileInit
  <2>3. PICK b \in Seq(Byte) : b = Built(layout)
    BY <2>2, BuiltShape
  <2>4. Len(b) \in Nat
    BY LenProperties
  <2>5. CASE damage = Whole
    BY <2>2, <2>3, <2>5 DEF Damaged, Whole
  <2>6. CASE damage.kind = "cut" /\ damage.at \in 0..(Len(b) - 1)
    <3>1. PICK n \in 0..Len(b) : n = damage.at /\ 1 \in 1..(Len(b) + 1) /\ 1 <= n + 1
      BY <2>4, <2>6
    <3>2. SubSeq(b, 1, n) \in Seq(Byte)
      BY <3>1, SubSeqKeeps
    <3>. QED  BY <2>2, <2>3, <2>6, <3>1, <3>2 DEF Damaged
  <2>7. CASE damage.kind = "change" /\ damage.at \in 0..(Len(b) - 1) /\ damage.by \in 1..(ByteMod - 1)
    <3>1. PICK i \in 1..Len(b) : i = damage.at + 1
      BY <2>4, <2>7
    <3>2. PICK x \in Byte : x = (b[i] + damage.by) % ByteMod
      <4>1. ByteMod \in Nat \ {0} /\ b[i] \in Byte
        BY <3>1, Parameters, ElementOfSeq
      <4>2. b[i] \in Nat /\ damage.by \in Nat
        BY <2>7, <4>1 DEF Byte
      <4>3. (b[i] + damage.by) % ByteMod \in 0..(ByteMod - 1)
        BY <4>1, <4>2
      <4>. QED  BY <4>3 DEF Byte
    <3>3. [b EXCEPT ![i] = x] \in Seq(Byte)
      BY ExceptSeq
    <3>4. file = [b EXCEPT ![i] = x]
      BY <2>2, <2>3, <2>7, <3>1, <3>2 DEF Damaged
    <3>. QED  BY <3>3, <3>4
  <2>. QED  BY <2>2, <2>3, <2>5, <2>6, <2>7 DEF Damages
<1>2. [FileNext]_<<vars, layout, damage>> => [Next]_vars
  BY DEF FileNext
<1>. QED  BY <1>1, <1>2, PTL DEF FileSpec, Spec

-----------------------------------------------------------------------------
(* A file that was changed where parse reads it.                           *)

\* The file is what became of the built one.
AsDamaged ==
    layout \in Layouts /\ damage \in Damages(Built(layout)) /\ file = Damaged(Built(layout), damage)

\* Nobody writes to the file.
LEMMA StaysDamaged == FileSpec => []AsDamaged
<1>1. FileInit => AsDamaged
  BY DEF FileInit, AsDamaged
<1>2. AsDamaged /\ [FileNext]_<<vars, layout, damage>> => AsDamaged'
  <2>1. SUFFICES ASSUME AsDamaged, [FileNext]_<<vars, layout, damage>> PROVE AsDamaged'
    OBVIOUS
  <2>2. UNCHANGED <<file, layout, damage>>
    BY <2>1 DEF FileNext, Next, Reject, Accept, EnterBlock, NoHash, FindHash, SkipEntry, LeaveBlock,
                vars
  <2>. QED  BY <2>1, <2>2 DEF AsDamaged, Damages, Damaged, Built
<1>. QED  BY <1>1, <1>2, PTL DEF FileSpec

\* A byte that something was added to is another one.
LEMMA AnotherByte ==
    ASSUME NEW b \in Byte, NEW by \in 1..(ByteMod - 1)
    PROVE  (b + by) % ByteMod # b
<1>1. PICK m \in Nat \ {0} : m = ByteMod
  BY Parameters
<1>2. b \in Nat /\ b < m /\ by \in Nat /\ by >= 1 /\ by < m
  BY <1>1 DEF Byte
<1>3. PICK n \in Nat : n = b + by
  BY <1>2
<1>4. CASE n < m
  <2>1. n % m = n
    BY <1>1, <1>4
  <2>. QED  BY <1>1, <1>2, <1>3, <2>1
<1>5. CASE ~(n < m)
  <2>1. PICK r \in Nat : r = n - m
    BY <1>1, <1>5
  <2>2. r < m
    BY <1>1, <1>2, <1>3, <2>1
  <2>3. n % m = r
    <3>1. PICK q \in Int, x \in Int : x = n % m /\ n = x + m * q /\ x >= 0 /\ x < m
      <4>1. n % m \in 0..(m - 1) /\ n \div m \in Int /\ n = (n % m) + m * (n \div m)
        BY <1>1
      <4>. QED  BY <4>1
    <3>2. q = 1
      <4>1. q <= 0 => m * q <= 0
        BY <1>1
      <4>2. q >= 2 => m * q >= m + m
        BY <1>1
      <4>. QED  BY <1>1, <1>5, <2>1, <2>2, <3>1, <4>1, <4>2
    <3>3. m * q = m
      BY <3>2
    <3>. QED  BY <1>1, <2>1, <3>1, <3>3
  <2>. QED  BY <1>1, <1>2, <1>3, <2>1, <2>3
<1>. QED  BY <1>4, <1>5

\* A factor that is not zero tells numbers apart.
LEMMA TellsApart ==
    ASSUME NEW m \in Nat \ {0}, NEW x \in Nat, NEW y \in Nat, x # y
    PROVE  m * x # m * y
<1>1. ASSUME NEW a \in Nat, NEW d \in Nat, d >= 1 PROVE m * (a + d) # m * a
  <2>1. m * (a + d) = m * a + m * d /\ m * a \in Nat
    OBVIOUS
  <2>2. m * d >= m
    BY <1>1
  <2>. QED  BY <2>1, <2>2
<1>2. CASE x < y
  <2>1. PICK d \in Nat : d = y - x /\ d >= 1 /\ y = x + d
    BY <1>2
  <2>. QED  BY <1>1, <2>1
<1>3. CASE y < x
  <2>1. PICK d \in Nat : d = x - y /\ d >= 1 /\ x = y + d
    BY <1>3
  <2>. QED  BY <1>1, <2>1
<1>. QED  BY <1>2, <1>3

\* Two bytes make another number if one of them is another.
LEMMA AnotherNumber ==
    ASSUME NEW m \in Nat \ {0}, NEW a \in Nat, NEW b \in Nat, NEW x \in Nat, NEW y \in Nat,
           (x = a /\ y # b) \/ (x # a /\ y = b)
    PROVE  x + m * y # a + m * b
<1>1. m * b \in Nat /\ m * y \in Nat
  OBVIOUS
<1>2. CASE x = a /\ y # b
  <2>1. m * y # m * b
    BY <1>2, TellsApart
  <2>. QED  BY <1>1, <1>2, <2>1
<1>3. CASE x # a /\ y = b
  BY <1>1, <1>3
<1>. QED  BY <1>2, <1>3

\* The magic that a built file begins with, in bytes.
LEMMA MagicBytes ==
    ASSUME NEW l \in Layouts
    PROVE  LET b == Built(l)
           IN  /\ Len(b) >= 4 /\ \A i \in 1..4 : b[i] \in Nat
               /\ IMAGE_MAGIC = (b[1] + ByteMod * b[2]) + ByteMod * ByteMod * (b[3] + ByteMod * b[4])
<1>1. PICK b \in Seq(Byte) : b = Built(l)
  BY BuiltShape
<1>2. PICK s \in Seq(Byte) : s = Signed(l) /\ Occurs(s, 0, b) /\ Occurs(LE32(IMAGE_MAGIC), 0, s)
  BY <1>1, BuiltShape, SignedShape
<1>3. PICK c \in Seq(Byte) : c = LE32(IMAGE_MAGIC) /\ Len(c) = 4
  BY LE32Bytes, LayoutAssumption
<1>4. Occurs(c, 0, b)
  <2>1. Occurs(c, 0 + 0, b)
    BY <1>2, <1>3, Within
  <2>2. 0 + 0 = 0
    OBVIOUS
  <2>. QED  BY <2>1, <2>2
<1>5. PICK m \in U16, n \in U16 : /\ IMAGE_MAGIC = m + ByteMod * ByteMod * n
                                  /\ Occurs(LE16(m), 0, c) /\ Occurs(LE16(n), 2, c)
  BY <1>3, LE32Bytes, LayoutAssumption
<1>6. ASSUME NEW x \in U16, NEW i \in Nat, Occurs(LE16(x), i, c)
      PROVE  x = b[i + 1] + ByteMod * b[i + 2]
  <2>1. Len(LE16(x)) = 2 /\ LE16(x) \in Seq(Byte)
    BY LE16Bytes
  <2>2. Occurs(LE16(x), 0 + i, b)
    BY <1>4, <1>6, <2>1, Within
  <2>3. 0 + i = i
    OBVIOUS
  <2>4. Occurs(LE16(x), i, b)
    BY <2>2, <2>3
  <2>5. b[i + 1] = LE16(x)[1] /\ b[i + 2] = LE16(x)[2]
    BY <2>1, <2>4 DEF Occurs
  <2>. QED  BY <2>5, LE16Bytes
<1>7. m = b[1] + ByteMod * b[2] /\ n = b[3] + ByteMod * b[4]
  <2>1. m = b[0 + 1] + ByteMod * b[0 + 2] /\ n = b[2 + 1] + ByteMod * b[2 + 2]
    BY <1>5, <1>6
  <2>2. 0 + 1 = 1 /\ 0 + 2 = 2 /\ 2 + 1 = 3 /\ 2 + 2 = 4
    OBVIOUS
  <2>. QED  BY <2>1, <2>2
<1>8. Len(b) \in Nat /\ Len(b) >= 4
  BY <1>3, <1>4, LenProperties DEF Occurs
<1>9. ASSUME NEW i \in 1..4 PROVE b[i] \in Nat
  <2>1. i \in 1..Len(b)
    BY <1>8
  <2>2. b[i] \in Byte
    BY <2>1, ElementOfSeq
  <2>. QED  BY <2>2, Parameters DEF Byte
<1>. QED  BY <1>1, <1>5, <1>7, <1>8, <1>9

\* A file with a byte of the magic changed is not accepted.
LEMMA MagicChanged ==
    ASSUME AsDamaged, damage.kind = "change", damage.at \in 0..3
    PROVE  ~Acceptable
<1>. SUFFICES u32(0) # IMAGE_MAGIC
  BY DEF Acceptable
<1>1. PICK b \in Seq(Byte) : b = Built(layout)
  BY BuiltShape DEF AsDamaged
<1>2. /\ Len(b) \in Nat /\ Len(b) >= 4 /\ \A i \in 1..4 : b[i] \in Nat
      /\ IMAGE_MAGIC = (b[1] + ByteMod * b[2]) + ByteMod * ByteMod * (b[3] + ByteMod * b[4])
  BY <1>1, MagicBytes, LenProperties DEF AsDamaged
<1>3. damage.by \in 1..(ByteMod - 1)
  BY DEF AsDamaged, Damages, Whole
<1>4. PICK i \in 1..4 : i = damage.at + 1
  OBVIOUS
<1>5. i \in 1..Len(b)
  BY <1>2
<1>6. file = [b EXCEPT ![i] = (b[i] + damage.by) % ByteMod]
  BY <1>1, <1>4, <1>5 DEF AsDamaged, Damaged
<1>7. /\ file \in Seq(Byte) /\ Len(file) = Len(b)
      /\ \A j \in 1..Len(file) : j # i => file[j] = b[j]
      /\ file[i] = (b[i] + damage.by) % ByteMod
  BY <1>3, <1>5, <1>6, OneByteOff
<1>8. file[i] # b[i]
  <2>1. b[i] \in Byte
    BY <1>5, ElementOfSeq
  <2>. QED  BY <1>3, <1>7, <2>1, AnotherByte
<1>9. \A j \in 1..4 : file[j] \in Nat /\ (j # i => file[j] = b[j])
  <2>1. SUFFICES ASSUME NEW j \in 1..4 PROVE file[j] \in Nat /\ (j # i => file[j] = b[j])
    OBVIOUS
  <2>2. j \in 1..Len(file)
    BY <1>2, <1>7
  <2>3. file[j] \in Byte
    BY <1>7, <2>2, ElementOfSeq
  <2>4. file[j] \in Nat
    BY <2>3, Parameters DEF Byte
  <2>. QED  BY <1>7, <2>2, <2>4
<1>10. u32(0) = (file[1] + ByteMod * file[2]) + ByteMod * ByteMod * (file[3] + ByteMod * file[4])
  <2>1. u32(0) = (file[0 + 1] + ByteMod * file[0 + 2])
                 + ByteMod * ByteMod * (file[(0 + 2) + 1] + ByteMod * file[(0 + 2) + 2])
    BY DEF u32, u16
  <2>2. 0 + 1 = 1 /\ 0 + 2 = 2 /\ (0 + 2) + 1 = 3 /\ (0 + 2) + 2 = 4
    OBVIOUS
  <2>. QED  BY <2>1, <2>2
<1>11. PICK b1 \in Nat, b2 \in Nat, b3 \in Nat, b4 \in Nat :
          b1 = b[1] /\ b2 = b[2] /\ b3 = b[3] /\ b4 = b[4]
  BY <1>2
<1>12. PICK f1 \in Nat, f2 \in Nat, f3 \in Nat, f4 \in Nat :
          f1 = file[1] /\ f2 = file[2] /\ f3 = file[3] /\ f4 = file[4]
  <2>1. 1 \in 1..4 /\ 2 \in 1..4 /\ 3 \in 1..4 /\ 4 \in 1..4
    OBVIOUS
  <2>2. file[1] \in Nat /\ file[2] \in Nat /\ file[3] \in Nat /\ file[4] \in Nat
    BY <1>9, <2>1
  <2>. QED  BY <2>2
<1>13. \/ f1 # b1 /\ f2 = b2 /\ f3 = b3 /\ f4 = b4
       \/ f1 = b1 /\ f2 # b2 /\ f3 = b3 /\ f4 = b4
       \/ f1 = b1 /\ f2 = b2 /\ f3 # b3 /\ f4 = b4
       \/ f1 = b1 /\ f2 = b2 /\ f3 = b3 /\ f4 # b4
  <2>1. i = 1 \/ i = 2 \/ i = 3 \/ i = 4
    OBVIOUS
  <2>2. /\ i = 1 \/ f1 = b1
        /\ i = 2 \/ f2 = b2
        /\ i = 3 \/ f3 = b3
        /\ i = 4 \/ f4 = b4
    <3>1. 1 \in 1..4 /\ 2 \in 1..4 /\ 3 \in 1..4 /\ 4 \in 1..4
      OBVIOUS
    <3>2. /\ i = 1 \/ file[1] = b[1]
          /\ i = 2 \/ file[2] = b[2]
          /\ i = 3 \/ file[3] = b[3]
          /\ i = 4 \/ file[4] = b[4]
      BY <1>9, <3>1
    <3>. QED  BY <1>11, <1>12, <3>2
  <2>3. /\ i = 1 => f1 # b1
        /\ i = 2 => f2 # b2
        /\ i = 3 => f3 # b3
        /\ i = 4 => f4 # b4
    BY <1>8, <1>11, <1>12
  <2>4. 1 # 2 /\ 1 # 3 /\ 1 # 4 /\ 2 # 3 /\ 2 # 4 /\ 3 # 4
    OBVIOUS
  <2>. QED  BY <2>1, <2>2, <2>3, <2>4
<1>14. ByteMod \in Nat \ {0} /\ ByteMod * ByteMod \in Nat \ {0}
  BY Parameters
<1>15. PICK lo \in Nat, hi \in Nat, LO \in Nat, HI \in Nat :
          /\ lo = b1 + ByteMod * b2 /\ hi = b3 + ByteMod * b4
          /\ LO = f1 + ByteMod * f2 /\ HI = f3 + ByteMod * f4
  <2>1. ASSUME NEW p \in Nat, NEW q \in Nat PROVE p + ByteMod * q \in Nat
    <3>1. ByteMod * q \in Nat
      BY <1>14
    <3>. QED  BY <3>1
  <2>. QED  BY <2>1
<1>16. (LO # lo /\ HI = hi) \/ (LO = lo /\ HI # hi)
  <2>1. (f1 # b1 /\ f2 = b2) \/ (f1 = b1 /\ f2 # b2) => LO # lo
    BY <1>14, <1>15, AnotherNumber
  <2>2. (f3 # b3 /\ f4 = b4) \/ (f3 = b3 /\ f4 # b4) => HI # hi
    BY <1>14, <1>15, AnotherNumber
  <2>3. f1 = b1 /\ f2 = b2 => LO = lo
    BY <1>15
  <2>4. f3 = b3 /\ f4 = b4 => HI = hi
    BY <1>15
  <2>. QED  BY <1>13, <2>1, <2>2, <2>3, <2>4
<1>17. LO + ByteMod * ByteMod * HI # lo + ByteMod * ByteMod * hi
  <2>1. PICK m \in Nat \ {0} : m = ByteMod * ByteMod
    BY <1>14
  <2>2. LO + m * HI # lo + m * hi
    BY <1>16, AnotherNumber
  <2>. QED  BY <2>1, <2>2
<1>. QED  BY <1>2, <1>10, <1>11, <1>12, <1>15, <1>17

\* parse reports no file as valid that was cut, or changed in what the hash
\* covers (ValidMeansIntact): where it is only hashed, the hash does not match;
\* where parse reads it, what was found is the file's own hash, which no such
\* change brings about (HashAssumption); and another magic is refused.
THEOREM DamageIsNotValid == FileSpec => []ValidMeansIntact
<1>1. AsDamaged /\ WalkInv /\ Backing => ValidMeansIntact
  <2>. SUFFICES ASSUME AsDamaged, WalkInv, Backing, hash_valid = "valid"
                PROVE  /\ damage.kind # "cut"
                       /\ damage.kind = "change" => damage.at >= Len(Signed(layout))
    BY DEF ValidMeansIntact
  <2>1. Acceptable /\ HoldsItsHash(file)
    BY DEF Backing
  <2>2. damage.kind # "cut"
    <3>1. SUFFICES ASSUME damage.kind = "cut" PROVE FALSE
      OBVIOUS
    <3>2. Readable /\ ~IsWhole
      BY <3>1 DEF Readable, Changed, IsWhole
    <3>. QED  BY <3>2 DEF WalkInv, Found
  <2>3. ASSUME damage.kind = "change", ~(damage.at >= Len(Signed(layout))) PROVE FALSE
    <3>1. PICK b \in Seq(Byte) : b = Built(layout)
      BY BuiltShape DEF AsDamaged
    <3>2. Len(b) \in Nat /\ Len(Signed(layout)) \in Nat
      BY BuiltShape, LenProperties DEF AsDamaged
    <3>3. damage.at \in 0..(Len(b) - 1)
      BY <2>3, <3>1 DEF AsDamaged, Damages, Whole
    <3>4. damage.at \in Nat /\ damage.at <= Len(Signed(layout)) - 1
      BY <2>3, <3>2, <3>3
    <3>5. CASE damage.at \in OnlyHashed(layout)
      <4>1. Readable /\ Changed
        BY <2>3, <3>5 DEF Readable, Changed
      <4>. QED  BY <4>1 DEF WalkInv, Found, Verdict
    <3>6. CASE damage.at \in 0..3
      BY <2>1, <2>3, <3>6, MagicChanged
    <3>7. CASE damage.at \in 8..(Len(Signed(layout)) - 1) \ OnlyHashed(layout)
      BY <2>1, <2>3, <3>7, HashAssumption DEF AsDamaged
    <3>8. damage.at \in 0..3 \/ damage.at \in 4..7 \/ damage.at \in 8..(Len(Signed(layout)) - 1)
      BY <3>2, <3>4
    <3>. QED  BY <3>5, <3>6, <3>7, <3>8 DEF OnlyHashed
  <2>. QED  BY <2>2, <2>3
<1>. QED  BY <1>1, StaysDamaged, WalkHolds, BackingHolds, FilesAreParsed, PTL
=============================================================================
