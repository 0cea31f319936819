------------------------------ MODULE ImageFile ------------------------------
(***************************************************************************)
(* parse on the files it meets: images as a signing tool lays them out     *)
(* (the tests of src/src/image.rs build the same, with one block of TLVs), *)
(* whole, cut short, or with one byte changed.  A layout says how long the *)
(* header and the application are and which entries the two blocks of      *)
(* TLVs have; an entry is a tag and a value, and the value Hash stands for *)
(* the hash of what comes before the unprotected block.                    *)
(***************************************************************************)
EXTENDS McubootImage, FiniteSets

CONSTANTS
    Layouts,    \* records [header, app, protected, unprotected]
    Hash,       \* an entry that is the hash
    NoBlock     \* there is no such block

VARIABLES
    layout,     \* history: what the file was built from
    damage      \* history: what became of it

LE16(n) == <<n % ByteMod, n \div ByteMod>>
LE32(n) == LE16(n % (ByteMod * ByteMod)) \o LE16(n \div (ByteMod * ByteMod))
Zeros(n) == [i \in 1..n |-> 0]

Entry(e, hash) ==
    IF e = Hash THEN LE16(TLV_SHA256) \o LE16(HashLen) \o hash
    ELSE LE16(e.tag) \o LE16(Len(e.value)) \o e.value

\* The first n entries, joined, as a function of n.
JoinedTo(es, hash) ==
    LET join[n \in 0..Len(es)] ==
            IF n = 0 THEN <<>> ELSE join[n - 1] \o Entry(es[n], hash)
    IN  join

Block(magic, es, hash) ==
    IF es = NoBlock THEN <<>>
    ELSE LET body == JoinedTo(es, hash)[Len(es)]
         IN  LE16(magic) \o LE16(4 + Len(body)) \o body

Protected(l) == Block(TLV_PROT_INFO_MAGIC, l.protected, <<>>)

\* Everything the hash covers.
Signed(l) ==
    LE32(IMAGE_MAGIC) \o Zeros(4) \o LE16(l.header) \o LE16(Len(Protected(l)))
    \o LE32(l.app) \o Zeros(l.header - 16)
    \o [i \in 1..l.app |-> i % ByteMod] \o Protected(l)

\* The block that is not covered.
Unprotected(l) == Block(TLV_INFO_MAGIC, l.unprotected, Sha256(Signed(l)))

Built(l) == Signed(l) \o Unprotected(l)

HasHash(l) == l.unprotected # NoBlock /\ \E i \in 1..Len(l.unprotected) : l.unprotected[i] = Hash

U16 == 0..(ByteMod * ByteMod - 1)
U32 == 0..(ByteMod * ByteMod * (ByteMod * ByteMod) - 1)

\* An entry other than the hash does not look like one.
Plain(e) == /\ e \in [tag : U16, value : Seq(Byte)] /\ Len(e.value) \in U16
            /\ ~(e.tag = TLV_SHA256 /\ Len(e.value) = HashLen)

\* What a signing tool can write: sizes and tags fit their fields, and only the
\* unprotected block has the hash.
ASSUME LayoutAssumption ==
    /\ IMAGE_MAGIC \in U32
    /\ {TLV_INFO_MAGIC, TLV_PROT_INFO_MAGIC, TLV_SHA256, HashLen} \subseteq U16
    /\ \A l \in Layouts :
          /\ l.header \in U16 /\ l.header >= MIN_HEADER_LEN /\ l.app \in U32
          /\ l.protected # NoBlock =>
                /\ Len(l.protected) \in Nat
                /\ \A i \in 1..Len(l.protected) : l.protected[i] # Hash /\ Plain(l.protected[i])
          /\ l.unprotected # NoBlock =>
                /\ Len(l.unprotected) \in Nat
                /\ \A i \in 1..Len(l.unprotected) :
                      l.unprotected[i] = Hash \/ Plain(l.unprotected[i])
          /\ Len(Protected(l)) \in U16 /\ Len(Unprotected(l)) \in U16
          /\ Sha256(Signed(l)) \in Seq(Byte) /\ Len(Sha256(Signed(l))) = HashLen

Whole == [kind |-> "none", at |-> 0, by |-> 0]

Damages(bytes) ==
    {Whole}
    \cup [kind : {"cut"},    at : 0..(Len(bytes) - 1), by : {0}]
    \cup [kind : {"change"}, at : 0..(Len(bytes) - 1), by : 1..(ByteMod - 1)]

Damaged(bytes, d) ==
    CASE d.kind = "none"   -> bytes
      [] d.kind = "cut"    -> SubSeq(bytes, 1, d.at)
      [] d.kind = "change" -> [bytes EXCEPT ![d.at + 1] = (@ + d.by) % ByteMod]

\* Where parse reads nothing of the file but to hash it: behind the magic, and
\* from the flags to the end of the application.
OnlyHashed(l) == (4..7) \cup (16..(l.header + l.app - 1))

\* The hash tells a file from one that differs in a byte, and a file whose
\* sizes or protected entries were changed does not come to hold its own hash.
ASSUME HashAssumption ==
    \A l \in Layouts :
        LET signed == Signed(l)
            built  == Built(l)
        IN  /\ \A d \in Damages(signed) :
                  (d.kind = "change" /\ d.at \in OnlyHashed(l))
                      => Sha256(Damaged(signed, d)) # Sha256(signed)
            /\ \A d \in Damages(built) :
                  (d.kind = "change" /\ d.at \in 8..(Len(signed) - 1) \ OnlyHashed(l))
                      => ~HoldsItsHash(Damaged(built, d))

FileInit ==
    /\ layout \in Layouts
    /\ damage \in Damages(Built(layout))
    /\ file = Damaged(Built(layout), damage)
    /\ Start

FileNext == Next /\ UNCHANGED <<layout, damage>>

\* parse is sequential code: it goes on while it can.
FileSpec ==
    /\ FileInit /\ [][FileNext]_<<vars, layout, damage>>
    /\ WF_<<vars, layout, damage>>(FileNext)

-----------------------------------------------------------------------------
Finished == pc \in {"done", "rejected"}

\* A whole file is accepted, and its hash is found valid if it has one,
\* whatever other entries and blocks come before it.
ReadsWhatWasBuilt ==
    (Finished /\ damage = Whole) =>
        pc = "done" /\ hash_valid = (IF HasHash(layout) THEN "valid" ELSE "none")

\* A file that was cut anywhere, or changed anywhere in what the hash covers,
\* is not reported as valid.
ValidMeansIntact ==
    hash_valid = "valid" =>
        /\ damage.kind # "cut"
        /\ damage.kind = "change" => damage.at >= Len(Signed(layout))

\* A file with a byte changed where it is only hashed is still read to its hash,
\* which does not match: the change is seen, not taken for a file without one.
ChangeIsSeen ==
    (Finished /\ damage.kind = "change" /\ damage.at \in OnlyHashed(layout)) =>
        pc = "done" /\ hash_valid = (IF HasHash(layout) THEN "mismatch" ELSE "none")

\* A file that does not hold what its header declares is refused.
CutIsRejected ==
    (Finished /\ damage.kind = "cut" /\ damage.at < Len(Signed(layout)))
        => pc = "rejected"

\* The walk ends, whatever lengths the file has: each turn of each loop moves
\* on.
Terminates == <>Finished
=============================================================================
