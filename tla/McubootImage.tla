----------------------------- MODULE McubootImage -----------------------------
(***************************************************************************)
(* Reading a firmware file: parse and find_sha256_tlv (src/src/image.rs),  *)
(* which `image info` and `image upload` call.  The walk over the TLVs is  *)
(* a step per block and per entry.  Offsets into the file count from 0 as  *)
(* in the code; region and entries, slices there, are the offsets at which *)
(* they begin.                                                             *)
(***************************************************************************)
EXTENDS Naturals, Sequences

CONSTANTS
    ByteMod,                \* number of values of a byte; the code has 256
    IMAGE_MAGIC,            \* first four bytes of a file
    TLV_INFO_MAGIC,         \* first two bytes of a block of TLVs
    TLV_PROT_INFO_MAGIC,    \* the same of a protected one
    TLV_SHA256,             \* tag of the entry with the hash
    HashLen,                \* bytes in a hash; SHA-256 has 32
    Sha256(_)               \* the hash of some bytes

Byte == 0..(ByteMod - 1)

ASSUME ByteModAssumption  == ByteMod \in Nat \ {0}
ASSUME HashLenAssumption  == HashLen \in Nat

VARIABLES
    file,       \* data
    pc,         \* "header", "blocks", "entries", "done" or "rejected"
    hashed,     \* hashed_len: how many bytes the hash covers
    region,     \* where the TLVs not yet looked at begin
    entries,    \* where the entries of this block not yet looked at begin
    end,        \* where this block ends
    hash_valid  \* "none", "valid" or "mismatch"

vars == <<file, pc, hashed, region, entries, end, hash_valid>>

Start ==
    /\ pc = "header"
    /\ hashed = 0 /\ region = 0 /\ entries = 0 /\ end = 0
    /\ hash_valid = "none"

Init == file \in Seq(Byte) /\ Start

MIN_HEADER_LEN == 32

\* u16::from_le_bytes and u32::from_le_bytes.
u16(i) == file[i + 1] + ByteMod * file[i + 2]
u32(i) == u16(i) + ByteMod * ByteMod * u16(i + 2)

header_size        == u16(8)
protected_tlv_size == u16(10)
image_size         == u32(12)

\* Mutant of hashed_len: the protected TLVs are left out.
HashesNoTlv == header_size + image_size

hashed_len == header_size + image_size + protected_tlv_size
tlv_start  == header_size + image_size

-----------------------------------------------------------------------------
(* parse, up to the walk.                                                  *)

Acceptable ==
    /\ Len(file) >= MIN_HEADER_LEN
    /\ u32(0) = IMAGE_MAGIC
    /\ hashed_len <= Len(file)

Reject ==
    /\ pc = "header"
    /\ ~Acceptable
    /\ pc' = "rejected"
    /\ UNCHANGED <<file, hashed, region, entries, end, hash_valid>>

Accept ==
    /\ pc = "header"
    /\ Acceptable
    /\ hashed' = hashed_len
    /\ region' = tlv_start
    /\ pc' = "blocks"
    /\ UNCHANGED <<file, entries, end, hash_valid>>

-----------------------------------------------------------------------------
(* find_sha256_tlv                                                         *)

Magic == u16(region)
Total == u16(region + 2)
Tag   == u16(entries)
Value == entries + 4
ValueLen == u16(entries + 2)

BlockLeft == Len(file) - region >= 4
EntryLeft == end - entries >= 4

\* Mutant of BlockFits: an info block may be shorter than its own header.
BlockFitsIn == Total <= Len(file) - region

BlockFits == Total >= 4 /\ Total <= Len(file) - region

EntryFits == Value + ValueLen <= end

IsBlock == Magic \in {TLV_INFO_MAGIC, TLV_PROT_INFO_MAGIC}

EnterBlock ==
    /\ pc = "blocks"
    /\ BlockLeft /\ IsBlock /\ BlockFits
    /\ entries' = region + 4
    /\ end' = region + Total
    /\ pc' = "entries"
    /\ UNCHANGED <<file, hashed, region, hash_valid>>

\* The end of the file, or a structural problem.
NoHash ==
    /\ \/ pc = "blocks" /\ ~(BlockLeft /\ IsBlock /\ BlockFits)
       \/ pc = "entries" /\ EntryLeft /\ ~EntryFits
    /\ pc' = "done"
    /\ UNCHANGED <<file, hashed, region, entries, end, hash_valid>>

IsHash == Tag = TLV_SHA256 /\ ValueLen = HashLen

\* Mutant of Matches: hashes are compared by their first byte.
MatchesRoughly(embedded, computed) == embedded[1] = computed[1]

Matches(embedded, computed) == embedded = computed

FindHash ==
    /\ pc = "entries"
    /\ EntryLeft /\ EntryFits /\ IsHash
    /\ hash_valid' =
          IF Matches(SubSeq(file, Value + 1, Value + ValueLen), Sha256(SubSeq(file, 1, hashed)))
          THEN "valid" ELSE "mismatch"
    /\ pc' = "done"
    /\ UNCHANGED <<file, hashed, region, entries, end>>

\* Mutant of AfterEntry: only the value is skipped.
AfterValue == entries + ValueLen

AfterEntry == Value + ValueLen

SkipEntry ==
    /\ pc = "entries"
    /\ EntryLeft /\ EntryFits /\ ~IsHash
    /\ entries' = AfterEntry
    /\ UNCHANGED <<file, pc, hashed, region, end, hash_valid>>

LeaveBlock ==
    /\ pc = "entries"
    /\ ~EntryLeft
    /\ region' = end
    /\ pc' = "blocks"
    /\ UNCHANGED <<file, hashed, entries, end, hash_valid>>

Next ==
    Reject \/ Accept \/ EnterBlock \/ NoHash \/ FindHash \/ SkipEntry \/ LeaveBlock

Spec == Init /\ [][Next]_vars

-----------------------------------------------------------------------------
\* Whatever the lengths in the file say, no slice is taken outside of the
\* slice it is cut from, which would panic: the hashed bytes and the region lie
\* in the file, a block lies in the region and its entries in the block
\* (parse, find_sha256_tlv).
InBounds ==
    /\ hashed <= Len(file)
    /\ region <= Len(file)
    /\ pc = "entries" =>
          region + 4 <= entries /\ entries <= end /\ end <= Len(file)

\* The hash of the bytes that the header of f declares stands behind them, or
\* behind the application, where it looks like an entry.
HoldsItsHash(f) ==
    LET n(i) == f[i + 1] + ByteMod * f[i + 2]
        tlvs == n(8) + (n(12) + ByteMod * ByteMod * n(14))
        covered == tlvs + n(10)
    IN  /\ covered <= Len(f)
        /\ \E i \in tlvs..(Len(f) - 4 - HashLen) :
              /\ n(i) = TLV_SHA256 /\ n(i + 2) = HashLen
              /\ SubSeq(f, i + 5, i + 4 + HashLen) = Sha256(SubSeq(f, 1, covered))

\* A hash is reported as valid only of a file that holds it (find_sha256_tlv).
ValidIsBacked == hash_valid = "valid" => HoldsItsHash(file)
=============================================================================
