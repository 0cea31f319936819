--------------------------- MODULE FrameAssembler ---------------------------
(***************************************************************************)
(* The framing primitives of src/src/smp/mod.rs as operators on sequences  *)
(* of bytes: Header::encode and decode, encode_frame, and the              *)
(* FrameAssembler, whose one field is the sequence buf.                    *)
(***************************************************************************)
EXTENDS Naturals, Sequences

CONSTANT ByteMod    \* number of values of a byte; the code's u8 gives 256

ASSUME ByteModAssumption == ByteMod \in Nat /\ ByteMod > 3

Byte == 0..(ByteMod - 1)

HEADER_LEN == 8

\* Op::from_u8 knows read, its response, write and its response.
KnownOp(byte) == byte \in 0..3

\* u16::to_be_bytes and u16::from_be_bytes.
ToBigEndian(n) == <<n \div ByteMod, n % ByteMod>>
FromBigEndian(hi, lo) == hi * ByteMod + lo

\* Header::encode, for a header whose flags are 0.
EncodeHeader(h) ==
    <<h.op, 0>> \o ToBigEndian(h.len) \o ToBigEndian(h.group) \o <<h.seq, h.id>>

\* The cast of the length to u16 drops what does not fit.
encode_frame(op, group, seq, id, payload) ==
    EncodeHeader([op |-> op, len |-> Len(payload) % (ByteMod * ByteMod),
                  group |-> group, seq |-> seq, id |-> id]) \o payload

\* Header::decode of a frame next_frame returned, with the payload that the
\* read loops cut off behind it.
Refused == [ok |-> FALSE]
decode(frame) ==
    IF Len(frame) < HEADER_LEN \/ ~KnownOp(frame[1])
    THEN Refused
    ELSE [ok |-> TRUE, op |-> frame[1],
          group |-> FromBigEndian(frame[5], frame[6]),
          seq |-> frame[7], id |-> frame[8],
          payload |-> SubSeq(frame, HEADER_LEN + 1, Len(frame))]

-----------------------------------------------------------------------------
push(buf, data) == buf \o data

FrameLen(buf) == HEADER_LEN + FromBigEndian(buf[3], buf[4])

\* Mutant of HasFrame: it waits for one byte more than the frame has.
WantsMore(buf) == Len(buf) >= HEADER_LEN /\ Len(buf) > FrameLen(buf)

\* next_frame returns Some; with a partial frame it returns None and leaves
\* the buffer as it is.
HasFrame(buf) == Len(buf) >= HEADER_LEN /\ Len(buf) >= FrameLen(buf)

next_frame(buf) == SubSeq(buf, 1, FrameLen(buf))

\* Mutant of rest: the frames behind the first one are dropped with it.
DropsTheRest(buf) == <<>>

\* Mutant of rest: the last byte of the frame stays in front of the next one.
KeepsAByte(buf) == SubSeq(buf, FrameLen(buf), Len(buf))

rest(buf) == SubSeq(buf, FrameLen(buf) + 1, Len(buf))
=============================================================================
