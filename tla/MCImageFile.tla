----------------------------- MODULE MCImageFile -----------------------------
(***************************************************************************)
(* Values of the constants of ImageFile: bytes of sixteen values, hashes   *)
(* of two bytes, headers of 32 bytes and more, and up to two entries in    *)
(* each block, some of them empty or with the hash's tag and another size. *)
(***************************************************************************)
EXTENDS ImageFile

CONSTANTS h, none

\* A checksum that tells the files at hand apart.
Checksum(bytes) ==
    LET sum[n \in 0..Len(bytes)] ==
            IF n = 0 THEN 1 ELSE (sum[n - 1] * 10 + bytes[n] * 3 + 7) % 251
    IN  <<sum[Len(bytes)] % ByteMod, sum[Len(bytes)] \div ByteMod>>

Empty == [tag |-> 2, value |-> <<>>]
Key   == [tag |-> 1, value |-> <<5, 0, 9>>]
Short == [tag |-> TLV_SHA256, value |-> <<4>>]

Lists(es) == {<<>>} \cup {<<e>> : e \in es} \cup {<<e, f>> : e \in es, f \in es}

SomeLayouts ==
    {[header |-> 32, app |-> 2, protected |-> p, unprotected |-> u] :
        p \in {none, <<>>, <<Empty, Key>>}, u \in {none} \cup Lists({Key, Empty, Hash})}
    \cup {[header |-> 36, app |-> 0, protected |-> none, unprotected |-> <<Short, Hash>>]}
=============================================================================
