---------------------------- MODULE MCFrameStream ----------------------------
(* Values of the constants of FrameStream, with bytes of five values. *)
EXTENDS FrameStream

\* The length of the one takes two digits; the other is a header alone, with
\* an op that decode refuses.
Answer  == encode_frame(1, 6, 3, 2, <<4, 0, 1, 2, 0>>)
Unknown == encode_frame(4, 1, 1, 1, <<>>)

AnyFrames == {Answer, Unknown}
=============================================================================
