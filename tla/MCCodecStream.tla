---------------------------- MODULE MCCodecStream ----------------------------
(* CodecStream for TLC: words and ids with a zero, a low and a high byte.     *)
EXTENDS CodecStream
=============================================================================
