-------------------------- MODULE MCBufferedSocket --------------------------
(* Instances of BufferedSocket for TLC.  Byte 1 is a CR, byte 2 an LF.     *)
EXTENDS BufferedSocket

CRLF == {<<1, 2>>}

=============================================================================
