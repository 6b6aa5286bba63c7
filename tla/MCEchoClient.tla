---------------------------- MODULE MCEchoClient ----------------------------
(***************************************************************************)
(* The instance of EchoClient for TLC: the two lines of the code.          *)
(***************************************************************************)
EXTENDS EchoClient
MCPieces == {"hel", "lo", "CRLF1", "wor", "ld", "CRLF2"}
MCLines == << <<"hel", "lo", "CRLF1">>, <<"wor", "ld", "CRLF2">> >>
=============================================================================
