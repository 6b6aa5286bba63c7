--------------------------- MODULE MCChatServer ----------------------------
(***************************************************************************)
(* Instances of ChatServer for TLC.                                        *)
(***************************************************************************)
EXTENDS ChatServer
=============================================================================
