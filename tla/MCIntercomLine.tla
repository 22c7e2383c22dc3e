--------------------------- MODULE MCIntercomLine ---------------------------
(* Small instances of IntercomLine for TLC. *)
EXTENDS IntercomLine
=============================================================================
