---------------------------- MODULE MCLineBuffer ----------------------------
(* A small instance of LineBuffer for TLC. *)
EXTENDS LineBuffer

CONSTANTS x, y

MCChar == {x, y, Comma, CR}
============================================================================
