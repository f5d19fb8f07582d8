-------------------------- MODULE MCRuntimeProvider -------------------------
(* Small instances of RuntimeProvider for TLC. *)
EXTENDS RuntimeProvider

CONSTANTS t1, t2, p1, p2

TwoThreads == {t1, t2}
TwoPayloads == {p1, p2}
=============================================================================
