--------------------------- MODULE MCRepositoryLock ---------------------------
(***************************************************************************)
(* A few uses of the lock for TLC.                                         *)
(***************************************************************************)
EXTENDS RepositoryLock

CONSTANTS a1, a2, a3

ThreeAttempts == {a1, a2, a3}
=============================================================================
