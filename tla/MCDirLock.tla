----------------------------- MODULE MCDirLock -----------------------------
(* DirLock for three programs.                                             *)
EXTENDS DirLock
CONSTANTS p1, p2, p3
MCProcs == {p1, p2, p3}
============================================================================
