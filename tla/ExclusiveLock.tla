--------------------------- MODULE ExclusiveLock ---------------------------
(***************************************************************************)
(* What a lock file promises its callers: a program is granted the lock    *)
(* only while it is free, and the lock is taken away from its owner only   *)
(* when the owner has given it up or has ended.  The lock file protocols   *)
(* of MBSE BBS are compared with this specification.                       *)
(***************************************************************************)
CONSTANTS Procs,   \* the programs that may want the lock, one pid each
          NoProc   \* the owner of a free lock

VARIABLES owner,   \* the program that owns the lock, or NoProc
          using    \* the programs that rely on being the only owner

vars == <<owner, using>>

Init == /\ owner = NoProc
        /\ using = {}

\* A lock that was left behind may be taken up again by a program with the
\* pid of the one that left it.
Acquire(p) == /\ owner = NoProc \/ (owner = p /\ p \notin using)
              /\ owner' = p
              /\ using' = using \cup {p}

\* The owner asks to unlock, or it ends without doing so.
Done(p) == /\ p \in using
           /\ using' = using \ {p}
           /\ UNCHANGED owner

\* The lock becomes free, by its former owner or as a stale lock by another.
Free == /\ owner \in Procs \ using
        /\ owner' = NoProc
        /\ UNCHANGED using

Next == \/ \E p \in Procs : Acquire(p) \/ Done(p)
        \/ Free

Spec == Init /\ [][Next]_vars
============================================================================
