------------------------------ MODULE NodeLock ------------------------------
(***************************************************************************)
(* nodelock() and nodeulock() (lib/nodelock.c): the .bsy file by which     *)
(* mbfido, while it adds mail to the outbound of a node, and every mbcico  *)
(* session with that node keep each other out.                             *)
(*                                                                         *)
(* As with lockdir() a program links a file with its pid to the lock, but  *)
(* a lock with its own pid is taken for its own, a lock of more than six   *)
(* hours is broken although its owner runs, a broken lock is tried for     *)
(* once only, and the temporary file is made read only, so that one left   *)
(* by a crash keeps every later program with that pid from locking.        *)
(*                                                                         *)
(* A system call is a step, and the unlink of the private temporary file   *)
(* is part of the step before it.  What holds the lock is in the modules   *)
(* that extend this one: they take a program from "create" to "locked"     *)
(* with LockStep, and from "uopen" to "ended" with UnlockStep.             *)
(***************************************************************************)
CONSTANTS Pids,     \* the process numbers
          NoPid     \* no process number, an absent lock

ASSUME NoPidAssumption == NoPid \notin Pids

VARIABLES
    pc,       \* pc[p]: where the program with pid p is; "ended": there is no
              \* process with this pid, "other": it is another program's
    aa,       \* the pids of which the temporary file aa<pid> exists
    bsy,      \* the pid in the .bsy file, or NoPid if there is no such file
    aged,     \* the .bsy file is more than six hours old
    found,    \* found[p]: the pid p read from the .bsy file
    late,     \* late[p]: p found the .bsy file to be over six hours old
    same,     \* history: the programs that have read the lock which is there
    broken    \* history: how a lock was taken from a running owner

histLock == <<same, broken>>
lockVars == <<pc, aa, bsy, aged, found, late, histLock>>

LockPCs == {"ended", "other", "create", "link", "read", "age", "probe",
            "unlink", "again", "locked", "uopen", "uunlink"}

LockTypeOK == /\ pc \in [Pids -> LockPCs]
              /\ aa \subseteq Pids
              /\ bsy \in Pids \cup {NoPid}
              /\ aged \in BOOLEAN
              /\ found \in [Pids -> Pids \cup {NoPid}]
              /\ late \in [Pids -> BOOLEAN]
              /\ same \subseteq Pids
              /\ broken \subseteq {"raced", "sixhours"}

LockInit == /\ pc = [p \in Pids |-> "ended"]
            /\ aa = {}
            /\ bsy = NoPid
            /\ aged = FALSE
            /\ found = [p \in Pids |-> NoPid]
            /\ late = [p \in Pids |-> FALSE]
            /\ same = {} /\ broken = {}

Ours(p) == pc[p] \notin {"ended", "other"}

\* From the link to the unlink the program counts on its .bsy file.
Owns(p) == pc[p] \in {"locked", "uopen", "uunlink"}

Goto(p, from, to) == /\ pc[p] = from
                     /\ pc' = [pc EXCEPT ![p] = to]

\* What a program has read is of no use any more.
Forgets(p) == /\ found' = [found EXCEPT ![p] = NoPid]
              /\ late' = [late EXCEPT ![p] = FALSE]

\* A return of nodelock: its temporary file goes, or was never there.
Fails(p, from) == /\ Goto(p, from, "ended")
                  /\ aa' = aa \ {p}
                  /\ Forgets(p)
                  /\ same' = same \ {p}
                  /\ UNCHANGED <<bsy, aged, broken>>

\* The .bsy file becomes the lock of owner, or goes with NoPid.
Becomes(owner) == bsy' = owner /\ aged' = FALSE /\ same' = {}

-----------------------------------------------------------------------------
(* nodelock() *)

Begins(p) == /\ Goto(p, "ended", "create")
             /\ UNCHANGED <<aa, bsy, aged, found, late, histLock>>

\* fopen fails on a read only file that a former owner of the pid has left.
Create(p) == /\ Goto(p, "create", IF p \in aa THEN "ended" ELSE "link")
             /\ aa' = aa \cup {p}
             /\ UNCHANGED <<bsy, aged, found, late, histLock>>

LinkOk(p, from) == /\ Goto(p, from, "locked")
                   /\ bsy = NoPid
                   /\ Becomes(p)
                   /\ aa' = aa \ {p}
                   /\ Forgets(p)
                   /\ UNCHANGED broken

LinkExists(p) == /\ Goto(p, "link", "read")
                 /\ bsy # NoPid
                 /\ UNCHANGED <<aa, bsy, aged, found, late, histLock>>

\* The second link fails: another program was faster.
AgainExists(p) == bsy # NoPid /\ Fails(p, "again")

ReadGone(p) == bsy = NoPid /\ Fails(p, "read")

ReadOwn(p) == /\ Goto(p, "read", "locked")
              /\ bsy = p
              /\ aa' = aa \ {p}
              /\ same' = {}
              /\ UNCHANGED <<bsy, aged, found, late, broken>>

ReadOther(p) == /\ Goto(p, "read", "age")
                /\ bsy \in Pids \ {p}
                /\ found' = [found EXCEPT ![p] = bsy]
                /\ same' = same \cup {p}
                /\ UNCHANGED <<aa, bsy, aged, late, broken>>

\* file_time() of whatever the .bsy file is by now; of a file that is gone
\* it is -1, and the unsigned difference to it is large as well.
Age(p) == /\ Goto(p, "age", "probe")
          /\ late' = [late EXCEPT ![p] = aged \/ bsy = NoPid]
          /\ UNCHANGED <<aa, bsy, aged, found, histLock>>

\* Mutant: also a lock that is neither old nor its owner gone is broken.
StaleAlways(p) == TRUE

\* Mutant: without the test for locks older than six hours.
StaleByPid(p) == pc[found[p]] = "ended"

\* kill() finds no process with this pid, or the lock is too old.
Stale(p) == pc[found[p]] = "ended" \/ late[p]

ProbeStale(p) == /\ Goto(p, "probe", "unlink")
                 /\ Stale(p)
                 /\ UNCHANGED <<aa, bsy, aged, found, late, histLock>>

ProbeBusy(p) == Fails(p, "probe") /\ ~Stale(p)

\* unlink() of whatever the .bsy file is by now: that of a running program
\* if the lock has changed hands since it was read, or if it is six hours old.
Unlink(p) == /\ Goto(p, "unlink", "again")
             /\ broken' = broken \cup
                   (IF \A q \in Pids : ~(bsy = q /\ Owns(q)) THEN {}
                    ELSE IF p \notin same THEN {"raced"}
                    ELSE IF aged THEN {"sixhours"} ELSE {})
             /\ Becomes(NoPid)
             /\ UNCHANGED <<aa, found, late>>

LockStep(p) == \/ Create(p)
               \/ LinkOk(p, "link") \/ LinkExists(p)
               \/ ReadGone(p) \/ ReadOwn(p) \/ ReadOther(p)
               \/ Age(p) \/ ProbeStale(p) \/ ProbeBusy(p)
               \/ Unlink(p)
               \/ LinkOk(p, "again") \/ AgainExists(p)

-----------------------------------------------------------------------------
(* nodeulock() *)

\* The work is done, well or not: nodeulock is called.
Leaves(p) == /\ Goto(p, "locked", "uopen")
             /\ UNCHANGED <<aa, bsy, aged, found, late, histLock>>

\* The lock is gone or another's: it is left alone.
UnlockOpen(p) == /\ Goto(p, "uopen", IF bsy = p THEN "uunlink" ELSE "ended")
                 /\ UNCHANGED <<aa, bsy, aged, found, late, histLock>>

UnlockUnlink(p) == /\ Goto(p, "uunlink", "ended")
                   /\ Becomes(NoPid)
                   /\ UNCHANGED <<aa, found, late, broken>>

UnlockStep(p) == UnlockOpen(p) \/ UnlockUnlink(p)

-----------------------------------------------------------------------------
(* The system around the calls *)

\* A program ends by a signal or a crash and leaves its files.
Dies(p) == /\ Ours(p)
           /\ pc' = [pc EXCEPT ![p] = "ended"]
           /\ Forgets(p)
           /\ same' = same \ {p}
           /\ UNCHANGED <<aa, bsy, aged, broken>>

\* The pid of an ended program goes to an unrelated one, which ends too.
PidReused(p) == /\ Goto(p, "ended", "other")
                /\ UNCHANGED <<aa, bsy, aged, found, late, histLock>>

PidFreed(p) == /\ Goto(p, "other", "ended")
               /\ UNCHANGED <<aa, bsy, aged, found, late, histLock>>

\* The lock is now more than six hours old.
SixHours == /\ bsy # NoPid /\ ~aged
            /\ aged' = TRUE
            /\ UNCHANGED <<pc, aa, bsy, found, late, histLock>>

LockNext == \/ \E p \in Pids : \/ Begins(p) \/ LockStep(p)
                               \/ Leaves(p) \/ UnlockStep(p)
                               \/ Dies(p) \/ PidReused(p) \/ PidFreed(p)
            \/ SixHours

LockSpec == LockInit /\ [][LockNext]_lockVars

\* The programs that go by their lock.
Locked == {p \in Pids : pc[p] = "locked"}

Lock == INSTANCE ExclusiveLock
            WITH Procs <- Pids, NoProc <- NoPid, owner <- bsy, using <- Locked

\* nodelock and nodeulock implement the exclusive lock until a lock is taken
\* from a running program, because it is six hours old or because it changed
\* hands after it was read: what is taken was free or the program's own, and
\* what is removed was given up or left by a program that has ended.
ImplementsLock == Lock!Init /\ [][broken' # {} \/ Lock!Next]_(Lock!vars)
============================================================================
