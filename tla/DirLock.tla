------------------------------ MODULE DirLock ------------------------------
(***************************************************************************)
(* lockdir() and ulockdir() (mbfido/dirlock.c; mbcico/dirlock.c is the     *)
(* same code): the lock on an inbound or queue directory that mbfido and   *)
(* every mbcico session take before they move or toss mail.                *)
(*                                                                         *)
(* A program writes its pid to TMP.<pid> and links that file to LOCKFILE.  *)
(* If LOCKFILE exists it reads the pid in it; a pid that no longer runs    *)
(* makes the lock stale, the program unlinks it and links again.  Each     *)
(* system call is a step of its own: other programs run in between.        *)
(*                                                                         *)
(* LOCKFILE is always linked from a file that was written and closed, so   *)
(* what is in it is the pid of the program that linked it: lockfile holds  *)
(* that program, or NoProc when there is no LOCKFILE.                      *)
(***************************************************************************)
CONSTANTS Procs,    \* the programs that lock the directory, one pid each
          NoProc    \* no program, an absent LOCKFILE

ASSUME NoProcAssumption == NoProc \notin Procs

VARIABLES
    pc,        \* where each program is
    tmpfile,   \* tmpfile[p]: TMP.<pid of p> exists
    lockfile,  \* the program whose pid is in LOCKFILE, or NoProc
    oldpid,    \* oldpid[p]: the pid p read from LOCKFILE
    reused,    \* the pids of ended programs that another program now has
    raced      \* history: a stale unlink hit another lock than the one read

dirVars == <<pc, tmpfile, lockfile, oldpid, reused, raced>>

PCs == {"idle", "create", "link", "linked", "open", "probe", "unlink",
        "fail", "holding", "uopen", "uunlink", "ended"}

DirTypes == /\ pc \in [Procs -> PCs]
            /\ tmpfile \in [Procs -> BOOLEAN]
            /\ lockfile \in Procs \cup {NoProc}
            /\ oldpid \in [Procs -> Procs \cup {NoProc}]
            /\ reused \subseteq Procs
            /\ raced \in BOOLEAN

\* What a program compares with the processes is a pid read from LOCKFILE.
ReadPid == \A p \in Procs : pc[p] \in {"probe", "unlink"} => oldpid[p] \in Procs

DirTypeOK == DirTypes /\ ReadPid

DirInit == /\ pc = [p \in Procs |-> "idle"]
           /\ tmpfile = [p \in Procs |-> FALSE]
           /\ lockfile = NoProc
           /\ oldpid = [p \in Procs |-> NoProc]
           /\ reused = {}
           /\ raced = FALSE

Running(p) == pc[p] # "ended"

\* kill(pid, 0) fails with ESRCH: no process has this pid.
NoSuchProcess(p) == ~Running(p) /\ p \notin reused

Goto(p, from, to) == /\ pc[p] = from
                     /\ pc' = [pc EXCEPT ![p] = to]

-----------------------------------------------------------------------------
(* lockdir() *)

Call(p) == /\ Goto(p, "idle", "create")
           /\ UNCHANGED <<tmpfile, lockfile, oldpid, reused, raced>>

\* fopen, fprintf and fclose of TMP.<pid>; a file left there is truncated.
\* The alternative is fopen failing, on which lockdir returns FALSE.
CreateTmp(p) ==
    \/ /\ Goto(p, "create", "link")
       /\ tmpfile' = [tmpfile EXCEPT ![p] = TRUE]
       /\ UNCHANGED <<lockfile, oldpid, reused, raced>>
    \/ /\ Goto(p, "create", "idle")
       /\ UNCHANGED <<tmpfile, lockfile, oldpid, reused, raced>>

LinkOk(p) == /\ Goto(p, "link", "linked")
             /\ lockfile = NoProc
             /\ lockfile' = p
             /\ UNCHANGED <<tmpfile, oldpid, reused, raced>>

LinkExists(p) == /\ Goto(p, "link", "open")
                 /\ lockfile # NoProc
                 /\ UNCHANGED <<tmpfile, lockfile, oldpid, reused, raced>>

\* The temporary file goes and lockdir returns TRUE.
Locked(p) == /\ Goto(p, "linked", "holding")
             /\ tmpfile' = [tmpfile EXCEPT ![p] = FALSE]
             /\ UNCHANGED <<lockfile, oldpid, reused, raced>>

\* Mutant: a LOCKFILE that has gone is read all the same.
ReadLockUnchecked(p) == /\ Goto(p, "open", "probe")
                        /\ oldpid' = [oldpid EXCEPT ![p] = lockfile]
                        /\ UNCHANGED <<tmpfile, lockfile, reused, raced>>

\* fopen of LOCKFILE and fscanf of the pid in it.
ReadLock(p) == /\ Goto(p, "open", "probe")
               /\ lockfile # NoProc
               /\ oldpid' = [oldpid EXCEPT ![p] = lockfile]
               /\ UNCHANGED <<tmpfile, lockfile, reused, raced>>

\* LOCKFILE went away since link() failed: lockdir gives up.
ReadGone(p) == /\ Goto(p, "open", "fail")
               /\ lockfile = NoProc
               /\ UNCHANGED <<tmpfile, lockfile, oldpid, reused, raced>>

\* Mutant: any failure to learn about the pid counts as a stale lock.
ProbeStaleAlways(p) == /\ Goto(p, "probe", "unlink")
                       /\ UNCHANGED <<tmpfile, lockfile, oldpid, reused, raced>>

ProbeStale(p) == /\ Goto(p, "probe", "unlink")
                 /\ NoSuchProcess(oldpid[p])
                 /\ UNCHANGED <<tmpfile, lockfile, oldpid, reused, raced>>

\* The pid is in use, or kill() may not signal it: lockdir gives up.
ProbeInUse(p) == /\ Goto(p, "probe", "fail")
                 /\ ~NoSuchProcess(oldpid[p])
                 /\ UNCHANGED <<tmpfile, lockfile, oldpid, reused, raced>>

\* Mutant: the stale lock is left where it is before the loop goes on.
UnlinkStaleForgotten(p) == /\ Goto(p, "unlink", "link")
                           /\ UNCHANGED <<tmpfile, lockfile, oldpid, reused, raced>>

\* unlink() removes whatever LOCKFILE is by now; the loop links again.
UnlinkStale(p) == /\ Goto(p, "unlink", "link")
                  /\ raced' = (raced \/ lockfile \notin {NoProc, oldpid[p]})
                  /\ lockfile' = NoProc
                  /\ UNCHANGED <<tmpfile, oldpid, reused>>

\* The temporary file goes and lockdir returns FALSE.
GiveUp(p) == /\ Goto(p, "fail", "idle")
             /\ tmpfile' = [tmpfile EXCEPT ![p] = FALSE]
             /\ UNCHANGED <<lockfile, oldpid, reused, raced>>

-----------------------------------------------------------------------------
(* ulockdir().  die() of mbfido calls it whether or not the lock is held.  *)

CallUnlock(p) == /\ pc[p] \in {"idle", "holding"}
                 /\ pc' = [pc EXCEPT ![p] = "uopen"]
                 /\ UNCHANGED <<tmpfile, lockfile, oldpid, reused, raced>>

\* Mutant: ulockdir without the check that the lock is our own.
OwnLockUnchecked(p) == /\ Goto(p, "uopen", "uunlink")
                       /\ lockfile # NoProc
                       /\ UNCHANGED <<tmpfile, lockfile, oldpid, reused, raced>>

\* LOCKFILE is there and has our pid in it.
OwnLock(p) == /\ Goto(p, "uopen", "uunlink")
              /\ lockfile = p
              /\ UNCHANGED <<tmpfile, lockfile, oldpid, reused, raced>>

\* LOCKFILE is gone, or it is the lock of another program: leave it.
NotOwnLock(p) == /\ Goto(p, "uopen", "idle")
                 /\ lockfile # p
                 /\ UNCHANGED <<tmpfile, lockfile, oldpid, reused, raced>>

UnlinkOwn(p) == /\ Goto(p, "uunlink", "idle")
                /\ lockfile' = NoProc
                /\ UNCHANGED <<tmpfile, oldpid, reused, raced>>

-----------------------------------------------------------------------------
(* The system around the calls *)

\* A program ends, regularly when idle, by a signal or a crash elsewhere.
Exit(p) == /\ Running(p)
           /\ pc' = [pc EXCEPT ![p] = "ended"]
           /\ UNCHANGED <<tmpfile, lockfile, oldpid, reused, raced>>

\* The kernel gives the pid of an ended program to an unrelated one ...
ReusePid(p) == /\ NoSuchProcess(p)
               /\ reused' = reused \cup {p}
               /\ UNCHANGED <<pc, tmpfile, lockfile, oldpid, raced>>

\* ... which ends as well.
FreePid(p) == /\ p \in reused
              /\ reused' = reused \ {p}
              /\ UNCHANGED <<pc, tmpfile, lockfile, oldpid, raced>>

LockStep(p) == \/ CreateTmp(p) \/ LinkOk(p) \/ LinkExists(p) \/ Locked(p)
               \/ ReadLock(p) \/ ReadGone(p) \/ ProbeStale(p) \/ ProbeInUse(p)
               \/ UnlinkStale(p) \/ GiveUp(p)

UnlockStep(p) == OwnLock(p) \/ NotOwnLock(p) \/ UnlinkOwn(p)

DirNext == \E p \in Procs : \/ Call(p) \/ LockStep(p)
                            \/ CallUnlock(p) \/ UnlockStep(p)
                            \/ Exit(p) \/ ReusePid(p) \/ FreePid(p)

DirSpec == DirInit /\ [][DirNext]_dirVars

\* A program that is inside lockdir or ulockdir is scheduled and goes on.
DirFairness == \A p \in Procs : WF_dirVars(LockStep(p)) /\ WF_dirVars(UnlockStep(p))

FairDirSpec == DirSpec /\ DirFairness

-----------------------------------------------------------------------------
(* Properties *)

\* lockdir() exists so that one program at a time works in the directory:
\* no two programs have returned from lockdir() with TRUE and not unlocked.
Exclusive == \A p, q \in Procs :
                 pc[p] = "holding" /\ pc[q] = "holding" => p = q

\* Exclusion is lost in one way only, through the window between reading
\* the pid in LOCKFILE and unlinking it: as long as no stale unlink hit a
\* lock other than the one that was read, one program at a time holds it.
ExclusiveUnlessRaced == raced \/ Exclusive

\* The lock the callers rely on: its owner is the program in LOCKFILE, and a
\* program uses it from a successful link() until it calls ulockdir or ends.
Lock == INSTANCE ExclusiveLock
            WITH owner <- lockfile,
                 using <- {p \in Procs : pc[p] \in {"linked", "holding"}}

\* lockdir and ulockdir implement the exclusive lock step by step until a
\* stale unlink hits the wrong lock: what is taken was free, and what is
\* unlinked is the lock of a program that has given it up or has ended.
ImplementsLock == Lock!Init /\ [][raced' \/ Lock!Next]_(Lock!vars)

\* Every call of lockdir() comes back, although it loops while the lock is
\* stale: only so many owners can end.
LockdirReturns == \A p \in Procs :
    pc[p] = "create" ~> pc[p] \in {"holding", "idle", "ended"}
============================================================================
