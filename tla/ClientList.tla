----------------------------- MODULE ClientList -----------------------------
(***************************************************************************)
(* The list of connected clients and a user of it that decides on it.      *)
(* GMON hands out the table of clients one entry per call, with a cursor   *)
(* that is one static variable of the daemon (mbtask/taskregs.c,           *)
(* get_reginfo_r).  ExtDoor of the BBS (mbsebbs/door.c) reads the list to  *)
(* see whether a door for a single user is in use.                         *)
(***************************************************************************)
EXTENDS Integers, FiniteSetsExt

CONSTANTS Procs,      \* BBS sessions
          MaxClient   \* MAXCLIENT: slots 0..MaxClient - 1, slot 0 is the daemon's

ASSUME MaxClientAssumption == MaxClient \in Nat \ {0}

VARIABLES
    pc,         \* pc[p]: what session p is doing
    slot,       \* slot[p]: its slot in the table, 0 when it has none
    doing,      \* doing[p]: "door" when its slot says so
    entrypos,   \* the cursor
    up,         \* the daemon runs
    missing,    \* history: sessions in the table since the scan of p began
                \* that it was not shown yet
    mixed       \* history: another session moved the cursor in the scan of p

listVars == <<pc, slot, doing, entrypos, up, missing, mixed>>

Slots == 1..(MaxClient - 1)
Registered == {p \in Procs : slot[p] # 0}
UsedSlots == {0} \cup {slot[p] : p \in Registered}
Scanning == {p \in Procs : pc[p] = "scan"}

\* The first position behind the table, and any position behind that.
Eof == MaxClient
Beyond == MaxClient + 1

ListTypeOK == /\ pc \in [Procs -> {"out", "menu", "scan", "enter", "door"}]
              /\ slot \in [Procs -> {0} \cup Slots]
              /\ doing \in [Procs -> {"", "door"}]
              /\ entrypos \in 0..Beyond
              /\ up \in BOOLEAN
              /\ missing \in [Procs -> SUBSET Procs]
              /\ mixed \in [Procs -> BOOLEAN]
              /\ \A p, q \in Registered : slot[p] = slot[q] => p = q

ListInit == /\ pc = [p \in Procs |-> "out"]
            /\ slot = [p \in Procs |-> 0]
            /\ doing = [p \in Procs |-> ""]
            /\ entrypos = 0
            /\ up = TRUE
            /\ missing = [p \in Procs |-> {}]
            /\ mixed = [p \in Procs |-> FALSE]

-----------------------------------------------------------------------------
(* Sessions come and go *)

FreeSlots == Slots \ UsedSlots

SessionStarts(p) == /\ up /\ pc[p] = "out" /\ FreeSlots # {}
                    /\ pc' = [pc EXCEPT ![p] = "menu"]
                    /\ slot' = [slot EXCEPT ![p] = Min(FreeSlots)]
                    /\ UNCHANGED <<doing, entrypos, up, missing, mixed>>

SessionEnds(p) == /\ up /\ pc[p] # "out"
                  /\ pc' = [pc EXCEPT ![p] = "out"]
                  /\ slot' = [slot EXCEPT ![p] = 0]
                  /\ doing' = [doing EXCEPT ![p] = ""]
                  /\ missing' = [q \in Procs |-> IF q = p THEN {} ELSE missing[q] \ {p}]
                  /\ mixed' = [mixed EXCEPT ![p] = FALSE]
                  /\ UNCHANGED <<entrypos, up>>

-----------------------------------------------------------------------------
(* GMON *)

\* Where the search for the next entry starts: 0 with the first call.
\* Mutant: a client does not say that the list goes on.
StartAlwaysFirst(first) == 0
\* Mutant: the cursor is not reset with the first call.
StartNeverFirst(first) == entrypos + 1
Start(first) == IF first THEN 0 ELSE entrypos + 1

Later(from) == {s \in UsedSlots : s >= from}

\* The answer is the client in the next used slot.
Entry(first) == /\ Later(Start(first)) # {}
                /\ entrypos' = Min(Later(Start(first)))
                /\ up' = up

\* The answer is 100:0, there are no more.
NoMore(first) == /\ Later(Start(first)) = {} /\ Start(first) <= Eof
                 /\ entrypos' = Eof
                 /\ up' = up

\* The cursor is past the one place where it is compared with MAXCLIENT.  What
\* lies behind the table is taken for an entry, or the daemon does not survive.
Garbage(first) == /\ Start(first) > Eof
                  /\ entrypos' = Beyond
                  /\ up' \in {up, FALSE}

-----------------------------------------------------------------------------
(* ExtDoor: Gmon is one turn of its loop, with first for the first one     *)

Shown == {q \in Registered : slot[q] = entrypos'}
DoorInUse == \E q \in Shown : doing[q] = "door"

\* The session is shown an entry, expects missing0 and goes on, unless this is
\* somebody in the door.  Others in their scan lose the place in it.
Gmon(p, first, missing0) ==
    /\ up
    /\ \/ Entry(first) /\ pc' = [pc EXCEPT ![p] = IF DoorInUse THEN "menu" ELSE "scan"]
       \/ NoMore(first) /\ pc' = [pc EXCEPT ![p] = "enter"]
       \/ Garbage(first) /\ pc' = [pc EXCEPT ![p] = "scan"]
    /\ missing' = [missing EXCEPT ![p] = IF pc'[p] = "menu" THEN {} ELSE missing0 \ Shown]
    /\ mixed' = [q \in Procs |-> IF q = p THEN mixed[p] /\ ~first /\ pc'[p] # "menu"
                                 ELSE mixed[q] \/ q \in Scanning]
    /\ UNCHANGED <<slot, doing>>

ScanFirst(p) == pc[p] = "menu" /\ Gmon(p, TRUE, Registered)

ScanNext(p) == pc[p] = "scan" /\ Gmon(p, FALSE, missing[p])

\* WhosDoingWhat(DOOR), then the door runs; WhosDoingWhat(BROWSING).
EnterDoor(p) == /\ up /\ pc[p] = "enter"
                /\ pc' = [pc EXCEPT ![p] = "door"]
                /\ doing' = [doing EXCEPT ![p] = "door"]
                /\ missing' = [missing EXCEPT ![p] = {}]
                /\ mixed' = [mixed EXCEPT ![p] = FALSE]
                /\ UNCHANGED <<slot, entrypos, up>>

LeaveDoor(p) == /\ up /\ pc[p] = "door"
                /\ pc' = [pc EXCEPT ![p] = "menu"]
                /\ doing' = [doing EXCEPT ![p] = ""]
                /\ UNCHANGED <<slot, entrypos, up, missing, mixed>>

ListNext == \E p \in Procs : \/ SessionStarts(p) \/ SessionEnds(p)
                             \/ ScanFirst(p) \/ ScanNext(p)
                             \/ EnterDoor(p) \/ LeaveDoor(p)

ListSpec == ListInit /\ [][ListNext]_listVars

\* A session in the loop of ExtDoor keeps asking.
FairListSpec == ListSpec /\ \A p \in Procs : WF_listVars(ScanNext(p))

-----------------------------------------------------------------------------
(* Properties *)

\* A session that read the list to its end with nobody else asking in between
\* was shown every session that was there all the time, whoever came and went.
ScanComplete == \A p \in Procs : pc[p] = "enter" /\ ~mixed[p] => missing[p] = {}

ListInv == ListTypeOK /\ ScanComplete

\* The list has an end for a session that nobody disturbs.
ScanEnds == \A p \in Procs : pc[p] = "scan" ~> pc[p] # "scan" \/ mixed[p] \/ ~up
=============================================================================
