------------------------------ MODULE JamBase ------------------------------
(***************************************************************************)
(* A JAM message base in its four files (lib/jammsg.c, lib/msg.c), used by *)
(* programs that know nothing of each other: the tosser and users add      *)
(* messages, mbmsg kills old ones and packs the base, a user reads.  A     *)
(* program opens the files, locks the first byte of the header file, does  *)
(* one thing, unlocks and closes them.  Packing replaces the files, one    *)
(* after the other.  A program may end at any point.                       *)
(*                                                                         *)
(* A message is a number of its own in the order they are written; what a  *)
(* program calls it by is its header's num.  Texts, and the places of      *)
(* headers in the file, are positions in sequences.                        *)
(***************************************************************************)
EXTENDS Integers, FiniteSets, Sequences, SequencesExt

CONSTANTS Procs,    \* programs
          Plans,    \* what they do, as bounds on how often: sets of records of
                    \*   procs, old (messages in the base at the beginning),
                    \*   add, kill, pack, read (programs started for it),
                    \*   delete (messages deleted), crash (programs killed)
          MaxMsgs,  \* bound: messages altogether
          Wrap      \* the size of an unsigned int

ASSUME JamBaseAssumption ==
    /\ Procs \subseteq Nat /\ IsFiniteSet(Procs)
    /\ MaxMsgs \in Nat /\ Wrap \in Nat
    /\ Plans \subseteq [{"procs", "old", "add", "kill", "pack", "read", "delete", "crash"} -> Nat]
    /\ \A plan \in Plans : plan.old + plan.add <= MaxMsgs /\ MaxMsgs + plan.delete < Wrap

Files == {"jhr", "jdt", "jdx", "jlr"}
Order == <<"jhr", "jdt", "jdx", "jlr">>
\* Files on disk that have a name, a temporary name or somebody who uses them
Inodes == 1..(Cardinality(Procs) + 2)
None == 0

VARIABLES
    dir,    \* the file that has the name, None when there is none
    tmp,    \* the file that has the temporary name: .$dr, .$dt, .$dx, .$lr
    jhr, jdt, jdx, jlr, \* what the files contain
    pc, job, \* what a program is about to do, and what it was started for
    fd,     \* fdHdr, fdJdt, fdJdx, fdJlr of a program
    act,    \* jamHdrInfo.ActiveMsgs in its memory
    num,    \* the number it works with: of the new message, or to read
    cur,    \* the message it writes; how often files were swapped by the time it found num
    left,   \* what is left of the plan
    msgs, swaps, \* how many messages there were, and how often files were exchanged
    stored, killed, \* history: messages whose writer was told so; deleted ones
    seen,   \* history: messages the user has read
    astray, \* history: messages that were written to files being exchanged
    mishap  \* history: what went wrong

vars == <<dir, tmp, jhr, jdt, jdx, jlr, pc, job, fd, act, num, cur, left, msgs, swaps,
          stored, killed, seen, astray, mishap>>

files == <<jhr, jdt, jdx, jlr>>
bounds == <<left, msgs, swaps>>
history == <<stored, killed, seen, astray>>

Header == [msg : 1..MaxMsgs, num : Nat \ {0},
           txt : Nat,      \* its text, 0 when it has none yet
           del : BOOLEAN,  \* MSG_DELETED
           done : BOOLEAN, \* the header has its final form
           tail : BOOLEAN] \* subfields lie behind it that it does not count
NoHeaders == [info |-> FALSE, active |-> 0, hdrs |-> <<>>]

Adding == {"header", "text", "final", "count"}
States == {"closed", "info", "files", "open", "locked", "deleted", "swap", "unlock"}
          \cup Adding
Jobs == {"add", "kill", "pack", "read", "show", "set", "done", "none"}

TypeOK ==
    /\ dir \in [Files -> Inodes \cup {None}] /\ tmp \in [Files -> Inodes \cup {None}]
    /\ \A i \in Inodes :
           /\ jhr[i].active \in 0..(Wrap - 1)
           /\ \A k \in DOMAIN jhr[i].hdrs : jhr[i].hdrs[k] \in Header
           /\ \A k \in DOMAIN jdt[i] : jdt[i][k] \in 1..MaxMsgs
           /\ jlr[i] \in Nat
    /\ pc \in [Procs -> States] /\ job \in [Procs -> Jobs]
    /\ fd \in [Procs -> [Files -> Inodes \cup {None}]]
    /\ act \in [Procs -> 0..(Wrap - 1)]
    /\ killed \cup seen \cup astray \cup stored \subseteq 1..MaxMsgs

\* No base yet, or one with messages of which the user has read some.
Written(m) == [msg |-> m, num |-> m, txt |-> m, del |-> FALSE, done |-> TRUE, tail |-> FALSE]
Initial(old) == [info |-> TRUE, active |-> old, hdrs |-> [m \in 1..old |-> Written(m)]]
At1(content, empty) == [i \in Inodes |-> IF i = 1 /\ left.old > 0 THEN content ELSE empty]

Init ==
    /\ left \in Plans
    /\ jhr = At1(Initial(left.old), NoHeaders)
    /\ jdt = At1([m \in 1..left.old |-> m], <<>>)
    /\ jdx = At1([m \in 1..left.old |-> m], <<>>)
    /\ \E last \in 0..left.old : jlr = At1(last, 0) /\ seen = 1..last
    /\ dir = [f \in Files |-> IF left.old = 0 THEN None ELSE 1]
    /\ tmp = [f \in Files |-> None]
    /\ pc = [p \in Procs |-> "closed"] /\ job = [p \in Procs |-> "none"]
    /\ fd = [p \in Procs |-> [f \in Files |-> None]]
    /\ act = [p \in Procs |-> 0] /\ num = [p \in Procs |-> 0] /\ cur = [p \in Procs |-> 0]
    /\ msgs = left.old /\ swaps = 0
    /\ stored = 1..left.old
    /\ killed = {} /\ astray = {} /\ mishap = {}

-----------------------------------------------------------------------------
(* Files *)

Hdrs(p) == jhr[fd[p].jhr].hdrs
Active(p) == jhr[fd[p].jhr].active
Index(p) == jdx[fd[p].jdx]
Texts(p) == jdt[fd[p].jdt]

Used(f) == {dir[f], tmp[f]} \cup {fd[p][f] : p \in Procs}
Fresh(f) == CHOOSE i \in Inodes \ Used(f) : \A j \in Inodes \ Used(f) : i <= j

\* What nobody can reach any more is gone.
Forget == /\ jhr' = [i \in Inodes |-> IF i \in Used("jhr")' THEN jhr[i] ELSE NoHeaders]
          /\ jdt' = [i \in Inodes |-> IF i \in Used("jdt")' THEN jdt[i] ELSE <<>>]
          /\ jdx' = [i \in Inodes |-> IF i \in Used("jdx")' THEN jdx[i] ELSE <<>>]
          /\ jlr' = [i \in Inodes |-> IF i \in Used("jlr")' THEN jlr[i] ELSE 0]

Swapping == {q \in Procs : pc[q] = "swap"}
\* The program works on the files that have the names, and they keep them.
Current(p) == fd[p] = dir /\ Swapping = {}

Undeleted(hdrs) == {k \in DOMAIN hdrs : ~hdrs[k].del}
\* JAM_ReadHeader(): the first place in the index with a message of number n
Find(p, n) ==
    LET found == {k \in DOMAIN Index(p) : /\ Index(p)[k] \in Undeleted(Hdrs(p))
                                          /\ Hdrs(p)[Index(p)[k]].num = n}
    IN IF found = {} THEN {} ELSE {Index(p)[CHOOSE k \in found : \A j \in found : k <= j]}

Goto(p, from, to) == pc[p] = from /\ pc' = [pc EXCEPT ![p] = to]

-----------------------------------------------------------------------------
(* Msg_Open, Msg_Lock, Msg_UnLock, Msg_Close *)

\* open(2) of file f with O_CREAT
OpenFile(p, f) ==
    /\ fd' = [fd EXCEPT ![p][f] = IF dir[f] = None THEN Fresh(f) ELSE dir[f]]
    /\ dir' = [dir EXCEPT ![f] = fd'[p][f]]

\* The header file is opened first and the count of messages read from it.
OpenHdr(p) ==
    /\ OpenFile(p, "jhr")
    /\ LET new == jhr[fd'[p].jhr] IN
       /\ act' = [act EXCEPT ![p] = IF new.info THEN new.active ELSE 0]
       /\ pc' = [pc EXCEPT ![p] = IF new.info THEN "files" ELSE "info"]
    /\ UNCHANGED <<tmp, files>>

Start(p, j) ==
    /\ pc[p] = "closed" /\ job[p] = "none"
    /\ left[j] > 0 /\ p <= left.procs
    /\ left' = [left EXCEPT ![j] = @ - 1]
    /\ job' = [job EXCEPT ![p] = j]
    /\ msgs' = IF j = "add" THEN msgs + 1 ELSE msgs
    /\ cur' = [cur EXCEPT ![p] = IF j = "add" THEN msgs' ELSE 0]
    /\ OpenHdr(p)
    /\ UNCHANGED <<num, swaps, history, mishap>>

\* Reading a message opens the base a second time; so does the end of a pack.
Again(p) == /\ pc[p] = "closed" /\ job[p] \in {"show", "done"}
            /\ OpenHdr(p)
            /\ UNCHANGED <<job, num, cur, bounds, history, mishap>>

\* The file was empty when it was read: its first bytes are written, whatever
\* another program has put there in the meantime.
Create(p) == /\ Goto(p, "info", "files")
             /\ jhr' = [jhr EXCEPT ![fd[p].jhr].info = TRUE, ![fd[p].jhr].active = 0]
             /\ mishap' = mishap \cup (IF Hdrs(p) = <<>> THEN {} ELSE {"wiped"})
             /\ UNCHANGED <<dir, tmp, jdt, jdx, jlr, job, fd, act, num, cur, bounds, history>>

OpenNext(p) ==
    /\ pc[p] = "files"
    /\ \E k \in 2..4 :
           /\ fd[p][Order[k]] = None /\ \A j \in 1..(k - 1) : fd[p][Order[j]] # None
           /\ OpenFile(p, Order[k])
           /\ pc' = [pc EXCEPT ![p] = IF k = 4 THEN "open" ELSE "files"]
    /\ UNCHANGED <<tmp, files, job, act, num, cur, bounds, history, mishap>>

LockPc == {"locked", "deleted", "unlock"} \cup Adding
\* Mutant: the lock is not waited for.
LockFreeAlways(p) == TRUE
\* fcntl() locks the file itself, whatever name it has.
LockFree(p) == \A q \in Procs : pc[q] \in LockPc => fd[q].jhr # fd[p].jhr

Lock(p) == /\ job[p] \in {"add", "kill", "pack", "set"}
           /\ LockFree(p)
           /\ Goto(p, "open", "locked")
           /\ UNCHANGED <<dir, tmp, files, job, fd, act, num, cur, bounds, history, mishap>>

Close(p) == /\ fd' = [fd EXCEPT ![p] = [f \in Files |-> None]]
            /\ act' = [act EXCEPT ![p] = 0]
            /\ pc' = [pc EXCEPT ![p] = "closed"]
            /\ UNCHANGED <<dir, tmp>>
            /\ Forget

\* The job is over.
Done(p) == /\ Close(p)
           /\ job' = [job EXCEPT ![p] = "none"]
           /\ num' = [num EXCEPT ![p] = 0] /\ cur' = [cur EXCEPT ![p] = 0]
           /\ UNCHANGED <<bounds, stored, killed, astray>>

\* The lock was not free for 30 seconds: the job is not done (the message is
\* lost, as storenet.c:183 says).
LockFails(p) == /\ pc[p] = "open" /\ job[p] \in {"add", "kill", "pack", "set"}
                /\ ~LockFree(p)
                /\ Done(p)
                /\ UNCHANGED <<seen, mishap>>

\* A pack ends with the base open again.
UnLock(p) == /\ \/ pc[p] = "unlock"
                \/ pc[p] = "locked" /\ job[p] = "kill"
                \/ pc[p] = "open" /\ job[p] = "done"
             /\ Done(p)
             /\ UNCHANGED <<seen, mishap>>

-----------------------------------------------------------------------------
(* JAM_AddMsg *)

\* JAM_Highest(): the number in the header of the last index entry, or zero when
\* there was no message at the time the base was opened.  When the entry lies
\* behind the end of the headers it is what the buffer held before.
Highest(p) ==
    IF act[p] = 0 \/ Index(p) = <<>> THEN {0}
    ELSE IF Last(Index(p)) \in DOMAIN Hdrs(p) THEN {Hdrs(p)[Last(Index(p))].num}
    ELSE 0..MaxMsgs

\* What goes wrong with a new message of number n
Numbering(p, n) ==
    (IF act[p] = 0 /\ Undeleted(Hdrs(p)) # {} THEN {"blind"} ELSE {})
    \cup (IF \E k \in DOMAIN Hdrs(p) : Hdrs(p)[k].num >= n THEN {"restart"} ELSE {})

Adds(p, from, to) == /\ Goto(p, from, to) /\ job[p] = "add"
                     /\ astray' = IF Current(p) THEN astray ELSE astray \cup {cur[p]}
                     /\ UNCHANGED <<dir, tmp, jlr, job, fd, cur, bounds, killed, seen>>

\* The index entry comes first ...
AddIndex(p) ==
    /\ Adds(p, "locked", "header")
    /\ \E high \in Highest(p) :
           /\ num' = [num EXCEPT ![p] = high + 1]
           /\ mishap' = mishap \cup Numbering(p, high + 1)
    /\ jdx' = [jdx EXCEPT ![fd[p].jdx] = Append(@, Len(Hdrs(p)) + 1)]
    /\ UNCHANGED <<jhr, jdt, act, stored>>

\* ... then an unfinished header ...
AddHeader(p) ==
    /\ Adds(p, "header", "text")
    /\ jhr' = [jhr EXCEPT ![fd[p].jhr].hdrs = Append(@,
                   [msg |-> cur[p], num |-> num[p], txt |-> 0,
                    del |-> FALSE, done |-> FALSE, tail |-> FALSE])]
    /\ UNCHANGED <<jdt, jdx, act, num, stored, mishap>>

\* The last header is h from now on.
Rewrites(p, h) == jhr' = [jhr EXCEPT ![fd[p].jhr].hdrs[Len(Hdrs(p))] = h]

\* ... subfields and text; the text counts when the header is finished ...
AddText(p) ==
    /\ Adds(p, "text", "final")
    /\ Rewrites(p, [Last(Hdrs(p)) EXCEPT !.tail = TRUE, !.txt = Len(Texts(p)) + 1])
    /\ jdt' = [jdt EXCEPT ![fd[p].jdt] = Append(@, cur[p])]
    /\ UNCHANGED <<jdx, act, num, stored, mishap>>

\* ... the final header ...
AddFinal(p) ==
    /\ Adds(p, "final", "count")
    /\ Rewrites(p, [Last(Hdrs(p)) EXCEPT !.tail = FALSE, !.done = TRUE])
    /\ UNCHANGED <<jdt, jdx, act, num, stored, mishap>>

\* Mutant: the count of the memory is written, which is that of the open.
CountedOld(p, n) == (act[p] + n) % Wrap
\* The count is read again before it is changed; it is unsigned.
Counted(p, n) == (Active(p) + n) % Wrap

Count(p, n) == /\ act' = [act EXCEPT ![p] = Counted(p, n)]
               /\ jhr' = [jhr EXCEPT ![fd[p].jhr].active = Counted(p, n)]

\* ... and the count of messages.
AddCount(p) ==
    /\ Adds(p, "count", "unlock")
    /\ Count(p, 1)
    /\ stored' = stored \cup {cur[p]}
    /\ UNCHANGED <<jdt, jdx, num, mishap>>

-----------------------------------------------------------------------------
(* JAM_Delete, for messages KillArea() finds too old *)

\* Msg_Next() finds nothing when the base was empty at the time it was opened.
Delete(p) ==
    /\ Goto(p, "locked", "deleted")
    /\ job[p] = "kill" /\ act[p] > 0 /\ left.delete > 0
    /\ \E k \in UNION {Find(p, h.num) : h \in ToSet(Hdrs(p))} :
           /\ jhr' = [jhr EXCEPT ![fd[p].jhr].hdrs[k].del = TRUE]
           /\ killed' = killed \cup {Hdrs(p)[k].msg}
    /\ left' = [left EXCEPT !.delete = @ - 1]
    /\ UNCHANGED <<dir, tmp, jdt, jdx, jlr, job, fd, act, num, cur, msgs, swaps, stored,
                   seen, astray, mishap>>

DeleteCount(p) ==
    /\ Goto(p, "deleted", "locked")
    /\ Count(p, -1)
    /\ UNCHANGED <<dir, tmp, jdt, jdx, jlr, job, fd, num, cur, bounds, history, mishap>>

-----------------------------------------------------------------------------
(* JAM_Pack *)

\* Headers are read one after the other.  Behind an unfinished one lie bytes
\* that are no header: the index tells where the next is, which is believed
\* when its number is its position; if it is not, nothing more is read.
Readable(p, k) == \A j \in 2..k : Hdrs(p)[j - 1].tail =>
                      /\ j \in DOMAIN Index(p) /\ Index(p)[j] = j
                      /\ Hdrs(p)[j].num = j
Read(p) == {k \in DOMAIN Hdrs(p) : Readable(p, k)}
Panics(p) == \E k \in Read(p) : Hdrs(p)[k].tail /\ k + 1 \notin Read(p)

\* Headers and texts are written one after the other: the one at k of those in
\* S is the Rank(S, k)-th, and where the n-th was is Place(S, n).
Rank(S, k) == Cardinality(S \cap 1..k)
Place(S, n) == CHOOSE k \in S : Rank(S, k) = n

\* Messages that are copied, and those of them whose text is: an unfinished
\* header leads to none.
Copied(p) == Read(p) \cap Undeleted(Hdrs(p))
WithText(p) == {k \in Copied(p) : Hdrs(p)[k].done}

\* When a header leads behind the end of the texts, the copy never ends (780).
Endless(p) == \E k \in WithText(p) : Hdrs(p)[k].txt \notin DOMAIN Texts(p)

PackedHeader(p, n) ==
    LET k == Place(Copied(p), n)
        h == Hdrs(p)[k]
    IN [h EXCEPT !.num = n, !.tail = FALSE, !.txt = IF h.done THEN Rank(WithText(p), k) ELSE 0]
PackedHdrs(p) == [n \in 1..Cardinality(Copied(p)) |-> PackedHeader(p, n)]
PackedTexts(p) == [n \in 1..Cardinality(WithText(p)) |->
                      Texts(p)[Hdrs(p)[Place(WithText(p), n)].txt]]

\* Mutant: the pointer stays where it is.
RenumberedNot(p, last) == last
\* The user's pointer is looked for at every message, in order, and takes the
\* new number of that message or, when it was deleted, of the one before it.
Renumbered(p, last) ==
    LET lr[k \in 0..Cardinality(Read(p))] ==
            IF k = 0 THEN last
            ELSE IF lr[k - 1] = Hdrs(p)[k].num THEN Rank(Copied(p), k)
            ELSE lr[k - 1]
    IN lr[Cardinality(Read(p))]

\* The count is corrected when messages were copied to the end, and a pointer
\* that is still higher is set to it.
PackedCount(p) == IF Panics(p) \/ Copied(p) = {} THEN Active(p) ELSE Cardinality(Copied(p))

Pack(p) ==
    LET last == Renumbered(p, jlr[fd[p].jlr])
        new == [f \in Files |-> IF tmp[f] = None THEN Fresh(f) ELSE tmp[f]]
    IN
    /\ Goto(p, "locked", "swap")
    /\ job[p] = "pack" /\ ~Endless(p)
    /\ swaps' = swaps + 1
    /\ tmp' = new
    /\ jhr' = [jhr EXCEPT ![new.jhr] =
                   [info |-> TRUE, active |-> PackedCount(p), hdrs |-> PackedHdrs(p)]]
    /\ jdt' = [jdt EXCEPT ![new.jdt] = PackedTexts(p)]
    /\ jdx' = [jdx EXCEPT ![new.jdx] = [n \in 1..Cardinality(Copied(p)) |-> n]]
    /\ jlr' = [jlr EXCEPT ![fd[p].jlr] = last,
                          ![new.jlr] = IF last > PackedCount(p) THEN PackedCount(p) ELSE last]
    /\ mishap' = mishap \cup (IF Current(p) THEN {} ELSE {"stalepack"})
    /\ num' = [num EXCEPT ![p] = 1]
    /\ UNCHANGED <<dir, job, fd, act, cur, left, msgs, history>>

\* All files are closed, which releases the lock; then each name is taken from
\* the old file and given to the new one.
Swap(p) ==
    LET f == Order[(num[p] + 1) \div 2] IN
    /\ pc[p] = "swap"
    /\ fd' = [fd EXCEPT ![p] = [g \in Files |-> None]]
    /\ IF num[p] % 2 = 1
       THEN dir' = [dir EXCEPT ![f] = None] /\ tmp' = tmp
       ELSE /\ dir' = [dir EXCEPT ![f] = IF tmp[f] = None THEN @ ELSE tmp[f]]
            /\ tmp' = [tmp EXCEPT ![f] = None]
    /\ num' = [num EXCEPT ![p] = IF @ = 8 THEN 0 ELSE @ + 1]
    /\ pc' = [pc EXCEPT ![p] = IF num[p] = 8 THEN "closed" ELSE "swap"]
    /\ job' = [job EXCEPT ![p] = IF num[p] = 8 THEN "done" ELSE @]
    /\ Forget
    /\ UNCHANGED <<act, cur, bounds, history, mishap>>

-----------------------------------------------------------------------------
(* A user reads, one message after the other *)

\* JAM_Next() from the user's pointer, in the first session with the base ...
Next1(p) ==
    LET last == jlr[fd[p].jlr]
        later == {k \in DOMAIN Index(p) : /\ Index(p)[k] \in Undeleted(Hdrs(p))
                                          /\ Hdrs(p)[Index(p)[k]].num > last}
    IN IF act[p] = 0 \/ later = {} THEN 0
       ELSE Hdrs(p)[Index(p)[CHOOSE k \in later : \A j \in later : k <= j]].num

FindNext(p) ==
    /\ pc[p] = "open" /\ job[p] = "read"
    /\ IF Next1(p) = 0 THEN Done(p)
       ELSE /\ job' = [job EXCEPT ![p] = "show"]
            /\ num' = [num EXCEPT ![p] = Next1(p)]
            /\ cur' = [cur EXCEPT ![p] = IF Current(p) THEN swaps ELSE -1]
            /\ Close(p)
            /\ UNCHANGED <<bounds, stored, killed, astray>>
    /\ UNCHANGED <<seen, mishap>>

\* ... and Read_a_Msg() in the second: what has the number now is shown ...
Show(p) ==
    /\ pc[p] = "open" /\ job[p] = "show"
    /\ IF Find(p, num[p]) = {} THEN Done(p) /\ seen' = seen
       ELSE /\ seen' = seen \cup {Hdrs(p)[k].msg : k \in Find(p, num[p])}
            /\ job' = [job EXCEPT ![p] = "set"]
            /\ UNCHANGED <<dir, tmp, files, pc, fd, act, num, cur, bounds, stored, killed, astray>>
    /\ UNCHANGED mishap

\* ... and the number is the user's pointer from now on.
SetLastRead(p) ==
    /\ Goto(p, "locked", "unlock") /\ job[p] = "set"
    /\ jlr' = [jlr EXCEPT ![fd[p].jlr] = num[p]]
    /\ mishap' = IF cur[p] = swaps /\ Current(p) THEN mishap ELSE mishap \cup {"late"}
    /\ UNCHANGED <<dir, tmp, jhr, jdt, jdx, job, fd, act, num, cur, bounds, history>>

-----------------------------------------------------------------------------

\* What is left by a program killed at this place: an index entry without a
\* header, a header with bytes behind it, a count that is not right.
Leaves(at) == CASE at = "swap"          -> {"swap"}
                [] at = "header"        -> {"add", "entry"}
                [] at = "final"         -> {"add", "tail"}
                [] at \in {"text", "count"} -> {"add"}
                [] at = "deleted"       -> {"delete"}
                [] OTHER                -> {}

\* A program is killed: the system closes its files and frees its lock.
Crash(p) ==
    /\ pc[p] # "closed" /\ left.crash > 0
    /\ Close(p)
    /\ job' = [job EXCEPT ![p] = "none"]
    /\ num' = [num EXCEPT ![p] = 0] /\ cur' = [cur EXCEPT ![p] = 0]
    /\ left' = [left EXCEPT !.crash = @ - 1]
    /\ mishap' = mishap \cup Leaves(pc[p])
    /\ UNCHANGED <<msgs, swaps, history>>

Next == \E p \in Procs :
    \/ \E j \in {"add", "kill", "pack", "read"} : Start(p, j)
    \/ Again(p) \/ Create(p) \/ OpenNext(p) \/ Lock(p) \/ LockFails(p) \/ UnLock(p)
    \/ AddIndex(p) \/ AddHeader(p) \/ AddText(p) \/ AddFinal(p) \/ AddCount(p)
    \/ Delete(p) \/ DeleteCount(p) \/ Pack(p) \/ Swap(p)
    \/ FindNext(p) \/ Show(p) \/ SetLastRead(p) \/ Crash(p)

Spec == Init /\ [][Next]_vars

-----------------------------------------------------------------------------
(* Properties *)

Hit(what) == mishap \cap what # {}

\* What a program that opens the base now finds: headers by way of the index,
\* and the messages whose header is finished and leads to their text.
BaseHdrs == jhr[dir.jhr].hdrs
BaseTexts == jdt[dir.jdt]
Numbered == {k \in ToSet(jdx[dir.jdx]) : k \in Undeleted(BaseHdrs)}
Shown == {BaseHdrs[k] : k \in Numbered}
Whole(h) == h.done /\ h.txt \in DOMAIN BaseTexts /\ BaseTexts[h.txt] = h.msg

Exists == Swapping = {} /\ \A f \in Files : dir[f] # None
Busy == \E p \in Procs : pc[p] \in Adding \cup {"deleted"} /\ fd[p].jhr = dir.jhr

\* Where a header is need not be what its number and the index say: numbers
\* began again, an index entry was left without a header, or a message went to
\* files that were being exchanged.
Displaced == Hit({"restart", "entry"}) \/ astray # {}

\* A message whose writer was told that it is stored is there until somebody
\* deletes it, whoever adds, deletes and packs at the same time, also when
\* writers are killed between two writes.  Not so when its writer had opened
\* the files before a pack replaced them or while it did, when a program was
\* killed that exchanged the files or packed files it had opened before another
\* pack, and when a header was left without its end in a base in which headers
\* are not where their numbers and the index say.
MessagesKept ==
    Exists /\ ~Hit({"swap", "stalepack"}) /\ ~(Hit({"tail"}) /\ Displaced)
    => stored \ (killed \cup astray) \subseteq {h.msg : h \in {g \in Shown : Whole(g)}}

\* The header's count of messages, by which Highest and Next go, is that of the
\* messages that are not deleted, whenever nobody is at work on the base.  Not
\* when a program was killed between changing the messages and the count, or
\* wiped the count of a base it took for empty (598).
CountExact ==
    Exists /\ ~Busy /\ ~Hit({"swap", "stalepack", "wiped", "add", "delete"})
    => jhr[dir.jhr].active = Cardinality(Undeleted(BaseHdrs))

\* Numbers ascend along the index, so that each names one message and reading
\* on from a number misses none.  Not when a program numbered a message by a
\* count from before the first one was added (424), when a writer was killed
\* between the index entry and the header (192), so that the next number is that
\* of another header, or when a message went to files that were being exchanged.
Ascending ==
    Exists /\ astray = {} /\ ~Hit({"blind", "entry", "swap", "stalepack"})
    => \A k, l \in Numbered : k < l => BaseHdrs[k].num < BaseHdrs[l].num

IndexSound == TypeOK /\ CountExact /\ Ascending

\* Packing renumbers the messages and the user's pointer so that no message the
\* user has not read lies at or before the pointer.  Not when numbers began
\* again at one below it, after all messages were deleted, when a writer was
\* killed between index entry and header, when the user read by a number of
\* another base than the one the pointer is written to, or when a message went
\* to files that were being exchanged.
NothingSkipped ==
    Exists /\ astray = {} /\ ~Hit({"restart", "entry", "late", "swap", "stalepack"})
    => \A h \in Shown : h.num <= jlr[dir.jlr] => h.msg \in seen
=============================================================================
