--------------------------- MODULE InboundProofs ---------------------------
(***************************************************************************)
(* The directories of received mail, and who writes to them.  For any      *)
(* number of programs: lockdir() keeps them apart, and implements the      *)
(* exclusive lock, as long as no stale unlink removes a lock other than    *)
(* the one whose pid was read.  For any files, faults and sessions of      *)
(* binkp: what is received is written to a file that is open, and what is  *)
(* sent is in the list.                                                    *)
(***************************************************************************)
EXTENDS DirLock, Binkp, FiniteSetTheorems, SequenceTheorems, WellFoundedInduction, TLAPS

-----------------------------------------------------------------------------
(* The lock of a directory *)

\* A program is about to unlink LOCKFILE only if the program whose pid it
\* read has ended: a freed pid does not come back to the same program.
StaleOwnerEnded == \A p \in Procs : pc[p] = "unlink" => ~Running(oldpid[p])

\* A program that has linked LOCKFILE and has not unlinked it, or has seen
\* its own pid in it, finds its lock still there.
OwnerInLockfile == \A p \in Procs :
    pc[p] \in {"linked", "holding", "uunlink"} => lockfile = p

DirIInv == /\ DirTypes
           /\ ReadPid
           /\ StaleOwnerEnded
           /\ raced \/ OwnerInLockfile

-----------------------------------------------------------------------------

LEMMA InitDirIInv == DirInit => DirIInv
  BY NoProcAssumption
  DEF DirInit, DirIInv, DirTypes, PCs, ReadPid, StaleOwnerEnded, OwnerInLockfile

\* The steps that change neither LOCKFILE nor what was read from it.
LEMMA QuietStep ==
  ASSUME DirIInv,
         NEW p \in Procs,
         pc' \in [Procs -> PCs],
         \A q \in Procs : q # p => pc'[q] = pc[q],
         pc'[p] \notin {"probe", "unlink", "linked", "holding", "uunlink"}
           \/ (pc[p] = "linked" /\ pc'[p] = "holding")
           \/ (pc[p] = "uopen" /\ pc'[p] = "uunlink" /\ lockfile = p),
         pc[p] # "ended",
         tmpfile' \in [Procs -> BOOLEAN],
         UNCHANGED <<lockfile, oldpid, reused, raced>>
  PROVE  DirIInv'
  <1>1. DirTypes'
    BY DEF DirIInv, DirTypes
  <1>2. ReadPid'
    BY DEF DirIInv, ReadPid, DirTypes
  <1>3. StaleOwnerEnded'
    BY DEF DirIInv, ReadPid, StaleOwnerEnded, DirTypes, Running
  <1>4. raced' \/ OwnerInLockfile'
    BY DEF DirIInv, OwnerInLockfile, DirTypes
  <1> QED
    BY <1>1, <1>2, <1>3, <1>4 DEF DirIInv

LEMMA NextDirIInv == DirIInv /\ [DirNext]_dirVars => DirIInv'
  <1> SUFFICES ASSUME DirIInv, [DirNext]_dirVars
               PROVE  DirIInv'
    OBVIOUS
  <1> USE NoProcAssumption
  <1>1. ASSUME NEW p \in Procs, Call(p) \/ CallUnlock(p)
        PROVE  DirIInv'
    BY <1>1, QuietStep DEF Call, CallUnlock, Goto, DirIInv, DirTypes, PCs
  <1>2. ASSUME NEW p \in Procs, CreateTmp(p)
        PROVE  DirIInv'
    <2>1. CASE Goto(p, "create", "link")
      <3>1. pc' \in [Procs -> PCs] /\ tmpfile' \in [Procs -> BOOLEAN]
        BY <1>2, <2>1 DEF CreateTmp, Goto, DirIInv, DirTypes, PCs
      <3> QED
        BY <1>2, <2>1, <3>1, QuietStep DEF CreateTmp, Goto, DirIInv, DirTypes
    <2>2. CASE Goto(p, "create", "idle")
      <3>1. pc' \in [Procs -> PCs] /\ tmpfile' \in [Procs -> BOOLEAN]
        BY <1>2, <2>2 DEF CreateTmp, Goto, DirIInv, DirTypes, PCs
      <3> QED
        BY <1>2, <2>2, <3>1, QuietStep DEF CreateTmp, Goto, DirIInv, DirTypes
    <2> QED
      BY <1>2, <2>1, <2>2 DEF CreateTmp
  <1>3. ASSUME NEW p \in Procs, LinkExists(p) \/ ReadGone(p) \/ ProbeInUse(p)
        PROVE  DirIInv'
    BY <1>3, QuietStep
    DEF LinkExists, ReadGone, ProbeInUse, Goto, DirIInv, DirTypes, PCs
  <1>4. ASSUME NEW p \in Procs, Locked(p) \/ GiveUp(p)
        PROVE  DirIInv'
    <2>1. CASE Locked(p)
      <3>1. pc' \in [Procs -> PCs] /\ tmpfile' \in [Procs -> BOOLEAN]
        BY <2>1 DEF Locked, Goto, DirIInv, DirTypes, PCs
      <3> QED
        BY <2>1, <3>1, QuietStep DEF Locked, Goto, DirIInv, DirTypes
    <2>2. CASE GiveUp(p)
      <3>1. pc' \in [Procs -> PCs] /\ tmpfile' \in [Procs -> BOOLEAN]
        BY <2>2 DEF GiveUp, Goto, DirIInv, DirTypes, PCs
      <3> QED
        BY <2>2, <3>1, QuietStep DEF GiveUp, Goto, DirIInv, DirTypes
    <2> QED
      BY <1>4, <2>1, <2>2
  <1>5. ASSUME NEW p \in Procs, OwnLock(p) \/ NotOwnLock(p)
        PROVE  DirIInv'
    BY <1>5, QuietStep DEF OwnLock, NotOwnLock, Goto, DirIInv, DirTypes, PCs
  <1>6. ASSUME NEW p \in Procs, LinkOk(p)
        PROVE  DirIInv'
    <2>1. DirTypes'
      BY <1>6 DEF LinkOk, Goto, DirIInv, DirTypes, PCs
    <2>2. ReadPid'
      BY <1>6 DEF LinkOk, Goto, DirIInv, DirTypes, ReadPid
    <2>3. StaleOwnerEnded'
      BY <1>6 DEF LinkOk, Goto, DirIInv, DirTypes, ReadPid, StaleOwnerEnded, Running
    <2>4. raced' \/ OwnerInLockfile'
      BY <1>6 DEF LinkOk, Goto, DirIInv, DirTypes, OwnerInLockfile
    <2> QED
      BY <2>1, <2>2, <2>3, <2>4 DEF DirIInv
  <1>7. ASSUME NEW p \in Procs, ReadLock(p)
        PROVE  DirIInv'
    <2>1. DirTypes'
      BY <1>7 DEF ReadLock, Goto, DirIInv, DirTypes, PCs
    <2>2. ReadPid'
      BY <1>7 DEF ReadLock, Goto, DirIInv, DirTypes, ReadPid
    <2>3. StaleOwnerEnded'
      BY <1>7 DEF ReadLock, Goto, DirIInv, DirTypes, ReadPid, StaleOwnerEnded, Running
    <2>4. raced' \/ OwnerInLockfile'
      BY <1>7 DEF ReadLock, Goto, DirIInv, DirTypes, OwnerInLockfile
    <2> QED
      BY <2>1, <2>2, <2>3, <2>4 DEF DirIInv
  <1>8. ASSUME NEW p \in Procs, ProbeStale(p)
        PROVE  DirIInv'
    <2>1. DirTypes'
      BY <1>8 DEF ProbeStale, Goto, DirIInv, DirTypes, PCs
    <2>2. ReadPid'
      BY <1>8 DEF ProbeStale, Goto, DirIInv, DirTypes, ReadPid
    <2>3. StaleOwnerEnded'
      <3>1. ~Running(oldpid[p]) /\ oldpid[p] \in Procs
        BY <1>8 DEF ProbeStale, Goto, NoSuchProcess, DirIInv, ReadPid
      <3> QED
        BY <1>8, <3>1
        DEF ProbeStale, Goto, DirIInv, DirTypes, ReadPid, StaleOwnerEnded, Running
    <2>4. raced' \/ OwnerInLockfile'
      BY <1>8 DEF ProbeStale, Goto, DirIInv, DirTypes, OwnerInLockfile
    <2> QED
      BY <2>1, <2>2, <2>3, <2>4 DEF DirIInv
  <1>9. ASSUME NEW p \in Procs, UnlinkStale(p)
        PROVE  DirIInv'
    <2>1. DirTypes'
      BY <1>9 DEF UnlinkStale, Goto, DirIInv, DirTypes, PCs
    <2>2. ReadPid'
      BY <1>9 DEF UnlinkStale, Goto, DirIInv, DirTypes, ReadPid
    <2>3. StaleOwnerEnded'
      BY <1>9 DEF UnlinkStale, Goto, DirIInv, DirTypes, ReadPid, StaleOwnerEnded, Running
    <2>4. raced' \/ OwnerInLockfile'
      \* The owner that loses its lock has ended, so nobody holds it.
      <3> SUFFICES ASSUME ~raced', NEW q \in Procs,
                          pc'[q] \in {"linked", "holding", "uunlink"}
                   PROVE  FALSE
        BY DEF OwnerInLockfile
      <3>1. q # p /\ pc[q] = pc'[q]
        BY <1>9 DEF UnlinkStale, Goto, DirIInv, DirTypes
      <3>2. lockfile = q /\ lockfile \in {NoProc, oldpid[p]}
        BY <1>9, <3>1 DEF UnlinkStale, DirIInv, OwnerInLockfile
      <3>3. pc[oldpid[p]] = "ended"
        BY <1>9 DEF UnlinkStale, Goto, DirIInv, ReadPid, StaleOwnerEnded, Running
      <3> QED
        BY <3>1, <3>2, <3>3
    <2> QED
      BY <2>1, <2>2, <2>3, <2>4 DEF DirIInv
  <1>10. ASSUME NEW p \in Procs, UnlinkOwn(p)
         PROVE  DirIInv'
    <2>1. DirTypes'
      BY <1>10 DEF UnlinkOwn, Goto, DirIInv, DirTypes, PCs
    <2>2. ReadPid'
      BY <1>10 DEF UnlinkOwn, Goto, DirIInv, DirTypes, ReadPid
    <2>3. StaleOwnerEnded'
      BY <1>10 DEF UnlinkOwn, Goto, DirIInv, DirTypes, ReadPid, StaleOwnerEnded, Running
    <2>4. raced' \/ OwnerInLockfile'
      BY <1>10 DEF UnlinkOwn, Goto, DirIInv, DirTypes, OwnerInLockfile
    <2> QED
      BY <2>1, <2>2, <2>3, <2>4 DEF DirIInv
  <1>11. ASSUME NEW p \in Procs, Exit(p)
         PROVE  DirIInv'
    BY <1>11
    DEF Exit, DirIInv, DirTypes, PCs, ReadPid, StaleOwnerEnded, OwnerInLockfile, Running
  <1>12. ASSUME NEW p \in Procs, ReusePid(p) \/ FreePid(p)
         PROVE  DirIInv'
    BY <1>12
    DEF ReusePid, FreePid, DirIInv, DirTypes, PCs, ReadPid, StaleOwnerEnded,
        OwnerInLockfile, Running
  <1>13. CASE UNCHANGED dirVars
    BY <1>13
    DEF dirVars, DirIInv, DirTypes, PCs, ReadPid, StaleOwnerEnded, OwnerInLockfile, Running
  <1> QED
    BY <1>1, <1>2, <1>3, <1>4, <1>5, <1>6, <1>7, <1>8, <1>9, <1>10, <1>11,
       <1>12, <1>13
    DEF DirNext, LockStep, UnlockStep

LEMMA DirIInvHolds == DirSpec => []DirIInv
  BY InitDirIInv, NextDirIInv, PTL DEF DirSpec

\* The variables of lockdir() keep their types, whatever programs run.
THEOREM DirTypeOKHolds == DirSpec => []DirTypeOK
  <1>1. DirIInv => DirTypeOK
    BY DEF DirIInv, DirTypeOK
  <1> QED
    BY <1>1, DirIInvHolds, PTL

\* One program at a time works in the directory until a stale unlink hits a
\* lock other than the one that was read (lockdir, ulockdir).
THEOREM Exclusion == DirSpec => []ExclusiveUnlessRaced
  <1>1. DirIInv => ExclusiveUnlessRaced
    BY DEF DirIInv, ExclusiveUnlessRaced, Exclusive, OwnerInLockfile
  <1> QED
    BY <1>1, DirIInvHolds, PTL

\* Until then every step of lockdir and ulockdir is a step of the exclusive
\* lock, or leaves that lock as it is.
THEOREM Implementation == DirSpec => ImplementsLock
  <1> USE NoProcAssumption
  <1> DEFINE using == {p \in Procs : pc[p] \in {"linked", "holding"}}
  <1>1. DirInit => Lock!Init
    BY DEF DirInit, Lock!Init
  <1>2. DirIInv /\ [DirNext]_dirVars => [raced' \/ Lock!Next]_(Lock!vars)
    <2> SUFFICES ASSUME DirIInv, [DirNext]_dirVars, ~raced',
                        ~ UNCHANGED Lock!vars
                 PROVE  Lock!Next
      OBVIOUS
    <2>1. ASSUME NEW p \in Procs, LinkOk(p)
          PROVE  Lock!Acquire(p)
      <3>1. using' = using \cup {p}
        BY <2>1 DEF LinkOk, Goto, DirIInv, DirTypes
      <3> QED
        BY <2>1, <3>1 DEF LinkOk, Lock!Acquire
    <2>2. ASSUME NEW p \in Procs, UnlinkStale(p)
          PROVE  Lock!Free
      <3>1. using' = using /\ lockfile' = NoProc
        BY <2>2 DEF UnlinkStale, Goto, DirIInv, DirTypes
      <3>2. lockfile = oldpid[p]
        BY <2>2, <3>1 DEF UnlinkStale, Lock!vars
      <3>3. oldpid[p] \in Procs \ using
        BY <2>2 DEF UnlinkStale, Goto, DirIInv, ReadPid, StaleOwnerEnded, Running
      <3> QED
        BY <3>1, <3>2, <3>3 DEF Lock!Free
    <2>3. ASSUME NEW p \in Procs, UnlinkOwn(p)
          PROVE  Lock!Free
      <3>1. using' = using /\ lockfile' = NoProc
        BY <2>3 DEF UnlinkOwn, Goto, DirIInv, DirTypes
      <3>2. lockfile = p /\ p \in Procs \ using
        BY <2>3 DEF UnlinkOwn, Goto, DirIInv, OwnerInLockfile
      <3> QED
        BY <3>1, <3>2 DEF Lock!Free
    <2>4. ASSUME NEW p \in Procs, Exit(p) \/ CallUnlock(p)
          PROVE  Lock!Done(p)
      <3>1. using' = using \ {p} /\ lockfile' = lockfile
        BY <2>4 DEF Exit, CallUnlock, DirIInv, DirTypes
      <3>2. p \in using
        BY <3>1 DEF Lock!vars
      <3> QED
        BY <3>1, <3>2 DEF Lock!Done
    <2>5. ASSUME NEW p \in Procs,
                 \/ Call(p) \/ CreateTmp(p) \/ LinkExists(p) \/ Locked(p)
                 \/ ReadLock(p) \/ ReadGone(p) \/ ProbeStale(p) \/ ProbeInUse(p)
                 \/ GiveUp(p) \/ OwnLock(p) \/ NotOwnLock(p)
                 \/ ReusePid(p) \/ FreePid(p)
          PROVE  UNCHANGED Lock!vars
      <3>1. using' = using
        BY <2>5
        DEF Call, CreateTmp, LinkExists, Locked, ReadLock, ReadGone, ProbeStale,
            ProbeInUse, GiveUp, OwnLock, NotOwnLock, ReusePid, FreePid, Goto,
            DirIInv, DirTypes
      <3>2. lockfile' = lockfile
        BY <2>5
        DEF Call, CreateTmp, LinkExists, Locked, ReadLock, ReadGone, ProbeStale,
            ProbeInUse, GiveUp, OwnLock, NotOwnLock, ReusePid, FreePid
      <3> QED
        BY <3>1, <3>2 DEF Lock!vars
    <2>6. CASE UNCHANGED dirVars
      BY <2>6 DEF dirVars, Lock!vars
    <2> QED
      BY <2>1, <2>2, <2>3, <2>4, <2>5, <2>6
      DEF DirNext, LockStep, UnlockStep, Lock!Next
  <1> QED
    BY <1>1, <1>2, DirIInvHolds, PTL DEF DirSpec, ImplementsLock

-----------------------------------------------------------------------------
(* Binkp: what is in the tables *)

\* Frames that are about no file, and those about a block of a file.
Plain == {Frame(cmd) : cmd \in {"NUL", "EOB", "ERR", "BSY"}}
Whole == [cmd : {"FILE", "DATA", "GOT", "GET", "SKIP"}, file : Files, ver : Versions, off : Nat]
Filed == {m \in Whole : m.off < Blocks[m.file][m.ver]}
Frames == Plain \cup Filed
Answers == {m \in Filed : m.cmd \in {"GOT", "GET", "SKIP"}}

\* The entries of the list of files
States == {"No", "Sending", "IsSent", "Got", "Skipped"}
Entries == {e \in [file : Files, ver : Versions, st : States, off : Nat] :
               e.off < Blocks[e.file][e.ver]}

RxRecords == [st : {"WaitF", "ReceD", "Done"}, file : Files \cup {NoFile}, ver : Versions,
              fp : Files \cup {NoFile}, bytes : Nat, pos : Nat, crcerr : BOOLEAN]
TxRecords == [st : {"GNF", "TryR", "WLA", "Done"}, listed : BOOLEAN, cur : Nat, pos : Nat]

FilesTyped == /\ outbound \subseteq Files
              /\ version \in [Files -> Versions]
              /\ tmp \in [Files -> Seq(Files \X Versions)]

SideTyped == /\ ft \in [Peers -> {"Switch", "Transmit", "Process", "Deinit", "Done"}]
             /\ rc \in [Peers -> {"ok", "failed"}]
             /\ batch \in [Peers -> 0..MaxBatch]

NetTyped == /\ line \in {"up", "silent", "down"}
            /\ chan \in [Peers -> Seq(Frames)]
            /\ tql \in [Peers -> Seq(Answers)]

\* A file that is received is open, and blocks of it are to come.
Receiving == /\ rx \in [Peers -> RxRecords]
             /\ \A p \in Peers : rx[p].st = "ReceD" =>
                    /\ rx[p].fp # NoFile /\ rx[p].file # NoFile
                    /\ rx[p].pos < Blocks[rx[p].file][rx[p].ver]

\* A file that is sent has its place in the list.
Sending == /\ tx \in [Peers -> TxRecords]
           /\ bll \in [Peers -> Seq(Entries)]
           /\ \A p \in Peers : tx[p].st = "TryR" => tx[p].cur \in DOMAIN bll[p]

IInv == FilesTyped /\ SideTyped /\ NetTyped /\ Receiving /\ Sending

-----------------------------------------------------------------------------
(* Sides, numbers, frames *)

LEMMA Sides ==
  ASSUME NEW p \in Peers
  PROVE  Other(p) \in Peers /\ Other(p) # p /\ Peers = {p, Other(p)}
  <1>1. CASE p = "org"
    <2>1. \A q \in Peers : q # p <=> q = "ans"
      BY <1>1 DEF Peers
    <2> QED
      BY <1>1, <2>1 DEF Peers, Other
  <1>2. CASE p = "ans"
    <2>1. \A q \in Peers : q # p <=> q = "org"
      BY <1>2 DEF Peers
    <2> QED
      BY <1>2, <2>1 DEF Peers, Other
  <1> QED
    BY <1>1, <1>2 DEF Peers

\* There is a first one among numbers.
LEMMA FirstOne ==
  ASSUME NEW S, S \subseteq Nat, S # {}
  PROVE  (CHOOSE j \in S : \A k \in S : j <= k) \in S
  <1>1. PICK i \in S : \A j \in S : ~ (<<j, i>> \in OpToRel(<, Nat))
    BY NatLessThanWellFounded, WFMin
  <1>2. \A j \in S : i <= j
    <2> TAKE j \in S
    <2>1. i \in Nat /\ j \in Nat
      OBVIOUS
    <2>2. ~(j < i)
      BY <1>1, <2>1 DEF OpToRel
    <2> QED
      BY <2>1, <2>2
  <1> QED
    BY <1>2

LEMMA BlocksType ==
  ASSUME NEW f \in Files, NEW v \in Versions
  PROVE  Blocks[f][v] \in Nat /\ 0 < Blocks[f][v]
  BY FilesAssumption

LEMMA PlainFrame ==
  ASSUME NEW cmd \in {"NUL", "EOB", "ERR", "BSY"}
  PROVE  Frame(cmd) \in Frames
  BY DEF Plain, Frames

\* A frame that is about a file, from what it says.
LEMMA FiledFrame ==
  ASSUME NEW cmd \in {"FILE", "DATA", "GOT", "GET", "SKIP"},
         NEW f \in Files, NEW v \in Versions, NEW n \in Nat, n < Blocks[f][v]
  PROVE  [cmd |-> cmd, file |-> f, ver |-> v, off |-> n] \in Filed
  BY DEF Filed, Whole

LEMMA FramesAreRecords ==
  ASSUME NEW m \in Frames
  PROVE  /\ m = [cmd |-> m.cmd, file |-> m.file, ver |-> m.ver, off |-> m.off]
         /\ m.cmd \in {"FILE", "DATA", "GOT", "GET", "SKIP"} <=> m \in Filed
         /\ m \in Filed => /\ m.file \in Files /\ m.ver \in Versions /\ m.off \in Nat
                           /\ m.off < Blocks[m.file][m.ver]
  BY DEF Frames, Plain, Filed, Whole, Frame

\* An entry of a sequence is replaced.
LEMMA SeqReplaced ==
  ASSUME NEW S, NEW s \in Seq(S), NEW i \in DOMAIN s, NEW e \in S
  PROVE  /\ [s EXCEPT ![i] = e] \in Seq(S)
         /\ DOMAIN [s EXCEPT ![i] = e] = DOMAIN s
  <1>1. s \in [1..Len(s) -> S] /\ Len(s) \in Nat /\ DOMAIN s = 1..Len(s)
    BY ElementOfSeq, LenProperties
  <1>2. [s EXCEPT ![i] = e] \in [1..Len(s) -> S]
    BY <1>1
  <1>3. [s EXCEPT ![i] = e] \in Seq(S)
    BY <1>1, <1>2, SeqDef
  <1> QED
    BY <1>3

LEMMA NoFrames == <<>> \in Seq(Frames)
  OBVIOUS

LEMMA OneFrame ==
  ASSUME NEW S, NEW e \in S
  PROVE  <<e>> \in Seq(S) /\ <<>> \in Seq(S)
  OBVIOUS

-----------------------------------------------------------------------------
(* The first frame, and what is sent *)

LEMMA HeadFrame ==
  ASSUME IInv, NEW p \in Peers, chan[p] # <<>>
  PROVE  Head(chan[p]) \in Frames
  <1>1. chan[p] \in Seq(Frames)
    BY DEF IInv, NetTyped
  <1> QED
    BY <1>1, HeadTailProperties

LEMMA CarriedTyped ==
  ASSUME NEW p \in Peers, NEW out \in Seq(Frames)
  PROVE  Carried(p, out) \in Seq(Frames)
  BY DEF Carried

LEMMA AnswerTyped ==
  ASSUME IInv, NEW p \in Peers, chan[p] # <<>>, NEW reply \in Seq(Frames), Answer(p, reply)
  PROVE  chan' \in [Peers -> Seq(Frames)]
  <1>1. chan \in [Peers -> Seq(Frames)]
    BY DEF IInv, NetTyped
  <1>2. Tail(chan[p]) \in Seq(Frames)
    BY <1>1, HeadTailProperties
  <1>3. chan[Other(p)] \o Carried(p, reply) \in Seq(Frames)
    BY <1>1, Sides, CarriedTyped, ConcatProperties
  <1>4. Other(p) # p /\ Other(p) \in Peers
    BY Sides
  <1>5. chan' = [chan EXCEPT ![p] = Tail(chan[p]),
                             ![Other(p)] = chan[Other(p)] \o Carried(p, reply)]
    BY <1>1, <1>4 DEF Answer
  <1> QED
    BY <1>1, <1>2, <1>3, <1>5

LEMMA SendsTyped ==
  ASSUME IInv, NEW p \in Peers, NEW out \in Seq(Frames), NEW state, Sends(p, out, state)
  PROVE  chan' \in [Peers -> Seq(Frames)]
  <1>1. chan \in [Peers -> Seq(Frames)]
    BY DEF IInv, NetTyped
  <1>2. chan[Other(p)] \o Carried(p, out) \in Seq(Frames)
    BY <1>1, Sides, CarriedTyped, ConcatProperties
  <1> QED
    BY <1>1, <1>2 DEF Sends

-----------------------------------------------------------------------------
(* The receiver *)

LEMMA AnsweredOk ==
  ASSUME IInv, NEW p \in Peers, chan[p] # <<>>, NEW reply \in Seq(Frames),
         AnswerOk(p, reply), line' = line, tql' \in [Peers -> Seq(Answers)]
  PROVE  SideTyped' /\ NetTyped' /\ Sending'
  <1>1. chan' \in [Peers -> Seq(Frames)]
    BY AnswerTyped DEF AnswerOk
  <1>2. NetTyped'
    BY <1>1 DEF IInv, NetTyped
  <1>3. SideTyped'
    BY DEF IInv, SideTyped, AnswerOk
  <1>4. Sending'
    BY DEF IInv, Sending, AnswerOk
  <1> QED
    BY <1>2, <1>3, <1>4

LEMMA AnsweredFailure ==
  ASSUME IInv, NEW p \in Peers, chan[p] # <<>>, NEW reply \in Seq(Frames),
         AnswerFailure(p, reply), UNCHANGED <<line, tql>>
  PROVE  SideTyped' /\ NetTyped' /\ Sending'
  <1>1. chan' \in [Peers -> Seq(Frames)]
    BY AnswerTyped DEF AnswerFailure
  <1>2. NetTyped'
    BY <1>1 DEF IInv, NetTyped
  <1>3. SideTyped'
    BY DEF IInv, SideTyped, AnswerFailure, Broken
  <1>4. Sending'
    BY DEF IInv, Sending, AnswerFailure
  <1> QED
    BY <1>2, <1>3, <1>4

LEMMA FilesStay ==
  ASSUME FilesTyped, UNCHANGED fileVars
  PROVE  FilesTyped'
  BY DEF FilesTyped, fileVars

\* The receiver gets another state, in which it does not wait for data.
LEMMA NotReceiving ==
  ASSUME Receiving, NEW p \in Peers, NEW r \in RxRecords, r.st # "ReceD",
         rx' = [rx EXCEPT ![p] = r]
  PROVE  Receiving'
  BY DEF Receiving

LEMMA RxDone ==
  ASSUME Receiving, NEW p \in Peers, rx' = [rx EXCEPT ![p].st = "Done"]
  PROVE  Receiving'
  <1>1. [rx[p] EXCEPT !.st = "Done"] \in RxRecords
    BY DEF Receiving, RxRecords
  <1>2. rx' = [rx EXCEPT ![p] = [rx[p] EXCEPT !.st = "Done"]]
    BY DEF Receiving
  <1> HIDE DEF RxRecords
  <1> QED
    BY <1>1, <1>2, NotReceiving DEF RxRecords

LEMMA RxIgnoreIInv ==
  ASSUME IInv, NEW p \in Peers, RxIgnore(p)
  PROVE  IInv'
  <1>1. chan[p] # <<>> /\ AnswerOk(p, <<>>) /\ UNCHANGED <<rx, tql, fileVars, line>>
    BY DEF RxIgnore, Polls
  <1>2. SideTyped' /\ NetTyped' /\ Sending'
    BY <1>1, NoFrames, AnsweredOk DEF IInv, NetTyped
  <1> QED
    BY <1>1, <1>2, FilesStay DEF IInv, Receiving

LEMMA RxAddMessageIInv ==
  ASSUME IInv, NEW p \in Peers, RxAddMessage(p)
  PROVE  IInv'
  <1>1. /\ chan[p] # <<>> /\ AnswerOk(p, <<>>) /\ UNCHANGED <<rx, fileVars, line>>
        /\ Head(chan[p]).cmd \in {"GET", "GOT", "SKIP"}
        /\ tql' = [tql EXCEPT ![p] = Append(tql[p], Head(chan[p]))]
    BY DEF RxAddMessage, Polls, IInv, NetTyped
  <1>2. Head(chan[p]) \in Answers
    <2>1. Head(chan[p]) \in Frames
      BY <1>1, HeadFrame
    <2>2. Head(chan[p]) \in Filed
      BY <1>1, <2>1, FramesAreRecords
    <2> QED
      BY <1>1, <2>2 DEF Answers
  <1>3. tql' \in [Peers -> Seq(Answers)]
    <2>1. tql \in [Peers -> Seq(Answers)]
      BY DEF IInv, NetTyped
    <2>2. Append(tql[p], Head(chan[p])) \in Seq(Answers)
      BY <1>2, <2>1, AppendProperties
    <2> QED
      BY <1>1, <2>1, <2>2
  <1>4. SideTyped' /\ NetTyped' /\ Sending'
    BY <1>1, <1>3, NoFrames, AnsweredOk
  <1> QED
    BY <1>1, <1>4, FilesStay DEF IInv, Receiving

LEMMA NewBatchTyped ==
  ASSUME IInv, NEW p \in Peers, NewBatch(p), UNCHANGED <<ft, rc>>
  PROVE  SideTyped' /\ Receiving' /\ Sending'
  <1>1. SideTyped'
    BY FilesAssumption DEF IInv, SideTyped, NewBatch
  <1>2. Receiving'
    <2>1. rx \in [Peers -> RxRecords] /\ rx' = [rx EXCEPT ![p].st = "WaitF"]
      BY DEF IInv, Receiving, NewBatch
    <2>2. [rx[p] EXCEPT !.st = "WaitF"] \in RxRecords /\ [rx[p] EXCEPT !.st = "WaitF"].st = "WaitF"
      BY <2>1 DEF RxRecords
    <2> QED
      BY <2>1, <2>2, NotReceiving DEF IInv
  <1>3. Sending'
    <2>1. tx' = [tx EXCEPT ![p] = [tx[p] EXCEPT !.st = "GNF", !.listed = FALSE]]
      BY DEF NewBatch, IInv, Sending
    <2>2. [tx[p] EXCEPT !.st = "GNF", !.listed = FALSE] \in TxRecords
      BY DEF IInv, Sending, TxRecords
    <2>3. bll' = [bll EXCEPT ![p] = <<>>] /\ <<>> \in Seq(Entries)
      BY DEF NewBatch
    <2> QED
      BY <2>1, <2>2, <2>3 DEF IInv, Sending
  <1> QED
    BY <1>1, <1>2, <1>3

LEMMA RxEobIInv ==
  ASSUME IInv, NEW p \in Peers, RxEob(p)
  PROVE  IInv'
  <1>1. chan[p] # <<>> /\ UNCHANGED <<tql, fileVars, line>>
    BY DEF RxEob, Polls
  <1>2. CASE NewBatch(p) /\ chan' = [chan EXCEPT ![p] = Tail(@)] /\ UNCHANGED <<ft, rc>>
    <2>1. SideTyped' /\ Receiving' /\ Sending'
      BY <1>2, NewBatchTyped
    <2>2. Tail(chan[p]) \in Seq(Frames)
      BY <1>1, HeadTailProperties DEF IInv, NetTyped
    <2>3. NetTyped'
      BY <1>1, <1>2, <2>2 DEF IInv, NetTyped
    <2> QED
      BY <1>1, <2>1, <2>3, FilesStay DEF IInv
  <1>3. CASE AnswerOk(p, <<>>) /\ UNCHANGED rx
    <2>1. SideTyped' /\ NetTyped' /\ Sending'
      BY <1>1, <1>3, NoFrames, AnsweredOk DEF IInv, NetTyped
    <2> QED
      BY <1>1, <1>3, <2>1, FilesStay DEF IInv, Receiving
  <1> QED
    BY <1>2, <1>3 DEF RxEob

LEMMA RxUnexpectedIInv ==
  ASSUME IInv, NEW p \in Peers, RxUnexpected(p)
  PROVE  IInv'
  <1>1. /\ chan[p] # <<>> /\ AnswerFailure(p, <<>>) /\ UNCHANGED <<tql, fileVars, line>>
        /\ rx' = [rx EXCEPT ![p].st = "Done"]
    BY DEF RxUnexpected, Polls, Offered
  <1>2. SideTyped' /\ NetTyped' /\ Sending'
    BY <1>1, NoFrames, AnsweredFailure
  <1> QED
    BY <1>1, <1>2, FilesStay, RxDone DEF IInv

\* What is offered
LEMMA OfferTyped ==
  ASSUME IInv, NEW p \in Peers, NEW m \in Offers(p)
  PROVE  /\ chan[p] # <<>> /\ m = Head(chan[p]) /\ m \in Filed
         /\ ~NotOpen(p, m)
  <1>1. chan[p] # <<>> /\ m = Head(chan[p]) /\ m.cmd = "FILE" /\ ~NotOpen(p, m)
    BY DEF Offers, Offered, Polls
  <1>2. m \in Frames
    BY <1>1, HeadFrame
  <1> QED
    BY <1>1, <1>2, FramesAreRecords

LEMMA RxLowDiskIInv ==
  ASSUME IInv, NEW p \in Peers, RxLowDisk(p)
  PROVE  IInv'
  <1>1. /\ Offers(p) # {} /\ AnswerFailure(p, <<Frame("BSY")>>)
        /\ UNCHANGED <<tql, fileVars, line>>
        /\ rx' = [rx EXCEPT ![p].st = "Done"]
    BY DEF RxLowDisk
  <1>2. chan[p] # <<>>
    BY <1>1, OfferTyped
  <1>3. <<Frame("BSY")>> \in Seq(Frames)
    BY PlainFrame, OneFrame
  <1>4. SideTyped' /\ NetTyped' /\ Sending'
    BY <1>1, <1>2, <1>3, AnsweredFailure
  <1> QED
    BY <1>1, <1>4, FilesStay, RxDone DEF IInv

\* The receiver after an offer
LEMMA AcceptedTyped ==
  ASSUME IInv, NEW p \in Peers, NEW m \in Offers(p),
         NEW st \in {"WaitF", "ReceD"}, NEW fp \in Files \cup {NoFile},
         st = "ReceD" => fp # NoFile, Accepted(p, m, st, fp)
  PROVE  Receiving'
  <1> DEFINE r == [rx[p] EXCEPT !.st = st, !.fp = fp, !.file = m.file,
                                !.ver = m.ver, !.bytes = Had(p, m), !.pos = m.off]
  <1>1. m \in Filed
    BY OfferTyped
  <1>2. m.file \in Files /\ m.ver \in Versions /\ m.off \in Nat /\ m.off < Blocks[m.file][m.ver]
    BY <1>1 DEF Filed, Whole
  <1>3. Had(p, m) \in Nat
    <2>1. rx[p].bytes \in Nat
      BY DEF IInv, Receiving, RxRecords
    <2>2. tmp[m.file] \in Seq(Files \X Versions)
      BY <1>2 DEF IInv, FilesTyped
    <2> QED
      BY <2>1, <2>2, LenProperties DEF Had
  <1>4. r \in RxRecords
    BY <1>2, <1>3 DEF IInv, Receiving, RxRecords
  <1>5. rx' = [rx EXCEPT ![p] = r]
    BY DEF Accepted, IInv, Receiving
  <1>6. r.st = st /\ r.fp = fp /\ r.file = m.file /\ r.ver = m.ver /\ r.pos = m.off
    BY DEF IInv, Receiving, RxRecords
  <1> HIDE DEF r
  <1>7. ASSUME NEW q \in Peers, rx'[q].st = "ReceD"
        PROVE  /\ rx'[q].fp # NoFile /\ rx'[q].file # NoFile
               /\ rx'[q].pos < Blocks[rx'[q].file][rx'[q].ver]
    <2>1. CASE q = p
      <3>1. rx'[q] = r
        BY <1>5, <2>1 DEF IInv, Receiving
      <3> QED
        BY <1>2, <1>6, <1>7, <3>1, FilesAssumption
    <2>2. CASE q # p
      <3>1. rx'[q] = rx[q]
        BY <1>5, <2>2 DEF IInv, Receiving
      <3> QED
        BY <1>7, <3>1 DEF IInv, Receiving
    <2> QED
      BY <2>1, <2>2
  <1> QED
    BY <1>4, <1>5, <1>7 DEF IInv, Receiving

LEMMA RxFileIInv ==
  ASSUME IInv, NEW p \in Peers, RxFile(p)
  PROVE  IInv'
  <1>1. PICK m \in Offers(p), full \in BOOLEAN :
       LET size == Blocks[m.file][m.ver]
           had  == Had(p, m)
           fp   == IF full THEN NoFile ELSE IF Resumes(p, m) THEN Open(p) ELSE m.file
       IN  /\ \/ /\ Accepted(p, m, "WaitF", NoFile)
                 /\ AnswerOk(p, <<About("GOT", m)>>)
              \/ /\ had < size /\ had > 0
                 /\ Accepted(p, m, "WaitF", fp)
                 /\ AnswerOk(p, <<[About("GET", m) EXCEPT !.off = had]>>)
              \/ /\ Accepted(p, m, IF full THEN "WaitF" ELSE "ReceD", fp)
                 /\ AnswerOk(p, IF full THEN <<About("SKIP", m)>> ELSE <<>>)
           /\ UNCHANGED <<tql, fileVars, line>>
    BY DEF RxFile
  <1> DEFINE fp == IF full THEN NoFile ELSE IF Resumes(p, m) THEN Open(p) ELSE m.file
             had == Had(p, m)
  <1>2. chan[p] # <<>> /\ m \in Filed /\ ~NotOpen(p, m)
    BY OfferTyped
  <1>3. /\ m.file \in Files /\ m.ver \in Versions /\ m.off \in Nat
        /\ m.off < Blocks[m.file][m.ver]
        /\ m = [cmd |-> m.cmd, file |-> m.file, ver |-> m.ver, off |-> m.off]
    BY <1>2 DEF Filed, Whole
  <1>4. fp \in Files \cup {NoFile} /\ (~full => fp # NoFile)
    <2>1. Open(p) \in Files \cup {NoFile}
      BY DEF Open, IInv, Receiving, RxRecords
    <2>2. Resumes(p, m) => Open(p) # NoFile
      BY <1>2 DEF NotOpen
    <2> QED
      BY <1>3, <2>1, <2>2, FilesAssumption
  <1>5. About("GOT", m) \in Filed /\ About("SKIP", m) \in Filed
    BY <1>3, FiledFrame DEF About
  <1> HIDE DEF fp
  <1>6. CASE Accepted(p, m, "WaitF", NoFile) /\ AnswerOk(p, <<About("GOT", m)>>)
    <2>1. Receiving'
      BY <1>6, AcceptedTyped
    <2>2. <<About("GOT", m)>> \in Seq(Frames)
      BY <1>5, OneFrame DEF Frames
    <2>3. SideTyped' /\ NetTyped' /\ Sending'
      BY <1>1, <1>2, <1>6, <2>2, AnsweredOk DEF IInv, NetTyped
    <2> QED
      BY <1>1, <2>1, <2>3, FilesStay DEF IInv
  <1>7. CASE /\ had < Blocks[m.file][m.ver] /\ had > 0
             /\ Accepted(p, m, "WaitF", fp)
             /\ AnswerOk(p, <<[About("GET", m) EXCEPT !.off = had]>>)
    <2>1. Receiving'
      BY <1>4, <1>7, AcceptedTyped
    <2>2. had \in Nat
      <3>1. rx[p].bytes \in Nat
        BY DEF IInv, Receiving, RxRecords
      <3>2. tmp[m.file] \in Seq(Files \X Versions)
        BY <1>3 DEF IInv, FilesTyped
      <3> QED
        BY <3>1, <3>2, LenProperties DEF Had
    <2> HIDE DEF had
    <2>3. [About("GET", m) EXCEPT !.off = had] =
              [cmd |-> "GET", file |-> m.file, ver |-> m.ver, off |-> had]
      <3>1. About("GET", m) = [cmd |-> "GET", file |-> m.file, ver |-> m.ver, off |-> m.off]
        BY <1>2 DEF About, Filed, Whole
      <3> QED
        BY <3>1
    <2>4. [About("GET", m) EXCEPT !.off = had] \in Filed
      BY <1>3, <1>7, <2>2, <2>3, FiledFrame
    <2>5. <<[About("GET", m) EXCEPT !.off = had]>> \in Seq(Frames)
      BY <2>4, OneFrame DEF Frames
    <2>6. SideTyped' /\ NetTyped' /\ Sending'
      BY <1>1, <1>2, <1>7, <2>5, AnsweredOk DEF IInv, NetTyped
    <2> QED
      BY <1>1, <2>1, <2>6, FilesStay DEF IInv
  <1>8. CASE /\ Accepted(p, m, IF full THEN "WaitF" ELSE "ReceD", fp)
             /\ AnswerOk(p, IF full THEN <<About("SKIP", m)>> ELSE <<>>)
    <2>1. Receiving'
      BY <1>4, <1>8, AcceptedTyped
    <2>2. (IF full THEN <<About("SKIP", m)>> ELSE <<>>) \in Seq(Frames)
      BY <1>5, OneFrame DEF Frames
    <2>3. SideTyped' /\ NetTyped' /\ Sending'
      BY <1>1, <1>2, <1>8, <2>2, AnsweredOk DEF IInv, NetTyped
    <2> QED
      BY <1>1, <2>1, <2>3, FilesStay DEF IInv
  <1> QED
    BY <1>1, <1>6, <1>7, <1>8 DEF fp

\* A block is received.
LEMMA DataTyped ==
  ASSUME IInv, NEW p \in Peers, Receives(p)
  PROVE  /\ chan[p] # <<>> /\ UNCHANGED <<outbound, version, tql, line>>
         /\ rx[p].st = "ReceD" /\ rx[p].fp \in Files /\ rx[p].file \in Files
         /\ rx[p].ver \in Versions /\ rx[p].pos \in Nat
         /\ rx[p].pos < Blocks[rx[p].file][rx[p].ver]
         /\ Append(tmp[rx[p].fp], <<Head(chan[p]).file, Head(chan[p]).ver>>)
                \in Seq(Files \X Versions)
  <1>1. /\ chan[p] # <<>> /\ UNCHANGED <<outbound, version, tql, line>>
        /\ rx[p].st = "ReceD" /\ Head(chan[p]).cmd = "DATA"
    BY DEF Receives, Polls
  <1>2. /\ rx[p].fp \in Files /\ rx[p].file \in Files
        /\ rx[p].ver \in Versions /\ rx[p].pos \in Nat
        /\ rx[p].pos < Blocks[rx[p].file][rx[p].ver]
    BY <1>1 DEF IInv, Receiving, RxRecords
  <1>3. Head(chan[p]) \in Frames
    BY <1>1, HeadFrame
  <1>4. <<Head(chan[p]).file, Head(chan[p]).ver>> \in Files \X Versions
    BY <1>1, <1>3, FramesAreRecords
  <1>5. tmp[rx[p].fp] \in Seq(Files \X Versions)
    BY <1>2 DEF IInv, FilesTyped
  <1>6. Append(tmp[rx[p].fp], <<Head(chan[p]).file, Head(chan[p]).ver>>)
                \in Seq(Files \X Versions)
    BY <1>4, <1>5, AppendProperties
  <1> QED
    BY <1>1, <1>2, <1>6

\* A frame about a block or the whole of a file, made of an empty one
LEMMA AboutFile ==
  ASSUME NEW cmd, NEW f, NEW v
  PROVE  [Frame(cmd) EXCEPT !.file = f, !.ver = v] =
            [cmd |-> cmd, file |-> f, ver |-> v, off |-> 0]
  <1> DEFINE a == [cmd |-> cmd, file |-> NoFile, ver |-> 1, off |-> 0]
             b == [cmd |-> cmd, file |-> f, ver |-> 1, off |-> 0]
             c == [cmd |-> cmd, file |-> f, ver |-> v, off |-> 0]
  <1>1. Frame(cmd) = a
    BY DEF Frame
  <1>2. [a EXCEPT !.file = f] = b
    OBVIOUS
  <1>3. [b EXCEPT !.ver = v] = c
    OBVIOUS
  <1> HIDE DEF a, b, c
  <1>4. [a EXCEPT !.file = f, !.ver = v] = [[a EXCEPT !.file = f] EXCEPT !.ver = v]
    OBVIOUS
  <1>5. [Frame(cmd) EXCEPT !.file = f, !.ver = v] = c
    BY <1>1, <1>2, <1>3, <1>4
  <1> QED
    BY <1>5 DEF c

\* What the receiver answers when a file is complete or damaged
LEMMA Reply ==
  ASSUME NEW cmd \in {"GOT", "SKIP"}, NEW f \in Files, NEW v \in Versions
  PROVE  <<[Frame(cmd) EXCEPT !.file = f, !.ver = v]>> \in Seq(Frames)
  <1>1. [Frame(cmd) EXCEPT !.file = f, !.ver = v] =
            [cmd |-> cmd, file |-> f, ver |-> v, off |-> 0]
    BY AboutFile
  <1>2. [Frame(cmd) EXCEPT !.file = f, !.ver = v] \in Frames
    BY <1>1, BlocksType, FiledFrame DEF Frames
  <1> QED
    BY <1>2, OneFrame

LEMMA RxDataIInv ==
  ASSUME IInv, NEW p \in Peers, RxData(p)
  PROVE  IInv'
  <1> DEFINE r    == rx[p]
             m    == Head(chan[p])
             have == Append(tmp[r.fp], <<m.file, m.ver>>)
             last == r.pos + 1 = Blocks[r.file][r.ver]
  <1>1. /\ Receives(p)
        /\ rx' = [rx EXCEPT ![p].pos = @ + 1, ![p].st = IF last THEN "WaitF" ELSE "ReceD"]
        /\ \/ ~last /\ tmp' = [tmp EXCEPT ![r.fp] = have] /\ AnswerOk(p, <<>>)
           \/ /\ tmp' = [tmp EXCEPT ![r.fp] = <<>>] \/ tmp' = [tmp EXCEPT ![r.fp] = have]
              /\ AnswerOk(p, <<[Frame("GOT") EXCEPT !.file = r.file, !.ver = r.ver]>>)
    BY DEF RxData
  <1>2. /\ chan[p] # <<>> /\ UNCHANGED <<outbound, version, tql, line>>
        /\ r.st = "ReceD" /\ r.fp \in Files /\ r.file \in Files
        /\ r.ver \in Versions /\ r.pos \in Nat
        /\ r.pos < Blocks[r.file][r.ver]
        /\ have \in Seq(Files \X Versions)
    BY <1>1, DataTyped
  <1>3. FilesTyped'
    <2>1. tmp \in [Files -> Seq(Files \X Versions)] /\ <<>> \in Seq(Files \X Versions)
      BY DEF IInv, FilesTyped
    <2> HIDE DEF have, r
    <2>2. tmp' \in [Files -> Seq(Files \X Versions)]
      BY <1>1, <1>2, <2>1
    <2> QED
      BY <1>2, <2>2 DEF IInv, FilesTyped
  <1>4. Receiving'
    <2> DEFINE st == IF last THEN "WaitF" ELSE "ReceD"
               s  == [rx[p] EXCEPT !.pos = rx[p].pos + 1, !.st = st]
    <2>1. rx \in [Peers -> RxRecords] /\ st \in {"WaitF", "ReceD", "Done"}
      BY DEF IInv, Receiving
    <2>2. rx' = [rx EXCEPT ![p] = s]
      BY <1>1, <2>1
    <2>3. st = "ReceD" => ~last
      OBVIOUS
    <2> HIDE DEF st, last
    <2>4. /\ s \in RxRecords
          /\ s.fp = r.fp /\ s.file = r.file /\ s.ver = r.ver /\ s.pos = r.pos + 1
          /\ s.st = st
      <3>1. rx[p].pos + 1 \in Nat
        BY <1>2
      <3>2. rx[p] \in RxRecords
        BY <2>1
      <3> QED
        BY <2>1, <3>1, <3>2 DEF RxRecords
    <2>5. s.st = "ReceD" => s.pos < Blocks[s.file][s.ver]
      <3>1. Blocks[r.file][r.ver] \in Nat
        BY <1>2, BlocksType
      <3> QED
        BY <1>2, <2>3, <2>4, <3>1 DEF last
    <2>6. s.fp # NoFile /\ s.file # NoFile
      BY <1>2, <2>4, FilesAssumption
    <2> HIDE DEF s
    <2> QED
      BY <2>1, <2>2, <2>4, <2>5, <2>6 DEF IInv, Receiving
  <1>5. SideTyped' /\ NetTyped' /\ Sending'
    <2>1. tql' \in [Peers -> Seq(Answers)] /\ line' = line
      BY <1>2 DEF IInv, NetTyped
    <2>2. PICK reply \in Seq(Frames) : AnswerOk(p, reply)
      BY <1>1, <1>2, NoFrames, Reply
    <2> QED
      BY <1>2, <2>1, <2>2, AnsweredOk
  <1> QED
    BY <1>3, <1>4, <1>5 DEF IInv

LEMMA RxDamagedIInv ==
  ASSUME IInv, NEW p \in Peers, RxDamaged(p)
  PROVE  IInv'
  <1> DEFINE r == rx[p]
  <1>1. /\ Receives(p)
        /\ tmp' = [tmp EXCEPT ![r.fp] = <<>>]
        /\ rx' = [rx EXCEPT ![p].crcerr = TRUE, ![p].st = IF r.crcerr THEN "Done" ELSE "WaitF"]
        /\ \/ AnswerFailure(p, <<Frame("ERR")>>)
           \/ AnswerOk(p, <<[Frame("SKIP") EXCEPT !.file = r.file, !.ver = r.ver]>>)
    BY DEF RxDamaged
  <1>2. /\ chan[p] # <<>> /\ UNCHANGED <<outbound, version, tql, line>>
        /\ r.fp \in Files /\ r.file \in Files /\ r.ver \in Versions
    BY <1>1, DataTyped
  <1>3. FilesTyped'
    <2>1. <<>> \in Seq(Files \X Versions)
      OBVIOUS
    <2> QED
      BY <1>1, <1>2, <2>1 DEF IInv, FilesTyped
  <1>4. Receiving'
    <2> DEFINE s == [rx[p] EXCEPT !.crcerr = TRUE, !.st = IF r.crcerr THEN "Done" ELSE "WaitF"]
    <2>1. rx' = [rx EXCEPT ![p] = s] /\ s \in RxRecords /\ s.st # "ReceD"
      BY <1>1 DEF IInv, Receiving, RxRecords
    <2> QED
      BY <2>1, NotReceiving DEF IInv
  <1>5. SideTyped' /\ NetTyped' /\ Sending'
    <2>1. tql' \in [Peers -> Seq(Answers)] /\ line' = line
      BY <1>2 DEF IInv, NetTyped
    <2>2. CASE AnswerFailure(p, <<Frame("ERR")>>)
      <3>1. <<Frame("ERR")>> \in Seq(Frames)
        BY PlainFrame, OneFrame
      <3> QED
        BY <1>2, <2>2, <3>1, AnsweredFailure
    <2>3. CASE AnswerOk(p, <<[Frame("SKIP") EXCEPT !.file = r.file, !.ver = r.ver]>>)
      <3>1. <<[Frame("SKIP") EXCEPT !.file = r.file, !.ver = r.ver]>> \in Seq(Frames)
        BY <1>2, Reply
      <3> QED
        BY <1>2, <2>1, <2>3, <3>1, AnsweredOk
    <2> QED
      BY <1>1, <2>2, <2>3
  <1> QED
    BY <1>3, <1>4, <1>5 DEF IInv

LEMMA RxWriteErrorIInv ==
  ASSUME IInv, NEW p \in Peers, RxWriteError(p)
  PROVE  IInv'
  <1>1. /\ Receives(p) /\ AnswerFailure(p, <<>>) /\ tmp' = tmp
        /\ rx' = [rx EXCEPT ![p].st = "Done"]
    BY DEF RxWriteError
  <1>2. chan[p] # <<>> /\ UNCHANGED <<outbound, version, tql, line>>
    BY <1>1, DataTyped
  <1>3. SideTyped' /\ NetTyped' /\ Sending'
    BY <1>1, <1>2, NoFrames, AnsweredFailure
  <1>4. FilesTyped'
    BY <1>1, <1>2 DEF IInv, FilesTyped
  <1> QED
    BY <1>1, <1>3, <1>4, RxDone DEF IInv

\* The session is broken off.
LEMMA BrokenIInv ==
  ASSUME IInv, NEW p \in Peers, Broken(p),
         UNCHANGED <<fileVars, line, chan, rx, tx, bll, tql, eob, messages, batch>>
  PROVE  IInv'
  <1>1. SideTyped'
    BY DEF IInv, SideTyped, Broken
  <1>2. FilesTyped'
    BY FilesStay DEF IInv
  <1> QED
    BY <1>1, <1>2 DEF IInv, NetTyped, Receiving, Sending

LEMMA ReceiverIInv ==
  ASSUME IInv, NEW p \in Peers, Receiver(p)
  PROVE  IInv'
  <1>1. CASE RxHangup(p)
    BY <1>1, BrokenIInv DEF RxHangup
  <1> QED
    BY <1>1, RxIgnoreIInv, RxAddMessageIInv, RxEobIInv, RxUnexpectedIInv, RxFileIInv,
       RxLowDiskIInv, RxDataIInv, RxDamagedIInv, RxWriteErrorIInv DEF Receiver

-----------------------------------------------------------------------------
(* The transmitter *)

\* What one side sends leaves the tables of the receiver alone.
LEMMA SentTyped ==
  ASSUME IInv, NEW p \in Peers, NEW out \in Seq(Frames),
         NEW state \in {"Transmit", "Switch"}, Sends(p, out, state),
         UNCHANGED <<fileVars, tql, batch>>
  PROVE  FilesTyped' /\ SideTyped' /\ NetTyped' /\ Receiving'
  <1>1. chan' \in [Peers -> Seq(Frames)]
    BY SendsTyped
  <1>2. NetTyped'
    BY <1>1 DEF Sends, IInv, NetTyped
  <1>3. SideTyped'
    BY DEF Sends, IInv, SideTyped
  <1>4. Receiving'
    BY DEF Sends, IInv, Receiving
  <1> QED
    BY <1>2, <1>3, <1>4, FilesStay DEF IInv

LEMMA ListsTyped ==
  ASSUME IInv, NEW p \in Peers, NEW list \in Lists(p)
  PROVE  list \in Seq(Entries)
  <1>1. CASE tx[p].listed
    BY <1>1 DEF Lists, IInv, Sending
  <1>2. CASE ~tx[p].listed /\ batch[p] >= MaxBatch
    <2>1. list = <<>>
      BY <1>2 DEF Lists
    <2> QED
      BY <2>1
  <1>3. CASE ~tx[p].listed /\ ~(batch[p] >= MaxBatch)
    <2>1. PICK s \in SetToSeqs(ToSend(p)) : list = [i \in DOMAIN s |-> Listed(s[i])]
      BY <1>3 DEF Lists
    <2>2. s \in [1..Cardinality(ToSend(p)) -> ToSend(p)]
      BY <2>1 DEF SetToSeqs
    <2>3. ToSend(p) \subseteq Files
      BY DEF ToSend, IInv, FilesTyped
    <2>4. Cardinality(ToSend(p)) \in Nat
      BY <2>3, FilesAssumption, FS_Subset, FS_CardinalityType
    <2>5. \A f \in ToSend(p) : Listed(f) \in Entries
      <3> TAKE f \in ToSend(p)
      <3>1. f \in Files /\ version[f] \in Versions
        BY <2>3 DEF IInv, FilesTyped
      <3>2. 0 < Blocks[f][version[f]]
        BY <3>1, BlocksType
      <3> QED
        BY <3>1, <3>2 DEF Listed, Entries, States
    <2>6. list \in [1..Cardinality(ToSend(p)) -> Entries]
      BY <2>1, <2>2, <2>5
    <2> QED
      BY <2>4, <2>6, SeqDef
  <1> QED
    BY <1>1, <1>2, <1>3

\* The state of one entry of the list changes.
LEMMA EntryChanged ==
  ASSUME NEW list \in Seq(Entries), NEW i \in DOMAIN list, NEW st \in States
  PROVE  /\ [list EXCEPT ![i].st = st] \in Seq(Entries)
         /\ DOMAIN [list EXCEPT ![i].st = st] = DOMAIN list
  <1>1. list[i] \in Entries
    BY ElementOfSeq
  <1>2. [list[i] EXCEPT !.st = st] \in Entries
    BY <1>1 DEF Entries
  <1> QED
    BY <1>2, SeqReplaced

LEMMA TrfTyped ==
  ASSUME NEW p \in Peers
  PROVE  Trf(p) \in Seq(Frames)
  BY PlainFrame, OneFrame, NoFrames DEF Trf

LEMMA TxNextIInv ==
  ASSUME IInv, NEW p \in Peers, TxNext(p)
  PROVE  IInv'
  <1>1. PICK list \in Lists(p) :
       LET open == {i \in DOMAIN list : list[i].st = "No"}
           i    == CHOOSE j \in open : \A k \in open : j <= k
           m    == [cmd |-> "FILE", file |-> list[i].file, ver |-> list[i].ver, off |-> list[i].off]
       IN  \/ /\ open = {}
              /\ bll' = [bll EXCEPT ![p] = list]
              /\ tx' = [tx EXCEPT ![p].st = "WLA", ![p].listed = TRUE]
              /\ Sends(p, Trf(p) \o <<Frame("EOB")>>, "Transmit")
           \/ /\ open # {}
              /\ bll' = [bll EXCEPT ![p] = [list EXCEPT ![i].st = "Sending"]]
              /\ tx' = [tx EXCEPT ![p] = [st |-> "TryR", listed |-> TRUE, cur |-> i, pos |-> m.off]]
              /\ Sends(p, Trf(p) \o <<m>>, "Transmit")
           \/ /\ open # {}
              /\ bll' = [bll EXCEPT ![p] = [list EXCEPT ![i].st = "Skipped"]]
              /\ tx' = [tx EXCEPT ![p].listed = TRUE]
              /\ Sends(p, Trf(p), "Switch")
    BY DEF TxNext
  <1> DEFINE open == {i \in DOMAIN list : list[i].st = "No"}
             i    == CHOOSE j \in open : \A k \in open : j <= k
             m    == [cmd |-> "FILE", file |-> list[i].file, ver |-> list[i].ver, off |-> list[i].off]
  <1>2. UNCHANGED <<fileVars, tql, batch>> /\ tx[p].st = "GNF"
    BY DEF TxNext, Runs
  <1>3. list \in Seq(Entries)
    BY ListsTyped
  <1>4. tx \in [Peers -> TxRecords] /\ bll \in [Peers -> Seq(Entries)]
    BY DEF IInv, Sending
  <1>5. open # {} => /\ i \in DOMAIN list /\ i \in Nat
                     /\ list[i] \in Entries
    <2>1. DOMAIN list \subseteq Nat
      BY <1>3, LenProperties
    <2>2. open # {} => i \in open
      <3>1. open \subseteq Nat
        BY <2>1
      <3> HIDE DEF open
      <3> QED
        BY <3>1, FirstOne
    <2> QED
      BY <1>3, <2>1, <2>2, ElementOfSeq
  <1>6. open # {} => m \in Filed
    <2> HIDE DEF open, i
    <2> SUFFICES ASSUME open # {} PROVE m \in Filed
      OBVIOUS
    <2>1. /\ list[i].file \in Files /\ list[i].ver \in Versions /\ list[i].off \in Nat
          /\ list[i].off < Blocks[list[i].file][list[i].ver]
      BY <1>5 DEF Entries
    <2> QED
      BY <2>1, FiledFrame
  <1>7. CASE /\ open = {}
             /\ bll' = [bll EXCEPT ![p] = list]
             /\ tx' = [tx EXCEPT ![p].st = "WLA", ![p].listed = TRUE]
             /\ Sends(p, Trf(p) \o <<Frame("EOB")>>, "Transmit")
    <2>1. Trf(p) \o <<Frame("EOB")>> \in Seq(Frames)
      BY TrfTyped, PlainFrame, OneFrame, ConcatProperties
    <2>2. FilesTyped' /\ SideTyped' /\ NetTyped' /\ Receiving'
      BY <1>2, <1>7, <2>1, SentTyped
    <2>3. Sending'
      <3>1. tx' = [tx EXCEPT ![p] = [tx[p] EXCEPT !.st = "WLA", !.listed = TRUE]]
        BY <1>4, <1>7
      <3>2. [tx[p] EXCEPT !.st = "WLA", !.listed = TRUE] \in TxRecords
        BY <1>4 DEF TxRecords
      <3> QED
        BY <1>3, <1>4, <1>7, <3>1, <3>2 DEF IInv, Sending
    <2> QED
      BY <2>2, <2>3 DEF IInv
  <1>8. CASE /\ open # {}
             /\ bll' = [bll EXCEPT ![p] = [list EXCEPT ![i].st = "Sending"]]
             /\ tx' = [tx EXCEPT ![p] = [st |-> "TryR", listed |-> TRUE, cur |-> i, pos |-> m.off]]
             /\ Sends(p, Trf(p) \o <<m>>, "Transmit")
    <2>1. Trf(p) \o <<m>> \in Seq(Frames)
      <3>1. <<m>> \in Seq(Frames)
        <4>1. m \in Frames
          BY <1>6, <1>8 DEF Frames
        <4> HIDE DEF m
        <4> QED
          BY <4>1, OneFrame
      <3> HIDE DEF m
      <3> QED
        BY <3>1, TrfTyped, ConcatProperties
    <2>2. FilesTyped' /\ SideTyped' /\ NetTyped' /\ Receiving'
      <3> DEFINE out == Trf(p) \o <<m>>
      <3>1. Sends(p, out, "Transmit") /\ out \in Seq(Frames)
        BY <1>8, <2>1
      <3> HIDE DEF out
      <3> QED
        BY <1>2, <3>1, SentTyped
    <2>3. m.off \in Nat
      BY <1>6, <1>8 DEF Filed, Whole
    <2>4. Sending'
      <3>1. States = {"No", "Sending", "IsSent", "Got", "Skipped"}
        BY DEF States
      <3> HIDE DEF open, i, m
      <3>2. [list EXCEPT ![i].st = "Sending"] \in Seq(Entries)
            /\ DOMAIN [list EXCEPT ![i].st = "Sending"] = DOMAIN list
        BY <1>3, <1>5, <1>8, <3>1, EntryChanged
      <3>3. [st |-> "TryR", listed |-> TRUE, cur |-> i, pos |-> m.off] \in TxRecords
        BY <1>5, <1>8, <2>3 DEF TxRecords
      <3> QED
        BY <1>4, <1>5, <1>8, <3>2, <3>3 DEF IInv, Sending
    <2> QED
      BY <2>2, <2>4 DEF IInv
  <1>9. CASE /\ open # {}
             /\ bll' = [bll EXCEPT ![p] = [list EXCEPT ![i].st = "Skipped"]]
             /\ tx' = [tx EXCEPT ![p].listed = TRUE]
             /\ Sends(p, Trf(p), "Switch")
    <2>1. FilesTyped' /\ SideTyped' /\ NetTyped' /\ Receiving'
      BY <1>2, <1>9, TrfTyped, SentTyped
    <2>2. Sending'
      <3>1. States = {"No", "Sending", "IsSent", "Got", "Skipped"}
        BY DEF States
      <3>2. [list EXCEPT ![i].st = "Skipped"] \in Seq(Entries)
        <4> HIDE DEF open, i
        <4> QED
          BY <1>3, <1>5, <1>9, <3>1, EntryChanged
      <3>3. tx' = [tx EXCEPT ![p] = [tx[p] EXCEPT !.listed = TRUE]]
        BY <1>4, <1>9
      <3>4. [tx[p] EXCEPT !.listed = TRUE] \in TxRecords /\ [tx[p] EXCEPT !.listed = TRUE].st = "GNF"
        BY <1>2, <1>4 DEF TxRecords
      <3> HIDE DEF open, i
      <3> QED
        BY <1>4, <1>9, <3>2, <3>3, <3>4 DEF IInv, Sending
    <2> QED
      BY <2>1, <2>2 DEF IInv
  <1> QED
    BY <1>1, <1>7, <1>8, <1>9

\* The entry that is being sent changes its state.
LEMMA TxBlockIInv ==
  ASSUME IInv, NEW p \in Peers, TxBlock(p)
  PROVE  IInv'
  <1> DEFINE c    == tx[p].cur
             e    == bll[p][c]
             size == Blocks[e.file][e.ver]
             out  == IF tx[p].pos >= size THEN <<>>
                     ELSE <<[Frame("DATA") EXCEPT !.file = e.file, !.ver = e.ver]>>
  <1>1. /\ tx[p].st = "TryR" /\ Sends(p, out, "Switch")
        /\ \/ /\ tx' = [tx EXCEPT ![p].st = "GNF", ![p].cur = 0]
              /\ bll' = [bll EXCEPT ![p][tx[p].cur].st = "IsSent"]
           \/ /\ tx' = [tx EXCEPT ![p].pos = @ + 1]
              /\ UNCHANGED bll
        /\ UNCHANGED <<fileVars, tql, batch>>
    BY DEF TxBlock, Runs
  <1>2. tx \in [Peers -> TxRecords] /\ bll \in [Peers -> Seq(Entries)] /\ c \in DOMAIN bll[p]
    BY <1>1 DEF IInv, Sending
  <1>3. e \in Entries
    BY <1>2, ElementOfSeq
  <1>4. out \in Seq(Frames)
    <2>1. e.file \in Files /\ e.ver \in Versions
      BY <1>3 DEF Entries
    <2> HIDE DEF e, size
    <2>2. [Frame("DATA") EXCEPT !.file = e.file, !.ver = e.ver] =
              [cmd |-> "DATA", file |-> e.file, ver |-> e.ver, off |-> 0]
      BY AboutFile
    <2>3. [Frame("DATA") EXCEPT !.file = e.file, !.ver = e.ver] \in Frames
      BY <2>1, <2>2, BlocksType, FiledFrame DEF Frames
    <2> QED
      BY <2>3, OneFrame, NoFrames
  <1> HIDE DEF out
  <1>5. FilesTyped' /\ SideTyped' /\ NetTyped' /\ Receiving'
    BY <1>1, <1>4, SentTyped
  <1>6. Sending'
    <2>1. CASE /\ tx' = [tx EXCEPT ![p].st = "GNF", ![p].cur = 0]
               /\ bll' = [bll EXCEPT ![p][tx[p].cur].st = "IsSent"]
      <3>1. tx' = [tx EXCEPT ![p] = [tx[p] EXCEPT !.st = "GNF", !.cur = 0]]
        BY <1>2, <2>1
      <3>2. [tx[p] EXCEPT !.st = "GNF", !.cur = 0] \in TxRecords
            /\ [tx[p] EXCEPT !.st = "GNF", !.cur = 0].st = "GNF"
        BY <1>2 DEF TxRecords
      <3>3. bll' = [bll EXCEPT ![p] = [bll[p] EXCEPT ![c].st = "IsSent"]]
        BY <1>2, <2>1
      <3>4. [bll[p] EXCEPT ![c].st = "IsSent"] \in Seq(Entries)
        BY <1>2, EntryChanged DEF States
      <3> QED
        BY <1>2, <3>1, <3>2, <3>3, <3>4 DEF IInv, Sending
    <2>2. CASE tx' = [tx EXCEPT ![p].pos = @ + 1] /\ UNCHANGED bll
      <3>1. tx' = [tx EXCEPT ![p] = [tx[p] EXCEPT !.pos = tx[p].pos + 1]]
        BY <1>2, <2>2
      <3>2. /\ [tx[p] EXCEPT !.pos = tx[p].pos + 1] \in TxRecords
            /\ [tx[p] EXCEPT !.pos = tx[p].pos + 1].cur = c
        <4>1. tx[p] \in TxRecords /\ tx[p].pos + 1 \in Nat
          BY <1>2 DEF TxRecords
        <4> QED
          BY <4>1 DEF TxRecords
      <3> QED
        BY <1>2, <2>2, <3>1, <3>2 DEF IInv, Sending
    <2> QED
      BY <1>1, <2>1, <2>2
  <1> QED
    BY <1>5, <1>6 DEF IInv

\* A step of one side by itself that changes no table.
LEMMA StateStep ==
  ASSUME IInv, NEW p \in Peers, NEW st \in {"Switch", "Transmit", "Process", "Deinit", "Done"},
         ft' = [ft EXCEPT ![p] = st],
         UNCHANGED <<fileVars, line, chan, rc, rx, tx, bll, tql, eob, messages, batch>>
  PROVE  IInv'
  <1>1. SideTyped'
    BY DEF IInv, SideTyped
  <1> QED
    BY <1>1, FilesStay DEF IInv, NetTyped, Receiving, Sending

\* The transmitter has another list, or stops sending.
LEMMA NotSending ==
  ASSUME IInv, NEW p \in Peers, NEW t \in TxRecords, NEW list \in Seq(Entries),
         t.st = "TryR" => t.cur \in DOMAIN list,
         tx' = [tx EXCEPT ![p] = t], bll' = [bll EXCEPT ![p] = list]
  PROVE  Sending'
  BY DEF IInv, Sending

LEMMA TxMessageIInv ==
  ASSUME IInv, NEW p \in Peers, TxMessage(p)
  PROVE  IInv'
  <1> DEFINE m == Head(tql[p])
  <1>1. /\ tql[p] # <<>>
        /\ tql' = [tql EXCEPT ![p] = Tail(@)]
        /\ ft' = [ft EXCEPT ![p] = IF Len(tql[p]) = 1 THEN "Transmit" ELSE "Process"]
        /\ UNCHANGED <<version, tmp, line, chan, rc, rx, batch>>
        /\ outbound' = outbound \/ outbound' = outbound \ Disposed(m)
    BY DEF TxMessage
  <1>2. tql \in [Peers -> Seq(Answers)]
    BY DEF IInv, NetTyped
  <1>3. m \in Answers /\ Tail(tql[p]) \in Seq(Answers)
    BY <1>1, <1>2, HeadTailProperties
  <1>4. NetTyped'
    BY <1>1, <1>2, <1>3 DEF IInv, NetTyped
  <1>5. SideTyped'
    BY <1>1 DEF IInv, SideTyped
  <1>6. FilesTyped' /\ Receiving'
    BY <1>1 DEF IInv, FilesTyped, Receiving
  <1>7. tx \in [Peers -> TxRecords] /\ bll \in [Peers -> Seq(Entries)]
    BY DEF IInv, Sending
  <1>8. Sending'
    <2>1. CASE UNCHANGED <<bll, tx>>
      BY <2>1 DEF IInv, Sending
    <2>2. ASSUME NEW i \in Concerns(p, m),
                 bll' = [bll EXCEPT ![p][i] = [@ EXCEPT !.st = "No", !.off = m.off]],
                 tx' = [tx EXCEPT ![p].st = "GNF"]
          PROVE  Sending'
      <3>1. /\ i \in DOMAIN bll[p] /\ bll[p][i].file = m.file /\ bll[p][i].ver = m.ver
        BY DEF Concerns
      <3>2. m.off \in Nat /\ m.off < Blocks[m.file][m.ver]
        BY <1>3 DEF Answers, Filed, Whole
      <3>3. bll[p][i] \in Entries
        BY <1>7, <3>1, ElementOfSeq
      <3>4. [bll[p][i] EXCEPT !.st = "No", !.off = m.off] \in Entries
        BY <3>1, <3>2, <3>3 DEF Entries, States
      <3>5. [bll[p] EXCEPT ![i] = [bll[p][i] EXCEPT !.st = "No", !.off = m.off]] \in Seq(Entries)
        BY <1>7, <3>1, <3>4, SeqReplaced
      <3>6. bll' = [bll EXCEPT ![p] =
                       [bll[p] EXCEPT ![i] = [bll[p][i] EXCEPT !.st = "No", !.off = m.off]]]
        BY <1>7, <2>2, <3>1
      <3>7. tx' = [tx EXCEPT ![p] = [tx[p] EXCEPT !.st = "GNF"]]
        BY <1>7, <2>2
      <3>8. [tx[p] EXCEPT !.st = "GNF"] \in TxRecords /\ [tx[p] EXCEPT !.st = "GNF"].st = "GNF"
        BY <1>7 DEF TxRecords
      <3> QED
        BY <3>5, <3>6, <3>7, <3>8, NotSending
    <2>3. ASSUME NEW i \in Concerns(p, m), NEW st \in States,
                 bll' = [bll EXCEPT ![p][i].st = st], Stops(p, i)
          PROVE  Sending'
      <3> DEFINE t == IF bll[p][i].st = "Sending"
                      THEN [tx[p] EXCEPT !.st = "GNF", !.cur = 0] ELSE tx[p]
      <3>1. i \in DOMAIN bll[p]
        BY DEF Concerns
      <3>2. [bll[p] EXCEPT ![i].st = st] \in Seq(Entries)
            /\ DOMAIN [bll[p] EXCEPT ![i].st = st] = DOMAIN bll[p]
        BY <1>7, <3>1, EntryChanged
      <3>3. bll' = [bll EXCEPT ![p] = [bll[p] EXCEPT ![i].st = st]]
        BY <1>7, <2>3
      <3>4. tx' = [tx EXCEPT ![p] = t]
        BY <1>7, <2>3 DEF Stops
      <3>5. t \in TxRecords /\ (t.st = "TryR" => t = tx[p])
        BY <1>7 DEF TxRecords
      <3>6. tx[p].st = "TryR" => tx[p].cur \in DOMAIN bll[p]
        BY DEF IInv, Sending
      <3> HIDE DEF t
      <3> QED
        BY <3>2, <3>3, <3>4, <3>5, <3>6, NotSending
    <2>4. \/ UNCHANGED <<bll, tx>>
          \/ \E i \in Concerns(p, m) :
                \/ /\ bll' = [bll EXCEPT ![p][i] = [@ EXCEPT !.st = "No", !.off = m.off]]
                   /\ tx' = [tx EXCEPT ![p].st = "GNF"]
                \/ \E st \in States : bll' = [bll EXCEPT ![p][i].st = st] /\ Stops(p, i)
      BY DEF TxMessage, States
    <2> HIDE DEF m
    <2> QED
      BY <2>1, <2>2, <2>3, <2>4
  <1> QED
    BY <1>4, <1>5, <1>6, <1>8 DEF IInv

LEMMA TxAnsweredIInv ==
  ASSUME IInv, NEW p \in Peers, TxAnswered(p)
  PROVE  IInv'
  <1>1. /\ ft' = [ft EXCEPT ![p] = "Switch"]
        /\ UNCHANGED <<fileVars, line, chan, rc, tql>>
        /\ tx[p].st = "WLA"
    BY DEF TxAnswered, Runs
  <1>2. FilesTyped' /\ NetTyped'
    BY <1>1, FilesStay DEF IInv, NetTyped
  <1>3. tx \in [Peers -> TxRecords] /\ bll \in [Peers -> Seq(Entries)] /\ <<>> \in Seq(Entries)
    BY DEF IInv, Sending
  <1>4. CASE /\ tx' = [tx EXCEPT ![p].st = "Done", ![p].listed = FALSE]
             /\ rx' = [rx EXCEPT ![p].st = "Done"]
             /\ bll' = [bll EXCEPT ![p] = <<>>]
             /\ UNCHANGED batch
    <2>1. SideTyped'
      BY <1>1, <1>4 DEF IInv, SideTyped
    <2>2. Receiving'
      BY <1>4, RxDone DEF IInv
    <2>3. tx' = [tx EXCEPT ![p] = [tx[p] EXCEPT !.st = "Done", !.listed = FALSE]]
      BY <1>3, <1>4
    <2>4. /\ [tx[p] EXCEPT !.st = "Done", !.listed = FALSE] \in TxRecords
          /\ [tx[p] EXCEPT !.st = "Done", !.listed = FALSE].st = "Done"
      BY <1>3 DEF TxRecords
    <2>5. Sending'
      BY <1>3, <1>4, <2>3, <2>4, NotSending
    <2> QED
      BY <1>2, <2>1, <2>2, <2>5 DEF IInv
  <1>5. CASE NewBatch(p)
    <2>1. SideTyped'
      BY <1>1, <1>5, FilesAssumption DEF IInv, SideTyped, NewBatch
    <2>2. Receiving'
      <3>1. [rx[p] EXCEPT !.st = "WaitF"] \in RxRecords /\ [rx[p] EXCEPT !.st = "WaitF"].st = "WaitF"
        BY DEF IInv, Receiving, RxRecords
      <3>2. rx' = [rx EXCEPT ![p] = [rx[p] EXCEPT !.st = "WaitF"]]
        BY <1>5 DEF NewBatch, IInv, Receiving
      <3> QED
        BY <3>1, <3>2, NotReceiving DEF IInv
    <2>3. tx' = [tx EXCEPT ![p] = [tx[p] EXCEPT !.st = "GNF", !.listed = FALSE]]
          /\ bll' = [bll EXCEPT ![p] = <<>>]
      BY <1>3, <1>5 DEF NewBatch
    <2>4. /\ [tx[p] EXCEPT !.st = "GNF", !.listed = FALSE] \in TxRecords
          /\ [tx[p] EXCEPT !.st = "GNF", !.listed = FALSE].st = "GNF"
      BY <1>3 DEF TxRecords
    <2>5. Sending'
      BY <1>3, <2>3, <2>4, NotSending
    <2> QED
      BY <1>2, <2>1, <2>2, <2>5 DEF IInv
  <1>6. CASE /\ bll' = [bll EXCEPT ![p] = <<>>]
             /\ tx' = [tx EXCEPT ![p].listed = FALSE]
             /\ UNCHANGED <<rx, eob, messages, batch>>
    <2>1. SideTyped' /\ Receiving'
      BY <1>1, <1>6 DEF IInv, SideTyped, Receiving
    <2>2. tx' = [tx EXCEPT ![p] = [tx[p] EXCEPT !.listed = FALSE]]
      BY <1>3, <1>6
    <2>3. [tx[p] EXCEPT !.listed = FALSE] \in TxRecords /\ [tx[p] EXCEPT !.listed = FALSE].st = "WLA"
      BY <1>1, <1>3 DEF TxRecords
    <2>4. Sending'
      BY <1>3, <1>6, <2>2, <2>3, NotSending
    <2> QED
      BY <1>2, <2>1, <2>4 DEF IInv
  <1> QED
    BY <1>4, <1>5, <1>6 DEF TxAnswered

\* The tables of a side that is not in a session
LEMMA IdleTyped == /\ RxIdle \in RxRecords /\ RxIdle.st = "WaitF"
                   /\ TxIdle \in TxRecords /\ TxIdle.st = "GNF"
  BY DEF RxIdle, RxRecords, TxIdle, TxRecords, Versions

LEMMA EndIInv ==
  ASSUME IInv, NEW p \in Peers, End(p)
  PROVE  IInv'
  <1>1. /\ ft' = [ft EXCEPT ![p] = "Done"]
        /\ rx' = [rx EXCEPT ![p] = RxIdle] /\ tx' = [tx EXCEPT ![p] = TxIdle]
        /\ bll' = [bll EXCEPT ![p] = <<>>] /\ tql' = [tql EXCEPT ![p] = <<>>]
        /\ batch' = [batch EXCEPT ![p] = 0]
        /\ chan' = [chan EXCEPT ![p] = <<>>]
        /\ UNCHANGED <<fileVars, line, rc>>
    BY DEF End
  <1>2. SideTyped'
    BY <1>1, FilesAssumption DEF IInv, SideTyped
  <1>3. NetTyped'
    BY <1>1 DEF IInv, NetTyped
  <1>4. Receiving'
    BY <1>1, IdleTyped, NotReceiving DEF IInv
  <1>5. Sending'
    <2>1. <<>> \in Seq(Entries)
      OBVIOUS
    <2> QED
      BY <1>1, <2>1, IdleTyped, NotSending
  <1> QED
    BY <1>1, <1>2, <1>3, <1>4, <1>5, FilesStay DEF IInv

LEMMA TransmitterIInv ==
  ASSUME IInv, NEW p \in Peers, Transmitter(p)
  PROVE  IInv'
  <1>1. CASE TxMessages(p)
    BY <1>1, StateStep DEF TxMessages
  <1>2. CASE TxWait(p)
    BY <1>2, StateStep DEF TxWait
  <1>3. CASE Expire(p)
    BY <1>3, BrokenIInv DEF Expire
  <1> QED
    BY <1>1, <1>2, <1>3, TxNextIInv, TxBlockIInv, TxMessageIInv, TxAnsweredIInv, EndIInv
    DEF Transmitter

-----------------------------------------------------------------------------
(* The specification *)

LEMMA InitIInv == Init => IInv
  <1> SUFFICES ASSUME Init PROVE IInv
    OBVIOUS
  <1>1. FilesTyped
    <2>1. CASE FirstSession
      BY <2>1 DEF Init, FirstSession, FilesTyped, Versions
    <2>2. CASE LastSession
      BY <2>2, FilesAssumption DEF Init, LastSession, FilesTyped, Versions
    <2> QED
      BY <2>1, <2>2 DEF Init
  <1>2. SideTyped /\ NetTyped
    BY FilesAssumption DEF Init, SessionStart, SideTyped, NetTyped
  <1>3. Receiving /\ Sending
    BY IdleTyped DEF Init, SessionStart, Receiving, Sending
  <1> QED
    BY <1>1, <1>2, <1>3 DEF IInv

LEMMA NextIInv == IInv /\ [Next]_vars => IInv'
  <1> SUFFICES ASSUME IInv, [Next]_vars PROVE IInv'
    OBVIOUS
  <1>1. CASE LineDrops \/ LineSilent
    <2>1. FilesTyped'
      BY <1>1, FilesStay DEF LineDrops, LineSilent, IInv
    <2>2. NetTyped'
      <3>1. CASE LineDrops
        BY <3>1 DEF LineDrops, IInv, NetTyped, peerVars
      <3>2. CASE LineSilent
        BY <3>2 DEF LineSilent, IInv, NetTyped, peerVars
      <3> QED
        BY <1>1, <3>1, <3>2
    <2> QED
      BY <1>1, <2>1, <2>2 DEF LineDrops, LineSilent, peerVars, IInv, SideTyped, Receiving, Sending
  <1>2. CASE NewSession
    <2>1. FilesTyped'
      BY <1>2, FilesStay DEF NewSession, IInv
    <2>2. SideTyped' /\ NetTyped'
      BY <1>2, FilesAssumption DEF NewSession, NewSessionState, SideTyped, NetTyped
    <2>3. Receiving' /\ Sending'
      BY <1>2, IdleTyped DEF NewSession, NewSessionState, Receiving, Sending
    <2> QED
      BY <2>1, <2>2, <2>3 DEF IInv
  <1>3. CASE \E f \in Files : Changes(f)
    <2>1. FilesTyped'
      BY <1>3 DEF Changes, IInv, FilesTyped, Versions
    <2> QED
      BY <1>3, <2>1 DEF Changes, peerVars, IInv, SideTyped, NetTyped, Receiving, Sending
  <1>4. CASE UNCHANGED vars
    BY <1>4, FilesStay DEF vars, peerVars, IInv, SideTyped, NetTyped, Receiving, Sending
  <1> QED
    BY <1>1, <1>2, <1>3, <1>4, ReceiverIInv, TransmitterIInv DEF Next

\* Types, and what they rest on: data are written only while a file is open and
\* blocks of it are to come, and a block is sent only of an entry that is in the
\* list, whatever answers cross what is sent and however the session breaks.
THEOREM BinkpTypeOKHolds == Spec => []TypeOK
  <1>1. IInv => TypeOK
    BY DEF IInv, TypeOK, FilesTyped, SideTyped, NetTyped, Receiving, Sending,
           RxRecords, TxRecords
  <1> QED
    BY <1>1, InitIInv, NextIInv, PTL DEF Spec
=============================================================================
