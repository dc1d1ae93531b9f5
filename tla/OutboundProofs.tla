--------------------------- MODULE OutboundProofs ---------------------------
(* Theorems about NodeLock and Outbound, for any programs, messages,       *)
(* archive names and any number of faults.                                 *)
EXTENDS Outbound, FiniteSetTheorems, SequenceTheorems, NaturalsInduction,
        WellFoundedInduction, TLAPS


-----------------------------------------------------------------------------
(* The inductive invariant of the node lock.                               *)

\* Unless a running program has lost its lock, a program that counts on the
\* .bsy file is the one that the file names.
OwnersHold == broken = {} => \A p \in Pids : Owns(p) => bsy = p

\* A program that has read the lock which is there is on its way to break it.
SameRead == \A p \in same : /\ pc[p] \in {"age", "probe", "unlink"}
                            /\ bsy = found[p]
                            /\ found[p] \in Pids

\* Only a look at the file makes a program take the lock for an old one ...
LateSeen == \A p \in Pids : late[p] => pc[p] \in {"probe", "unlink", "again"}

\* ... and if it is still the same lock, that is what it is.
LateAged == \A p \in same : late[p] => aged

\* A lock that was found stale is old, or its owner has gone and no other
\* program has made it its own since.
StaleGone == \A p \in same : pc[p] = "unlink" => aged \/ ~Owns(found[p])

IInv == LockTypeOK /\ OwnersHold /\ SameRead /\ LateSeen /\ LateAged /\ StaleGone

LEMMA InitIInv == LockInit => IInv
  BY DEF LockInit, IInv, LockTypeOK, LockPCs, OwnersHold, SameRead, LateSeen,
         LateAged, StaleGone, Owns

LEMMA NextIInv ==
  ASSUME IInv, [LockNext]_lockVars
  PROVE  IInv'
<1> USE NoPidAssumption DEF IInv, LockTypeOK, LockPCs, OwnersHold, SameRead,
                            LateSeen, LateAged, StaleGone, Owns
<1>1. ASSUME NEW p \in Pids, Begins(p) PROVE IInv'
  BY <1>1 DEF Begins, Goto, histLock
<1>2. ASSUME NEW p \in Pids, LockStep(p) PROVE IInv'
  <2>1. CASE Create(p)
    BY <2>1 DEF Create, Goto, histLock
  <2>2. ASSUME NEW from \in {"link", "again"}, LinkOk(p, from) PROVE IInv'
    BY <2>2 DEF LinkOk, Goto, Becomes, Forgets
  <2>3. CASE LinkExists(p)
    BY <2>3 DEF LinkExists, Goto, histLock
  <2>4. ASSUME NEW from \in {"read", "probe", "again"}, Fails(p, from) PROVE IInv'
    BY <2>4 DEF Fails, Goto, Forgets
  <2>5. CASE ReadOwn(p)
    BY <2>5 DEF ReadOwn, Goto
  <2>6. CASE ReadOther(p)
    BY <2>6 DEF ReadOther, Goto
  <2>7. CASE Age(p)
    BY <2>7 DEF Age, Goto, histLock
  <2>8. CASE ProbeStale(p)
    BY <2>8 DEF ProbeStale, Stale, Goto, histLock
  <2>9. CASE Unlink(p)
    BY <2>9 DEF Unlink, Goto, Becomes
  <2> QED
    BY <1>2, <2>1, <2>2, <2>3, <2>4, <2>5, <2>6, <2>7, <2>8, <2>9
       DEF LockStep, AgainExists, ReadGone, ProbeBusy
<1>3. ASSUME NEW p \in Pids, Leaves(p) PROVE IInv'
  BY <1>3 DEF Leaves, Goto, histLock
<1>4. ASSUME NEW p \in Pids, UnlockStep(p) PROVE IInv'
  <2>1. CASE UnlockOpen(p)
    BY <2>1 DEF UnlockOpen, Goto, histLock
  <2>2. CASE UnlockUnlink(p)
    BY <2>2 DEF UnlockUnlink, Goto, Becomes
  <2> QED
    BY <1>4, <2>1, <2>2 DEF UnlockStep
<1>5. ASSUME NEW p \in Pids, Dies(p) PROVE IInv'
  BY <1>5 DEF Dies, Ours, Forgets
<1>6. ASSUME NEW p \in Pids, PidReused(p) \/ PidFreed(p) PROVE IInv'
  <2>1. CASE PidReused(p)
    BY <2>1 DEF PidReused, Goto, histLock
  <2>2. CASE PidFreed(p)
    BY <2>2 DEF PidFreed, Goto, histLock
  <2> QED
    BY <1>6, <2>1, <2>2
<1>7. ASSUME SixHours PROVE IInv'
  BY <1>7 DEF SixHours, histLock
<1>8. ASSUME UNCHANGED lockVars PROVE IInv'
  BY <1>8 DEF lockVars, histLock
<1> QED
  BY <1>1, <1>2, <1>3, <1>4, <1>5, <1>6, <1>7, <1>8 DEF LockNext

\* The invariant holds in every state: it is what the theorems rest on.
THEOREM IInvHolds == LockSpec => []IInv
<1>1. LockInit => IInv
  BY InitIInv
<1>2. IInv /\ [LockNext]_lockVars => IInv'
  BY NextIInv
<1> QED
  BY <1>1, <1>2, PTL DEF LockSpec

-----------------------------------------------------------------------------
(* What the node lock promises.                                            *)

\* The variables have their types.
THEOREM LockTypeOKHolds == LockSpec => []LockTypeOK
<1>1. IInv => LockTypeOK
  BY DEF IInv
<1> QED
  BY <1>1, IInvHolds, PTL

LEMMA StepRefines ==
  ASSUME IInv, [LockNext]_lockVars
  PROVE  broken' # {} \/ Lock!Next \/ UNCHANGED Lock!vars
<1> USE NoPidAssumption DEF IInv, LockTypeOK, OwnersHold, Owns, Locked, Lock!vars
<1>1. ASSUME NEW p \in Pids, Begins(p) PROVE UNCHANGED Lock!vars
  BY <1>1 DEF Begins, Goto
<1>2. ASSUME NEW p \in Pids, LockStep(p), broken' = {}
      PROVE  Lock!Next \/ UNCHANGED Lock!vars
  <2>1. CASE Create(p) \/ LinkExists(p) \/ ReadOther(p) \/ Age(p) \/ ProbeStale(p)
    BY <2>1 DEF Create, LinkExists, ReadOther, Age, ProbeStale, Goto
  <2>2. ASSUME NEW from \in {"link", "again"}, LinkOk(p, from)
        PROVE  Lock!Acquire(p)
    BY <2>2 DEF LinkOk, Goto, Becomes, Lock!Acquire
  <2>3. ASSUME NEW from \in {"read", "probe", "again"}, Fails(p, from)
        PROVE  UNCHANGED Lock!vars
    BY <2>3 DEF Fails, Goto
  <2>4. CASE ReadOwn(p)
    <3>1. Lock!Acquire(p)
      BY <2>4 DEF ReadOwn, Goto, Lock!Acquire
    <3> QED
      BY <3>1 DEF Lock!Next
  <2>5. CASE Unlink(p)
    <3>1. \A q \in Pids : ~(bsy = q /\ Owns(q))
      BY <2>5, <1>2 DEF Unlink, Goto, SameRead, StaleGone
    <3>2. CASE bsy = NoPid
      BY <2>5, <3>2 DEF Unlink, Goto, Becomes
    <3>3. CASE bsy # NoPid
      <4>1. Lock!Free
        BY <2>5, <3>1, <3>3 DEF Unlink, Goto, Becomes, Lock!Free
      <4> QED
        BY <4>1 DEF Lock!Next
    <3> QED
      BY <3>2, <3>3
  <2> QED
    BY <1>2, <2>1, <2>2, <2>3, <2>4, <2>5
       DEF LockStep, AgainExists, ReadGone, ProbeBusy, Lock!Next
<1>3. ASSUME NEW p \in Pids, Leaves(p) PROVE Lock!Done(p)
  BY <1>3 DEF Leaves, Goto, Lock!Done
<1>4. ASSUME NEW p \in Pids, UnlockOpen(p) PROVE UNCHANGED Lock!vars
  BY <1>4 DEF UnlockOpen, Goto
<1>5. ASSUME NEW p \in Pids, UnlockUnlink(p), broken' = {} PROVE Lock!Free
  BY <1>5 DEF UnlockUnlink, Goto, Becomes, Lock!Free
<1>6. ASSUME NEW p \in Pids, Dies(p)
      PROVE  Lock!Done(p) \/ UNCHANGED Lock!vars
  BY <1>6 DEF Dies, Ours, Lock!Done
<1>7. ASSUME NEW p \in Pids, PidReused(p) \/ PidFreed(p)
      PROVE  UNCHANGED Lock!vars
  BY <1>7 DEF PidReused, PidFreed, Goto
<1>8. ASSUME SixHours \/ UNCHANGED lockVars PROVE UNCHANGED Lock!vars
  BY <1>8 DEF SixHours, lockVars
<1> QED
  BY <1>1, <1>2, <1>3, <1>4, <1>5, <1>6, <1>7, <1>8
     DEF LockNext, UnlockStep, Lock!Next

\* nodelock and nodeulock implement the exclusive lock, for any number of
\* programs, until a lock is taken from a program that runs.
THEOREM LockRefined == LockSpec => ImplementsLock
<1>1. LockInit => Lock!Init
  BY DEF LockInit, Lock!Init, Locked
<1>2. IInv /\ [LockNext]_lockVars
        => [broken' # {} \/ Lock!Next]_(Lock!vars)
  BY StepRefines
<1> QED
  BY <1>1, <1>2, IInvHolds, PTL DEF LockSpec, ImplementsLock


-----------------------------------------------------------------------------
(* Outbound uses the node lock as NodeLock says.                           *)

LEMMA StepOfLock ==
  ASSUME [Next]_vars
  PROVE  [LockNext]_lockVars
<1>1. ASSUME NEW p \in Pids, StartToss(p) \/ StartMail(p) PROVE Begins(p)
  BY <1>1 DEF StartToss, StartMail, Starts
<1>2. ASSUME NEW p \in Pids, LockStepOf(p) PROVE LockStep(p) \/ UnlockStep(p)
  BY <1>2 DEF LockStepOf
<1>3. ASSUME NEW p \in Pids, Toss(p) PROVE UNCHANGED lockVars \/ Leaves(p) \/ Dies(p)
  BY <1>3 DEF Toss, TossStart, Archive, UnlinkPacket, Attach, TossDone, EndsLocked
<1>4. ASSUME NEW p \in Pids, Session(p) PROVE UNCHANGED lockVars \/ Leaves(p)
  BY <1>4 DEF Session, CreateFilelist, Send, Mark, Truncate, Disposed, SessionEnd
<1>5. ASSUME NEW p \in Pids, Faults(p)
      PROVE  UNCHANGED lockVars \/ Leaves(p) \/ Dies(p) \/ PidReused(p)
  BY <1>5 DEF Faults, ArchiveFails, NoArchiver, SessionFails, Skipped, Crash,
              Reused
<1>6. ASSUME NEW p \in Pids, Freed(p) PROVE PidFreed(p)
  BY <1>6 DEF Freed
<1>7. ASSUME LockAges PROVE SixHours
  BY <1>7 DEF LockAges
<1>8. ASSUME WeekPasses \/ Sweep PROVE UNCHANGED lockVars
  BY <1>8 DEF WeekPasses, Sweep, SweepLooks, SweepUnlinks
<1>9. ASSUME UNCHANGED vars PROVE UNCHANGED lockVars
  BY <1>9 DEF vars
<1> QED
  BY <1>1, <1>2, <1>3, <1>4, <1>5, <1>6, <1>7, <1>8, <1>9
     DEF Next, Run, LockNext

LEMMA UsesLock == Spec => LockSpec
<1>1. Init => LockInit
  BY DEF Init
<1>2. [Next]_vars => [LockNext]_lockVars
  BY StepOfLock
<1> QED
  BY <1>1, <1>2, PTL DEF Spec, LockSpec

\* The programs that work in the outbound go by an exclusive lock until it is
\* taken from one of them while it runs.
THEOREM NodeLockRefined == Spec => ImplementsLock
BY UsesLock, LockRefined, PTL

LEMMA OneHolds ==
  ASSUME IInv, broken = {}
  PROVE  Alone
<1>1. \A p \in Locked : Locked = {p}
  BY DEF IInv, OwnersHold, Owns, Locked
<1>2. Cardinality({}) = 0 /\ \A p \in Pids : Cardinality({p}) = 1
  BY FS_EmptySet, FS_Singleton
<1>3. Locked = {} \/ \E p \in Pids : Locked = {p}
  BY <1>1 DEF Locked
<1> QED
  BY <1>2, <1>3 DEF Alone

\* Until then there is one of them at a time: mbfido adds to no archive that a
\* session is sending, and no two sessions send the same mail.
THEOREM AloneHolds == Spec => [](broken = {} => Alone)
<1>1. IInv => (broken = {} => Alone)
  BY OneHolds
<1> QED
  BY <1>1, UsesLock, IInvHolds, PTL

-----------------------------------------------------------------------------
(* No mail is dropped.                                                     *)

\* The remote has it, or an archive, or it may have gone by a clash or a sweep.
Safe(m) == got[m] > 0 \/ clash \/ m \in swiped \/ \E s \in Slots : m \in arc[s]

MailTypes == /\ queue \subseteq Mail /\ new \subseteq Mail /\ todo \subseteq Mail
             /\ arc \in [Slots -> SUBSET Mail]
             /\ got \in [Mail -> 0..MaxGot]
             /\ step \in [Pids -> Steps]
             /\ DOMAIN pc = Pids /\ DOMAIN list = Pids
             /\ pkt \in Mail \cup {NoMail}
             /\ clash \in BOOLEAN
             /\ swept \subseteq Slots /\ swiped \subseteq Mail

\* What a program does under the lock it does with the lock.
Working == \A p \in Pids : Packing(p) \/ Sending(p) => pc[p] = "locked"

Tosses(p) == Packing(p) \/ step[p] = "start"

OneToss == \A p, q \in Pids : Tosses(p) /\ Tosses(q) => p = q

\* An archive with mail in it is there, so no name of one is taken for free.
Present == \A s \in Slots : arc[s] # {} => s \in there

\* mbfido unlinks only what the archiver has added.
PacketSafe == \A p \in Pids : step[p] = "packed" => pkt \in Mail /\ Safe(pkt)

\* mbcico truncates only what it has sent.
SentSafe == \A p \in Pids : step[p] \in {"sent", "marked"} =>
    \A s \in Slots : s = Offered(p) =>
        \A m \in arc[s] : got[m] > 0 \/ clash

MInv == /\ MailTypes /\ Working /\ OneToss /\ Present /\ PacketSafe /\ SentSafe
        /\ MailKept

LEMMA InitMInv == Init => MInv
<1> SUFFICES ASSUME Init PROVE MInv
  OBVIOUS
<1> USE DEF Init, LockInit
<1>1. MailTypes
  <2>1. MaxGot \in Nat
    BY BoundsAssumption DEF MaxGot
  <2>2. got \in [Mail -> 0..MaxGot]
    BY <2>1
  <2>3. step \in [Pids -> Steps]
    BY DEF Steps
  <2>4. /\ arc \in [Slots -> SUBSET Mail]
        /\ DOMAIN pc = Pids /\ DOMAIN list = Pids
    OBVIOUS
  <2> QED
    BY <2>2, <2>3, <2>4 DEF MailTypes
<1>2. Working /\ OneToss /\ PacketSafe /\ SentSafe
  BY DEF Working, OneToss, Tosses, Packing, Sending, PacketSafe, SentSafe
<1>3. Present /\ MailKept
  BY DEF Present, MailKept, Kept
<1> QED
  BY <1>1, <1>2, <1>3 DEF MInv

\* What is safe stays safe: an archive is emptied only by a session that has
\* sent it, and one that is begun anew was empty.
LEMMA SafeStays ==
  ASSUME MInv, [Next]_vars, NEW m \in Mail, Safe(m)
  PROVE  Safe(m)'
<1> USE BoundsAssumption DEF MInv, MailTypes, Safe, sweepVars
<1>1. ASSUME NEW p \in Pids, StartToss(p) \/ StartMail(p) PROVE Safe(m)'
  BY <1>1 DEF StartToss, StartMail, Starts, fileVars, histVars
<1>2. ASSUME NEW p \in Pids, LockStepOf(p) PROVE Safe(m)'
  BY <1>2 DEF LockStepOf, fileVars, histVars
<1>3. ASSUME NEW p \in Pids, Archive(p) PROVE Safe(m)'
  BY <1>3 DEF Archive, After, Fresh, Present
<1>4. ASSUME NEW p \in Pids, ArchiveFails(p) PROVE Safe(m)'
  BY <1>4 DEF ArchiveFails, After, Fresh, Present
<1>5. ASSUME NEW p \in Pids, TossStart(p) \/ UnlinkPacket(p) \/ TossDone(p)
                               \/ EndsLocked(p)
      PROVE  Safe(m)'
  BY <1>5 DEF TossStart, UnlinkPacket, TossDone, EndsLocked, fileVars, histVars
<1>6. ASSUME NEW p \in Pids, Attach(p) \/ NoArchiver(p) PROVE Safe(m)'
  BY <1>6 DEF Attach, NoArchiver, fileVars
<1>7. ASSUME NEW p \in Pids, CreateFilelist(p) PROVE Safe(m)'
  BY <1>7 DEF CreateFilelist, fileVars
<1>8. ASSUME NEW p \in Pids, Send(p) PROVE Safe(m)'
  BY <1>8 DEF Send, MaxGot, histVars
<1>9. ASSUME NEW p \in Pids, Mark(p) \/ Disposed(p) \/ SessionEnd(p)
      PROVE  Safe(m)'
  BY <1>9 DEF Mark, Disposed, SessionEnd, histVars
<1>10. ASSUME NEW p \in Pids, Truncate(p) PROVE Safe(m)'
  BY <1>10 DEF Truncate, Under, SentSafe
<1>11. ASSUME NEW p \in Pids, SessionFails(p) \/ Skipped(p) \/ Crash(p)
       PROVE  Safe(m)'
  BY <1>11 DEF SessionFails, Skipped, Crash, fileVars
<1>12. ASSUME NEW p \in Pids, Reused(p) \/ Freed(p) PROVE Safe(m)'
  BY <1>12 DEF Reused, Freed, fileVars, histVars
<1>13. ASSUME LockAges \/ WeekPasses \/ Sweep PROVE Safe(m)'
  BY <1>13 DEF LockAges, WeekPasses, Sweep, SweepLooks, SweepUnlinks, fileVars, histVars
<1>14. ASSUME UNCHANGED vars PROVE Safe(m)'
  BY <1>14 DEF vars, fileVars, histVars
<1> QED
  BY <1>1, <1>2, <1>3, <1>4, <1>5, <1>6, <1>7, <1>8, <1>9, <1>10, <1>11,
     <1>12, <1>13, <1>14 DEF Next, Run, Toss, Session, Faults

LEMMA TypesStay ==
  ASSUME MInv, [Next]_vars
  PROVE  MailTypes'
<1> USE DEF MInv, MailTypes, sweepVars
<1>1. ASSUME NEW p \in Pids, StartToss(p) \/ StartMail(p) PROVE MailTypes'
  BY <1>1 DEF StartToss, StartMail, Starts, Begins, Goto, Steps, fileVars,
              tossVars, mailVars, histVars
<1>2. ASSUME NEW p \in Pids, LockStepOf(p) PROVE MailTypes'
  <2>1. DOMAIN pc' = Pids
    BY <1>2 DEF LockStepOf, LockStep, UnlockStep, Create, LinkOk, LinkExists,
                ReadGone, ReadOwn, ReadOther, Age, ProbeStale, ProbeBusy,
                Unlink, AgainExists, UnlockOpen, UnlockUnlink, Fails, Goto
  <2>2. step' \in [Pids -> Steps]
    BY <1>2 DEF LockStepOf, Steps
  <2> QED
    BY <1>2, <2>1, <2>2 DEF LockStepOf, fileVars, tossVars, mailVars, histVars
<1>3. ASSUME NEW p \in Pids, Archive(p) \/ ArchiveFails(p) PROVE MailTypes'
  <2>1. pkt' \in todo /\ todo' \subseteq Mail
    BY <1>3 DEF Archive, ArchiveFails
  <2>2. arc' \in [Slots -> SUBSET Mail]
    <3>1. PICK s, nr \in Slots, left \in {{}, {pkt'}} :
                 arc' = [arc EXCEPT ![s] = After(s, nr, left)]
      BY <1>3 DEF Archive, ArchiveFails
    <3>2. After(s, nr, left) \subseteq Mail
      BY <2>1, <3>1 DEF After
    <3> QED
      BY <3>1, <3>2
  <2>3. step' \in [Pids -> Steps] /\ clash' \in BOOLEAN
    BY <1>3 DEF Archive, ArchiveFails, Under, Steps
  <2>4. UNCHANGED <<queue, new, got, pc, list, swept, swiped>>
    BY <1>3 DEF Archive, ArchiveFails, lockVars, mailVars
  <2> QED
    BY <2>1, <2>2, <2>3, <2>4
<1>4. ASSUME NEW p \in Pids, TossStart(p) \/ UnlinkPacket(p) \/ Attach(p)
      PROVE  MailTypes'
  BY <1>4 DEF TossStart, UnlinkPacket, Attach, Under, Steps, lockVars, fileVars,
              tossVars, mailVars, histVars
<1>5. ASSUME NEW p \in Pids, TossDone(p) \/ NoArchiver(p) \/ EndsLocked(p)
      PROVE  MailTypes'
  BY <1>5 DEF TossDone, NoArchiver, EndsLocked, TossEnds, Under, Leaves, Dies,
              Goto, Steps, lockVars,              fileVars, tossVars, mailVars, histVars
<1>6. ASSUME NEW p \in Pids, CreateFilelist(p) \/ Mark(p) \/ Skipped(p)
      PROVE  MailTypes'
  BY <1>6 DEF CreateFilelist, Mark, Skipped, Under, Steps, lockVars, fileVars,
              tossVars, mailVars, histVars
<1>7. ASSUME NEW p \in Pids, Send(p) PROVE MailTypes'
  <2>1. MaxGot \in Nat
    BY BoundsAssumption DEF MaxGot
  <2>2. got' \in [Mail -> 0..MaxGot]
    BY <1>7, <2>1 DEF Send
  <2>3. step' \in [Pids -> Steps]
    BY <1>7 DEF Send, Under, Steps
  <2> QED
    BY <1>7, <2>2, <2>3 DEF Send, lockVars, tossVars, mailVars, histVars
<1>8. ASSUME NEW p \in Pids, Truncate(p) \/ Disposed(p) PROVE MailTypes'
  BY <1>8 DEF Truncate, Disposed, Under, Steps, lockVars, tossVars, mailVars,
              histVars
<1>9. ASSUME NEW p \in Pids, SessionEnd(p) \/ SessionFails(p) PROVE MailTypes'
  BY <1>9 DEF SessionEnd, SessionFails, Forgotten, Under, Leaves, Goto, Steps,
              fileVars, tossVars, histVars
<1>10. ASSUME NEW p \in Pids, Crash(p) PROVE MailTypes'
  BY <1>10 DEF Crash, Forgotten, TossEnds, Dies, Steps, fileVars, tossVars
<1>11. ASSUME NEW p \in Pids, Reused(p) \/ Freed(p) PROVE MailTypes'
  BY <1>11 DEF Reused, Freed, PidReused, PidFreed, Goto, fileVars, tossVars,
               mailVars, histVars
<1>12. ASSUME LockAges \/ WeekPasses PROVE MailTypes'
  BY <1>12 DEF LockAges, SixHours, WeekPasses, lockVars, fileVars, tossVars,
               mailVars, histVars
<1>13. ASSUME Sweep PROVE MailTypes'
  <2>1. CASE SweepLooks
    BY <2>1 DEF SweepLooks, lockVars, fileVars, tossVars, mailVars, histVars
  <2>2. CASE SweepUnlinks
    <3>1. PICK s \in swept : /\ arc' = [arc EXCEPT ![s] = {}]
                             /\ swiped' = swiped \cup arc[s]
      BY <2>2 DEF SweepUnlinks
    <3>2. swiped' \subseteq Mail /\ arc' \in [Slots -> SUBSET Mail]
      BY <3>1
    <3> QED
      BY <2>2, <3>2 DEF SweepUnlinks, lockVars, tossVars, mailVars, histVars
  <2> QED
    BY <1>13, <2>1, <2>2 DEF Sweep
<1>14. ASSUME UNCHANGED vars PROVE MailTypes'
  BY <1>14 DEF vars, lockVars, fileVars, tossVars, mailVars, histVars
<1> QED
  BY <1>1, <1>2, <1>3, <1>4, <1>5, <1>6, <1>7, <1>8, <1>9, <1>10, <1>11,
     <1>12, <1>13, <1>14 DEF Next, Run, Toss, Session, Faults

\* Programs change their step one at a time: one that packs or sends holds
\* the lock before and after, and only one that starts is a new tosser.
LEMMA WorkStays ==
  ASSUME MInv, [Next]_vars
  PROVE  Working' /\ OneToss'
<1> USE DEF MInv, MailTypes, Working, OneToss, Tosses, Packing, Sending, Steps
<1>1. ASSUME NEW p \in Pids, StartToss(p) PROVE Working' /\ OneToss'
  BY <1>1 DEF StartToss, Starts, Begins, Goto, Tossing
<1>2. ASSUME NEW p \in Pids, StartMail(p) PROVE Working' /\ OneToss'
  BY <1>2 DEF StartMail, Starts, Begins, Goto
<1>3. ASSUME NEW p \in Pids, LockStepOf(p) PROVE Working' /\ OneToss'
  <2>1. pc[p] # "locked"
    BY <1>3 DEF LockStepOf, LockStep, UnlockStep, Create, LinkOk, LinkExists,
                ReadGone, ReadOwn, ReadOther, Age, ProbeStale, ProbeBusy,
                Unlink, AgainExists, UnlockOpen, UnlockUnlink, Fails, Goto
  <2>2. \A q \in Pids \ {p} : pc'[q] = pc[q]
    BY <1>3 DEF LockStepOf, LockStep, UnlockStep, Create, LinkOk, LinkExists,
                ReadGone, ReadOwn, ReadOther, Age, ProbeStale, ProbeBusy,
                Unlink, AgainExists, UnlockOpen, UnlockUnlink, Fails, Goto
  <2>3. step'[p] \in {step[p], "none"} /\ \A q \in Pids \ {p} : step'[q] = step[q]
    BY <1>3 DEF LockStepOf
  <2> QED
    BY <2>1, <2>2, <2>3
<1>4. ASSUME NEW p \in Pids, Toss(p) PROVE Working' /\ OneToss'
  BY <1>4 DEF Toss, TossStart, Archive, UnlinkPacket, Attach, TossDone, EndsLocked,
              Under, Leaves, Dies, Goto, lockVars
<1>5. ASSUME NEW p \in Pids, Session(p) PROVE Working' /\ OneToss'
  BY <1>5 DEF Session, CreateFilelist, Send, Mark, Truncate, Disposed,
              SessionEnd, Under, Leaves, Goto, lockVars
<1>6. ASSUME NEW p \in Pids, ArchiveFails(p) \/ Skipped(p)
      PROVE  Working' /\ OneToss'
  BY <1>6 DEF ArchiveFails, Skipped, Under, lockVars
<1>7. ASSUME NEW p \in Pids, NoArchiver(p) \/ SessionFails(p)
      PROVE  Working' /\ OneToss'
  BY <1>7 DEF NoArchiver, SessionFails, Under, Leaves, Goto, lockVars
<1>8. ASSUME NEW p \in Pids, Crash(p) PROVE Working' /\ OneToss'
  BY <1>8 DEF Crash, Dies
<1>9. ASSUME NEW p \in Pids, Reused(p) \/ Freed(p) PROVE Working' /\ OneToss'
  BY <1>9 DEF Reused, Freed, PidReused, PidFreed, Goto
<1>10. ASSUME LockAges \/ WeekPasses \/ Sweep \/ UNCHANGED vars
       PROVE  Working' /\ OneToss'
  BY <1>10 DEF LockAges, SixHours, WeekPasses, Sweep, SweepLooks, SweepUnlinks,
              sweepVars, lockVars, vars
<1> QED
  BY <1>1, <1>2, <1>3, <1>4, <1>5, <1>6, <1>7, <1>8, <1>9, <1>10
     DEF Next, Run, Faults

LEMMA PresentStays ==
  ASSUME MInv, [Next]_vars
  PROVE  Present'
<1> USE DEF MInv, MailTypes, Present
<1>1. ASSUME NEW p \in Pids, Archive(p) \/ ArchiveFails(p) \/ Truncate(p)
      PROVE  Present'
  BY <1>1 DEF Archive, ArchiveFails, Truncate
<1>2. ASSUME Sweep PROVE Present'
  BY <1>2 DEF Sweep, SweepLooks, SweepUnlinks, fileVars
<1>3. ASSUME UNCHANGED <<arc, there>> PROVE Present'
  BY <1>3
<1> QED
  BY <1>1, <1>2, <1>3
     DEF Next, Run, Toss, Session, Faults, StartToss, StartMail, Starts,
         LockStepOf, TossStart, UnlinkPacket, Attach, TossDone, CreateFilelist,
         Send, Mark, Disposed, SessionEnd, NoArchiver, EndsLocked, SessionFails, Skipped,
         Crash, Reused, Freed, LockAges, WeekPasses, vars, fileVars

\* The packet that mbfido is at stays what the archiver has added: it is the
\* only one, so no other changes pkt.
LEMMA PacketStays ==
  ASSUME MInv, [Next]_vars
  PROVE  PacketSafe'
<1> USE DEF MInv, MailTypes
<1>1. SUFFICES ASSUME NEW q \in Pids, step'[q] = "packed"
               PROVE  \E m \in Mail : m = pkt' /\ Safe(m)'
  BY DEF PacketSafe, Safe
<1>2. ASSUME step[q] = "packed", pkt' = pkt
      PROVE  \E m \in Mail : m = pkt' /\ Safe(m)'
  <2>1. PICK m \in Mail : m = pkt /\ Safe(m)
    BY <1>2 DEF PacketSafe, Safe
  <2>2. Safe(m)'
    BY <2>1, SafeStays
  <2> QED
    BY <1>2, <2>1, <2>2
<1>3. ASSUME Archive(q)
      PROVE  \E m \in Mail : m = pkt' /\ Safe(m)'
  <2>1. PICK m \in Mail : m = pkt'
    BY <1>3 DEF Archive
  <2>2. PICK s, nr \in Slots : arc' = [arc EXCEPT ![s] = After(s, nr, {pkt'})]
    BY <1>3 DEF Archive
  <2>3. m \in arc'[s]
    BY <2>1, <2>2 DEF After
  <2> QED
    BY <2>1, <2>3 DEF Safe
<1>4. ASSUME NEW p \in Pids, p # q, Archive(p) \/ ArchiveFails(p) \/ TossDone(p)
      PROVE  FALSE
  BY <1>1, <1>4 DEF Archive, ArchiveFails, TossDone, Under, OneToss, Tosses,
                    Packing
<1>5. ASSUME NEW p \in Pids, Crash(p) PROVE step[q] = "packed" /\ pkt' = pkt
  BY <1>1, <1>5 DEF Crash, Packing, OneToss, Tosses, tossVars
<1>6. ASSUME ArchiveFails(q) \/ TossDone(q) PROVE FALSE
  BY <1>1, <1>6 DEF ArchiveFails, TossDone, Under
<1>7. ASSUME NEW p \in Pids, StartToss(p) \/ StartMail(p) \/ LockStepOf(p)
      PROVE  step[q] = "packed" /\ pkt' = pkt
  BY <1>1, <1>7 DEF StartToss, StartMail, Starts, LockStepOf, tossVars
<1>8. ASSUME NEW p \in Pids, TossStart(p) \/ UnlinkPacket(p) \/ Attach(p)
      PROVE  step[q] = "packed" /\ pkt' = pkt
  BY <1>1, <1>8 DEF TossStart, UnlinkPacket, Attach, Under, tossVars
<1>9. ASSUME NEW p \in Pids, Session(p) \/ NoArchiver(p) \/ SessionFails(p)
                             \/ Skipped(p) \/ EndsLocked(p)
      PROVE  step[q] = "packed" /\ pkt' = pkt
  BY <1>1, <1>9 DEF Session, CreateFilelist, Send, Mark, Truncate, Disposed,
                    SessionEnd, NoArchiver, SessionFails, Skipped, EndsLocked,
                    Under,                    tossVars
<1>10. ASSUME NEW p \in Pids, Reused(p) \/ Freed(p)
       PROVE  step[q] = "packed" /\ pkt' = pkt
  BY <1>1, <1>10 DEF Reused, Freed, tossVars
<1>11. ASSUME LockAges \/ WeekPasses \/ Sweep \/ UNCHANGED vars
       PROVE  step[q] = "packed" /\ pkt' = pkt
  BY <1>1, <1>11 DEF LockAges, WeekPasses, Sweep, SweepLooks, SweepUnlinks,
              sweepVars, vars, tossVars
<1> QED
  BY <1>2, <1>3, <1>4, <1>5, <1>6, <1>7, <1>8, <1>9, <1>10, <1>11
     DEF Next, Run, Toss, Faults

\* A session truncates what the remote has; mbfido, working at the same time,
\* may have added to it, but that is a clash.
LEMMA SentStays ==
  ASSUME MInv, [Next]_vars
  PROVE  SentSafe'
<1> USE DEF MInv, MailTypes, Offered
<1>1. SUFFICES ASSUME NEW q \in Pids, step'[q] \in {"sent", "marked"},
                      NEW m \in arc'[Offered(q)'],
                      Offered(q)' \in Slots
               PROVE  got'[m] > 0 \/ clash'
  BY DEF SentSafe
<1> DEFINE Same == step[q] \in {"sent", "marked"} /\ list'[q] = list[q]
<1>2. ASSUME Same, m \in arc[Offered(q)], got' = got, clash => clash'
      PROVE  got'[m] > 0 \/ clash'
  BY <1>1, <1>2 DEF SentSafe
<1>3. ASSUME NEW p \in Pids, Archive(p) \/ ArchiveFails(p)
      PROVE  got'[m] > 0 \/ clash'
  <2>1. step[q] \in {"sent", "marked"}
    BY <1>1, <1>3 DEF Archive, ArchiveFails, Under
  <2>2. q \in Locked /\ Sending(q)
    BY <2>1 DEF Working, Sending, Locked
  <2> QED
    BY <1>3, <2>2 DEF Archive, ArchiveFails
<1>4. ASSUME NEW p \in Pids, Send(p) PROVE got'[m] > 0 \/ clash'
  <2>1. m \in Mail /\ MaxGot \in Nat /\ MaxGot >= 2
    BY <1>1, <1>4, BoundsAssumption, TypesStay DEF MaxGot
  <2>2. arc' = arc /\ list' = list /\ clash' = clash
    BY <1>4 DEF Send, mailVars, histVars
  <2>3. got[m] > 0 => got'[m] > 0
    BY <1>4, <2>1 DEF Send
  <2>4. CASE q = p
    <3>1. got'[m] = IF got[m] < MaxGot THEN got[m] + 1 ELSE got[m]
      BY <1>1, <1>4, <2>1, <2>2, <2>4 DEF Send
    <3> QED
      BY <3>1, <2>1
  <2>5. CASE q # p
    BY <1>1, <1>4, <2>2, <2>3, <2>5 DEF Send, Under, SentSafe
  <2> QED
    BY <2>4, <2>5
<1>5. ASSUME NEW p \in Pids, Truncate(p)
      PROVE  /\ Same /\ m \in arc[Offered(q)]
             /\ got' = got /\ clash' = clash
  BY <1>1, <1>5 DEF Truncate, Under, mailVars
<1>6. ASSUME NEW p \in Pids, Mark(p)
      PROVE  /\ Same /\ m \in arc[Offered(q)]
             /\ got' = got /\ clash' = clash
  BY <1>1, <1>6 DEF Mark, Under, mailVars, histVars
<1>7. ASSUME NEW p \in Pids,
             CreateFilelist(p) \/ Disposed(p) \/ SessionEnd(p) \/ Skipped(p)
      PROVE  /\ Same /\ m \in arc[Offered(q)]
             /\ got' = got /\ (clash => clash')
  BY <1>1, <1>7 DEF CreateFilelist, Disposed, SessionEnd, Skipped, Under,
                    fileVars, histVars
<1>8. ASSUME NEW p \in Pids, SessionFails(p) \/ Crash(p)
      PROVE  /\ Same /\ m \in arc[Offered(q)]
             /\ got' = got /\ clash' = clash
  BY <1>1, <1>8 DEF SessionFails, Crash, Forgotten, Under, fileVars
<1>9. ASSUME NEW p \in Pids, StartToss(p) \/ StartMail(p) \/ LockStepOf(p)
      PROVE  /\ Same /\ m \in arc[Offered(q)]
             /\ got' = got /\ clash' = clash
  BY <1>1, <1>9 DEF StartToss, StartMail, Starts, LockStepOf, fileVars,
                    mailVars, histVars
<1>10. ASSUME NEW p \in Pids, TossStart(p) \/ UnlinkPacket(p) \/ Attach(p)
       PROVE  /\ Same /\ m \in arc[Offered(q)]
              /\ got' = got /\ clash' = clash
  BY <1>1, <1>10 DEF TossStart, UnlinkPacket, Attach, Under, fileVars,
                     mailVars, histVars
<1>11. ASSUME NEW p \in Pids, TossDone(p) \/ NoArchiver(p) \/ EndsLocked(p)
       PROVE  /\ Same /\ m \in arc[Offered(q)]
              /\ got' = got /\ clash' = clash
  BY <1>1, <1>11 DEF TossDone, NoArchiver, EndsLocked, Under, fileVars, mailVars,
                     histVars
<1>12. ASSUME NEW p \in Pids, Reused(p) \/ Freed(p)
       PROVE  /\ Same /\ m \in arc[Offered(q)]
              /\ got' = got /\ clash' = clash
  BY <1>1, <1>12 DEF Reused, Freed, fileVars, mailVars, histVars
<1>13. ASSUME LockAges \/ WeekPasses \/ Sweep \/ UNCHANGED vars
       PROVE  /\ Same /\ m \in arc[Offered(q)]
              /\ got' = got /\ clash' = clash
  BY <1>1, <1>13 DEF LockAges, WeekPasses, Sweep, SweepLooks, SweepUnlinks,
              sweepVars, vars, fileVars, mailVars,
                     histVars
<1> HIDE DEF Same
<1> QED
  BY <1>2, <1>3, <1>4, <1>5, <1>6, <1>7, <1>8, <1>9, <1>10, <1>11, <1>12,
     <1>13 DEF Next, Run, Toss, Session, Faults

LEMMA KeptStays ==
  ASSUME MInv, [Next]_vars
  PROVE  MailKept'
<1> USE DEF MInv, MailTypes
<1>1. SUFFICES ASSUME NEW m \in Mail PROVE Kept(m)'
  BY DEF MailKept
<1>2. CASE Safe(m)
  <2>1. Safe(m)'
    BY <1>2, SafeStays
  <2> QED
    BY <2>1 DEF Safe, Kept
<1>3. CASE m \in new \cup queue
  <2>1. ASSUME NEW p \in Pids, StartToss(p) PROVE m \in new' \cup queue'
    BY <1>3, <2>1 DEF StartToss
  <2>2. ASSUME NEW p \in Pids, UnlinkPacket(p)
        PROVE  m \in new' \cup queue' \/ Safe(m)
    BY <1>3, <2>2 DEF UnlinkPacket, Under, PacketSafe
  <2>3. ASSUME UNCHANGED <<queue, new>> PROVE m \in new' \cup queue'
    BY <1>3, <2>3
  <2>4. m \in new' \cup queue' \/ Safe(m)
    BY <2>1, <2>2, <2>3
       DEF Next, Run, Toss, Session, Faults, StartMail, LockStepOf, TossStart,
           Archive, ArchiveFails, Attach, TossDone, NoArchiver, EndsLocked,
           CreateFilelist,
           Send, Mark, Truncate, Disposed, SessionEnd, SessionFails, Skipped,
           Crash, Reused, Freed, LockAges, WeekPasses, Sweep, SweepLooks, SweepUnlinks,
              sweepVars, vars
  <2> QED
    BY <1>2, <2>4 DEF Kept
<1> QED
  BY <1>2, <1>3 DEF MailKept, Kept, Safe

\* The invariant that keeps mail from being dropped holds in every state.
THEOREM MInvHolds == Spec => []MInv
<1>1. Init => MInv
  BY InitMInv
<1>2. MInv /\ [Next]_vars => MInv'
  BY TypesStay, WorkStays, PresentStays, PacketStays, SentStays, KeptStays
     DEF MInv
<1> QED
  BY <1>1, <1>2, PTL DEF Spec

\* A message is dropped when the remote has it, or after a clash, or when mbtask
\* unlinks the archive it is in, which was empty when it looked at it: what mbfido
\* unlinks is in an archive, and what mbcico truncates was sent.
THEOREM MailKeptHolds == Spec => []MailKept
<1>1. MInv => MailKept
  BY DEF MInv
<1> QED
  BY <1>1, MInvHolds, PTL

-----------------------------------------------------------------------------
(* The outbound is in order.                                               *)

\* The files and what the programs know of them have their types.
FileTypes == /\ there \subseteq Slots /\ old \subseteq there
             /\ orphan \subseteq Slots
             /\ flo \in Seq(Line)
             /\ cur \in Slots /\ attach \in BOOLEAN
             /\ handle \in [Pids -> BOOLEAN]
             /\ faults \in 0..MaxFaults /\ week \in BOOLEAN
             /\ \A p \in Pids : \A i \in DOMAIN list[p] :
                   i \in Nat /\ list[p][i] \in Slots

\* A packet is listed once, and is in the queue until it is unlinked.
Queued == /\ todo \subseteq queue /\ new \cap queue = {}
          /\ \A p \in Pids : step[p] = "packed" => pkt \in queue \ todo

\* What is sent, marked or truncated is on the list.
Offering == \A p \in Pids :
    step[p] \in {"sent", "marked", "disposed"} => DOMAIN list[p] # {}

\* These hold whatever becomes of the lock.
UInv == FileTypes /\ Queued /\ Offering

LessThan == {ss \in Nat \X Nat : ss[1] < ss[2]}

\* A set of numbers has a least one: this is how induction is done here.
LEMMA HasLeast ==
  ASSUME NEW S, S \subseteq Nat, S # {}
  PROVE  \E i \in S : \A j \in S : i <= j
<1>1. IsWellFoundedOn(LessThan, Nat)
  BY NatLessThanWellFounded DEF OpToRel, LessThan
<1>2. PICK i \in S : \A j \in S : <<j, i>> \notin LessThan
  BY <1>1, WFMin
<1>3. ASSUME NEW j \in S, j < i PROVE FALSE
  <2>1. /\ <<j, i>> \in Nat \X Nat
        /\ <<j, i>>[1] = j /\ <<j, i>>[2] = i
    OBVIOUS
  <2> QED
    BY <1>2, <1>3, <2>1 DEF LessThan
<1> QED
  BY <1>3

\* A program that has something to send is at a line of its list.
LEMMA FirstIsIn ==
  ASSUME NEW files, DOMAIN files \subseteq Nat, DOMAIN files # {}
  PROVE  First(files) \in DOMAIN files
BY HasLeast DEF First

LEMMA OfferedIsFile ==
  ASSUME FileTypes, NEW p \in Pids, DOMAIN list[p] # {}
  PROVE  /\ First(list[p]) \in DOMAIN list[p]
         /\ Offered(p) \in Slots
<1>1. DOMAIN list[p] \subseteq Nat
  BY DEF FileTypes
<1>2. First(list[p]) \in DOMAIN list[p]
  BY <1>1, FirstIsIn
<1> QED
  BY <1>2 DEF FileTypes, Offered

LEMMA ZeroIsSlot == 0 \in Slots /\ <<>> \in Seq(Line) /\ DOMAIN <<>> = {}
<1>1. 0 \in Slots
  BY BoundsAssumption DEF Slots
<1>2. <<>> \in Seq(Line)
  BY EmptySeq
<1>3. DOMAIN <<>> = {}
  BY EmptySeq, LenProperties
<1> QED
  BY <1>1, <1>2, <1>3

LEMMA LineIsOfFile ==
  ASSUME FileTypes
  PROVE  \A i \in DOMAIN flo : i \in Nat /\ flo[i].name \in Slots
<1>1. \A i \in DOMAIN flo : i \in 1..Len(flo) /\ flo[i] \in Line
  BY ElementOfSeq, LenProperties DEF FileTypes
<1> QED
  BY <1>1, LenProperties DEF FileTypes, Line

LEMMA InitUInv == Init => UInv
<1> SUFFICES ASSUME Init PROVE UInv
  OBVIOUS
<1>1. FileTypes
  <2>1. 0 \in 0..MaxFaults
    BY BoundsAssumption
  <2>2. \A p \in Pids : DOMAIN list[p] = {}
    BY ZeroIsSlot DEF Init
  <2> QED
    BY <2>1, <2>2, ZeroIsSlot DEF Init, FileTypes
<1> QED
  BY <1>1 DEF Init, UInv, Queued, Offering

LEMMA QueuedStays ==
  ASSUME MInv, UInv, [Next]_vars
  PROVE  Queued'
<1> USE DEF MInv, MailTypes, UInv, Queued
<1>1. ASSUME NEW p \in Pids, StartToss(p) PROVE Queued'
  BY <1>1 DEF StartToss, Starts, Tossing, Packing, tossVars
<1>2. ASSUME NEW p \in Pids, StartMail(p) \/ LockStepOf(p) PROVE Queued'
  BY <1>2 DEF StartMail, Starts, LockStepOf, tossVars
<1>3. ASSUME NEW p \in Pids, TossStart(p) \/ UnlinkPacket(p) \/ Attach(p)
      PROVE  Queued'
  BY <1>3 DEF TossStart, UnlinkPacket, Attach, Under, OneToss, Tosses, Packing,
     tossVars
<1>4. ASSUME NEW p \in Pids, Archive(p) \/ ArchiveFails(p) PROVE Queued'
  BY <1>4 DEF Archive, ArchiveFails, Under, OneToss, Tosses, Packing
<1>5. ASSUME NEW p \in Pids, TossDone(p) \/ NoArchiver(p) \/ EndsLocked(p)
      PROVE  Queued'
  BY <1>5 DEF TossDone, NoArchiver, EndsLocked, Under, OneToss, Tosses, Packing, tossVars,
     TossEnds
<1>6. ASSUME NEW p \in Pids, Session(p) PROVE Queued'
  BY <1>6 DEF Session, CreateFilelist, Send, Mark, Truncate, Disposed,
     SessionEnd, Under, tossVars
<1>7. ASSUME NEW p \in Pids, SessionFails(p) \/ Skipped(p) PROVE Queued'
  BY <1>7 DEF SessionFails, Skipped, Under, tossVars
<1>8. ASSUME NEW p \in Pids, Crash(p) PROVE Queued'
  BY <1>8 DEF Crash, TossEnds, Packing, OneToss, Tosses, tossVars
<1>9. ASSUME NEW p \in Pids, Reused(p) \/ Freed(p) PROVE Queued'
  BY <1>9 DEF Reused, Freed, tossVars
<1>10. ASSUME LockAges \/ WeekPasses \/ Sweep \/ UNCHANGED vars PROVE Queued'
  BY <1>10 DEF LockAges, WeekPasses, Sweep, SweepLooks, SweepUnlinks,
              sweepVars, vars, tossVars
<1> QED
  BY <1>1, <1>2, <1>3, <1>4, <1>5, <1>6, <1>7, <1>8, <1>9, <1>10
     DEF Next, Run, Toss, Faults

LEMMA OfferingStays ==
  ASSUME MInv, UInv, [Next]_vars
  PROVE  Offering'
<1> USE DEF MInv, MailTypes, UInv, Offering
<1>1. ASSUME NEW p \in Pids, StartToss(p) \/ StartMail(p) \/ LockStepOf(p)
      PROVE  Offering'
  BY <1>1 DEF StartToss, StartMail, Starts, LockStepOf, mailVars
<1>2. ASSUME NEW p \in Pids, Toss(p) \/ ArchiveFails(p) \/ NoArchiver(p)
      PROVE  Offering'
  BY <1>2 DEF Toss, TossStart, UnlinkPacket, Attach, Archive, TossDone,
     EndsLocked, ArchiveFails, NoArchiver, Under, mailVars
<1>3. ASSUME NEW p \in Pids, CreateFilelist(p) \/ SessionEnd(p) PROVE Offering'
  BY <1>3 DEF CreateFilelist, SessionEnd, Under
<1>4. ASSUME NEW p \in Pids, Send(p) \/ Mark(p) \/ Truncate(p) PROVE Offering'
  BY <1>4 DEF Send, Mark, Truncate, Under, mailVars
<1>5. ASSUME NEW p \in Pids, Disposed(p) \/ Skipped(p) PROVE Offering'
  BY <1>5 DEF Disposed, Skipped, Under
<1>6. ASSUME NEW p \in Pids, SessionFails(p) \/ Crash(p) PROVE Offering'
  BY <1>6 DEF SessionFails, Crash, Under, Forgotten
<1>7. ASSUME NEW p \in Pids, Reused(p) \/ Freed(p) PROVE Offering'
  BY <1>7 DEF Reused, Freed, mailVars
<1>8. ASSUME LockAges \/ WeekPasses \/ Sweep \/ UNCHANGED vars PROVE Offering'
  BY <1>8 DEF LockAges, WeekPasses, Sweep, SweepLooks, SweepUnlinks,
              sweepVars, vars, mailVars
<1> QED
  BY <1>1, <1>2, <1>3, <1>4, <1>5, <1>6, <1>7, <1>8
     DEF Next, Run, Session, Faults

LEMMA FilesStay ==
  ASSUME MInv, UInv, [Next]_vars
  PROVE  FileTypes'
<1> USE DEF MInv, MailTypes, UInv, FileTypes
<1>1. ASSUME NEW p \in Pids, StartToss(p) \/ StartMail(p) \/ LockStepOf(p)
      PROVE  FileTypes'
  BY <1>1 DEF StartToss, StartMail, Starts, LockStepOf, fileVars, tossVars,
     mailVars, histVars
<1>2. ASSUME NEW p \in Pids, TossStart(p) \/ UnlinkPacket(p) \/ TossDone(p)
                             \/ EndsLocked(p)
      PROVE  FileTypes'
  BY <1>2, ZeroIsSlot DEF TossStart, UnlinkPacket, TossDone, EndsLocked, TossEnds,
     fileVars, tossVars, mailVars, histVars
<1>3. ASSUME NEW p \in Pids, Attach(p) PROVE FileTypes'
  <2>1. [name |-> cur, sent |-> FALSE] \in Line
    BY DEF Line
  <2>2. flo' \in Seq(Line)
    BY <1>3, <2>1, AppendProperties DEF Attach
  <2> QED
    BY <1>3, <2>2 DEF Attach, mailVars
<1>4. ASSUME NEW p \in Pids, Archive(p) PROVE FileTypes'
  <2>1. PICK s, nr \in Slots : /\ there' = there \cup {s}
                               /\ old' = old \ {s} /\ cur' = s
                               /\ attach' = Fresh(s, nr)
    BY <1>4 DEF Archive
  <2>2. attach' \in BOOLEAN
    BY <2>1 DEF Fresh
  <2> QED
    BY <1>4, <2>1, <2>2 DEF Archive, mailVars
<1>5. ASSUME NEW p \in Pids, ArchiveFails(p) PROVE FileTypes'
  <2>1. faults' \in 0..MaxFaults
    BY <1>5, BoundsAssumption DEF ArchiveFails, Fault
  <2>2. PICK s, nr \in Slots, left \in {{}, {pkt'}} :
               /\ there' = IF arc'[s] = {} THEN there \ {s} ELSE there \cup {s}
               /\ arc' = [arc EXCEPT ![s] = After(s, nr, left)]
               /\ old' = IF left = {} THEN old \cap there' ELSE old \ {s}
               /\ cur' = s
               /\ orphan' = IF Fresh(s, nr) /\ left # {} THEN orphan \cup {s}
                            ELSE orphan
    BY <1>5 DEF ArchiveFails
  <2>3. left # {} => arc'[s] # {}
    BY <2>2 DEF After
  <2>4. old' \subseteq there'
    BY <2>2, <2>3
  <2> QED
    BY <1>5, <2>1, <2>2, <2>4 DEF ArchiveFails, mailVars
<1>6. ASSUME NEW p \in Pids, CreateFilelist(p) PROVE FileTypes'
  <2>1. \A i \in DOMAIN flo : i \in Nat /\ flo[i].name \in Slots
    BY LineIsOfFile
  <2>2. \A i \in DOMAIN Listed : i \in Nat /\ Listed[i] \in Slots
    BY <2>1 DEF Listed
  <2>3. list' = [list EXCEPT ![p] = Listed] /\ handle' \in [Pids -> BOOLEAN]
    BY <1>6 DEF CreateFilelist
  <2>4. \A q \in Pids : \A i \in DOMAIN list'[q] : i \in Nat /\ list'[q][i] \in Slots
    BY <2>2, <2>3
  <2> QED
    BY <1>6, <2>3, <2>4 DEF CreateFilelist, fileVars, tossVars
<1>7. ASSUME NEW p \in Pids, Send(p) \/ Reused(p) \/ Freed(p) PROVE FileTypes'
  BY <1>7 DEF Send, Reused, Freed, fileVars, tossVars, mailVars, histVars
<1>8. ASSUME NEW p \in Pids, Mark(p) PROVE FileTypes'
  <2>1. ASSUME NEW i \in DOMAIN flo
        PROVE  [flo EXCEPT ![i].sent = TRUE] \in Seq(Line)
    <3>1. flo[i] \in Line
      BY ElementOfSeq, LenProperties
    <3>2. [flo[i] EXCEPT !.sent = TRUE] \in Line
      BY <3>1 DEF Line
    <3>3. [flo EXCEPT ![i] = [flo[i] EXCEPT !.sent = TRUE]] \in Seq(Line)
      BY <3>2, ExceptSeq
    <3> QED
      BY <3>3
  <2>2. flo' \in Seq(Line)
    BY <1>8, <2>1 DEF Mark
  <2> QED
    BY <1>8, <2>2 DEF Mark, tossVars, mailVars, histVars
<1>9. ASSUME NEW p \in Pids, Truncate(p) PROVE FileTypes'
  <2>1. Offered(p) \in Slots
    BY <1>9, OfferedIsFile DEF Truncate, Under, Offering
  <2> QED
    BY <1>9, <2>1 DEF Truncate, tossVars, mailVars
<1>10. ASSUME NEW p \in Pids, Disposed(p) \/ SessionEnd(p) PROVE FileTypes'
  <2>1. flo' \in Seq(Line) /\ handle' \in [Pids -> BOOLEAN]
    BY <1>10, ZeroIsSlot DEF Disposed, SessionEnd, CleanFlo
  <2>2. \A q \in Pids : \A i \in DOMAIN list'[q] : i \in Nat /\ list'[q][i] \in Slots
    BY <1>10 DEF Disposed, SessionEnd, Rest
  <2> QED
    BY <1>10, <2>1, <2>2 DEF Disposed, SessionEnd, tossVars, histVars
<1>11. ASSUME NEW p \in Pids, SessionFails(p) \/ Skipped(p) \/ NoArchiver(p)
       PROVE  FileTypes'
  <2>1. faults' \in 0..MaxFaults
    BY <1>11, BoundsAssumption DEF SessionFails, Skipped, NoArchiver, Fault
  <2>2. \A q \in Pids : \A i \in DOMAIN list'[q] : i \in Nat /\ list'[q][i] \in Slots
    BY <1>11 DEF SessionFails, Skipped, NoArchiver, Forgotten, Rest, mailVars
  <2>3. handle' \in [Pids -> BOOLEAN]
    BY <1>11 DEF SessionFails, Skipped, NoArchiver, Forgotten, mailVars
  <2> QED
    BY <1>11, <2>1, <2>2, <2>3 DEF SessionFails, Skipped, NoArchiver, fileVars,
       tossVars
<1>12. ASSUME NEW p \in Pids, Crash(p) PROVE FileTypes'
  <2>1. faults' \in 0..MaxFaults
    BY <1>12, BoundsAssumption DEF Crash, Fault
  <2>2. step[p] = "marked" => Offered(p) \in Slots
    BY OfferedIsFile DEF Offering
  <2>3. orphan' \subseteq Slots
    BY <1>12, <2>2 DEF Crash
  <2>4. cur' \in Slots /\ attach' \in BOOLEAN
    BY <1>12, ZeroIsSlot DEF Crash, TossEnds, tossVars
  <2>5. /\ handle' \in [Pids -> BOOLEAN]
        /\ \A q \in Pids : \A i \in DOMAIN list'[q] : i \in Nat /\ list'[q][i] \in Slots
    BY <1>12 DEF Crash, Forgotten
  <2> QED
    BY <1>12, <2>1, <2>3, <2>4, <2>5 DEF Crash, fileVars
<1>13. ASSUME LockAges \/ WeekPasses \/ Sweep PROVE FileTypes'
  <2>1. faults' \in 0..MaxFaults
    BY <1>13, BoundsAssumption DEF LockAges, WeekPasses, Sweep, SweepLooks, SweepUnlinks,
              sweepVars, Fault, histVars
  <2> QED
    BY <1>13, <2>1 DEF LockAges, WeekPasses, Sweep, SweepLooks, SweepUnlinks,
              sweepVars, fileVars, tossVars,
       mailVars, histVars
<1>14. ASSUME UNCHANGED vars PROVE FileTypes'
  BY <1>14 DEF vars, fileVars, tossVars, mailVars, histVars
<1> QED
  BY <1>1, <1>2, <1>3, <1>4, <1>5, <1>6, <1>7, <1>8, <1>9, <1>10, <1>11, <1>12,
     <1>13, <1>14 DEF Next, Run, Toss, Session, Faults

-----------------------------------------------------------------------------
(* What holds until a running program loses its lock.                      *)

\* An unsent line names an archive with mail in it, and no two the same one.
LinesFull == \A i \in DOMAIN flo : ~flo[i].sent => arc[flo[i].name] # {}

OneLine == \A i, j \in DOMAIN flo :
    ~flo[i].sent /\ ~flo[j].sent /\ flo[i].name = flo[j].name => i = j

\* A program is about to attach archive s, which has mail and no unsent line.
Attaching(s) == \E p \in Pids : /\ step[p] \in {"packed", "unlinked"}
                                /\ attach /\ cur = s

NewFull == \A s \in Slots : Attaching(s) => arc[s] # {} /\ ~Unsent(s)

\* A list is of lines of the .flo file, unsent but for the one that is through
\* with the remote; without that file there is nothing to send.
Behind(p, i) == step[p] \in {"marked", "disposed"} /\ i = First(list[p])

Fits(p) == IF handle[p]
           THEN \A i \in DOMAIN list[p] : /\ i \in DOMAIN flo
                                          /\ flo[i].name = list[p][i]
                                          /\ flo[i].sent <=> Behind(p, i)
           ELSE flo = <<>> /\ DOMAIN list[p] = {}

ListFits == \A p \in Pids : Sending(p) => Fits(p)

\* The line that was marked was the only one of its archive.
MarkedAll == \A p \in Pids : step[p] = "marked" => ~Unsent(Offered(p))

Lined == \A s \in Slots :
    arc[s] # {} => \/ Unsent(s) \/ s \in orphan \/ Attaching(s)
                   \/ \E p \in Pids : step[p] = "marked" /\ Offered(p) = s

\* The mail in archive s is going to be sent: it has an unsent line and the
\* remote has not just got it, or a program is about to attach it.
Bound(s) == \/ Unsent(s) /\ \A p \in Pids : step[p] = "sent" => Offered(p) # s
            \/ Attaching(s)

\* A packet of message m is still to come, or to be packed.
Coming(m) == /\ m \in new \cup queue
             /\ \A p \in Pids : step[p] = "packed" => pkt # m

Copies(m) == {s \in Slots : m \in arc[s] /\ Bound(s)}

\* How often the remote gets m if there is no other fault.
Count(m) == got[m] + Cardinality(Copies(m)) + (IF Coming(m) THEN 1 ELSE 0)

Counted == \A m \in Mail : Count(m) <= 1 + faults

Order == /\ LinesFull /\ OneLine /\ NewFull /\ ListFits /\ MarkedAll /\ Lined
         /\ Counted

LEMMA Subsets ==
  ASSUME NEW A, NEW B, A \subseteq Slots, B \subseteq Slots
  PROVE  /\ Cardinality(A) \in Nat /\ Cardinality(B) \in Nat
         /\ A \subseteq B => Cardinality(A) <= Cardinality(B)
         /\ \A x \in Slots : A \subseteq B \cup {x} => Cardinality(A) <= Cardinality(B) + 1
         /\ \A x \in B : A \subseteq B \ {x} => Cardinality(A) + 1 <= Cardinality(B)
<1>1. IsFiniteSet(Slots)
  BY FS_Interval, BoundsAssumption DEF Slots
<1>2. IsFiniteSet(A) /\ IsFiniteSet(B)
  BY <1>1, FS_Subset
<1>3. Cardinality(A) \in Nat /\ Cardinality(B) \in Nat
  BY <1>2, FS_CardinalityType
<1>4. A \subseteq B => Cardinality(A) <= Cardinality(B)
  BY <1>2, FS_Subset
<1>5. ASSUME NEW x \in Slots, A \subseteq B \cup {x}
      PROVE  Cardinality(A) <= Cardinality(B) + 1
  <2>1. /\ IsFiniteSet(B \cup {x})
        /\ \/ Cardinality(B \cup {x}) = Cardinality(B)
           \/ Cardinality(B \cup {x}) = Cardinality(B) + 1
    BY <1>2, FS_AddElement
  <2>2. Cardinality(A) <= Cardinality(B \cup {x}) /\ Cardinality(B \cup {x}) \in Nat
    BY <1>5, <2>1, FS_Subset, FS_CardinalityType
  <2> QED
    BY <1>3, <2>1, <2>2
<1>6. ASSUME NEW x \in B, A \subseteq B \ {x}
      PROVE  Cardinality(A) + 1 <= Cardinality(B)
  <2>1. /\ IsFiniteSet(B \ {x})
        /\ Cardinality(B \ {x}) = Cardinality(B) - 1
    BY <1>2, FS_RemoveElement
  <2>2. Cardinality(A) <= Cardinality(B \ {x})
    BY <1>6, <2>1, FS_Subset
  <2> QED
    BY <1>3, <2>1, <2>2
<1> QED
  BY <1>3, <1>4, <1>5, <1>6

\* What a step may do to the count of a message.
LEMMA CountStays ==
  ASSUME MInv, MInv', UInv, UInv', NEW m \in Mail, Count(m) <= 1 + faults,
         \/ /\ got'[m] = got[m] /\ faults' >= faults
            /\ Copies(m)' \subseteq Copies(m)
            /\ Coming(m)' => Coming(m)
         \/ /\ got'[m] = got[m] /\ faults' >= faults
            /\ \E s \in Slots : Copies(m)' \subseteq Copies(m) \cup {s}
            /\ Coming(m) /\ ~Coming(m)'
         \/ /\ got'[m] <= got[m] + 1 /\ faults' >= faults
            /\ \E s \in Copies(m) : Copies(m)' \subseteq Copies(m) \ {s}
            /\ Coming(m)' => Coming(m)
         \/ /\ got'[m] = got[m] /\ faults' = faults + 1
            /\ \E s \in Slots : Copies(m)' \subseteq Copies(m) \cup {s}
            /\ Coming(m)' => Coming(m)
         \/ /\ got'[m] = got[m] /\ faults' = faults + 1
            /\ Copies(m)' \subseteq Copies(m)
  PROVE  Count(m)' <= 1 + faults'
<1> DEFINE B == Copies(m)
           A == Copies(m)'
<1>1. A \subseteq Slots /\ B \subseteq Slots
  BY DEF Copies
<1>2. /\ got[m] \in Nat /\ got'[m] \in Nat /\ faults \in Nat /\ faults' \in Nat
  BY BoundsAssumption DEF MInv, MailTypes, UInv, FileTypes, MaxGot
<1>3. Count(m) = got[m] + Cardinality(B) + (IF Coming(m) THEN 1 ELSE 0)
  BY DEF Count
<1>4. Count(m)' = got'[m] + Cardinality(A) + (IF Coming(m)' THEN 1 ELSE 0)
  BY DEF Count
<1> DEFINE a == IF Coming(m)' THEN 1 ELSE 0
           b == IF Coming(m) THEN 1 ELSE 0
<1> HIDE DEF A, B
<1>5. Cardinality(A) \in Nat /\ Cardinality(B) \in Nat
  BY <1>1, Subsets
<1>6. /\ A \subseteq B => Cardinality(A) <= Cardinality(B)
      /\ \A x \in Slots : A \subseteq B \cup {x} => Cardinality(A) <= Cardinality(B) + 1
      /\ \A x \in B : A \subseteq B \ {x} => Cardinality(A) + 1 <= Cardinality(B)
  BY <1>1, Subsets
<1>7. a \in 0..1 /\ b \in 0..1
  OBVIOUS
<1>8. got'[m] + Cardinality(A) + a <= 1 + faults'
  <2>1. got[m] + Cardinality(B) + b <= 1 + faults
    BY <1>3
  <2> HIDE DEF a, b
  <2>2. CASE /\ got'[m] = got[m] /\ faults' >= faults
             /\ A \subseteq B /\ a <= b
    <3>1. Cardinality(A) <= Cardinality(B)
      BY <2>2, <1>6
    <3> QED
      BY <2>1, <2>2, <3>1, <1>2, <1>5, <1>7
  <2>3. CASE /\ got'[m] = got[m] /\ faults' >= faults
             /\ \E s \in Slots : A \subseteq B \cup {s}
             /\ b = 1 /\ a = 0
    <3>1. Cardinality(A) <= Cardinality(B) + 1
      BY <2>3, <1>6
    <3> QED
      BY <2>1, <2>3, <3>1, <1>2, <1>5, <1>7
  <2>4. CASE /\ got'[m] <= got[m] + 1 /\ faults' >= faults
             /\ \E s \in B : A \subseteq B \ {s}
             /\ a <= b
    <3>1. Cardinality(A) + 1 <= Cardinality(B)
      BY <2>4, <1>6
    <3> QED
      BY <2>1, <2>4, <3>1, <1>2, <1>5, <1>7
  <2>5. CASE /\ got'[m] = got[m] /\ faults' = faults + 1
             /\ \E s \in Slots : A \subseteq B \cup {s}
             /\ a <= b
    <3>1. Cardinality(A) <= Cardinality(B) + 1
      BY <2>5, <1>6
    <3> QED
      BY <2>1, <2>5, <3>1, <1>2, <1>5, <1>7
  <2>6. CASE /\ got'[m] = got[m] /\ faults' = faults + 1
             /\ A \subseteq B
    <3>1. Cardinality(A) <= Cardinality(B)
      BY <2>6, <1>6
    <3> QED
      BY <2>1, <2>6, <3>1, <1>2, <1>5, <1>7
  <2>7. (Coming(m)' => Coming(m)) => a <= b
    BY DEF a, b
  <2>8. Coming(m) /\ ~Coming(m)' => b = 1 /\ a = 0
    BY DEF a, b
  <2>9. \/ /\ got'[m] = got[m] /\ faults' >= faults
           /\ A \subseteq B /\ (Coming(m)' => Coming(m))
        \/ /\ got'[m] = got[m] /\ faults' >= faults
           /\ \E s \in Slots : A \subseteq B \cup {s}
           /\ Coming(m) /\ ~Coming(m)'
        \/ /\ got'[m] <= got[m] + 1 /\ faults' >= faults
           /\ \E s \in B : A \subseteq B \ {s}
           /\ (Coming(m)' => Coming(m))
        \/ /\ got'[m] = got[m] /\ faults' = faults + 1
           /\ \E s \in Slots : A \subseteq B \cup {s}
           /\ (Coming(m)' => Coming(m))
        \/ /\ got'[m] = got[m] /\ faults' = faults + 1
           /\ A \subseteq B
    BY DEF A, B
  <2> QED
    BY <2>2, <2>3, <2>4, <2>5, <2>6, <2>7, <2>8, <2>9
<1> QED
  BY <1>4, <1>8

\* A step that leaves the archives, the lines and the sessions alone.
Still == /\ UNCHANGED <<arc, flo, got>>
         /\ orphan \subseteq orphan' /\ faults' >= faults
         /\ \A s \in Slots : Attaching(s)' <=> Attaching(s)
         /\ \A m \in Mail : Coming(m)' => Coming(m)
         /\ \A p \in Pids : Sending(p) \/ Sending(p)' =>
               step'[p] = step[p] /\ list'[p] = list[p] /\ handle'[p] = handle[p]

LEMMA StillKeepsOrder ==
  ASSUME MInv, MInv', UInv, UInv', Order, Still
  PROVE  Order'
<1> USE DEF Order, Still
<1>1. LinesFull' /\ OneLine'
  BY DEF LinesFull, OneLine
<1>2. \A s : Unsent(s)' <=> Unsent(s)
  BY DEF Unsent
<1>3. NewFull'
  BY <1>2 DEF NewFull
<1>4. \A p \in Pids : Sending(p)' => Fits(p)'
  <2> SUFFICES ASSUME NEW p \in Pids, Sending(p)' PROVE Fits(p)'
    OBVIOUS
  <2>1. Sending(p) /\ step'[p] = step[p] /\ list'[p] = list[p] /\ handle'[p] = handle[p]
    BY DEF Sending
  <2> QED
    BY <2>1 DEF ListFits, Fits, Behind
<1>5. \A p \in Pids : (Sending(p) \/ Sending(p)') => Offered(p)' = Offered(p)
  BY DEF Offered
<1>6. MarkedAll'
  BY <1>2, <1>5 DEF MarkedAll, Sending
<1>7. Lined'
  BY <1>2, <1>5 DEF Lined, Sending
<1>8. \A s \in Slots : Bound(s)' => Bound(s)
  BY <1>2, <1>5 DEF Bound, Sending
<1>9. ASSUME NEW m \in Mail PROVE Count(m)' <= 1 + faults'
  <2>1. Copies(m)' \subseteq Copies(m)
    BY <1>8 DEF Copies
  <2>2. Count(m) <= 1 + faults
    BY DEF Counted
  <2>3. got'[m] = got[m] /\ (Coming(m)' => Coming(m))
    OBVIOUS
  <2> QED
    BY <2>1, <2>2, <2>3, CountStays
<1> QED
  BY <1>1, <1>3, <1>4, <1>6, <1>7, <1>9 DEF ListFits, Counted

\* The others do not work in the outbound.
Solo(p) == \A q \in Pids : q # p => ~Packing(q) /\ ~Sending(q)

LEMMA WorksAlone ==
  ASSUME IInv, MInv, broken = {}, NEW p \in Pids,
         pc[p] = "locked" \/ Packing(p) \/ Sending(p)
  PROVE  Solo(p)
BY DEF IInv, OwnersHold, Owns, MInv, Working, Solo

\* The archive that is to be a new one is empty, the other one is not.
LEMMA ChosenIsFull ==
  ASSUME MInv, NEW s \in Slots, NEW nr \in Slots, Chosen(s, nr)
  PROVE  Fresh(s, nr) <=> arc[s] = {}
<1>1. Fresh(s, nr) => arc[s] = {}
  BY DEF Fresh, MInv, Present
<1>2. ASSUME ~Fresh(s, nr), arc[s] = {} PROVE FALSE
  <2>1. ~(nr < MaxNr)
    BY <1>2 DEF Chosen, Settles, Full
  <2>2. nr # MaxNr
    BY <1>2 DEF Fresh
  <2> QED
    BY <2>1, <2>2, BoundsAssumption DEF Slots
<1> QED
  BY <1>1, <1>2

LEMMA ArchiveOrder ==
  ASSUME MInv, MInv', UInv, UInv', Order, NEW p \in Pids, Solo(p), Archive(p)
  PROVE  Order'
<1> USE DEF Order
<1>1. PICK s, nr \in Slots : /\ Chosen(s, nr)
                             /\ arc' = [arc EXCEPT ![s] = After(s, nr, {pkt'})]
                             /\ cur' = s
                             /\ attach' = Fresh(s, nr)
  BY DEF Archive
<1>2. /\ \A t \in Slots : t # s => arc'[t] = arc[t]
      /\ arc'[s] = IF arc[s] = {} THEN {pkt'} ELSE arc[s] \cup {pkt'}
      /\ attach' <=> arc[s] = {}
  BY <1>1, ChosenIsFull DEF MInv, MailTypes, After
<1>3. /\ step[p] = "pick" /\ step'[p] = "packed"
      /\ \A q \in Pids : q # p => step'[q] = step[q] /\ ~Packing(q) /\ ~Sending(q)
      /\ pkt' \in todo
      /\ UNCHANGED <<queue, new, flo, got, list, handle, orphan, faults>>
  BY DEF Archive, Under, Solo, MInv, MailTypes, mailVars
<1>4. /\ \A t \in Slots : (Unsent(t)' <=> Unsent(t)) /\ ~Attaching(t)
      /\ \A t \in Slots : Attaching(t)' <=> (t = s /\ arc[s] = {})
      /\ \A q \in Pids : ~Sending(q) /\ ~Sending(q)'
  BY <1>1, <1>2, <1>3 DEF Unsent, Attaching, Packing, Sending
<1>5. \A t \in Slots : Unsent(t) => arc[t] # {}
  BY DEF Unsent, LinesFull
<1>6. LinesFull'
  <2>1. \A i \in DOMAIN flo : flo[i].name \in Slots
    BY LineIsOfFile DEF UInv
  <2> QED
    BY <1>2, <1>3, <2>1 DEF LinesFull
<1>7. OneLine'
  BY <1>3 DEF OneLine
<1>8. NewFull'
  BY <1>2, <1>4, <1>5 DEF NewFull
<1>9. ListFits' /\ MarkedAll'
  BY <1>4 DEF ListFits, MarkedAll, Sending
<1>10. Lined'
  <2> SUFFICES ASSUME NEW t \in Slots, arc'[t] # {}
               PROVE  Unsent(t)' \/ t \in orphan' \/ Attaching(t)'
    BY DEF Lined
  <2>1. CASE arc[t] = {}
    BY <1>2, <1>4, <2>1
  <2>2. CASE arc[t] # {}
    BY <1>3, <1>4, <2>2 DEF Lined, Sending
  <2> QED
    BY <2>1, <2>2
<1>11. \A t \in Slots : /\ Bound(t) <=> Unsent(t)
                        /\ Bound(t)' <=> Unsent(t) \/ (t = s /\ arc[s] = {})
  BY <1>4 DEF Bound, Sending
<1>12. ASSUME NEW m \in Mail PROVE Count(m)' <= 1 + faults'
  <2>1. CASE m = pkt'
    <3>1. Copies(m)' \subseteq Copies(m) \cup {s}
      BY <1>2, <1>11 DEF Copies
    <3>2. Coming(m)
      BY <1>3, <2>1 DEF Coming, Packing, UInv, Queued
    <3>3. ~Coming(m)'
      BY <1>3, <2>1 DEF Coming
    <3> QED
      BY <1>3, <3>1, <3>2, <3>3, CountStays DEF Counted, UInv, FileTypes
  <2>2. CASE m # pkt'
    <3>1. Copies(m)' \subseteq Copies(m)
      BY <1>2, <1>11, <2>2 DEF Copies
    <3>2. Coming(m)' => Coming(m)
      BY <1>3 DEF Coming, Packing
    <3> QED
      BY <1>3, <3>1, <3>2, CountStays DEF Counted, UInv, FileTypes
  <2> QED
    BY <2>1, <2>2
<1> QED
  BY <1>6, <1>7, <1>8, <1>9, <1>10, <1>12 DEF Counted

LEMMA ArchiveFailsOrder ==
  ASSUME MInv, MInv', UInv, UInv', Order, NEW p \in Pids, Solo(p), ArchiveFails(p)
  PROVE  Order'
<1> USE DEF Order
<1>1. PICK s, nr \in Slots, left \in {{}, {pkt'}} :
             /\ Chosen(s, nr)
             /\ arc' = [arc EXCEPT ![s] = After(s, nr, left)]
             /\ orphan' = IF Fresh(s, nr) /\ left # {} THEN orphan \cup {s}
                          ELSE orphan
  BY DEF ArchiveFails
<1>2. /\ \A t \in Slots : t # s => arc'[t] = arc[t]
      /\ arc'[s] = IF arc[s] = {} THEN left ELSE arc[s] \cup left
      /\ orphan' = IF arc[s] = {} /\ left # {} THEN orphan \cup {s} ELSE orphan
  BY <1>1, ChosenIsFull DEF MInv, MailTypes, After
<1>3. /\ step[p] = "pick" /\ step'[p] = "pick"
      /\ \A q \in Pids : q # p => step'[q] = step[q] /\ ~Packing(q) /\ ~Sending(q)
      /\ faults' = faults + 1
      /\ UNCHANGED <<queue, new, flo, got, list, handle>>
  BY DEF ArchiveFails, Fault, Under, Solo, MInv, MailTypes, mailVars
<1>4. /\ \A t \in Slots : Unsent(t)' <=> Unsent(t)
      /\ \A t \in Slots : ~Attaching(t) /\ ~Attaching(t)'
      /\ \A q \in Pids : ~Sending(q) /\ ~Sending(q)'
  BY <1>3 DEF Unsent, Attaching, Packing, Sending
<1>5. \A t \in Slots : Unsent(t) => arc[t] # {}
  BY DEF Unsent, LinesFull
<1>6. LinesFull'
  <2>1. \A i \in DOMAIN flo : flo[i].name \in Slots
    BY LineIsOfFile DEF UInv
  <2> QED
    BY <1>2, <1>3, <2>1 DEF LinesFull
<1>7. OneLine' /\ NewFull'
  BY <1>3, <1>4 DEF OneLine, NewFull
<1>8. ListFits' /\ MarkedAll'
  BY <1>4 DEF ListFits, MarkedAll, Sending
<1>9. Lined'
  <2> SUFFICES ASSUME NEW t \in Slots, arc'[t] # {}
               PROVE  Unsent(t)' \/ t \in orphan'
    BY DEF Lined
  <2>1. CASE arc[t] = {}
    BY <1>2, <1>4, <2>1
  <2>2. CASE arc[t] # {}
    BY <1>2, <1>4, <2>2 DEF Lined, Sending
  <2> QED
    BY <2>1, <2>2
<1>10. \A t \in Slots : (Bound(t) <=> Unsent(t)) /\ (Bound(t)' <=> Unsent(t))
  BY <1>4 DEF Bound, Sending
<1>11. ASSUME NEW m \in Mail PROVE Count(m)' <= 1 + faults'
  <2>1. Copies(m)' \subseteq Copies(m) \cup {s}
    BY <1>2, <1>10 DEF Copies
  <2>2. Coming(m)' => Coming(m)
    BY <1>3 DEF Coming, Packing
  <2> QED
    BY <1>3, <2>1, <2>2, CountStays DEF Counted
<1> QED
  BY <1>6, <1>7, <1>8, <1>9, <1>11 DEF Counted

LEMMA AttachOrder ==
  ASSUME MInv, MInv', UInv, UInv', Order, NEW p \in Pids, Solo(p), Attach(p)
  PROVE  Order'
<1> USE DEF Order
<1>1. /\ step[p] = "unlinked" /\ step'[p] = "pick"
      /\ \A q \in Pids : q # p => step'[q] = step[q] /\ ~Packing(q) /\ ~Sending(q)
      /\ UNCHANGED <<queue, new, arc, got, list, handle, faults>>
      /\ cur \in Slots
  BY DEF Attach, Under, Solo, MInv, MailTypes, UInv, FileTypes, mailVars
<1>2. /\ DOMAIN flo = 1..Len(flo) /\ Len(flo) \in Nat
      /\ attach => /\ DOMAIN flo' = 1..(Len(flo) + 1)
                   /\ \A i \in DOMAIN flo : flo'[i] = flo[i]
                   /\ flo'[Len(flo) + 1] = [name |-> cur, sent |-> FALSE]
      /\ ~attach => flo' = flo
  <2>1. flo \in Seq(Line) /\ [name |-> cur, sent |-> FALSE] \in Line
    BY <1>1 DEF UInv, FileTypes, Line
  <2> QED
    BY <2>1, AppendProperties, LenProperties DEF Attach
<1>3. /\ \A t \in Slots : Attaching(t) <=> attach /\ t = cur
      /\ \A t \in Slots : ~Attaching(t)'
      /\ \A q \in Pids : ~Sending(q) /\ ~Sending(q)'
  BY <1>1 DEF Attaching, Packing, Sending
<1>4. \A t \in Slots : Unsent(t)' <=> Unsent(t) \/ (attach /\ t = cur)
  BY <1>2 DEF Unsent
<1>5. LinesFull'
  <2>1. attach => arc[cur] # {}
    BY <1>1, <1>3 DEF NewFull
  <2>2. CASE attach
    <3> SUFFICES ASSUME NEW i \in DOMAIN flo', ~flo'[i].sent
                 PROVE  arc'[flo'[i].name] # {}
      BY DEF LinesFull
    <3>1. CASE i = Len(flo) + 1
      BY <1>1, <1>2, <2>1, <2>2, <3>1
    <3>2. CASE i \in DOMAIN flo
      BY <1>1, <1>2, <2>2, <3>2 DEF LinesFull
    <3> QED
      BY <1>2, <2>2, <3>1, <3>2
  <2>3. CASE ~attach
    BY <1>1, <1>2, <2>3 DEF LinesFull
  <2> QED
    BY <2>2, <2>3
<1>6. OneLine'
  <2>1. ASSUME attach, NEW i \in DOMAIN flo, ~flo[i].sent, flo[i].name = cur
        PROVE  FALSE
    BY <1>1, <1>3, <2>1 DEF NewFull, Unsent
  <2>2. CASE attach
    <3> SUFFICES ASSUME NEW i \in DOMAIN flo', NEW j \in DOMAIN flo',
                        ~flo'[i].sent, ~flo'[j].sent, flo'[i].name = flo'[j].name
                 PROVE  i = j
      BY DEF OneLine
    <3>1. CASE i \in DOMAIN flo /\ j \in DOMAIN flo
      BY <1>2, <2>2, <3>1 DEF OneLine
    <3>2. CASE i = Len(flo) + 1 /\ j \in DOMAIN flo
      BY <1>2, <2>1, <2>2, <3>2
    <3>3. CASE j = Len(flo) + 1 /\ i \in DOMAIN flo
      BY <1>2, <2>1, <2>2, <3>3
    <3> QED
      BY <1>2, <2>2, <3>1, <3>2, <3>3
  <2>3. CASE ~attach
    BY <1>2, <2>3 DEF OneLine
  <2> QED
    BY <2>2, <2>3
<1>7. NewFull' /\ ListFits' /\ MarkedAll'
  BY <1>3 DEF NewFull, ListFits, MarkedAll, Sending
<1>8. Lined'
  BY <1>1, <1>3, <1>4 DEF Lined, Sending, Attach
<1>9. \A t \in Slots : Bound(t)' <=> Bound(t)
  BY <1>3, <1>4 DEF Bound, Sending
<1>10. ASSUME NEW m \in Mail PROVE Count(m)' <= 1 + faults'
  <2>1. Copies(m)' \subseteq Copies(m)
    BY <1>1, <1>9 DEF Copies
  <2>2. Coming(m)' => Coming(m)
    BY <1>1 DEF Coming, Packing
  <2> QED
    BY <1>1, <2>1, <2>2, CountStays DEF Counted, UInv, FileTypes
<1> QED
  BY <1>5, <1>6, <1>7, <1>8, <1>10 DEF Counted

LEMMA CreateOrder ==
  ASSUME MInv, MInv', UInv, UInv', Order, NEW p \in Pids, Solo(p), CreateFilelist(p)
  PROVE  Order'
<1> USE DEF Order
<1>1. /\ step[p] = "call" /\ step'[p] = "send"
      /\ \A q \in Pids : q # p => step'[q] = step[q] /\ ~Packing(q) /\ ~Sending(q)
      /\ list'[p] = Listed /\ handle'[p] = (flo # <<>>)
      /\ UNCHANGED <<queue, new, arc, got, flo, cur, attach, orphan, faults>>
  BY DEF CreateFilelist, Under, Solo, MInv, MailTypes, UInv, FileTypes,
     fileVars, tossVars
<1>2. /\ \A t \in Slots : ~Attaching(t) /\ ~Attaching(t)'
      /\ \A t \in Slots : Unsent(t)' <=> Unsent(t)
      /\ \A q \in Pids : ~Sending(q)
      /\ \A q \in Pids : Sending(q)' => q = p
  BY <1>1 DEF Attaching, Packing, Sending, Unsent
<1>3. LinesFull' /\ OneLine' /\ NewFull'
  BY <1>1, <1>2 DEF LinesFull, OneLine, NewFull
<1>4. Fits(p)'
  <2>1. CASE flo = <<>>
    BY <1>1, <2>1, ZeroIsSlot DEF Fits, Listed
  <2>2. CASE flo # <<>>
    BY <1>1, <2>2 DEF Fits, Listed, Behind
  <2> QED
    BY <2>1, <2>2
<1>5. ListFits' /\ MarkedAll'
  BY <1>1, <1>2, <1>4 DEF ListFits, MarkedAll, Sending
<1>6. Lined'
  BY <1>1, <1>2 DEF Lined, Sending
<1>7. \A t \in Slots : Bound(t)' => Bound(t)
  BY <1>1, <1>2 DEF Bound, Sending
<1>8. ASSUME NEW m \in Mail PROVE Count(m)' <= 1 + faults'
  <2>1. Copies(m)' \subseteq Copies(m)
    BY <1>1, <1>7 DEF Copies
  <2>2. Coming(m)' => Coming(m)
    BY <1>1 DEF Coming, Packing
  <2> QED
    BY <1>1, <2>1, <2>2, CountStays DEF Counted, UInv, FileTypes
<1> QED
  BY <1>3, <1>5, <1>6, <1>8 DEF Counted

\* What a program that is sending knows of the line it is at.
LEMMA OfferedIsUnsent ==
  ASSUME UInv, Order, NEW p \in Pids, DOMAIN list[p] # {}, Sending(p)
  PROVE  /\ handle[p]
         /\ First(list[p]) \in DOMAIN list[p] /\ First(list[p]) \in DOMAIN flo
         /\ flo[First(list[p])].name = Offered(p)
         /\ flo[First(list[p])].sent <=> step[p] \in {"marked", "disposed"}
         /\ step[p] \in {"send", "sent"} => Unsent(Offered(p))
         /\ Offered(p) \in Slots
<1>1. Fits(p) /\ First(list[p]) \in DOMAIN list[p] /\ Offered(p) \in Slots
  BY OfferedIsFile DEF UInv, Order, ListFits
<1>2. flo[First(list[p])].name = Offered(p)
  BY <1>1 DEF Fits, Offered
<1> QED
  BY <1>1, <1>2 DEF Fits, Behind, Unsent

LEMMA SendOrder ==
  ASSUME MInv, MInv', UInv, UInv', Order, NEW p \in Pids, Solo(p), Send(p)
  PROVE  Order'
<1> USE DEF Order
<1>1. /\ step[p] = "send" /\ step'[p] = "sent"
      /\ \A q \in Pids : q # p => step'[q] = step[q] /\ ~Packing(q) /\ ~Sending(q)
      /\ DOMAIN list[p] # {} /\ Offered(p)' = Offered(p)
      /\ UNCHANGED <<queue, new, arc, list, handle, flo, cur, attach, orphan, faults>>
  BY DEF Send, Under, Solo, MInv, MailTypes, tossVars, mailVars, histVars,
     Offered
<1>2. Unsent(Offered(p)) /\ Offered(p) \in Slots
  BY <1>1, OfferedIsUnsent DEF Sending
<1>3. /\ \A t \in Slots : ~Attaching(t) /\ ~Attaching(t)'
      /\ \A t : Unsent(t)' <=> Unsent(t)
      /\ \A q \in Pids : Sending(q) <=> q = p
      /\ \A q \in Pids : Sending(q)' <=> q = p
  BY <1>1 DEF Attaching, Packing, Sending, Unsent
<1>4. LinesFull' /\ OneLine' /\ NewFull'
  BY <1>1, <1>3 DEF LinesFull, OneLine, NewFull
<1>5. ListFits'
  BY <1>1, <1>3 DEF ListFits, Fits, Behind
<1>6. MarkedAll' /\ Lined'
  BY <1>1, <1>3 DEF MarkedAll, Lined, Sending
<1>7. /\ \A t \in Slots : Bound(t) <=> Unsent(t)
      /\ \A t \in Slots : Bound(t)' <=> Unsent(t) /\ t # Offered(p)
  BY <1>1, <1>3 DEF Bound, Sending
<1>8. ASSUME NEW m \in Mail PROVE Count(m)' <= 1 + faults'
  <2>1. Coming(m)' => Coming(m)
    BY <1>1 DEF Coming, Packing
  <2>2. MaxGot \in Nat /\ got[m] \in Nat /\ faults \in Nat
    BY BoundsAssumption DEF MaxGot, MInv, MailTypes, UInv, FileTypes
  <2>3. CASE m \in arc[Offered(p)]
    <3>1. Offered(p) \in Copies(m) /\ Copies(m)' \subseteq Copies(m) \ {Offered(p)}
      BY <1>1, <1>2, <1>7, <2>3 DEF Copies
    <3>2. got'[m] <= got[m] + 1
      BY <2>2 DEF Send
    <3> QED
      BY <1>1, <2>1, <2>2, <3>1, <3>2, CountStays DEF Counted
  <2>4. CASE m \notin arc[Offered(p)]
    <3>1. Copies(m)' \subseteq Copies(m)
      BY <1>1, <1>7 DEF Copies
    <3>2. got'[m] = got[m]
      BY <2>4 DEF Send
    <3> QED
      BY <1>1, <2>1, <2>2, <3>1, <3>2, CountStays DEF Counted
  <2> QED
    BY <2>3, <2>4
<1> QED
  BY <1>4, <1>5, <1>6, <1>8 DEF Counted

LEMMA MarkOrder ==
  ASSUME MInv, MInv', UInv, UInv', Order, NEW p \in Pids, Solo(p), Mark(p)
  PROVE  Order'
<1> USE DEF Order
<1> DEFINE k == First(list[p])
<1>1. /\ step[p] = "sent" /\ step'[p] = "marked"
      /\ \A q \in Pids : q # p => step'[q] = step[q] /\ ~Packing(q) /\ ~Sending(q)
      /\ DOMAIN list[p] # {} /\ Offered(p)' = Offered(p)
      /\ UNCHANGED <<queue, new, arc, got, list, handle, cur, attach, orphan, faults>>
  BY DEF Mark, Under, Solo, MInv, MailTypes, UInv, Offering, tossVars,
     mailVars, histVars, Offered
<1>2. /\ handle[p] /\ k \in DOMAIN list[p] /\ k \in DOMAIN flo
      /\ flo[k].name = Offered(p) /\ ~flo[k].sent
      /\ Unsent(Offered(p)) /\ Offered(p) \in Slots
  BY <1>1, OfferedIsUnsent DEF Sending
<1>3. /\ DOMAIN flo' = DOMAIN flo
      /\ \A i \in DOMAIN flo : /\ flo'[i].name = flo[i].name
                               /\ flo'[i].sent = IF i = k THEN TRUE ELSE flo[i].sent
  <2>1. flo' = [flo EXCEPT ![k].sent = TRUE]
    BY <1>2 DEF Mark
  <2>2. \A i \in DOMAIN flo : flo[i] \in Line
    BY ElementOfSeq, LenProperties DEF UInv, FileTypes
  <2> HIDE DEF k
  <2> QED
    BY <2>1, <2>2 DEF Line
<1>4. /\ \A t \in Slots : ~Attaching(t) /\ ~Attaching(t)'
      /\ \A q \in Pids : Sending(q) <=> q = p
      /\ \A q \in Pids : Sending(q)' <=> q = p
  BY <1>1 DEF Attaching, Packing, Sending
<1>5. LinesFull'
  BY <1>1, <1>3 DEF LinesFull
<1>6. OneLine'
  BY <1>3 DEF OneLine
<1>7. NewFull'
  BY <1>4 DEF NewFull
<1>8. ListFits'
  <2>1. Fits(p)
    BY <1>4 DEF ListFits
  <2>2. \A i \in DOMAIN list[p] : /\ i \in DOMAIN flo /\ flo[i].name = list[p][i]
                                 /\ ~flo[i].sent
    BY <1>1, <1>2, <2>1 DEF Fits, Behind
  <2>3. \A i \in DOMAIN list[p] : Behind(p, i)' <=> i = k
    BY <1>1 DEF Behind
  <2>4. \A i \in DOMAIN list[p] : flo'[i].sent <=> i = k
    BY <1>3, <2>2
  <2>5. Fits(p)'
    BY <1>1, <1>2, <1>3, <2>2, <2>3, <2>4 DEF Fits
  <2> QED
    BY <1>4, <2>5 DEF ListFits
<1>9. \A t \in Slots : Unsent(t)' <=> Unsent(t) /\ t # Offered(p)
  <2> SUFFICES ASSUME NEW t \in Slots
               PROVE  Unsent(t)' <=> Unsent(t) /\ t # Offered(p)
    OBVIOUS
  <2>1. ASSUME NEW i \in DOMAIN flo, ~flo'[i].sent, flo'[i].name = t
        PROVE  Unsent(t) /\ t # Offered(p)
    BY <1>2, <1>3, <2>1 DEF Unsent, OneLine
  <2>2. ASSUME NEW i \in DOMAIN flo, ~flo[i].sent, flo[i].name = t, t # Offered(p)
        PROVE  Unsent(t)'
    BY <1>2, <1>3, <2>2 DEF Unsent
  <2> QED
    BY <1>3, <2>1, <2>2 DEF Unsent
<1>10. MarkedAll' /\ Lined'
  BY <1>1, <1>2, <1>4, <1>9 DEF MarkedAll, Lined, Sending
<1>11. \A t \in Slots : Bound(t)' => Bound(t)
  BY <1>1, <1>4, <1>9 DEF Bound, Sending
<1>12. ASSUME NEW m \in Mail PROVE Count(m)' <= 1 + faults'
  <2>1. Copies(m)' \subseteq Copies(m)
    BY <1>1, <1>11 DEF Copies
  <2>2. Coming(m)' => Coming(m)
    BY <1>1 DEF Coming, Packing
  <2> QED
    BY <1>1, <2>1, <2>2, CountStays DEF Counted, UInv, FileTypes
<1> QED
  BY <1>5, <1>6, <1>7, <1>8, <1>10, <1>12 DEF Counted

LEMMA TruncateOrder ==
  ASSUME MInv, MInv', UInv, UInv', Order, NEW p \in Pids, Solo(p), Truncate(p)
  PROVE  Order'
<1> USE DEF Order
<1>1. /\ step[p] = "marked" /\ step'[p] = "disposed"
      /\ \A q \in Pids : q # p => step'[q] = step[q] /\ ~Packing(q) /\ ~Sending(q)
      /\ DOMAIN list[p] # {}
      /\ arc' = [arc EXCEPT ![Offered(p)] = {}]
      /\ orphan' = orphan \ {Offered(p)}
      /\ UNCHANGED <<queue, new, got, list, handle, flo, cur, attach, faults>>
  BY DEF Truncate, Under, Solo, MInv, MailTypes, UInv, Offering, tossVars,
     mailVars
<1>2. Offered(p) \in Slots /\ ~Unsent(Offered(p))
  BY <1>1, OfferedIsUnsent DEF MarkedAll, Sending
<1>3. /\ \A t \in Slots : t # Offered(p) => arc'[t] = arc[t]
      /\ arc'[Offered(p)] = {}
  BY <1>1, <1>2 DEF MInv, MailTypes
<1>4. /\ \A t \in Slots : ~Attaching(t) /\ ~Attaching(t)'
      /\ \A t : Unsent(t)' <=> Unsent(t)
      /\ \A q \in Pids : Sending(q) <=> q = p
      /\ \A q \in Pids : Sending(q)' <=> q = p
  BY <1>1 DEF Attaching, Packing, Sending, Unsent
<1>5. LinesFull'
  <2>1. \A i \in DOMAIN flo : flo[i].name \in Slots
    BY LineIsOfFile DEF UInv
  <2> QED
    BY <1>1, <1>2, <1>3, <2>1 DEF LinesFull, Unsent
<1>6. OneLine' /\ NewFull'
  BY <1>1, <1>4 DEF OneLine, NewFull
<1>7. ListFits'
  BY <1>1, <1>4 DEF ListFits, Fits, Behind
<1>8. MarkedAll' /\ Lined'
  BY <1>1, <1>3, <1>4 DEF MarkedAll, Lined, Sending
<1>9. \A t \in Slots : Bound(t)' => Bound(t)
  BY <1>1, <1>4 DEF Bound, Sending
<1>10. ASSUME NEW m \in Mail PROVE Count(m)' <= 1 + faults'
  <2>1. Copies(m)' \subseteq Copies(m)
    BY <1>3, <1>9 DEF Copies
  <2>2. Coming(m)' => Coming(m)
    BY <1>1 DEF Coming, Packing
  <2> QED
    BY <1>1, <2>1, <2>2, CountStays DEF Counted, UInv, FileTypes
<1> QED
  BY <1>5, <1>6, <1>7, <1>8, <1>10 DEF Counted

\* When the .flo file is removed it has no unsent line.
LEMMA CleanFloKeeps ==
  ASSUME MInv, UInv, Order, NEW p \in Pids, Solo(p), CleanFlo(p), Sending(p)
  PROVE  /\ \A t \in Slots : Unsent(t)' <=> Unsent(t)
         /\ \/ UNCHANGED <<flo, handle>>
            \/ /\ flo' = <<>> /\ DOMAIN flo' = {}
               /\ handle'[p] = FALSE
               /\ \A i \in DOMAIN flo : flo[i].sent
<1>1. CASE UNCHANGED <<flo, handle>>
  BY <1>1 DEF Unsent
<1>2. CASE /\ flo' = <<>> /\ handle' = [q \in Pids |-> FALSE]
           /\ ~(handle[p] /\ \E i \in DOMAIN flo : ~flo[i].sent)
  <2>1. \A i \in DOMAIN flo : flo[i].sent
    BY <1>2, ZeroIsSlot DEF Order, ListFits, Fits
  <2> QED
    BY <1>2, <2>1, ZeroIsSlot DEF Unsent
<1> QED
  BY <1>1, <1>2 DEF CleanFlo

LEMMA DisposedOrder ==
  ASSUME MInv, MInv', UInv, UInv', Order, NEW p \in Pids, Solo(p),
         Disposed(p) \/ SessionEnd(p)
  PROVE  Order'
<1> USE DEF Order
<1>1. /\ \/ /\ step[p] = "disposed" /\ step'[p] = "send" /\ DOMAIN list[p] # {}
            /\ list'[p] = Rest(list[p])
         \/ /\ step[p] = "send" /\ step'[p] = "none"
      /\ \A q \in Pids : q # p => step'[q] = step[q] /\ ~Packing(q) /\ ~Sending(q)
      /\ CleanFlo(p)
      /\ UNCHANGED <<queue, new, arc, got, cur, attach, orphan, faults>>
  BY DEF Disposed, SessionEnd, Under, Solo, MInv, MailTypes, UInv, Offering,
     tossVars, histVars
<1>2. /\ \A t \in Slots : Unsent(t)' <=> Unsent(t)
      /\ \/ UNCHANGED <<flo, handle>>
         \/ /\ flo' = <<>> /\ DOMAIN flo' = {}
            /\ handle'[p] = FALSE
            /\ \A i \in DOMAIN flo : flo[i].sent
  BY <1>1, CleanFloKeeps DEF Sending
<1>3. /\ \A t \in Slots : ~Attaching(t) /\ ~Attaching(t)'
      /\ \A q \in Pids : Sending(q) <=> q = p
      /\ \A q \in Pids : Sending(q)' => q = p
  BY <1>1 DEF Attaching, Packing, Sending
<1>4. LinesFull' /\ OneLine' /\ NewFull'
  BY <1>1, <1>2, <1>3 DEF LinesFull, OneLine, NewFull
<1>5. ListFits'
  <2> SUFFICES ASSUME Sending(p)' PROVE Fits(p)'
    BY <1>3 DEF ListFits
  <2>1. /\ step[p] = "disposed" /\ step'[p] = "send" /\ DOMAIN list[p] # {}
        /\ list'[p] = Rest(list[p])
    BY <1>1 DEF Sending
  <2>2. /\ handle[p]
        /\ \A i \in DOMAIN list[p] : /\ i \in DOMAIN flo
                                     /\ flo[i].name = list[p][i]
                                     /\ flo[i].sent <=> i = First(list[p])
    BY <2>1, <1>3, OfferedIsUnsent DEF ListFits, Fits, Behind
  <2>3. /\ DOMAIN list'[p] = DOMAIN list[p] \ {First(list[p])}
        /\ \A i \in DOMAIN list'[p] : list'[p][i] = list[p][i]
    BY <2>1 DEF Rest
  <2>4. \A i \in DOMAIN list'[p] : /\ i \in DOMAIN flo /\ ~flo[i].sent
                                   /\ flo[i].name = list'[p][i]
    BY <2>2, <2>3
  <2>5. CASE UNCHANGED <<flo, handle>>
    BY <2>1, <2>2, <2>4, <2>5 DEF Fits, Behind
  <2>6. CASE /\ flo' = <<>> /\ handle'[p] = FALSE
             /\ \A i \in DOMAIN flo : flo[i].sent
    <3>1. DOMAIN list'[p] = {}
      BY <2>4, <2>6
    <3> QED
      BY <2>6, <3>1 DEF Fits
  <2> QED
    BY <1>2, <2>5, <2>6
<1>6. MarkedAll' /\ Lined'
  BY <1>1, <1>2, <1>3 DEF MarkedAll, Lined, Sending
<1>7. \A t \in Slots : Bound(t)' => Bound(t)
  BY <1>1, <1>2, <1>3 DEF Bound, Sending
<1>8. ASSUME NEW m \in Mail PROVE Count(m)' <= 1 + faults'
  <2>1. Copies(m)' \subseteq Copies(m)
    BY <1>1, <1>7 DEF Copies
  <2>2. Coming(m)' => Coming(m)
    BY <1>1 DEF Coming, Packing
  <2> QED
    BY <1>1, <2>1, <2>2, CountStays DEF Counted, UInv, FileTypes
<1> QED
  BY <1>4, <1>5, <1>6, <1>8 DEF Counted

LEMMA SessionFailsOrder ==
  ASSUME MInv, MInv', UInv, UInv', Order, NEW p \in Pids, Solo(p),
         SessionFails(p) \/ Skipped(p)
  PROVE  Order'
<1> USE DEF Order
<1>1. /\ \/ step[p] \in {"call", "send", "sent"} /\ step'[p] = "none"
         \/ /\ step[p] = "send" /\ step'[p] = "send" /\ list'[p] = Rest(list[p])
            /\ handle'[p] = handle[p] /\ DOMAIN list[p] # {}
      /\ \A q \in Pids : q # p => step'[q] = step[q] /\ ~Packing(q) /\ ~Sending(q)
      /\ faults' = faults + 1
      /\ UNCHANGED <<queue, new, arc, flo, got, cur, attach, orphan>>
  BY DEF SessionFails, Skipped, Under, Fault, Solo, MInv, MailTypes, fileVars,
     tossVars
<1>2. /\ \A t \in Slots : ~Attaching(t) /\ ~Attaching(t)'
      /\ \A t : Unsent(t)' <=> Unsent(t)
      /\ \A q \in Pids : Sending(q) => q = p
      /\ \A q \in Pids : Sending(q)' => q = p
  BY <1>1 DEF Attaching, Packing, Sending, Unsent
<1>3. LinesFull' /\ OneLine' /\ NewFull'
  BY <1>1, <1>2 DEF LinesFull, OneLine, NewFull
<1>4. ListFits'
  <2> SUFFICES ASSUME Sending(p)' PROVE Fits(p)'
    BY <1>2 DEF ListFits
  <2>1. /\ step[p] = "send" /\ step'[p] = "send" /\ list'[p] = Rest(list[p])
        /\ handle'[p] = handle[p] /\ DOMAIN list[p] # {}
    BY <1>1 DEF Sending
  <2> QED
    BY <1>1, <2>1, OfferedIsUnsent DEF ListFits, Fits, Behind, Rest, Sending
<1>5. MarkedAll' /\ Lined'
  BY <1>1, <1>2 DEF MarkedAll, Lined, Sending
<1>6. ASSUME NEW m \in Mail PROVE Count(m)' <= 1 + faults'
  <2>1. Coming(m)' => Coming(m)
    BY <1>1 DEF Coming, Packing
  <2>2. CASE step[p] = "sent"
    <3>1. Offered(p) \in Slots
      BY <2>2, OfferedIsFile DEF UInv, Offering
    <3>2. \A t \in Slots : Bound(t)' => Bound(t) \/ t = Offered(p)
      BY <1>1, <1>2, <2>2 DEF Bound, Sending
    <3>3. Copies(m)' \subseteq Copies(m) \cup {Offered(p)}
      BY <1>1, <3>2 DEF Copies
    <3> QED
      BY <1>1, <2>1, <3>1, <3>3, CountStays DEF Counted
  <2>3. CASE step[p] # "sent"
    <3>1. \A t \in Slots : Bound(t)' => Bound(t)
      BY <1>1, <1>2, <2>3 DEF Bound, Sending
    <3>2. Copies(m)' \subseteq Copies(m)
      BY <1>1, <3>1 DEF Copies
    <3> QED
      BY <1>1, <2>1, <3>2, CountStays DEF Counted
  <2> QED
    BY <2>2, <2>3
<1> QED
  BY <1>3, <1>4, <1>5, <1>6 DEF Counted

LEMMA CrashOrder ==
  ASSUME MInv, MInv', UInv, UInv', Order, NEW p \in Pids, Solo(p), Crash(p)
  PROVE  Order'
<1> USE DEF Order
<1>1. /\ step'[p] = "none"
      /\ \A q \in Pids : q # p => step'[q] = step[q] /\ ~Packing(q) /\ ~Sending(q)
      /\ faults' = faults + 1 /\ orphan \subseteq orphan'
      /\ step[p] \in {"packed", "unlinked"} /\ attach => cur \in orphan'
      /\ step[p] = "marked" => Offered(p) \in orphan'
      /\ UNCHANGED <<queue, new, arc, flo, got>>
  BY DEF Crash, Fault, Solo, MInv, MailTypes, fileVars
<1>2. /\ \A t \in Slots : ~Attaching(t)'
      /\ \A t \in Slots : Attaching(t) => step[p] \in {"packed", "unlinked"} /\ attach /\ t = cur
      /\ \A t : Unsent(t)' <=> Unsent(t)
      /\ \A q \in Pids : Sending(q) => q = p
      /\ \A q \in Pids : ~Sending(q)'
  BY <1>1 DEF Attaching, Packing, Sending, Unsent
<1>3. LinesFull' /\ OneLine' /\ NewFull'
  BY <1>1, <1>2 DEF LinesFull, OneLine, NewFull
<1>4. ListFits' /\ MarkedAll'
  BY <1>2 DEF ListFits, MarkedAll, Sending
<1>5. Lined'
  BY <1>1, <1>2 DEF Lined, Sending
<1>6. ASSUME NEW m \in Mail PROVE Count(m)' <= 1 + faults'
  <2>1. CASE step[p] = "sent"
    <3>1. Offered(p) \in Slots
      BY <2>1, OfferedIsFile DEF UInv, Offering
    <3>2. \A t \in Slots : Bound(t)' => Bound(t) \/ t = Offered(p)
      BY <1>1, <1>2, <2>1 DEF Bound, Sending
    <3>3. Copies(m)' \subseteq Copies(m) \cup {Offered(p)}
      BY <1>1, <3>2 DEF Copies
    <3>4. Coming(m)' => Coming(m)
      BY <1>1, <2>1 DEF Coming, Packing
    <3> QED
      BY <1>1, <3>1, <3>3, <3>4, CountStays DEF Counted
  <2>2. CASE step[p] # "sent"
    <3>1. \A t \in Slots : Bound(t)' => Bound(t)
      BY <1>1, <1>2, <2>2 DEF Bound, Sending
    <3>2. Copies(m)' \subseteq Copies(m)
      BY <1>1, <3>1 DEF Copies
    <3> QED
      BY <1>1, <3>2, CountStays DEF Counted
  <2> QED
    BY <2>1, <2>2
<1> QED
  BY <1>3, <1>4, <1>5, <1>6 DEF Counted

LEMMA BrokenStays ==
  ASSUME [Next]_vars
  PROVE  broken \subseteq broken'
<1>1. [LockNext]_lockVars
  BY StepOfLock
<1> QED
  BY <1>1 DEF LockNext, Begins, LockStep, Create, LinkOk, LinkExists, ReadGone,
              ReadOwn, ReadOther, Age, ProbeStale, ProbeBusy, Unlink,
              AgainExists, Fails, Leaves, UnlockStep, UnlockOpen, UnlockUnlink,
              Dies, PidReused, PidFreed, SixHours, lockVars, histLock

LEMMA SwipedStays ==
  ASSUME [Next]_vars
  PROVE  swiped \subseteq swiped'
<1>1. ASSUME NEW p \in Pids, StartToss(p) \/ StartMail(p) \/ LockStepOf(p) \/ Freed(p)
      PROVE  swiped' = swiped
  BY <1>1 DEF StartToss, StartMail, Starts, LockStepOf, Freed, sweepVars
<1>2. ASSUME NEW p \in Pids, Toss(p) PROVE swiped' = swiped
  BY <1>2 DEF Toss, TossStart, Archive, UnlinkPacket, Attach, TossDone,
              EndsLocked, sweepVars
<1>3. ASSUME NEW p \in Pids, Session(p) PROVE swiped' = swiped
  BY <1>3 DEF Session, CreateFilelist, Send, Mark, Truncate, Disposed,
              SessionEnd, sweepVars
<1>4. ASSUME NEW p \in Pids, Faults(p) PROVE swiped' = swiped
  BY <1>4 DEF Faults, ArchiveFails, NoArchiver, SessionFails, Skipped, Crash,
              Reused, sweepVars
<1>5. ASSUME LockAges \/ WeekPasses \/ Sweep \/ UNCHANGED vars
      PROVE  swiped \subseteq swiped'
  BY <1>5 DEF LockAges, WeekPasses, Sweep, SweepLooks, SweepUnlinks,
              sweepVars, vars
<1> QED
  BY <1>1, <1>2, <1>3, <1>4, <1>5 DEF Next, Run

\* A program that is not at work in the outbound starts, ends or dies.
LEMMA IdleIsStill ==
  ASSUME MInv, NEW p \in Pids, ~Packing(p), ~Sending(p),
         ~Packing(p)', ~Sending(p)',
         \A q \in Pids : q # p => step'[q] = step[q] /\ list'[q] = list[q]
                                  /\ handle'[q] = handle[q],
         UNCHANGED <<arc, flo, got, pkt, cur, attach, orphan>>,
         new' \cup queue' = new \cup queue, faults' >= faults
  PROVE  Still
<1>1. \A s \in Slots : Attaching(s)' <=> Attaching(s)
  BY DEF Attaching, Packing
<1>2. \A m \in Mail : Coming(m)' => Coming(m)
  BY DEF Coming, Packing
<1>3. \A q \in Pids : Sending(q) \/ Sending(q)' => q # p
  OBVIOUS
<1> QED
  BY <1>1, <1>2, <1>3 DEF Still

LEMMA OthersKeepOrder ==
  ASSUME IInv, MInv, MInv', UInv, UInv', Order, broken = {}, swiped' = {},
         \/ \E p \in Pids : \/ StartToss(p) \/ StartMail(p) \/ LockStepOf(p)
                            \/ TossStart(p) \/ UnlinkPacket(p) \/ TossDone(p)
                            \/ NoArchiver(p) \/ EndsLocked(p) \/ Reused(p) \/ Freed(p)
                            \/ Crash(p) /\ ~Packing(p) /\ ~Sending(p)
         \/ LockAges \/ WeekPasses \/ Sweep \/ UNCHANGED vars
  PROVE  Order'
<1> USE DEF MInv, MailTypes
<1>1. faults \in Nat
  BY BoundsAssumption DEF UInv, FileTypes
<1>2. ASSUME NEW p \in Pids, StartToss(p) \/ StartMail(p) PROVE Still
  <2>1. ~Packing(p) /\ ~Sending(p)
    BY <1>2 DEF StartToss, StartMail, Starts, Begins, Goto, Working
  <2>2. /\ step'[p] \in {"start", "call"}
        /\ \A q \in Pids : q # p => step'[q] = step[q]
        /\ new' \cup queue' = new \cup queue
        /\ UNCHANGED <<fileVars, tossVars, mailVars, histVars>>
    BY <1>2 DEF StartToss, StartMail, Starts
  <2>3. ~Packing(p)' /\ ~Sending(p)'
    BY <2>2 DEF Packing, Sending
  <2> QED
    BY <1>1, <2>1, <2>2, <2>3, IdleIsStill DEF fileVars, tossVars, mailVars,
       histVars
<1>3. ASSUME NEW p \in Pids, LockStepOf(p) PROVE Still
  <2>1. pc[p] # "locked"
    BY <1>3 DEF LockStepOf, LockStep, UnlockStep, Create, LinkOk, LinkExists,
                ReadGone, ReadOwn, ReadOther, Age, ProbeStale, ProbeBusy,
                Unlink, AgainExists, UnlockOpen, UnlockUnlink, Fails, Goto
  <2>2. ~Packing(p) /\ ~Sending(p)
    BY <2>1 DEF Working
  <2>3. /\ step'[p] \in {"none", step[p]}
        /\ \A q \in Pids : q # p => step'[q] = step[q]
        /\ UNCHANGED <<queue, new, fileVars, tossVars, mailVars, histVars>>
    BY <1>3 DEF LockStepOf
  <2>4. ~Packing(p)' /\ ~Sending(p)'
    BY <2>2, <2>3 DEF Packing, Sending
  <2> QED
    BY <1>1, <2>2, <2>3, <2>4, IdleIsStill DEF fileVars, tossVars, mailVars,
       histVars
<1>4. ASSUME NEW p \in Pids,
             \/ NoArchiver(p) \/ EndsLocked(p)
             \/ Crash(p) /\ ~Packing(p) /\ ~Sending(p)
      PROVE  Still
  <2>1. ~Packing(p) /\ ~Sending(p)
    BY <1>4 DEF NoArchiver, EndsLocked, Under, Packing, Sending
  <2>2. /\ step'[p] \in {"none", "left"}
        /\ \A q \in Pids : q # p => step'[q] = step[q] /\ list'[q] = list[q]
                                    /\ handle'[q] = handle[q]
        /\ UNCHANGED <<queue, new, fileVars, tossVars, orphan>>
        /\ faults' >= faults
    BY <1>1, <1>4, <2>1 DEF NoArchiver, EndsLocked, Crash, Under, Fault, Forgotten,
       Packing, Sending, mailVars, histVars, UInv, FileTypes
  <2>3. ~Packing(p)' /\ ~Sending(p)'
    BY <2>2 DEF Packing, Sending
  <2> QED
    BY <1>1, <2>1, <2>2, <2>3, IdleIsStill DEF fileVars, tossVars
<1>5. ASSUME NEW p \in Pids, TossStart(p) \/ TossDone(p) PROVE Still
  <2>1. /\ pc[p] = "locked" /\ step[p] \in {"start", "pick"}
        /\ step'[p] \in {"pick", "none"}
        /\ \A q \in Pids : q # p => step'[q] = step[q]
        /\ UNCHANGED <<queue, new, fileVars, mailVars, histVars>>
    BY <1>5 DEF TossStart, TossDone, Under
  <2>2. Solo(p)
    BY <2>1, WorksAlone
  <2>3. \A s \in Slots : ~Attaching(s)' /\ ~Attaching(s)
    BY <2>1, <2>2 DEF Solo, Attaching, Packing
  <2>4. \A m \in Mail : Coming(m)' => Coming(m)
    BY <2>1, <2>2 DEF Solo, Coming, Packing
  <2>5. \A q \in Pids : ~Sending(q) /\ ~Sending(q)'
    BY <2>1, <2>2 DEF Solo, Sending
  <2> QED
    BY <1>1, <2>1, <2>3, <2>4, <2>5 DEF Still, fileVars, histVars
<1>6. ASSUME NEW p \in Pids, UnlinkPacket(p) PROVE Still
  <2>1. /\ pc[p] = "locked" /\ step[p] = "packed" /\ step'[p] = "unlinked"
        /\ \A q \in Pids : q # p => step'[q] = step[q]
        /\ queue' = queue \ {pkt}
        /\ UNCHANGED <<new, fileVars, tossVars, mailVars, histVars>>
    BY <1>6 DEF UnlinkPacket, Under
  <2>2. Solo(p)
    BY <2>1, WorksAlone
  <2>3. \A s \in Slots : Attaching(s)' <=> Attaching(s)
    BY <2>1 DEF Attaching, tossVars
  <2>4. pkt \in queue /\ pkt \notin new
    BY <2>1 DEF UInv, Queued
  <2>5. \A m \in Mail : Coming(m)' => Coming(m)
    BY <2>1, <2>2, <2>4 DEF Solo, Coming, Packing, tossVars
  <2>6. \A q \in Pids : ~Sending(q) /\ ~Sending(q)'
    BY <2>1, <2>2 DEF Solo, Sending
  <2> QED
    BY <1>1, <2>1, <2>3, <2>5, <2>6 DEF Still, fileVars, histVars
<1>7. ASSUME \/ \E p \in Pids : Reused(p) \/ Freed(p)
             \/ LockAges \/ WeekPasses \/ Sweep \/ UNCHANGED vars
      PROVE  Still
  <2>1. /\ UNCHANGED <<queue, new, arc, flo, got, step, tossVars, mailVars, orphan>>
        /\ faults' >= faults
    <3>1. ASSUME NEW s \in swept, arc' = [arc EXCEPT ![s] = {}],
                 swiped' = swiped \cup arc[s]
          PROVE  arc' = arc
      <4>1. arc[s] = {}
        BY <3>1
      <4> QED
        BY <3>1, <4>1
    <3> QED
    BY <1>1, <1>7, <3>1 DEF Reused, Freed, LockAges, Fault, WeekPasses, Sweep, SweepLooks, SweepUnlinks,
              sweepVars, vars,
       fileVars, histVars
  <2>2. /\ \A s \in Slots : Attaching(s)' <=> Attaching(s)
        /\ \A m \in Mail : Coming(m)' => Coming(m)
    BY <2>1 DEF Attaching, Coming, tossVars
  <2> QED
    BY <2>1, <2>2 DEF Still, mailVars
<1> QED
  BY <1>2, <1>3, <1>4, <1>5, <1>6, <1>7, StillKeepsOrder

\* The inductive invariant of the outbound.
OInv == IInv /\ MInv /\ UInv /\ (broken = {} /\ swiped = {} => Order)

LEMMA InitOrder == Init => Order
<1> SUFFICES ASSUME Init PROVE Order
  OBVIOUS
<1>1. DOMAIN flo = {}
  BY ZeroIsSlot DEF Init
<1>2. \A p \in Pids : step[p] = "none"
  BY DEF Init
<1>3. \A s \in Slots : arc[s] = {}
  BY DEF Init
<1>4. LinesFull /\ OneLine /\ NewFull /\ ListFits /\ MarkedAll /\ Lined
  BY <1>1, <1>2, <1>3 DEF LinesFull, OneLine, NewFull, ListFits, MarkedAll,
     Lined, Attaching, Sending
<1>5. ASSUME NEW m \in Mail PROVE Count(m) <= 1 + faults
  <2>1. Copies(m) = {}
    BY <1>3 DEF Copies
  <2>2. Cardinality(Copies(m)) = 0
    BY <2>1, FS_EmptySet
  <2>3. got[m] = 0 /\ faults = 0
    BY DEF Init
  <2> QED
    BY <2>2, <2>3 DEF Count
<1> QED
  BY <1>4, <1>5 DEF Order, Counted

LEMMA OrderStays ==
  ASSUME OInv, MInv', UInv', [Next]_vars, broken' = {}, swiped' = {}
  PROVE  Order'
<1>1. IInv /\ MInv /\ UInv /\ Order /\ broken = {}
  BY BrokenStays, SwipedStays DEF OInv
<1>2. ASSUME NEW p \in Pids, pc[p] = "locked" \/ Packing(p) \/ Sending(p)
      PROVE  Solo(p)
  BY <1>1, <1>2, WorksAlone
<1>3. ASSUME NEW p \in Pids, Archive(p) PROVE Order'
  BY <1>1, <1>2, <1>3, ArchiveOrder DEF Archive, Under
<1>4. ASSUME NEW p \in Pids, ArchiveFails(p) PROVE Order'
  BY <1>1, <1>2, <1>4, ArchiveFailsOrder DEF ArchiveFails, Under
<1>5. ASSUME NEW p \in Pids, Attach(p) PROVE Order'
  BY <1>1, <1>2, <1>5, AttachOrder DEF Attach, Under
<1>6. ASSUME NEW p \in Pids, CreateFilelist(p) PROVE Order'
  BY <1>1, <1>2, <1>6, CreateOrder DEF CreateFilelist, Under
<1>7. ASSUME NEW p \in Pids, Send(p) PROVE Order'
  BY <1>1, <1>2, <1>7, SendOrder DEF Send, Under
<1>8. ASSUME NEW p \in Pids, Mark(p) PROVE Order'
  BY <1>1, <1>2, <1>8, MarkOrder DEF Mark, Under
<1>9. ASSUME NEW p \in Pids, Truncate(p) PROVE Order'
  BY <1>1, <1>2, <1>9, TruncateOrder DEF Truncate, Under
<1>10. ASSUME NEW p \in Pids, Disposed(p) \/ SessionEnd(p) PROVE Order'
  BY <1>1, <1>2, <1>10, DisposedOrder DEF Disposed, SessionEnd, Under
<1>11. ASSUME NEW p \in Pids, SessionFails(p) \/ Skipped(p) PROVE Order'
  BY <1>1, <1>2, <1>11, SessionFailsOrder DEF SessionFails, Skipped, Under
<1>12. ASSUME NEW p \in Pids, Crash(p), Packing(p) \/ Sending(p) PROVE Order'
  BY <1>1, <1>2, <1>12, CrashOrder
<1>13. ASSUME \/ \E p \in Pids : \/ StartToss(p) \/ StartMail(p) \/ LockStepOf(p)
                                 \/ TossStart(p) \/ UnlinkPacket(p) \/ TossDone(p)
                                 \/ NoArchiver(p) \/ EndsLocked(p) \/ Reused(p) \/ Freed(p)
                                 \/ Crash(p) /\ ~Packing(p) /\ ~Sending(p)
              \/ LockAges \/ WeekPasses \/ Sweep \/ UNCHANGED vars
       PROVE  Order'
  BY <1>1, <1>13, OthersKeepOrder
<1> QED
  BY <1>3, <1>4, <1>5, <1>6, <1>7, <1>8, <1>9, <1>10, <1>11, <1>12, <1>13
     DEF Next, Run, Toss, Session, Faults

\* It holds in every state.
THEOREM OInvHolds == Spec => []OInv
<1>1. Init => OInv
  BY InitIInv, InitMInv, InitUInv, InitOrder DEF Init, OInv
<1>2. OInv /\ [Next]_vars => OInv'
  <2> SUFFICES ASSUME OInv, [Next]_vars PROVE OInv'
    OBVIOUS
  <2>1. IInv'
    BY StepOfLock, NextIInv DEF OInv
  <2>2. MInv'
    BY TypesStay, WorkStays, PresentStays, PacketStays, SentStays, KeptStays
       DEF OInv, MInv
  <2>3. UInv'
    BY QueuedStays, OfferingStays, FilesStay DEF OInv, UInv
  <2>4. broken' = {} /\ swiped' = {} => Order'
    BY <2>2, <2>3, OrderStays
  <2> QED
    BY <2>1, <2>2, <2>3, <2>4 DEF OInv
<1> QED
  BY <1>1, <1>2, PTL DEF Spec

\* The outbound is in order until a running program loses its lock, or mbtask
\* unlinks an archive that was refilled since it looked at it: an archive with mail
\* in it will be sent unless a fault has left it without a line, and
\* a message is sent no more often than there were faults, and once.
THEOREM InvHolds == Spec => []Inv
<1>1. OInv => Inv
  <2> SUFFICES ASSUME OInv PROVE Inv
    OBVIOUS
  <2>1. TypeOK
    <3>1. \A i \in DOMAIN flo : flo[i] \in Line
      BY ElementOfSeq, LenProperties DEF OInv, UInv, FileTypes
    <3> QED
      BY <3>1 DEF OInv, IInv, MInv, MailTypes, UInv, FileTypes, Queued, TypeOK
  <2>2. ASSUME broken = {} PROVE Alone
    BY <2>2, OneHolds DEF OInv
  <2>3. ASSUME broken = {}, swiped = {} PROVE Attached
    BY <2>3 DEF OInv, Order, Lined, Attached, Attaching, MInv, Working,
       Packing, Sending, Locked
  <2>4. ASSUME broken = {}, swiped = {} PROVE Once
    <3> SUFFICES ASSUME NEW m \in Mail PROVE got[m] <= 1 + faults
      BY DEF Once
    <3>1. Count(m) <= 1 + faults
      BY <2>4 DEF OInv, Order, Counted
    <3>2. Cardinality(Copies(m)) \in Nat
      BY Subsets DEF Copies
    <3>3. got[m] \in Nat /\ faults \in Nat
      BY BoundsAssumption DEF OInv, MInv, MailTypes, UInv, FileTypes, MaxGot
    <3> QED
      BY <3>1, <3>2, <3>3 DEF Count
  <2> QED
    BY <2>1, <2>2, <2>3, <2>4 DEF Inv
<1> QED
  BY <1>1, OInvHolds, PTL
============================================================================
