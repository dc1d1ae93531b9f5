------------------------------ MODULE Outbound ------------------------------
(***************************************************************************)
(* The way of mail for one node from the queue of mbfido to the remote     *)
(* system, under the node lock of NodeLock.                                *)
(*                                                                         *)
(* mbfido (flush_dir in mbfido/queue.c, attach in lib/attach.c) has an     *)
(* archiver add the packets of the queue one by one to an archive in the   *)
(* outbound and writes the name of a new archive into the .flo file of the *)
(* node.  mbcico (create_filelist and execute_disposition in               *)
(* mbcico/filelist.c, called by the protocols) sends what the .flo file    *)
(* names; for a file that the remote has acknowledged it marks the line    *)
(* with a tilde, truncates the archive and removes the .flo file when      *)
(* every line is marked.  An empty archive is thus one that was sent: its  *)
(* name is used again only when names run out or after a week.             *)
(*                                                                         *)
(* There is one message per packet and one flavour, hence one .flo file.   *)
(* One mbfido at a time is let in: mbfido has the queue for itself by the  *)
(* lock of DirLock.  The outbound of one weekday is modelled.              *)
(***************************************************************************)
EXTENDS NodeLock, Naturals, Sequences, FiniteSets

CONSTANTS Mail,       \* the messages
          MaxNr,      \* the last number in an archive's name, '9' or 'z'
          MaxArc,     \* messages in an archive that is not yet too big
          MaxFaults   \* faults per behaviour

Slots == 0..MaxNr

VARIABLES
    queue,    \* the messages of which a packet is in the queue
    new,      \* the messages that have not arrived yet
    arc,      \* arc[s]: the messages in archive s, none if it is truncated
    there,    \* the archives that exist
    old,      \* those older than six days
    flo,      \* the lines of the .flo file; there is no such file without any
    got,      \* got[m]: how often the remote has received m
    step,     \* step[p]: what p does under the lock
    todo,     \* what mbfido still has to pack
    pkt,      \* the packet it is at
    cur,      \* the archive whose name mbfido has in arcfile
    attach,   \* its flag Attach: the archive has to get a line
    list,     \* list[p][i]: the file mbcico still has to send for line i
    handle,   \* handle[p]: the .flo file p has open is the one in the outbound
    orphan,   \* history: the archives that a fault has left without a line
    clash,    \* history: mbfido and a session were at work at the same time
    faults,   \* number of faults so far
    swept,    \* the archive that mbtask has found empty and unlinks next
    swiped,   \* history: the messages that went with an archive it unlinked
    week      \* a week has passed

fileVars == <<arc, there, old, flo, got>>
tossVars == <<todo, pkt, cur, attach>>
mailVars == <<list, handle>>
histVars == <<orphan, clash, faults>>
sweepVars == <<swept, swiped>>
vars == <<lockVars, queue, new, fileVars, step, tossVars, mailVars, histVars,
          sweepVars, week>>

ASSUME BoundsAssumption == MaxNr \in Nat /\ MaxArc \in Nat /\ MaxFaults \in Nat

MaxGot == MaxFaults + 2   \* got counts no further

Line == [name : Slots, sent : BOOLEAN]
Steps == {"none", "start", "pick", "packed", "unlinked", "left", \* mbfido
          "call", "list", "send", "sent", "marked", "disposed"} \* mbcico
NoMail == "none"

TypeOK == /\ LockTypeOK
          /\ queue \subseteq Mail /\ new \subseteq Mail
          /\ arc \in [Slots -> SUBSET Mail]
          /\ there \subseteq Slots /\ old \subseteq there
          /\ \A i \in DOMAIN flo : flo[i] \in Line
          /\ got \in [Mail -> 0..MaxGot]
          /\ step \in [Pids -> Steps]
          /\ todo \subseteq queue /\ pkt \in Mail \cup {NoMail} /\ cur \in Slots /\ attach \in BOOLEAN
          /\ DOMAIN list = Pids
          /\ \A p \in Pids : \A i \in DOMAIN list[p] : i \in Nat /\ list[p][i] \in Slots
          /\ handle \in [Pids -> BOOLEAN]
          /\ orphan \subseteq Slots
          /\ clash \in BOOLEAN /\ faults \in 0..MaxFaults /\ week \in BOOLEAN
          /\ swept \subseteq Slots /\ swiped \subseteq Mail

Init == /\ LockInit
        /\ queue = {} /\ new = Mail
        /\ arc = [s \in Slots |-> {}] /\ there = {} /\ old = {}
        /\ flo = <<>>
        /\ got = [m \in Mail |-> 0]
        /\ step = [p \in Pids |-> "none"]
        /\ todo = {} /\ pkt = NoMail /\ cur = 0 /\ attach = FALSE
        /\ list = [p \in Pids |-> <<>>]
        /\ handle = [p \in Pids |-> FALSE]
        /\ orphan = {} /\ clash = FALSE /\ faults = 0 /\ week = FALSE
        /\ swept = {} /\ swiped = {}

\* p goes on under the lock, or what it takes for its lock.
Under(p, from, to) == /\ pc[p] = "locked"
                      /\ step[p] = from
                      /\ step' = [step EXCEPT ![p] = to]

Fault == faults < MaxFaults /\ faults' = faults + 1

Packing(p) == step[p] \in {"pick", "packed", "unlinked"}
Sending(p) == step[p] \in {"send", "sent", "marked", "disposed"}

Unsent(s) == \E i \in DOMAIN flo : flo[i].name = s /\ ~flo[i].sent

-----------------------------------------------------------------------------
(* The programs start and end *)

Tossing == \E p \in Pids : Packing(p) \/ step[p] \in {"start", "left"}

\* Programs that start after a running one lost its lock are not followed.
Starts(p, as) == /\ broken = {}
                 /\ Begins(p)
                 /\ step' = [step EXCEPT ![p] = as]
                 /\ UNCHANGED <<fileVars, tossVars, mailVars, histVars, sweepVars, week>>

\* mbfido has tossed mail for the node, or finds some left in the queue.
StartToss(p) == /\ ~Tossing
                /\ \E arrived \in SUBSET new :
                      /\ queue \cup arrived # {}
                      /\ queue' = queue \cup arrived
                      /\ new' = new \ arrived
                /\ Starts(p, "start")

\* mbtask calls the node, or the node calls, while there is something to send.
StartMail(p) == /\ \E s \in Slots : Unsent(s)
                /\ Starts(p, "call")
                /\ UNCHANGED <<queue, new>>

\* A step in nodelock or nodeulock; a program that is through has ended.
LockStepOf(p) == /\ LockStep(p) \/ UnlockStep(p)
                 /\ step' = IF pc'[p] = "ended"
                            THEN [step EXCEPT ![p] = "none"] ELSE step
                 /\ UNCHANGED <<queue, new, fileVars, tossVars, mailVars,
                                histVars, sweepVars, week>>

-----------------------------------------------------------------------------
(* mbfido: flush_dir() *)

\* Mutant: an archive of a week is removed even with mail in it.
FreshByAge(s, nr) == s \notin there \/ s \in old \/ (arc[s] = {} /\ nr = MaxNr)

\* Archive s will be a new one: there is none, or one that was sent and is
\* too old or the last of its names.
Fresh(s, nr) == s \notin there \/ (arc[s] = {} /\ (s \in old \/ nr = MaxNr))

\* Mutant: also an archive that was sent is added to.
FullBySize(s, nr) == nr < MaxNr /\ Cardinality(arc[s]) > MaxArc

\* The next number: archive s was sent today or is too big.
Full(s, nr) == nr < MaxNr /\ (arc[s] = {} \/ Cardinality(arc[s]) > MaxArc)

\* The search ends at archive s: it will be a new one, or is neither full nor
\* has mail of a week ago.
Settles(s, nr) == \/ Fresh(s, nr)
                  \/ /\ ~Full(s, nr)
                     /\ nr < MaxNr => arc[s] = {} \/ s \notin old

\* Archive s is the one to add to, found with number nr.  The number counts
\* from 0 for every packet, while the name stays that of the packet before
\* until the number is raised.
Chosen(s, nr) == /\ Settles(s, nr)
                 /\ \/ s = cur /\ nr = 0
                    \/ /\ ~Settles(cur, 0)
                       /\ s = nr /\ nr > 0
                       /\ \A n \in 1..(nr - 1) : ~Settles(n, n)

\* What is in archive s when the archiver has run; one that is to be a new
\* one was unlinked before.
After(s, nr, added) == IF Fresh(s, nr) THEN added ELSE arc[s] \cup added

\* The packets are listed; arcfile gets its first name.
TossStart(p) == /\ Under(p, "start", "pick")
                /\ todo' = queue
                /\ cur' = 0
                /\ UNCHANGED <<lockVars, queue, new, fileVars, pkt, attach,
                               mailVars, histVars, sweepVars, week>>

\* The archiver has added packet m to the archive.
Archive(p) ==
    /\ Under(p, "pick", "packed")
    /\ \E m \in todo : pkt' = m /\ todo' = todo \ {m}
    /\ \E s, nr \in Slots :
          /\ Chosen(s, nr)
          /\ arc' = [arc EXCEPT ![s] = After(s, nr, {pkt'})]
          /\ there' = there \cup {s}
          /\ old' = old \ {s}
          /\ cur' = s
          /\ attach' = Fresh(s, nr)
    /\ clash' = (clash \/ \E q \in Locked : Sending(q))
    /\ UNCHANGED <<lockVars, queue, new, flo, got, mailVars, orphan, faults,
                   sweepVars, week>>

\* The archiver fails: nothing is attached and the packet stays.  A truncated
\* archive was unlinked all the same, and the archiver may leave one.
ArchiveFails(p) ==
    /\ Under(p, "pick", "pick")
    /\ Fault
    /\ \E m \in todo : pkt' = m /\ todo' = todo \ {m}
    /\ \E s, nr \in Slots : \E left \in {{}, {pkt'}} :
          /\ Chosen(s, nr)
          /\ arc' = [arc EXCEPT ![s] = After(s, nr, left)]
          /\ there' = IF arc'[s] = {} THEN there \ {s} ELSE there \cup {s}
          /\ old' = IF left = {} THEN old \cap there' ELSE old \ {s}
          /\ cur' = s
          /\ orphan' = IF Fresh(s, nr) /\ left # {} THEN orphan \cup {s}
                       ELSE orphan
    /\ attach' = FALSE
    /\ clash' = (clash \/ \E q \in Locked : Sending(q))
    /\ UNCHANGED <<lockVars, queue, new, flo, got, mailVars, sweepVars, week>>

UnlinkPacket(p) == /\ Under(p, "packed", "unlinked")
                   /\ queue' = queue \ {pkt}
                   /\ UNCHANGED <<lockVars, new, fileVars, tossVars, mailVars,
                                  histVars, sweepVars, week>>

\* attach() appends a line for a new archive.  Archives are not looked up in
\* the .flo file first, as other files are.
Attach(p) == /\ Under(p, "unlinked", "pick")
             /\ flo' = IF attach
                       THEN Append(flo, [name |-> cur, sent |-> FALSE]) ELSE flo
             /\ orphan' = IF attach THEN orphan \ {cur} ELSE orphan
             /\ UNCHANGED <<lockVars, queue, new, arc, there, old, got, todo,
                            pkt, cur, attach, mailVars, clash, faults, sweepVars, week>>

\* What mbfido knows of the archives ends with flush_dir.
TossEnds == todo' = {} /\ pkt' = NoMail /\ cur' = 0 /\ attach' = FALSE

TossDone(p) == /\ Under(p, "pick", "none")
               /\ todo = {}
               /\ TossEnds
               /\ Leaves(p)
               /\ UNCHANGED <<queue, new, fileVars, mailVars, histVars, sweepVars, week>>

\* There is no such archiver: flush_dir returns without a nodeulock, and the
\* program goes on with other nodes.
NoArchiver(p) == /\ Under(p, "start", "left")
                 /\ Fault
                 /\ UNCHANGED <<lockVars, queue, new, fileVars, tossVars,
                                mailVars, orphan, clash, sweepVars, week>>

\* When it ends the lock is still there.
EndsLocked(p) == /\ step[p] = "left"
                 /\ step' = [step EXCEPT ![p] = "none"]
                 /\ Dies(p)
                 /\ UNCHANGED <<queue, new, fileVars, tossVars, mailVars,
                                histVars, sweepVars, week>>

-----------------------------------------------------------------------------
(* mbcico: create_filelist(), the transfer and execute_disposition() *)

\* The unsent lines.
Listed == [i \in {i \in DOMAIN flo : ~flo[i].sent} |-> flo[i].name]

\* The next line of a list, and the file that is sent for it.
First(files) == CHOOSE i \in DOMAIN files : \A j \in DOMAIN files : i <= j
Offered(p) == list[p][First(list[p])]

\* Without the line that is through.
Rest(files) == [i \in DOMAIN files \ {First(files)} |-> files[i]]

CreateFilelist(p) == /\ Under(p, "call", "send")
                     /\ list' = [list EXCEPT ![p] = Listed]
                     /\ handle' = [handle EXCEPT ![p] = flo # <<>>]
                     /\ clash' = (clash \/ \E q \in Locked : Packing(q))
                     /\ UNCHANGED <<lockVars, queue, new, fileVars, tossVars,
                                    orphan, faults, sweepVars, week>>

\* The remote has all of the next file.
Send(p) == /\ Under(p, "send", "sent")
           /\ DOMAIN list[p] # {}
           /\ got' = [m \in Mail |->
                         IF m \in arc[Offered(p)] /\ got[m] < MaxGot
                         THEN got[m] + 1 ELSE got[m]]
           /\ UNCHANGED <<lockVars, queue, new, arc, there, old, flo, tossVars,
                          mailVars, histVars, sweepVars, week>>

\* Its acknowledgement is here: the line is marked in the file p has open.
Mark(p) == /\ Under(p, "sent", "marked")
           /\ LET i == First(list[p])
              IN  flo' = IF handle[p] /\ i \in DOMAIN flo
                         THEN [flo EXCEPT ![i].sent = TRUE] ELSE flo
           /\ UNCHANGED <<lockVars, queue, new, arc, there, old, got, tossVars,
                          mailVars, histVars, sweepVars, week>>

Truncate(p) == /\ Under(p, "marked", "disposed")
               /\ LET s == Offered(p)
                  IN  /\ arc' = [arc EXCEPT ![s] = {}]
                      /\ there' = there \cup {s}
                      /\ old' = old \ {s}
                      /\ orphan' = orphan \ {s}
               /\ UNCHANGED <<lockVars, queue, new, flo, got, tossVars,
                              mailVars, clash, faults, sweepVars, week>>

\* The .flo file is removed by its name if the one p has open has no unsent
\* line; a file that was removed already has none.
CleanFlo(p) ==
    IF handle[p] /\ \E i \in DOMAIN flo : ~flo[i].sent
    THEN UNCHANGED <<flo, handle>>
    ELSE flo' = <<>> /\ handle' = [q \in Pids |-> FALSE]

Disposed(p) == /\ Under(p, "disposed", "send")
               /\ CleanFlo(p)
               /\ list' = [list EXCEPT ![p] = Rest(@)]
               /\ UNCHANGED <<lockVars, queue, new, arc, there, old, got,
                              tossVars, histVars, sweepVars, week>>

\* The session ends well, the .flo file is looked at once more.
SessionEnd(p) == /\ Under(p, "send", "none")
                 /\ DOMAIN list[p] = {}
                 /\ CleanFlo(p)
                 /\ Leaves(p)
                 /\ UNCHANGED <<queue, new, arc, there, old, got, tossVars,
                                list, histVars, sweepVars, week>>

Forgotten(p) == /\ list' = [list EXCEPT ![p] = <<>>]
                /\ handle' = [handle EXCEPT ![p] = FALSE]

\* The line breaks: what is not acknowledged is left for another session.
SessionFails(p) == /\ \/ Under(p, "call", "none")
                      \/ Under(p, "send", "none")
                      \/ Under(p, "sent", "none")
                   /\ Fault
                   /\ Forgotten(p)
                   /\ Leaves(p)
                   /\ UNCHANGED <<queue, new, fileVars, tossVars, orphan,
                                  clash, sweepVars, week>>

\* The remote does not want the file now.
Skipped(p) == /\ Under(p, "send", "send")
              /\ DOMAIN list[p] # {}
              /\ Fault
              /\ list' = [list EXCEPT ![p] = Rest(@)]
              /\ UNCHANGED <<lockVars, queue, new, fileVars, tossVars, handle,
                             orphan, clash, sweepVars, week>>

-----------------------------------------------------------------------------
(* Crashes, and the passing of time *)

\* Between the archiver and attach(), or between the mark and the truncation,
\* an archive is left that is neither empty nor named by an unsent line.
Crash(p) ==
    /\ Dies(p)
    /\ Fault
    /\ step' = [step EXCEPT ![p] = "none"]
    /\ orphan' = CASE step[p] \in {"packed", "unlinked"} /\ attach ->
                        orphan \cup {cur}
                   [] step[p] = "marked" -> orphan \cup {Offered(p)}
                   [] OTHER -> orphan
    /\ Forgotten(p)
    /\ IF Packing(p) THEN TossEnds ELSE UNCHANGED tossVars
    /\ UNCHANGED <<queue, new, fileVars, clash, sweepVars, week>>

\* A foreign program gets the pid of the owner that the .bsy file names.
Reused(p) == /\ bsy = p
             /\ PidReused(p)
             /\ UNCHANGED <<queue, new, fileVars, step, tossVars, mailVars,
                            histVars, sweepVars, week>>

Freed(p) == /\ PidFreed(p)
            /\ UNCHANGED <<queue, new, fileVars, step, tossVars, mailVars,
                           histVars, sweepVars, week>>

\* Six hours are long for a running program, but not for one that has gone.
LockAges == /\ SixHours
            /\ \/ /\ \E p \in Pids : bsy = p /\ Ours(p)
                  /\ Fault
               \/ /\ \A p \in Pids : bsy = p => ~Ours(p)
                  /\ UNCHANGED faults
            /\ UNCHANGED <<queue, new, fileVars, step, tossVars, mailVars,
                           orphan, clash, sweepVars, week>>

WeekPasses == /\ ~week /\ there # {}
              /\ week' = TRUE
              /\ old' = there
              /\ UNCHANGED <<lockVars, queue, new, arc, there, flo, got, step,
                             tossVars, mailVars, histVars, sweepVars>>

\* mbtask, without the node lock, removes an empty archive of another day or of
\* a week ago: it looks at the size, and unlinks what has the name by then.
\* Bound: until it has hit one.
SweepLooks == /\ swept = {} /\ swiped = {}
              /\ \E s \in Slots : s \in there /\ arc[s] = {} /\ swept' = {s}
              /\ UNCHANGED <<lockVars, queue, new, fileVars, step, tossVars,
                             mailVars, histVars, swiped, week>>

SweepUnlinks == \E s \in swept :
                   /\ arc' = [arc EXCEPT ![s] = {}]
                   /\ there' = there \ {s}
                   /\ old' = old \ {s}
                   /\ swiped' = swiped \cup arc[s]
                   /\ swept' = {}
                   /\ UNCHANGED <<lockVars, queue, new, flo, got, step, tossVars,
                                  mailVars, histVars, week>>

Sweep == SweepLooks \/ SweepUnlinks

-----------------------------------------------------------------------------
Toss(p) == \/ TossStart(p) \/ Archive(p) \/ UnlinkPacket(p) \/ Attach(p)
           \/ TossDone(p) \/ EndsLocked(p)

Session(p) == \/ CreateFilelist(p) \/ Send(p) \/ Mark(p) \/ Truncate(p)
              \/ Disposed(p) \/ SessionEnd(p)

Run(p) == LockStepOf(p) \/ Toss(p) \/ Session(p)

Faults(p) == \/ ArchiveFails(p) \/ NoArchiver(p) \/ SessionFails(p)
             \/ Skipped(p) \/ Crash(p) \/ Reused(p)

Next == \/ \E p \in Pids : \/ StartToss(p) \/ StartMail(p) \/ Run(p)
                           \/ Faults(p) \/ Freed(p)
        \/ LockAges \/ WeekPasses \/ Sweep

Spec == Init /\ [][Next]_vars

\* Running programs go on.  mbtask calls the node while the .flo file has an
\* unsent line, and the process numbers come round.  A lock that was left behind
\* reaches six hours.  That mbfido is started is nobody's promise.
Fairness == /\ \A p \in Pids : WF_vars(Run(p)) /\ WF_vars(StartMail(p))
            /\ WF_vars(LockAges /\ UNCHANGED faults)

FairSpec == Spec /\ Fairness

-----------------------------------------------------------------------------
(* Properties *)

\* One program at a time works in the outbound of the node.
Alone == Cardinality(Locked) <= 1

\* An archive with mail in it has an unsent line, or the program that owns
\* the lock is about to attach or to truncate it, or a fault of the archiver
\* or a crash at one of two places has left just this archive without.
Attached == \A s \in Slots :
    arc[s] # {} => \/ Unsent(s)
                   \/ s \in orphan
                   \/ \E p \in Locked :
                        \/ step[p] \in {"packed", "unlinked"}
                             /\ attach /\ cur = s
                        \/ step[p] = "marked" /\ Offered(p) = s

\* While no running program lost its lock, a message is sent twice only after
\* a fault.
Once == \A m \in Mail : got[m] <= 1 + faults

\* The last two end where mbtask unlinks an archive that is in use again.
Inv == TypeOK /\ (broken = {} => /\ Alone
                                 /\ swiped = {} => Attached /\ Once)

\* Mail is dropped when the remote has it, or else mbfido has added to an
\* archive that a session, after one of them lost the lock, was sending, or to
\* one that mbtask had found empty before and unlinked after (scanout.c:151).
Kept(m) == \/ m \in new \cup queue
           \/ got[m] > 0
           \/ \E s \in Slots : m \in arc[s]
           \/ clash
           \/ m \in swiped

MailKept == \A m \in Mail : Kept(m)

\* If mbfido is run time and again while mail waits in the queue, under whichever
\* process number (a file of a program that crashed keeps its number out), all
\* mail that has arrived is time and again with the remote, but for what is in an
\* archive without a line or was unlinked with one, or a running program has lost
\* its lock.  mbtask does not look at the queue: what a busy node has left there
\* waits until mbfido has other mail to flush (mbfido.c:602, 706).
Stranded(m) == \E s \in orphan : m \in arc[s]
Flushing == \A p \in Pids : []<>(queue = {} \/ step[p] = "start")
MailSent == Flushing => []<>(\A m \in Mail \ new :
                                \/ got[m] > 0 \/ Stranded(m) \/ m \in swiped
                                \/ broken # {})
============================================================================
