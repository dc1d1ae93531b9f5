------------------------------ MODULE TaskRegs ------------------------------
(***************************************************************************)
(* The registration of the running programs in the task manager            *)
(* (mbtask/taskregs.c), as far as it is about who is there: the table of   *)
(* clients, the counters derived from it, and the watchdog that signals    *)
(* silent clients.  The daemon runs one command or one reg_check() at a    *)
(* time; clients start, stop, crash and hang at any moment, and the kernel *)
(* reuses their pids.  The paging flags in the table are left out;         *)
(* PersonalMsg has the ring of messages in a slot.                         *)
(***************************************************************************)
EXTENDS Integers, FiniteSets

CONSTANTS Pids,       \* process ids
          MaxClient,  \* MAXCLIENT: slots of the table, slot 0 is the daemon's
          NoPid       \* the pid in a free slot

ASSUME MaxClientAssumption == MaxClient \in Nat \ {0}
ASSUME NoPidAssumption == NoPid \notin Pids

VARIABLES
    proc,           \* proc[p]: what runs under pid p
    tcp,            \* tcp[p]: this client has registered as TCP/IP session
    warned,         \* the processes that have got SIGTERM from reg_check
    reg,            \* reginfo[], without the daemon's own slot
    mailers, ipmailers, clients,   \* counters
    chatting,       \* the pids that are in a channel of the chat server
    recycled,       \* history: a pid came back while still in the table
    wrongkill       \* history: SIGKILL hit a process that got no SIGTERM

daemonVars == <<reg, mailers, ipmailers, clients, chatting>>
vars == <<proc, tcp, warned, daemonVars, recycled, wrongkill>>

Slots == 1..(MaxClient - 1)
Programs == {"mbcico", "mbsebbs"}
\* "up" is a process that is not registered, "hung" a client that is stuck.
ProcStates == {"none", "up", "hung"} \cup Programs

Free == [pid |-> NoPid, prg |-> "", istcp |-> FALSE, long |-> FALSE, silent |-> FALSE]

\* altime is kept as whether it is at least 600 seconds; silent stands for
\* lastcon: no command of the client arrived in the last altime seconds.
RegInfo == [pid : Pids \cup {NoPid}, prg : Programs \cup {""},
            istcp : BOOLEAN, long : BOOLEAN, silent : BOOLEAN]

TypeOK == /\ proc \in [Pids -> ProcStates]
          /\ tcp \in [Pids -> BOOLEAN]
          /\ warned \subseteq Pids
          /\ reg \in [Slots -> RegInfo]
          /\ mailers \in Int /\ ipmailers \in Int /\ clients \in Int
          /\ chatting \subseteq Pids
          /\ recycled \in BOOLEAN /\ wrongkill \in BOOLEAN
          /\ \A s \in Slots : reg[s].pid = NoPid <=> reg[s] = Free

\* The state of a daemon that has just been started.
DaemonInit == /\ reg = [s \in Slots |-> Free]
              /\ mailers = 0 /\ ipmailers = 0
              /\ clients = 1
              /\ chatting = {}

Init == /\ proc = [p \in Pids |-> "none"]
        /\ tcp = [p \in Pids |-> FALSE]
        /\ warned = {}
        /\ DaemonInit
        /\ recycled = FALSE
        /\ wrongkill = FALSE

-----------------------------------------------------------------------------
(* Helpers *)

Used(s) == reg[s].pid # NoPid
Registered(p) == \E s \in Slots : reg[s].pid = p
Talking(p) == proc[p] \in Programs

\* Slot s is the one reg_find(p) returns; reg_find(0) returns a free slot.
Finds(p, s) == /\ reg[s].pid = p
               /\ \A t \in Slots : reg[t].pid = p => s <= t

One(test) == IF test THEN 1 ELSE 0

\* The record of a slot after memset().
\* Mutant: only the pid is cleared, which is what makes a slot free.
ClearedPidOnly(s) == [reg[s] EXCEPT !.pid = NoPid]
Cleared(s) == Free

\* What the daemon does for the slots S it clears: the counters go down by
\* what the records say, users of the chat server leave their channel.
\* Mutant: users stay in the chat channel.
DropKeepsChat(S) ==
    /\ mailers' = mailers - Cardinality({s \in S : reg[s].prg = "mbcico"})
    /\ ipmailers' = ipmailers - Cardinality({s \in S : reg[s].istcp})
    /\ clients' = clients - Cardinality(S)
    /\ UNCHANGED chatting
Drop(S) ==
    /\ mailers' = mailers - Cardinality({s \in S : reg[s].prg = "mbcico"})
    /\ ipmailers' = ipmailers - Cardinality({s \in S : reg[s].istcp})
    /\ clients' = clients - Cardinality(S)
    /\ chatting' = chatting \ {reg[s].pid : s \in {t \in S : reg[t].prg = "mbsebbs"}}

-----------------------------------------------------------------------------
(* Commands of the clients.  A command with a pid that reg_find() does not *)
(* find is answered with an error and changes nothing.                     *)

\* Mutant: the client is counted before it is known that a slot is free.
NewConCountsFirst(p, prg) ==
    /\ proc[p] = "up"
    /\ clients' = clients + 1
    /\ \/ \E s \in Slots :
              /\ Finds(NoPid, s)
              /\ reg' = [reg EXCEPT ![s] = [Free EXCEPT !.pid = p, !.prg = prg,
                                                        !.long = TRUE]]
              /\ mailers' = mailers + One(prg = "mbcico")
              /\ proc' = [proc EXCEPT ![p] = prg]
       \/ /\ ~Registered(NoPid)
          /\ proc' = [proc EXCEPT ![p] = "none"]
          /\ UNCHANGED <<reg, mailers>>
    /\ UNCHANGED <<tcp, warned, ipmailers, chatting, recycled, wrongkill>>

\* AINI: take the first free slot.  When there is none the client is told
\* so and ends.
NewCon(p, prg) ==
    /\ proc[p] = "up"
    /\ \/ \E s \in Slots :
              /\ Finds(NoPid, s)
              /\ reg' = [reg EXCEPT ![s] = [Free EXCEPT !.pid = p, !.prg = prg,
                                                        !.long = TRUE]]
              /\ clients' = clients + 1
              /\ mailers' = mailers + One(prg = "mbcico")
              /\ proc' = [proc EXCEPT ![p] = prg]
       \/ /\ ~Registered(NoPid)
          /\ proc' = [proc EXCEPT ![p] = "none"]
          /\ UNCHANGED <<reg, clients, mailers>>
    /\ UNCHANGED <<tcp, warned, ipmailers, chatting, recycled, wrongkill>>

\* ACLO, after which the client ends or, like mbnewusr, starts another.
CloseCon(p) ==
    /\ Talking(p)
    /\ proc' = [proc EXCEPT ![p] = "up"]
    /\ \E s \in Slots : /\ Finds(p, s)
                        /\ reg' = [reg EXCEPT ![s] = Cleared(s)]
                        /\ Drop({s})
    /\ UNCHANGED <<tcp, warned, recycled, wrongkill>>

\* ATCP, which the client library sends once: a session over TCP/IP.
Ip(p) ==
    /\ proc[p] = "mbcico" /\ ~tcp[p]
    /\ tcp' = [tcp EXCEPT ![p] = TRUE]
    /\ \E s \in Slots : /\ Finds(p, s)
                        /\ reg' = [reg EXCEPT ![s].istcp = TRUE,
                                              ![s].silent = FALSE]
                        /\ ipmailers' = ipmailers + 1
    /\ UNCHANGED <<proc, warned, mailers, clients, chatting, recycled, wrongkill>>

Quiet == UNCHANGED <<proc, tcp, warned, mailers, ipmailers, clients, chatting,
                     recycled, wrongkill>>

\* ADOI, ANOP, ATTY, AUSR, ADIS, CIPM: all that matters here is lastcon.
Talk(p) == /\ Talking(p)
           /\ \E s \in Slots : Finds(p, s) /\ reg' = [reg EXCEPT ![s].silent = FALSE]
           /\ Quiet

\* Mutant: the requested timeout is taken as it comes.
AltimeAsAsked(long) == long
\* A requested timeout below 600 seconds becomes 600.
Altime(long) == TRUE

\* ATIM, and ADEF for the default of 600 seconds.
Timer(p, long) ==
    /\ Talking(p)
    /\ \E s \in Slots : /\ Finds(p, s)
                        /\ reg' = [reg EXCEPT ![s].long = Altime(long),
                                              ![s].silent = FALSE]
    /\ Quiet

\* A BBS user joins a channel of the chat server or leaves it.
Chat(p) == /\ proc[p] = "mbsebbs"
           /\ chatting' \in {chatting \cup {p}, chatting \ {p}}
           /\ UNCHANGED <<proc, tcp, warned, reg, mailers, ipmailers, clients,
                          recycled, wrongkill>>

-----------------------------------------------------------------------------
(* reg_check(), which the scheduler calls on every turn of its loop.       *)

\* The process of slot s is gone: kill() answers ESRCH.
Stale(s) == Used(s) /\ proc[reg[s].pid] = "none"
Overdue(s) == Used(s) /\ ~Stale(s) /\ reg[s].silent

\* Mutant: after SIGTERM the client gets its full time again.
SignaledForgiven(s) == [reg[s] EXCEPT !.silent = FALSE]
\* After a signal the client has ten seconds until the next one.
Signaled(s) == [reg[s] EXCEPT !.long = FALSE, !.silent = FALSE]

\* Registrations of processes that are gone are removed.  A silent client
\* gets SIGTERM, and SIGKILL when it is still silent 10 seconds later.
Check ==
    LET gone == {s \in Slots : Stale(s)}
        kill == {reg[s].pid : s \in {t \in Slots : Overdue(t) /\ ~reg[t].long}}
        term == {reg[s].pid : s \in {t \in Slots : Overdue(t) /\ reg[t].long}}
    IN  /\ reg' = [s \in Slots |-> IF Stale(s) THEN Cleared(s)
                                   ELSE IF Overdue(s) THEN Signaled(s)
                                   ELSE reg[s]]
        /\ Drop(gone)
        /\ proc' = [p \in Pids |-> IF p \in kill THEN "none" ELSE proc[p]]
        /\ warned' = warned \cup term
        /\ wrongkill' = (wrongkill \/ ~(kill \subseteq warned))
        /\ UNCHANGED <<tcp, recycled>>

-----------------------------------------------------------------------------
(* The processes and the clock *)

\* Bound: a pid comes back under the daemon's eyes once in a behaviour; each
\* time it may leave ipmailers one too high for good.
Start(p) == /\ proc[p] = "none"
            /\ ~(recycled /\ Registered(p))
            /\ proc' = [proc EXCEPT ![p] = "up"]
            /\ tcp' = [tcp EXCEPT ![p] = FALSE]
            /\ warned' = warned \ {p}
            /\ recycled' = (recycled \/ Registered(p))
            /\ UNCHANGED <<daemonVars, wrongkill>>

\* A process ends without telling the task manager, or it gets stuck.
Gone(p, state) == /\ \/ proc[p] \in {"up", "hung"} \cup Programs /\ state = "none"
                     \/ Talking(p) /\ state = "hung"
                  /\ proc' = [proc EXCEPT ![p] = state]
                  /\ UNCHANGED <<tcp, warned, daemonVars, recycled, wrongkill>>

\* altime seconds go by without a command of the client in slot s.
Elapse(s) == /\ Used(s) /\ ~reg[s].silent
             /\ reg' = [reg EXCEPT ![s].silent = TRUE]
             /\ Quiet

\* The daemon is stopped and started: it knows none of its clients any more,
\* and everything they send is answered with an error.
Restart == /\ reg' = [s \in Slots |-> Free]
           /\ mailers' = 0 /\ ipmailers' = 0
           /\ clients' = 1
           /\ chatting' = {}
           /\ proc' = [p \in Pids |-> IF proc[p] = "none" THEN "none" ELSE "up"]
           /\ UNCHANGED <<tcp, warned, recycled, wrongkill>>

ClientStep(p) == \/ \E prg \in Programs : NewCon(p, prg)
                 \/ CloseCon(p) \/ Ip(p) \/ Talk(p) \/ Chat(p)
                 \/ \E long \in BOOLEAN : Timer(p, long)

Next == \/ \E p \in Pids : ClientStep(p) \/ Start(p)
        \/ \E p \in Pids, state \in {"none", "hung"} : Gone(p, state)
        \/ \E s \in Slots : Elapse(s)
        \/ Check
        \/ Restart

Spec == Init /\ [][Next]_vars

\* The scheduler keeps calling reg_check() and the clock goes on.
Fairness == WF_vars(Check) /\ \A s \in Slots : WF_vars(Elapse(s))

FairSpec == Spec /\ Fairness

-----------------------------------------------------------------------------
(* Properties *)

UsedSlots == {s \in Slots : Used(s)}
MailerSlots == {s \in Slots : reg[s].prg = "mbcico"}
IpSlots == {s \in Slots : reg[s].istcp}

\* The totals the daemon logs and writes to the status file agree with the
\* table, whatever clients come, go, crash, or find the table full.
Counters == /\ mailers = Cardinality(MailerSlots)
            /\ clients = Cardinality(UsedSlots) + 1

\* So does the number of TCP/IP sessions, which limits the calls the scheduler
\* makes and holds back the tosser, as long as no pid was
\* reused before reg_check() removed its old registration.
IpCounter == recycled \/ ipmailers = Cardinality(IpSlots)

CountersExact == Counters /\ IpCounter

\* The daemon never forgets a client that is still connected to it.
ClientsKnown == \A p \in Pids : Talking(p) \/ proc[p] = "hung" => Registered(p)

\* No ghost stays in the chat channels: who chats is registered, so that
\* closing or losing the client takes it out.
ChattersRegistered == \A p \in chatting : Registered(p)

Connected == ClientsKnown /\ ChattersRegistered

\* A client gets SIGKILL only after it had SIGTERM and the time to end.
KillAfterTerm == wrongkill => recycled

\* A registered client that hangs is got rid of, although it ignores SIGTERM,
\* unless a restart of the daemon makes it one that is not registered.
HungGoes == \A p \in Pids : proc[p] = "hung" ~> proc[p] # "hung"

\* A client that is gone does not keep its slot.
GoneIsRemoved == \A p \in Pids :
    proc[p] = "none" /\ Registered(p) ~> ~Registered(p) \/ proc[p] # "none"

LostClientsGo == HungGoes /\ GoneIsRemoved
=============================================================================
