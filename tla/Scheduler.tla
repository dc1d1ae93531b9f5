----------------------------- MODULE Scheduler -----------------------------
(***************************************************************************)
(* The main loop of mbtask (mbtask/mbtask.c, scheduler): requests for work *)
(* arrive as semaphores, and when nothing is in the way the loop starts    *)
(* mbfido, mbindex or mbfile for them, and mbcico for nodes that must be   *)
(* called.  The daemon is one thread; the programs it starts end at any    *)
(* moment and are noticed by wait4() in checktasks().  Which node is       *)
(* called is not modelled, only that there are calls to make.              *)
(***************************************************************************)
EXTENDS Integers, FiniteSets

CONSTANTS MaxTasks,    \* MAXTASKS: slots of task[]
          PauseTime,   \* PAUSETIME: seconds without a start after an event
          TossWait,    \* TOSSWAIT_TIME: minutes that mailin waits for mailers
          MaxTcp,      \* TCFG.max_tcp: mailers over TCP/IP at a time
          Lines,       \* modem lines
          Compilers,   \* nodelist compilers that are configured
          RegDelay,    \* seconds in which a mailer that was started registers
          Asked,       \* the semaphores that are set in this instance
          MaxAsks,     \* bound: how often they are set
          MaxCalls,    \* bound: calls to make
          MaxIncoming  \* bound: mailers over TCP/IP in no slot of task[]

Semaphores == {"mailout", "mailin", "newnews", "index", "msglink", "reqindex"}

ASSUME SchedulerAssumption ==
    /\ {MaxTasks, PauseTime, TossWait, MaxTcp, Lines, Compilers, RegDelay,
        MaxAsks, MaxCalls, MaxIncoming} \subseteq Nat
    /\ Asked \subseteq Semaphores
    /\ RegDelay < PauseTime
    /\ TossWait > 0

VARIABLES
    pc,         \* what the loop does next
    flag,       \* the semaphores that are set: s_mailout, s_mailin ...
    ptimer,     \* the pause timer
    tosswait,   \* minutes left for mailin to wait
    running,    \* the count of tasks of the last checktasks()
    processing, \* Processing
    closed,     \* the BBS is closed, the load too high or the power off
    task,       \* task[]
    incoming,   \* registered sessions over TCP/IP that are in no slot
    stale,      \* sessions over TCP/IP that are registered but gone
    asks, calls,
    astray,     \* history: a program was stopped and lives outside the table
    waited      \* history: minutes that only mailers kept mailin from its start,
                \* since it was last asked for

vars == <<pc, flag, ptimer, tosswait, running, processing, closed, task,
          incoming, stale, asks, calls, astray, waited>>

Slots == 1..MaxTasks
Mailers == {"inet", "line"}
Kinds == {"mbfido", "mbindex", "mbfile"} \cup Mailers
Free == [kind |-> "none"]
\* tcp: registered as a session over TCP/IP; age: seconds since the start
Task == [kind : Kinds, alive : BOOLEAN, tcp : BOOLEAN, age : 0..RegDelay]

\* The parts of the loop, in order
Jobs == <<"mailout", "mailin", "newnews", "index", "msglink", "reqindex">>
Parts == {"poll", "check", "calls"} \cup Semaphores
After(job) == IF job = "reqindex" THEN "calls"
              ELSE Jobs[1 + CHOOSE k \in 1..5 : Jobs[k] = job]

TypeOK == /\ pc \in Parts
          /\ flag \subseteq Asked
          /\ ptimer \in 0..PauseTime
          /\ tosswait \in 0..TossWait
          /\ running \in 0..MaxTasks
          /\ processing \in BOOLEAN /\ closed \in BOOLEAN
          /\ task \in [Slots -> Task \cup {Free}]
          /\ incoming \in 0..MaxIncoming
          /\ stale \in Nat
          /\ asks \in 0..MaxAsks /\ calls \in 0..MaxCalls
          /\ astray \in BOOLEAN
          /\ waited \in 0..(TossWait + 1)

Init == /\ pc = "poll" /\ flag = {} /\ ptimer = PauseTime
        /\ tosswait = TossWait /\ running = 0
        /\ processing = TRUE /\ closed = FALSE
        /\ task = [i \in Slots |-> Free]
        /\ incoming = 0 /\ stale = 0
        /\ asks = 0 /\ calls = 0 /\ astray = FALSE /\ waited = 0

-----------------------------------------------------------------------------
(* The table of tasks *)

Used(t) == {i \in Slots : t[i] # Free}
Alive(kinds) == {i \in Used(task) : task[i].kind \in kinds /\ task[i].alive}
OfKind(t, kinds) == {i \in Used(t) : t[i].kind \in kinds}
Ended == {i \in Used(task) : ~task[i].alive}

\* checktasks(): programs that ended leave the table; the registration of a
\* mailer that did not close it stays for reg_check() to find.
Reaped == [i \in Slots |-> IF i \in Ended THEN Free ELSE task[i]]
Unclosed == Cardinality({i \in Ended : task[i].tcp})
Pause == IF Ended # {} THEN PauseTime ELSE ptimer

\* task[] with programs of this kind started in it, at most count, and fewer
\* when the table is full, fork() fails or there is no such command.
Launched(kind, count) ==
    LET start(k) == {new \in SUBSET (Slots \ Used(Reaped)) :
                        Cardinality(new) = k /\ \A i \in new : \A j \in Slots :
                            j < i => j \in new \cup Used(Reaped)}
    IN {[i \in Slots |-> IF i \in new
                         THEN [kind |-> kind, alive |-> TRUE, tcp |-> FALSE, age |-> 0]
                         ELSE Reaped[i]] :
           new \in UNION {start(k) : k \in 0..count}}

\* Mutant: no pause after a start.
LaunchNoPause(kind, count) ==
    \E t \in Launched(kind, count) :
        /\ task' = t
        /\ ptimer' = Pause
        /\ stale' = stale + Unclosed

\* launch() and the checktasks() in it
Launch(kind, count) ==
    \E t \in Launched(kind, count) :
        /\ task' = t
        /\ ptimer' = IF t # Reaped THEN PauseTime ELSE Pause
        /\ stale' = stale + Unclosed

ipmailers == incoming + stale + Cardinality({i \in Used(task) : task[i].tcp})

-----------------------------------------------------------------------------
(* Commands of the clients, and the programs that were started *)

\* sem_set() for SECR and SERM, and for the files of test_sema()
Set(s) == /\ pc = "poll" /\ asks < MaxAsks
          /\ flag' = flag \cup {s}
          /\ tosswait' = IF s = "mailin" THEN TossWait ELSE tosswait
          /\ ptimer' = PauseTime
          /\ asks' = asks + 1
          /\ waited' = IF s = "mailin" THEN 0 ELSE waited
          /\ pc' = "check"
          /\ UNCHANGED <<running, processing, closed, task, incoming, stale, calls, astray>>

Remove(s) == /\ pc = "poll" /\ s \in flag
             /\ flag' = flag \ {s}
             /\ ptimer' = PauseTime
             /\ waited' = IF s = "mailin" THEN 0 ELSE waited
             /\ pc' = "check"
             /\ UNCHANGED <<tosswait, running, processing, closed, task, incoming, stale, asks,
                            calls, astray>>

\* The mailer in slot i registers (RegTCP, reg_tcp), closes its session and
\* ends (ExitClient, reg_closecon), or a session from outside comes or goes.
Register(i) == /\ pc = "poll" /\ i \in Alive({"inet"}) /\ ~task[i].tcp
               /\ task' = [task EXCEPT ![i].tcp = TRUE, ![i].age = 0]
               /\ pc' = "check"
               /\ UNCHANGED <<flag, ptimer, tosswait, running, processing, closed,
                              incoming, stale, asks, calls, astray, waited>>

Unregister(i) == /\ pc = "poll" /\ i \in Alive({"inet"}) /\ task[i].tcp
                 /\ task' = [task EXCEPT ![i].tcp = FALSE, ![i].alive = FALSE]
                 /\ pc' = "check"
                 /\ UNCHANGED <<flag, ptimer, tosswait, running, processing, closed,
                                incoming, stale, asks, calls, astray, waited>>

Session == /\ pc = "poll"
           /\ incoming' \in {incoming + 1, incoming - 1} \cap (0..MaxIncoming)
           /\ pc' = "check"
           /\ UNCHANGED <<flag, ptimer, tosswait, running, processing, closed,
                          task, stale, asks, calls, astray, waited>>

\* A program ends or is killed, at any moment.
Ends(i) == /\ i \in Alive(Kinds)
           /\ task' = [task EXCEPT ![i].alive = FALSE, ![i].age = 0]
           /\ UNCHANGED <<pc, flag, ptimer, tosswait, running, processing, closed,
                          incoming, stale, asks, calls, astray, waited>>

\* A program is stopped by a signal: wait4() reports it like one that ended
\* (WUNTRACED) and it leaves the table alive, with its registration if it has one.
Stops(i) == /\ i \in Alive(Kinds)
            /\ task' = [task EXCEPT ![i].alive = FALSE, ![i].tcp = FALSE, ![i].age = 0]
            /\ incoming' = IF task[i].tcp THEN incoming + 1 ELSE incoming
            /\ incoming' <= MaxIncoming
            /\ astray' = TRUE
            /\ UNCHANGED <<pc, flag, ptimer, tosswait, running, processing, closed,
                           stale, asks, calls, waited>>

\* The BBS is closed or opened, the load or the power changes.
Switch == /\ closed' = ~closed
          /\ UNCHANGED <<pc, flag, ptimer, tosswait, running, processing, task,
                         incoming, stale, asks, calls, astray, waited>>

\* Mail for another node appears in the outbound.
Mail == /\ asks < MaxAsks /\ calls < MaxCalls
        /\ calls' = calls + 1 /\ asks' = asks + 1
        /\ UNCHANGED <<pc, flag, ptimer, tosswait, running, processing, closed, task,
                       incoming, stale, astray, waited>>

-----------------------------------------------------------------------------
(* The loop *)

\* poll() ends after a second without a command.
Poll == /\ pc = "poll"
        /\ pc' = "check"
        /\ UNCHANGED <<flag, ptimer, tosswait, running, processing, closed, task,
                       incoming, stale, asks, calls, astray, waited>>

\* Only mailers may be in the way of mailin: not mailout either, which goes first.
MailinReady == /\ processing' /\ ptimer' = 0
               /\ "mailin" \in flag /\ "mailout" \notin flag
               /\ OfKind(Reaped, {"mbfido"}) = {}

Less(n) == IF n > 0 THEN n - 1 ELSE 0

\* Mutant: the minutes are not counted.
TossLeftAlways(minute) == tosswait
TossLeft(minute) == IF minute THEN Less(tosswait) ELSE tosswait

\* reg_check() to the pause timer; a second or a minute may be over.  A second
\* is not over before the mailers that were started in time have registered.
Check(second, minute) ==
    /\ pc = "check"
    /\ minute => second
    /\ second => \A i \in Alive({"inet"}) : ~task[i].tcp => task[i].age < RegDelay
    /\ stale' = Unclosed
    /\ task' = [i \in Slots |->
                  IF second /\ Reaped[i] # Free /\ Reaped[i].kind = "inet" /\ ~Reaped[i].tcp
                  THEN [Reaped[i] EXCEPT !.age = @ + 1] ELSE Reaped[i]]
    /\ running' = Cardinality(Used(Reaped))
    /\ processing' = ~closed
    /\ ptimer' = IF second THEN Less(Pause) ELSE Pause
    /\ tosswait' = TossLeft(minute)
    /\ waited' = IF minute /\ MailinReady /\ waited <= TossWait THEN waited + 1 ELSE waited
    /\ pc' = IF processing' THEN "mailout" ELSE "calls"
    /\ UNCHANGED <<flag, closed, incoming, asks, calls, astray>>

\* Mutant: another mbfido may run.
TosserReadyAlways == ptimer = 0
\* mailout, mailin and newnews: no other mbfido runs.
TosserReady == ptimer = 0 /\ OfKind(task, {"mbfido"}) = {}

\* Mutant: what runs is not looked at.
IdleReadyAlways == ptimer = 0
\* index, msglink and reqindex: nothing else runs.
IdleReady == ptimer = 0 /\ running = 0

\* No mailers run, or it took too long.
MailersDone == ipmailers + Cardinality(OfKind(task, {"line"})) = 0

Ready(job) == /\ job \in flag
              /\ job \in {"mailout", "mailin", "newnews"} => TosserReady
              /\ job = "mailin" => MailersDone \/ tosswait = 0
              /\ job \in {"index", "msglink", "reqindex"} => IdleReady

Program(job) == CASE job = "index" -> "mbindex" [] job = "reqindex" -> "mbfile"
                  [] OTHER -> "mbfido"

\* The semaphore is cleared whether or not the program was started.
Start(job) ==
    /\ Launch(Program(job), IF job = "index" THEN Compilers ELSE 1)
    /\ flag' = flag \ {job}
    /\ tosswait' = IF job = "mailin" /\ MailersDone THEN TossWait ELSE tosswait
    /\ waited' = IF job = "mailin" THEN 0 ELSE waited
    /\ running' = Cardinality(Used(task'))

Job(job) == /\ pc = job
            /\ IF Ready(job) THEN Start(job)
               ELSE UNCHANGED <<task, ptimer, stale, flag, tosswait, waited, running>>
            /\ pc' = After(job)
            /\ UNCHANGED <<processing, closed, incoming, asks, calls, astray>>

\* Every 20 seconds one node is called, if a line is free.
Call(kind) ==
    /\ pc = "calls" /\ processing /\ calls > 0
    /\ kind = "inet" => ipmailers < MaxTcp
    /\ kind = "line" => Cardinality(OfKind(task, {"line"})) < Lines
    /\ Launch(kind, 1)
    /\ running' = Cardinality(Used(task'))
    /\ calls' = IF Used(task') = Used(Reaped) THEN calls ELSE calls - 1
    /\ pc' = "poll"
    /\ UNCHANGED <<flag, tosswait, processing, closed, incoming, asks, astray, waited>>

NoCall == /\ pc = "calls"
          /\ pc' = "poll"
          /\ UNCHANGED <<flag, ptimer, tosswait, running, processing, closed, task,
                         incoming, stale, asks, calls, astray, waited>>

Command == \/ \E s \in Asked : Set(s) \/ Remove(s)
           \/ \E i \in Slots : Register(i) \/ Unregister(i)
           \/ Session

Loop == \/ Poll
        \/ \E second, minute \in BOOLEAN : Check(second, minute)
        \/ \E job \in Semaphores : Job(job)
        \/ \E kind \in Mailers : Call(kind)
        \/ NoCall

Next == Loop \/ Command \/ Switch \/ Mail \/ \E i \in Slots : Ends(i) \/ Stops(i)

Spec == Init /\ [][Next]_vars

\* The loop runs, time passes, mailers register, programs end.
Fairness == /\ WF_vars(Loop)
            /\ SF_vars(Check(TRUE, TRUE))
            /\ \A i \in Slots : SF_vars(Register(i)) /\ WF_vars(Ends(i))

FairSpec == Spec /\ Fairness

-----------------------------------------------------------------------------
(* Properties *)

\* The daemon does not start a second mbfido while one that it started runs,
\* whichever of the four semaphores asks for it.  A program that was stopped is
\* forgotten (mbtask.c:613, 670): from then on another may run beside it.
OneTosser == ~astray => Cardinality(Alive({"mbfido"})) <= 1

Inv == TypeOK /\ OneTosser

Starts(job) == pc = job /\ Alive(Kinds)' \ Alive(Kinds) # {}

\* The nodelist compilers, the linking of messages and the indexes for file
\* requests start only when no other program of the daemon runs, unless one was
\* stopped before and is no longer in the table.
IdleAlone == [][\A job \in {"index", "msglink", "reqindex"} :
                    Starts(job) /\ ~astray => Alive(Kinds) = {}]_vars

\* Mail is tossed while no mailer runs that the daemon started over any line, one
\* included that has only just been started and is not registered yet, and while
\* no session over TCP/IP is registered, unless mail waited for TossWait minutes
\* or a program was stopped before.  Who called over a modem or an ISDN line is
\* not looked at (mbtask.c:1359), against the comment above it ("Only start
\* processing the inbound if no mailers are running"), and is no part of this.
MailinAlone == [][Starts("mailin") /\ tosswait > 0 /\ ~astray =>
                      Alive(Mailers) = {} /\ incoming = 0]_vars

\* Every request is dealt with when the system is not closed for good, however
\* many mailers run.
Served == <>[]~closed => \A s \in Asked : s \in flag ~> s \notin flag

\* Mailers alone keep mbfido from tossing for no more than TossWait minutes after
\* mailin was last asked for (mbtask.c:1355).  The wait starts anew with every
\* request (taskstat.c:424): on a system where mail keeps arriving beside mailers
\* that come and go there is no bound from the first request.
MailinWaits == waited <= TossWait
=============================================================================
