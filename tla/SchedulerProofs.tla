-------------------------- MODULE SchedulerProofs --------------------------
(***************************************************************************)
(* For any size of the table of tasks and any timers: mbtask runs one      *)
(* mbfido at a time, starts the idle jobs on an idle system, and tosses    *)
(* before the time is up only when no mailer runs.                         *)
(***************************************************************************)
EXTENDS Scheduler, FiniteSetTheorems, TLAPS

\* While the loop goes through the semaphores, the count of tasks it goes by
\* is that of the table, also after it has started something.
RunningExact == pc \in Semaphores => running = Cardinality(Used(task))

\* A mailer that was started and has not registered yet keeps the pause timer
\* from running out.
Pausing == \A i \in Slots :
    /\ task[i] # Free
    /\ task[i].kind = "inet" /\ task[i].alive /\ ~task[i].tcp
    => task[i].age + ptimer >= PauseTime

\* At most one mbfido in the table, also after programs were stopped.
OneInTable == Cardinality(Alive({"mbfido"})) <= 1

IInv == TypeOK /\ RunningExact /\ OneInTable /\ Pausing

-----------------------------------------------------------------------------
(* The table of tasks *)

LEMMA Numbers ==
  /\ MaxTasks \in Nat /\ PauseTime \in Nat /\ TossWait \in Nat /\ RegDelay \in Nat
  /\ Compilers \in Nat /\ MaxAsks \in Nat /\ MaxCalls \in Nat /\ MaxIncoming \in Nat
  /\ TossWait > 0
  BY SchedulerAssumption

LEMMA TaskFields ==
  ASSUME NEW t \in [Slots -> Task \cup {Free}], NEW i \in Slots, t[i] # Free
  PROVE  /\ t[i] \in Task
         /\ t[i].kind \in Kinds /\ t[i].alive \in BOOLEAN /\ t[i].tcp \in BOOLEAN
         /\ t[i].age \in 0..RegDelay
  BY DEF Task

LEMMA StartedIsTask ==
  ASSUME NEW kind \in Kinds
  PROVE  /\ [kind |-> kind, alive |-> TRUE, tcp |-> FALSE, age |-> 0] \in Task
         /\ [kind |-> kind, alive |-> TRUE, tcp |-> FALSE, age |-> 0] # Free
  <1>1. 0 \in 0..RegDelay
    BY Numbers
  <1>2. kind # "none"
    BY DEF Kinds, Mailers
  <1> QED
    BY <1>1, <1>2 DEF Task, Free

LEMMA SlotsFinite ==
  ASSUME NEW S \in SUBSET Slots
  PROVE  IsFiniteSet(S) /\ Cardinality(S) \in 0..MaxTasks
  <1>1. IsFiniteSet(1..MaxTasks) /\ Cardinality(1..MaxTasks) = MaxTasks
    BY FS_Interval, Numbers
  <1>2. IsFiniteSet(S) /\ Cardinality(S) <= MaxTasks
    BY <1>1, FS_Subset DEF Slots
  <1> QED
    BY <1>2, FS_CardinalityType, Numbers

LEMMA EmptyTable ==
  ASSUME NEW S \in SUBSET Slots
  PROVE  Cardinality(S) = 0 <=> S = {}
  BY SlotsFinite, FS_EmptySet

\* checktasks() removes programs that ended and nothing else.
LEMMA ReapedTable ==
  ASSUME TypeOK
  PROVE  /\ Reaped \in [Slots -> Task \cup {Free}]
         /\ \A i \in Slots : Reaped[i] # Free => Reaped[i] = task[i] /\ task[i].alive
         /\ Used(Reaped) \subseteq Used(task)
         /\ Unclosed \in Nat
  <1>1. \A i \in Slots : Reaped[i] # Free => Reaped[i] = task[i] /\ task[i].alive
    <2> SUFFICES ASSUME NEW i \in Slots, Reaped[i] # Free
                 PROVE  Reaped[i] = task[i] /\ task[i].alive
      OBVIOUS
    <2>1. i \notin Ended /\ Reaped[i] = task[i]
      BY DEF Reaped
    <2> QED
      BY <2>1 DEF Ended, Used
  <1>2. Reaped \in [Slots -> Task \cup {Free}]
    BY DEF Reaped, TypeOK
  <1>3. {i \in Ended : task[i].tcp} \in SUBSET Slots
    BY DEF Ended, Used
  <1>4. Unclosed \in Nat
    BY <1>3, SlotsFinite, Numbers DEF Unclosed
  <1> QED
    BY <1>1, <1>2, <1>4 DEF Used

\* launch() adds programs of the kind it was asked for in free slots.
LEMMA LaunchedTable ==
  ASSUME TypeOK, NEW kind \in Kinds, NEW count \in Nat, NEW t \in Launched(kind, count)
  PROVE  /\ t \in [Slots -> Task \cup {Free}]
         /\ \E new \in SUBSET Slots :
               /\ Cardinality(new) \in 0..count
               /\ \A i \in new : t[i] = [kind |-> kind, alive |-> TRUE, tcp |-> FALSE, age |-> 0]
               /\ \A i \in Slots \ new : t[i] = Reaped[i]
               /\ new # {} => t # Reaped
  <1> DEFINE one == [kind |-> kind, alive |-> TRUE, tcp |-> FALSE, age |-> 0]
  <1>1. PICK new \in SUBSET (Slots \ Used(Reaped)) :
               /\ Cardinality(new) \in 0..count
               /\ t = [i \in Slots |-> IF i \in new THEN one ELSE Reaped[i]]
    BY DEF Launched
  <1>2. t \in [Slots -> Task \cup {Free}]
    BY <1>1, StartedIsTask, ReapedTable
  <1>3. \A i \in new : t[i] = one
    BY <1>1
  <1>4. \A i \in Slots \ new : t[i] = Reaped[i]
    BY <1>1
  <1>5. ASSUME new # {} PROVE t # Reaped
    <2>1. PICK i \in new : TRUE
      BY <1>5
    <2>2. Reaped[i] = Free
      BY <1>1, <2>1 DEF Used
    <2> QED
      BY <1>3, <2>1, <2>2, StartedIsTask
  <1> QED
    BY <1>1, <1>2, <1>3, <1>4, <1>5

\* A program of the kind is added at most count times, others only end.
LEMMA LaunchedAlive ==
  ASSUME TypeOK, NEW kind \in Kinds, NEW count \in Nat, task' \in Launched(kind, count),
         NEW K \in SUBSET Kinds
  PROVE  /\ kind \notin K => Alive(K)' \subseteq Alive(K)
         /\ Alive(K) = {} => Cardinality(Alive(K)') <= count
  <1>1. PICK new \in SUBSET Slots :
           /\ Cardinality(new) \in 0..count
           /\ \A i \in new : task'[i] = [kind |-> kind, alive |-> TRUE, tcp |-> FALSE, age |-> 0]
           /\ \A i \in Slots \ new : task'[i] = Reaped[i]
    BY LaunchedTable
  <1>2. ASSUME NEW i \in Alive(K)', i \notin new PROVE i \in Alive(K)
    <2>1. i \in Slots /\ task'[i] # Free /\ task'[i].kind \in K
      BY <1>2 DEF Alive, Used
    <2> QED
      BY <1>1, <1>2, <2>1, ReapedTable DEF Alive, Used
  <1>3. \A i \in new : task'[i].kind = kind
    BY <1>1
  <1>4. ASSUME kind \notin K PROVE Alive(K)' \subseteq Alive(K)
    <2>1. \A i \in Alive(K)' : task'[i].kind \in K
      BY DEF Alive
    <2> QED
      BY <1>2, <1>3, <1>4, <2>1
  <1>5. ASSUME Alive(K) = {} PROVE Cardinality(Alive(K)') <= count
    <2>1. Alive(K)' \subseteq new
      BY <1>2, <1>5
    <2>2. IsFiniteSet(new) /\ Cardinality(new) <= count
      BY <1>1, SlotsFinite
    <2>3. /\ IsFiniteSet(Alive(K)') /\ Cardinality(Alive(K)') <= Cardinality(new)
          /\ Cardinality(new) \in Nat /\ Cardinality(Alive(K)') \in Nat
      BY <2>1, <2>2, FS_Subset, FS_CardinalityType
    <2> QED
      BY <2>2, <2>3
  <1> QED
    BY <1>4, <1>5

LEMMA FewerTossers ==
  ASSUME TypeOK, OneInTable, Alive({"mbfido"})' \subseteq Alive({"mbfido"})
  PROVE  OneInTable'
  <1>1. Alive({"mbfido"}) \in SUBSET Slots
    BY DEF Alive, Used
  <1>2. /\ IsFiniteSet(Alive({"mbfido"}))
        /\ Cardinality(Alive({"mbfido"})) \in Nat
    BY <1>1, SlotsFinite, FS_CardinalityType
  <1>3. /\ Cardinality(Alive({"mbfido"})') <= Cardinality(Alive({"mbfido"}))
        /\ Cardinality(Alive({"mbfido"})') \in Nat
    BY <1>2, FS_Subset, FS_CardinalityType
  <1> QED
    BY <1>2, <1>3 DEF OneInTable

-----------------------------------------------------------------------------
(* Each step keeps the invariant *)

LEMMA InitIInv == Init => IInv
  <1> SUFFICES ASSUME Init PROVE IInv
    OBVIOUS
  <1>1. Alive({"mbfido"}) = {} /\ \A i \in Slots : task[i] = Free
    BY DEF Init, Alive, Used
  <1>2. OneInTable
    BY <1>1, FS_EmptySet DEF OneInTable
  <1>3. TypeOK
    <2>1. 0 \in 0..(TossWait + 1)
      BY Numbers
    <2>2. ptimer \in 0..PauseTime /\ tosswait \in 0..TossWait /\ running \in 0..MaxTasks
      BY Numbers DEF Init
    <2>3. incoming \in 0..MaxIncoming /\ asks \in 0..MaxAsks /\ calls \in 0..MaxCalls
      BY Numbers DEF Init
    <2> QED
      BY <2>1, <2>2, <2>3 DEF Init, TypeOK, Parts
  <1> QED
    BY <1>1, <1>2, <1>3 DEF Init, IInv, RunningExact, Pausing, Semaphores

\* Whatever leaves the table and the timer alone.
LEMMA TableUnchanged ==
  ASSUME IInv, task' = task, ptimer' = PauseTime \/ ptimer' = ptimer,
         pc' \in Semaphores => (pc \in Semaphores /\ running' = running)
  PROVE  RunningExact' /\ OneInTable' /\ Pausing'
  <1>1. Used(task') = Used(task) /\ Alive({"mbfido"})' = Alive({"mbfido"})
    BY DEF Used, Alive
  <1>2. RunningExact' /\ OneInTable'
    BY <1>1 DEF IInv, RunningExact, OneInTable
  <1>3. Pausing'
    <2> SUFFICES ASSUME NEW i \in Slots, task[i] # Free, task[i].kind = "inet",
                        task[i].alive, ~task[i].tcp
                 PROVE  task[i].age + ptimer' >= PauseTime
      BY DEF Pausing
    <2>1. task[i].age \in Nat
      BY TaskFields, Numbers DEF IInv, TypeOK
    <2> QED
      BY <2>1, Numbers DEF IInv, Pausing
  <1> QED
    BY <1>2, <1>3

\* Commands that do not touch the table, Switch, Mail and Poll.
LEMMA QuietSteps ==
  ASSUME IInv,
         \/ \E s \in Asked : Set(s) \/ Remove(s)
         \/ Session \/ Switch \/ Mail \/ Poll \/ NoCall
  PROVE  IInv'
  <1>1. TypeOK'
    <2>1. 0 \in 0..(TossWait + 1)
      BY Numbers
    <2>2. CASE \E s \in Asked : Set(s) \/ Remove(s)
      BY <2>1, <2>2, Numbers DEF IInv, TypeOK, Set, Remove, Parts
    <2>3. CASE Session
      BY <2>3, Numbers DEF IInv, TypeOK, Session, Parts
    <2>4. CASE Mail
      BY <2>4, Numbers DEF IInv, TypeOK, Mail, Parts
    <2>5. CASE Switch \/ Poll \/ NoCall
      BY <2>5 DEF IInv, TypeOK, Switch, Poll, NoCall, Parts
    <2> QED
      BY <2>2, <2>3, <2>4, <2>5
  <1>2. /\ task' = task
        /\ (ptimer' = PauseTime \/ ptimer' = ptimer)
        /\ pc' \in Semaphores => (pc \in Semaphores /\ running' = running)
    BY DEF Set, Remove, Session, Switch, Mail, Poll, NoCall, Semaphores
  <1>3. RunningExact' /\ OneInTable' /\ Pausing'
    BY <1>2, TableUnchanged
  <1> QED
    BY <1>1, <1>3 DEF IInv

\* A program registers, closes its session, ends or is stopped: it is still in
\* the table.
LEMMA ProgramSteps ==
  ASSUME IInv, NEW i \in Slots, Register(i) \/ Unregister(i) \/ Ends(i) \/ Stops(i)
  PROVE  IInv'
  <1>1. /\ task[i] # Free /\ task[i] \in Task /\ task[i].alive
    BY TaskFields DEF IInv, TypeOK, Register, Unregister, Ends, Stops, Alive, Used
  <1>2. PICK new \in Task :
           /\ task' = [task EXCEPT ![i] = new]
           /\ new.kind = task[i].kind
           /\ new.alive /\ new.kind = "inet" => new.tcp
    <2>1. 0 \in 0..RegDelay
      BY Numbers
    <2>2. CASE Register(i)
      <3>1. [task[i] EXCEPT !.tcp = TRUE, !.age = 0] \in Task
        BY <1>1, <2>1 DEF Task
      <3> QED
        BY <2>2, <3>1, <1>1 DEF Register, IInv, TypeOK, Task
    <2>3. CASE Unregister(i)
      <3>1. [task[i] EXCEPT !.tcp = FALSE, !.alive = FALSE] \in Task
        BY <1>1 DEF Task
      <3> QED
        BY <2>3, <3>1, <1>1 DEF Unregister, IInv, TypeOK, Task
    <2>4. CASE Ends(i)
      <3>1. [task[i] EXCEPT !.alive = FALSE, !.age = 0] \in Task
        BY <1>1, <2>1 DEF Task
      <3> QED
        BY <2>4, <3>1, <1>1 DEF Ends, IInv, TypeOK, Task
    <2>5. CASE Stops(i)
      <3>1. [task[i] EXCEPT !.alive = FALSE, !.tcp = FALSE, !.age = 0] \in Task
        BY <1>1, <2>1 DEF Task
      <3> QED
        BY <2>5, <3>1, <1>1 DEF Stops, IInv, TypeOK, Task
    <2> QED
      BY <2>2, <2>3, <2>4, <2>5
  <1>3. /\ ptimer' = ptimer /\ running' = running
        /\ pc' \in Semaphores => pc \in Semaphores
    BY DEF Register, Unregister, Ends, Stops, Semaphores
  <1>4. TypeOK'
    <2>1. task' \in [Slots -> Task \cup {Free}]
      BY <1>2 DEF IInv, TypeOK
    <2>2. incoming' \in 0..MaxIncoming
      BY Numbers DEF IInv, TypeOK, Register, Unregister, Ends, Stops
    <2> QED
      BY <2>1, <2>2 DEF IInv, TypeOK, Register, Unregister, Ends, Stops, Parts
  <1>5. new # Free
    BY <1>2 DEF Task, Free, Kinds, Mailers
  <1>6. Used(task') = Used(task)
    BY <1>1, <1>2, <1>5 DEF Used, IInv, TypeOK
  <1>7. Alive({"mbfido"})' \subseteq Alive({"mbfido"})
    BY <1>1, <1>2, <1>6 DEF Alive, Used, IInv, TypeOK
  <1>8. Pausing'
    BY <1>2, <1>3 DEF Pausing, IInv, TypeOK
  <1> QED
    BY <1>3, <1>4, <1>6, <1>7, <1>8, FewerTossers DEF IInv, RunningExact

LEMMA CheckStep ==
  ASSUME IInv, NEW second \in BOOLEAN, NEW minute \in BOOLEAN, Check(second, minute)
  PROVE  IInv'
  <1> DEFINE Unseen(i) == /\ second /\ Reaped[i] # Free
                          /\ Reaped[i].kind = "inet" /\ ~Reaped[i].tcp
             Older(i) == IF Unseen(i) THEN [Reaped[i] EXCEPT !.age = @ + 1] ELSE Reaped[i]
  <1> USE DEF IInv
  <1>1. task' = [i \in Slots |-> Older(i)]
    BY DEF Check
  <1>2. ASSUME NEW i \in Slots, Reaped[i] # Free
        PROVE  /\ Reaped[i] = task[i] /\ task[i] # Free /\ task[i].alive
               /\ task[i] \in Task /\ task[i].age \in 0..RegDelay
    BY <1>2, ReapedTable, TaskFields DEF TypeOK
  <1>3. ASSUME NEW i \in Slots, Unseen(i) PROVE Reaped[i].age < RegDelay
    BY <1>2, <1>3 DEF Check, Alive, Used
  <1>4. ASSUME NEW i \in Slots, Unseen(i)
        PROVE  /\ Older(i) = [Reaped[i] EXCEPT !.age = @ + 1]
               /\ Older(i) \in Task /\ Older(i) # Free
               /\ Older(i).kind = Reaped[i].kind /\ Older(i).alive = Reaped[i].alive
               /\ Older(i).tcp = Reaped[i].tcp /\ Older(i).age = Reaped[i].age + 1
    <2>1. Reaped[i].age + 1 \in 0..RegDelay
      BY <1>2, <1>3, <1>4, Numbers
    <2>2. Reaped[i] \in Task
      BY <1>2, <1>4
    <2>3. Older(i) = [Reaped[i] EXCEPT !.age = @ + 1]
      BY <1>4
    <2>4. Older(i) \in Task
      BY <2>1, <2>2, <2>3 DEF Task
    <2>5. Older(i).kind \in Kinds
      BY <2>4 DEF Task
    <2>6. Older(i) # Free
      BY <2>5 DEF Free, Kinds, Mailers
    <2> QED
      BY <2>2, <2>3, <2>4, <2>6 DEF Task
  <1>5. \A i \in Slots : Older(i) \in Task \cup {Free}
    BY <1>4, ReapedTable
  <1>6. \A i \in Slots : Older(i) # Free <=> Reaped[i] # Free
    BY <1>4
  <1> HIDE DEF Older
  <1>7. task' \in [Slots -> Task \cup {Free}]
    BY <1>1, <1>5
  <1>8. Used(task') = Used(Reaped) /\ Used(Reaped) \in SUBSET Slots
    BY <1>1, <1>6 DEF Used
  <1>9. RunningExact' /\ running' \in 0..MaxTasks
    BY <1>8, SlotsFinite DEF RunningExact, Check
  <1>10. OneInTable'
    <2>1. \A i \in Slots : Older(i) # Free =>
             Older(i).kind = task[i].kind /\ task[i].alive /\ task[i] # Free
      BY <1>2, <1>4, <1>6 DEF Older
    <2>2. Alive({"mbfido"})' \subseteq Alive({"mbfido"})
      BY <1>1, <2>1 DEF Alive, Used
    <2> QED
      BY <2>2, FewerTossers
  <1>11. ptimer' \in 0..PauseTime /\ Pausing'
    <2>1. Pause \in 0..PauseTime /\ Pause >= ptimer
      BY Numbers DEF Pause, TypeOK
    <2>2. ptimer' \in 0..PauseTime /\ ptimer' >= Pause - 1 /\ (~second => ptimer' = Pause)
      BY <2>1, Numbers DEF Check, Less
    <2>3. ASSUME NEW i \in Slots, task'[i] # Free, task'[i].kind = "inet",
                 task'[i].alive, ~task'[i].tcp
          PROVE  task'[i].age + ptimer' >= PauseTime
      <3>1. task'[i] = Older(i)
        BY <1>1
      <3>2. Reaped[i] # Free
        BY <1>6, <2>3, <3>1
      <3>3. Reaped[i] = task[i] /\ task[i] # Free /\ task[i].alive /\ task[i].age \in 0..RegDelay
        BY <1>2, <3>2
      <3>4. CASE Unseen(i)
        <4>1. task'[i].age = task[i].age + 1 /\ task[i].kind = "inet" /\ ~task[i].tcp
          BY <1>4, <2>3, <3>1, <3>3, <3>4
        <4>2. task[i].age + ptimer >= PauseTime
          BY <3>3, <4>1 DEF Pausing
        <4> QED
          BY <2>1, <2>2, <3>3, <4>1, <4>2, Numbers DEF TypeOK
      <3>5. CASE ~Unseen(i)
        <4>1. task'[i] = task[i]
          BY <3>1, <3>3, <3>5 DEF Older
        <4>2. ~second
          BY <2>3, <3>2, <3>3, <3>5, <4>1
        <4>3. task[i].age + ptimer >= PauseTime
          BY <2>3, <3>3, <4>1 DEF Pausing
        <4> QED
          BY <2>1, <2>2, <3>3, <4>1, <4>2, <4>3, Numbers DEF TypeOK
      <3> QED
        BY <3>4, <3>5
    <2> QED
      BY <2>2, <2>3 DEF Pausing
  <1>12. tosswait' \in 0..TossWait
    BY Numbers DEF Check, TossLeft, Less, TypeOK
  <1>13. waited' \in 0..(TossWait + 1)
    <2>1. (waited' = waited + 1 /\ waited <= TossWait) \/ waited' = waited
      BY DEF Check
    <2> QED
      BY <2>1, Numbers DEF TypeOK
  <1>14. stale' \in Nat
    BY ReapedTable DEF Check
  <1>15. TypeOK'
    BY <1>7, <1>9, <1>11, <1>12, <1>13, <1>14 DEF Check, TypeOK, Parts, Semaphores
  <1> QED
    BY <1>9, <1>10, <1>11, <1>15

\* launch() on the tasks that are there, for at most count programs of a kind.
LEMMA LaunchStep ==
  ASSUME IInv, NEW kind \in Kinds, NEW count \in Nat, Launch(kind, count),
         running' = Cardinality(Used(task')),
         kind = "mbfido" => count = 1 /\ Alive({"mbfido"}) = {}
  PROVE  /\ task' \in [Slots -> Task \cup {Free}]
         /\ ptimer' \in 0..PauseTime /\ stale' \in Nat /\ running' \in 0..MaxTasks
         /\ RunningExact' /\ OneInTable' /\ Pausing'
  <1> USE DEF IInv
  <1>1. task' \in Launched(kind, count)
    BY DEF Launch
  <1>2. PICK new \in SUBSET Slots :
           /\ \A i \in new : task'[i] = [kind |-> kind, alive |-> TRUE, tcp |-> FALSE, age |-> 0]
           /\ \A i \in Slots \ new : task'[i] = Reaped[i]
           /\ new # {} => task' # Reaped
    BY <1>1, LaunchedTable
  <1>3. task' \in [Slots -> Task \cup {Free}]
    BY <1>1, LaunchedTable
  <1>4. Used(task') \in SUBSET Slots
    BY DEF Used
  <1>5. RunningExact' /\ running' \in 0..MaxTasks
    BY <1>4, SlotsFinite DEF RunningExact
  <1>6. Pause \in 0..PauseTime /\ Pause >= ptimer
    BY Numbers DEF Pause, TypeOK
  <1>7. /\ ptimer' \in 0..PauseTime /\ ptimer' >= ptimer
        /\ task' # Reaped => ptimer' = PauseTime
    BY <1>6, Numbers DEF Launch, TypeOK
  <1>8. stale' \in Nat
    BY ReapedTable DEF Launch, TypeOK
  <1>9. OneInTable'
    <2>1. {"mbfido"} \in SUBSET Kinds
      BY DEF Kinds
    <2>2. CASE kind = "mbfido"
      BY <1>1, <2>1, <2>2, LaunchedAlive DEF OneInTable
    <2>3. CASE kind # "mbfido"
      BY <1>1, <2>1, <2>3, LaunchedAlive, FewerTossers
    <2> QED
      BY <2>2, <2>3
  <1>10. Pausing'
    <2> SUFFICES ASSUME NEW i \in Slots, task'[i] # Free, task'[i].kind = "inet",
                        task'[i].alive, ~task'[i].tcp
                 PROVE  task'[i].age + ptimer' >= PauseTime
      BY DEF Pausing
    <2>1. CASE i \in new
      <3>1. task'[i].age = 0 /\ ptimer' = PauseTime
        BY <1>2, <1>7, <2>1
      <3> QED
        BY <3>1, Numbers
    <2>2. CASE i \notin new
      <3>1. task'[i] = task[i] /\ task[i] # Free
        BY <1>2, <2>2, ReapedTable
      <3>2. task[i].age \in 0..RegDelay
        BY <3>1, TaskFields DEF TypeOK
      <3>3. task[i].age + ptimer >= PauseTime
        BY <3>1 DEF Pausing
      <3> QED
        BY <1>7, <3>1, <3>2, <3>3, Numbers DEF TypeOK
    <2> QED
      BY <2>1, <2>2
  <1> QED
    BY <1>3, <1>5, <1>7, <1>8, <1>9, <1>10

LEMMA JobStep ==
  ASSUME IInv, NEW job \in Semaphores, Job(job)
  PROVE  IInv'
  <1> USE DEF IInv
  <1>1. After(job) \in Parts
    BY DEF After, Jobs, Parts, Semaphores
  <1>2. CASE Ready(job)
    <2>1. Start(job)
      BY <1>2 DEF Job
    <2> DEFINE count == IF job = "index" THEN Compilers ELSE 1
    <2>2. Program(job) \in Kinds /\ count \in Nat
      BY Numbers DEF Program, Kinds, Semaphores
    <2>3. Launch(Program(job), count) /\ running' = Cardinality(Used(task'))
      BY <2>1 DEF Start
    <2>4. ASSUME Program(job) = "mbfido" PROVE count = 1 /\ Alive({"mbfido"}) = {}
      <3>1. job # "index" /\ job # "reqindex"
        BY <2>4 DEF Program
      <3>2. CASE job \in {"mailout", "mailin", "newnews"}
        <4>1. OfKind(task, {"mbfido"}) = {}
          BY <1>2, <3>2 DEF Ready, TosserReady
        <4> QED
          BY <3>1, <4>1 DEF OfKind, Alive
      <3>3. CASE job = "msglink"
        <4>1. Cardinality(Used(task)) = 0
          BY <1>2, <3>3 DEF Ready, IdleReady, Job, RunningExact, Semaphores
        <4>2. Used(task) = {}
          BY <4>1, EmptyTable DEF Used
        <4> QED
          BY <3>1, <4>2 DEF Alive
      <3> QED
        BY <3>1, <3>2, <3>3 DEF Semaphores
    <2> HIDE DEF count
    <2>5. /\ task' \in [Slots -> Task \cup {Free}]
          /\ ptimer' \in 0..PauseTime /\ stale' \in Nat /\ running' \in 0..MaxTasks
          /\ RunningExact' /\ OneInTable' /\ Pausing'
      BY <2>2, <2>3, <2>4, LaunchStep
    <2>6. 0 \in 0..(TossWait + 1) /\ TossWait \in 0..TossWait
      BY Numbers
    <2>7. TypeOK'
      BY <1>1, <2>1, <2>5, <2>6 DEF Start, Job, TypeOK
    <2> QED
      BY <2>5, <2>7
  <1>3. CASE ~Ready(job)
    <2>1. UNCHANGED <<task, ptimer, stale, flag, tosswait, waited, running>>
      BY <1>3 DEF Job
    <2>2. TypeOK'
      BY <1>1, <2>1 DEF Job, TypeOK
    <2>3. pc \in Semaphores /\ task' = task /\ ptimer' = ptimer /\ running' = running
      BY <2>1 DEF Job
    <2> QED
      BY <2>2, <2>3, TableUnchanged
  <1> QED
    BY <1>2, <1>3

LEMMA CallStep ==
  ASSUME IInv, NEW kind \in Mailers, Call(kind)
  PROVE  IInv'
  <1> USE DEF IInv
  <1>1. kind \in Kinds /\ kind # "mbfido"
    BY DEF Kinds, Mailers
  <1>2. Launch(kind, 1) /\ running' = Cardinality(Used(task'))
    BY DEF Call
  <1>3. /\ task' \in [Slots -> Task \cup {Free}]
        /\ ptimer' \in 0..PauseTime /\ stale' \in Nat /\ running' \in 0..MaxTasks
        /\ RunningExact' /\ OneInTable' /\ Pausing'
    BY <1>1, <1>2, LaunchStep
  <1>4. calls' \in 0..MaxCalls
    BY Numbers DEF Call, TypeOK
  <1>5. TypeOK'
    BY <1>3, <1>4 DEF Call, TypeOK, Parts
  <1> QED
    BY <1>3, <1>5

LEMMA NextIInv == IInv /\ [Next]_vars => IInv'
  <1> SUFFICES ASSUME IInv, [Next]_vars PROVE IInv'
    OBVIOUS
  <1>1. CASE UNCHANGED vars
    BY <1>1 DEF vars, IInv, TypeOK, RunningExact, OneInTable, Pausing, Alive, Used
  <1>2. CASE \/ \E s \in Asked : Set(s) \/ Remove(s)
             \/ Session \/ Switch \/ Mail \/ Poll \/ NoCall
    BY <1>2, QuietSteps
  <1>3. CASE \E i \in Slots : Register(i) \/ Unregister(i) \/ Ends(i) \/ Stops(i)
    BY <1>3, ProgramSteps
  <1>4. CASE \E second, minute \in BOOLEAN : Check(second, minute)
    BY <1>4, CheckStep
  <1>5. CASE \E job \in Semaphores : Job(job)
    BY <1>5, JobStep
  <1>6. CASE \E kind \in Mailers : Call(kind)
    BY <1>6, CallStep
  <1> QED
    BY <1>1, <1>2, <1>3, <1>4, <1>5, <1>6 DEF Next, Loop, Command

\* The invariant holds in every behaviour of the daemon.
THEOREM IInvHolds == Spec => []IInv
  BY InitIInv, NextIInv, PTL DEF Spec

\* Types, and that at most one mbfido started by the daemon runs, for any
\* number of tasks, whichever semaphores ask for it (launch, scheduler).
THEOREM InvHolds == Spec => []Inv
  <1>1. IInv => Inv
    BY DEF IInv, Inv, OneInTable, OneTosser
  <1> QED
    BY <1>1, IInvHolds, PTL

-----------------------------------------------------------------------------
(* What a start finds *)

\* Programs are only started for a semaphore while its condition holds.
LEMMA StartsWhenReady ==
  ASSUME IInv, [Next]_vars, NEW job \in Semaphores, Starts(job)
  PROVE  Ready(job)
  <1>1. pc = job /\ pc \in Semaphores /\ ~(Alive(Kinds)' \subseteq Alive(Kinds))
    BY DEF Starts
  <1>2. ASSUME task' = task PROVE FALSE
    BY <1>1, <1>2 DEF Alive, Used
  <1>3. PICK j \in Semaphores : Job(j) \/ \E i \in Slots : Ends(i) \/ Stops(i)
    BY <1>1, <1>2 DEF Next, Loop, Command, Set, Remove, Register, Unregister, Session,
                      Switch, Mail, Poll, Check, Call, NoCall, Semaphores, vars
  <1>4. ASSUME NEW i \in Slots, Ends(i) \/ Stops(i) PROVE FALSE
    <2>1. \A k \in Slots : k # i => task'[k] = task[k]
      BY <1>4 DEF Ends, Stops, IInv, TypeOK
    <2>2. ~task'[i].alive
      <3>1. task[i] \in Task
        BY <1>4, TaskFields DEF Ends, Stops, Alive, Used, IInv, TypeOK
      <3> QED
        BY <1>4, <3>1 DEF Ends, Stops, IInv, TypeOK, Task
    <2> QED
      BY <1>1, <2>1, <2>2 DEF Alive, Used
  <1>5. Job(job)
    BY <1>1, <1>3, <1>4 DEF Job
  <1> QED
    BY <1>2, <1>5 DEF Job

\* The nodelist compilers, the linking of messages and the indexes for file
\* requests start when no other program of the daemon runs: the count of tasks
\* they go by is taken again after every start.
THEOREM IdleJobsAlone == Spec => IdleAlone
  <1>1. ASSUME IInv, [Next]_vars, NEW job \in {"index", "msglink", "reqindex"}, Starts(job)
        PROVE  Alive(Kinds) = {}
    <2>1. job \in Semaphores /\ pc = job
      BY <1>1 DEF Semaphores, Starts
    <2>2. running = 0
      BY <1>1, <2>1, StartsWhenReady DEF Ready, IdleReady
    <2>3. Used(task) = {}
      BY <1>1, <2>1, <2>2, EmptyTable DEF IInv, RunningExact, Used
    <2> QED
      BY <2>3 DEF Alive
  <1>2. IInv /\ [Next]_vars =>
           [\A job \in {"index", "msglink", "reqindex"} : Starts(job) /\ ~astray => Alive(Kinds) = {}]_vars
    BY <1>1
  <1> QED
    BY <1>2, IInvHolds, PTL DEF Spec, IdleAlone

\* Before TossWait minutes are over mbfido tosses only when no mailer of the daemon
\* runs, not even one that has not registered yet (until it has, the pause timer
\* runs), and no session over TCP/IP is registered.  The calls that mgetty took
\* are in neither count.
THEOREM MailTossedAlone == Spec => MailinAlone
  <1>1. ASSUME IInv, [Next]_vars, Starts("mailin"), tosswait > 0
        PROVE  Alive(Mailers) = {} /\ incoming = 0
    <2>1. Ready("mailin")
      BY <1>1, StartsWhenReady DEF Semaphores
    <2>2. ptimer = 0 /\ MailersDone
      BY <1>1, <2>1, Numbers DEF Ready, TosserReady, IInv, TypeOK
    <2> DEFINE tcp == {i \in Used(task) : task[i].tcp}
               lines == OfKind(task, {"line"})
    <2>3. tcp \in SUBSET Slots /\ lines \in SUBSET Slots
      BY DEF Used, OfKind
    <2>4. Cardinality(tcp) \in Nat /\ Cardinality(lines) \in Nat
      BY <2>3, SlotsFinite, Numbers
    <2>5. incoming = 0 /\ Cardinality(tcp) = 0 /\ Cardinality(lines) = 0
      <3>1. incoming \in Nat /\ stale \in Nat
        BY <1>1, Numbers DEF IInv, TypeOK
      <3>2. incoming + stale + Cardinality(tcp) + Cardinality(lines) = 0
        BY <2>2 DEF MailersDone, ipmailers
      <3>3. \A a, b, c, d \in Nat : a + b + c + d = 0 => a = 0 /\ c = 0 /\ d = 0
        OBVIOUS
      <3> HIDE DEF tcp, lines
      <3> QED
        BY <2>4, <3>1, <3>2, <3>3
    <2>6. tcp = {} /\ lines = {}
      BY <2>3, <2>5, EmptyTable
    <2>7. ASSUME NEW i \in Alive(Mailers) PROVE FALSE
      <3>1. i \in Slots /\ task[i] # Free /\ task[i].alive /\ task[i].kind \in Mailers
        BY <2>7 DEF Alive, Used
      <3>2. task[i].kind = "inet" /\ ~task[i].tcp
        BY <2>6, <3>1 DEF Used, OfKind, Mailers
      <3>3. task[i].age \in 0..RegDelay
        BY <1>1, <3>1, TaskFields DEF IInv, TypeOK
      <3>4. task[i].age + ptimer >= PauseTime
        BY <1>1, <3>1, <3>2 DEF IInv, Pausing
      <3> QED
        BY <2>2, <3>3, <3>4, Numbers, SchedulerAssumption
    <2> QED
      BY <2>5, <2>7
  <1>2. IInv /\ [Next]_vars =>
           [Starts("mailin") /\ tosswait > 0 /\ ~astray => Alive(Mailers) = {} /\ incoming = 0]_vars
    BY <1>1
  <1> QED
    BY <1>2, IInvHolds, PTL DEF Spec, MailinAlone

-----------------------------------------------------------------------------
(* How long mailin waits *)

\* Minutes that are left, and at least the one in which it starts.
Left == IF tosswait > 0 THEN tosswait ELSE 1

\* The time is up, and the loop is about to start mbfido.
Due == IF /\ pc \in {"mailout", "mailin"} /\ TosserReady /\ tosswait = 0
          /\ "mailout" \notin flag
       THEN 1 ELSE 0

\* The minutes counted and those to come are TossWait.
WaitBounded == /\ "mailin" \in flag => waited + Left <= TossWait + Due
               /\ "mailin" \notin flag => waited = 0

LEMMA WaitTypes ==
  ASSUME TypeOK
  PROVE  /\ waited \in Nat /\ tosswait \in Nat
         /\ Left \in Nat \ {0} /\ Due \in 0..1
         /\ tosswait <= TossWait
  BY Numbers DEF TypeOK, Left, Due

\* A request has TossWait minutes before it, whatever was waited for another.
LEMMA WaitOfSet ==
  ASSUME IInv, WaitBounded, NEW s \in Asked, Set(s)
  PROVE  WaitBounded'
  <1>1. /\ flag' = flag \cup {s} /\ pc = "poll" /\ pc' = "check"
        /\ tosswait' = IF s = "mailin" THEN TossWait ELSE tosswait
        /\ waited' = IF s = "mailin" THEN 0 ELSE waited
    BY DEF Set
  <1>2. Due = 0 /\ Due' = 0
    BY <1>1 DEF Due
  <1>3. CASE s = "mailin"
    <2>1. waited' = 0 /\ Left' = TossWait /\ "mailin" \in flag'
      BY <1>1, <1>3, Numbers DEF Left
    <2> QED
      BY <1>2, <2>1, Numbers DEF WaitBounded
  <1>4. CASE s # "mailin"
    <2>1. waited' = waited /\ Left' = Left /\ ("mailin" \in flag' <=> "mailin" \in flag)
      BY <1>1, <1>4 DEF Left
    <2> QED
      BY <1>2, <2>1 DEF WaitBounded
  <1> QED
    BY <1>3, <1>4

\* Steps that count no minute and do not leave the loop as it is about to start
\* mbfido.
LEMMA WaitStays ==
  ASSUME IInv, WaitBounded, tosswait' = tosswait, waited' = waited,
         "mailin" \in flag' <=> "mailin" \in flag,
         Due <= Due'
  PROVE  WaitBounded'
  <1>1. Left' = Left
    BY DEF Left
  <1>2. "mailin" \in flag' => waited' + Left' <= TossWait + Due'
    <2>1. waited \in Nat /\ Left \in Nat /\ Due \in Nat /\ Due' \in Nat /\ TossWait \in Nat
      BY WaitTypes, Numbers DEF IInv, Due
    <2>2. \A w, l, t, d, e \in Nat : w + l <= t + d /\ d <= e => w + l <= t + e
      OBVIOUS
    <2> QED
      BY <1>1, <2>1, <2>2 DEF WaitBounded
  <1> QED
    BY <1>2 DEF WaitBounded

LEMMA WaitOfRemove ==
  ASSUME IInv, WaitBounded, NEW s \in Asked, Remove(s)
  PROVE  WaitBounded'
  <1>1. /\ flag' = flag \ {s} /\ tosswait' = tosswait
        /\ waited' = IF s = "mailin" THEN 0 ELSE waited
        /\ pc = "poll" /\ pc' = "check"
    BY DEF Remove
  <1>2. Due = 0 /\ Due' = 0
    BY <1>1 DEF Due
  <1>3. CASE s = "mailin"
    BY <1>1, <1>3 DEF WaitBounded
  <1>4. CASE s # "mailin"
    BY <1>1, <1>2, <1>4, WaitStays
  <1> QED
    BY <1>3, <1>4

\* A minute goes from those that are left to those that are counted, or the
\* time was up before and mbfido starts now.
LEMMA WaitOfCheck ==
  ASSUME IInv, WaitBounded,
         NEW second \in BOOLEAN, NEW minute \in BOOLEAN, Check(second, minute)
  PROVE  WaitBounded'
  <1>1. TypeOK
    BY DEF IInv
  <1>2. /\ flag' = flag /\ pc = "check"
        /\ waited' \in {waited, waited + 1}
        /\ waited' # waited => minute /\ MailinReady
        /\ tosswait' = TossLeft(minute)
        /\ pc' = IF processing' THEN "mailout" ELSE "calls"
    BY DEF Check
  <1>3. Due = 0
    BY <1>2 DEF Due
  <1>4. CASE waited' = waited
    <2>1. Left' <= Left
      BY <1>1, <1>2, WaitTypes DEF Left, TossLeft, Less
    <2>2. "mailin" \in flag => waited' + Left' <= TossWait + Due'
      <3>1. \A w, l, t, k, d \in Nat : w + l <= t /\ k <= l => w + k <= t + d
        OBVIOUS
      <3>2. /\ waited \in Nat /\ Left \in Nat /\ Left' \in Nat /\ TossWait \in Nat
            /\ Due' \in Nat
        BY <1>1, <1>2, WaitTypes, Numbers DEF Left, TossLeft, Less, Due
      <3>3. "mailin" \in flag => waited + Left <= TossWait
        BY <1>3, <3>2 DEF WaitBounded
      <3> QED
        BY <1>4, <2>1, <3>1, <3>2, <3>3
    <2> QED
      BY <1>2, <1>4, <2>2 DEF WaitBounded
  <1>5. CASE waited' # waited
    <2>1. waited' = waited + 1 /\ minute /\ MailinReady /\ "mailin" \in flag
      BY <1>2, <1>5 DEF MailinReady
    <2>2. waited + Left <= TossWait
      BY <1>1, <1>3, <2>1, WaitTypes, Numbers DEF WaitBounded
    <2>3. CASE tosswait > 1
      <3>1. Left' = Left - 1
        BY <1>1, <1>2, <2>1, <2>3, WaitTypes DEF Left, TossLeft, Less
      <3>2. Due' = 0
        BY <1>1, <1>2, <2>1, <2>3, WaitTypes DEF Due, TossLeft, Less
      <3> QED
        BY <1>1, <1>2, <2>1, <2>2, <3>1, <3>2, WaitTypes, Numbers DEF WaitBounded
    <2>4. CASE tosswait <= 1
      <3>1. tosswait' = 0 /\ Left = 1 /\ Left' = 1
        BY <1>1, <1>2, <2>1, <2>4, WaitTypes DEF Left, TossLeft, Less
      <3>2. OfKind(task', {"mbfido"}) \subseteq OfKind(Reaped, {"mbfido"})
        <4>1. \A i \in Slots : task'[i].kind = Reaped[i].kind /\ (Reaped[i] = Free => task'[i] = Free)
          <5> SUFFICES ASSUME NEW i \in Slots
                       PROVE  task'[i].kind = Reaped[i].kind /\ (Reaped[i] = Free => task'[i] = Free)
            OBVIOUS
          <5>1. CASE Reaped[i] # Free
            BY <1>1, <5>1, ReapedTable DEF Check, Task
          <5>2. CASE Reaped[i] = Free
            BY <5>2 DEF Check
          <5> QED
            BY <5>1, <5>2
        <4> QED
          BY <4>1 DEF OfKind, Used
      <3>3. Due' = 1
        BY <1>2, <2>1, <3>1, <3>2 DEF Due, TosserReady, MailinReady
      <3> QED
        BY <1>1, <1>2, <2>1, <2>2, <3>1, <3>3, WaitTypes, Numbers DEF WaitBounded
    <2> QED
      BY <1>1, <2>3, <2>4, WaitTypes
  <1> QED
    BY <1>4, <1>5

LEMMA WaitOfJob ==
  ASSUME IInv, WaitBounded, NEW job \in Semaphores, Job(job)
  PROVE  WaitBounded'
  <1>1. /\ pc = job /\ pc' = After(job)
        /\ Ready(job) => Start(job)
        /\ ~Ready(job) => UNCHANGED <<task, ptimer, flag, tosswait, waited>>
    BY DEF Job
  <1>2. Due \in 0..1 /\ Due' \in 0..1
    BY DEF Due
  <1>3. CASE job = "mailin"
    <2>1. CASE Ready(job)
      BY <1>1, <1>3, <2>1 DEF Start, WaitBounded
    <2>2. CASE ~Ready(job)
      <3>1. "mailin" \in flag => Due = 0
        BY <1>3, <2>2 DEF Ready, Due
      <3>2. CASE "mailin" \in flag
        BY <1>1, <1>2, <2>2, <3>1, <3>2, WaitStays
      <3>3. CASE "mailin" \notin flag
        BY <1>1, <2>2, <3>3 DEF WaitBounded
      <3> QED
        BY <3>2, <3>3
    <2> QED
      BY <2>1, <2>2
  <1>4. CASE job # "mailin"
    <2>1. /\ tosswait' = tosswait /\ waited' = waited
          /\ "mailin" \in flag' <=> "mailin" \in flag
      BY <1>1, <1>4 DEF Start
    <2>2. Due <= Due'
      <3>1. CASE job = "mailout"
        <4>1. pc' = "mailin"
          BY <1>1, <3>1 DEF After, Jobs
        <4>2. CASE Ready(job)
          <5>1. Due = 0
            BY <3>1, <4>2 DEF Ready, Due
          <5> QED
            BY <1>2, <5>1
        <4>3. CASE ~Ready(job)
          <5>1. Due' = Due
            BY <1>1, <3>1, <4>1, <4>3 DEF Due, TosserReady
          <5> QED
            BY <1>2, <5>1
        <4> QED
          BY <4>2, <4>3
      <3>2. CASE job # "mailout"
        <4>1. Due = 0
          BY <1>1, <1>4, <3>2 DEF Due
        <4> QED
          BY <1>2, <4>1
      <3> QED
        BY <3>1, <3>2
    <2> QED
      BY <2>1, <2>2, WaitStays
  <1> QED
    BY <1>3, <1>4

LEMMA WaitOfOthers ==
  ASSUME IInv, WaitBounded,
         \/ Session \/ Switch \/ Mail \/ Poll \/ NoCall \/ UNCHANGED vars
         \/ \E i \in Slots : Register(i) \/ Unregister(i) \/ Ends(i) \/ Stops(i)
         \/ \E kind \in Mailers : Call(kind)
  PROVE  WaitBounded'
  <1>1. flag' = flag /\ tosswait' = tosswait /\ waited' = waited
    BY DEF Session, Switch, Mail, Poll, NoCall, vars, Register, Unregister, Ends, Stops, Call
  <1>2. Due' = Due
    <2>1. CASE Session \/ Poll \/ NoCall \/ \E kind \in Mailers : Call(kind)
      BY <2>1 DEF Due, Session, Poll, NoCall, Call
    <2>2. CASE \E i \in Slots : Register(i) \/ Unregister(i)
      BY <2>2 DEF Due, Register, Unregister
    <2>3. CASE Switch \/ Mail \/ UNCHANGED vars
      BY <2>3 DEF Due, TosserReady, Switch, Mail, vars
    <2>4. ASSUME NEW i \in Slots, Ends(i) \/ Stops(i) PROVE Due' = Due
      <3>1. task[i] # Free /\ task[i] \in Task
        BY <2>4, TaskFields DEF Ends, Stops, Alive, Used, IInv, TypeOK
      <3>2. PICK new \in Task : task' = [task EXCEPT ![i] = new] /\ new.kind = task[i].kind
        <4>1. 0 \in 0..RegDelay
          BY Numbers
        <4>2. /\ [task[i] EXCEPT !.alive = FALSE, !.age = 0] \in Task
              /\ [task[i] EXCEPT !.alive = FALSE, !.age = 0].kind = task[i].kind
          BY <3>1, <4>1 DEF Task
        <4>3. /\ [task[i] EXCEPT !.alive = FALSE, !.tcp = FALSE, !.age = 0] \in Task
              /\ [task[i] EXCEPT !.alive = FALSE, !.tcp = FALSE, !.age = 0].kind = task[i].kind
          BY <3>1, <4>1 DEF Task
        <4>4. CASE Ends(i)
          BY <4>2, <4>4 DEF Ends
        <4>5. CASE Stops(i)
          BY <4>3, <4>5 DEF Stops
        <4> QED
          BY <2>4, <4>4, <4>5
      <3>3. new # Free
        BY <3>2 DEF Task, Free, Kinds, Mailers
      <3>4. OfKind(task', {"mbfido"}) = OfKind(task, {"mbfido"})
        BY <3>1, <3>2, <3>3 DEF OfKind, Used, IInv, TypeOK
      <3>5. pc' = pc /\ ptimer' = ptimer
        BY <2>4 DEF Ends, Stops
      <3> QED
        BY <1>1, <3>4, <3>5 DEF Due, TosserReady
    <2> QED
      BY <2>1, <2>2, <2>3, <2>4
  <1>3. Due <= Due'
    BY <1>2 DEF Due
  <1> QED
    BY <1>1, <1>3, WaitStays

\* Mailers alone keep mbfido from tossing for at most TossWait minutes after the
\* last request, however commands, programs that end and minutes fall (sem_set,
\* scheduler).
THEOREM MailinWaitsHolds == Spec => []MailinWaits
  <1>1. Init => WaitBounded
    BY DEF Init, WaitBounded
  <1>2. IInv /\ WaitBounded /\ [Next]_vars => WaitBounded'
    <2> SUFFICES ASSUME IInv, WaitBounded, [Next]_vars PROVE WaitBounded'
      OBVIOUS
    <2>1. CASE \E s \in Asked : Set(s) \/ Remove(s)
      BY <2>1, WaitOfSet, WaitOfRemove
    <2>2. CASE \/ Session \/ Switch \/ Mail \/ Poll \/ NoCall \/ UNCHANGED vars
               \/ \E i \in Slots : Register(i) \/ Unregister(i) \/ Ends(i) \/ Stops(i)
               \/ \E kind \in Mailers : Call(kind)
      BY <2>2, WaitOfOthers
    <2>3. CASE \E second, minute \in BOOLEAN : Check(second, minute)
      BY <2>3, WaitOfCheck
    <2>4. CASE \E job \in Semaphores : Job(job)
      BY <2>4, WaitOfJob
    <2> QED
      BY <2>1, <2>2, <2>3, <2>4 DEF Next, Loop, Command
  <1>3. IInv /\ WaitBounded => MailinWaits
    <2> SUFFICES ASSUME IInv, WaitBounded PROVE MailinWaits
      OBVIOUS
    <2>1. /\ waited \in Nat /\ Left \in Nat \ {0} /\ Due \in 0..1 /\ TossWait \in Nat
          /\ waited + Left <= TossWait + Due \/ waited = 0
      BY WaitTypes, Numbers DEF IInv, WaitBounded
    <2>2. \A w, t \in Nat : \A l \in Nat \ {0} : \A d \in 0..1 :
             w + l <= t + d \/ w = 0 => w <= t
      OBVIOUS
    <2> QED
      BY <2>1, <2>2 DEF MailinWaits
  <1> QED
    BY <1>1, <1>2, <1>3, IInvHolds, PTL DEF Spec
=============================================================================
