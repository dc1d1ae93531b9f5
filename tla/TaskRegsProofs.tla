--------------------------- MODULE TaskRegsProofs ---------------------------
(***************************************************************************)
(* For any number of processes and any size of the table: its counters     *)
(* agree with it, connected clients and chat users are in it, and SIGKILL  *)
(* comes after SIGTERM.                                                    *)
(***************************************************************************)
EXTENDS TaskRegs, FiniteSetTheorems, TLAPS

\* A connected client has a slot with the program it registered as.
ClientsHaveSlot == \A p \in Pids :
    /\ proc[p] \in Programs => \E s \in Slots : reg[s].pid = p /\ reg[s].prg = proc[p]
    /\ proc[p] = "hung" => Registered(p)

\* A chat user has a slot that is cleared along with its chat membership.
ChattersHaveSlot == \A p \in chatting :
    \E s \in Slots : reg[s].pid = p /\ reg[s].prg = "mbsebbs"

\* Without reuse of pids a slot tells the truth about its process.
SlotsTruthful ==
    /\ ~wrongkill
    /\ ipmailers = Cardinality(IpSlots)
    /\ \A s \in Slots : /\ reg[s].istcp => tcp[reg[s].pid]
                        /\ Used(s) /\ ~reg[s].long => reg[s].pid \in warned

IInv == /\ TypeOK
        /\ Counters
        /\ ClientsHaveSlot
        /\ ChattersHaveSlot
        /\ recycled \/ SlotsTruthful

-----------------------------------------------------------------------------
(* Slots *)

LEMMA FreeFields ==
  /\ Free.pid = NoPid /\ Free.prg = "" /\ Free.istcp = FALSE
  /\ Free.long = FALSE /\ Free.silent = FALSE
  /\ Free \in RegInfo
  BY DEF Free, RegInfo

LEMMA SlotTypes ==
  ASSUME TypeOK, NEW s \in Slots
  PROVE  /\ reg[s].pid \in Pids \cup {NoPid}
         /\ reg[s].prg \in Programs \cup {""}
         /\ reg[s].istcp \in BOOLEAN
         /\ reg[s].long \in BOOLEAN
         /\ reg[s].istcp => reg[s].pid \in Pids
         /\ reg[s].prg # "" => reg[s].pid \in Pids
  BY FreeFields DEF TypeOK, RegInfo

LEMMA SlotsFinite ==
  /\ IsFiniteSet(Slots)
  /\ IsFiniteSet(UsedSlots) /\ IsFiniteSet(MailerSlots) /\ IsFiniteSet(IpSlots)
  <1>1. IsFiniteSet(Slots)
    BY FS_Interval, MaxClientAssumption DEF Slots
  <1>2. UsedSlots \in SUBSET Slots /\ MailerSlots \in SUBSET Slots /\ IpSlots \in SUBSET Slots
    BY DEF UsedSlots, MailerSlots, IpSlots
  <1> QED
    BY <1>1, <1>2, FS_Subset

\* Clearing the slots C takes what they count off every counter.
LEMMA ClearSlots ==
  ASSUME TypeOK, Counters, NEW C, C \subseteq UsedSlots, Drop(C),
         \A s \in C : reg'[s] = Free,
         \A s \in Slots \ C : /\ reg'[s].pid = reg[s].pid
                              /\ reg'[s].prg = reg[s].prg
                              /\ reg'[s].istcp = reg[s].istcp
  PROVE  /\ Counters'
         /\ ipmailers = Cardinality(IpSlots) => ipmailers' = Cardinality(IpSlots')
  <1>0. /\ C \subseteq Slots
        /\ Free.pid = NoPid /\ Free.prg = "" /\ Free.istcp = FALSE
    BY DEF UsedSlots, Free
  <1>1. UsedSlots' = UsedSlots \ C
    BY <1>0 DEF UsedSlots, Used
  <1>2. MailerSlots' = MailerSlots \ C
    BY <1>0 DEF MailerSlots
  <1>3. IpSlots' = IpSlots \ C
    BY <1>0 DEF IpSlots
  <1>4. /\ {s \in C : reg[s].prg = "mbcico"} = MailerSlots \cap C
        /\ {s \in C : reg[s].istcp} = IpSlots \cap C
        /\ C = UsedSlots \cap C
    BY <1>0 DEF MailerSlots, IpSlots
  <1>5. /\ Cardinality(MailerSlots') = Cardinality(MailerSlots) - Cardinality(MailerSlots \cap C)
        /\ Cardinality(IpSlots') = Cardinality(IpSlots) - Cardinality(IpSlots \cap C)
        /\ Cardinality(UsedSlots') = Cardinality(UsedSlots) - Cardinality(UsedSlots \cap C)
    BY <1>1, <1>2, <1>3, SlotsFinite, FS_Difference, Zenon
  <1>6. /\ mailers' = mailers - Cardinality(MailerSlots \cap C)
        /\ ipmailers' = ipmailers - Cardinality(IpSlots \cap C)
        /\ clients' = clients - Cardinality(UsedSlots \cap C)
    BY <1>4 DEF Drop
  <1>7. /\ Cardinality(MailerSlots) \in Nat /\ Cardinality(UsedSlots) \in Nat
        /\ Cardinality(IpSlots) \in Nat
        /\ Cardinality(UsedSlots \cap C) \in Nat
    <2>1. IsFiniteSet(UsedSlots \cap C)
      BY SlotsFinite, FS_Subset
    <2> QED
      BY <2>1, SlotsFinite, FS_CardinalityType
  <1> QED
    BY <1>5, <1>6, <1>7 DEF Counters

\* Steps that leave pid, program and TCP/IP flag of all slots alone.
LEMMA SameSlots ==
  ASSUME \A s \in Slots : /\ reg'[s].pid = reg[s].pid
                          /\ reg'[s].prg = reg[s].prg
                          /\ reg'[s].istcp = reg[s].istcp
  PROVE  UsedSlots' = UsedSlots /\ MailerSlots' = MailerSlots /\ IpSlots' = IpSlots
  BY DEF UsedSlots, MailerSlots, IpSlots, Used

\* Steps after which everybody still finds the slot that was there before.
LEMMA SameOwners ==
  ASSUME ClientsHaveSlot, ChattersHaveSlot,
         \A t \in Slots : reg'[t].pid = reg[t].pid /\ reg'[t].prg = reg[t].prg,
         UNCHANGED <<proc, chatting>>
  PROVE  ClientsHaveSlot' /\ ChattersHaveSlot'
  <1>1. ASSUME NEW q \in Pids, proc'[q] \in Programs
        PROVE  \E t \in Slots : reg'[t].pid = q /\ reg'[t].prg = proc'[q]
    <2>1. PICK t \in Slots : reg[t].pid = q /\ reg[t].prg = proc[q]
      BY <1>1 DEF ClientsHaveSlot
    <2> QED
      BY <2>1
  <1>2. ASSUME NEW q \in Pids, proc'[q] = "hung"
        PROVE  Registered(q)'
    <2>1. PICK t \in Slots : reg[t].pid = q
      BY <1>2 DEF ClientsHaveSlot, Registered
    <2> QED
      BY <2>1 DEF Registered
  <1>3. ASSUME NEW q \in chatting'
        PROVE  \E t \in Slots : reg'[t].pid = q /\ reg'[t].prg = "mbsebbs"
    <2>1. PICK t \in Slots : reg[t].pid = q /\ reg[t].prg = "mbsebbs"
      BY <1>3 DEF ChattersHaveSlot
    <2> QED
      BY <2>1
  <1>4. ClientsHaveSlot'
    BY <1>1, <1>2 DEF ClientsHaveSlot
  <1>5. ChattersHaveSlot'
    BY <1>3 DEF ChattersHaveSlot
  <1> QED
    BY <1>4, <1>5

-----------------------------------------------------------------------------

LEMMA InitIInv == Init => IInv
  <1> SUFFICES ASSUME Init PROVE IInv
    OBVIOUS
  <1>1. UsedSlots = {} /\ MailerSlots = {} /\ IpSlots = {}
    BY DEF Init, DaemonInit, UsedSlots, MailerSlots, IpSlots, Used, Free
  <1>2. TypeOK
    <2>1. reg \in [Slots -> RegInfo] /\ \A s \in Slots : reg[s] = Free
      BY FreeFields DEF Init, DaemonInit
    <2>2. \A s \in Slots : reg[s].pid = NoPid <=> reg[s] = Free
      BY <2>1, FreeFields
    <2>3. proc \in [Pids -> ProcStates] /\ tcp \in [Pids -> BOOLEAN]
      BY DEF Init, ProcStates
    <2>4. mailers \in Int /\ ipmailers \in Int /\ clients \in Int
      BY DEF Init, DaemonInit
    <2> QED
      BY <2>1, <2>2, <2>3, <2>4 DEF Init, DaemonInit, TypeOK
  <1>3. Counters
    BY <1>1, FS_EmptySet DEF Init, DaemonInit, Counters
  <1>4. ClientsHaveSlot /\ ChattersHaveSlot
    BY DEF Init, DaemonInit, ClientsHaveSlot, ChattersHaveSlot, Programs
  <1>5. SlotsTruthful
    BY <1>1, FS_EmptySet DEF Init, DaemonInit, SlotsTruthful, Used, Free
  <1> QED
    BY <1>2, <1>3, <1>4, <1>5 DEF IInv

LEMMA NewConIInv ==
  ASSUME IInv, NEW p \in Pids, NEW prg \in Programs, NewCon(p, prg)
  PROVE  IInv'
  <1> DEFINE new == [Free EXCEPT !.pid = p, !.prg = prg, !.long = TRUE]
  <1>0. /\ new.pid = p /\ new.prg = prg /\ new.long = TRUE /\ new.istcp = FALSE
        /\ new \in RegInfo /\ new # Free /\ p # NoPid
    BY NoPidAssumption DEF Free, RegInfo
  <1>1. CASE UNCHANGED reg
    <2>1. proc' = [proc EXCEPT ![p] = "none"] /\ UNCHANGED <<clients, mailers>>
      BY <1>1, <1>0 DEF NewCon, Finds, IInv, TypeOK
    <2> QED
      BY <1>1, <2>1
      DEF NewCon, IInv, TypeOK, ProcStates, Programs, Counters, ClientsHaveSlot,
          ChattersHaveSlot, SlotsTruthful, UsedSlots, MailerSlots, IpSlots,
          Registered, Used
  <1>2. CASE ~UNCHANGED reg
    <2>1. PICK s \in Slots :
             /\ Finds(NoPid, s)
             /\ reg' = [reg EXCEPT ![s] = new]
             /\ clients' = clients + 1
             /\ mailers' = mailers + One(prg = "mbcico")
             /\ proc' = [proc EXCEPT ![p] = prg]
      BY <1>2 DEF NewCon
    <2>2. reg[s] = Free /\ reg[s].pid = NoPid
      BY <2>1 DEF Finds, IInv, TypeOK
    <2>3. /\ UsedSlots' = UsedSlots \cup {s} /\ s \notin UsedSlots
          /\ MailerSlots' = IF prg = "mbcico" THEN MailerSlots \cup {s} ELSE MailerSlots
          /\ s \notin MailerSlots
          /\ IpSlots' = IpSlots
      <3>1. reg'[s] = new /\ \A t \in Slots \ {s} : reg'[t] = reg[t]
        BY <2>1 DEF IInv, TypeOK
      <3>2. s \notin UsedSlots /\ s \notin MailerSlots /\ s \notin IpSlots
        BY <2>2, FreeFields DEF UsedSlots, Used, MailerSlots, IpSlots
      <3>3. UsedSlots' = UsedSlots \cup {s}
        BY <1>0, <3>1 DEF UsedSlots, Used
      <3>4. MailerSlots' = IF prg = "mbcico" THEN MailerSlots \cup {s} ELSE MailerSlots
        BY <1>0, <3>1, <3>2 DEF MailerSlots
      <3>5. IpSlots' = IpSlots
        BY <1>0, <3>1, <3>2 DEF IpSlots
      <3> QED
        BY <3>2, <3>3, <3>4, <3>5
    <2>4. TypeOK'
      BY <1>0, <2>1 DEF NewCon, One, IInv, TypeOK, ProcStates
    <2>5. Counters'
      <3>1. /\ Cardinality(UsedSlots') = Cardinality(UsedSlots) + 1
            /\ Cardinality(MailerSlots') = Cardinality(MailerSlots) + One(prg = "mbcico")
        <4>1. Cardinality(UsedSlots') = Cardinality(UsedSlots) + 1
          BY <2>3, SlotsFinite, FS_AddElement
        <4>2. Cardinality(MailerSlots \cup {s}) = Cardinality(MailerSlots) + 1
          BY <2>3, SlotsFinite, FS_AddElement
        <4>3. Cardinality(MailerSlots) \in Nat
          BY SlotsFinite, FS_CardinalityType
        <4> QED
          BY <2>3, <4>1, <4>2, <4>3 DEF One
      <3>2. Cardinality(UsedSlots) \in Nat
        BY SlotsFinite, FS_CardinalityType
      <3> QED
        BY <2>1, <3>1, <3>2 DEF IInv, Counters
    <2>6. ClientsHaveSlot'
      BY <1>0, <2>1, <2>2, NoPidAssumption
      DEF IInv, TypeOK, ClientsHaveSlot, Registered, Programs
    <2>7. ChattersHaveSlot'
      BY <1>0, <2>1, <2>2, NoPidAssumption
      DEF NewCon, IInv, TypeOK, ChattersHaveSlot
    <2>8. (recycled \/ SlotsTruthful)'
      BY <1>0, <2>1, <2>2, <2>3
      DEF NewCon, IInv, TypeOK, SlotsTruthful, Used
    <2> QED
      BY <2>4, <2>5, <2>6, <2>7, <2>8 DEF IInv
  <1> QED
    BY <1>1, <1>2

LEMMA CloseConIInv ==
  ASSUME IInv, NEW p \in Pids, CloseCon(p)
  PROVE  IInv'
  <1>1. PICK s \in Slots : /\ Finds(p, s)
                           /\ reg' = [reg EXCEPT ![s] = Free]
                           /\ Drop({s})
    BY DEF CloseCon, Cleared
  <1>2. /\ reg[s].pid = p /\ p # NoPid
        /\ reg'[s] = Free /\ \A t \in Slots \ {s} : reg'[t] = reg[t]
        /\ proc' = [proc EXCEPT ![p] = "up"]
        /\ Free.pid = NoPid /\ Free.istcp = FALSE
    BY <1>1, NoPidAssumption DEF Finds, CloseCon, IInv, TypeOK, Free
  <1>3. {s} \subseteq UsedSlots
    BY <1>2 DEF UsedSlots, Used
  <1>4. /\ Counters'
        /\ ipmailers = Cardinality(IpSlots) => ipmailers' = Cardinality(IpSlots')
    BY <1>1, <1>2, <1>3, ClearSlots DEF IInv
  <1>5. TypeOK'
    <2>1. /\ Cardinality({t \in {s} : reg[t].prg = "mbcico"}) \in Int
          /\ Cardinality({t \in {s} : reg[t].istcp}) \in Int
          /\ Cardinality({s}) \in Int
      <3>1. \A T \in SUBSET {s} : Cardinality(T) \in Int
        <4>1. IsFiniteSet({s})
          BY FS_Singleton
        <4>2. \A T \in SUBSET {s} : Cardinality(T) \in Nat
          BY <4>1, FS_Subset, FS_CardinalityType
        <4> QED
          BY <4>2
      <3> QED
        BY <3>1
    <2>2. /\ mailers' \in Int /\ ipmailers' \in Int /\ clients' \in Int
          /\ chatting' \subseteq Pids
      BY <1>1, <2>1 DEF Drop, IInv, TypeOK
    <2>3. Free \in RegInfo
      BY DEF Free, RegInfo
    <2> QED
      BY <1>1, <1>2, <2>2, <2>3 DEF CloseCon, IInv, TypeOK, ProcStates
  <1>6. ClientsHaveSlot'
    BY <1>2 DEF IInv, TypeOK, ClientsHaveSlot, Registered, Programs
  <1>7. ChattersHaveSlot'
    <2>1. chatting' = chatting \ {reg[t].pid : t \in {u \in {s} : reg[u].prg = "mbsebbs"}}
      BY <1>1 DEF Drop
    <2> QED
      BY <1>2, <2>1 DEF IInv, ChattersHaveSlot
  <1>8. (recycled \/ SlotsTruthful)'
    BY <1>2, <1>4 DEF CloseCon, IInv, SlotsTruthful, Used
  <1> QED
    BY <1>4, <1>5, <1>6, <1>7, <1>8 DEF IInv

LEMMA IpIInv ==
  ASSUME IInv, NEW p \in Pids, Ip(p)
  PROVE  IInv'
  <1>1. PICK s \in Slots : /\ Finds(p, s)
                           /\ reg' = [reg EXCEPT ![s].istcp = TRUE, ![s].silent = FALSE]
                           /\ ipmailers' = ipmailers + 1
    BY DEF Ip
  <1>2. /\ reg[s].pid = p /\ p # NoPid
        /\ reg'[s].istcp = TRUE /\ reg'[s] \in RegInfo
        /\ \A t \in Slots : /\ reg'[t].pid = reg[t].pid /\ reg'[t].prg = reg[t].prg
                            /\ reg'[t].long = reg[t].long
                            /\ t # s => reg'[t] = reg[t]
    <2>1. /\ reg[s] \in RegInfo
          /\ reg' = [reg EXCEPT ![s] = [reg[s] EXCEPT !.istcp = TRUE, !.silent = FALSE]]
      BY <1>1 DEF IInv, TypeOK
    <2>2. [reg[s] EXCEPT !.istcp = TRUE, !.silent = FALSE] \in RegInfo
      BY <2>1 DEF RegInfo
    <2>3. reg'[s] = [reg[s] EXCEPT !.istcp = TRUE, !.silent = FALSE]
      BY <2>1 DEF IInv, TypeOK
    <2>4. \A t \in Slots : t # s => reg'[t] = reg[t]
      BY <2>1 DEF IInv, TypeOK
    <2>5. reg[s].pid = p /\ p # NoPid
      BY <1>1, NoPidAssumption DEF Finds
    <2>6. /\ reg'[s].istcp = TRUE /\ reg'[s].pid = reg[s].pid
          /\ reg'[s].prg = reg[s].prg /\ reg'[s].long = reg[s].long
      <3> DEFINE r == reg[s]
      <3>1. r \in RegInfo
        BY <2>1
      <3> HIDE DEF r
      <3>2. LET q == [r EXCEPT !.istcp = TRUE, !.silent = FALSE]
            IN  q.istcp = TRUE /\ q.pid = r.pid /\ q.prg = r.prg /\ q.long = r.long
        BY <3>1 DEF RegInfo
      <3> QED
        BY <2>3, <3>2 DEF r
    <2> QED
      BY <2>2, <2>3, <2>4, <2>5, <2>6
  <1>3. UsedSlots' = UsedSlots /\ MailerSlots' = MailerSlots /\ IpSlots' = IpSlots \cup {s}
    BY <1>2 DEF UsedSlots, MailerSlots, IpSlots, Used
  <1>4. TypeOK'
    <2>1. reg' \in [Slots -> RegInfo]
      BY <1>1, <1>2 DEF IInv, TypeOK
    <2>2. \A t \in Slots : reg'[t].pid = NoPid <=> reg'[t] = Free
      BY <1>2, FreeFields DEF IInv, TypeOK
    <2>3. tcp' \in [Pids -> BOOLEAN] /\ ipmailers' \in Int
      BY <1>1 DEF Ip, IInv, TypeOK
    <2>4. UNCHANGED <<proc, warned, mailers, clients, chatting, recycled, wrongkill>>
      BY DEF Ip
    <2> QED
      BY <2>1, <2>2, <2>3, <2>4 DEF IInv, TypeOK
  <1>5. Counters'
    BY <1>3 DEF Ip, IInv, Counters
  <1>5a. ClientsHaveSlot' /\ ChattersHaveSlot'
    BY <1>2, SameOwners DEF Ip, IInv
  <1>6. (recycled \/ SlotsTruthful)'
    <2> SUFFICES ASSUME SlotsTruthful, ~recycled
                 PROVE  SlotsTruthful'
      BY DEF IInv, Ip
    <2>1. s \notin IpSlots
      BY <1>2 DEF SlotsTruthful, Ip, IpSlots
    <2>2. ipmailers' = Cardinality(IpSlots')
      BY <1>1, <1>3, <2>1, SlotsFinite, FS_AddElement DEF SlotsTruthful
    <2>3. wrongkill' = wrongkill /\ warned' = warned /\ tcp' = [tcp EXCEPT ![p] = TRUE]
      BY DEF Ip
    <2>4. ASSUME NEW t \in Slots
          PROVE  (reg[t].istcp => tcp[reg[t].pid])'
      <3>1. reg[t].pid \in Pids => tcp'[reg[t].pid] = (tcp[reg[t].pid] \/ reg[t].pid = p)
        BY <2>3 DEF IInv, TypeOK
      <3>2. reg[t].istcp => reg[t].pid \in Pids
        BY SlotTypes DEF IInv
      <3>3. reg'[t].pid = reg[t].pid /\ (t # s => reg'[t].istcp = reg[t].istcp)
        BY <1>2
      <3>4. t = s => tcp'[reg[t].pid]
        BY <1>2, <3>1
      <3>5. reg[t].istcp => tcp'[reg[t].pid]
        BY <3>1, <3>2 DEF SlotsTruthful
      <3> QED
        BY <3>3, <3>4, <3>5
    <2> QED
      BY <1>2, <2>2, <2>3, <2>4 DEF SlotsTruthful, Used
  <1> QED
    BY <1>4, <1>5, <1>5a, <1>6 DEF IInv

\* Commands and the clock: only altime and lastcon of a used slot change.
LEMMA TimersIInv ==
  ASSUME IInv, Quiet, NEW s \in Slots, Used(s), NEW r \in RegInfo,
         r.pid = reg[s].pid, r.prg = reg[s].prg, r.istcp = reg[s].istcp,
         reg[s].long => r.long,
         reg' = [reg EXCEPT ![s] = r]
  PROVE  IInv'
  <1>0. reg \in [Slots -> RegInfo]
    BY DEF IInv, TypeOK
  <1>1. /\ reg'[s] \in RegInfo
        /\ reg[s].long => reg'[s].long
        /\ \A t \in Slots : /\ reg'[t].pid = reg[t].pid /\ reg'[t].prg = reg[t].prg
                            /\ reg'[t].istcp = reg[t].istcp
                            /\ t # s => reg'[t] = reg[t]
    BY <1>0
  <1>2. UsedSlots' = UsedSlots /\ MailerSlots' = MailerSlots /\ IpSlots' = IpSlots
    BY <1>1, SameSlots
  <1>3. TypeOK'
    <2>1. Free.pid = NoPid
      BY DEF Free
    <2> QED
      BY <1>1, <2>1 DEF Quiet, IInv, TypeOK, Used
  <1>4. Counters'
    BY <1>2 DEF Quiet, IInv, Counters
  <1>5. ClientsHaveSlot' /\ ChattersHaveSlot'
    BY <1>1, SameOwners DEF Quiet, IInv
  <1>7. (recycled \/ SlotsTruthful)'
    <2>1. \A t \in Slots : ~reg'[t].long => ~reg[t].long
      BY <1>1
    <2>2. ipmailers = Cardinality(IpSlots) => ipmailers' = Cardinality(IpSlots')
      BY <1>2 DEF Quiet
    <2>3. UNCHANGED <<tcp, warned, recycled, wrongkill>>
      BY DEF Quiet
    <2> SUFFICES ASSUME SlotsTruthful, ~recycled
                 PROVE  SlotsTruthful'
      BY <2>3 DEF IInv
    <2>4. ASSUME NEW t \in Slots
          PROVE  (/\ reg[t].istcp => tcp[reg[t].pid]
                  /\ Used(t) /\ ~reg[t].long => reg[t].pid \in warned)'
      <3>1. /\ reg[t].istcp => tcp[reg[t].pid]
            /\ Used(t) /\ ~reg[t].long => reg[t].pid \in warned
        BY DEF SlotsTruthful
      <3>2. reg'[t].pid = reg[t].pid /\ reg'[t].istcp = reg[t].istcp
        BY <1>1
      <3>3. (reg'[t].istcp => tcp'[reg'[t].pid])
        BY <2>3, <3>1, <3>2
      <3>4. reg'[t].pid # NoPid /\ ~reg'[t].long => reg'[t].pid \in warned'
        <4> SUFFICES ASSUME reg'[t].pid # NoPid, ~reg'[t].long
                     PROVE  reg'[t].pid \in warned'
          OBVIOUS
        <4>1. ~reg[t].long
          BY <2>1
        <4>2. reg[t].pid # NoPid
          BY <3>2
        <4>3. reg[t].pid \in warned
          BY <3>1, <4>1, <4>2 DEF Used
        <4> QED
          BY <2>3, <3>2, <4>3
      <3> QED
        BY <3>3, <3>4 DEF Used
    <2> QED
      BY <2>2, <2>3, <2>4 DEF SlotsTruthful
  <1> QED
    BY <1>3, <1>4, <1>5, <1>7 DEF IInv

LEMMA ChatIInv ==
  ASSUME IInv, NEW p \in Pids, Chat(p)
  PROVE  IInv'
  <1>1. UsedSlots' = UsedSlots /\ MailerSlots' = MailerSlots /\ IpSlots' = IpSlots
    BY DEF Chat, UsedSlots, MailerSlots, IpSlots, Used
  <1>2. \E t \in Slots : reg[t].pid = p /\ reg[t].prg = "mbsebbs"
    BY DEF Chat, IInv, ClientsHaveSlot, Programs
  <1>3. ChattersHaveSlot'
    BY <1>2 DEF Chat, IInv, ChattersHaveSlot
  <1>4. TypeOK' /\ Counters'
    BY <1>1 DEF Chat, IInv, TypeOK, Counters
  <1>5. ClientsHaveSlot' /\ (recycled \/ SlotsTruthful)'
    BY <1>1 DEF Chat, IInv, ClientsHaveSlot, SlotsTruthful, Used, Registered
  <1> QED
    BY <1>3, <1>4, <1>5 DEF IInv

LEMMA StartIInv ==
  ASSUME IInv, NEW p \in Pids, Start(p)
  PROVE  IInv'
  <1>1. UsedSlots' = UsedSlots /\ MailerSlots' = MailerSlots /\ IpSlots' = IpSlots
    BY DEF Start, daemonVars, UsedSlots, MailerSlots, IpSlots, Used
  <1>2. TypeOK' /\ Counters'
    BY <1>1 DEF Start, daemonVars, IInv, TypeOK, Counters, ProcStates
  <1>3. ClientsHaveSlot'
    BY DEF Start, daemonVars, IInv, TypeOK, ClientsHaveSlot, Registered, Programs
  <1>4. ChattersHaveSlot'
    BY DEF Start, daemonVars, IInv, ChattersHaveSlot
  <1>5. (recycled \/ SlotsTruthful)'
    <2> SUFFICES ASSUME ~recycled'
                 PROVE  SlotsTruthful'
      OBVIOUS
    <2>1. SlotsTruthful /\ \A t \in Slots : reg[t].pid # p
      BY DEF Start, IInv, Registered
    <2>2. /\ UNCHANGED <<reg, ipmailers, wrongkill>>
          /\ warned' = warned \ {p}
          /\ tcp' = [tcp EXCEPT ![p] = FALSE]
      BY DEF Start, daemonVars
    <2>3. ASSUME NEW t \in Slots
          PROVE  (/\ reg[t].istcp => tcp[reg[t].pid]
                  /\ Used(t) /\ ~reg[t].long => reg[t].pid \in warned)'
      <3>1. /\ reg[t].istcp => tcp[reg[t].pid] /\ reg[t].pid \in Pids
            /\ Used(t) /\ ~reg[t].long => reg[t].pid \in warned
            /\ reg[t].pid # p
        BY <2>1, SlotTypes DEF SlotsTruthful, IInv
      <3>2. reg[t].pid \in Pids => tcp'[reg[t].pid] = tcp[reg[t].pid]
        BY <2>2, <3>1 DEF IInv, TypeOK
      <3> QED
        BY <2>2, <3>1, <3>2 DEF Used
    <2> QED
      BY <1>1, <2>1, <2>2, <2>3 DEF SlotsTruthful
  <1> QED
    BY <1>2, <1>3, <1>4, <1>5 DEF IInv

LEMMA GoneIInv ==
  ASSUME IInv, NEW p \in Pids, NEW state \in {"none", "hung"}, Gone(p, state)
  PROVE  IInv'
  <1>1. UsedSlots' = UsedSlots /\ MailerSlots' = MailerSlots /\ IpSlots' = IpSlots
    BY DEF Gone, daemonVars, UsedSlots, MailerSlots, IpSlots, Used
  <1>2. TypeOK' /\ Counters'
    BY <1>1 DEF Gone, daemonVars, IInv, TypeOK, Counters, ProcStates
  <1>3. ClientsHaveSlot'
    <2>1. Talking(p) => Registered(p)
      BY DEF IInv, ClientsHaveSlot, Talking, Registered
    <2>2. proc' = [proc EXCEPT ![p] = state] /\ reg' = reg
      BY DEF Gone, daemonVars
    <2>3. state = "hung" => Talking(p)
      BY DEF Gone
    <2> QED
      BY <2>1, <2>2, <2>3 DEF IInv, TypeOK, ClientsHaveSlot, Registered, Programs
  <1>4. ChattersHaveSlot'
    BY DEF Gone, daemonVars, IInv, ChattersHaveSlot
  <1>5. (recycled \/ SlotsTruthful)'
    BY <1>1 DEF Gone, daemonVars, IInv, SlotsTruthful, Used
  <1> QED
    BY <1>2, <1>3, <1>4, <1>5 DEF IInv

LEMMA RestartIInv ==
  ASSUME IInv, Restart
  PROVE  IInv'
  <1>1. UsedSlots' = {} /\ MailerSlots' = {} /\ IpSlots' = {}
    BY FreeFields DEF Restart, UsedSlots, MailerSlots, IpSlots, Used
  <1>2. TypeOK'
    <2>1. reg' \in [Slots -> RegInfo] /\ \A s \in Slots : reg'[s] = Free
      BY FreeFields DEF Restart
    <2>2. proc' \in [Pids -> ProcStates]
      BY DEF Restart, ProcStates
    <2>3. \A s \in Slots : reg'[s].pid = NoPid <=> reg'[s] = Free
      BY <2>1, FreeFields
    <2>4. mailers' \in Int /\ ipmailers' \in Int /\ clients' \in Int /\ chatting' = {}
      BY DEF Restart
    <2> QED
      BY <2>1, <2>2, <2>3, <2>4 DEF Restart, IInv, TypeOK
  <1>3. Counters'
    BY <1>1, FS_EmptySet DEF Restart, Counters
  <1>4. ClientsHaveSlot' /\ ChattersHaveSlot'
    BY DEF Restart, ClientsHaveSlot, ChattersHaveSlot, Programs
  <1>5. (recycled \/ SlotsTruthful)'
    <2>1. \A s \in Slots : ~reg'[s].istcp /\ ~Used(s)'
      BY FreeFields DEF Restart, Used
    <2> QED
      BY <1>1, <2>1, FS_EmptySet DEF Restart, IInv, SlotsTruthful
  <1> QED
    BY <1>2, <1>3, <1>4, <1>5 DEF IInv

\* reg_check(): what it removes belongs to processes that have ended, and
\* what it kills has been warned.
LEMMA CheckIInv ==
  ASSUME IInv, Check
  PROVE  IInv'
  <1> DEFINE gone == {s \in Slots : Stale(s)}
             kill == {reg[s].pid : s \in {t \in Slots : Overdue(t) /\ ~reg[t].long}}
             term == {reg[s].pid : s \in {t \in Slots : Overdue(t) /\ reg[t].long}}
  <1>1. /\ reg' = [s \in Slots |-> IF Stale(s) THEN Free
                                   ELSE IF Overdue(s) THEN Signaled(s)
                                   ELSE reg[s]]
        /\ Drop(gone)
        /\ proc' = [p \in Pids |-> IF p \in kill THEN "none" ELSE proc[p]]
        /\ warned' = warned \cup term
        /\ wrongkill' = (wrongkill \/ ~(kill \subseteq warned))
        /\ UNCHANGED <<tcp, recycled>>
    BY DEF Check, Cleared
  <1>2. gone \subseteq UsedSlots
    BY DEF Stale, UsedSlots
  <1>3. ASSUME NEW s \in Slots
        PROVE  /\ Signaled(s) \in RegInfo /\ Signaled(s).pid = reg[s].pid
               /\ Signaled(s).prg = reg[s].prg /\ Signaled(s).istcp = reg[s].istcp
               /\ Signaled(s).long = FALSE
    <2> DEFINE r == reg[s]
    <2>1. r \in RegInfo
      BY DEF IInv, TypeOK
    <2> HIDE DEF r
    <2>2. LET q == [r EXCEPT !.long = FALSE, !.silent = FALSE]
          IN  /\ q \in RegInfo /\ q.pid = r.pid /\ q.prg = r.prg
              /\ q.istcp = r.istcp /\ q.long = FALSE
      BY <2>1 DEF RegInfo
    <2> QED
      BY <2>2 DEF r, Signaled
  <1>4. /\ \A s \in gone : reg'[s] = Free
        /\ \A s \in Slots \ gone : /\ reg'[s].pid = reg[s].pid
                                   /\ reg'[s].prg = reg[s].prg
                                   /\ reg'[s].istcp = reg[s].istcp
                                   /\ reg'[s].long = (reg[s].long /\ ~Overdue(s))
    <2>1. \A s \in gone : reg'[s] = Free
      BY <1>1
    <2>2. ASSUME NEW s \in Slots \ gone
          PROVE  reg'[s] = IF Overdue(s) THEN Signaled(s) ELSE reg[s]
      BY <1>1
    <2>3. \A s \in Slots : reg[s].long \in BOOLEAN
      BY SlotTypes DEF IInv
    <2> QED
      BY <1>3, <2>1, <2>2, <2>3
  <1>5. /\ Counters'
        /\ ipmailers = Cardinality(IpSlots) => ipmailers' = Cardinality(IpSlots')
    BY <1>1, <1>2, <1>4, ClearSlots DEF IInv
  <1>6. TypeOK'
    <2>1. reg' \in [Slots -> RegInfo]
      BY <1>1, <1>3, FreeFields DEF IInv, TypeOK
    <2>2. \A s \in Slots : reg'[s].pid = NoPid <=> reg'[s] = Free
      <3>1. \A s \in Slots : Overdue(s) => reg[s].pid # NoPid /\ Signaled(s).pid # NoPid
        BY <1>3 DEF Overdue, Used
      <3>2. \A s \in Slots : \/ reg'[s] = Free
                             \/ Overdue(s) /\ reg'[s] = Signaled(s)
                             \/ reg'[s] = reg[s]
        BY <1>1
      <3> QED
        BY <3>1, <3>2, FreeFields DEF IInv, TypeOK
    <2>3. proc' \in [Pids -> ProcStates]
      BY <1>1 DEF IInv, TypeOK, ProcStates
    <2>4. warned' \subseteq Pids /\ tcp' = tcp /\ recycled' = recycled
      BY <1>1, SlotTypes DEF IInv, TypeOK, Overdue, Used
    <2>5. wrongkill' \in BOOLEAN
      BY <1>1
    <2>6. mailers' \in Int /\ ipmailers' \in Int /\ clients' \in Int
      <3>1. IsFiniteSet(gone)
        BY SlotsFinite, FS_Subset
      <3>2. \A T \in SUBSET gone : Cardinality(T) \in Nat
        BY <3>1, FS_Subset, FS_CardinalityType
      <3>3. /\ Cardinality({s \in gone : reg[s].prg = "mbcico"}) \in Nat
            /\ Cardinality({s \in gone : reg[s].istcp}) \in Nat
            /\ Cardinality(gone) \in Nat
        BY <3>2
      <3> QED
        BY <1>1, <3>3 DEF Drop, IInv, TypeOK
    <2>7. chatting' \subseteq Pids
      BY <1>1 DEF Drop, IInv, TypeOK
    <2> QED
      BY <2>1, <2>2, <2>3, <2>4, <2>5, <2>6, <2>7 DEF IInv, TypeOK
  <1>7. ASSUME NEW p \in Pids, proc'[p] # "none"
        PROVE  proc'[p] = proc[p]
    BY <1>1, <1>7
  <1>8. ClientsHaveSlot'
    <2>1. ASSUME NEW p \in Pids, proc'[p] \in Programs
          PROVE  \E s \in Slots : reg'[s].pid = p /\ reg'[s].prg = proc'[p]
      <3>1. proc'[p] = proc[p] /\ proc[p] # "none"
        BY <1>7, <2>1 DEF Programs
      <3>2. PICK s \in Slots : reg[s].pid = p /\ reg[s].prg = proc[p]
        BY <2>1, <3>1 DEF IInv, ClientsHaveSlot
      <3>3. s \notin gone
        BY <3>1, <3>2 DEF Stale
      <3> QED
        BY <1>4, <3>1, <3>2, <3>3
    <2>2. ASSUME NEW p \in Pids, proc'[p] = "hung"
          PROVE  Registered(p)'
      <3>1. proc[p] = "hung"
        BY <1>7, <2>2
      <3>2. PICK s \in Slots : reg[s].pid = p
        BY <3>1 DEF IInv, ClientsHaveSlot, Registered
      <3>3. s \notin gone
        BY <3>1, <3>2 DEF Stale
      <3> QED
        BY <1>4, <3>2, <3>3 DEF Registered
    <2> QED
      BY <2>1, <2>2 DEF ClientsHaveSlot
  <1>9. ChattersHaveSlot'
    <2> SUFFICES ASSUME NEW p \in chatting'
                 PROVE  \E s \in Slots : reg'[s].pid = p /\ reg'[s].prg = "mbsebbs"
      BY DEF ChattersHaveSlot
    <2>1. p \in chatting /\ \A s \in gone : reg[s].prg = "mbsebbs" => reg[s].pid # p
      BY <1>1 DEF Drop
    <2>2. PICK s \in Slots : reg[s].pid = p /\ reg[s].prg = "mbsebbs"
      BY <2>1 DEF IInv, ChattersHaveSlot
    <2>3. s \notin gone
      BY <2>1, <2>2
    <2> QED
      BY <1>4, <2>2, <2>3
  <1>10. (recycled \/ SlotsTruthful)'
    <2> SUFFICES ASSUME SlotsTruthful
                 PROVE  SlotsTruthful'
      BY <1>1 DEF IInv
    <2>1. kill \subseteq warned
      BY DEF SlotsTruthful, Overdue
    <2>2. ~wrongkill'
      BY <1>1, <2>1 DEF SlotsTruthful
    <2>3. ASSUME NEW s \in Slots
          PROVE  (/\ reg[s].istcp => tcp[reg[s].pid]
                  /\ Used(s) /\ ~reg[s].long => reg[s].pid \in warned)'
      <3>1. CASE s \in gone
        BY <1>4, <3>1, FreeFields DEF Used
      <3>2. CASE s \notin gone
        <4>1. /\ reg'[s].pid = reg[s].pid /\ reg'[s].istcp = reg[s].istcp
              /\ reg'[s].long = (reg[s].long /\ ~Overdue(s))
          BY <1>4, <3>2
        <4>2. Overdue(s) => Used(s) /\ (reg[s].long => reg[s].pid \in term)
          BY DEF Overdue
        <4>3. /\ reg[s].istcp => tcp[reg[s].pid]
              /\ Used(s) /\ ~reg[s].long => reg[s].pid \in warned
          BY DEF SlotsTruthful
        <4>4. warned' = warned \cup term /\ tcp' = tcp
          BY <1>1
        <4> QED
          BY <4>1, <4>2, <4>3, <4>4 DEF Used
      <3> QED
        BY <3>1, <3>2
    <2> QED
      BY <1>5, <2>2, <2>3 DEF SlotsTruthful
  <1> QED
    BY <1>5, <1>6, <1>8, <1>9, <1>10 DEF IInv

LEMMA NextIInv == IInv /\ [Next]_vars => IInv'
  <1> SUFFICES ASSUME IInv, [Next]_vars
               PROVE  IInv'
    OBVIOUS
  <1>1. ASSUME NEW p \in Pids, Talk(p)
        PROVE  IInv'
    <2>1. PICK s \in Slots : Finds(p, s) /\ reg' = [reg EXCEPT ![s].silent = FALSE]
      BY <1>1 DEF Talk
    <2>2. Used(s) /\ reg[s].long \in BOOLEAN
      BY <2>1, NoPidAssumption, SlotTypes DEF Finds, Used, IInv
    <2>3. PICK r \in RegInfo : /\ reg' = [reg EXCEPT ![s] = r]
                               /\ r = [reg[s] EXCEPT !.silent = FALSE]
      BY <2>1, SlotTypes DEF IInv, TypeOK, RegInfo
    <2>4. /\ r.pid = reg[s].pid /\ r.prg = reg[s].prg /\ r.istcp = reg[s].istcp
          /\ r.long = reg[s].long
      BY <2>3, SlotTypes DEF IInv, TypeOK, RegInfo
    <2> QED
      BY <1>1, <2>2, <2>3, <2>4, TimersIInv DEF Talk
  <1>2. ASSUME NEW p \in Pids, NEW long \in BOOLEAN, Timer(p, long)
        PROVE  IInv'
    <2>1. PICK s \in Slots : /\ Finds(p, s)
                             /\ reg' = [reg EXCEPT ![s].long = TRUE, ![s].silent = FALSE]
      BY <1>2 DEF Timer, Altime
    <2>2. Used(s)
      BY <2>1, NoPidAssumption DEF Finds, Used
    <2>3. PICK r \in RegInfo : /\ reg' = [reg EXCEPT ![s] = r]
                               /\ r = [reg[s] EXCEPT !.long = TRUE, !.silent = FALSE]
      BY <2>1, SlotTypes DEF IInv, TypeOK, RegInfo
    <2>4. /\ r.pid = reg[s].pid /\ r.prg = reg[s].prg /\ r.istcp = reg[s].istcp
          /\ r.long
      BY <2>3, SlotTypes DEF IInv, TypeOK, RegInfo
    <2> QED
      BY <1>2, <2>2, <2>3, <2>4, TimersIInv DEF Timer
  <1>3. ASSUME NEW s \in Slots, Elapse(s)
        PROVE  IInv'
    <2>1. Used(s) /\ reg[s].long \in BOOLEAN
      BY <1>3, SlotTypes DEF Elapse, IInv
    <2>2. PICK r \in RegInfo : /\ reg' = [reg EXCEPT ![s] = r]
                               /\ r = [reg[s] EXCEPT !.silent = TRUE]
      BY <1>3, SlotTypes DEF Elapse, IInv, TypeOK, RegInfo
    <2>3. /\ r.pid = reg[s].pid /\ r.prg = reg[s].prg /\ r.istcp = reg[s].istcp
          /\ r.long = reg[s].long
      BY <2>2, SlotTypes DEF IInv, TypeOK, RegInfo
    <2> QED
      BY <1>3, <2>1, <2>2, <2>3, TimersIInv DEF Elapse
  <1>4. CASE UNCHANGED vars
    BY <1>4
    DEF vars, daemonVars, IInv, TypeOK, Counters, ClientsHaveSlot,
        ChattersHaveSlot, SlotsTruthful, UsedSlots, MailerSlots, IpSlots,
        Registered, Used
  <1> QED
    BY <1>1, <1>2, <1>3, <1>4, NewConIInv, CloseConIInv, IpIInv, ChatIInv,
       StartIInv, GoneIInv, RestartIInv, CheckIInv
    DEF Next, ClientStep

LEMMA IInvHolds == Spec => []IInv
  BY InitIInv, NextIInv, PTL DEF Spec

-----------------------------------------------------------------------------

\* The variables keep their types and a free slot holds nothing of the client
\* that was in it, for any set of pids and any size of the table.
THEOREM TypeCorrect == Spec => []TypeOK
  <1>1. IInv => TypeOK
    BY DEF IInv
  <1> QED
    BY <1>1, IInvHolds, PTL

\* The totals agree with the table, and so does the number of TCP/IP sessions
\* as long as no pid is reused too early.
THEOREM CountersAgree == Spec => []CountersExact
  <1>1. IInv => CountersExact
    BY DEF CountersExact, IInv, IpCounter, SlotsTruthful
  <1> QED
    BY <1>1, IInvHolds, PTL

\* Connected clients and chat users are in the table.
THEOREM ClientsInTable == Spec => []Connected
  <1>1. IInv => Connected
    <2>1. ClientsHaveSlot => ClientsKnown
      BY DEF ClientsHaveSlot, ClientsKnown, Talking, Registered
    <2>2. ChattersHaveSlot => ChattersRegistered
      BY DEF ChattersHaveSlot, ChattersRegistered, Registered
    <2> QED
      BY <2>1, <2>2 DEF IInv, Connected
  <1> QED
    BY <1>1, IInvHolds, PTL

\* SIGKILL goes to processes that have had SIGTERM.
THEOREM KillIsLastResort == Spec => []KillAfterTerm
  <1>1. IInv => KillAfterTerm
    BY DEF IInv, KillAfterTerm, SlotsTruthful
  <1> QED
    BY <1>1, IInvHolds, PTL
=============================================================================
