--------------------------- MODULE IbcLinkProofs ---------------------------
(***************************************************************************)
(* For any tokens and any number of faults and users who come and go: the  *)
(* tables of a chat server follow the state of its link, no server lists a *)
(* user of its own who is not there, a link is lost by faults only, and    *)
(* two linked servers that have read everything agree on who is there.     *)
(***************************************************************************)
EXTENDS IbcLink, FiniteSetTheorems, SequenceTheorems, WellFoundedInduction, TLAPS

Entries == [state : States, token : Tokens \cup {0}, gotpass : BOOLEAN,
            half : Nat, quiet : 0..Pings, behind : BOOLEAN]
Msgs == [cmd : Commands, arg : Nodes \cup Tokens \cup {0}]

\* What may be on its way to n: calls with tokens, and news only of users of the
\* sender, unless the tables were kept when the link was lost.
Okay(n, kept) == {m \in Msgs : /\ m.cmd = "USER" => /\ m.arg \in Nodes
                                                    /\ kept \/ m.arg = Peer(n)
                               /\ m.cmd = "QUIT" => m.arg = Peer(n)
                               /\ m.cmd = "SERVER" => m.arg \in Tokens}

LinkTypes == /\ link \in [Nodes -> Entries]
             /\ routed \in [Nodes -> BOOLEAN]
             /\ usr \in [Nodes -> SUBSET Nodes]
             /\ on \subseteq Nodes
             /\ upset \in BOOLEAN
             /\ net \in [Nodes -> Seq(Msgs)]

NewsOfSender == \A n \in Nodes : net[n] \in Seq(Okay(n, upset))

\* The tables of one server, with the state of its link.
Fits(n, state, inTable, users, present, kept) ==
    /\ state = "connect" => inTable
    /\ ~kept /\ state # "connect" => ~inTable
    /\ ~inTable => Peer(n) \notin users
    /\ kept \/ n \notin users \/ present
    /\ present => n \in users
TablesFit == \A n \in Nodes : Fits(n, link[n].state, routed[n], usr[n], n \in on, upset)

IInv == LinkTypes /\ NewsOfSender /\ TablesFit

-----------------------------------------------------------------------------
(* The two servers *)

\* Each of the two servers has the other as its peer.
LEMMA Peers ==
  ASSUME NEW n \in Nodes
  PROVE  /\ Peer(n) \in Nodes /\ Peer(n) # n
         /\ Peer(Peer(n)) = n
         /\ Nodes = {n, Peer(n)}
  <1>1. IsFiniteSet(Nodes) /\ Cardinality(Nodes) = 2
    BY LinkAssumption
  <1>2. IsFiniteSet(Nodes \ {n}) /\ Cardinality(Nodes \ {n}) = 1
    BY <1>1, FS_RemoveElement
  <1>3. PICK m : Nodes \ {n} = {m}
    BY <1>2, FS_Singleton
  <1>4. m \in Nodes /\ m # n /\ Nodes = {n, m}
    BY <1>3
  <1>5. Peer(n) = m /\ Peer(m) = n
    BY <1>4 DEF Peer
  <1> QED
    BY <1>4, <1>5

\* A token can be had while one is free.
LEMMA TokenIsOne ==
  ASSUME Tokens \ InUse # {}
  PROVE  NewToken \in Tokens \ InUse
  <1> DEFINE S == Tokens \ InUse
  <1>1. S \subseteq Nat /\ S # {}
    BY LinkAssumption
  <1>2. PICK i \in S : \A j \in S : ~ (<<j, i>> \in OpToRel(<, Nat))
    BY <1>1, NatLessThanWellFounded, WFMin
  <1>3. \A j \in S : i <= j
    <2> TAKE j \in S
    <2>1. ~(j < i)
      BY <1>1, <1>2 DEF OpToRel
    <2>2. i \in Nat /\ j \in Nat
      BY <1>1
    <2> QED
      BY <2>1, <2>2
  <1> QED
    BY <1>3 DEF NewToken

-----------------------------------------------------------------------------
(* Datagrams *)

\* A message other than news of a user may always be sent.
LEMMA PlainIsOkay ==
  ASSUME NEW k \in Nodes, NEW kept \in BOOLEAN,
         NEW cmd \in Commands \ {"USER", "QUIT"}, NEW arg \in Nodes \cup Tokens \cup {0},
         cmd = "SERVER" => arg \in Tokens
  PROVE  Msg(cmd, arg) \in Okay(k, kept)
  BY DEF Okay, Msgs, Msg

\* News of a user of one's own may be sent.
LEMMA OwnIsOkay ==
  ASSUME NEW n \in Nodes, NEW kept \in BOOLEAN
  PROVE  Msg("USER", n) \in Okay(Peer(n), kept) /\ Msg("QUIT", n) \in Okay(Peer(n), kept)
  <1>1. Peer(Peer(n)) = n
    BY Peers
  <1> QED
    BY <1>1 DEF Okay, Msgs, Msg, Commands

\* More may be sent once tables have been kept.
LEMMA OkayGrows ==
  ASSUME NEW k \in Nodes, NEW kept \in BOOLEAN, NEW later \in BOOLEAN, kept => later

 PROVE   Okay(k, kept) \subseteq Okay(k, later) /\ Okay(k, later) \subseteq Msgs
  BY DEF Okay

\* The net is well typed when each of its messages is allowed.
LEMMA NetTyped ==
  ASSUME NEW f, f = [k \in Nodes |-> f[k]], NEW kept \in BOOLEAN,
         \A k \in Nodes : f[k] \in Seq(Okay(k, kept))
  PROVE  f \in [Nodes -> Seq(Msgs)]
  <1>1. ASSUME NEW k \in Nodes PROVE f[k] \in Seq(Msgs)
    BY SeqMonotonic, OkayGrows
  <1> QED
    BY <1>1

\* The datagrams as the next state allows them, whatever is sent or taken.
NetOkay(f, kept) == f \in [Nodes -> Seq(Msgs)] /\ \A k \in Nodes : f[k] \in Seq(Okay(k, kept))

\* Datagrams on their way stay allowed.
LEMMA StayOkay ==
  ASSUME NEW later \in BOOLEAN, IInv, upset => later
  PROVE  NetOkay(net, later)
  <1>1. \A k \in Nodes : net[k] \in Seq(Okay(k, later))
    <2> TAKE k \in Nodes
    <2>1. net[k] \in Seq(Okay(k, upset)) /\ Okay(k, upset) \subseteq Okay(k, later)
      BY OkayGrows DEF IInv, NewsOfSender, LinkTypes
    <2> QED
      BY <2>1, SeqMonotonic
  <1> QED
    BY <1>1 DEF NetOkay, IInv, LinkTypes

\* What one node gets is replaced.
LEMMA ReplacedOkay ==
  ASSUME NEW f, NEW later \in BOOLEAN, NetOkay(f, later),
         NEW k \in Nodes, NEW s \in Seq(Okay(k, later))
  PROVE  NetOkay([f EXCEPT ![k] = s], later)
  <1> DEFINE g == [f EXCEPT ![k] = s]
  <1>1. g = [j \in Nodes |-> g[j]]
    BY DEF NetOkay
  <1>2. \A j \in Nodes : g[j] \in Seq(Okay(j, later))
    BY DEF NetOkay
  <1> HIDE DEF g
  <1>3. g \in [Nodes -> Seq(Msgs)]
    BY <1>1, <1>2, NetTyped
  <1>4. NetOkay(g, later)
    BY <1>2, <1>3 DEF NetOkay
  <1> QED
    BY <1>4 DEF g

\* What is sent are the messages, or none.
LEMMA SentSome ==
  ASSUME NEW n, NEW S, NEW msgs \in Seq(S)
  PROVE  /\ Sent(n, msgs) \in Seq(S) /\ Sent(n, msgs) \in {msgs, <<>>}
         /\ msgs = <<>> \/ n \in socket => Sent(n, msgs) = msgs
  BY DEF Sent

\* Messages are sent.
LEMMA SendOkay ==
  ASSUME NEW n \in Nodes, NEW later \in BOOLEAN, IInv, upset => later,
         NEW msgs \in Seq(Okay(Peer(n), later)), Send(n, msgs)
  PROVE  NetOkay(net', later)
  <1>1. NetOkay(net, later) /\ Peer(n) \in Nodes
    BY StayOkay, Peers
  <1>2. net[Peer(n)] \in Seq(Okay(Peer(n), later))
    BY <1>1 DEF NetOkay
  <1>3. net[Peer(n)] \o Sent(n, msgs) \in Seq(Okay(Peer(n), later))
    BY <1>2, SentSome, ConcatProperties
  <1>4. net' = [net EXCEPT ![Peer(n)] = net[Peer(n)] \o Sent(n, msgs)]
    BY DEF Send
  <1> QED
    BY <1>1, <1>3, <1>4, ReplacedOkay

\* A message is taken and messages are sent.
LEMMA AnswerOkay ==
  ASSUME NEW n \in Nodes, NEW later \in BOOLEAN, IInv, upset => later, net[n] # <<>>,
         NEW msgs \in Seq(Okay(Peer(n), later)), Answer(n, msgs)
  PROVE  NetOkay(net', later)
  <1> DEFINE took == [net EXCEPT ![n] = Tail(net[n])]
  <1>1. NetOkay(net, later) /\ Peer(n) \in Nodes /\ Peer(n) # n
    BY StayOkay, Peers
  <1>2. Tail(net[n]) \in Seq(Okay(n, later))
    BY <1>1, HeadTailProperties DEF NetOkay
  <1>3. NetOkay(took, later)
    BY <1>1, <1>2, ReplacedOkay
  <1>4. took[Peer(n)] = net[Peer(n)]
    BY <1>1
  <1>5. net' = [took EXCEPT ![Peer(n)] = net[Peer(n)] \o Sent(n, msgs)]
    BY <1>1 DEF Answer, NetOkay
  <1>6. net[Peer(n)] \o Sent(n, msgs) \in Seq(Okay(Peer(n), later))
    BY <1>1, SentSome, ConcatProperties DEF NetOkay
  <1> HIDE DEF took
  <1> QED
    BY <1>1, <1>3, <1>5, <1>6, ReplacedOkay

\* The message a server takes.
LEMMA HeadOkay ==
  ASSUME NEW n \in Nodes, IInv, net[n] # <<>>
  PROVE  Head(net[n]) \in Okay(n, upset) /\ Head(net[n]) \in Msgs
  <1>1. Head(net[n]) \in Okay(n, upset)
    BY HeadTailProperties DEF IInv, NewsOfSender
  <1> QED
    BY <1>1 DEF Okay

-----------------------------------------------------------------------------
(* Steps *)

LinkFns == /\ link \in [Nodes -> Entries]
           /\ routed \in [Nodes -> BOOLEAN]
           /\ usr \in [Nodes -> SUBSET Nodes]
           /\ on \subseteq Nodes
           /\ upset \in BOOLEAN

\* A step of n leaves the tables of its peer alone.
LEMMA StepAt ==
  ASSUME NEW n \in Nodes, IInv, LinkFns', upset => upset',
         \A k \in Nodes \ {n} : /\ link'[k].state = link[k].state
                               /\ routed'[k] = routed[k]
                               /\ usr'[k] = usr[k],
         on' \ {n} = on \ {n},
         Fits(n, link'[n].state, routed'[n], usr'[n], n \in on', upset'),
         NetOkay(net', upset')
  PROVE  IInv'
  <1>1. LinkTypes'
    BY DEF LinkTypes, LinkFns, NetOkay
  <1>2. NewsOfSender'
    <2>1. \A k \in Nodes : net'[k] \in Seq(Okay(k, upset'))
      BY DEF NetOkay
    <2> QED
      BY <2>1 DEF NewsOfSender, Okay, Msgs
  <1>3. \A k \in Nodes : Fits(k, link'[k].state, routed'[k], usr'[k], k \in on', upset')
    <2> TAKE k \in Nodes
    <2>1. CASE k = n
      BY <2>1
    <2>2. CASE k # n
      <3>1. Fits(k, link[k].state, routed[k], usr[k], k \in on, upset)
        BY DEF IInv, TablesFit
      <3>2. Fits(k, link[k].state, routed[k], usr[k], k \in on, upset')
        BY <3>1 DEF Fits
      <3>3. /\ link'[k].state = link[k].state
            /\ routed'[k] = routed[k]
            /\ usr'[k] = usr[k]
            /\ (k \in on') <=> (k \in on)
        BY <2>2
      <3> HIDE DEF Fits
      <3>4. Fits(k, link'[k].state, routed'[k], usr'[k], k \in on, upset')
        BY <3>2, <3>3
      <3> QED
        BY <3>3, <3>4 DEF Fits
    <2> QED
      BY <2>1, <2>2
  <1>4. TablesFit'
    BY <1>3 DEF TablesFit, Fits, Peer
  <1> QED
    BY <1>1, <1>2, <1>4 DEF IInv

\* The tables of n as they are, and its entry.
LEMMA Here ==
  ASSUME NEW n \in Nodes, IInv
  PROVE  /\ Fits(n, link[n].state, routed[n], usr[n], n \in on, upset)
         /\ link[n] \in Entries /\ routed[n] \in BOOLEAN /\ usr[n] \subseteq Nodes
         /\ LinkFns
  BY DEF IInv, TablesFit, LinkTypes, LinkFns

\* The link changes, but it stays connected or stays not connected.
LEMMA QuietStep ==
  ASSUME NEW n \in Nodes, IInv, UNCHANGED <<tables, upset>>,
         NEW e \in Entries, link' = [link EXCEPT ![n] = e],
         e.state = "connect" <=> link[n].state = "connect",
         NetOkay(net', upset)
  PROVE  IInv'
  <1>1. /\ Fits(n, link[n].state, routed[n], usr[n], n \in on, upset)
        /\ LinkFns
    BY Here
  <1>2. LinkFns' /\ link'[n] = e /\ \A k \in Nodes \ {n} : link'[k] = link[k]
    BY <1>1 DEF LinkFns, tables
  <1>3. Fits(n, e.state, routed[n], usr[n], n \in on, upset)
    BY <1>1 DEF Fits
  <1> QED
    BY <1>2, <1>3, StepAt DEF tables

\* The tables of n change with its link, and no other's.
LEMMA TableStep ==
  ASSUME NEW n \in Nodes, IInv, UNCHANGED on, upset' \in BOOLEAN, upset => upset',
         NEW e \in Entries, link' = [link EXCEPT ![n] = e],
         NEW r \in BOOLEAN, routed' = [routed EXCEPT ![n] = r],
         NEW u \in SUBSET Nodes, usr' = [usr EXCEPT ![n] = u],
         Fits(n, e.state, r, u, n \in on, upset'),
         NetOkay(net', upset')
  PROVE  IInv'
  <1>1. LinkFns
    BY Here
  <1>2. /\ LinkFns'
        /\ link'[n] = e /\ routed'[n] = r /\ usr'[n] = u
        /\ \A k \in Nodes \ {n} : /\ link'[k] = link[k]
                                 /\ routed'[k] = routed[k] /\ usr'[k] = usr[k]
    BY <1>1 DEF LinkFns
  <1> QED
    BY <1>2, StepAt

-----------------------------------------------------------------------------
(* The entries the steps leave *)

\* A state that a timer or a message may bring.
LEMMA EntryMoves ==
  ASSUME NEW n \in Nodes, IInv, NEW s \in States
  PROVE  /\ [link[n] EXCEPT !.state = s] \in Entries
         /\ [link[n] EXCEPT !.state = s].state = s
         /\ Heard(n) \in Entries /\ Heard(n).state = link[n].state
         /\ [Heard(n) EXCEPT !.state = s] \in Entries
         /\ [Heard(n) EXCEPT !.state = s].state = s
  <1>1. link[n] \in Entries
    BY Here
  <1>2. Heard(n) \in Entries /\ Heard(n).state = link[n].state
    BY <1>1, LinkAssumption DEF Entries, Heard
  <1>3. ASSUME NEW e \in Entries

       PROVE   [e EXCEPT !.state = s] \in Entries /\ [e EXCEPT !.state = s].state = s
    BY <1>3 DEF Entries
  <1> QED
    BY <1>1, <1>2, <1>3

\* The entry of a link that is lost or starts again.
LEMMA FreshMoves ==
  ASSUME NEW n \in Nodes, IInv, NEW s \in States
  PROVE  /\ Fresh \in Entries /\ Fresh.state = "init"
         /\ [Fresh EXCEPT !.state = s] \in Entries
         /\ [Fresh EXCEPT !.state = s].state = s
         /\ [Fresh EXCEPT !.state = s, !.quiet = link[n].quiet] \in Entries
         /\ [Fresh EXCEPT !.state = s, !.quiet = link[n].quiet].state = s
         /\ [Fresh EXCEPT !.state = s, !.half = link[n].half] \in Entries
         /\ [Fresh EXCEPT !.state = s, !.half = link[n].half].state = s
  <1>1. link[n].quiet \in 0..Pings /\ link[n].half \in Nat
    BY Here DEF Entries
  <1>2. Fresh \in Entries /\ Fresh.state = "init"
    BY LinkAssumption DEF Fresh, Entries, States
  <1>3. /\ [Fresh EXCEPT !.state = s] \in Entries
        /\ [Fresh EXCEPT !.state = s].state = s
    BY <1>2 DEF Entries
  <1>4. /\ [Fresh EXCEPT !.state = s, !.quiet = link[n].quiet] \in Entries
        /\ [Fresh EXCEPT !.state = s, !.quiet = link[n].quiet].state = s
    BY <1>1, <1>2 DEF Entries
  <1>5. /\ [Fresh EXCEPT !.state = s, !.half = link[n].half] \in Entries
        /\ [Fresh EXCEPT !.state = s, !.half = link[n].half].state = s
    BY <1>1, <1>2 DEF Entries
  <1> QED
    BY <1>2, <1>3, <1>4, <1>5

-----------------------------------------------------------------------------
(* Timers *)

LEMMA SetupFits ==
  ASSUME NEW n \in Nodes, IInv, Setup(n)
  PROVE  IInv'
  <1>1. PICK s \in {"call", "fail"} : link' = [link EXCEPT ![n].state = s]
    BY DEF Setup, Goes
  <1> DEFINE e == [link[n] EXCEPT !.state = s]
  <1>2. e \in Entries /\ e.state = s
    <2>1. s \in States
      BY DEF States
    <2> QED
      BY <2>1, EntryMoves
  <1>3. link' = [link EXCEPT ![n] = e]
    BY <1>1
  <1>4. link[n].state = "init"
    BY DEF Setup
  <1>5. NetOkay(net', upset) /\ UNCHANGED <<tables, upset>>
    BY StayOkay DEF IInv, LinkTypes, Setup
  <1> HIDE DEF e
  <1> QED
    BY <1>2, <1>3, <1>4, <1>5, QuietStep

LEMMA PlaceCallFits ==
  ASSUME NEW n \in Nodes, IInv, PlaceCall(n)
  PROVE  IInv'
  <1> DEFINE e == [link[n] EXCEPT !.state = "waitpwd", !.token = NewToken, !.behind = FALSE]
             msgs == <<Msg("PASS", 0), Msg("SERVER", NewToken)>>
  <1>1. NewToken \in Tokens
    BY TokenIsOne DEF PlaceCall
  <1>2. link[n] \in Entries /\ upset \in BOOLEAN /\ Peer(n) \in Nodes
    BY Here, Peers DEF LinkFns
  <1>3. e \in Entries /\ e.state = "waitpwd"
    BY <1>1, <1>2 DEF Entries, States
  <1>4. link' = [link EXCEPT ![n] = e]
    BY DEF PlaceCall
  <1>5. /\ Msg("PASS", 0) \in Okay(Peer(n), upset)
        /\ Msg("SERVER", NewToken) \in Okay(Peer(n), upset)
    BY <1>1, <1>2, PlainIsOkay DEF Commands
  <1>6. msgs \in Seq(Okay(Peer(n), upset))
    BY <1>5
  <1>7. Send(n, msgs) /\ UNCHANGED <<tables, upset>> /\ link[n].state = "call"
    BY DEF PlaceCall
  <1> HIDE DEF e, msgs
  <1>8. NetOkay(net', upset)
    BY <1>2, <1>6, <1>7, SendOkay
  <1> QED
    BY <1>3, <1>4, <1>7, <1>8, QuietStep

LEMMA GiveUpFits ==
  ASSUME NEW n \in Nodes, IInv, GiveUp(n)
  PROVE  IInv'
  <1>1. LinkFns /\ Fits(n, link[n].state, routed[n], usr[n], n \in on, upset)
    BY Here
  <1>2. Peer(n) \in Nodes /\ Peer(n) # n
    BY Peers
  <1>3. /\ link' \in [Nodes -> Entries]
        /\ link'[n].state = "call"
        /\ \A k \in Nodes \ {n} : link'[k].state = link[k].state
    BY <1>1, <1>2 DEF GiveUp, LinkFns, Entries, States
  <1>4. UNCHANGED <<routed, usr, on, upset, net>> /\ link[n].state = "waitpwd"
    BY DEF GiveUp, tables
  <1>5. NetOkay(net', upset')
    BY <1>4, StayOkay DEF IInv, LinkTypes
  <1>6. Fits(n, link'[n].state, routed'[n], usr'[n], n \in on', upset')
    BY <1>1, <1>3, <1>4 DEF Fits
  <1>7. LinkFns'
    BY <1>1, <1>3, <1>4 DEF LinkFns
  <1> QED
    BY <1>3, <1>4, <1>5, <1>6, <1>7, StepAt

\* del_router() leaves what fits a link that is lost.
LEMMA Unrouted ==
  ASSUME NEW n \in Nodes, IInv, NEW s \in States, s # "connect"
  PROVE  LET u == IF routed[n] THEN usr[n] \ {Peer(n)} ELSE usr[n]
         IN  u \in SUBSET Nodes /\ Fits(n, s, FALSE, u, n \in on, upset)
  BY Here, Peers DEF Fits

LEMMA DiesFits ==
  ASSUME NEW n \in Nodes, IInv, Dies(n)
  PROVE  IInv'
  <1> DEFINE e == [Fresh EXCEPT !.state = "dead", !.quiet = link[n].quiet]
             u == IF routed[n] THEN usr[n] \ {Peer(n)} ELSE usr[n]
  <1>1. e \in Entries /\ e.state = "dead"
    BY FreshMoves DEF States
  <1>2. u \in SUBSET Nodes /\ Fits(n, "dead", FALSE, u, n \in on, upset)
    BY Unrouted DEF States
  <1>3. /\ link' = [link EXCEPT ![n] = e]
        /\ routed' = [routed EXCEPT ![n] = FALSE]
        /\ usr' = [usr EXCEPT ![n] = u]
        /\ UNCHANGED <<on, net, upset>>
    BY DEF Dies, Cut, DelRouter
  <1>4. NetOkay(net', upset') /\ upset' = upset /\ upset' \in BOOLEAN
    BY <1>3, StayOkay DEF IInv, LinkTypes
  <1>5. Fits(n, e.state, FALSE, u, n \in on, upset')
    BY <1>1, <1>2, <1>4
  <1>6. UNCHANGED on /\ (upset => upset')
    BY <1>3
  <1> HIDE DEF e, u
  <1>7. e \in Entries /\ u \in SUBSET Nodes /\ FALSE \in BOOLEAN
    BY <1>1, <1>2
  <1>8. NetOkay(net', upset') /\ upset' \in BOOLEAN
    BY <1>4
  <1> QED
    BY <1>3, <1>5, <1>6, <1>7, <1>8, TableStep

LEMMA PingFits ==
  ASSUME NEW n \in Nodes, IInv, Ping(n)
  PROVE  IInv'
  <1> DEFINE e == [link[n] EXCEPT !.quiet = @ + 1]
             msgs == <<Msg("PING", 0)>>
  <1>1. link[n] \in Entries /\ upset \in BOOLEAN /\ Peer(n) \in Nodes
    BY Here, Peers DEF LinkFns
  <1>2. link[n].quiet \in 0..Pings /\ link[n].quiet < Pings /\ Pings \in Nat
    BY <1>1, LinkAssumption DEF Entries, Ping
  <1>3. e \in Entries /\ e.state = link[n].state
    BY <1>1, <1>2 DEF Entries
  <1>4. Msg("PING", 0) \in Okay(Peer(n), upset)
    BY <1>1, PlainIsOkay DEF Commands
  <1>5. msgs \in Seq(Okay(Peer(n), upset))
    BY <1>4
  <1>6. /\ link' = [link EXCEPT ![n] = e]
        /\ Send(n, msgs) /\ UNCHANGED <<tables, upset>>
    BY DEF Ping
  <1> HIDE DEF e, msgs
  <1>7. NetOkay(net', upset)
    BY <1>1, <1>5, <1>6, SendOkay
  <1> QED
    BY <1>3, <1>6, <1>7, QuietStep

LEMMA AgainFits ==
  ASSUME NEW n \in Nodes, IInv, Again(n)
  PROVE  IInv'
  <1>1. PICK s \in {"call", "init"} : link' = [link EXCEPT ![n].state = s]
    BY DEF Again, Goes
  <1> DEFINE e == [link[n] EXCEPT !.state = s]
  <1>2. e \in Entries /\ e.state = s
    <2>1. s \in States
      BY DEF States
    <2> QED
      BY <2>1, EntryMoves
  <1>3. link' = [link EXCEPT ![n] = e] /\ link[n].state # "connect"
    BY <1>1 DEF Again
  <1>4. NetOkay(net', upset) /\ UNCHANGED <<tables, upset>>
    BY StayOkay DEF IInv, LinkTypes, Again
  <1> HIDE DEF e
  <1> QED
    BY <1>2, <1>3, <1>4, QuietStep

\* Whatever a timer does, the tables follow.
LEMMA TimersFit ==
  ASSUME NEW n \in Nodes, IInv, Timers(n)
  PROVE  IInv'
  BY SetupFits, PlaceCallFits, GiveUpFits, DiesFits, PingFits, AgainFits
     DEF Timers, DieOfCalls, DieOfSilence

-----------------------------------------------------------------------------
(* Messages *)

\* Nothing is sent.
LEMMA NothingOkay ==
  ASSUME NEW k, NEW kept
  PROVE  <<>> \in Seq(Okay(k, kept))
  OBVIOUS

\* A message without which nothing is answered, and which is no news.
LEMMA HeardStep ==
  ASSUME NEW n \in Nodes, IInv, net[n] # <<>>, UNCHANGED <<tables, upset>>,
         NEW e \in Entries, link' = [link EXCEPT ![n] = e],
         e.state = "connect" <=> link[n].state = "connect",
         NEW msgs \in Seq(Okay(Peer(n), upset)), Answer(n, msgs)
  PROVE  IInv'
  <1>1. upset \in BOOLEAN
    BY DEF IInv, LinkTypes
  <1>2. NetOkay(net', upset)
    BY <1>1, AnswerOkay
  <1> QED
    BY <1>2, QuietStep

LEMMA DroppedFits ==
  ASSUME NEW n \in Nodes, IInv, Dropped(n)
  PROVE  IInv'
  <1>1. link[n] \in Entries /\ link \in [Nodes -> Entries]
    BY Here DEF LinkFns
  <1>2. link' = [link EXCEPT ![n] = link[n]]
    BY <1>1 DEF Dropped
  <1>3. net[n] # <<>> /\ Answer(n, <<>>) /\ UNCHANGED <<tables, upset>>
    BY DEF Dropped
  <1> QED
    BY <1>1, <1>2, <1>3, NothingOkay, HeardStep

LEMMA PingedFits ==
  ASSUME NEW n \in Nodes, IInv, Pinged(n)
  PROVE  IInv'
  <1> DEFINE e == Heard(n)
             msgs == <<Msg("PONG", 0)>>
  <1>1. e \in Entries /\ e.state = link[n].state
    BY EntryMoves DEF States
  <1>2. Msg("PONG", 0) \in Okay(Peer(n), upset)
    BY Peers, PlainIsOkay DEF Commands, IInv, LinkTypes
  <1>3. msgs \in Seq(Okay(Peer(n), upset))
    BY <1>2
  <1>4. /\ net[n] # <<>> /\ Answer(n, msgs) /\ UNCHANGED <<tables, upset>>
        /\ link' = [link EXCEPT ![n] = e]
    BY DEF Pinged, Takes
  <1> HIDE DEF e, msgs
  <1> QED
    BY <1>1, <1>3, <1>4, HeardStep

LEMMA PongedFits ==
  ASSUME NEW n \in Nodes, IInv, Ponged(n) \/ Error(n) \/ Ignores(n)
  PROVE  IInv'
  <1>1. Heard(n) \in Entries /\ Heard(n).state = link[n].state
    BY EntryMoves DEF States
  <1>2. /\ [Heard(n) EXCEPT !.half = 0] \in Entries
        /\ [Heard(n) EXCEPT !.half = 0].state = link[n].state
    BY <1>1 DEF Entries
  <1>3. /\ net[n] # <<>> /\ Answer(n, <<>>) /\ UNCHANGED <<tables, upset>>
        /\ \/ link' = [link EXCEPT ![n] = Heard(n)]
           \/ link' = [link EXCEPT ![n] = [Heard(n) EXCEPT !.half = 0]]
    BY DEF Ponged, Error, Ignores, Takes
  <1> QED
    BY <1>1, <1>2, <1>3, NothingOkay, HeardStep

LEMMA PassFits ==
  ASSUME NEW n \in Nodes, IInv, Pass(n)
  PROVE  IInv'
  <1> DEFINE counted == [Heard(n) EXCEPT !.gotpass = FALSE, !.half = @ + 1]
             noted == [Heard(n) EXCEPT !.gotpass = TRUE]
             msgs == <<Msg("error", 0)>>
  <1>1. Heard(n) \in Entries /\ Heard(n).state = link[n].state
    BY EntryMoves DEF States
  <1>2. counted \in Entries /\ counted.state = link[n].state
    <2>1. ASSUME NEW e \in Entries, NEW h \in Nat
          PROVE  /\ [e EXCEPT !.gotpass = FALSE, !.half = h] \in Entries
                 /\ [e EXCEPT !.gotpass = FALSE, !.half = h].state = e.state
      BY <2>1 DEF Entries
    <2>2. Heard(n).half + 1 \in Nat
      BY <1>1 DEF Entries
    <2>3. counted = [Heard(n) EXCEPT !.gotpass = FALSE, !.half = Heard(n).half + 1]
      OBVIOUS
    <2> QED
      BY <1>1, <2>1, <2>2, <2>3
  <1>3. noted \in Entries /\ noted.state = link[n].state
    BY <1>1 DEF Entries
  <1>4. Msg("error", 0) \in Okay(Peer(n), upset)
    BY Peers, PlainIsOkay DEF Commands, IInv, LinkTypes
  <1>5. msgs \in Seq(Okay(Peer(n), upset))
    BY <1>4
  <1>6. /\ net[n] # <<>> /\ UNCHANGED <<tables, upset>>
        /\ \/ link' = [link EXCEPT ![n] = counted] /\ Answer(n, msgs)
           \/ link' = [link EXCEPT ![n] = noted] /\ Answer(n, <<>>)
    BY DEF Pass, Takes
  <1> HIDE DEF counted, noted, msgs
  <1> QED
    BY <1>2, <1>3, <1>5, <1>6, NothingOkay, HeardStep

\* What a server that has just connected tells of the users it knows.
LEMMA KnownOkay ==
  ASSUME NEW n \in Nodes, IInv, NEW later \in BOOLEAN, upset \/ routed[n] => later
  PROVE  Known(n) \in Seq(Okay(Peer(n), later))
  <1>1. /\ Peer(n) \in Nodes /\ Peer(Peer(n)) = n /\ Nodes = {n, Peer(n)}
        /\ usr[n] \subseteq Nodes
        /\ ~routed[n] => Peer(n) \notin usr[n]
    BY Peers, Here DEF Fits
  <1>2. IsFiniteSet(usr[n])
    BY <1>1, LinkAssumption, FS_Subset
  <1>3. Cardinality(usr[n]) \in Nat
    BY <1>2, FS_CardinalityType
  <1>4. CASE later
    <2>1. Msg("USER", n) \in Okay(Peer(n), later) /\ Msg("USER", Peer(n)) \in Okay(Peer(n), later)
      BY <1>1, <1>4 DEF Okay, Msgs, Msg, Commands
    <2>2. \A i \in 1..Cardinality(usr[n]) :
              Msg("USER", IF n \in usr[n] /\ i = 1 THEN n ELSE Peer(n)) \in Okay(Peer(n), later)
      BY <2>1
    <2> QED
      BY <1>3, <2>2 DEF Known
  <1>5. CASE ~later
    <2>1. usr[n] = {} \/ usr[n] = {n}
      BY <1>1, <1>5
    <2>2. \/ Cardinality(usr[n]) = 0
          \/ n \in usr[n] /\ Cardinality(usr[n]) = 1
      BY <2>1, FS_EmptySet, FS_Singleton
    <2>3. Msg("USER", n) \in Okay(Peer(n), later)
      BY OwnIsOkay
    <2>4. \A i \in 1..Cardinality(usr[n]) :
              Msg("USER", IF n \in usr[n] /\ i = 1 THEN n ELSE Peer(n)) \in Okay(Peer(n), later)
      BY <2>2, <2>3
    <2> QED
      BY <1>3, <2>4 DEF Known
  <1> QED
    BY <1>4, <1>5

LEMMA ConnectsFits ==
  ASSUME NEW n \in Nodes, IInv, net[n] # <<>>,
         NEW answer \in Seq(Okay(Peer(n), upset')), NEW call, Connects(n, answer, call)
  PROVE  IInv'
  <1> DEFINE e == [Heard(n) EXCEPT !.state = "connect"]
  <1>1. e \in Entries /\ e.state = "connect"
    BY EntryMoves DEF States
  <1>2. Fits(n, link[n].state, routed[n], usr[n], n \in on, upset) /\ LinkFns
    BY Here
  <1>3. /\ link' = [link EXCEPT ![n] = e]
        /\ routed' = [routed EXCEPT ![n] = TRUE]
        /\ upset' = (upset \/ routed[n])
        /\ UNCHANGED usr /\ UNCHANGED on
        /\ Answer(n, answer \o Known(n))
    BY DEF Connects
  <1>4. upset' \in BOOLEAN /\ (upset => upset')
    BY <1>2, <1>3 DEF LinkFns
  <1>5. Known(n) \in Seq(Okay(Peer(n), upset'))
    BY <1>3, <1>4, KnownOkay
  <1>6. answer \o Known(n) \in Seq(Okay(Peer(n), upset'))
    BY <1>5, ConcatProperties
  <1>7. NetOkay(net', upset')
    BY <1>3, <1>4, <1>6, AnswerOkay
  <1>8. usr[n] \in SUBSET Nodes /\ usr' = [usr EXCEPT ![n] = usr[n]]
    BY <1>2, <1>3 DEF LinkFns
  <1>9. Fits(n, e.state, TRUE, usr[n], n \in on, upset')
    BY <1>1, <1>2, <1>4 DEF Fits
  <1> HIDE DEF e
  <1> QED
    BY <1>1, <1>3, <1>4, <1>7, <1>8, <1>9, TableStep

LEMMA AnsweredFits ==
  ASSUME NEW n \in Nodes, IInv, Answered(n)
  PROVE  IInv'
  BY NothingOkay, ConnectsFits DEF Answered, Takes

LEMMA AcceptsFits ==
  ASSUME NEW n \in Nodes, IInv, Accepts(n)
  PROVE  IInv'
  <1> DEFINE answer == <<Msg("PASS", 0), Msg("SERVER", Head(net[n]).arg)>>
  <1>1. net[n] # <<>> /\ Connects(n, answer, {Head(net[n]).arg})
    BY DEF Accepts, Takes
  <1>2. Head(net[n]).arg \in Tokens /\ Peer(n) \in Nodes
    BY <1>1, HeadOkay, Peers DEF Accepts, Takes, Okay
  <1>3. upset' \in BOOLEAN
    BY <1>1, Here DEF Connects, LinkFns
  <1>4. /\ Msg("PASS", 0) \in Okay(Peer(n), upset')
        /\ Msg("SERVER", Head(net[n]).arg) \in Okay(Peer(n), upset')
    BY <1>2, <1>3, PlainIsOkay DEF Commands
  <1>5. answer \in Seq(Okay(Peer(n), upset'))
    BY <1>4
  <1> HIDE DEF answer
  <1> QED
    BY <1>1, <1>5, ConnectsFits

LEMMA CollidesFits ==
  ASSUME NEW n \in Nodes, IInv, Collides(n)
  PROVE  IInv'
  <1> DEFINE e == [Heard(n) EXCEPT !.state = "waitpwd"]
  <1>1. e \in Entries /\ e.state = "waitpwd"
    BY EntryMoves DEF States
  <1>2. Fits(n, link[n].state, routed[n], usr[n], n \in on, upset) /\ LinkFns
    BY Here
  <1>3. /\ net[n] # <<>> /\ Answer(n, <<>>)
        /\ link' = [link EXCEPT ![n] = e]
        /\ upset' = (upset \/ link[n].state = "connect")
        /\ UNCHANGED routed /\ UNCHANGED usr /\ UNCHANGED on
    BY DEF Collides, Takes, tables
  <1>4. upset' \in BOOLEAN /\ (upset => upset')
    BY <1>2, <1>3 DEF LinkFns
  <1>5. NetOkay(net', upset')
    BY <1>3, <1>4, NothingOkay, AnswerOkay
  <1>6. /\ routed[n] \in BOOLEAN /\ routed' = [routed EXCEPT ![n] = routed[n]]
        /\ usr[n] \in SUBSET Nodes /\ usr' = [usr EXCEPT ![n] = usr[n]]
    BY <1>2, <1>3 DEF LinkFns
  <1>7. Fits(n, e.state, routed[n], usr[n], n \in on, upset')
    BY <1>1, <1>2, <1>3 DEF Fits
  <1> HIDE DEF e
  <1>8. UNCHANGED on /\ link' = [link EXCEPT ![n] = e] /\ e \in Entries
    BY <1>1, <1>3
  <1> QED
    BY <1>4, <1>5, <1>6, <1>7, <1>8, TableStep

LEMMA SquitFits ==
  ASSUME NEW n \in Nodes, IInv, Squit(n)
  PROVE  IInv'
  <1> DEFINE e == [Fresh EXCEPT !.state = "hangup", !.half = link[n].half]
             u == IF routed[n] THEN usr[n] \ {Peer(n)} ELSE usr[n]
  <1>1. e \in Entries /\ e.state = "hangup"
    BY FreshMoves DEF States
  <1>2. u \in SUBSET Nodes /\ Fits(n, "hangup", FALSE, u, n \in on, upset)
    BY Unrouted DEF States
  <1>3. /\ link' = [link EXCEPT ![n] = e]
        /\ routed' = [routed EXCEPT ![n] = FALSE]
        /\ usr' = [usr EXCEPT ![n] = u]
        /\ UNCHANGED on /\ UNCHANGED upset
        /\ net[n] # <<>> /\ Answer(n, <<>>)
    BY DEF Squit, Takes, DelRouter
  <1>4. upset' \in BOOLEAN /\ (upset => upset')
    BY <1>3 DEF IInv, LinkTypes
  <1>5. NetOkay(net', upset')
    BY <1>3, <1>4, NothingOkay, AnswerOkay
  <1>6. Fits(n, e.state, FALSE, u, n \in on, upset')
    BY <1>1, <1>2, <1>3
  <1> HIDE DEF e, u
  <1>7. e \in Entries /\ u \in SUBSET Nodes /\ FALSE \in BOOLEAN
    BY <1>1, <1>2
  <1>8. UNCHANGED on /\ upset' \in BOOLEAN /\ (upset => upset')
    BY <1>3, <1>4
  <1>9. /\ link' = [link EXCEPT ![n] = e]
        /\ routed' = [routed EXCEPT ![n] = FALSE]
        /\ usr' = [usr EXCEPT ![n] = u]
    BY <1>3
  <1> QED
    BY <1>5, <1>6, <1>7, <1>8, <1>9, TableStep

\* n hears of users and changes no more than the list of them.
LEMMA UsersStep ==
  ASSUME NEW n \in Nodes, IInv, net[n] # <<>>, Answer(n, <<>>),
         link' = [link EXCEPT ![n] = Heard(n)],
         UNCHANGED routed, UNCHANGED on, UNCHANGED upset,
         NEW u \in SUBSET Nodes, usr' = [usr EXCEPT ![n] = u],
         Fits(n, link[n].state, routed[n], u, n \in on, upset)
  PROVE  IInv'
  <1>1. Heard(n) \in Entries /\ Heard(n).state = link[n].state
    BY EntryMoves DEF States
  <1>2. LinkFns
    BY Here
  <1>3. upset' \in BOOLEAN /\ (upset => upset')
    BY <1>2 DEF LinkFns
  <1>4. NetOkay(net', upset')
    BY <1>3, NothingOkay, AnswerOkay
  <1>5. routed[n] \in BOOLEAN /\ routed' = [routed EXCEPT ![n] = routed[n]]
    BY <1>2 DEF LinkFns
  <1>6. Fits(n, Heard(n).state, routed[n], u, n \in on, upset')
    BY <1>1
  <1> QED
    BY <1>1, <1>3, <1>4, <1>5, <1>6, TableStep

LEMMA UserFits ==
  ASSUME NEW n \in Nodes, IInv, User(n)
  PROVE  IInv'
  <1> DEFINE server == Head(net[n]).arg
             u == IF server = n \/ routed[n] THEN usr[n] \cup {server} ELSE usr[n]
  <1>1. net[n] # <<>> /\ Head(net[n]).cmd = "USER"
    BY DEF User, Takes
  <1>2. server \in Nodes /\ (upset \/ server = Peer(n)) /\ Peer(n) # n
    BY <1>1, HeadOkay, Peers DEF Okay
  <1>3. Fits(n, link[n].state, routed[n], usr[n], n \in on, upset) /\ usr[n] \subseteq Nodes
    BY Here
  <1>4. u \in SUBSET Nodes /\ Fits(n, link[n].state, routed[n], u, n \in on, upset)
    BY <1>2, <1>3 DEF Fits
  <1>5. /\ Answer(n, <<>>)
        /\ link' = [link EXCEPT ![n] = Heard(n)]
        /\ UNCHANGED routed /\ UNCHANGED on /\ UNCHANGED upset
        /\ usr' = [usr EXCEPT ![n] = u]
    BY DEF User
  <1> HIDE DEF u
  <1> QED
    BY <1>1, <1>4, <1>5, UsersStep

LEMMA QuitFits ==
  ASSUME NEW n \in Nodes, IInv, Quit(n)
  PROVE  IInv'
  <1> DEFINE u == usr[n] \ {Head(net[n]).arg}
  <1>1. Fits(n, link[n].state, routed[n], usr[n], n \in on, upset) /\ usr[n] \subseteq Nodes
    BY Here
  <1>2. u \in SUBSET Nodes /\ Fits(n, link[n].state, routed[n], u, n \in on, upset)
    <2>1. net[n] # <<>> /\ Head(net[n]).cmd = "QUIT"
      BY DEF Quit, Takes
    <2>2. Head(net[n]).arg = Peer(n) /\ Peer(n) # n
      BY <2>1, HeadOkay, Peers DEF Okay
    <2> QED
      BY <1>1, <2>2 DEF Fits
  <1>3. /\ net[n] # <<>> /\ Answer(n, <<>>)
        /\ link' = [link EXCEPT ![n] = Heard(n)]
        /\ UNCHANGED routed /\ UNCHANGED on /\ UNCHANGED upset
        /\ usr' = [usr EXCEPT ![n] = u]
    BY DEF Quit, Takes
  <1> HIDE DEF u
  <1> QED
    BY <1>2, <1>3, UsersStep

\* Whatever a server is told, the tables follow.
LEMMA ReceiveFits ==
  ASSUME NEW n \in Nodes, IInv, Receive(n)
  PROVE  IInv'
  BY DroppedFits, PingedFits, PongedFits, PassFits, AnsweredFits, CollidesFits,
     AcceptsFits, SquitFits, UserFits, QuitFits DEF Receive

-----------------------------------------------------------------------------
(* Users, failures and the network *)

\* News of one's own user, sent while linked.
LEMMA IfLinkedOkay ==
  ASSUME NEW n \in Nodes, IInv, NEW m \in Okay(Peer(n), upset), IfLinked(n, <<m>>)
  PROVE  NetOkay(net', upset)
  <1>1. upset \in BOOLEAN
    BY DEF IInv, LinkTypes
  <1>2. (IF link[n].state = "connect" THEN <<m>> ELSE <<>>) \in Seq(Okay(Peer(n), upset))
    OBVIOUS
  <1> QED
    BY <1>1, <1>2, SendOkay DEF IfLinked

\* A user of n comes or goes.
LEMMA ComesOrGoes ==
  ASSUME NEW n \in Nodes, IInv, NetOkay(net', upset),
         UNCHANGED link, UNCHANGED routed, UNCHANGED upset,
         NEW u \in SUBSET Nodes, usr' = [usr EXCEPT ![n] = u],
         on' \subseteq Nodes, on' \ {n} = on \ {n},
         Peer(n) \in u => Peer(n) \in usr[n],
         n \in u <=> n \in on'
  PROVE  IInv'
  <1>1. Fits(n, link[n].state, routed[n], usr[n], n \in on, upset) /\ LinkFns
    BY Here
  <1>2. Fits(n, link[n].state, routed[n], u, n \in on', upset)
    BY <1>1 DEF Fits
  <1>3. /\ LinkFns' /\ usr'[n] = u
        /\ \A k \in Nodes \ {n} : /\ link'[k].state = link[k].state
                                 /\ routed'[k] = routed[k]
                                 /\ usr'[k] = usr[k]
    BY <1>1 DEF LinkFns
  <1>4. Fits(n, link'[n].state, routed'[n], usr'[n], n \in on', upset')
    BY <1>2, <1>3
  <1>5. NetOkay(net', upset') /\ (upset => upset')
    OBVIOUS
  <1> QED
    BY <1>3, <1>4, <1>5, StepAt

LEMMA LoginFits ==
  ASSUME NEW n \in Nodes, IInv, Login(n)
  PROVE  IInv'
  <1>1. usr[n] \subseteq Nodes /\ on \subseteq Nodes /\ upset \in BOOLEAN
    BY Here DEF LinkFns
  <1>2. Msg("USER", n) \in Okay(Peer(n), upset)
    BY <1>1, OwnIsOkay
  <1>3. NetOkay(net', upset)
    BY <1>2, IfLinkedOkay DEF Login
  <1> DEFINE u == usr[n] \cup {n}
  <1>4. u \in SUBSET Nodes /\ (Peer(n) \in u => Peer(n) \in usr[n]) /\ n \in u
    BY <1>1, Peers
  <1>5. /\ UNCHANGED link /\ UNCHANGED routed /\ UNCHANGED upset
        /\ usr' = [usr EXCEPT ![n] = u]
        /\ on' = on \cup {n}
    BY DEF Login
  <1>6. on' \subseteq Nodes /\ on' \ {n} = on \ {n} /\ n \in on'
    BY <1>1, <1>5
  <1> HIDE DEF u
  <1> QED
    BY <1>3, <1>4, <1>5, <1>6, ComesOrGoes

LEMMA LogoutFits ==
  ASSUME NEW n \in Nodes, IInv, Logout(n)
  PROVE  IInv'
  <1>1. usr[n] \subseteq Nodes /\ on \subseteq Nodes /\ upset \in BOOLEAN
    BY Here DEF LinkFns
  <1>2. Msg("QUIT", n) \in Okay(Peer(n), upset)
    BY <1>1, OwnIsOkay
  <1>3. NetOkay(net', upset)
    BY <1>2, IfLinkedOkay DEF Logout
  <1> DEFINE u == usr[n] \ {n}
  <1>4. u \in SUBSET Nodes /\ (Peer(n) \in u => Peer(n) \in usr[n]) /\ n \notin u
    BY <1>1
  <1>5. /\ UNCHANGED link /\ UNCHANGED routed /\ UNCHANGED upset
        /\ usr' = [usr EXCEPT ![n] = u]
        /\ on' = on \ {n}
    BY DEF Logout
  <1>6. on' \subseteq Nodes /\ on' \ {n} = on \ {n}
    BY <1>1, <1>5
  <1> HIDE DEF u
  <1> QED
    BY <1>3, <1>4, <1>5, <1>6, ComesOrGoes

LEMMA ResetFits ==
  ASSUME NEW n \in Nodes, IInv, Reset(n)
  PROVE  IInv'
  <1> DEFINE u == IF routed[n] THEN usr[n] \ {Peer(n)} ELSE usr[n]
  <1>1. Fresh \in Entries /\ Fresh.state = "init" /\ "init" \in States
    BY FreshMoves DEF States
  <1>2. Fits(n, link[n].state, routed[n], usr[n], n \in on, upset) /\ LinkFns
    BY Here
  <1>3. Msg("SQUIT", n) \in Okay(Peer(n), upset)
    BY <1>2, Peers, PlainIsOkay DEF Commands, LinkFns
  <1>4. /\ link' = [link EXCEPT ![n] = Fresh]
        /\ UNCHANGED on /\ UNCHANGED upset
        /\ IfLinked(n, <<Msg("SQUIT", n)>>)
    BY DEF Reset
  <1>5. NetOkay(net', upset') /\ upset' \in BOOLEAN /\ (upset => upset')
    BY <1>2, <1>3, <1>4, IfLinkedOkay DEF LinkFns
  <1>6. CASE link[n].state = "connect"
    <2>1. routed' = [routed EXCEPT ![n] = FALSE] /\ usr' = [usr EXCEPT ![n] = u]
      BY <1>6 DEF Reset, DelRouter
    <2>2. u \in SUBSET Nodes /\ Fits(n, Fresh.state, FALSE, u, n \in on, upset')
      BY <1>1, <1>4, Unrouted
    <2> HIDE DEF u
    <2>3. FALSE \in BOOLEAN
      OBVIOUS
    <2> QED
      BY <1>1, <1>4, <1>5, <2>1, <2>2, <2>3, TableStep
  <1>7. CASE link[n].state # "connect"
    <2>1. UNCHANGED <<tables, upset>>
      BY <1>7 DEF Reset, tables
    <2>2. NetOkay(net', upset)
      BY <1>4, <1>5
    <2> QED
      BY <1>1, <1>4, <1>7, <2>1, <2>2, QuietStep
  <1> QED
    BY <1>6, <1>7

LEMMA EndsFits ==
  ASSUME NEW n \in Nodes, IInv, NEW msgs \in Seq(Okay(Peer(n), upset)), Ends(n, msgs)
  PROVE  IInv'
  <1> DEFINE e == [Fresh EXCEPT !.state = "down"]
  <1>1. e \in Entries /\ e.state = "down"
    BY FreshMoves DEF States
  <1>2. LinkFns
    BY Here
  <1>3. /\ link' = [link EXCEPT ![n] = e]
        /\ routed' = [routed EXCEPT ![n] = FALSE]
        /\ usr' = [usr EXCEPT ![n] = {}]
        /\ on' = on \ {n} /\ UNCHANGED upset /\ Send(n, msgs)
    BY DEF Ends
  <1>4. /\ upset \in BOOLEAN
        /\ link'[n].state = "down" /\ routed'[n] = FALSE /\ usr'[n] = {}
        /\ \A k \in Nodes \ {n} : /\ link'[k].state = link[k].state
                                 /\ routed'[k] = routed[k]
                                 /\ usr'[k] = usr[k]
    BY <1>1, <1>2, <1>3 DEF LinkFns
  <1>5. NetOkay(net', upset)
    BY <1>3, <1>4, SendOkay
  <1>6. Fits(n, link'[n].state, routed'[n], usr'[n], n \in on', upset')
    BY <1>3, <1>4 DEF Fits
  <1>7. LinkFns'
    BY <1>1, <1>2, <1>3 DEF LinkFns
  <1>8. on' \ {n} = on \ {n} /\ (upset => upset') /\ NetOkay(net', upset')
    BY <1>3, <1>5
  <1> QED
    BY <1>4, <1>6, <1>7, <1>8, StepAt

LEMMA ShutdownFits ==
  ASSUME NEW n \in Nodes, IInv, Shutdown(n)
  PROVE  IInv'
  <1> DEFINE users == IF n \in usr[n] THEN <<Msg("QUIT", n)>> ELSE <<>>
             server == <<Msg("SQUIT", n)>>
  <1>1. /\ Msg("QUIT", n) \in Okay(Peer(n), upset)
        /\ Msg("SQUIT", n) \in Okay(Peer(n), upset)
    BY Here, Peers, OwnIsOkay, PlainIsOkay DEF Commands, LinkFns
  <1>2. users \in Seq(Okay(Peer(n), upset)) /\ server \in Seq(Okay(Peer(n), upset))
    BY <1>1
  <1>3. Ends(n, users \o server)
    BY DEF Shutdown
  <1> HIDE DEF users, server
  <1>4. users \o server \in Seq(Okay(Peer(n), upset))
    BY <1>2, ConcatProperties
  <1> QED
    BY <1>3, <1>4, EndsFits

LEMMA BootFits ==
  ASSUME NEW n \in Nodes, IInv, Boot(n)
  PROVE  IInv'
  <1> DEFINE e == [link[n] EXCEPT !.state = "init"]
  <1>1. e \in Entries /\ e.state = "init"
    BY EntryMoves DEF States
  <1>2. link' = [link EXCEPT ![n] = e] /\ link[n].state = "down"
    BY DEF Boot, Goes
  <1>3. NetOkay(net', upset) /\ UNCHANGED <<tables, upset>>
    BY StayOkay DEF IInv, LinkTypes, Boot
  <1> HIDE DEF e
  <1> QED
    BY <1>1, <1>2, <1>3, QuietStep

\* A datagram is lost or doubled: what is left of the others is as allowed.
LEMMA PartsOkay ==
  ASSUME NEW S, NEW s \in Seq(S), NEW i \in 1..Len(s)
  PROVE  RemoveAt(s, i) \in Seq(S) /\ InsertAt(s, i, s[i]) \in Seq(S)
  <1>1. Len(s) \in Nat /\ \A j \in 1..Len(s) : s[j] \in S
    BY LenProperties, ElementOfSeq
  <1>2. SubSeq(s, 1, i - 1) \in Seq(S)
    BY <1>1, SubSeqProperties
  <1>3. SubSeq(s, i + 1, Len(s)) \in Seq(S)
    BY <1>1, SubSeqProperties
  <1>4. SubSeq(s, i, Len(s)) \in Seq(S)
    BY <1>1, SubSeqProperties
  <1>5. <<s[i]>> \in Seq(S)
    BY <1>1
  <1>6. SubSeq(s, 1, i - 1) \o <<s[i]>> \in Seq(S)
    BY <1>2, <1>5, ConcatProperties
  <1>7. RemoveAt(s, i) \in Seq(S)
    BY <1>2, <1>3, ConcatProperties DEF RemoveAt
  <1>8. InsertAt(s, i, s[i]) \in Seq(S)
    BY <1>4, <1>6, ConcatProperties DEF InsertAt
  <1> QED
    BY <1>7, <1>8

\* A datagram overtakes another.
LEMMA SwapOkay ==
  ASSUME NEW S, NEW s \in Seq(S), NEW i \in 1..Len(s), i > 1
  PROVE  [s EXCEPT ![i - 1] = s[i], ![i] = s[i - 1]] \in Seq(S)
  <1>1. Len(s) \in Nat /\ i - 1 \in 1..Len(s) /\ s[i] \in S /\ s[i - 1] \in S
    BY LenProperties, ElementOfSeq
  <1> DEFINE t == [s EXCEPT ![i - 1] = s[i]]
  <1>2. t \in Seq(S) /\ Len(t) = Len(s)
    BY <1>1, ExceptSeq
  <1>3. [s EXCEPT ![i - 1] = s[i], ![i] = s[i - 1]] = [t EXCEPT ![i] = s[i - 1]]
    OBVIOUS
  <1> HIDE DEF t
  <1>4. [t EXCEPT ![i] = s[i - 1]] \in Seq(S)
    BY <1>1, <1>2, ExceptSeq
  <1> QED
    BY <1>3, <1>4

LEMMA DamageFits ==
  ASSUME NEW n \in Nodes, IInv, Damage(n)
  PROVE  IInv'
  <1> DEFINE S == Okay(n, upset)
  <1>1. PICK i \in 1..Len(net[n]) :
            \/ net' = [net EXCEPT ![n] = RemoveAt(net[n], i)]
            \/ net' = [net EXCEPT ![n] = InsertAt(net[n], i, net[n][i])]
            \/ /\ i > 1
               /\ net' = [net EXCEPT ![n][i - 1] = net[n][i], ![n][i] = net[n][i - 1]]
    BY DEF Damage
  <1>2. net[n] \in Seq(S) /\ NetOkay(net, upset) /\ upset \in BOOLEAN
    BY StayOkay DEF IInv, NewsOfSender, LinkTypes
  <1>3. LinkFns /\ link[n] \in Entries
    BY Here
  <1>4. \E s \in Seq(S) : net' = [net EXCEPT ![n] = s]
    <2>1. CASE net' = [net EXCEPT ![n] = RemoveAt(net[n], i)]
      BY <1>2, <2>1, PartsOkay
    <2>2. CASE net' = [net EXCEPT ![n] = InsertAt(net[n], i, net[n][i])]
      BY <1>2, <2>2, PartsOkay
    <2>3. CASE /\ i > 1
               /\ net' = [net EXCEPT ![n][i - 1] = net[n][i], ![n][i] = net[n][i - 1]]
      <3> DEFINE t == [net[n] EXCEPT ![i - 1] = net[n][i], ![i] = net[n][i - 1]]
      <3>1. t \in Seq(S)
        BY <1>2, <2>3, SwapOkay
      <3>2. net' = [net EXCEPT ![n] = t]
        BY <1>2, <2>3 DEF NetOkay
      <3> QED
        BY <3>1, <3>2
    <2> QED
      BY <1>1, <2>1, <2>2, <2>3
  <1>5. NetOkay(net', upset)
    <2>1. PICK s \in Seq(Okay(n, upset)) : net' = [net EXCEPT ![n] = s]
      BY <1>4
    <2> QED
      BY <1>2, <2>1, ReplacedOkay
  <1>6. UNCHANGED <<tables, upset>> /\ link' = [link EXCEPT ![n] = link[n]]
    BY <1>3 DEF Damage, LinkFns
  <1> QED
    BY <1>3, <1>5, <1>6, QuietStep

-----------------------------------------------------------------------------
(* The theorems *)

LEMMA InitFits == Init => IInv
  <1> SUFFICES ASSUME Init PROVE IInv
    OBVIOUS
  <1>1. Fresh \in Entries /\ Fresh.state = "init"
    BY LinkAssumption DEF Fresh, Entries, States
  <1>2. LinkTypes
    <2>1. <<>> \in Seq(Msgs)
      OBVIOUS
    <2> QED
      BY <1>1, <2>1 DEF Init, LinkTypes
  <1>21. NewsOfSender
    BY NothingOkay DEF Init, NewsOfSender
  <1>3. TablesFit
    BY <1>1 DEF Init, TablesFit, Fits
  <1> QED
    BY <1>2, <1>21, <1>3 DEF IInv

LEMMA StepFits == IInv /\ [Next]_vars => IInv'
  <1> SUFFICES ASSUME IInv, [Next]_vars PROVE IInv'
    OBVIOUS
  <1>1. CASE Next
    <2>1. PICK n \in Nodes : \/ Timers(n) \/ Receive(n) \/ Login(n) \/ Logout(n)
                            \/ Reset(n) \/ Killed(n) \/ Shutdown(n) \/ Boot(n) \/ Damage(n)
      BY <1>1 DEF Next
    <2>2. ASSUME Killed(n) PROVE IInv'
      BY <2>2, NothingOkay, EndsFits DEF Killed
    <2> QED
      BY <2>1, <2>2, TimersFit, ReceiveFits, LoginFits, LogoutFits, ResetFits,
         ShutdownFits, BootFits, DamageFits
  <1>2. CASE UNCHANGED vars
    BY <1>2 DEF vars, IInv, LinkTypes, NewsOfSender, TablesFit
  <1> QED
    BY <1>1, <1>2

\* Types, the news that may travel, and what fits the state of each link hold
\* at all times, whatever is lost, doubled, overtaken or killed.
THEOREM LinkInvariant == Spec => []IInv
  BY InitFits, StepFits, PTL DEF Spec

\* The bounds and the histories are of their types.
Bounds == /\ faults \in 0..MaxFaults /\ logins \in 0..MaxLogins
          /\ spoilt \in BOOLEAN /\ stale \in BOOLEAN

LEMMA BoundsStay == Bounds /\ [Next]_vars => Bounds'
  <1> SUFFICES ASSUME Bounds, [Next]_vars PROVE Bounds'
    OBVIOUS
  <1> DEFINE Counted == faults' = faults \/ (faults < MaxFaults /\ faults' = faults + 1)
  <1>1. ASSUME Counted, UNCHANGED <<logins, spoilt>>, stale' \in BOOLEAN PROVE Bounds'
    BY <1>1, LinkAssumption DEF Bounds
  <1>2. CASE UNCHANGED vars
    BY <1>1, <1>2 DEF vars, Bounds
  <1>3. ASSUME NEW n \in Nodes, Timers(n)
        PROVE  Counted /\ UNCHANGED <<logins, spoilt>> /\ stale' \in BOOLEAN
    BY <1>3 DEF Timers, Setup, PlaceCall, GiveUp, DieOfCalls, DieOfSilence,
       Dies, Ping, Again, Expected, Unexpected, Bounds
  <1>4. ASSUME NEW n \in Nodes, Receive(n)
        PROVE  Counted /\ UNCHANGED <<logins, spoilt>> /\ stale' \in BOOLEAN
    BY <1>4 DEF Receive, Dropped, Pinged, Ponged, Error, Pass, Answered,
       Collides, Accepts, Ignores, Squit, User, Quit, Connects, Bounds
  <1>5. ASSUME NEW n \in Nodes,
               Logout(n) \/ Reset(n) \/ Killed(n) \/ Shutdown(n) \/ Boot(n)
        PROVE  Counted /\ UNCHANGED <<logins, spoilt>> /\ stale' \in BOOLEAN
    BY <1>5 DEF Logout, Reset, Killed, Shutdown, Ends, Boot, Unexpected, Bounds
  <1>6. ASSUME NEW n \in Nodes, Login(n) PROVE Bounds'
    BY <1>6, LinkAssumption DEF Login, Bounds
  <1>7. ASSUME NEW n \in Nodes, Damage(n) PROVE Bounds'
    <2>1. Counted /\ UNCHANGED logins
      BY <1>7 DEF Damage, Unexpected
    <2>2. spoilt' \in BOOLEAN /\ stale' \in BOOLEAN
      BY <1>7 DEF Damage, Bounds
    <2> QED
      BY <2>1, <2>2, LinkAssumption DEF Bounds
  <1> HIDE DEF Counted
  <1> QED
    BY <1>1, <1>2, <1>3, <1>4, <1>5, <1>6, <1>7 DEF Next

LEMMA BoundsHold == Spec => []Bounds
  <1>1. Init => Bounds
    <2> SUFFICES ASSUME Init PROVE Bounds
      OBVIOUS
    <2>1. faults = 0 /\ logins = 0 /\ MaxFaults \in Nat /\ MaxLogins \in Nat
      BY LinkAssumption DEF Init
    <2>2. spoilt \in BOOLEAN /\ stale \in BOOLEAN
      BY DEF Init
    <2>3. faults \in 0..MaxFaults /\ logins \in 0..MaxLogins
      BY <2>1
    <2> QED
      BY <2>2, <2>3 DEF Bounds
  <1> QED
    BY <1>1, BoundsStay, PTL DEF Spec

\* The calls that may link the two are calls.
OpenCalls == open \in [Nodes -> SUBSET Tokens]

LEMMA ConnectsOpen ==
  ASSUME NEW n \in Nodes, OpenCalls, NEW answer, NEW call \in SUBSET Tokens,
         Connects(n, answer, call)
  PROVE  OpenCalls'
  BY DEF Connects, OpenCalls

LEMMA OpenStays == IInv /\ OpenCalls /\ [Next]_vars => OpenCalls'
  <1> SUFFICES ASSUME IInv, OpenCalls, [Next]_vars PROVE OpenCalls'
    OBVIOUS
  <1>1. ASSUME UNCHANGED open PROVE OpenCalls'
    BY <1>1 DEF OpenCalls
  <1>2. ASSUME NEW n \in Nodes, Forget(n) PROVE OpenCalls'
    BY <1>2 DEF OpenCalls, Forget
  <1>3. ASSUME NEW n \in Nodes, PlaceCall(n) PROVE OpenCalls'
    <2>1. NewToken \in Tokens
      BY <1>3, TokenIsOne DEF PlaceCall
    <2> QED
      BY <1>3, <2>1 DEF PlaceCall, OpenCalls
  <1>4. ASSUME NEW n \in Nodes, GiveUp(n) PROVE OpenCalls'
    BY <1>4 DEF GiveUp, OpenCalls
  <1>5. ASSUME NEW n \in Nodes, Answered(n) PROVE OpenCalls'
    BY <1>5, ConnectsOpen DEF Answered
  <1>6. ASSUME NEW n \in Nodes, Accepts(n) PROVE OpenCalls'
    <2>1. Head(net[n]).arg \in Tokens
      BY <1>6, HeadOkay DEF Accepts, Takes, Okay
    <2> QED
      BY <1>6, <2>1, ConnectsOpen DEF Accepts
  <1>7. ASSUME NEW n \in Nodes, Timers(n) PROVE OpenCalls'
    BY <1>1, <1>2, <1>3, <1>4, <1>7
       DEF Timers, Setup, DieOfCalls, DieOfSilence, Dies, Ping, Again
  <1>8. ASSUME NEW n \in Nodes, Receive(n) PROVE OpenCalls'
    BY <1>1, <1>2, <1>5, <1>6, <1>8
       DEF Receive, Dropped, Pinged, Ponged, Error, Pass, Collides, Ignores, Squit, User, Quit
  <1>9. ASSUME NEW n \in Nodes, \/ Login(n) \/ Logout(n) \/ Reset(n) \/ Killed(n)
                                 \/ Shutdown(n) \/ Boot(n) \/ Damage(n)
        PROVE  OpenCalls'
    BY <1>1, <1>2, <1>9 DEF Login, Logout, Reset, Killed, Shutdown, Ends, Boot, Damage
  <1> QED
    BY <1>1, <1>7, <1>8, <1>9 DEF Next, vars

LEMMA OpenHolds == Spec => []OpenCalls
  <1>1. Init => OpenCalls
    BY DEF Init, OpenCalls
  <1> QED
    BY <1>1, OpenStays, LinkInvariant, PTL DEF Spec

\* A connected server has a socket unless it was connected without one, and while
\* nothing has gone wrong every server that has left its first state has one.
Wired == /\ socket \subseteq Nodes
         /\ ~stale => \A n \in Nodes : link[n].state = "connect" => n \in socket
         /\ faults = 0 => \A n \in Nodes : link[n].state # "init" => n \in socket

LEMMA WiredStays == IInv /\ Bounds /\ Wired /\ [Next]_vars => Wired'
  <1> SUFFICES ASSUME IInv, Bounds, Wired, [Next]_vars PROVE Wired'
    OBVIOUS
  <1>1. CASE UNCHANGED vars
    BY <1>1 DEF vars, Wired
  <1>2. link \in [Nodes -> Entries] /\ faults \in Nat /\ stale \in BOOLEAN
    BY DEF IInv, LinkTypes, Bounds
  <1>3. ASSUME UNCHANGED <<socket, stale>>, faults' = faults \/ faults' = faults + 1,
               \A k \in Nodes : /\ link'[k].state = "connect" => link[k].state = "connect"
                                /\ link[k].state = "init" =>
                                       link'[k].state = "init" \/ faults' # 0
        PROVE  Wired'
    BY <1>2, <1>3 DEF Wired
  <1>4. ASSUME NEW n \in Nodes, NEW e, link' = [link EXCEPT ![n] = e]
        PROVE  link'[n] = e /\ \A k \in Nodes \ {n} : link'[k] = link[k]
    BY <1>2, <1>4
  <1>5. ASSUME NEW n \in Nodes, NEW e, link' = [link EXCEPT ![n] = e],
               UNCHANGED <<socket, stale>>, faults' = faults \/ faults' = faults + 1,
               e.state = "connect" => link[n].state = "connect",
               link[n].state = "init" => e.state = "init"
        PROVE  Wired'
    BY <1>3, <1>4, <1>5
  <1>6. ASSUME NEW n \in Nodes, Timers(n) PROVE Wired'
    <2>1. CASE Setup(n)
      <3>1. PICK s \in {"call", "fail"} :
                /\ link' = [link EXCEPT ![n] = [link[n] EXCEPT !.state = s]]
                /\ UNCHANGED stale
                /\ \/ faults' = faults /\ socket' = socket \cup {n}
                   \/ faults' = faults + 1 /\ UNCHANGED socket
        BY <2>1 DEF Setup, Goes, Expected, Unexpected
      <3>2. /\ link'[n].state = s
            /\ \A k \in Nodes \ {n} : link'[k] = link[k]
        BY <1>2, <3>1, EntryMoves DEF States
      <3> QED
        BY <1>2, <3>1, <3>2 DEF Wired
    <2>2. CASE PlaceCall(n)
      <3> DEFINE e == [link[n] EXCEPT !.state = "waitpwd", !.token = NewToken, !.behind = FALSE]
      <3>1. e.state = "waitpwd"
        BY <1>2 DEF Entries
      <3>2. /\ link' = [link EXCEPT ![n] = e] /\ link[n].state = "call"
            /\ UNCHANGED <<socket, stale>> /\ (faults' = faults \/ faults' = faults + 1)
        BY <2>2 DEF PlaceCall, Expected, Unexpected
      <3> HIDE DEF e
      <3> QED
        BY <1>5, <3>1, <3>2
    <2>3. CASE GiveUp(n)
      <3>1. \A k \in Nodes : /\ link'[k].state = "connect" => link[k].state = "connect"
                             /\ link[k].state = "init" => link'[k].state = "init"
        BY <1>2, <2>3, Peers DEF GiveUp, Entries
      <3> QED
        BY <1>3, <2>3, <3>1 DEF GiveUp, Expected, Unexpected
    <2>4. CASE DieOfCalls(n) \/ DieOfSilence(n)
      <3>1. /\ link' = [link EXCEPT ![n] = [Fresh EXCEPT !.state = "dead", !.quiet = link[n].quiet]]
            /\ UNCHANGED <<socket, stale, faults>> /\ link[n].state = "connect"
        BY <2>4 DEF DieOfCalls, DieOfSilence, Dies, Cut
      <3>2. [Fresh EXCEPT !.state = "dead", !.quiet = link[n].quiet].state = "dead"
        BY FreshMoves DEF States
      <3> QED
        BY <1>5, <3>1, <3>2
    <2>5. CASE Ping(n)
      <3>1. [link[n] EXCEPT !.quiet = @ + 1].state = link[n].state
        BY <1>2 DEF Entries
      <3>2. /\ link' = [link EXCEPT ![n] = [link[n] EXCEPT !.quiet = @ + 1]]
            /\ UNCHANGED <<socket, stale>> /\ (faults' = faults \/ faults' = faults + 1)
        BY <2>5 DEF Ping, Expected, Unexpected
      <3> QED
        BY <1>5, <3>1, <3>2
    <2>6. CASE Again(n)
      <3>1. PICK s \in {"call", "init"} :
                /\ link' = [link EXCEPT ![n] = [link[n] EXCEPT !.state = s]]
                /\ link[n].state # "init"
        BY <2>6 DEF Again, Goes
      <3>2. [link[n] EXCEPT !.state = s].state = s
        BY EntryMoves DEF States
      <3> QED
        BY <1>5, <2>6, <3>1, <3>2 DEF Again
    <2> QED
      BY <1>6, <2>1, <2>2, <2>3, <2>4, <2>5, <2>6 DEF Timers
  <1>7. ASSUME NEW n \in Nodes, Receive(n) PROVE Wired'
    <2>1. CASE Dropped(n)
      BY <1>3, <2>1 DEF Dropped
    <2>2. CASE \/ Pinged(n) \/ Ponged(n) \/ Error(n) \/ Pass(n) \/ Ignores(n) \/ User(n) \/ Quit(n)
      <3>1. Heard(n) \in Entries /\ Heard(n).state = link[n].state
        BY EntryMoves DEF States
      <3>2. PICK e : /\ link' = [link EXCEPT ![n] = e] /\ e.state = link[n].state
                     /\ UNCHANGED <<socket, stale, faults>>
        <4> DEFINE b == [Heard(n) EXCEPT !.half = 0]
                   c == [Heard(n) EXCEPT !.gotpass = FALSE, !.half = @ + 1]
                   g == [Heard(n) EXCEPT !.gotpass = TRUE]
        <4>1. b.state = link[n].state /\ c.state = link[n].state /\ g.state = link[n].state
          BY <3>1 DEF Entries
        <4>2. /\ UNCHANGED <<socket, stale, faults>>
              /\ \/ link' = [link EXCEPT ![n] = Heard(n)] \/ link' = [link EXCEPT ![n] = b]
                 \/ link' = [link EXCEPT ![n] = c] \/ link' = [link EXCEPT ![n] = g]
          BY <2>2 DEF Pinged, Ponged, Error, Pass, Ignores, User, Quit
        <4> HIDE DEF b, c, g
        <4> QED
          BY <3>1, <4>1, <4>2
      <3> QED
        BY <1>5, <3>2
    <2>3. CASE Collides(n)
      <3>1. [Heard(n) EXCEPT !.state = "waitpwd"].state = "waitpwd"
        BY EntryMoves DEF States
      <3> QED
        BY <1>5, <2>3, <3>1 DEF Collides, Takes
    <2>4. CASE Squit(n)
      <3>1. [Fresh EXCEPT !.state = "hangup", !.half = link[n].half].state = "hangup"
        BY FreshMoves DEF States
      <3> QED
        BY <1>5, <2>4, <3>1 DEF Squit, Takes
    <2>5. CASE Answered(n) \/ Accepts(n)
      <3>1. /\ link' = [link EXCEPT ![n] = [Heard(n) EXCEPT !.state = "connect"]]
            /\ UNCHANGED <<socket, faults>> /\ link[n].state # "init"
            /\ stale \/ n \notin socket => stale'
        BY <1>2, <2>5 DEF Answered, Accepts, Connects, Takes
      <3>2. \A k \in Nodes \ {n} : link'[k] = link[k]
        BY <1>2, <3>1
      <3> QED
        BY <1>2, <3>1, <3>2 DEF Wired
    <2> QED
      BY <1>7, <2>1, <2>2, <2>3, <2>4, <2>5 DEF Receive
  <1>8. ASSUME NEW n \in Nodes, Login(n) \/ Logout(n) PROVE Wired'
    BY <1>3, <1>8 DEF Login, Logout
  <1>9. ASSUME NEW n \in Nodes, Reset(n) \/ Killed(n) \/ Shutdown(n) PROVE Wired'
    <2>1. PICK e \in {Fresh, [Fresh EXCEPT !.state = "down"]} :
              /\ link' = [link EXCEPT ![n] = e] /\ faults' = faults + 1
              /\ UNCHANGED stale /\ socket' = socket \ {n}
      BY <1>9 DEF Reset, Killed, Shutdown, Ends, Unexpected
    <2>2. e.state # "connect"
      BY FreshMoves DEF States
    <2>3. link'[n] = e /\ \A k \in Nodes \ {n} : link'[k] = link[k]
      BY <1>4, <2>1
    <2> QED
      BY <1>2, <2>1, <2>2, <2>3 DEF Wired
  <1>10. ASSUME NEW n \in Nodes, Boot(n) PROVE Wired'
    <2>1. [link[n] EXCEPT !.state = "init"].state = "init"
      BY EntryMoves DEF States
    <2> QED
      BY <1>5, <1>10, <2>1 DEF Boot, Goes
  <1>11. ASSUME NEW n \in Nodes, Damage(n) PROVE Wired'
    BY <1>3, <1>11 DEF Damage, Unexpected
  <1> QED
    BY <1>1, <1>6, <1>7, <1>8, <1>9, <1>10, <1>11 DEF Next

LEMMA WiredHolds == Spec => []Wired
  <1>1. Init => Wired
    BY DEF Init, Wired, Fresh
  <1> QED
    BY <1>1, WiredStays, LinkInvariant, BoundsHold, PTL DEF Spec

\* The types, and that the tables of servers and users follow the state of
\* the link (check_servers, command_server, command_squit, del_router).
THEOREM InvHolds == Spec => []Inv
  <1>1. IInv => TablesFollowLink
    BY DEF IInv, TablesFit, Fits, TablesFollowLink
  <1>2. IInv /\ Bounds /\ OpenCalls /\ Wired => TypeOK
    <2> SUFFICES ASSUME IInv, Bounds, OpenCalls, Wired PROVE TypeOK
      OBVIOUS
    <2>1. \A n \in Nodes : \A m \in ToSet(net[n]) :
              m.cmd \in Commands /\ m.arg \in Nodes \cup Tokens \cup {0}
      <3> TAKE n \in Nodes
      <3> TAKE m \in ToSet(net[n])
      <3>1. net[n] \in Seq(Msgs)
        BY DEF IInv, LinkTypes
      <3>2. PICK i \in DOMAIN net[n] : m = net[n][i]
        BY DEF ToSet
      <3>3. m \in Msgs
        BY <3>1, <3>2, LenProperties, ElementOfSeq
      <3> QED
        BY <3>3 DEF Msgs
    <2>2. link \in [Nodes -> [state : States, token : Tokens \cup {0}, gotpass : BOOLEAN,
                              half : Nat, quiet : 0..Pings, behind : BOOLEAN]]
      BY DEF IInv, LinkTypes, Entries
    <2>3. /\ routed \in [Nodes -> BOOLEAN] /\ usr \in [Nodes -> SUBSET Nodes]
          /\ on \subseteq Nodes /\ upset \in BOOLEAN
      BY DEF IInv, LinkTypes
    <2> QED
      BY <2>1, <2>2, <2>3 DEF TypeOK, Bounds, OpenCalls, Wired
  <1> QED
    BY <1>1, <1>2, BoundsHold, OpenHolds, WiredHolds, LinkInvariant, PTL DEF Inv

\* No server lists a user of its own who has gone, unless a call came to one
\* that was connected by a call of its own (command_user, add_user).
THEOREM NoGhostsHolds == Spec => []NoGhosts
  <1>1. IInv => NoGhosts
    BY DEF IInv, TablesFit, Fits, NoGhosts
  <1> QED
    BY <1>1, LinkInvariant, PTL

-----------------------------------------------------------------------------
(* Calm: the link while nothing has gone wrong *)

Chatter == {"USER", "QUIT", "PING", "PONG"}
\* Messages of a connected server only
Plain(s) == \A i \in 1..Len(s) : s[i].cmd \in Chatter
\* A call or an answer with this token, or what is left of it, and chatter
Asks(s, token) ==
    \E k \in {1, 2} : /\ k <= Len(s)
                      /\ k = 2 => s[1].cmd = "PASS"
                      /\ s[k].cmd = "SERVER" /\ s[k].arg = token
                      /\ \A i \in (k + 1)..Len(s) : s[i].cmd \in Chatter
Has(s, cmd) == \E i \in 1..Len(s) : s[i].cmd = cmd

\* A call with this token, and what is left of it
Calls(token) == {<<Msg("PASS", 0), Msg("SERVER", token)>>, <<Msg("SERVER", token)>>, <<>>}

\* A server's entry e while nothing has gone wrong, with the entry f of its
\* peer, what it has sent and what it has yet to read.  A server that waits for
\* an answer has a call on its way, or the peer has read it, and if the peer is
\* connected the answer is on its way.
Calm(e, f, out, in) ==
    /\ e.half = 0 /\ e.state \in {"init", "call", "waitpwd", "connect"}
    /\ e.state \in {"init", "call"} => e.token = 0 /\ out = <<>> /\ f.state # "connect"
    /\ e.state = "waitpwd" =>
           /\ e.token # 0 /\ f.token # e.token
           /\ f.state # "connect" => out \in Calls(e.token)
           /\ f.state = "connect" => Plain(out) /\ Asks(in, e.token)
    /\ e.state = "connect" /\ f.state = "connect" => Plain(out)
    /\ e.quiet # 0 => /\ e.state = "connect" /\ f.state = "connect"
                      /\ Has(out, "PING") \/ Has(in, "PONG")
CalmAt(n) == Calm(link[n], link[Peer(n)], net[Peer(n)], net[n])
AllCalm == faults = 0 => \A n \in Nodes : CalmAt(n)

LEMMA PlainGrows ==
  ASSUME NEW s \in Seq(Msgs), NEW m \in Seq(Msgs), Plain(s), Plain(m)
  PROVE  Plain(s \o m)
  BY ConcatProperties DEF Plain

LEMMA AsksGrows ==
  ASSUME NEW s \in Seq(Msgs), NEW m \in Seq(Msgs), NEW token, Asks(s, token), Plain(m)
  PROVE  Asks(s \o m, token)
  <1>1. PICK k \in {1, 2} : /\ k <= Len(s)
                            /\ k = 2 => s[1].cmd = "PASS"
                            /\ s[k].cmd = "SERVER" /\ s[k].arg = token
                            /\ \A i \in (k + 1)..Len(s) : s[i].cmd \in Chatter
    BY DEF Asks
  <1>2. /\ Len(s \o m) = Len(s) + Len(m) /\ Len(s) \in Nat /\ Len(m) \in Nat
        /\ \A i \in 1..(Len(s) + Len(m)) :
               (s \o m)[i] = IF i <= Len(s) THEN s[i] ELSE m[i - Len(s)]
    BY ConcatProperties, LenProperties
  <1>3. \A i \in 1..Len(m) : m[i].cmd \in Chatter
    BY DEF Plain
  <1>4. /\ k <= Len(s \o m) /\ (k = 2 => (s \o m)[1].cmd = "PASS")
        /\ (s \o m)[k].cmd = "SERVER" /\ (s \o m)[k].arg = token
    BY <1>1, <1>2
  <1>5. \A i \in (k + 1)..Len(s \o m) : (s \o m)[i].cmd \in Chatter
    BY <1>1, <1>2, <1>3
  <1> QED
    BY <1>4, <1>5 DEF Asks

LEMMA HasGrows ==
  ASSUME NEW s \in Seq(Msgs), NEW m \in Seq(Msgs), NEW cmd, Has(s, cmd) \/ Has(m, cmd)
  PROVE  Has(s \o m, cmd)
  <1>2. /\ Len(s \o m) = Len(s) + Len(m) /\ Len(s) \in Nat /\ Len(m) \in Nat
        /\ \A i \in 1..(Len(s) + Len(m)) :
               (s \o m)[i] = IF i <= Len(s) THEN s[i] ELSE m[i - Len(s)]
    BY ConcatProperties, LenProperties
  <1>3. CASE Has(s, cmd)
    BY <1>2, <1>3 DEF Has
  <1>4. CASE Has(m, cmd)
    <2>1. PICK i \in 1..Len(m) : m[i].cmd = cmd
      BY <1>4 DEF Has
    <2>2. Len(s) + i \in 1..(Len(s) + Len(m)) /\ (s \o m)[Len(s) + i] = m[i]
      BY <1>2, <2>1
    <2> QED
      BY <1>2, <2>1, <2>2 DEF Has
  <1> QED
    BY <1>3, <1>4

\* What is left when the first message has been read.
LEMMA Taken ==
  ASSUME NEW s \in Seq(Msgs), s # <<>>
  PROVE  /\ Tail(s) \in Seq(Msgs) /\ Len(s) \in Nat \ {0}
         /\ Plain(s) => Head(s).cmd \in Chatter /\ Plain(Tail(s))
         /\ \A token : Asks(s, token) =>
                \/ Head(s).cmd = "PASS" /\ Asks(Tail(s), token)
                \/ Head(s).cmd = "SERVER" /\ Head(s).arg = token /\ Plain(Tail(s))
         /\ \A cmd : Has(s, cmd) => Head(s).cmd = cmd \/ Has(Tail(s), cmd)
  <1>1. /\ Tail(s) \in Seq(Msgs) /\ Len(s) \in Nat \ {0}
        /\ Len(Tail(s)) = Len(s) - 1 /\ Head(s) = s[1]
        /\ \A i \in 1..(Len(s) - 1) : Tail(s)[i] = s[i + 1]
    BY HeadTailProperties, EmptySeq, LenProperties
  <1>2. ASSUME Plain(s) PROVE Head(s).cmd \in Chatter /\ Plain(Tail(s))
    BY <1>1, <1>2 DEF Plain
  <1>3. ASSUME NEW token, Asks(s, token)
        PROVE  \/ Head(s).cmd = "PASS" /\ Asks(Tail(s), token)
               \/ Head(s).cmd = "SERVER" /\ Head(s).arg = token /\ Plain(Tail(s))
    <2>1. PICK k \in {1, 2} : /\ k <= Len(s)
                              /\ k = 2 => s[1].cmd = "PASS"
                              /\ s[k].cmd = "SERVER" /\ s[k].arg = token
                              /\ \A i \in (k + 1)..Len(s) : s[i].cmd \in Chatter
      BY <1>3 DEF Asks
    <2>2. CASE k = 1
      BY <1>1, <2>1, <2>2 DEF Plain
    <2>3. CASE k = 2
      <3>1. \A i \in 2..Len(Tail(s)) : Tail(s)[i].cmd \in Chatter
        BY <1>1, <2>1, <2>3
      <3>2. /\ 1 <= Len(Tail(s)) /\ Tail(s)[1].cmd = "SERVER" /\ Tail(s)[1].arg = token
            /\ s[1].cmd = "PASS"
        BY <1>1, <2>1, <2>3
      <3>3. Asks(Tail(s), token)
        BY <3>1, <3>2 DEF Asks
      <3> QED
        BY <1>1, <3>2, <3>3
    <2> QED
      BY <2>1, <2>2, <2>3
  <1>4. ASSUME NEW cmd, Has(s, cmd)
        PROVE  Head(s).cmd = cmd \/ Has(Tail(s), cmd)
    <2>1. PICK i \in 1..Len(s) : s[i].cmd = cmd
      BY <1>4 DEF Has
    <2>2. CASE i = 1
      BY <1>1, <2>1, <2>2
    <2>3. CASE i # 1
      <3>1. i - 1 \in 1..Len(Tail(s)) /\ Tail(s)[i - 1] = s[i]
        BY <1>1, <2>1, <2>3
      <3> QED
        BY <2>1, <3>1 DEF Has
    <2> QED
      BY <2>2, <2>3
  <1> QED
    BY <1>1, <1>2, <1>3, <1>4

LEMMA NothingThere ==
  /\ <<>> \in Seq(Msgs) /\ Plain(<<>>)
  /\ \A token : ~Asks(<<>>, token)
  /\ \A cmd : ~Has(<<>>, cmd)
  BY DEF Plain, Asks, Has

\* The peer's view of the same two entries.
Both(e, f, out, in) == Calm(e, f, out, in) /\ Calm(f, e, in, out)

LEMMA CalmTypes ==
  ASSUME NEW n \in Nodes, IInv, AllCalm, faults = 0
  PROVE  /\ Peer(n) \in Nodes /\ Peer(n) # n
         /\ Both(link[n], link[Peer(n)], net[Peer(n)], net[n])
         /\ link[n] \in Entries /\ link[Peer(n)] \in Entries
         /\ net[n] \in Seq(Msgs) /\ net[Peer(n)] \in Seq(Msgs)
  BY Peers DEF AllCalm, CalmAt, Both, IInv, LinkTypes

LEMMA CalmPair ==
  ASSUME NEW n \in Nodes, Both(link'[n], link'[Peer(n)], net'[Peer(n)], net'[n])
  PROVE  AllCalm'
  <1>1. ASSUME NEW k \in Nodes
        PROVE  Calm(link'[k], link'[Peer(k)], net'[Peer(k)], net'[k])
    BY Peers DEF Both
  <1> QED
    BY <1>1 DEF AllCalm, CalmAt, Calm, Peer, Calls, Asks, Plain, Has, Msg,
       Chatter

\* What a server may have to read.
LEMMA Reads ==
  ASSUME NEW e \in Entries, NEW f \in Entries, NEW out \in Seq(Msgs), NEW in \in Seq(Msgs),
         Both(e, f, out, in), in # <<>>
  PROVE  \/ /\ Head(in).cmd \in Chatter /\ Plain(Tail(in))
            /\ e.state = "connect" /\ f.state \in {"waitpwd", "connect"}
         \/ /\ Head(in).cmd = "PASS"
            /\ e.state \in {"init", "call", "waitpwd"} /\ f.state = "waitpwd"
            /\ Tail(in) \in Calls(f.token)
         \/ /\ Head(in).cmd = "PASS" /\ Asks(Tail(in), e.token)
            /\ e.state = "waitpwd" /\ f.state = "connect"
         \/ /\ Head(in).cmd = "SERVER" /\ Head(in).arg = f.token /\ Tail(in) = <<>>
            /\ e.state \in {"init", "call", "waitpwd"} /\ f.state = "waitpwd"
         \/ /\ Head(in).cmd = "SERVER" /\ Head(in).arg = e.token /\ Plain(Tail(in))
            /\ e.state = "waitpwd" /\ f.state = "connect"
  <1>1. CASE e.state = "connect"
    <2>1. f.state \in {"waitpwd", "connect"} /\ Plain(in)
      BY <1>1 DEF Both, Calm
    <2> QED
      BY <1>1, <2>1, Taken
  <1>2. CASE e.state = "waitpwd" /\ f.state = "connect"
    <2>1. Asks(in, e.token)
      BY <1>2 DEF Both, Calm
    <2> QED
      BY <1>2, <2>1, Taken
  <1>3. CASE e.state \in {"init", "call", "waitpwd"} /\ f.state # "connect"
    <2>1. f.state = "waitpwd" /\ in \in Calls(f.token)
      BY <1>3 DEF Both, Calm
    <2>2. CASE in = <<Msg("PASS", 0), Msg("SERVER", f.token)>>
      <3>1. Head(in) = Msg("PASS", 0) /\ Tail(in) = <<Msg("SERVER", f.token)>>
        BY <2>2
      <3> QED
        BY <1>3, <2>1, <3>1 DEF Calls, Msg
    <2>3. CASE in = <<Msg("SERVER", f.token)>>
      <3>1. Head(in) = Msg("SERVER", f.token) /\ Tail(in) = <<>>
        BY <2>3
      <3> QED
        BY <1>3, <2>1, <3>1 DEF Msg
    <2> QED
      BY <2>1, <2>2, <2>3 DEF Calls
  <1>4. /\ e.state \in {"init", "call", "waitpwd", "connect"}
        /\ e.state \in {"init", "call"} => f.state # "connect"
    BY DEF Both, Calm
  <1> QED
    BY <1>1, <1>2, <1>3, <1>4

LEMMA Answers ==
  ASSUME NEW n \in Nodes, IInv, NEW msgs, Answer(n, msgs)
  PROVE  /\ net'[n] = Tail(net[n]) /\ net'[Peer(n)] = net[Peer(n)] \o Sent(n, msgs)
         /\ msgs = <<>> \/ n \in socket => net'[Peer(n)] = net[Peer(n)] \o msgs
  BY Peers DEF Answer, Sent, IInv, LinkTypes

LEMMA Sends ==
  ASSUME NEW n \in Nodes, IInv, NEW msgs, Send(n, msgs)
  PROVE  /\ net'[n] = net[n] /\ net'[Peer(n)] = net[Peer(n)] \o Sent(n, msgs)
         /\ msgs = <<>> \/ n \in socket => net'[Peer(n)] = net[Peer(n)] \o msgs
  BY Peers DEF Send, Sent, IInv, LinkTypes

LEMMA Changes ==
  ASSUME NEW n \in Nodes, IInv, NEW e, link' = [link EXCEPT ![n] = e]
  PROVE  link'[n] = e /\ link'[Peer(n)] = link[Peer(n)]
  BY Peers DEF IInv, LinkTypes

LEMMA DroppedCalm ==
  ASSUME NEW n \in Nodes, IInv, AllCalm, faults = 0, Dropped(n)
  PROVE  AllCalm'
  <1> DEFINE e == link[n] f == link[Peer(n)] out == net[Peer(n)] in == net[n]
  <1>1. /\ Both(e, f, out, in) /\ e \in Entries /\ f \in Entries
        /\ in \in Seq(Msgs) /\ out \in Seq(Msgs)
    BY CalmTypes
  <1>2. /\ in # <<>> /\ e.state \in {"init", "down"}
        /\ link'[n] = e /\ link'[Peer(n)] = f
        /\ net'[n] = Tail(in) /\ net'[Peer(n)] = out \o <<>>
    BY Answers DEF Dropped
  <1>3. out \o <<>> = out
    BY <1>1, ConcatEmptySeq
  <1>4. f.state = "waitpwd" /\ Tail(in) \in Calls(f.token)
    <2>1. <<>> \in Calls(f.token)
      BY DEF Calls
    <2> HIDE DEF e, f, in, out
    <2> QED
      BY <1>1, <1>2, <2>1, Reads
  <1> HIDE DEF e, f, in, out
  <1>5. Both(e, f, out, Tail(in))
    BY <1>1, <1>2, <1>4 DEF Both, Calm
  <1> QED
    BY <1>2, <1>3, <1>5, CalmPair

\* A connected server has read a message of a connected server.
LEMMA Chats ==
  ASSUME NEW e \in Entries, NEW f \in Entries, NEW out \in Seq(Msgs), NEW in \in Seq(Msgs),
         Both(e, f, out, in), in # <<>>, Head(in).cmd \in Chatter,
         NEW g \in Entries, g.state = e.state, g.token = e.token, g.half = 0, g.quiet = 0,
         NEW msgs \in Seq(Msgs), Plain(msgs), Head(in).cmd = "PING" => Has(msgs, "PONG")
  PROVE  Both(g, f, out \o msgs, Tail(in))
  <1>1. /\ Plain(Tail(in)) /\ e.state = "connect" /\ f.state \in {"waitpwd", "connect"}
    BY Reads DEF Chatter
  <1>2. f.state = "connect" => Plain(out \o msgs)
    BY <1>1, PlainGrows DEF Both, Calm
  <1>3. f.state = "waitpwd" => Asks(out \o msgs, f.token)
    BY <1>1, AsksGrows DEF Both, Calm
  <1>4. f.quiet # 0 => f.state = "connect" /\ (Has(Tail(in), "PING") \/ Has(out \o msgs, "PONG"))
    BY Taken, HasGrows DEF Both, Calm
  <1> QED
    BY <1>1, <1>2, <1>3, <1>4 DEF Both, Calm

LEMMA ChatterCalm ==
  ASSUME NEW n \in Nodes, IInv, Wired, AllCalm, faults = 0,
         Pinged(n) \/ Ponged(n) \/ User(n) \/ Quit(n)
  PROVE  AllCalm'
  <1>0. n \in socket
    BY DEF Wired, Pinged, Ponged, User, Quit, Takes
  <1> DEFINE e == link[n] f == link[Peer(n)] out == net[Peer(n)] in == net[n]
             pong == <<Msg("PONG", 0)>>
  <1>1. /\ Both(e, f, out, in) /\ e \in Entries /\ f \in Entries
        /\ in \in Seq(Msgs) /\ out \in Seq(Msgs) /\ e.half = 0
    BY CalmTypes DEF Both, Calm
  <1>2. /\ \/ Answer(n, pong)
           \/ Answer(n, <<>>) /\ Head(in).cmd # "PING"
        /\ \/ link' = [link EXCEPT ![n] = Heard(n)]
           \/ link' = [link EXCEPT ![n] = [Heard(n) EXCEPT !.half = 0]]
        /\ in # <<>> /\ Head(in).cmd \in Chatter
    BY DEF Pinged, Ponged, User, Quit, Takes, Chatter
  <1>3. PICK g \in {Heard(n), [Heard(n) EXCEPT !.half = 0]} : link' = [link EXCEPT ![n] = g]
    BY <1>2
  <1>4. PICK msgs \in {pong, <<>>} : /\ Answer(n, msgs)
                                     /\ msgs = pong \/ Head(in).cmd # "PING"
    <2> HIDE DEF pong
    <2> QED
      BY <1>2
  <1>5. /\ g \in Entries /\ g.state = e.state /\ g.token = e.token
        /\ g.half = 0 /\ g.quiet = 0
    <2>1. /\ Heard(n) \in Entries /\ Heard(n).state = e.state /\ Heard(n).token = e.token
          /\ Heard(n).half = 0 /\ Heard(n).quiet = 0
      <3>1. Heard(n) \in Entries /\ Heard(n).state = e.state
        BY EntryMoves DEF States
      <3>2. /\ Heard(n).token = e.token /\ Heard(n).half = e.half
            /\ Heard(n).quiet = 0
        BY <1>1 DEF Heard, Entries
      <3> QED
        BY <1>1, <3>1, <3>2
    <2>2. CASE g = [Heard(n) EXCEPT !.half = 0]
      BY <2>1, <2>2 DEF Entries
    <2> QED
      BY <2>1, <2>2
  <1>6. /\ msgs \in Seq(Msgs) /\ Plain(msgs)
        /\ Head(in).cmd = "PING" => Has(msgs, "PONG")
    <2>1. pong \in Seq(Msgs) /\ Len(pong) = 1 /\ pong[1].cmd = "PONG"
      BY DEF Msgs, Msg, Commands
    <2> HIDE DEF pong
    <2>2. Plain(pong) /\ Has(pong, "PONG")
      BY <2>1 DEF Plain, Has, Chatter
    <2> QED
      BY <1>4, <2>1, <2>2, NothingThere
  <1>7. /\ link'[n] = g /\ link'[Peer(n)] = f
        /\ net'[n] = Tail(in) /\ net'[Peer(n)] = out \o msgs
    <2> HIDE DEF pong
    <2>1. link'[n] = g /\ link'[Peer(n)] = f
      BY <1>3, Changes
    <2>2. net'[n] = Tail(in) /\ net'[Peer(n)] = out \o msgs
      BY <1>0, <1>4, Answers
    <2> QED
      BY <2>1, <2>2
  <1> HIDE DEF e, f, in, out
  <1>8. Both(g, f, out \o msgs, Tail(in))
    BY <1>1, <1>2, <1>5, <1>6, Chats
  <1> QED
    BY <1>7, <1>8, CalmPair

LEMMA PassCalm ==
  ASSUME NEW n \in Nodes, IInv, AllCalm, faults = 0, Pass(n)
  PROVE  AllCalm'
  <1> DEFINE e == link[n] f == link[Peer(n)] out == net[Peer(n)] in == net[n]
             g == [Heard(n) EXCEPT !.gotpass = TRUE]
  <1>1. /\ Both(e, f, out, in) /\ e \in Entries /\ f \in Entries
        /\ in \in Seq(Msgs) /\ out \in Seq(Msgs)
    BY CalmTypes
  <1>2. in # <<>> /\ Head(in).cmd = "PASS"
    BY DEF Pass, Takes
  <1>3. /\ g.state = e.state /\ g.token = e.token /\ g.half = e.half /\ g.quiet = 0
    BY <1>1 DEF Heard, Entries
  <1>4. \/ /\ e.state \in {"init", "call", "waitpwd"} /\ f.state = "waitpwd"
           /\ Tail(in) \in Calls(f.token)
        \/ e.state = "waitpwd" /\ f.state = "connect" /\ Asks(Tail(in), e.token)
    <2> HIDE DEF e, f, in, out
    <2> QED
      BY <1>1, <1>2, Reads DEF Chatter
  <1>5. /\ link'[n] = g /\ link'[Peer(n)] = f
        /\ net'[n] = Tail(in) /\ net'[Peer(n)] = out
    <2>1. link' = [link EXCEPT ![n] = g] /\ Answer(n, <<>>)
      BY <1>4 DEF Pass
    <2>2. net'[n] = Tail(in) /\ net'[Peer(n)] = out \o <<>>
      BY <2>1, Answers
    <2> QED
      BY <1>1, <2>1, <2>2, Changes, ConcatEmptySeq
  <1> HIDE DEF e, f, in, out, g
  <1>6. Both(g, f, out, Tail(in))
    BY <1>1, <1>3, <1>4 DEF Both, Calm
  <1> QED
    BY <1>5, <1>6, CalmPair

\* News of its users.
LEMMA KnownChatter ==
  ASSUME NEW n \in Nodes, IInv
  PROVE  Known(n) \in Seq(Msgs) /\ Plain(Known(n))
  <1>1. Known(n) \in Seq(Okay(Peer(n), TRUE)) /\ Okay(Peer(n), TRUE) \subseteq Msgs
    BY KnownOkay DEF Okay
  <1>2. Known(n) \in Seq(Msgs)
    BY <1>1, SeqMonotonic
  <1>3. \A i \in 1..Len(Known(n)) : Known(n)[i].cmd = "USER"
    <2>1. DOMAIN Known(n) = 1..Len(Known(n)) /\ DOMAIN Known(n) = 1..Cardinality(usr[n])
      BY <1>2, LenProperties DEF Known
    <2> QED
      BY <2>1 DEF Known, Msg
  <1> QED
    BY <1>2, <1>3 DEF Plain, Chatter

LEMMA ServerReads ==
  ASSUME NEW n \in Nodes, IInv, AllCalm, faults = 0, Takes(n, "SERVER")
  PROVE  LET e == link[n] f == link[Peer(n)] in == net[n] IN
         /\ e.state \in {"call", "waitpwd"}
         /\ e.state = "waitpwd" <=> e.token # 0
         /\ \/ Head(in).arg = f.token /\ Tail(in) = <<>> /\ f.state = "waitpwd"
            \/ /\ Head(in).arg = e.token /\ Plain(Tail(in))
               /\ e.state = "waitpwd" /\ f.state = "connect"
  <1> DEFINE e == link[n] f == link[Peer(n)] out == net[Peer(n)] in == net[n]
  <1>1. /\ Both(e, f, out, in) /\ e \in Entries /\ f \in Entries
        /\ in \in Seq(Msgs) /\ out \in Seq(Msgs)
    BY CalmTypes
  <1>2. in # <<>> /\ Head(in).cmd = "SERVER" /\ e.state # "init"
    BY DEF Takes
  <1> HIDE DEF e, f, in, out
  <1>3. \/ /\ Head(in).arg = f.token /\ Tail(in) = <<>>
           /\ e.state \in {"call", "waitpwd"} /\ f.state = "waitpwd"
        \/ /\ Head(in).arg = e.token /\ Plain(Tail(in))
           /\ e.state = "waitpwd" /\ f.state = "connect"
    BY <1>1, <1>2, Reads DEF Chatter
  <1>4. e.state \in {"call", "waitpwd"} => (e.state = "waitpwd" <=> e.token # 0)
    BY <1>1 DEF Both, Calm
  <1> QED
    BY <1>3, <1>4 DEF e, f, in, out

LEMMA AnsweredCalm ==
  ASSUME NEW n \in Nodes, IInv, Wired, AllCalm, faults = 0, Answered(n)
  PROVE  AllCalm'
  <1>0. n \in socket
    BY DEF Wired, Answered, Takes
  <1> DEFINE e == link[n] f == link[Peer(n)] out == net[Peer(n)] in == net[n]
             g == [Heard(n) EXCEPT !.state = "connect"]
  <1>1. /\ Both(e, f, out, in) /\ e \in Entries /\ f \in Entries
        /\ in \in Seq(Msgs) /\ out \in Seq(Msgs)
    BY CalmTypes
  <1>2. /\ link' = [link EXCEPT ![n] = g] /\ Answer(n, <<>> \o Known(n))
        /\ Head(in).arg = e.token /\ e.token # 0
    BY DEF Answered, Connects
  <1>3. /\ g.state = "connect" /\ g.token = e.token /\ g.half = e.half /\ g.quiet = 0
    BY <1>1 DEF Heard, Entries
  <1>4. Plain(Tail(in)) /\ e.state = "waitpwd" /\ f.state = "connect"
    BY <1>1, <1>2, ServerReads DEF Answered, Both, Calm
  <1>5. Known(n) \in Seq(Msgs) /\ Plain(Known(n)) /\ <<>> \o Known(n) = Known(n)
    BY KnownChatter, ConcatEmptySeq
  <1>6. /\ link'[n] = g /\ link'[Peer(n)] = f
        /\ net'[n] = Tail(in) /\ net'[Peer(n)] = out \o Known(n)
    <2>1. link' = [link EXCEPT ![n] = g] /\ Answer(n, Known(n))
      BY <1>2, <1>5
    <2> HIDE DEF g
    <2> QED
      BY <1>0, <2>1, Answers, Changes
  <1> HIDE DEF e, f, in, out, g
  <1>7. Plain(out \o Known(n))
    BY <1>1, <1>4, <1>5, PlainGrows DEF Both, Calm
  <1>8. Both(g, f, out \o Known(n), Tail(in))
    BY <1>1, <1>3, <1>4, <1>7 DEF Both, Calm
  <1> QED
    BY <1>6, <1>8, CalmPair

LEMMA CollidesCalm ==
  ASSUME NEW n \in Nodes, IInv, AllCalm, faults = 0, Collides(n) \/ Ignores(n)
  PROVE  AllCalm'
  <1> DEFINE e == link[n] f == link[Peer(n)] out == net[Peer(n)] in == net[n]
  <1>1. /\ Both(e, f, out, in) /\ e \in Entries /\ f \in Entries
        /\ in \in Seq(Msgs) /\ out \in Seq(Msgs)
    BY CalmTypes
  <1>2. PICK g : /\ link' = [link EXCEPT ![n] = g] /\ Answer(n, <<>>)
                 /\ \/ /\ g = [Heard(n) EXCEPT !.state = "waitpwd"]
                       /\ e.token # 0 /\ Head(in).arg # e.token
                    \/ g = Heard(n) /\ e.token = 0
    BY DEF Collides, Ignores
  <1>3. Tail(in) = <<>> /\ f.state = "waitpwd" /\ e.state \in {"call", "waitpwd"}
        /\ (e.state = "waitpwd" <=> e.token # 0)
    BY <1>2, ServerReads DEF Collides, Ignores
  <1>4. /\ g.state = e.state /\ g.token = e.token /\ g.half = e.half /\ g.quiet = 0
    BY <1>1, <1>2, <1>3 DEF Heard, Entries
  <1>5. out \o <<>> = out
    BY <1>1, ConcatEmptySeq
  <1>6. /\ link'[n] = g /\ link'[Peer(n)] = f
        /\ net'[n] = <<>> /\ net'[Peer(n)] = out
    BY <1>2, <1>3, <1>5, Answers, Changes
  <1>7. <<>> \in Calls(f.token)
    BY DEF Calls
  <1> HIDE DEF e, f, in, out
  <1>8. Both(g, f, out, <<>>)
    BY <1>1, <1>3, <1>4, <1>7 DEF Both, Calm
  <1> QED
    BY <1>6, <1>8, CalmPair

LEMMA AcceptsCalm ==
  ASSUME NEW n \in Nodes, IInv, Wired, AllCalm, faults = 0, Accepts(n)
  PROVE  AllCalm'
  <1>0. n \in socket
    BY DEF Wired, Accepts, Takes
  <1> DEFINE e == link[n] f == link[Peer(n)] out == net[Peer(n)] in == net[n]
             g == [Heard(n) EXCEPT !.state = "connect"]
             answer == <<Msg("PASS", 0), Msg("SERVER", f.token)>>
  <1>1. /\ Both(e, f, out, in) /\ e \in Entries /\ f \in Entries
        /\ in \in Seq(Msgs) /\ out \in Seq(Msgs)
    BY CalmTypes
  <1>2. e.state = "call" /\ Tail(in) = <<>> /\ f.state = "waitpwd" /\ Head(in).arg = f.token
    BY ServerReads DEF Accepts
  <1>3. /\ link' = [link EXCEPT ![n] = g] /\ Answer(n, answer \o Known(n))
    BY <1>2 DEF Accepts, Connects
  <1>4. /\ g.state = "connect" /\ g.token = e.token /\ g.half = e.half /\ g.quiet = 0
    BY <1>1 DEF Heard, Entries
  <1>5. out = <<>> /\ e.token = 0 /\ f.token # 0
    BY <1>1, <1>2 DEF Both, Calm
  <1>6. answer \in Seq(Msgs) /\ Asks(answer, f.token)
    <2>1. f.token \in Tokens
      BY <1>1, <1>5 DEF Entries
    <2>2. answer \in Seq(Msgs) /\ Len(answer) = 2 /\ answer[1].cmd = "PASS"
          /\ answer[2].cmd = "SERVER" /\ answer[2].arg = f.token
      BY <2>1 DEF Msg, Msgs, Commands
    <2> HIDE DEF answer
    <2> QED
      BY <2>2 DEF Asks
  <1>7. Known(n) \in Seq(Msgs) /\ Plain(Known(n))
    BY KnownChatter
  <1> HIDE DEF answer
  <1>8. /\ answer \o Known(n) \in Seq(Msgs) /\ Asks(answer \o Known(n), f.token)
        /\ <<>> \o (answer \o Known(n)) = answer \o Known(n)
    BY <1>6, <1>7, AsksGrows, ConcatProperties, ConcatEmptySeq
  <1>9. /\ link'[n] = g /\ link'[Peer(n)] = f
        /\ net'[n] = <<>> /\ net'[Peer(n)] = answer \o Known(n)
    <2>1. /\ net'[n] = Tail(in)
          /\ net'[Peer(n)] = out \o (answer \o Known(n))
      BY <1>0, <1>3, Answers
    <2>2. link'[n] = g /\ link'[Peer(n)] = f
      <3> HIDE DEF g
      <3> QED
        BY <1>3, Changes
    <2> QED
      BY <1>2, <1>5, <1>8, <2>1, <2>2
  <1> HIDE DEF e, f, in, out, g
  <1>10. Both(g, f, answer \o Known(n), <<>>)
    BY <1>1, <1>2, <1>4, <1>5, <1>8, NothingThere DEF Both, Calm
  <1> QED
    BY <1>9, <1>10, CalmPair

LEMMA ReceiveCalm ==
  ASSUME NEW n \in Nodes, IInv, Wired, AllCalm, faults = 0, Receive(n)
  PROVE  AllCalm'
  <1>1. ~Squit(n) /\ ~Error(n)
    <2>1. net[n] # <<>> => Head(net[n]).cmd \in Chatter \cup {"PASS", "SERVER"}
      BY CalmTypes, Reads
    <2> QED
      BY <2>1 DEF Squit, Error, Takes, Chatter
  <1> QED
    BY <1>1, DroppedCalm, ChatterCalm, PassCalm, AnsweredCalm, CollidesCalm,
       AcceptsCalm DEF Receive

\* The messages of a connected server's user.
LEMMA ChatSent ==
  ASSUME NEW e \in Entries, NEW f \in Entries, NEW out \in Seq(Msgs), NEW in \in Seq(Msgs),
         Both(e, f, out, in), e.state = "connect", NEW msgs \in Seq(Msgs), Plain(msgs)
  PROVE  Both(e, f, out \o msgs, in)
  <1>1. f.state = "connect" => Plain(out \o msgs)
    BY PlainGrows DEF Both, Calm
  <1>2. f.state = "waitpwd" => Asks(out \o msgs, f.token)
    BY AsksGrows DEF Both, Calm
  <1>3. /\ Has(out, "PING") => Has(out \o msgs, "PING")
        /\ Has(out, "PONG") => Has(out \o msgs, "PONG")
    BY HasGrows
  <1> QED
    BY <1>1, <1>2, <1>3 DEF Both, Calm

LEMMA UsersCalm ==
  ASSUME NEW n \in Nodes, IInv, Wired, AllCalm, faults = 0, Login(n) \/ Logout(n)
  PROVE  AllCalm'
  <1> DEFINE e == link[n] f == link[Peer(n)] out == net[Peer(n)] in == net[n]
             told(cmd) == <<Msg(cmd, n)>>
  <1>1. /\ Both(e, f, out, in) /\ e \in Entries /\ f \in Entries
        /\ in \in Seq(Msgs) /\ out \in Seq(Msgs)
    BY CalmTypes
  <1>2. UNCHANGED link /\ \E cmd \in {"USER", "QUIT"} : IfLinked(n, told(cmd))
    BY DEF Login, Logout
  <1>3. PICK cmd \in {"USER", "QUIT"} : IfLinked(n, told(cmd))
    BY <1>2
  <1>4. told(cmd) \in Seq(Msgs) /\ Plain(told(cmd))
    <2>1. told(cmd) \in Seq(Msgs) /\ Len(told(cmd)) = 1 /\ told(cmd)[1].cmd = cmd
      BY DEF Msgs, Msg, Commands
    <2> HIDE DEF told
    <2> QED
      BY <2>1 DEF Plain, Chatter
  <1> HIDE DEF told
  <1>5. CASE e.state = "connect"
    <2>1. Send(n, told(cmd))
      BY <1>3, <1>5 DEF IfLinked
    <2>2. net'[n] = in /\ net'[Peer(n)] = out \o told(cmd)
      BY <1>5, <2>1, Sends DEF Wired
    <2> HIDE DEF e, f, in, out
    <2>3. Both(e, f, out \o told(cmd), in)
      BY <1>1, <1>4, <1>5, ChatSent
    <2> QED
      BY <1>2, <2>2, <2>3, CalmPair DEF e, f
  <1>6. CASE e.state # "connect"
    <2>1. Send(n, <<>>)
      BY <1>3, <1>6 DEF IfLinked
    <2>2. net'[n] = in /\ net'[Peer(n)] = out \o <<>>
      BY <2>1, Sends
    <2>3. out \o <<>> = out
      BY <1>1, ConcatEmptySeq
    <2> QED
      BY <1>1, <1>2, <2>2, <2>3, CalmPair
  <1> QED
    BY <1>5, <1>6

LEMMA SetupCalm ==
  ASSUME NEW n \in Nodes, IInv, AllCalm, faults = 0, faults' = 0, Setup(n)
  PROVE  AllCalm'
  <1> DEFINE e == link[n] f == link[Peer(n)] out == net[Peer(n)] in == net[n]
             g == [link[n] EXCEPT !.state = "call"]
  <1>1. Both(e, f, out, in) /\ e \in Entries
    BY CalmTypes
  <1>2. link' = [link EXCEPT ![n] = g] /\ UNCHANGED net /\ e.state = "init"
    BY DEF Setup, Goes, Unexpected
  <1>3. g.state = "call" /\ g.token = e.token /\ g.half = e.half /\ g.quiet = e.quiet
    BY <1>1 DEF Entries
  <1> HIDE DEF g
  <1>4. link'[n] = g /\ link'[Peer(n)] = f
    BY <1>2, Changes
  <1> HIDE DEF e, f, in, out
  <1>5. Both(g, f, out, in)
    BY <1>1, <1>2, <1>3 DEF Both, Calm
  <1> QED
    BY <1>2, <1>4, <1>5, CalmPair DEF in, out

LEMMA PlaceCallCalm ==
  ASSUME NEW n \in Nodes, IInv, Wired, AllCalm, faults = 0, PlaceCall(n)
  PROVE  AllCalm'
  <1>0. n \in socket
    BY DEF Wired, PlaceCall
  <1> DEFINE e == link[n] f == link[Peer(n)] out == net[Peer(n)] in == net[n] t == NewToken
             g == [link[n] EXCEPT !.state = "waitpwd", !.token = t, !.behind = FALSE]
             call == <<Msg("PASS", 0), Msg("SERVER", t)>>
  <1>1. /\ Both(e, f, out, in) /\ e \in Entries /\ f \in Entries
        /\ in \in Seq(Msgs) /\ out \in Seq(Msgs) /\ Peer(n) \in Nodes
    BY CalmTypes
  <1>2. link' = [link EXCEPT ![n] = g] /\ Send(n, call) /\ e.state = "call"
    BY DEF PlaceCall
  <1>3. t \in Tokens /\ t # f.token
    <2>1. t \in Tokens \ InUse
      BY TokenIsOne DEF PlaceCall
    <2>2. f.token \in InUse
      BY <1>1 DEF InUse
    <2> QED
      BY <2>1, <2>2
  <1>4. t # 0
    BY <1>3, LinkAssumption
  <1> HIDE DEF t
  <1>5. g.state = "waitpwd" /\ g.token = t /\ g.half = e.half /\ g.quiet = e.quiet
    BY <1>1 DEF Entries
  <1>6. out = <<>> /\ call \in Calls(t) /\ <<>> \o call = call
    <2>1. call \in Seq(Msgs)
      BY <1>3 DEF Msgs, Msg, Commands
    <2>2. out = <<>> /\ call \in Calls(t)
      BY <1>1, <1>2 DEF Calls, Both, Calm
    <2> QED
      BY <2>1, <2>2, ConcatEmptySeq
  <1> HIDE DEF g, call
  <1>7. /\ link'[n] = g /\ link'[Peer(n)] = f
        /\ net'[n] = in /\ net'[Peer(n)] = call
    <2>1. link'[n] = g /\ link'[Peer(n)] = f
      BY <1>2, Changes
    <2> QED
      BY <1>0, <1>2, <1>6, <2>1, Sends
  <1> HIDE DEF e, f, in, out
  <1>8. Both(g, f, call, in)
    BY <1>1, <1>2, <1>3, <1>4, <1>5, <1>6 DEF Both, Calm
  <1> QED
    BY <1>7, <1>8, CalmPair

LEMMA GiveUpCalm ==
  ASSUME NEW n \in Nodes, IInv, AllCalm, faults = 0, faults' = 0, GiveUp(n)
  PROVE  AllCalm'
  <1> DEFINE e == link[n] f == link[Peer(n)] out == net[Peer(n)] in == net[n]
             b == (f.state = "waitpwd")
             g == [link[n] EXCEPT !.token = 0, !.state = "call", !.behind = b]
             h == [link[Peer(n)] EXCEPT !.behind = FALSE]
  <1>1. /\ Both(e, f, out, in) /\ e \in Entries /\ f \in Entries
        /\ Peer(n) \in Nodes /\ Peer(n) # n
    BY CalmTypes
  <1>2. link' = [link EXCEPT ![n].token = 0, ![n].state = "call", ![n].behind = b,
                             ![Peer(n)].behind = FALSE]
        /\ UNCHANGED net /\ e.state = "waitpwd"
    BY DEF GiveUp
  <1>3. in = <<>> /\ out = <<>>
    BY <1>1 DEF GiveUp, Settled, Unexpected
  <1>4. link \in [Nodes -> Entries]
    BY DEF IInv, LinkTypes
  <1> HIDE DEF b
  <1>5. link'[n] = g /\ link'[Peer(n)] = h
    BY <1>1, <1>2, <1>4
  <1>6. /\ g.state = "call" /\ g.token = 0 /\ g.half = e.half /\ g.quiet = e.quiet
        /\ h.state = f.state /\ h.token = f.token /\ h.half = f.half /\ h.quiet = f.quiet
    BY <1>1 DEF Entries
  <1> HIDE DEF e, f, g, h, in, out
  <1>7. Both(g, h, out, in)
    BY <1>1, <1>2, <1>3, <1>6, NothingThere DEF Both, Calm
  <1> QED
    BY <1>2, <1>5, <1>7, CalmPair DEF in, out

\* A server whose peer has read all and has nothing to say has heard from it.
LEMMA HeardLately ==
  ASSUME NEW n \in Nodes, IInv, AllCalm, faults = 0, Settled, link[n].state = "connect"
  PROVE  link[n].quiet = 0 /\ link[Peer(n)].state = "connect"
  <1>1. /\ Both(link[n], link[Peer(n)], net[Peer(n)], net[n])
        /\ net[n] = <<>> /\ net[Peer(n)] = <<>>
    BY CalmTypes DEF Settled
  <1> QED
    BY <1>1, NothingThere DEF Both, Calm

LEMMA PingCalm ==
  ASSUME NEW n \in Nodes, IInv, Wired, AllCalm, faults = 0, Ping(n)
  PROVE  AllCalm'
  <1>0. n \in socket
    BY DEF Wired, Ping
  <1> DEFINE e == link[n] f == link[Peer(n)] out == net[Peer(n)] in == net[n]
             g == [link[n] EXCEPT !.quiet = link[n].quiet + 1]
             ping == <<Msg("PING", 0)>>
  <1>1. /\ Both(e, f, out, in) /\ e \in Entries /\ f \in Entries
        /\ in \in Seq(Msgs) /\ out \in Seq(Msgs)
    BY CalmTypes
  <1>2. /\ link' = [link EXCEPT ![n] = g] /\ Send(n, ping)
        /\ e.state = "connect" /\ f.state = "connect"
    BY HeardLately DEF Ping
  <1>3. g.state = e.state /\ g.token = e.token /\ g.half = e.half
    BY <1>1 DEF Entries
  <1>4. ping \in Seq(Msgs) /\ Plain(ping) /\ Has(ping, "PING")
    <2>1. ping \in Seq(Msgs) /\ Len(ping) = 1 /\ ping[1].cmd = "PING"
      BY DEF Msgs, Msg, Commands
    <2> HIDE DEF ping
    <2> QED
      BY <2>1 DEF Plain, Has, Chatter
  <1> HIDE DEF g, ping
  <1>5. /\ link'[n] = g /\ link'[Peer(n)] = f
        /\ net'[n] = in /\ net'[Peer(n)] = out \o ping
    <2>1. link'[n] = g /\ link'[Peer(n)] = f
      BY <1>2, Changes
    <2> QED
      BY <1>0, <1>2, <2>1, Sends
  <1> HIDE DEF e, f, in, out
  <1>6. Has(out \o ping, "PING") /\ Both(e, f, out \o ping, in)
    BY <1>1, <1>2, <1>4, HasGrows, ChatSent
  <1>7. Both(g, f, out \o ping, in)
    BY <1>2, <1>3, <1>6 DEF Both, Calm
  <1> QED
    BY <1>5, <1>7, CalmPair

LEMMA TimersCalm ==
  ASSUME NEW n \in Nodes, IInv, Wired, AllCalm, faults = 0, faults' = 0, Timers(n)
  PROVE  AllCalm'
  <1>1. link[n].half = 0 /\ link[n].state \in {"init", "call", "waitpwd", "connect"}
    BY CalmTypes DEF Both, Calm
  <1>2. ~DieOfCalls(n)
    BY <1>1, LinkAssumption DEF DieOfCalls
  <1>3. ~DieOfSilence(n)
    BY HeardLately, LinkAssumption DEF DieOfSilence
  <1>4. ~Again(n)
    BY <1>1 DEF Again
  <1> QED
    BY <1>2, <1>3, <1>4, SetupCalm, PlaceCallCalm, GiveUpCalm, PingCalm
       DEF Timers

LEMMA InitCalm == Init => AllCalm
  <1> SUFFICES ASSUME Init PROVE AllCalm
    OBVIOUS
  <1>1. ASSUME NEW n \in Nodes PROVE CalmAt(n)
    BY Peers DEF Init, Fresh, CalmAt, Calm
  <1> QED
    BY <1>1 DEF AllCalm

\* Calm stays until something goes wrong.
LEMMA StepCalm == IInv /\ Wired /\ AllCalm /\ Bounds /\ [Next]_vars => AllCalm'
  <1> SUFFICES ASSUME IInv, Wired, AllCalm, Bounds, [Next]_vars, faults' = 0
               PROVE  AllCalm'
    BY DEF AllCalm
  <1>1. CASE UNCHANGED vars
    <2>1. faults = 0 /\ UNCHANGED <<link, net>>
      BY <1>1 DEF vars
    <2>2. ASSUME NEW n \in Nodes PROVE AllCalm'
      <3>1. Both(link[n], link[Peer(n)], net[Peer(n)], net[n])
        BY <2>1, CalmTypes
      <3>2. Both(link'[n], link'[Peer(n)], net'[Peer(n)], net'[n])
        BY <2>1, <3>1
      <3> QED
        BY <3>2, CalmPair
    <2>3. CASE Nodes = {}
      BY <2>3 DEF AllCalm
    <2> QED
      BY <2>2, <2>3
  <1>2. ASSUME NEW n \in Nodes,
               \/ Timers(n) \/ Receive(n) \/ Login(n) \/ Logout(n)
               \/ Reset(n) \/ Killed(n) \/ Shutdown(n) \/ Boot(n) \/ Damage(n)
        PROVE  AllCalm'
    <2>1. ~Reset(n) /\ ~Killed(n) /\ ~Shutdown(n) /\ ~Damage(n)
      BY DEF Reset, Killed, Shutdown, Ends, Damage, Unexpected, Bounds
    <2>2. faults = 0
      BY <1>2, <2>1 DEF Bounds, Timers, Setup, PlaceCall, GiveUp, Ping, Again,
         DieOfCalls, DieOfSilence, Dies, Expected, Unexpected, Receive,
         Dropped, Pinged, Ponged, Error, Pass, Answered, Connects, Collides,
         Accepts, Ignores, Squit, User, Quit, Login, Logout, Boot
    <2>3. ~Boot(n)
      BY <2>2, CalmTypes DEF Boot, Both, Calm
    <2> QED
      BY <1>2, <2>1, <2>2, <2>3, TimersCalm, ReceiveCalm, UsersCalm
  <1> QED
    BY <1>1, <1>2 DEF Next

\* When nothing goes wrong no link is given up and no server hangs up, whatever
\* calls cross each other and whoever logs in.
THEOREM DiesOfFaultsOnlyHolds == Spec => []DiesOfFaultsOnly
  <1>1. Init => AllCalm
    BY InitCalm
  <1>2. IInv /\ Wired /\ AllCalm /\ Bounds /\ [Next]_vars => AllCalm'
    BY StepCalm
  <1>3. AllCalm => DiesOfFaultsOnly
    BY DEF AllCalm, CalmAt, Calm, DiesOfFaultsOnly
  <1> QED
    BY <1>1, <1>2, <1>3, LinkInvariant, BoundsHold, WiredHolds, PTL DEF Spec
-----------------------------------------------------------------------------
(* Agreement: what a server has told its peer *)

\* The datagrams behind position i bring no news.
NewsFree(s, i) == \A k \in 1..Len(s) : k > i => ~News(s[k])
\* With the datagrams behind position i a server that believes b comes to
\* believe v.
Told(s, i, b, v) ==
    /\ NewsFree(s, i) => (v <=> b)
    /\ \A k \in 1..Len(s) : k > i /\ News(s[k]) /\ NewsFree(s, k) => (v <=> s[k].cmd = "USER")
Carries(s, i, token) == i \in 1..Len(s) /\ s[i].cmd = "SERVER" /\ s[i].arg = token

\* The calls that may link a server with calls o to its peer with entry f.
Awaited(f, o) == o \cup (IF f.state = "waitpwd" THEN {f.token} ELSE {})

\* What the server n has told its peer p.  e and f are the entries of the two,
\* out is on its way to p, in to n, u and w are their users, o is open to n.
\* A call has no news behind it, two callers do not answer each other, and the
\* datagrams behind an answer, or all between linked servers, tell of n's user.
Tells(n, p, e, f, out, in, u, w, o) ==
    /\ e.state = "waitpwd" => e.token # 0
    /\ e.token # 0 => e.state \in {"waitpwd", "connect"}
    /\ e.state # "connect" =>
           \A i \in Nat : \A t \in o : Carries(out, i, t) => NewsFree(out, i)
    /\ e.state = "waitpwd" /\ f.state = "waitpwd" =>
           \A i, j \in Nat : ~(Carries(out, i, f.token) /\ Carries(in, j, e.token))
    /\ e.state = "connect" /\ f.state # "connect" =>
           \A i \in Nat : \A t \in Awaited(f, o) : Carries(out, i, t) =>
               Told(out, i, FALSE, n \in u) /\ NewsFree(in, 0) /\ p \notin u
    /\ e.state = "connect" /\ f.state = "connect" => o = {} /\ Told(out, 0, n \in w, n \in u)

\* What each of the two has told the other.
Pair(n, p, e, f, out, in, u, w, o, q) == /\ Tells(n, p, e, f, out, in, u, w, o)
                                         /\ Tells(p, n, f, e, in, out, w, u, q)
PairAt(n) == LET p == Peer(n) IN
             Pair(n, p, link[n], link[p], net[p], net[n], usr[n], usr[p], open[n], open[p])
AllTold == upset \/ spoilt \/ stale \/ \A n \in Nodes : PairAt(n)

\* The datagrams behind i in t bring the news those behind j in s do.
SameNews(s, j, t, i) ==
    /\ NewsFree(s, j) <=> NewsFree(t, i)
    /\ \A k \in 1..Len(t) : k > i /\ News(t[k]) /\ NewsFree(t, k) =>
           \E l \in 1..Len(s) : l > j /\ News(s[l]) /\ NewsFree(s, l) /\ s[l].cmd = t[k].cmd
\* The datagrams t say no more than s, and bring the same news.
Like(s, t) ==
    /\ SameNews(s, 0, t, 0)
    /\ \A i \in Nat : \A token : Carries(t, i, token) =>
           \E j \in Nat : Carries(s, j, token) /\ SameNews(s, j, t, i)

\* What is told by some datagrams is told by others with the same news.
LEMMA SameTold ==
  ASSUME NEW s, NEW t, NEW i, NEW j, NEW b, NEW v, SameNews(s, j, t, i), Told(s, j, b, v)
  PROVE  Told(t, i, b, v)
  BY DEF SameNews, Told

\* Nothing else depends on the datagrams: those on their way to n may be
\* replaced by others that say the same.
LEMMA LikeTold ==
  ASSUME NEW n, NEW p, NEW e, NEW f, NEW out, NEW in, NEW u, NEW w, NEW o, NEW q, NEW t,
         Pair(n, p, e, f, out, in, u, w, o, q), Like(in, t)
  PROVE  Pair(n, p, e, f, out, t, u, w, o, q)
  <1>1. Tells(n, p, e, f, out, t, u, w, o)
    <2>1. Tells(n, p, e, f, out, in, u, w, o)
      BY DEF Pair
    <2>2. NewsFree(in, 0) <=> NewsFree(t, 0)
      BY DEF Like, SameNews
    <2>3. \A j \in Nat : \A token : Carries(t, j, token) => \E k \in Nat : Carries(in, k, token)
      BY DEF Like
    <2> QED
      BY <2>1, <2>2, <2>3 DEF Tells
  <1>2. Tells(p, n, f, e, t, out, w, u, q)
    <2>1. Tells(p, n, f, e, in, out, w, u, q)
      BY DEF Pair
    <2>2. ASSUME f.state # "connect", NEW i \in Nat, NEW token \in q, Carries(t, i, token)
          PROVE  NewsFree(t, i)
      <3>1. PICK j \in Nat : Carries(in, j, token) /\ SameNews(in, j, t, i)
        BY <2>2 DEF Like
      <3> QED
        BY <2>1, <2>2, <3>1 DEF Tells, SameNews
    <2>3. ASSUME f.state = "waitpwd", e.state = "waitpwd", NEW i \in Nat, NEW j \in Nat
          PROVE  ~(Carries(t, i, e.token) /\ Carries(out, j, f.token))
      BY <2>1, <2>3 DEF Tells, Like
    <2>4. ASSUME f.state = "connect", e.state # "connect", NEW i \in Nat,
                 NEW token \in Awaited(e, q), Carries(t, i, token)
          PROVE  Told(t, i, FALSE, p \in w) /\ NewsFree(out, 0) /\ n \notin w
      <3>1. PICK j \in Nat : Carries(in, j, token) /\ SameNews(in, j, t, i)
        BY <2>4 DEF Like
      <3>2. Told(in, j, FALSE, p \in w) /\ NewsFree(out, 0) /\ n \notin w
        BY <2>1, <2>4, <3>1 DEF Tells
      <3> QED
        BY <3>1, <3>2, SameTold
    <2>5. ASSUME f.state = "connect", e.state = "connect"
          PROVE  q = {} /\ Told(t, 0, p \in u, p \in w)
      <3>1. q = {} /\ Told(in, 0, p \in u, p \in w) /\ SameNews(in, 0, t, 0)
        BY <2>1, <2>5 DEF Tells, Like
      <3> QED
        BY <3>1, SameTold
    <2> QED
      BY <2>1, <2>2, <2>3, <2>4, <2>5 DEF Tells
  <1> QED
    BY <1>1, <1>2 DEF Pair

\* The two servers may be named in either order.
LEMMA PairTurns ==
  ASSUME NEW n, NEW p, NEW e, NEW f, NEW out, NEW in, NEW u, NEW w, NEW o, NEW q,
         Pair(n, p, e, f, out, in, u, w, o, q)
  PROVE  Pair(p, n, f, e, in, out, w, u, q, o)
  BY DEF Pair

\* Of an entry only the state and the token count.
LEMMA SameEntry ==
  ASSUME NEW n, NEW p, NEW e, NEW f, NEW out, NEW in, NEW u, NEW w, NEW o, NEW q, NEW d,
         d.state = e.state, d.token = e.token, Pair(n, p, e, f, out, in, u, w, o, q)
  PROVE  Pair(n, p, d, f, out, in, u, w, o, q)
  BY DEF Pair, Tells, Awaited

\* Datagrams t that are those of s, at the places g: each that brings news is
\* there, and they follow one another as in s.
Placed(s, t, g) ==
    /\ g \in [1..Len(t) -> 1..Len(s)]
    /\ \A k \in 1..Len(t) : t[k] = s[g[k]]
    /\ \A l \in 1..Len(s) : News(s[l]) => \E k \in 1..Len(t) : g[k] = l
    /\ \A i, k \in 1..Len(t) : News(t[k]) => (k > i <=> g[k] > g[i])

LEMMA PlacedNews ==
  ASSUME NEW s \in Seq(Msgs), NEW t \in Seq(Msgs), NEW g, Placed(s, t, g),
         NEW i, NEW j, \A k \in 1..Len(t) : News(t[k]) => (k > i <=> g[k] > j)
  PROVE  SameNews(s, j, t, i)
  <1>1. NewsFree(s, j) <=> NewsFree(t, i)
    <2>1. ASSUME NewsFree(s, j) PROVE NewsFree(t, i)
      BY <2>1 DEF NewsFree, Placed
    <2>2. ASSUME NewsFree(t, i), NEW l \in 1..Len(s), l > j PROVE ~News(s[l])
      BY <2>2 DEF NewsFree, Placed
    <2> QED
      BY <2>1, <2>2 DEF NewsFree
  <1>2. ASSUME NEW k \in 1..Len(t), k > i, News(t[k]), NewsFree(t, k)
        PROVE  \E l \in 1..Len(s) : l > j /\ News(s[l]) /\ NewsFree(s, l) /\ s[l].cmd = t[k].cmd
    <2>1. g[k] \in 1..Len(s) /\ g[k] > j /\ s[g[k]] = t[k]
      BY <1>2 DEF Placed
    <2>2. ASSUME NEW l \in 1..Len(s), l > g[k], News(s[l]) PROVE FALSE
      <3>1. PICK m \in 1..Len(t) : g[m] = l
        BY <2>2 DEF Placed
      <3>2. News(t[m]) /\ m > k
        BY <1>2, <2>2, <3>1 DEF Placed
      <3> QED
        BY <1>2, <3>2 DEF NewsFree
    <2>3. NewsFree(s, g[k])
      BY <2>2 DEF NewsFree
    <2> QED
      BY <1>2, <2>1, <2>3
  <1> QED
    BY <1>1, <1>2 DEF SameNews

LEMMA PlacedLike ==
  ASSUME NEW s \in Seq(Msgs), NEW t \in Seq(Msgs), NEW g, Placed(s, t, g)
  PROVE  Like(s, t)
  <1>1. Len(s) \in Nat /\ Len(t) \in Nat
    BY LenProperties
  <1>2. SameNews(s, 0, t, 0)
    <2>1. \A k \in 1..Len(t) : k > 0 /\ g[k] > 0
      BY <1>1 DEF Placed
    <2> QED
      BY <2>1, PlacedNews
  <1>3. ASSUME NEW i \in Nat, NEW token, Carries(t, i, token)
        PROVE  \E j \in Nat : Carries(s, j, token) /\ SameNews(s, j, t, i)
    <2>1. i \in 1..Len(t) /\ g[i] \in 1..Len(s) /\ g[i] \in Nat
      BY <1>1, <1>3 DEF Carries, Placed
    <2>2. Carries(s, g[i], token)
      BY <1>3, <2>1 DEF Carries, Placed
    <2>3. \A k \in 1..Len(t) : News(t[k]) => (k > i <=> g[k] > g[i])
      BY <2>1 DEF Placed
    <2>4. SameNews(s, g[i], t, i)
      BY <2>3, PlacedNews
    <2> QED
      BY <2>1, <2>2, <2>4
  <1> QED
    BY <1>2, <1>3 DEF Like

\* Nothing is different.
LEMMA LikeItself ==
  ASSUME NEW s \in Seq(Msgs)
  PROVE  Like(s, s)
  <1> DEFINE g == [k \in 1..Len(s) |-> k]
  <1>1. Placed(s, s, g)
    BY LenProperties DEF Placed
  <1> HIDE DEF g
  <1> QED
    BY <1>1, PlacedLike

\* A datagram that brings no news is read.
LEMMA TailLike ==
  ASSUME NEW s \in Seq(Msgs), s # <<>>, ~News(Head(s))
  PROVE  Like(s, Tail(s))
  <1>1. /\ Tail(s) \in Seq(Msgs) /\ Len(s) \in Nat \ {0}
        /\ Len(Tail(s)) = Len(s) - 1 /\ Head(s) = s[1]
        /\ \A i \in 1..(Len(s) - 1) : Tail(s)[i] = s[i + 1]
    BY HeadTailProperties, EmptySeq, LenProperties
  <1> DEFINE g == [k \in 1..(Len(s) - 1) |-> k + 1]
             t == Tail(s)
  <1>2. g \in [1..(Len(s) - 1) -> 1..Len(s)]
    BY <1>1
  <1>3. ASSUME NEW l \in 1..Len(s), News(s[l]) PROVE \E k \in 1..(Len(s) - 1) : g[k] = l
    <2>1. l # 1
      BY <1>1, <1>3
    <2>2. l - 1 \in 1..(Len(s) - 1) /\ g[l - 1] = l
      BY <1>1, <2>1
    <2> QED
      BY <2>2
  <1>4. \A k \in 1..(Len(s) - 1) : g[k] = k + 1
    OBVIOUS
  <1> HIDE DEF g, t
  <1>5. t \in Seq(Msgs) /\ Len(t) = Len(s) - 1 /\ \A i \in 1..(Len(s) - 1) : t[i] = s[i + 1]
    BY <1>1 DEF t
  <1>6. \A i, k \in 1..(Len(s) - 1) : k > i <=> g[k] > g[i]
    BY <1>1, <1>4
  <1>7. Placed(s, t, g)
    BY <1>2, <1>3, <1>4, <1>5, <1>6 DEF Placed
  <1>8. Like(s, t)
    BY <1>5, <1>7, PlacedLike
  <1> QED
    BY <1>8 DEF t

\* Datagrams are sent that bring no news and make no call.
Idle(m) == \A i \in 1..Len(m) : ~News(m[i]) /\ m[i].cmd # "SERVER"

LEMMA IdleLike ==
  ASSUME NEW s \in Seq(Msgs), NEW m \in Seq(Msgs), Idle(m)
  PROVE  Like(s, s \o m)
  <1> DEFINE t == s \o m
  <1>1. /\ Len(t) = Len(s) + Len(m) /\ Len(s) \in Nat /\ Len(m) \in Nat
        /\ \A i \in 1..(Len(s) + Len(m)) :
               t[i] = IF i <= Len(s) THEN s[i] ELSE m[i - Len(s)]
    BY ConcatProperties, LenProperties
  <1> HIDE DEF t
  <1>2. ASSUME NEW k \in 1..Len(t), News(t[k]) \/ t[k].cmd = "SERVER"
        PROVE  k \in 1..Len(s) /\ t[k] = s[k]
    <2>1. CASE k <= Len(s)
      BY <1>1, <2>1
    <2>2. CASE ~(k <= Len(s))
      <3>1. k - Len(s) \in 1..Len(m) /\ t[k] = m[k - Len(s)]
        BY <1>1, <2>2
      <3> QED
        BY <1>2, <3>1 DEF Idle
    <2> QED
      BY <2>1, <2>2
  <1>3. ASSUME NEW k \in 1..Len(s) PROVE k \in 1..Len(t) /\ t[k] = s[k]
    BY <1>1
  <1>4. ASSUME NEW i PROVE NewsFree(s, i) <=> NewsFree(t, i)
    BY <1>2, <1>3 DEF NewsFree
  <1>5. ASSUME NEW i PROVE SameNews(s, i, t, i)
    <2>1. ASSUME NEW k \in 1..Len(t), k > i, News(t[k]), NewsFree(t, k)
          PROVE  \E l \in 1..Len(s) : /\ l > i /\ News(s[l])
                                      /\ NewsFree(s, l) /\ s[l].cmd = t[k].cmd
      <3>1. k \in 1..Len(s) /\ t[k] = s[k]
        BY <1>2, <2>1
      <3>2. NewsFree(s, k)
        BY <1>4, <2>1
      <3> QED
        BY <2>1, <3>1, <3>2
    <2> QED
      BY <1>4, <2>1 DEF SameNews
  <1>6. ASSUME NEW i, NEW token, Carries(t, i, token) PROVE Carries(s, i, token)
    BY <1>2, <1>6 DEF Carries
  <1>7. Like(s, t)
    BY <1>5, <1>6 DEF Like
  <1> QED
    BY <1>7 DEF t

\* The network damages datagrams that bring no news.
LEMMA LostLike ==
  ASSUME NEW s \in Seq(Msgs), NEW i \in 1..Len(s), ~News(s[i])
  PROVE  RemoveAt(s, i) \in Seq(Msgs) /\ Like(s, RemoveAt(s, i))
  <1> DEFINE t == RemoveAt(s, i)
             g == [k \in 1..(Len(s) - 1) |-> IF k < i THEN k ELSE k + 1]
  <1>1. Len(s) \in Nat /\ i \in Nat /\ 1 <= i /\ i <= Len(s)
    BY LenProperties
  <1>2. t \in Seq(Msgs)
    BY PartsOkay
  <1>3. /\ Len(t) = Len(s) - 1
        /\ \A k \in 1..(Len(s) - 1) : t[k] = IF k < i THEN s[k] ELSE s[k + 1]
    <2> DEFINE a == SubSeq(s, 1, i - 1)
               b == SubSeq(s, i + 1, Len(s))
    <2>1. /\ a \in Seq(Msgs) /\ Len(a) = i - 1 /\ \A k \in 1..(i - 1) : a[k] = s[k]
      BY <1>1, SubSeqProperties
    <2>2. /\ b \in Seq(Msgs) /\ Len(b) = Len(s) - i
          /\ \A k \in 1..(Len(s) - i) : b[k] = s[i + k]
      BY <1>1, SubSeqProperties
    <2>3. t = a \o b
      BY DEF RemoveAt
    <2> HIDE DEF a, b, t
    <2>4. /\ Len(t) = Len(a) + Len(b)
          /\ \A k \in 1..(Len(a) + Len(b)) : t[k] = IF k <= Len(a) THEN a[k] ELSE b[k - Len(a)]
      BY <2>1, <2>2, <2>3, ConcatProperties
    <2>5. Len(t) = Len(s) - 1
      BY <1>1, <2>1, <2>2, <2>4
    <2>6. ASSUME NEW k \in 1..(Len(s) - 1)
          PROVE  t[k] = IF k < i THEN s[k] ELSE s[k + 1]
      <3>1. CASE k < i
        <4>1. k \in 1..(i - 1) /\ k <= Len(a) /\ k \in 1..(Len(a) + Len(b))
          BY <1>1, <2>1, <2>2, <3>1
        <4>2. t[k] = a[k] /\ a[k] = s[k]
          BY <2>1, <2>4, <4>1
        <4> QED
          BY <3>1, <4>2
      <3>2. CASE ~(k < i)
        <4>1. k - (i - 1) \in 1..(Len(s) - i) /\ t[k] = b[k - (i - 1)]
          BY <1>1, <2>1, <2>2, <2>4, <3>2
        <4>2. i + (k - (i - 1)) = k + 1
          BY <1>1
        <4> QED
          BY <2>2, <3>2, <4>1, <4>2
      <3> QED
        BY <3>1, <3>2
    <2> QED
      BY <2>5, <2>6
  <1>4. g \in [1..(Len(s) - 1) -> 1..Len(s)]
    BY <1>1
  <1>5. \A k \in 1..(Len(s) - 1) : g[k] = IF k < i THEN k ELSE k + 1
    OBVIOUS
  <1> HIDE DEF t, g
  <1>6. ASSUME NEW l \in 1..Len(s), News(s[l])
        PROVE  \E k \in 1..(Len(s) - 1) : g[k] = l
    <2>1. CASE l < i
      <3>1. l \in 1..(Len(s) - 1) /\ g[l] = l
        BY <1>1, <1>5, <2>1
      <3> QED
        BY <3>1
    <2>2. CASE l > i
      <3>1. l - 1 \in 1..(Len(s) - 1) /\ g[l - 1] = l
        BY <1>1, <1>5, <2>2
      <3> QED
        BY <3>1
    <2>3. l # i
      BY <1>6
    <2> QED
      BY <1>1, <2>1, <2>2, <2>3
  <1>7. \A j, k \in 1..(Len(s) - 1) : k > j <=> g[k] > g[j]
    BY <1>1, <1>5
  <1>8. \A k \in 1..(Len(s) - 1) : t[k] = s[g[k]]
    BY <1>3, <1>5
  <1>9. Placed(s, t, g)
    BY <1>3, <1>4, <1>6, <1>7, <1>8 DEF Placed
  <1>10. Like(s, t)
    BY <1>2, <1>9, PlacedLike
  <1> QED
    BY <1>2, <1>10 DEF t

LEMMA DoubledLike ==
  ASSUME NEW s \in Seq(Msgs), NEW i \in 1..Len(s), ~News(s[i])
  PROVE  InsertAt(s, i, s[i]) \in Seq(Msgs) /\ Like(s, InsertAt(s, i, s[i]))
  <1> DEFINE t == InsertAt(s, i, s[i])
             g == [k \in 1..(Len(s) + 1) |-> IF k <= i THEN k ELSE k - 1]
  <1>1. Len(s) \in Nat /\ i \in Nat /\ 1 <= i /\ i <= Len(s) /\ s[i] \in Msgs
    BY LenProperties, ElementOfSeq
  <1>2. t \in Seq(Msgs)
    BY PartsOkay
  <1>3. /\ Len(t) = Len(s) + 1
        /\ \A k \in 1..(Len(s) + 1) : t[k] = IF k <= i THEN s[k] ELSE s[k - 1]
    <2> DEFINE a == SubSeq(s, 1, i - 1)
               b == SubSeq(s, i, Len(s))
               c == a \o <<s[i]>>
    <2>1. /\ a \in Seq(Msgs) /\ Len(a) = i - 1 /\ \A k \in 1..(i - 1) : a[k] = s[k]
      BY <1>1, SubSeqProperties
    <2>2. /\ b \in Seq(Msgs) /\ Len(b) = Len(s) - i + 1
          /\ \A k \in 1..(Len(s) - i + 1) : b[k] = s[i + k - 1]
      BY <1>1, SubSeqProperties
    <2>3. /\ c \in Seq(Msgs) /\ Len(c) = i
          /\ \A k \in 1..i : c[k] = s[k]
      <3> HIDE DEF a
      <3>1. <<s[i]>> \in Seq(Msgs) /\ Len(<<s[i]>>) = 1 /\ <<s[i]>>[1] = s[i]
        BY <1>1
      <3>2. /\ c \in Seq(Msgs) /\ Len(c) = Len(a) + 1
            /\ \A k \in 1..(Len(a) + 1) :
                   c[k] = IF k <= Len(a) THEN a[k] ELSE <<s[i]>>[k - Len(a)]
        BY <2>1, <3>1, ConcatProperties
      <3> HIDE DEF c
      <3>3. ASSUME NEW k \in 1..i PROVE c[k] = s[k]
        <4>1. CASE k <= i - 1
          BY <1>1, <2>1, <3>2, <4>1
        <4>2. CASE ~(k <= i - 1)
          <5>1. k = i /\ k - Len(a) = 1 /\ c[k] = <<s[i]>>[k - Len(a)]
            BY <1>1, <2>1, <3>2, <4>2
          <5> QED
            BY <3>1, <5>1
        <4> QED
          BY <4>1, <4>2
      <3> QED
        BY <1>1, <2>1, <3>2, <3>3
    <2>4. t = c \o b
      BY DEF InsertAt
    <2> HIDE DEF a, b, c, t
    <2>5. /\ Len(t) = Len(c) + Len(b)
          /\ \A k \in 1..(Len(c) + Len(b)) : t[k] = IF k <= Len(c) THEN c[k] ELSE b[k - Len(c)]
      BY <2>2, <2>3, <2>4, ConcatProperties
    <2>6. Len(t) = Len(s) + 1
      BY <1>1, <2>2, <2>3, <2>5
    <2>7. ASSUME NEW k \in 1..(Len(s) + 1)
          PROVE  t[k] = IF k <= i THEN s[k] ELSE s[k - 1]
      <3>1. CASE k <= i
        BY <1>1, <2>2, <2>3, <2>5, <3>1
      <3>2. CASE ~(k <= i)
        <4>1. k - i \in 1..(Len(s) - i + 1) /\ t[k] = b[k - i]
          BY <1>1, <2>2, <2>3, <2>5, <3>2
        <4>2. i + (k - i) - 1 = k - 1
          BY <1>1
        <4> QED
          BY <2>2, <3>2, <4>1, <4>2
      <3> QED
        BY <3>1, <3>2
    <2> QED
      BY <2>6, <2>7
  <1>4. g \in [1..(Len(s) + 1) -> 1..Len(s)]
    BY <1>1
  <1>5. \A k \in 1..(Len(s) + 1) : g[k] = IF k <= i THEN k ELSE k - 1
    OBVIOUS
  <1> HIDE DEF t, g
  <1>6. ASSUME NEW l \in 1..Len(s), News(s[l])
        PROVE  \E k \in 1..(Len(s) + 1) : g[k] = l
    <2>1. CASE l <= i
      <3>1. l \in 1..(Len(s) + 1) /\ g[l] = l
        BY <1>1, <1>5, <2>1
      <3> QED
        BY <3>1
    <2>2. CASE l > i
      <3>1. l + 1 \in 1..(Len(s) + 1) /\ g[l + 1] = l
        BY <1>1, <1>5, <2>2
      <3> QED
        BY <3>1
    <2> QED
      BY <1>1, <2>1, <2>2
  <1>7. \A k \in 1..(Len(s) + 1) : t[k] = s[g[k]]
    BY <1>3, <1>5
  <1>8. ASSUME NEW j \in 1..(Len(s) + 1), NEW k \in 1..(Len(s) + 1), News(t[k])
        PROVE  k > j <=> g[k] > g[j]
    <2>1. g[k] # i
      BY <1>7, <1>8
    <2> QED
      BY <1>1, <1>5, <2>1
  <1>9. Placed(s, t, g)
    BY <1>3, <1>4, <1>6, <1>7, <1>8 DEF Placed
  <1>10. Like(s, t)
    BY <1>2, <1>9, PlacedLike
  <1> QED
    BY <1>2, <1>10 DEF t

LEMMA OvertakenLike ==
  ASSUME NEW s \in Seq(Msgs), NEW i \in 1..Len(s), i > 1, ~News(s[i]), ~News(s[i - 1])
  PROVE  LET t == [s EXCEPT ![i - 1] = s[i], ![i] = s[i - 1]]
         IN  t \in Seq(Msgs) /\ Like(s, t)
  <1> DEFINE t == [s EXCEPT ![i - 1] = s[i], ![i] = s[i - 1]]
             g == [k \in 1..Len(s) |-> IF k = i THEN i - 1 ELSE IF k = i - 1 THEN i ELSE k]
  <1>1. Len(s) \in Nat /\ i \in Nat /\ i - 1 \in 1..Len(s) /\ i <= Len(s)
    BY LenProperties
  <1>2. t \in Seq(Msgs)
    BY SwapOkay
  <1>3. DOMAIN s = 1..Len(s) /\ DOMAIN t = DOMAIN s
    BY LenProperties
  <1>4. Len(t) = Len(s)
    BY <1>1, <1>2, <1>3, LenProperties
  <1>5. \A k \in 1..Len(s) : g[k] = IF k = i THEN i - 1 ELSE IF k = i - 1 THEN i ELSE k
    OBVIOUS
  <1>6. g \in [1..Len(s) -> 1..Len(s)]
    BY <1>1
  <1>7. ASSUME NEW k \in 1..Len(s) PROVE t[k] = s[g[k]]
    BY <1>1, <1>3, <1>5
  <1> HIDE DEF t, g
  <1>8. ASSUME NEW l \in 1..Len(s), News(s[l]) PROVE \E k \in 1..Len(s) : g[k] = l
    <2>1. l # i /\ l # i - 1
      BY <1>8
    <2> QED
      BY <1>5, <2>1
  <1>9. ASSUME NEW j \in 1..Len(s), NEW k \in 1..Len(s), News(t[k])
        PROVE  k > j <=> g[k] > g[j]
    <2>1. g[k] # i /\ g[k] # i - 1
      BY <1>7, <1>9
    <2> QED
      BY <1>1, <1>5, <2>1
  <1>10. Placed(s, t, g)
    BY <1>4, <1>6, <1>7, <1>8, <1>9 DEF Placed
  <1>11. Like(s, t)
    BY <1>2, <1>10, PlacedLike
  <1> QED
    BY <1>2, <1>11 DEF t

\* What is told when news has been read, and where the datagrams behind it are.
LEMMA TailTold ==
  ASSUME NEW s \in Seq(Msgs), s # <<>>
  PROVE  /\ Tail(s) \in Seq(Msgs)
         /\ \A i \in Nat : NewsFree(s, i + 1) => NewsFree(Tail(s), i)
         /\ \A i \in Nat : \A token : Carries(Tail(s), i, token) => Carries(s, i + 1, token)
         /\ News(Head(s)) => ~NewsFree(s, 0)
  <1>1. /\ Tail(s) \in Seq(Msgs) /\ Len(s) \in Nat \ {0}
        /\ Len(Tail(s)) = Len(s) - 1 /\ Head(s) = s[1]
        /\ \A i \in 1..(Len(s) - 1) : Tail(s)[i] = s[i + 1]
    BY HeadTailProperties, EmptySeq, LenProperties
  <1>2. ASSUME NEW i \in Nat, NewsFree(s, i + 1) PROVE NewsFree(Tail(s), i)
    BY <1>1, <1>2 DEF NewsFree
  <1>3. ASSUME NEW i \in Nat, NEW token, Carries(Tail(s), i, token)
        PROVE  Carries(s, i + 1, token)
    BY <1>1, <1>3 DEF Carries
  <1>4. News(Head(s)) => ~NewsFree(s, 0)
    BY <1>1 DEF NewsFree
  <1> QED
    BY <1>1, <1>2, <1>3, <1>4

LEMMA TailTells ==
  ASSUME NEW s \in Seq(Msgs), s # <<>>, NEW i \in Nat, NEW b, NEW v, Told(s, i + 1, b, v)
  PROVE  Told(Tail(s), i, b, v)
  <1>1. /\ Tail(s) \in Seq(Msgs) /\ Len(s) \in Nat \ {0}
        /\ Len(Tail(s)) = Len(s) - 1
        /\ \A k \in 1..(Len(s) - 1) : Tail(s)[k] = s[k + 1]
    BY HeadTailProperties, EmptySeq, LenProperties
  <1>2. ASSUME NEW j \in Nat, NewsFree(Tail(s), j) PROVE NewsFree(s, j + 1)
    <2>1. ASSUME NEW k \in 1..Len(s), k > j + 1 PROVE ~News(s[k])
      <3>1. k - 1 \in 1..(Len(s) - 1) /\ k - 1 > j /\ Tail(s)[k - 1] = s[k]
        BY <1>1, <2>1
      <3> QED
        BY <1>1, <1>2, <3>1 DEF NewsFree
    <2> QED
      BY <2>1 DEF NewsFree
  <1>3. NewsFree(Tail(s), i) => (v <=> b)
    BY <1>2 DEF Told
  <1>4. ASSUME NEW k \in 1..Len(Tail(s)), k > i, News(Tail(s)[k]), NewsFree(Tail(s), k)
        PROVE  v <=> Tail(s)[k].cmd = "USER"
    <2>1. k + 1 \in 1..Len(s) /\ k + 1 > i + 1 /\ s[k + 1] = Tail(s)[k] /\ k \in Nat
      BY <1>1, <1>4
    <2>2. NewsFree(s, k + 1)
      BY <1>2, <1>4, <2>1
    <2> QED
      BY <1>4, <2>1, <2>2 DEF Told
  <1> QED
    BY <1>3, <1>4 DEF Told

\* The news at the head is what the reader believes from then on.
LEMMA HeadTells ==
  ASSUME NEW s \in Seq(Msgs), s # <<>>, News(Head(s)), NEW b, NEW v, Told(s, 0, b, v)
  PROVE  Told(Tail(s), 0, Head(s).cmd = "USER", v)
  <1>1. /\ Len(s) \in Nat \ {0} /\ Head(s) = s[1] /\ 0 + 1 = 1 /\ 0 \in Nat
    BY HeadTailProperties, EmptySeq, LenProperties
  <1>2. Told(s, 1, Head(s).cmd = "USER", v)
    <2>1. NewsFree(s, 1) => (v <=> Head(s).cmd = "USER")
      BY <1>1 DEF Told
    <2>2. \A k \in 1..Len(s) : k > 1 => k > 0
      BY <1>1
    <2> QED
      BY <2>1, <2>2 DEF Told
  <1> QED
    BY <1>1, <1>2, TailTells

\* The last datagram is news, and decides; or there is none to come.
LEMMA LastTells ==
  ASSUME NEW t \in Seq(Msgs), NEW i \in Nat, i < Len(t), News(t[Len(t)]),
         NEW b, NEW v, v <=> t[Len(t)].cmd = "USER"
  PROVE  Told(t, i, b, v)
  <1>1. Len(t) \in Nat /\ Len(t) \in 1..Len(t)
    BY LenProperties
  <1>2. ~NewsFree(t, i)
    BY <1>1 DEF NewsFree
  <1>3. \A k \in 1..Len(t) : NewsFree(t, k) => k = Len(t)
    BY <1>1 DEF NewsFree
  <1> QED
    BY <1>2, <1>3 DEF Told

LEMMA NothingTells ==
  ASSUME NEW t, NEW i, NEW b, NEW v, NewsFree(t, i), v <=> b
  PROVE  Told(t, i, b, v)
  BY DEF Told, NewsFree

LEMMA SentCarries ==
  ASSUME NEW s \in Seq(Msgs), NEW m \in Seq(Msgs), NEW i, NEW token, Carries(s \o m, i, token)
  PROVE  Carries(s, i, token) \/ (i > Len(s) /\ Carries(m, i - Len(s), token))
  <1>1. /\ Len(s \o m) = Len(s) + Len(m) /\ Len(s) \in Nat /\ Len(m) \in Nat
        /\ \A k \in 1..(Len(s) + Len(m)) :
               (s \o m)[k] = IF k <= Len(s) THEN s[k] ELSE m[k - Len(s)]
    BY ConcatProperties, LenProperties
  <1> QED
    BY <1>1 DEF Carries

\* What p tells is not changed when n is not connected and reads on.
LEMMA ReadOn ==
  ASSUME NEW n, NEW p, NEW e, NEW f, NEW out, NEW in \in Seq(Msgs), NEW u, NEW w, NEW q,
         Tells(p, n, f, e, in, out, w, u, q),
         NEW d, d.state \notin {"waitpwd", "connect"}, e.state = "connect" => f.state # "connect",
         NEW out1, out1 = out \/ f.state # "connect",
         NEW u1, NEW in1, in1 = in \/ (in # <<>> /\ in1 = Tail(in))
  PROVE  Tells(p, n, f, d, in1, out1, w, u1, q)
  <1>1. /\ f.state = "waitpwd" => f.token # 0
        /\ f.token # 0 => f.state \in {"waitpwd", "connect"}
    BY DEF Tells
  <1>2. ASSUME f.state # "connect", NEW i \in Nat, NEW t \in q, Carries(in1, i, t)
        PROVE  NewsFree(in1, i)
    <2>1. CASE in1 = in
      BY <1>2, <2>1 DEF Tells
    <2>2. CASE in # <<>> /\ in1 = Tail(in)
      <3>1. Carries(in, i + 1, t) /\ i + 1 \in Nat
        BY <1>2, <2>2, TailTold
      <3>2. NewsFree(in, i + 1)
        BY <1>2, <3>1 DEF Tells
      <3> QED
        BY <2>2, <3>2, TailTold
    <2> QED
      BY <2>1, <2>2
  <1>3. ASSUME f.state = "connect", NEW i \in Nat, NEW t \in Awaited(d, q), Carries(in1, i, t)
        PROVE  Told(in1, i, FALSE, p \in w) /\ NewsFree(out1, 0) /\ n \notin w
    <2>1. t \in Awaited(e, q) /\ e.state # "connect" /\ out1 = out
      BY <1>3 DEF Awaited
    <2>2. CASE in1 = in
      BY <1>3, <2>1, <2>2 DEF Tells
    <2>3. CASE in # <<>> /\ in1 = Tail(in)
      <3>1. Carries(in, i + 1, t) /\ i + 1 \in Nat
        BY <1>3, <2>3, TailTold
      <3>2. Told(in, i + 1, FALSE, p \in w) /\ NewsFree(out, 0) /\ n \notin w
        BY <1>3, <2>1, <3>1 DEF Tells
      <3> QED
        BY <2>1, <2>3, <3>2, TailTells
    <2> QED
      BY <2>2, <2>3
  <1> QED
    BY <1>1, <1>2, <1>3 DEF Tells

\* n gives up its link, whatever it sends: it has told nothing.
LEMMA GoneOn ==
  ASSUME NEW n, NEW p, NEW e, NEW f, NEW out, NEW in \in Seq(Msgs), NEW u, NEW w,
         NEW o, NEW q, Pair(n, p, e, f, out, in, u, w, o, q), e.state = "connect",
         NEW d, d.token = 0, d.state \notin {"waitpwd", "connect"},
         NEW out1, NEW u1, NEW in1, in1 = in \/ (in # <<>> /\ in1 = Tail(in))
  PROVE  Pair(n, p, d, f, out1, in1, u1, w, {}, q)
  <1>1. Tells(n, p, d, f, out1, in1, u1, w, {})
    BY DEF Tells
  <1>2. Tells(p, n, f, e, in, out, w, u, q)
    BY DEF Pair
  <1>3. CASE f.state = "connect"
    <2>1. q = {} /\ Awaited(d, q) = {}
      BY <1>2, <1>3 DEF Tells, Awaited
    <2>2. Tells(p, n, f, d, in1, out1, w, u1, q)
      BY <1>3, <2>1 DEF Tells
    <2> QED
      BY <1>1, <2>2 DEF Pair
  <1>4. CASE f.state # "connect"
    <2>1. Tells(p, n, f, d, in1, out1, w, u1, q)
      BY <1>2, <1>4, ReadOn
    <2> QED
      BY <1>1, <2>1 DEF Pair
  <1> QED
    BY <1>3, <1>4

\* n has no link, forgets calls, or gives up waiting for an answer.
LEMMA GoneOff ==
  ASSUME NEW n, NEW p, NEW e, NEW f, NEW out, NEW in \in Seq(Msgs), NEW u, NEW w,
         NEW o, NEW q, Pair(n, p, e, f, out, in, u, w, o, q), e.state # "connect",
         NEW d, d.token = 0, d.state \notin {"waitpwd", "connect"},
         NEW o1, o1 \subseteq o, NEW u1, NEW in1, in1 = in \/ (in # <<>> /\ in1 = Tail(in))
  PROVE  Pair(n, p, d, f, out, in1, u1, w, o1, q)
  <1>1. Tells(n, p, d, f, out, in1, u1, w, o1)
    <2>1. Tells(n, p, e, f, out, in, u, w, o)
      BY DEF Pair
    <2> QED
      BY <2>1 DEF Tells
  <1>2. Tells(p, n, f, e, in, out, w, u, q)
    BY DEF Pair
  <1>3. Tells(p, n, f, d, in1, out, w, u1, q)
    BY <1>2, ReadOn
  <1> QED
    BY <1>1, <1>3 DEF Pair

\* A linked server tells of its user; one that is not linked need not.
LEMMA UserTold ==
  ASSUME NEW n, NEW p, NEW e, NEW f, NEW out \in Seq(Msgs), NEW in, NEW u, NEW w,
         NEW o, NEW q, Pair(n, p, e, f, out, in, u, w, o, q), e.state = "connect",
         NEW x \in Msgs, News(x), NEW u1, n \in u1 <=> x.cmd = "USER", p \in u1 <=> p \in u
  PROVE  Pair(n, p, e, f, out \o <<x>>, in, u1, w, o, q)
  <1> DEFINE t == out \o <<x>>
             m == <<x>>
  <1>1. m \in Seq(Msgs) /\ Len(m) = 1 /\ m[1] = x
    OBVIOUS
  <1>2. Len(out) \in Nat
    BY LenProperties
  <1>3. x.cmd # "SERVER"
    BY DEF News
  <1> HIDE DEF m
  <1>4. t \in Seq(Msgs) /\ Len(t) = Len(out) + 1 /\ t[Len(t)] = x
    <2>1. /\ out \o m \in Seq(Msgs) /\ Len(out \o m) = Len(out) + Len(m)
          /\ \A k \in 1..(Len(out) + Len(m)) :
                 (out \o m)[k] = IF k <= Len(out) THEN out[k] ELSE m[k - Len(out)]
      BY <1>1, ConcatProperties
    <2>2. t = out \o m
      BY DEF m
    <2> HIDE DEF t
    <2>3. t[Len(out) + 1] = m[Len(out) + 1 - Len(out)] /\ Len(out) + 1 - Len(out) = 1
      BY <1>1, <1>2, <2>1, <2>2
    <2> QED
      BY <1>1, <2>1, <2>2, <2>3
  <1>5. ASSUME NEW i, NEW token, Carries(t, i, token) PROVE Carries(out, i, token)
    <2>1. Carries(out \o m, i, token)
      BY <1>5 DEF m
    <2>2. ~Carries(m, i - Len(out), token)
      BY <1>1, <1>3 DEF Carries
    <2> QED
      BY <1>1, <2>1, <2>2, SentCarries
  <1> HIDE DEF t
  <1>6. ASSUME NEW i \in Nat, i <= Len(out), NEW b PROVE Told(t, i, b, n \in u1)
    <2>1. i < Len(t) /\ News(t[Len(t)]) /\ (n \in u1 <=> t[Len(t)].cmd = "USER")
      BY <1>2, <1>4, <1>6
    <2> QED
      BY <1>4, <2>1, LastTells
  <1>7. Tells(n, p, e, f, t, in, u1, w, o)
    <2>1. Tells(n, p, e, f, out, in, u, w, o)
      BY DEF Pair
    <2>2. ASSUME f.state # "connect", NEW i \in Nat, NEW token \in Awaited(f, o),
                 Carries(t, i, token)
          PROVE  Told(t, i, FALSE, n \in u1) /\ NewsFree(in, 0) /\ p \notin u1
      <3>1. Carries(out, i, token) /\ i <= Len(out)
        BY <1>5, <2>2, <1>2 DEF Carries
      <3>2. NewsFree(in, 0) /\ p \notin u1
        BY <2>1, <2>2, <3>1 DEF Tells
      <3> QED
        BY <1>6, <3>1, <3>2
    <2>3. Told(t, 0, n \in w, n \in u1)
      BY <1>2, <1>6
    <2>4. f.state = "connect" => o = {}
      BY <2>1 DEF Tells
    <2>5. f.state = "waitpwd" /\ e.state = "waitpwd" => FALSE
      OBVIOUS
    <2> QED
      BY <2>1, <2>2, <2>3 DEF Tells
  <1>8. Tells(p, n, f, e, in, t, w, u1, q)
    <2>1. Tells(p, n, f, e, in, out, w, u, q)
      BY DEF Pair
    <2> QED
      BY <2>1 DEF Tells
  <1>9. Pair(n, p, e, f, t, in, u1, w, o, q)
    BY <1>7, <1>8 DEF Pair
  <1> QED
    BY <1>9 DEF t

LEMMA UserUntold ==
  ASSUME NEW n, NEW p, NEW e, NEW f, NEW out, NEW in, NEW u, NEW w,
         NEW o, NEW q, Pair(n, p, e, f, out, in, u, w, o, q), e.state # "connect",
         NEW u1, p \in u1 <=> p \in u
  PROVE  Pair(n, p, e, f, out, in, u1, w, o, q)
  BY DEF Pair, Tells

\* n reads news of the user of p.
LEMMA NewsRead ==
  ASSUME NEW n, NEW p, NEW e, NEW f, NEW out, NEW in \in Seq(Msgs), NEW u, NEW w,
         NEW o, NEW q, Pair(n, p, e, f, out, in, u, w, o, q), in # <<>>, News(Head(in)),
         NEW u1, n \in u1 <=> n \in u,
         e.state = "connect" => (p \in u1 <=> Head(in).cmd = "USER")
  PROVE  Pair(n, p, e, f, out, Tail(in), u1, w, o, q)
  <1> DEFINE t == Tail(in)
  <1>1. /\ \A i \in Nat : NewsFree(in, i + 1) => NewsFree(t, i)
        /\ \A i \in Nat : \A token : Carries(t, i, token) => Carries(in, i + 1, token)
        /\ ~NewsFree(in, 0)
    BY TailTold
  <1>2. ASSUME NEW b, NEW v, Told(in, 0, b, v) PROVE Told(t, 0, Head(in).cmd = "USER", v)
    BY <1>2, HeadTells
  <1>3. ASSUME NEW i \in Nat, NEW b, NEW v, Told(in, i + 1, b, v) PROVE Told(t, i, b, v)
    BY <1>3, TailTells
  <1> HIDE DEF t
  <1>4. Tells(n, p, e, f, out, t, u1, w, o)
    <2>1. Tells(n, p, e, f, out, in, u, w, o)
      BY DEF Pair
    <2>2. ASSUME e.state = "waitpwd", f.state = "waitpwd", NEW i \in Nat, NEW j \in Nat
          PROVE  ~(Carries(out, i, f.token) /\ Carries(t, j, e.token))
      <3>1. j + 1 \in Nat /\ (Carries(t, j, e.token) => Carries(in, j + 1, e.token))
        BY <1>1
      <3> QED
        BY <2>1, <2>2, <3>1 DEF Tells
    <2>3. e.state = "connect" /\ f.state # "connect" =>
              \A i \in Nat : \A token \in Awaited(f, o) : ~Carries(out, i, token)
      BY <1>1, <2>1 DEF Tells
    <2>4. e.state = "connect" /\ f.state = "connect" =>
              o = {} /\ Told(out, 0, n \in w, n \in u1)
      <3>1. (n \in u1) = (n \in u)
        OBVIOUS
      <3> QED
        BY <2>1, <3>1 DEF Tells
    <2> QED
      BY <2>1, <2>2, <2>3, <2>4 DEF Tells
  <1>5. Tells(p, n, f, e, t, out, w, u1, q)
    <2>1. Tells(p, n, f, e, in, out, w, u, q)
      BY DEF Pair
    <2>2. ASSUME f.state # "connect", NEW i \in Nat, NEW token \in q, Carries(t, i, token)
          PROVE  NewsFree(t, i)
      <3>1. Carries(in, i + 1, token) /\ i + 1 \in Nat
        BY <1>1, <2>2
      <3>2. NewsFree(in, i + 1)
        BY <2>1, <2>2, <3>1 DEF Tells
      <3> QED
        BY <1>1, <3>2
    <2>3. ASSUME f.state = "waitpwd", e.state = "waitpwd", NEW i \in Nat, NEW j \in Nat
          PROVE  ~(Carries(t, i, e.token) /\ Carries(out, j, f.token))
      <3>1. i + 1 \in Nat /\ (Carries(t, i, e.token) => Carries(in, i + 1, e.token))
        BY <1>1
      <3> QED
        BY <2>1, <2>3, <3>1 DEF Tells
    <2>4. ASSUME f.state = "connect", e.state # "connect", NEW i \in Nat,
                 NEW token \in Awaited(e, q), Carries(t, i, token)
          PROVE  Told(t, i, FALSE, p \in w) /\ NewsFree(out, 0) /\ n \notin w
      <3>1. Carries(in, i + 1, token) /\ i + 1 \in Nat
        BY <1>1, <2>4
      <3>2. Told(in, i + 1, FALSE, p \in w) /\ NewsFree(out, 0) /\ n \notin w
        BY <2>1, <2>4, <3>1 DEF Tells
      <3> QED
        BY <1>3, <3>2
    <2>5. ASSUME f.state = "connect", e.state = "connect"
          PROVE  q = {} /\ Told(t, 0, p \in u1, p \in w)
      <3>1. q = {} /\ Told(in, 0, p \in u, p \in w)
        BY <2>1, <2>5 DEF Tells
      <3>2. Told(t, 0, Head(in).cmd = "USER", p \in w)
        BY <1>2, <3>1
      <3>3. p \in u1 <=> Head(in).cmd = "USER"
        BY <2>5
      <3> HIDE DEF t
      <3> QED
        BY <3>1, <3>2, <3>3 DEF Told
    <2> QED
      BY <2>1, <2>2, <2>3, <2>4, <2>5 DEF Tells
  <1>6. Pair(n, p, e, f, out, t, u1, w, o, q)
    BY <1>4, <1>5 DEF Pair
  <1> QED
    BY <1>6 DEF t

\* Datagrams that bring no news follow.
LEMMA QuietSent ==
  ASSUME NEW s \in Seq(Msgs), NEW m \in Seq(Msgs), \A k \in 1..Len(m) : ~News(m[k]),
         NEW i, NewsFree(s, i)
  PROVE  NewsFree(s \o m, i)
  <1>1. /\ Len(s \o m) = Len(s) + Len(m) /\ Len(s) \in Nat /\ Len(m) \in Nat
        /\ \A k \in 1..(Len(s) + Len(m)) :
               (s \o m)[k] = IF k <= Len(s) THEN s[k] ELSE m[k - Len(s)]
    BY ConcatProperties, LenProperties
  <1>2. ASSUME NEW k \in 1..Len(s \o m), k > i PROVE ~News((s \o m)[k])
    <2>1. CASE k <= Len(s)
      BY <1>1, <1>2, <2>1 DEF NewsFree
    <2>2. CASE ~(k <= Len(s))
      <3>1. k - Len(s) \in 1..Len(m) /\ (s \o m)[k] = m[k - Len(s)]
        BY <1>1, <2>2
      <3> QED
        BY <3>1
    <2> QED
      BY <2>1, <2>2
  <1> QED
    BY <1>2 DEF NewsFree

\* A call, or the answer to one
Call(token) == <<Msg("PASS", 0), Msg("SERVER", token)>>

LEMMA CallSent ==
  ASSUME NEW s \in Seq(Msgs), NEW token \in Tokens
  PROVE  /\ Call(token) \in Seq(Msgs) /\ s \o Call(token) \in Seq(Msgs)
         /\ Len(s \o Call(token)) \in Nat /\ NewsFree(s \o Call(token), Len(s \o Call(token)))
         /\ \A i : NewsFree(s, i) => NewsFree(s \o Call(token), i)
         /\ \A i, t : Carries(s \o Call(token), i, t) =>
                Carries(s, i, t) \/ (i = Len(s \o Call(token)) /\ t = token)
  <1> DEFINE m == Call(token)
             a == s \o m
  <1>1. /\ m \in Seq(Msgs) /\ Len(m) = 2
        /\ m[1] = Msg("PASS", 0) /\ m[2] = Msg("SERVER", token)
    BY DEF Msgs, Msg, Commands, Call
  <1> HIDE DEF m
  <1>2. /\ a \in Seq(Msgs) /\ Len(a) = Len(s) + Len(m)
        /\ \A k \in 1..(Len(s) + Len(m)) :
               a[k] = IF k <= Len(s) THEN s[k] ELSE m[k - Len(s)]
    BY <1>1, ConcatProperties
  <1>3. Len(s) \in Nat /\ Len(a) \in Nat /\ NewsFree(a, Len(a))
    BY <1>2, LenProperties DEF NewsFree
  <1>4. \A k \in 1..Len(m) : ~News(m[k])
    BY <1>1 DEF News, Msg
  <1>5. \A i : NewsFree(s, i) => NewsFree(a, i)
    BY <1>1, <1>4, QuietSent
  <1>6. ASSUME NEW i, NEW t, Carries(a, i, t)
        PROVE  Carries(s, i, t) \/ (i = Len(a) /\ t = token)
    <2>1. Carries(s, i, t) \/ (i > Len(s) /\ Carries(m, i - Len(s), t))
      BY <1>1, <1>6, SentCarries
    <2>2. CASE i > Len(s) /\ Carries(m, i - Len(s), t)
      <3>1. i \in 1..Len(a)
        BY <1>6 DEF Carries
      <3>2. i - Len(s) = 2 /\ t = token
        BY <1>1, <2>2 DEF Carries, Msg
      <3> QED
        BY <1>1, <1>2, <1>3, <3>1, <3>2
    <2> QED
      BY <2>1, <2>2
  <1> HIDE DEF a
  <1>7. /\ m \in Seq(Msgs) /\ a \in Seq(Msgs) /\ Len(a) \in Nat /\ NewsFree(a, Len(a))
        /\ \A i : NewsFree(s, i) => NewsFree(a, i)
        /\ \A i, t : Carries(a, i, t) => Carries(s, i, t) \/ (i = Len(a) /\ t = token)
    BY <1>1, <1>2, <1>3, <1>5, <1>6
  <1> QED
    BY <1>7 DEF a, m

\* n calls with a token that nobody uses.
LEMMA Called ==
  ASSUME NEW n, NEW p, NEW e, NEW f, NEW out \in Seq(Msgs), NEW in, NEW u, NEW w,
         NEW o, NEW q, Pair(n, p, e, f, out, in, u, w, o, q), e.state = "call",
         NEW token \in Tokens, \A i : ~Carries(out, i, token) /\ ~Carries(in, i, token),
         NEW d, d.state = "waitpwd", d.token = token,
         NEW t, t = out \o Call(token) \/ t = out
  PROVE  Pair(n, p, d, f, t, in, u, w, o \cup {token}, q)
  <1>1. /\ Len(t) \in Nat /\ NewsFree(t, Len(t))
        /\ \A i : NewsFree(out, i) => NewsFree(t, i)
        /\ \A i, any : Carries(t, i, any) => Carries(out, i, any) \/ (i = Len(t) /\ any = token)
    <2>1. CASE t = out
      BY <2>1, LenProperties DEF NewsFree
    <2>2. CASE t = out \o Call(token)
      BY <2>2, CallSent
    <2> QED
      BY <2>1, <2>2
  <1>2. token # 0
    BY LinkAssumption
  <1>3. Tells(n, p, d, f, t, in, u, w, o \cup {token})
    <2>1. Tells(n, p, e, f, out, in, u, w, o)
      BY DEF Pair
    <2>2. ASSUME NEW i \in Nat, NEW any \in o \cup {token}, Carries(t, i, any)
          PROVE  NewsFree(t, i)
      <3>1. CASE Carries(out, i, any)
        <4>1. any \in o
          BY <3>1
        <4>2. NewsFree(out, i)
          BY <2>1, <3>1, <4>1 DEF Tells
        <4> QED
          BY <1>1, <4>2
      <3> QED
        BY <1>1, <2>2, <3>1
    <2>3. \A j : ~Carries(in, j, d.token)
      OBVIOUS
    <2> QED
      BY <1>2, <2>2, <2>3 DEF Tells
  <1>4. Tells(p, n, f, d, in, t, w, u, q)
    <2>1. Tells(p, n, f, e, in, out, w, u, q)
      BY DEF Pair
    <2>2. ASSUME f.state = "connect", NEW i \in Nat, NEW any \in Awaited(d, q),
                 Carries(in, i, any)
          PROVE  Told(in, i, FALSE, p \in w) /\ NewsFree(t, 0) /\ n \notin w
      <3>1. any \in Awaited(e, q)
        BY <2>2 DEF Awaited
      <3>2. Told(in, i, FALSE, p \in w) /\ NewsFree(out, 0) /\ n \notin w
        BY <2>1, <2>2, <3>1 DEF Tells
      <3> QED
        BY <1>1, <3>2
    <2>3. \A i : ~Carries(in, i, d.token)
      OBVIOUS
    <2> QED
      BY <2>1, <2>2, <2>3 DEF Tells
  <1> QED
    BY <1>3, <1>4 DEF Pair

\* What a server that has just connected tells of its own user
OfOwn(n, u) == IF n \in u THEN <<Msg("USER", n)>> ELSE <<>>

LEMMA OwnTells ==
  ASSUME NEW n \in Nodes, NEW u, NEW s \in Seq(Msgs), NEW i \in Nat, i <= Len(s), NewsFree(s, i)
  PROVE  /\ OfOwn(n, u) \in Seq(Msgs) /\ s \o OfOwn(n, u) \in Seq(Msgs)
         /\ Told(s \o OfOwn(n, u), i, FALSE, n \in u)
         /\ \A k, token : ~Carries(OfOwn(n, u), k, token)
  <1>1. CASE n \in u
    <2> DEFINE x == Msg("USER", n)
               m == <<x>>
    <2>1. x \in Msgs /\ x.cmd = "USER" /\ News(x)
      BY DEF Msgs, Msg, Commands, News
    <2> HIDE DEF x
    <2>2. m \in Seq(Msgs) /\ Len(m) = 1 /\ m[1] = x
      BY <2>1
    <2> HIDE DEF m
    <2>3. OfOwn(n, u) = m
      BY <1>1 DEF OfOwn, m, x
    <2>4. /\ s \o m \in Seq(Msgs) /\ Len(s \o m) = Len(s) + Len(m)
          /\ \A k \in 1..(Len(s) + Len(m)) :
                 (s \o m)[k] = IF k <= Len(s) THEN s[k] ELSE m[k - Len(s)]
      BY <2>2, ConcatProperties
    <2>5. Len(s) \in Nat
      BY LenProperties
    <2>6. Len(s \o m) = Len(s) + 1 /\ (s \o m)[Len(s) + 1] = x
      <3>1. (s \o m)[Len(s) + 1] = m[Len(s) + 1 - Len(s)] /\ Len(s) + 1 - Len(s) = 1
        BY <2>2, <2>4, <2>5
      <3> QED
        BY <2>2, <2>4, <3>1
    <2>7. Told(s \o m, i, FALSE, n \in u)
      <3>1. i < Len(s \o m) /\ (n \in u <=> (s \o m)[Len(s \o m)].cmd = "USER")
        BY <1>1, <2>1, <2>5, <2>6
      <3> QED
        BY <2>1, <2>4, <2>6, <3>1, LastTells
    <2>8. \A k, token : ~Carries(m, k, token)
      BY <2>1, <2>2 DEF Carries
    <2> QED
      BY <2>2, <2>3, <2>4, <2>7, <2>8
  <1>2. CASE n \notin u
    <2>1. OfOwn(n, u) = <<>> /\ s \o <<>> = s /\ <<>> \in Seq(Msgs)
      BY <1>2 DEF OfOwn
    <2>2. Told(s, i, FALSE, n \in u)
      BY <1>2, NothingTells
    <2>3. \A k, token : ~Carries(<<>>, k, token)
      BY DEF Carries
    <2> QED
      BY <2>1, <2>2, <2>3
  <1> QED
    BY <1>1, <1>2

\* What p tells n is not changed when n connects and reads on; and if p is
\* connected n has learnt of p's user all that it will be told.
LEMMA Connected ==
  ASSUME NEW n, NEW p, NEW e, NEW f, NEW out, NEW in \in Seq(Msgs), NEW u, NEW w, NEW q,
         Tells(p, n, f, e, in, out, w, u, q), p \notin u,
         in # <<>>, f.state = "connect" => Told(in, 1, FALSE, p \in w),
         NEW d, d.state = "connect", NEW out1
  PROVE  Tells(p, n, f, d, Tail(in), out1, w, u, IF f.state = "connect" THEN {} ELSE q)
  <1> DEFINE t == Tail(in)
  <1>1. /\ \A i \in Nat : NewsFree(in, i + 1) => NewsFree(t, i)
        /\ \A i \in Nat : \A any : Carries(t, i, any) => Carries(in, i + 1, any)
    BY TailTold
  <1>2. ASSUME f.state = "connect" PROVE Told(t, 0, p \in u, p \in w)
    <2>1. 0 \in Nat /\ 0 + 1 = 1
      OBVIOUS
    <2>2. Told(in, 0 + 1, FALSE, p \in w)
      BY <1>2, <2>1
    <2>3. Told(t, 0, FALSE, p \in w)
      BY <2>1, <2>2, TailTells
    <2> HIDE DEF t
    <2> QED
      BY <2>3 DEF Told
  <1> HIDE DEF t
  <1>3. ASSUME f.state # "connect", NEW i \in Nat, NEW any \in q, Carries(t, i, any)
        PROVE  NewsFree(t, i)
    <2>1. Carries(in, i + 1, any) /\ i + 1 \in Nat
      BY <1>1, <1>3
    <2>2. NewsFree(in, i + 1)
      BY <1>3, <2>1 DEF Tells
    <2> QED
      BY <1>1, <2>2
  <1>4. Tells(p, n, f, d, t, out1, w, u, IF f.state = "connect" THEN {} ELSE q)
    BY <1>2, <1>3 DEF Tells
  <1> QED
    BY <1>4 DEF t

\* n's own token comes back.
LEMMA AnsweredTells ==
  ASSUME NEW n \in Nodes, NEW p, NEW e, NEW f, NEW out \in Seq(Msgs), NEW in \in Seq(Msgs),
         NEW u, NEW w, NEW o, NEW q,
         Pair(n, p, e, f, out, in, u, w, o, q), e.state = "waitpwd", p \notin u,
         in # <<>>, Head(in).cmd = "SERVER", Head(in).arg = e.token,
         NEW d, d.state = "connect", d.token = e.token
  PROVE  Pair(n, p, d, f, out \o OfOwn(n, u), Tail(in), u, w,
              {}, IF f.state = "connect" THEN {} ELSE q)
  <1> DEFINE s == out \o OfOwn(n, u)
  <1>1. /\ Len(out) \in Nat /\ NewsFree(out, Len(out)) /\ Len(out) <= Len(out)
        /\ 0 \in Nat /\ 0 <= Len(out)
        /\ Carries(in, 1, e.token) /\ 1 \in Nat
    BY LenProperties, HeadTailProperties, EmptySeq DEF Carries, NewsFree
  <1>2. /\ OfOwn(n, u) \in Seq(Msgs)
        /\ \A i, token : ~Carries(OfOwn(n, u), i, token)
    BY <1>1, OwnTells
  <1>3. ASSUME NEW i, NEW token, Carries(s, i, token) PROVE Carries(out, i, token)
    BY <1>2, <1>3, SentCarries
  <1>4. ASSUME NewsFree(out, 0) PROVE Told(s, 0, FALSE, n \in u)
    BY <1>1, <1>4, OwnTells
  <1> HIDE DEF s
  <1>5. Tells(n, p, e, f, out, in, u, w, o) /\ Tells(p, n, f, e, in, out, w, u, q)
    BY DEF Pair
  <1>6. ASSUME f.state = "connect"
        PROVE  Told(in, 1, FALSE, p \in w) /\ NewsFree(out, 0) /\ n \notin w
    <2>1. e.token \in Awaited(e, q)
      BY DEF Awaited
    <2> QED
      BY <1>1, <1>5, <1>6, <2>1 DEF Tells
  <1>7. Tells(n, p, d, f, s, Tail(in), u, w, {})
    <2>1. f.state = "waitpwd" => \A i \in Nat : ~Carries(s, i, f.token)
      BY <1>1, <1>3, <1>5 DEF Tells
    <2>2. f.state # "connect" =>
              \A i \in Nat : \A token \in Awaited(f, {}) : ~Carries(s, i, token)
      BY <2>1 DEF Awaited
    <2>3. f.state = "connect" => Told(s, 0, n \in w, n \in u)
      BY <1>4, <1>6 DEF Told
    <2> QED
      BY <2>2, <2>3 DEF Tells
  <1>8. Tells(p, n, f, d, Tail(in), s, w, u, IF f.state = "connect" THEN {} ELSE q)
    BY <1>5, <1>6, Connected
  <1>9. Pair(n, p, d, f, s, Tail(in), u, w, {}, IF f.state = "connect" THEN {} ELSE q)
    BY <1>7, <1>8 DEF Pair
  <1> QED
    BY <1>9 DEF s

\* n accepts a call that is not over.
LEMMA AcceptedTells ==
  ASSUME NEW n \in Nodes, NEW p, NEW e, NEW f, NEW out \in Seq(Msgs), NEW in \in Seq(Msgs),
         NEW u, NEW w, NEW o, NEW q, NEW token \in Tokens,
         Pair(n, p, e, f, out, in, u, w, o, q), e.state # "connect", p \notin u,
         in # <<>>, Head(in).cmd = "SERVER", Head(in).arg = token, token \in q,
         f.state # "connect" => \A i : ~Carries(out, i, token) /\ ~Carries(out, i, f.token),
         NEW d, d.state = "connect", d.token = 0
  PROVE  Pair(n, p, d, f, out \o (Call(token) \o OfOwn(n, u)), Tail(in), u, w,
              IF f.state = "connect" THEN {} ELSE {token},
              IF f.state = "connect" THEN {} ELSE q)
  <1> DEFINE a == out \o Call(token)
             s == out \o (Call(token) \o OfOwn(n, u))
             t == Tail(in)
             o1 == IF f.state = "connect" THEN {} ELSE {token}
  <1>1. /\ Call(token) \in Seq(Msgs) /\ a \in Seq(Msgs)
        /\ Len(a) \in Nat /\ Len(a) <= Len(a) /\ NewsFree(a, Len(a))
        /\ \A i : NewsFree(out, i) => NewsFree(a, i)
        /\ \A i, any : Carries(a, i, any) => Carries(out, i, any) \/ (i = Len(a) /\ any = token)
    BY CallSent
  <1>2. /\ Carries(in, 1, token) /\ 1 \in Nat /\ 0 \in Nat /\ 0 + 1 = 1 /\ 0 <= Len(a)
    BY <1>1, HeadTailProperties, EmptySeq DEF Carries
  <1> HIDE DEF a
  <1>3. /\ OfOwn(n, u) \in Seq(Msgs)
        /\ \A i, any : ~Carries(OfOwn(n, u), i, any)
        /\ Told(a \o OfOwn(n, u), Len(a), FALSE, n \in u)
    BY <1>1, OwnTells
  <1>4. s = a \o OfOwn(n, u)
    BY <1>1, <1>3, ConcatProperties DEF a
  <1>5. ASSUME NewsFree(out, 0) PROVE Told(s, 0, FALSE, n \in u)
    <2>1. NewsFree(a, 0)
      BY <1>1, <1>5
    <2>2. Told(a \o OfOwn(n, u), 0, FALSE, n \in u)
      BY <1>1, <1>2, <2>1, OwnTells
    <2> QED
      BY <1>4, <2>2
  <1>6. ASSUME NEW i, NEW any, Carries(s, i, any)
        PROVE  Carries(out, i, any) \/ (i = Len(a) /\ any = token)
    <2>1. Carries(a, i, any)
      BY <1>1, <1>3, <1>4, <1>6, SentCarries
    <2> QED
      BY <1>1, <2>1
  <1>7. Told(s, Len(a), FALSE, n \in u)
    BY <1>3, <1>4
  <1>8. Tells(p, n, f, e, in, out, w, u, q)
    BY DEF Pair
  <1>9. NewsFree(in, 0 + 1) => NewsFree(t, 0)
    BY <1>2, TailTold
  <1>10. token \in Awaited(e, q)
    BY DEF Awaited
  <1> HIDE DEF s, t
  <1>11. ASSUME f.state = "connect"
        PROVE  Told(in, 1, FALSE, p \in w) /\ NewsFree(out, 0) /\ n \notin w
    BY <1>2, <1>8, <1>10, <1>11 DEF Tells
  <1>12. Tells(n, p, d, f, s, t, u, w, o1)
    <2>1. CASE f.state = "connect"
      <3>1. Told(s, 0, n \in w, n \in u)
        BY <1>5, <1>11, <2>1 DEF Told
      <3> QED
        BY <2>1, <3>1 DEF Tells
    <2>2. CASE f.state # "connect"
      <3>1. NewsFree(t, 0)
        BY <1>2, <1>8, <1>9, <2>2 DEF Tells
      <3>2. ASSUME NEW i \in Nat, NEW any \in Awaited(f, o1), Carries(s, i, any)
            PROVE  Told(s, i, FALSE, n \in u)
        <4>1. any = token \/ any = f.token
          BY <2>2, <3>2 DEF Awaited
        <4>2. i = Len(a)
          BY <1>6, <2>2, <3>2, <4>1
        <4> QED
          BY <1>7, <4>2
      <3> QED
        BY <2>2, <3>1, <3>2 DEF Tells
    <2> QED
      BY <2>1, <2>2
  <1>13. Tells(p, n, f, d, t, s, w, u, IF f.state = "connect" THEN {} ELSE q)
    BY <1>8, <1>11, Connected DEF t
  <1>14. Pair(n, p, d, f, s, t, u, w, o1, IF f.state = "connect" THEN {} ELSE q)
    BY <1>12, <1>13 DEF Pair
  <1> QED
    BY <1>14 DEF s, t
\* Nothing has happened after which nothing is claimed.
Good == ~upset /\ ~spoilt /\ ~stale

LEMMA Learnt ==
  ASSUME NEW n \in Nodes, IInv, OpenCalls, Good, AllTold
  PROVE  LET p == Peer(n) IN
         /\ p \in Nodes /\ p # n
         /\ Pair(n, p, link[n], link[p], net[p], net[n], usr[n], usr[p], open[n], open[p])
         /\ link[n] \in Entries /\ link[p] \in Entries
         /\ link[n].token \in Tokens \cup {0} /\ link[p].token \in Tokens \cup {0}
         /\ net[n] \in Seq(Msgs) /\ net[p] \in Seq(Msgs)
         /\ link[n].state = "connect" => routed[n]
         /\ link[n].state # "connect" => ~routed[n] /\ p \notin usr[n]
         /\ usr[n] \subseteq {n, p}
         /\ open[n] \subseteq Tokens /\ open[p] \subseteq Tokens
  <1>1. PairAt(n)
    BY DEF Good, AllTold
  <1>2. /\ Peer(n) \in Nodes /\ Peer(n) # n /\ Nodes = {n, Peer(n)}
        /\ link \in [Nodes -> Entries] /\ net \in [Nodes -> Seq(Msgs)]
        /\ usr[n] \subseteq Nodes
    BY Peers, Here DEF IInv, LinkTypes
  <1>3. Fits(n, link[n].state, routed[n], usr[n], n \in on, upset) /\ ~upset
    BY Here DEF Good
  <1>4. link[n].token \in Tokens \cup {0} /\ link[Peer(n)].token \in Tokens \cup {0}
    BY <1>2 DEF Entries
  <1>5. open[n] \subseteq Tokens /\ open[Peer(n)] \subseteq Tokens
    BY <1>2 DEF OpenCalls
  <1> QED
    BY <1>1, <1>2, <1>3, <1>4, <1>5 DEF PairAt, Fits

LEMMA PairStays ==
  ASSUME NEW n \in Nodes,
         Pair(n, Peer(n), link'[n], link'[Peer(n)], net'[Peer(n)], net'[n],
              usr'[n], usr'[Peer(n)], open'[n], open'[Peer(n)])
  PROVE  AllTold'
  <1>1. ASSUME NEW k \in Nodes
        PROVE  Pair(k, Peer(k), link'[k], link'[Peer(k)], net'[Peer(k)], net'[k],
                    usr'[k], usr'[Peer(k)], open'[k], open'[Peer(k)])
    <2>1. k = n \/ (k = Peer(n) /\ Peer(k) = n)
      BY Peers
    <2> QED
      BY <2>1, PairTurns
  <1> QED
    BY <1>1 DEF AllTold, PairAt, Pair, Tells, Awaited, Told, NewsFree, Carries, News, Peer

\* n has no link, or gives it up.
LEMMA GoneStep ==
  ASSUME NEW n \in Nodes, IInv, OpenCalls, Good, AllTold,
         link'[n].token = 0, link'[n].state \notin {"waitpwd", "connect"},
         link'[Peer(n)].state = link[Peer(n)].state,
         link'[Peer(n)].token = link[Peer(n)].token,
         net'[n] = net[n] \/ (net[n] # <<>> /\ net'[n] = Tail(net[n])),
         usr'[Peer(n)] = usr[Peer(n)], open'[Peer(n)] = open[Peer(n)],
         \/ link[n].state = "connect" /\ open'[n] = {}
         \/ link[n].state # "connect" /\ open'[n] \subseteq open[n]
            /\ net'[Peer(n)] = net[Peer(n)]
  PROVE  AllTold'
  <1> DEFINE p == Peer(n)
             out1 == net'[p]
             in1 == net'[n]
             u1 == usr'[n]
             o1 == open'[n]
             d == link'[n]
             g == link'[p]
  <1>1. /\ Pair(n, p, link[n], link[p], net[p], net[n], usr[n], usr[p], open[n], open[p])
        /\ net[n] \in Seq(Msgs)
    BY Learnt
  <1>2. /\ d.token = 0 /\ d.state \notin {"waitpwd", "connect"}
        /\ g.state = link[p].state /\ g.token = link[p].token
        /\ in1 = net[n] \/ (net[n] # <<>> /\ in1 = Tail(net[n]))
        /\ \/ link[n].state = "connect" /\ o1 = {}
           \/ link[n].state # "connect" /\ o1 \subseteq open[n] /\ out1 = net[p]
    OBVIOUS
  <1> HIDE DEF p, out1, in1, u1, o1, d, g
  <1>3. Pair(n, p, d, link[p], out1, in1, u1, usr[p], o1, open[p])
    <2>1. CASE link[n].state = "connect"
      <3>1. o1 = {}
        BY <1>2, <2>1
      <3>2. Pair(n, p, d, link[p], out1, in1, u1, usr[p], {}, open[p])
        BY <1>1, <1>2, <2>1, GoneOn
      <3> QED
        BY <3>1, <3>2
    <2>2. CASE link[n].state # "connect"
      <3>1. o1 \subseteq open[n] /\ out1 = net[p]
        BY <1>2, <2>2
      <3>2. Pair(n, p, d, link[p], net[p], in1, u1, usr[p], o1, open[p])
        BY <1>1, <1>2, <2>2, <3>1, GoneOff
      <3> QED
        BY <3>1, <3>2
    <2> QED
      BY <2>1, <2>2
  <1>4. Pair(n, p, d, g, out1, in1, u1, usr[p], o1, open[p])
    BY <1>2, <1>3, PairTurns, SameEntry
  <1>5. usr'[p] = usr[p] /\ open'[p] = open[p]
    BY DEF p
  <1> QED
    BY <1>4, <1>5, PairStays DEF p, out1, in1, u1, o1, d, g

\* What n reads is no news, what it answers is idle, and its link stays.
LEMMA IdleRead ==
  ASSUME NEW n \in Nodes, IInv, OpenCalls, Good, AllTold, net[n] # <<>>, ~News(Head(net[n])),
         NEW d, d.state = link[n].state, d.token = link[n].token,
         link' = [link EXCEPT ![n] = d],
         NEW msgs \in Seq(Msgs), Idle(msgs), Answer(n, msgs), UNCHANGED <<usr, open>>
  PROVE  AllTold'
  <1> DEFINE p == Peer(n) f == link[Peer(n)] out == net[Peer(n)] in == net[n]
             u == usr[n] w == usr[Peer(n)] o == open[n] q == open[Peer(n)]
             some == Sent(n, msgs)
  <1>1. /\ Pair(n, p, link[n], f, out, in, u, w, o, q)
        /\ in \in Seq(Msgs) /\ out \in Seq(Msgs)
    BY Learnt
  <1>2. link'[n] = d /\ link'[p] = f
    BY Changes
  <1>3. net'[n] = Tail(in) /\ net'[p] = out \o some
    BY Answers
  <1>4. usr'[n] = u /\ usr'[p] = w /\ open'[n] = o /\ open'[p] = q
    OBVIOUS
  <1>5. in # <<>> /\ ~News(Head(in))
    OBVIOUS
  <1>0. some \in Seq(Msgs) /\ Idle(some)
    BY SentSome, NothingThere DEF Idle
  <1>6. Pair(n, p, d, f, out, in, u, w, o, q)
    BY <1>1, SameEntry
  <1> HIDE DEF f, out, in, u, w, o, q, some
  <1>7. Pair(n, p, d, f, out, Tail(in), u, w, o, q)
    BY <1>1, <1>5, <1>6, TailLike, LikeTold
  <1>8. Pair(p, n, f, d, Tail(in), out \o some, w, u, q, o)
    BY <1>0, <1>1, <1>7, PairTurns, IdleLike, LikeTold
  <1>9. Pair(n, p, d, f, out \o some, Tail(in), u, w, o, q)
    BY <1>8, PairTurns
  <1> QED
    BY <1>2, <1>3, <1>4, <1>9, PairStays

\* n reads news of the user of its peer.
LEMMA NewsStep ==
  ASSUME NEW n \in Nodes, IInv, OpenCalls, Good, AllTold, net[n] # <<>>, News(Head(net[n])),
         NEW d, d.state = link[n].state, d.token = link[n].token,
         link' = [link EXCEPT ![n] = d], Answer(n, <<>>), UNCHANGED open,
         NEW u1, usr' = [usr EXCEPT ![n] = u1], n \in u1 <=> n \in usr[n],
         link[n].state = "connect" => (Peer(n) \in u1 <=> Head(net[n]).cmd = "USER")
  PROVE  AllTold'
  <1> DEFINE p == Peer(n) f == link[Peer(n)] out == net[Peer(n)] in == net[n]
             u == usr[n] w == usr[Peer(n)] o == open[n] q == open[Peer(n)]
  <1>1. /\ Pair(n, p, link[n], f, out, in, u, w, o, q)
        /\ in \in Seq(Msgs) /\ out \in Seq(Msgs) /\ p # n /\ p \in Nodes
    BY Learnt
  <1>2. link'[n] = d /\ link'[p] = f
    BY Changes
  <1>3. net'[n] = Tail(in) /\ net'[p] = out
    <2>1. net'[n] = Tail(in) /\ net'[p] = out \o <<>>
      BY Answers
    <2> QED
      BY <1>1, <2>1, ConcatEmptySeq
  <1>4. usr'[n] = u1 /\ usr'[p] = w /\ open'[n] = o /\ open'[p] = q
    BY <1>1 DEF IInv, LinkTypes
  <1>5. /\ in # <<>> /\ News(Head(in)) /\ (n \in u1 <=> n \in u)
        /\ d.state = "connect" => (p \in u1 <=> Head(in).cmd = "USER")
    OBVIOUS
  <1>6. Pair(n, p, d, f, out, in, u, w, o, q)
    BY <1>1, SameEntry
  <1> HIDE DEF f, out, in, u, w, o, q
  <1>7. Pair(n, p, d, f, out, Tail(in), u1, w, o, q)
    BY <1>1, <1>5, <1>6, NewsRead
  <1> QED
    BY <1>2, <1>3, <1>4, <1>7, PairStays

\* Only a server that waits or is connected has a token.
LEMMA NoToken ==
  ASSUME NEW n \in Nodes, IInv, OpenCalls, Good, AllTold
  PROVE  /\ link[n].state \notin {"waitpwd", "connect"} => link[n].token = 0
         /\ link[n].state = "waitpwd" => link[n].token # 0
  BY Learnt DEF Pair, Tells

LEMMA OffTold ==
  ASSUME NEW n \in Nodes, IInv, OpenCalls, Good, AllTold,
         NEW d, d.token = 0, d.state \notin {"waitpwd", "connect"},
         link' = [link EXCEPT ![n] = d],
         net'[n] = net[n] \/ (net[n] # <<>> /\ net'[n] = Tail(net[n])),
         usr'[Peer(n)] = usr[Peer(n)], open'[Peer(n)] = open[Peer(n)],
         \/ link[n].state = "connect" /\ open'[n] = {}
         \/ link[n].state # "connect" /\ open'[n] \subseteq open[n]
            /\ net'[Peer(n)] = net[Peer(n)]
  PROVE  AllTold'
  <1>1. link'[n] = d /\ link'[Peer(n)] = link[Peer(n)]
    BY Changes
  <1>2. /\ link'[n].token = 0 /\ link'[n].state \notin {"waitpwd", "connect"}
        /\ link'[Peer(n)].state = link[Peer(n)].state
        /\ link'[Peer(n)].token = link[Peer(n)].token
    BY <1>1
  <1> QED
    BY <1>2, GoneStep

LEMMA TimerOffTold ==
  ASSUME NEW n \in Nodes, IInv, OpenCalls, Good, AllTold, Setup(n) \/ Again(n) \/ Boot(n)
  PROVE  AllTold'
  <1>1. PICK s \in States : /\ link' = [link EXCEPT ![n].state = s]
                            /\ s \notin {"waitpwd", "connect"}
    BY DEF Setup, Again, Boot, Goes, States
  <1> DEFINE d == [link[n] EXCEPT !.state = s]
  <1>2. link[n].token = 0
    BY NoToken DEF Setup, Again, Boot
  <1>3. d.token = 0 /\ d.state = s
    BY <1>2, Here DEF Entries
  <1>4. /\ link' = [link EXCEPT ![n] = d] /\ UNCHANGED <<net, usr, open>>
        /\ link[n].state # "connect"
    BY <1>1 DEF Setup, Again, Boot, tables
  <1> HIDE DEF d
  <1> QED
    BY <1>1, <1>3, <1>4, OffTold

LEMMA GiveUpTold ==
  ASSUME NEW n \in Nodes, IInv, OpenCalls, Good, AllTold, GiveUp(n)
  PROVE  AllTold'
  <1>1. LinkFns /\ Peer(n) \in Nodes /\ Peer(n) # n
    BY Here, Peers
  <1>2. /\ link'[n].token = 0 /\ link'[n].state = "call"
        /\ link'[Peer(n)].state = link[Peer(n)].state
        /\ link'[Peer(n)].token = link[Peer(n)].token
    BY <1>1 DEF GiveUp, LinkFns, Entries
  <1>3. /\ UNCHANGED <<net, usr>> /\ link[n].state # "connect"
        /\ open'[Peer(n)] = open[Peer(n)] /\ open'[n] \subseteq open[n]
    BY <1>1 DEF GiveUp, tables, OpenCalls
  <1> QED
    BY <1>2, <1>3, GoneStep

\* The entries of a link that is lost have no token.
LEMMA FreshToken ==
  ASSUME NEW n \in Nodes, IInv, NEW s \in States
  PROVE  /\ Fresh.token = 0
         /\ [Fresh EXCEPT !.state = s].token = 0
         /\ [Fresh EXCEPT !.state = s, !.quiet = link[n].quiet].token = 0
         /\ [Fresh EXCEPT !.state = s, !.half = link[n].half].token = 0
  BY DEF Fresh

LEMMA CutTold ==
  ASSUME NEW n \in Nodes, IInv, OpenCalls, Good, AllTold,
         Dies(n) \/ Squit(n) \/ Reset(n) \/ Killed(n) \/ Shutdown(n)
  PROVE  AllTold'
  <1>0. Dies(n) \/ Squit(n) \/ Reset(n) \/ \E msgs : Ends(n, msgs)
    BY DEF Killed, Shutdown
  <1>1. PICK s \in States :
            /\ s \notin {"waitpwd", "connect"}
            /\ \/ link' = [link EXCEPT ![n] = [Fresh EXCEPT !.state = s, !.quiet = link[n].quiet]]
               \/ link' = [link EXCEPT ![n] = [Fresh EXCEPT !.state = s, !.half = link[n].half]]
               \/ link' = [link EXCEPT ![n] = [Fresh EXCEPT !.state = s]]
               \/ link' = [link EXCEPT ![n] = Fresh]
    <2>1. CASE Dies(n)
      BY <2>1 DEF Dies, Cut, States
    <2>2. CASE Squit(n)
      BY <2>2 DEF Squit, States
    <2>3. CASE Reset(n)
      BY <2>3 DEF Reset, States
    <2>4. CASE \E msgs : Ends(n, msgs)
      BY <2>4 DEF Ends, States
    <2> QED
      BY <1>0, <2>1, <2>2, <2>3, <2>4
  <1> DEFINE a == [Fresh EXCEPT !.state = s, !.quiet = link[n].quiet]
             b == [Fresh EXCEPT !.state = s, !.half = link[n].half]
             c == [Fresh EXCEPT !.state = s]
  <1>11. /\ a.token = 0 /\ b.token = 0 /\ c.token = 0 /\ Fresh.token = 0
         /\ a.state = s /\ b.state = s /\ c.state = s /\ Fresh.state = "init"
    BY FreshMoves, FreshToken
  <1>12. \/ link' = [link EXCEPT ![n] = a] \/ link' = [link EXCEPT ![n] = b]
         \/ link' = [link EXCEPT ![n] = c] \/ link' = [link EXCEPT ![n] = Fresh]
    BY <1>1
  <1> HIDE DEF a, b, c
  <1>2. PICK d : /\ link' = [link EXCEPT ![n] = d]
                 /\ d.token = 0 /\ d.state \notin {"waitpwd", "connect"}
    BY <1>1, <1>11, <1>12
  <1>3. Peer(n) \in Nodes /\ Peer(n) # n /\ net \in [Nodes -> Seq(Msgs)] /\ LinkFns
    BY Peers, Here DEF IInv, LinkTypes
  <1>4. usr'[Peer(n)] = usr[Peer(n)]
    <2>1. UNCHANGED usr \/ \E v : usr' = [usr EXCEPT ![n] = v]
      BY <1>0 DEF Dies, Squit, Reset, Ends, DelRouter
    <2> QED
      BY <1>3, <2>1 DEF LinkFns
  <1>5. net'[n] = net[n] \/ (net[n] # <<>> /\ net'[n] = Tail(net[n]))
    <2>1. CASE Dies(n)
      BY <2>1 DEF Dies
    <2>2. CASE Squit(n)
      BY <2>2, Answers DEF Squit, Takes
    <2>3. CASE Reset(n)
      BY <2>3, Sends DEF Reset, IfLinked
    <2>4. CASE \E msgs : Ends(n, msgs)
      BY <2>4, Sends DEF Ends
    <2> QED
      BY <1>0, <2>1, <2>2, <2>3, <2>4
  <1>6. /\ open'[Peer(n)] = open[Peer(n)]
        /\ open'[n] = IF link[n].state = "connect" THEN {} ELSE open[n]
    <2>1. Forget(n)
      BY <1>0 DEF Dies, Squit, Reset, Ends
    <2> QED
      BY <1>3, <2>1 DEF Forget, OpenCalls
  <1>7. link[n].state # "connect" => net'[Peer(n)] = net[Peer(n)]
    <2>1. ASSUME Send(n, <<>>) \/ (net[n] # <<>> /\ Answer(n, <<>>))
          PROVE  net'[Peer(n)] = net[Peer(n)]
      <3>1. net'[Peer(n)] = net[Peer(n)] \o <<>>
        BY <2>1, Sends, Answers
      <3>2. net[Peer(n)] \in Seq(Msgs)
        BY <1>3
      <3> QED
        BY <3>1, <3>2, ConcatEmptySeq
    <2>2. CASE Dies(n)
      BY <2>2 DEF Dies
    <2>3. CASE Squit(n)
      BY <2>1, <2>3 DEF Squit, Takes
    <2>4. CASE Reset(n)
      BY <2>1, <2>4 DEF Reset, IfLinked
    <2>5. CASE Killed(n)
      BY <2>1, <2>5 DEF Killed, Ends
    <2>6. CASE Shutdown(n)
      BY <2>6 DEF Shutdown
    <2> QED
      BY <2>2, <2>3, <2>4, <2>5, <2>6
  <1> QED
    BY <1>2, <1>4, <1>5, <1>6, <1>7, OffTold

LEMMA PingTold ==
  ASSUME NEW n \in Nodes, IInv, OpenCalls, Wired, Good, AllTold, Ping(n)
  PROVE  AllTold'
  <1> DEFINE p == Peer(n) f == link[Peer(n)] out == net[Peer(n)] in == net[n]
             u == usr[n] w == usr[Peer(n)] o == open[n] q == open[Peer(n)]
             d == [link[n] EXCEPT !.quiet = @ + 1]
             msgs == <<Msg("PING", 0)>>
  <1>1. /\ Pair(n, p, link[n], f, out, in, u, w, o, q) /\ link[n] \in Entries
        /\ link[n].token \in Tokens \cup {0} /\ f.token \in Tokens \cup {0}
        /\ in \in Seq(Msgs) /\ out \in Seq(Msgs)
    BY Learnt
  <1>2. d.state = link[n].state /\ d.token = link[n].token
    BY <1>1 DEF Entries
  <1>3. link' = [link EXCEPT ![n] = d] /\ Send(n, msgs) /\ UNCHANGED <<usr, open>>
    BY DEF Ping, tables
  <1>4. msgs \in Seq(Msgs) /\ Idle(msgs)
    <2>1. msgs \in Seq(Msgs) /\ Len(msgs) = 1 /\ msgs[1].cmd = "PING"
      BY DEF Msgs, Msg, Commands
    <2> HIDE DEF msgs
    <2> QED
      BY <2>1 DEF Idle, News
  <1> HIDE DEF d, msgs
  <1>5. link'[n] = d /\ link'[p] = f
    BY <1>3, Changes
  <1>6. net'[n] = in /\ net'[p] = out \o msgs
    BY <1>3, Sends DEF Wired, Good, Ping
  <1>7. usr'[n] = u /\ usr'[p] = w /\ open'[n] = o /\ open'[p] = q
    BY <1>3
  <1>8. Pair(n, p, d, f, out, in, u, w, o, q)
    BY <1>1, <1>2, SameEntry
  <1> HIDE DEF f, out, in, u, w, o, q
  <1>9. Pair(p, n, f, d, in, out \o msgs, w, u, q, o)
    BY <1>1, <1>2, <1>4, <1>8, PairTurns, IdleLike, LikeTold
  <1>10. Pair(n, p, d, f, out \o msgs, in, u, w, o, q)
    BY <1>9, PairTurns
  <1> QED
    BY <1>5, <1>6, <1>7, <1>10, PairStays

LEMMA PlaceCallTold ==
  ASSUME NEW n \in Nodes, IInv, OpenCalls, Good, AllTold, PlaceCall(n)
  PROVE  AllTold'
  <1> DEFINE p == Peer(n) f == link[Peer(n)] out == net[Peer(n)] in == net[n]
             u == usr[n] w == usr[Peer(n)] o == open[n] q == open[Peer(n)]
             token == NewToken
             d == [link[n] EXCEPT !.state = "waitpwd", !.token = token, !.behind = FALSE]
             msgs == Call(token)
             t == net'[Peer(n)]
  <1>1. /\ Pair(n, p, link[n], f, out, in, u, w, o, q) /\ link[n] \in Entries
        /\ in \in Seq(Msgs) /\ out \in Seq(Msgs) /\ p \in Nodes /\ p # n
    BY Learnt
  <1>2. token \in Tokens \ InUse
    BY TokenIsOne DEF PlaceCall
  <1>3. d.state = "waitpwd" /\ d.token = token /\ link[n].state = "call"
    BY <1>1 DEF Entries, PlaceCall
  <1>4. ASSUME NEW i, NEW k \in Nodes PROVE ~Carries(net[k], i, token)
    <2> SUFFICES ASSUME Carries(net[k], i, token) PROVE FALSE
      OBVIOUS
    <2>1. net[k] \in Seq(Msgs) /\ DOMAIN net[k] = 1..Len(net[k])
      BY LenProperties DEF IInv, LinkTypes
    <2>2. net[k][i] \in ToSet(net[k]) /\ net[k][i].arg = token
      BY <2>1 DEF Carries, ToSet
    <2>3. token \in InUse
      BY <2>2 DEF InUse
    <2> QED
      BY <1>2, <2>3
  <1>5. \A i : ~Carries(out, i, token) /\ ~Carries(in, i, token)
    BY <1>1, <1>4
  <1>6. link' = [link EXCEPT ![n] = d] /\ Send(n, msgs) /\ UNCHANGED usr
    BY DEF PlaceCall, tables, Call
  <1>7. /\ token \in Tokens /\ open'[n] = o \cup {token} /\ open'[p] = q
    BY <1>1, <1>2 DEF PlaceCall, OpenCalls
  <1> HIDE DEF d, token
  <1>8. link'[n] = d /\ link'[p] = f
    BY <1>6, Changes
  <1>9. net'[n] = in /\ t \in {out \o msgs, out}
    <2> HIDE DEF msgs
    <2> QED
      BY <1>1, <1>6, Sends, ConcatEmptySeq DEF Sent
  <1>10. usr'[n] = u /\ usr'[p] = w
    BY <1>6
  <1> HIDE DEF f, out, in, u, w, o, q, t
  <1>11. Pair(n, p, d, f, t, in, u, w, o \cup {token}, q)
    <2>1. t = out \o Call(token) \/ t = out
      BY <1>9
    <2>2. link[n].state = "call" /\ d.state = "waitpwd" /\ d.token = token
      BY <1>3
    <2> HIDE DEF msgs, p
    <2> QED
      BY <1>1, <1>5, <1>7, <2>1, <2>2, Called
  <1> QED
    BY <1>7, <1>8, <1>9, <1>10, <1>11, PairStays DEF t

LEMMA TimersTold ==
  ASSUME NEW n \in Nodes, IInv, OpenCalls, Wired, Good, AllTold, Timers(n)
  PROVE  AllTold'
  BY TimerOffTold, PlaceCallTold, GiveUpTold, CutTold, PingTold
     DEF Timers, DieOfCalls, DieOfSilence

-----------------------------------------------------------------------------
(* Messages and users *)

\* The entry of a server that has heard its peer.
LEMMA HeardEntry ==
  ASSUME NEW n \in Nodes, IInv
  PROVE  /\ Heard(n).state = link[n].state /\ Heard(n).token = link[n].token
         /\ Heard(n) \in Entries
         /\ \A s \in States : /\ [Heard(n) EXCEPT !.state = s].state = s
                              /\ [Heard(n) EXCEPT !.state = s].token = link[n].token
  <1>1. link[n] \in Entries
    BY Here
  <1>2. /\ Heard(n).state = link[n].state /\ Heard(n).token = link[n].token
        /\ Heard(n) \in Entries
    BY <1>1, LinkAssumption DEF Entries, Heard
  <1>3. ASSUME NEW e \in Entries, NEW s \in States
        PROVE  [e EXCEPT !.state = s].state = s /\ [e EXCEPT !.state = s].token = e.token
    BY <1>3 DEF Entries
  <1> QED
    BY <1>2, <1>3

\* Answers that bring no news.
LEMMA IdleAnswers ==
  /\ <<>> \in Seq(Msgs) /\ Idle(<<>>)
  /\ <<Msg("PONG", 0)>> \in Seq(Msgs) /\ Idle(<<Msg("PONG", 0)>>)
  /\ <<Msg("error", 0)>> \in Seq(Msgs) /\ Idle(<<Msg("error", 0)>>)
  <1>1. <<>> \in Seq(Msgs) /\ Idle(<<>>)
    BY DEF Idle
  <1>2. ASSUME NEW cmd \in {"PONG", "error"}
        PROVE  <<Msg(cmd, 0)>> \in Seq(Msgs) /\ Idle(<<Msg(cmd, 0)>>)
    <2> DEFINE m == <<Msg(cmd, 0)>>
    <2>1. m \in Seq(Msgs) /\ Len(m) = 1 /\ m[1].cmd = cmd
      BY DEF Msgs, Msg, Commands
    <2> HIDE DEF m
    <2>2. Idle(m)
      BY <2>1 DEF Idle, News
    <2> QED
      BY <2>1, <2>2 DEF m
  <1> QED
    BY <1>1, <1>2

LEMMA IdleTold ==
  ASSUME NEW n \in Nodes, IInv, OpenCalls, Good, AllTold,
         Pinged(n) \/ Ponged(n) \/ Error(n) \/ Pass(n) \/ Ignores(n)
  PROVE  AllTold'
  <1>1. /\ net[n] # <<>> /\ ~News(Head(net[n])) /\ UNCHANGED <<usr, open>>
        /\ \/ Answer(n, <<>>) \/ Answer(n, <<Msg("PONG", 0)>>) \/ Answer(n, <<Msg("error", 0)>>)
    BY DEF Pinged, Ponged, Error, Pass, Ignores, Takes, News, tables
  <1> DEFINE a == Heard(n)
             b == [Heard(n) EXCEPT !.half = 0]
             c == [Heard(n) EXCEPT !.gotpass = FALSE, !.half = @ + 1]
             e == [Heard(n) EXCEPT !.gotpass = TRUE]
  <1>2. \/ link' = [link EXCEPT ![n] = a] \/ link' = [link EXCEPT ![n] = b]
        \/ link' = [link EXCEPT ![n] = c] \/ link' = [link EXCEPT ![n] = e]
    BY DEF Pinged, Ponged, Error, Pass, Ignores
  <1>3. /\ a.state = link[n].state /\ a.token = link[n].token
        /\ b.state = link[n].state /\ b.token = link[n].token
        /\ c.state = link[n].state /\ c.token = link[n].token
        /\ e.state = link[n].state /\ e.token = link[n].token
    <2>1. a.state = link[n].state /\ a.token = link[n].token /\ a \in Entries
      BY HeardEntry
    <2> QED
      BY <2>1 DEF Entries
  <1> HIDE DEF a, b, c, e
  <1>4. PICK d : /\ link' = [link EXCEPT ![n] = d]
                 /\ d.state = link[n].state /\ d.token = link[n].token
    BY <1>2, <1>3
  <1>5. PICK msgs \in Seq(Msgs) : Idle(msgs) /\ Answer(n, msgs)
    BY <1>1, IdleAnswers
  <1> QED
    BY <1>1, <1>4, <1>5, IdleRead

LEMMA DroppedTold ==
  ASSUME NEW n \in Nodes, IInv, OpenCalls, Good, AllTold, Dropped(n)
  PROVE  AllTold'
  <1>1. /\ net[n] # <<>> /\ Answer(n, <<>>) /\ UNCHANGED <<link, usr, open>>
        /\ link[n].state \in {"init", "down"}
    BY DEF Dropped, tables
  <1>2. /\ link' = [link EXCEPT ![n] = link[n]]
        /\ net'[n] = Tail(net[n]) /\ net'[Peer(n)] = net[Peer(n)]
    <2>1. net'[n] = Tail(net[n]) /\ net'[Peer(n)] = net[Peer(n)] \o <<>>
      BY <1>1, Answers
    <2>2. net[Peer(n)] \in Seq(Msgs)
      BY Peers DEF IInv, LinkTypes
    <2>3. net[Peer(n)] \o <<>> = net[Peer(n)]
      BY <2>2, ConcatEmptySeq
    <2> QED
      BY <1>1, <2>1, <2>3, Here DEF LinkFns
  <1>3. link[n].token = 0
    BY <1>1, NoToken
  <1> QED
    BY <1>1, <1>2, <1>3, OffTold

LEMMA CollidesTold ==
  ASSUME NEW n \in Nodes, IInv, OpenCalls, Good, AllTold, Good', Collides(n)
  PROVE  AllTold'
  <1> DEFINE d == [Heard(n) EXCEPT !.state = "waitpwd"]
  <1>1. /\ link' = [link EXCEPT ![n] = d] /\ UNCHANGED <<usr, open>>
        /\ Answer(n, <<>>) /\ net[n] # <<>> /\ ~News(Head(net[n]))
        /\ link[n].token # 0 /\ link[n].state # "connect"
    BY DEF Collides, Takes, News, tables, Good
  <1>2. link[n].state = "waitpwd"
    BY <1>1, NoToken
  <1>3. d.state = link[n].state /\ d.token = link[n].token
    BY <1>2, HeardEntry DEF States
  <1> HIDE DEF d
  <1> QED
    BY <1>1, <1>3, IdleAnswers, IdleRead

LEMMA UserNewsTold ==
  ASSUME NEW n \in Nodes, IInv, OpenCalls, Good, AllTold, User(n) \/ Quit(n)
  PROVE  AllTold'
  <1> DEFINE server == Head(net[n]).arg
             added == IF server = n \/ routed[n] THEN usr[n] \cup {server} ELSE usr[n]
             taken == usr[n] \ {server}
  <1>1. /\ net[n] # <<>> /\ News(Head(net[n])) /\ Answer(n, <<>>)
        /\ link' = [link EXCEPT ![n] = Heard(n)] /\ UNCHANGED open
        /\ \/ Head(net[n]).cmd = "USER" /\ usr' = [usr EXCEPT ![n] = added]
           \/ Head(net[n]).cmd = "QUIT" /\ usr' = [usr EXCEPT ![n] = taken]
    BY DEF User, Quit, Takes, News
  <1>2. server = Peer(n) /\ Peer(n) # n
    <2>1. Head(net[n]) \in Okay(n, upset) /\ ~upset /\ Peer(n) # n
      BY <1>1, HeadOkay, Peers DEF Good
    <2> QED
      BY <1>1, <2>1 DEF Okay
  <1>3. link[n].state = "connect" => routed[n]
    BY Learnt
  <1>4. (n \in added <=> n \in usr[n]) /\ (n \in taken <=> n \in usr[n])
    BY <1>2
  <1>5. link[n].state = "connect" => Peer(n) \in added /\ Peer(n) \notin taken
    BY <1>2, <1>3
  <1> HIDE DEF added, taken
  <1>6. PICK u1 : /\ usr' = [usr EXCEPT ![n] = u1] /\ (n \in u1 <=> n \in usr[n])
                  /\ link[n].state = "connect" =>
                         (Peer(n) \in u1 <=> Head(net[n]).cmd = "USER")
    BY <1>1, <1>4, <1>5
  <1>7. Heard(n).state = link[n].state /\ Heard(n).token = link[n].token
    BY HeardEntry
  <1> QED
    BY <1>1, <1>6, <1>7, NewsStep

\* What a server tells that has just connected.
LEMMA KnownIsOwn ==
  ASSUME NEW n \in Nodes, IInv, OpenCalls, Good, AllTold, link[n].state # "connect"
  PROVE  Known(n) = OfOwn(n, usr[n])
  <1>1. usr[n] \subseteq {n}
    BY Learnt
  <1>2. CASE n \in usr[n]
    <2>1. usr[n] = {n}
      BY <1>1, <1>2
    <2>2. Cardinality(usr[n]) = 1
      BY <2>1, FS_Singleton
    <2>3. Known(n) = [i \in 1..1 |-> Msg("USER", n)]
      BY <1>2, <2>2 DEF Known
    <2> QED
      BY <1>2, <2>3 DEF OfOwn
  <1>3. CASE n \notin usr[n]
    <2>1. usr[n] = {}
      BY <1>1, <1>3
    <2>2. Cardinality(usr[n]) = 0 /\ 1..0 = {}
      BY <2>1, FS_EmptySet
    <2>3. Known(n) = [i \in 1..0 |-> Msg("USER", Peer(n))]
      BY <1>3, <2>2 DEF Known
    <2> QED
      BY <1>3, <2>3 DEF OfOwn
  <1> QED
    BY <1>2, <1>3

\* The calls that may still link the two when n has connected.
LEMMA ConnectsTo ==
  ASSUME NEW n \in Nodes, OpenCalls, NEW answer, NEW call, Connects(n, answer, call)
  PROVE  /\ open'[n] = IF link[Peer(n)].state = "connect" THEN {} ELSE call
         /\ open'[Peer(n)] = IF link[Peer(n)].state = "connect" THEN {} ELSE open[Peer(n)]
  <1>1. Peer(n) \in Nodes /\ Peer(n) # n
    BY Peers
  <1> QED
    BY <1>1 DEF Connects, OpenCalls

LEMMA AnsweredTold ==
  ASSUME NEW n \in Nodes, IInv, OpenCalls, Good, AllTold, Good', Answered(n)
  PROVE  AllTold'
  <1>0. n \in socket
    BY DEF Good, Answered
  <1> DEFINE p == Peer(n) e == link[n] f == link[Peer(n)] out == net[Peer(n)] in == net[n]
             u == usr[n] w == usr[Peer(n)] o == open[n] q == open[Peer(n)]
             d == [Heard(n) EXCEPT !.state = "connect"]
  <1>1. /\ Pair(n, p, e, f, out, in, u, w, o, q)
        /\ in \in Seq(Msgs) /\ out \in Seq(Msgs)
        /\ e.state = "connect" => routed[n]
        /\ e.state # "connect" => p \notin u
    BY Learnt
  <1>2. /\ in # <<>> /\ Head(in).cmd = "SERVER" /\ Head(in).arg = e.token /\ e.token # 0
        /\ link' = [link EXCEPT ![n] = d] /\ Answer(n, <<>> \o Known(n))
        /\ UNCHANGED usr /\ ~routed[n]
    BY DEF Answered, Takes, Connects, Good
  <1>3. e.state = "waitpwd"
    BY <1>1, <1>2, NoToken
  <1>4. d.state = "connect" /\ d.token = e.token
    BY HeardEntry DEF States
  <1>5. <<>> \o Known(n) = OfOwn(n, u)
    <2>1. Known(n) = OfOwn(n, u) /\ Known(n) \in Seq(Msgs)
      BY <1>3, KnownIsOwn, KnownChatter
    <2> QED
      BY <2>1, ConcatEmptySeq
  <1> HIDE DEF d
  <1>6. link'[n] = d /\ link'[p] = f
    BY <1>2, Changes
  <1>7. net'[n] = Tail(in) /\ net'[p] = out \o OfOwn(n, u)
    BY <1>0, <1>2, <1>5, Answers
  <1>8. usr'[n] = u /\ usr'[p] = w
    BY <1>2
  <1>9. open'[n] = {} /\ open'[p] = IF f.state = "connect" THEN {} ELSE q
    <2>1. Connects(n, <<>>, {})
      BY DEF Answered
    <2> QED
      BY <2>1, ConnectsTo
  <1>10. p \notin u
    BY <1>1, <1>3
  <1> HIDE DEF e, f, out, in, u, w, o, q
  <1>11. Pair(n, p, d, f, out \o OfOwn(n, u), Tail(in), u, w,
              {}, IF f.state = "connect" THEN {} ELSE q)
    BY <1>1, <1>2, <1>3, <1>4, <1>10, AnsweredTells
  <1> QED
    BY <1>6, <1>7, <1>8, <1>9, <1>11, PairStays

LEMMA AcceptsTold ==
  ASSUME NEW n \in Nodes, IInv, OpenCalls, Good, AllTold, Good', Accepts(n)
  PROVE  AllTold'
  <1>0. n \in socket
    BY DEF Good, Accepts
  <1> DEFINE p == Peer(n) e == link[n] f == link[Peer(n)] out == net[Peer(n)] in == net[n]
             u == usr[n] w == usr[Peer(n)] o == open[n] q == open[Peer(n)]
             token == Head(net[n]).arg
             d == [Heard(n) EXCEPT !.state = "connect"]
  <1>1. /\ Pair(n, p, e, f, out, in, u, w, o, q) /\ p \in Nodes
        /\ in \in Seq(Msgs) /\ out \in Seq(Msgs)
        /\ e.state = "connect" => routed[n]
        /\ e.state # "connect" => p \notin u
        /\ q \subseteq Tokens
    BY Learnt
  <1>2. /\ in # <<>> /\ Head(in).cmd = "SERVER" /\ e.token = 0
        /\ Connects(n, Call(token), {token})
        /\ Open(p, token)
    BY DEF Accepts, Takes, Good, Call
  <1>3. /\ link' = [link EXCEPT ![n] = d] /\ Answer(n, Call(token) \o Known(n))
        /\ UNCHANGED usr /\ ~routed[n]
    BY <1>2 DEF Connects, Good
  <1>4. token \in q /\ token \in Tokens
    BY <1>1, <1>2 DEF Open
  <1>5. ASSUME f.state # "connect", NEW i, NEW t \in {token, f.token} PROVE ~Carries(out, i, t)
    <2> SUFFICES ASSUME Carries(out, i, t) PROVE FALSE
      OBVIOUS
    <2>1. DOMAIN out = 1..Len(out)
      BY <1>1, LenProperties
    <2>2. i \in 1..Len(out) /\ out[i].cmd = "SERVER" /\ out[i].arg = t
      BY DEF Carries
    <2>3. out[i] \in ToSet(out)
      BY <2>1, <2>2 DEF ToSet
    <2> QED
      BY <1>2, <1>5, <2>2, <2>3 DEF Open
  <1>6. d.state = "connect" /\ d.token = 0
    BY <1>2, HeardEntry DEF States
  <1>7. e.state # "connect" /\ Known(n) = OfOwn(n, u) /\ p \notin u
    BY <1>1, <1>3, KnownIsOwn
  <1>8. token = Head(in).arg
    OBVIOUS
  <1> HIDE DEF d
  <1>9. link'[n] = d /\ link'[p] = f
    BY <1>3, Changes
  <1>10. net'[n] = Tail(in) /\ net'[p] = out \o (Call(token) \o OfOwn(n, u))
    BY <1>0, <1>3, <1>7, Answers
  <1>11. usr'[n] = u /\ usr'[p] = w
    BY <1>3
  <1>12. /\ open'[n] = IF f.state = "connect" THEN {} ELSE {token}
         /\ open'[p] = IF f.state = "connect" THEN {} ELSE q
    BY <1>2, ConnectsTo
  <1> HIDE DEF e, f, out, in, u, w, o, q, token
  <1>13. Pair(n, p, d, f, out \o (Call(token) \o OfOwn(n, u)), Tail(in), u, w,
              IF f.state = "connect" THEN {} ELSE {token},
              IF f.state = "connect" THEN {} ELSE q)
    BY <1>1, <1>2, <1>4, <1>5, <1>6, <1>7, <1>8, AcceptedTells
  <1> QED
    BY <1>9, <1>10, <1>11, <1>12, <1>13, PairStays

LEMMA ReceiveTold ==
  ASSUME NEW n \in Nodes, IInv, OpenCalls, Good, AllTold, Good', Receive(n)
  PROVE  AllTold'
  BY IdleTold, DroppedTold, CollidesTold, UserNewsTold, AnsweredTold, AcceptsTold, CutTold
     DEF Receive

LEMMA UsersTold ==
  ASSUME NEW n \in Nodes, IInv, OpenCalls, Wired, Good, AllTold, Login(n) \/ Logout(n)
  PROVE  AllTold'
  <1> DEFINE p == Peer(n) e == link[n] f == link[Peer(n)] out == net[Peer(n)] in == net[n]
             u == usr[n] w == usr[Peer(n)] o == open[n] q == open[Peer(n)]
  <1>1. /\ Pair(n, p, e, f, out, in, u, w, o, q) /\ p \in Nodes /\ p # n
        /\ in \in Seq(Msgs) /\ out \in Seq(Msgs)
    BY Learnt
  <1>2. PICK x \in {Msg("USER", n), Msg("QUIT", n)}, u1 \in {u \cup {n}, u \ {n}} :
            /\ usr' = [usr EXCEPT ![n] = u1]
            /\ IfLinked(n, <<x>>) /\ UNCHANGED <<link, open>>
            /\ x.cmd = "USER" <=> n \in u1
    <2>1. Msg("USER", n).cmd = "USER" /\ Msg("QUIT", n).cmd # "USER"
      BY DEF Msg
    <2>2. CASE Login(n)
      BY <2>1, <2>2 DEF Login
    <2>3. CASE Logout(n)
      BY <2>1, <2>3 DEF Logout
    <2> QED
      BY <2>2, <2>3
  <1>3. x \in Msgs /\ News(x)
    BY <1>2 DEF Msgs, Msg, Commands, News
  <1>4. p \in u1 <=> p \in u
    BY <1>1, <1>2
  <1>5. /\ usr'[n] = u1 /\ usr'[p] = w /\ link'[n] = e /\ link'[p] = f
        /\ open'[n] = o /\ open'[p] = q
    BY <1>1, <1>2 DEF IInv, LinkTypes
  <1>6. CASE e.state = "connect"
    <2>1. Send(n, <<x>>)
      BY <1>2, <1>6 DEF IfLinked
    <2>2. net'[n] = in /\ net'[p] = out \o <<x>>
      BY <1>6, <2>1, Sends DEF Wired, Good
    <2> HIDE DEF e, f, out, in, u, w, o, q
    <2>3. Pair(n, p, e, f, out \o <<x>>, in, u1, w, o, q)
      BY <1>1, <1>2, <1>3, <1>4, <1>6, UserTold
    <2> QED
      BY <1>5, <2>2, <2>3, PairStays
  <1>7. CASE e.state # "connect"
    <2>1. Send(n, <<>>)
      BY <1>2, <1>7 DEF IfLinked
    <2>2. net'[n] = in /\ net'[p] = out
      BY <1>1, <2>1, Sends, ConcatEmptySeq
    <2> HIDE DEF e, f, out, in, u, w, o, q
    <2>3. Pair(n, p, e, f, out, in, u1, w, o, q)
      BY <1>1, <1>4, <1>7, UserUntold
    <2> QED
      BY <1>5, <2>2, <2>3, PairStays
  <1> QED
    BY <1>6, <1>7

LEMMA DamageTold ==
  ASSUME NEW n \in Nodes, IInv, OpenCalls, Good, AllTold, Good', Damage(n)
  PROVE  AllTold'
  <1> DEFINE p == Peer(n) e == link[n] f == link[Peer(n)] out == net[Peer(n)] in == net[n]
             u == usr[n] w == usr[Peer(n)] o == open[n] q == open[Peer(n)]
  <1>1. /\ Pair(n, p, e, f, out, in, u, w, o, q) /\ p \in Nodes /\ p # n
        /\ in \in Seq(Msgs) /\ out \in Seq(Msgs)
    BY Learnt
  <1>2. PICK i \in 1..Len(in) :
            /\ ~News(in[i]) /\ (i > 1 => ~News(in[i - 1]))
            /\ \/ net' = [net EXCEPT ![n] = RemoveAt(in, i)]
               \/ net' = [net EXCEPT ![n] = InsertAt(in, i, in[i])]
               \/ /\ i > 1
                  /\ net' = [net EXCEPT ![n][i - 1] = in[i], ![n][i] = in[i - 1]]
    BY DEF Damage, Good
  <1>3. net \in [Nodes -> Seq(Msgs)]
    BY DEF IInv, LinkTypes
  <1>4. PICK t : net' = [net EXCEPT ![n] = t] /\ Like(in, t)
    <2>1. CASE net' = [net EXCEPT ![n] = RemoveAt(in, i)]
      BY <1>1, <1>2, <2>1, LostLike
    <2>2. CASE net' = [net EXCEPT ![n] = InsertAt(in, i, in[i])]
      BY <1>1, <1>2, <2>2, DoubledLike
    <2>3. CASE i > 1 /\ net' = [net EXCEPT ![n][i - 1] = in[i], ![n][i] = in[i - 1]]
      <3> DEFINE t == [in EXCEPT ![i - 1] = in[i], ![i] = in[i - 1]]
      <3>1. Like(in, t)
        BY <1>1, <1>2, <2>3, OvertakenLike
      <3>2. net' = [net EXCEPT ![n] = t]
        BY <1>3, <2>3
      <3> QED
        BY <3>1, <3>2
    <2> QED
      BY <1>2, <2>1, <2>2, <2>3
  <1>5. net'[n] = t /\ net'[p] = out
    BY <1>1, <1>3, <1>4
  <1>6. /\ link'[n] = e /\ link'[p] = f /\ usr'[n] = u /\ usr'[p] = w
        /\ open'[n] = o /\ open'[p] = q
    BY DEF Damage, tables
  <1> HIDE DEF e, f, out, in, u, w, o, q
  <1>7. Pair(n, p, e, f, out, t, u, w, o, q)
    BY <1>1, <1>4, LikeTold
  <1> QED
    BY <1>5, <1>6, <1>7, PairStays

LEMMA InitTold == Init => AllTold
  <1> SUFFICES ASSUME Init PROVE AllTold
    OBVIOUS
  <1>1. ASSUME NEW n \in Nodes PROVE PairAt(n)
    <2>1. /\ Peer(n) \in Nodes /\ link[n] = Fresh /\ link[Peer(n)] = Fresh
      BY <1>1, Peers DEF Init
    <2>2. Fresh.state = "init" /\ Fresh.token = 0
      BY DEF Fresh
    <2>3. open[n] = {} /\ open[Peer(n)] = {}
      BY <2>1 DEF Init
    <2> QED
      BY <2>1, <2>2, <2>3 DEF PairAt, Pair, Tells
  <1> QED
    BY <1>1 DEF AllTold

\* What has happened does not unhappen.
LEMMA GoodBefore == IInv /\ Bounds /\ [Next]_vars /\ Good' => Good
  <1> SUFFICES ASSUME IInv, Bounds, [Next]_vars, Good' PROVE Good
    OBVIOUS
  <1>1. CASE UNCHANGED vars
    BY <1>1 DEF vars, Good
  <1>2. ASSUME NEW n \in Nodes, Timers(n) PROVE UNCHANGED <<upset, spoilt, stale>>
    BY <1>2 DEF Timers, Setup, PlaceCall, GiveUp, DieOfCalls, DieOfSilence, Dies, Ping, Again
  <1>3. ASSUME NEW n \in Nodes, Receive(n)
        PROVE  (upset => upset') /\ UNCHANGED spoilt /\ (stale => stale')
    <2>1. ASSUME \/ Dropped(n) \/ Pinged(n) \/ Ponged(n) \/ Error(n) \/ Pass(n)
                 \/ Ignores(n) \/ Squit(n) \/ User(n) \/ Quit(n)
          PROVE  UNCHANGED <<upset, spoilt, stale>>
      BY <2>1 DEF Dropped, Pinged, Ponged, Error, Pass, Ignores, Squit, User, Quit
    <2>2. ASSUME NEW answer, NEW call, Connects(n, answer, call) PROVE (upset => upset') /\ UNCHANGED spoilt
      BY <2>2 DEF Connects
    <2>3. CASE Answered(n)
      BY <2>2, <2>3 DEF Answered
    <2>4. CASE Collides(n)
      BY <2>4 DEF Collides
    <2>5. CASE Accepts(n)
      <3>1. stale => stale'
        BY <2>5 DEF Accepts
      <3> QED
        BY <2>2, <2>5, <3>1 DEF Accepts
    <2> QED
      BY <1>3, <2>1, <2>3, <2>4, <2>5 DEF Receive
  <1>4. ASSUME NEW n \in Nodes,
               Login(n) \/ Logout(n) \/ Reset(n) \/ Killed(n) \/ Shutdown(n) \/ Boot(n)
        PROVE  UNCHANGED <<upset, spoilt, stale>>
    BY <1>4 DEF Login, Logout, Reset, Killed, Shutdown, Ends, Boot
  <1>5. ASSUME NEW n \in Nodes, Damage(n)
        PROVE  UNCHANGED <<upset, stale>> /\ (spoilt => spoilt')
    BY <1>5 DEF Damage
  <1> QED
    BY <1>1, <1>2, <1>3, <1>4, <1>5 DEF Next, Good

LEMMA StepTold == IInv /\ OpenCalls /\ Wired /\ Bounds /\ AllTold /\ [Next]_vars => AllTold'
  <1> SUFFICES ASSUME IInv, OpenCalls, Wired, Bounds, AllTold, [Next]_vars PROVE AllTold'
    OBVIOUS
  <1>1. CASE ~Good'
    BY <1>1 DEF Good, AllTold
  <1>2. CASE Good' /\ UNCHANGED vars
    <2>1. Good /\ UNCHANGED <<link, net, usr, open>>
      BY <1>2 DEF vars, Good
    <2>2. ASSUME NEW n \in Nodes PROVE AllTold'
      BY <2>1, Learnt, PairStays
    <2>3. CASE Nodes = {}
      BY <2>3 DEF AllTold
    <2> QED
      BY <2>2, <2>3
  <1>3. CASE Good' /\ Next
    <2>1. Good
      BY <1>3, GoodBefore
    <2>2. PICK n \in Nodes : \/ Timers(n) \/ Receive(n) \/ Login(n) \/ Logout(n)
                            \/ Reset(n) \/ Killed(n) \/ Shutdown(n) \/ Boot(n) \/ Damage(n)
      BY <1>3 DEF Next
    <2>3. ASSUME Reset(n) \/ Killed(n) \/ Shutdown(n) PROVE AllTold'
      BY <2>1, <2>3, CutTold
    <2> QED
      BY <1>3, <2>1, <2>2, <2>3, TimersTold, ReceiveTold, UsersTold, TimerOffTold, DamageTold
  <1> QED
    BY <1>1, <1>2, <1>3

\* Two servers that are connected and have read everything agree on who is
\* there, after any number of faults that have not damaged news, kept tables,
\* had an old call accepted or linked a server without a socket
\* (command_server, command_user, command_quit).
THEOREM AgreementHolds == Spec => []Agreement
  <1>1. IInv /\ OpenCalls /\ AllTold => Agreement
    <2> SUFFICES ASSUME IInv, OpenCalls, AllTold, Good, Linked, Settled, NEW n \in Nodes
                 PROVE  usr[n] = on
      BY DEF Agreement, Good
    <2> DEFINE p == Peer(n)
    <2>1. /\ Nodes = {n, p} /\ p \in Nodes /\ on \subseteq Nodes /\ usr[n] \subseteq Nodes
          /\ Peer(p) = n
      BY Peers, Here DEF IInv, LinkTypes
    <2>2. n \in usr[n] <=> n \in on
      BY Here DEF Fits, Good
    <2>3. p \in usr[p] <=> p \in on
      BY <2>1, Here DEF Fits, Good
    <2>4. p \in usr[n] <=> p \in usr[p]
      <3>1. Tells(p, n, link[p], link[n], net[n], net[p], usr[p], usr[n], open[p])
        BY Learnt DEF Pair
      <3>2. /\ link[p].state = "connect" /\ link[n].state = "connect"
            /\ net[n] = <<>> /\ net[p] = <<>>
        BY <2>1 DEF Linked, Settled
      <3>3. Told(<<>>, 0, p \in usr[n], p \in usr[p]) /\ NewsFree(<<>>, 0)
        BY <3>1, <3>2 DEF Tells, NewsFree
      <3> QED
        BY <3>3 DEF Told
    <2> HIDE DEF p
    <2> QED
      BY <2>1, <2>2, <2>3, <2>4
  <1>2. Init => AllTold
    BY InitTold
  <1>3. IInv /\ OpenCalls /\ Wired /\ Bounds /\ AllTold /\ [Next]_vars => AllTold'
    BY StepTold
  <1> QED
    BY <1>1, <1>2, <1>3, LinkInvariant, OpenHolds, WiredHolds, BoundsHold, PTL DEF Spec
=============================================================================
