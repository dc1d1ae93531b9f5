------------------------------ MODULE IbcLink ------------------------------
(***************************************************************************)
(* The link between two chat servers (mbtask/taskibc.c).  Each server runs *)
(* a state machine on its entry for the other (check_servers) and handles  *)
(* the datagrams it gets from it (ibc_receiver).  Datagrams travel over    *)
(* UDP: they may be lost, doubled or overtaken, and either server may be   *)
(* killed.  One user can be logged in to the chat at each server; each     *)
(* server's table says which of the two it believes to be there.           *)
(*                                                                         *)
(* All that goes wrong counts against MaxFaults: a datagram that is lost,  *)
(* doubled or overtaken, an answer that comes after the caller's timeout,  *)
(* more than a minute between two calls, a name that does not resolve, a   *)
(* changed configuration and a restarted server.  When nothing goes wrong, *)
(* datagrams arrive before the next timer (at least 10 s) runs out.        *)
(***************************************************************************)
EXTENDS Naturals, Sequences, SequencesExt, FiniteSets

CONSTANTS Nodes,       \* the two servers
          Homes,       \* the servers whose user logs in
          Tokens,      \* what gettoken() returns; never 0
          HalfDead,    \* the number of PASS commands a connected server bears
          Pings,       \* the PINGs it sends before a silent peer is dead
          MaxFaults,   \* bound: how much goes wrong
          MaxLogins    \* bound: how often users log in

ASSUME LinkAssumption == /\ IsFiniteSet(Nodes) /\ Cardinality(Nodes) = 2
                         /\ Homes \subseteq Nodes
                         /\ Tokens \subseteq Nat \ {0}
                         /\ HalfDead \in Nat /\ Pings \in Nat \ {0}
                         /\ MaxFaults \in Nat /\ MaxLogins \in Nat

VARIABLES link,     \* link[n]: the entry of the other server in n's ncs_list
          routed,   \* routed[n]: n's srv_list has the other server
          usr,      \* usr[n]: the servers whose user is in n's usr_list
          on,       \* the servers whose user has entered the chat and not left it
          socket,   \* the servers that have a socket for the other
          net,      \* net[n]: the datagrams on their way to n
          faults, logins,
          upset,    \* history: a server left its connected state, or connected again,
                    \* without cleaning its tables
          spoilt,   \* history: the network has damaged news of a user
          open,     \* history: the calls that may link the two: those n has made
                    \* since it was connected, or the one by which it is connected
                    \* while its peer is not
          stale     \* history: a server has accepted a call that was over, or has
                    \* connected without a socket

vars == <<link, routed, usr, on, socket, net, faults, logins, upset, spoilt, open, stale>>
tables == <<routed, usr, on>>

States == {"init", "call", "waitpwd", "connect", "hangup", "dead", "fail",
           "down"}    \* no daemon
Commands == {"PASS", "SERVER", "SQUIT", "USER", "QUIT", "PING", "PONG", "error"}

Peer(n) == CHOOSE m \in Nodes : m # n
\* half: halfdead.  quiet: the PINGs sent since the peer was last heard.
\* behind: n has given up a call while its peer was waiting for an answer, and
\* the peer waits still.
Fresh == [state |-> "init", token |-> 0, gotpass |-> FALSE, half |-> 0, quiet |-> 0,
          behind |-> FALSE]
Msg(cmd, arg) == [cmd |-> cmd, arg |-> arg]

Init == /\ link = [n \in Nodes |-> Fresh]
        /\ routed = [n \in Nodes |-> FALSE]
        /\ usr = [n \in Nodes |-> {}]
        /\ on = {} /\ socket = {}
        /\ net = [n \in Nodes |-> <<>>]
        /\ faults = 0
        /\ logins = 0
        /\ upset = FALSE
        /\ spoilt = FALSE
        /\ open = [n \in Nodes |-> {}]
        /\ stale = FALSE

-----------------------------------------------------------------------------
(* Parts of the handlers *)

Settled == \A n \in Nodes : net[n] = <<>>
Expected == UNCHANGED faults
Unexpected == faults < MaxFaults /\ faults' = faults + 1

\* send_msg(): without a socket sendto() fails.
Sent(n, msgs) == IF n \in socket THEN msgs ELSE <<>>
Send(n, msgs) == net' = [net EXCEPT ![Peer(n)] = @ \o Sent(n, msgs)]
Goes(n, state) == link' = [link EXCEPT ![n].state = state]

\* The entry of a lost link.
Cut(n, state) ==
    link' = [link EXCEPT ![n] = [Fresh EXCEPT !.state = state, !.quiet = link[n].quiet]]

\* Mutant: the server goes, its users stay.
DelRouterOnly(n) ==
    /\ routed' = [routed EXCEPT ![n] = FALSE]
    /\ UNCHANGED usr

\* del_router(): the server and all its users leave the tables.
DelRouter(n) ==
    /\ routed' = [routed EXCEPT ![n] = FALSE]
    /\ usr' = [usr EXCEPT ![n] = IF routed[n] THEN @ \ {Peer(n)} ELSE @]

\* Of a lost link no call is left.
Forget(n) == open' = [open EXCEPT ![n] = IF link[n].state = "connect" THEN {} ELSE @]

\* What a server that has just connected tells of the users it knows.  (It
\* names the servers it knows as well; the peer takes no notice of itself.)
Known(n) == [i \in 1..Cardinality(usr[n]) |->
                Msg("USER", IF n \in usr[n] /\ i = 1 THEN n ELSE Peer(n))]

-----------------------------------------------------------------------------
(* Timers: check_servers *)

\* NCS_INIT with internet: the name of the peer resolves or does not.  There is
\* a socket only if it does.
Setup(n) ==
    /\ link[n].state = "init"
    /\ \/ Goes(n, "call") /\ Expected /\ socket' = socket \cup {n}
       \/ Goes(n, "fail") /\ Unexpected /\ UNCHANGED socket
    /\ UNCHANGED <<tables, net, logins, upset, spoilt, open, stale>>

\* A token that nobody uses: the sequence numbers of two servers are equal
\* only by chance, and one comes round again only after 2^32 calls.
InUse == {link[n].token : n \in Nodes} \cup {m.arg : m \in UNION {ToSet(net[n]) : n \in Nodes}}
NewToken == CHOOSE t \in Tokens \ InUse : \A u \in Tokens \ InUse : t <= u

\* After GiveUp a call waits for 10 s or more: so long the peer waits for an
\* answer, and so often it looks at its connection.
Early(n) == LET p == link[Peer(n)] IN
            \/ link[n].behind /\ p.state = "waitpwd"
            \/ p.state = "connect" /\ p.half > HalfDead

\* NCS_CALL
PlaceCall(n) ==
    /\ link[n].state = "call"
    /\ IF Early(n) THEN Unexpected ELSE Expected
    /\ Tokens \ InUse # {}
    /\ link' = [link EXCEPT ![n].state = "waitpwd", ![n].token = NewToken,
                            ![n].behind = FALSE]
    /\ open' = [open EXCEPT ![n] = @ \cup {NewToken}]
    /\ Send(n, <<Msg("PASS", 0), Msg("SERVER", NewToken)>>)
    /\ UNCHANGED <<socket, tables, logins, upset, spoilt, stale>>

\* NCS_WAITPWD: no answer within 10 seconds
GiveUp(n) ==
    /\ link[n].state = "waitpwd"
    /\ link' = [link EXCEPT ![n].token = 0, ![n].state = "call",
                            ![n].behind = link[Peer(n)].state = "waitpwd",
                            ![Peer(n)].behind = FALSE]
    /\ IF Settled THEN Expected ELSE Unexpected
    /\ open' = [open EXCEPT ![n] = IF Settled THEN {} ELSE @]
    /\ UNCHANGED <<socket, tables, net, logins, upset, spoilt, stale>>

Dies(n) ==
    /\ Cut(n, "dead")
    /\ DelRouter(n)
    /\ Forget(n)
    /\ UNCHANGED <<socket, on, net, faults, logins, upset, spoilt, stale>>

\* NCS_CONNECT: the peer keeps calling as if it were not connected.
DieOfCalls(n) ==
    /\ link[n].state = "connect"
    /\ link[n].half > HalfDead
    /\ Dies(n)

\* NCS_CONNECT: nothing heard for 130 seconds
DieOfSilence(n) ==
    /\ link[n].state = "connect"
    /\ link[n].half <= HalfDead
    /\ link[n].quiet = Pings
    /\ Settled
    /\ Dies(n)

\* NCS_CONNECT: nothing heard for more than 60 seconds; one PING in 10 seconds.
\* A peer that calls is heard of every 70 seconds at least if dialdelay is not
\* above 60: that a PING falls between two calls, and its PONG clears the count
\* of them, is among the faults.
Ping(n) ==
    /\ link[n].state = "connect"
    /\ link[n].half <= HalfDead
    /\ link[n].quiet < Pings
    /\ Settled
    /\ IF link[Peer(n)].state \in {"call", "waitpwd"} THEN Unexpected ELSE Expected
    /\ link' = [link EXCEPT ![n].quiet = @ + 1]
    /\ Send(n, <<Msg("PING", 0)>>)
    /\ UNCHANGED <<socket, tables, logins, upset, spoilt, open, stale>>

\* NCS_HANGUP, NCS_DEAD and NCS_FAIL
Again(n) ==
    /\ \/ link[n].state \in {"hangup", "dead"} /\ Goes(n, "call")
       \/ link[n].state = "fail" /\ Goes(n, "init")
    /\ UNCHANGED <<socket, tables, net, faults, logins, upset, spoilt, open, stale>>

-----------------------------------------------------------------------------
(* Datagrams: ibc_receiver *)

\* n takes a datagram with command cmd; its state allows this.
Takes(n, cmd) ==
    /\ net[n] # <<>>
    /\ Head(net[n]).cmd = cmd
    /\ link[n].state \notin {"init", "down"}
Answer(n, msgs) == net' = [net EXCEPT ![n] = Tail(@), ![Peer(n)] = @ \o Sent(n, msgs)]
\* The entry after any message.
Heard(n) == [link[n] EXCEPT !.quiet = 0]

Dropped(n) ==
    /\ net[n] # <<>>
    /\ link[n].state \in {"init", "down"}
    /\ Answer(n, <<>>)
    /\ UNCHANGED <<socket, link, tables, faults, logins, upset, spoilt, open, stale>>

Pinged(n) ==
    /\ Takes(n, "PING")
    /\ link' = [link EXCEPT ![n] = Heard(n)]
    /\ Answer(n, <<Msg("PONG", 0)>>)
    /\ UNCHANGED <<socket, tables, faults, logins, upset, spoilt, open, stale>>

Ponged(n) ==
    /\ Takes(n, "PONG")
    /\ link' = [link EXCEPT ![n] = [Heard(n) EXCEPT !.half = 0]]
    /\ Answer(n, <<>>)
    /\ UNCHANGED <<socket, tables, faults, logins, upset, spoilt, open, stale>>

Error(n) ==
    /\ Takes(n, "error")
    /\ link' = [link EXCEPT ![n] = Heard(n)]
    /\ Answer(n, <<>>)
    /\ UNCHANGED <<socket, tables, faults, logins, upset, spoilt, open, stale>>

\* Mutant: calls that reach a connected server are not counted.
PassUncounted(n) ==
    /\ Takes(n, "PASS")
    /\ link' = [link EXCEPT ![n] =
                   [Heard(n) EXCEPT !.gotpass = link[n].state # "connect"]]
    /\ Answer(n, IF link[n].state = "connect" THEN <<Msg("error", 0)>> ELSE <<>>)
    /\ UNCHANGED <<socket, tables, faults, logins, upset, spoilt, open, stale>>

\* command_pass(), with the right password
Pass(n) ==
    /\ Takes(n, "PASS")
    /\ \/ /\ link[n].state = "connect"
          /\ link' = [link EXCEPT ![n] = [Heard(n) EXCEPT !.gotpass = FALSE, !.half = @ + 1]]
          /\ Answer(n, <<Msg("error", 0)>>)
       \/ /\ link[n].state # "connect"
          /\ link' = [link EXCEPT ![n] = [Heard(n) EXCEPT !.gotpass = TRUE]]
          /\ Answer(n, <<>>)
    /\ UNCHANGED <<socket, tables, faults, logins, upset, spoilt, open, stale>>

Connects(n, answer, call) ==
    /\ link' = [link EXCEPT ![n] = [Heard(n) EXCEPT !.state = "connect"]]
    /\ Answer(n, answer \o Known(n))
    /\ routed' = [routed EXCEPT ![n] = TRUE]
    /\ upset' = (upset \/ routed[n])
    /\ open' = IF link[Peer(n)].state = "connect" THEN [k \in Nodes |-> {}]
               ELSE [open EXCEPT ![n] = call]
    /\ UNCHANGED <<socket, usr, on, faults, logins, spoilt>>

\* command_server(): our own token comes back.
Answered(n) ==
    /\ Takes(n, "SERVER")
    /\ link[n].token # 0
    /\ Head(net[n]).arg = link[n].token
    /\ Connects(n, <<>>, {})
    /\ stale' = (stale \/ n \notin socket)

\* command_server(): the peer calls and so do we.  Whoever called and is
\* connected has kept his token: he gives up his state, not his tables.
Collides(n) ==
    /\ Takes(n, "SERVER")
    /\ link[n].token # 0
    /\ Head(net[n]).arg # link[n].token
    /\ link' = [link EXCEPT ![n] = [Heard(n) EXCEPT !.state = "waitpwd"]]
    /\ upset' = (upset \/ link[n].state = "connect")
    /\ Answer(n, <<>>)
    /\ UNCHANGED <<socket, tables, faults, logins, spoilt, open, stale>>

\* A call of n, or the one by which n is connected, is not over: no other answer
\* that n may take is on its way.
Open(n, token) ==
    /\ token \in open[n]
    /\ \/ link[n].state = "connect"
       \/ \A m \in ToSet(net[n]) : m.cmd = "SERVER" => m.arg \notin {token, link[n].token}

\* Mutant: the answer carries a token of our own.
AcceptsOwnToken(n) ==
    /\ Takes(n, "SERVER")
    /\ link[n].token = 0 /\ link[n].gotpass
    /\ Tokens \ InUse # {}
    /\ Connects(n, <<Msg("PASS", 0), Msg("SERVER", NewToken)>>, {NewToken})
    /\ stale' = (stale \/ n \notin socket \/ ~Open(Peer(n), Head(net[n]).arg))

\* command_server(): the peer calls, after a valid PASS.  Whether this is the
\* call it makes now, or even the answer to one, is not asked, nor whether n has a
\* socket to answer with: one whose name lookup has failed has none.
Accepts(n) ==
    /\ Takes(n, "SERVER")
    /\ link[n].token = 0 /\ link[n].gotpass
    /\ Connects(n, <<Msg("PASS", 0), Msg("SERVER", Head(net[n]).arg)>>,
                {Head(net[n]).arg})
    /\ stale' = (stale \/ n \notin socket \/ ~Open(Peer(n), Head(net[n]).arg))

\* command_server(): SERVER without PASS
Ignores(n) ==
    /\ Takes(n, "SERVER")
    /\ link[n].token = 0 /\ ~link[n].gotpass
    /\ link' = [link EXCEPT ![n] = Heard(n)]
    /\ Answer(n, <<>>)
    /\ UNCHANGED <<socket, tables, faults, logins, upset, spoilt, open, stale>>

\* command_squit() of the peer itself
Squit(n) ==
    /\ Takes(n, "SQUIT")
    /\ link' = [link EXCEPT ![n] = [Fresh EXCEPT !.state = "hangup", !.half = link[n].half]]
    /\ DelRouter(n)
    /\ Forget(n)
    /\ Answer(n, <<>>)
    /\ UNCHANGED <<socket, on, faults, logins, upset, spoilt, stale>>

\* command_user(), add_user(): a user of a server that n knows, itself included
User(n) ==
    /\ Takes(n, "USER")
    /\ LET server == Head(net[n]).arg IN
       usr' = [usr EXCEPT ![n] = IF server = n \/ routed[n] THEN @ \cup {server} ELSE @]
    /\ link' = [link EXCEPT ![n] = Heard(n)]
    /\ Answer(n, <<>>)
    /\ UNCHANGED <<socket, routed, on, faults, logins, upset, spoilt, open, stale>>

\* command_quit(), del_user()
Quit(n) ==
    /\ Takes(n, "QUIT")
    /\ usr' = [usr EXCEPT ![n] = @ \ {Head(net[n]).arg}]
    /\ link' = [link EXCEPT ![n] = Heard(n)]
    /\ Answer(n, <<>>)
    /\ UNCHANGED <<socket, routed, on, faults, logins, upset, spoilt, open, stale>>

Receive(n) == \/ Dropped(n) \/ Pinged(n) \/ Ponged(n) \/ Error(n) \/ Pass(n)
              \/ Answered(n) \/ Collides(n) \/ Accepts(n) \/ Ignores(n)
              \/ Squit(n) \/ User(n) \/ Quit(n)

-----------------------------------------------------------------------------
(* Users (chat_connect_r, chat_close_r) and the operators of the systems *)

IfLinked(n, msgs) == Send(n, IF link[n].state = "connect" THEN msgs ELSE <<>>)

Login(n) ==
    /\ n \in Homes /\ logins < MaxLogins
    /\ link[n].state # "down"
    /\ n \notin usr[n] \cup on
    /\ usr' = [usr EXCEPT ![n] = @ \cup {n}]
    /\ on' = on \cup {n}
    /\ IfLinked(n, <<Msg("USER", n)>>)
    /\ logins' = logins + 1
    /\ UNCHANGED <<socket, link, routed, faults, upset, spoilt, open, stale>>

\* Mutant: the entry stays.
LogoutKeepsEntry(n) ==
    /\ n \in on
    /\ on' = on \ {n}
    /\ IfLinked(n, <<Msg("QUIT", n)>>)
    /\ UNCHANGED <<socket, link, routed, usr, faults, logins, upset, spoilt, open, stale>>

\* Mutant: the link is not told.
LogoutSilent(n) ==
    /\ n \in on
    /\ usr' = [usr EXCEPT ![n] = @ \ {n}]
    /\ on' = on \ {n}
    /\ UNCHANGED <<socket, link, routed, net, faults, logins, upset, spoilt, open, stale>>

Logout(n) ==
    /\ n \in on
    /\ usr' = [usr EXCEPT ![n] = @ \ {n}]
    /\ on' = on \ {n}
    /\ IfLinked(n, <<Msg("QUIT", n)>>)
    /\ UNCHANGED <<socket, link, routed, faults, logins, upset, spoilt, open, stale>>

\* check_servers: the entry of the peer has changed in the setup and is
\* taken out and filled in again.
Reset(n) ==
    /\ link[n].state # "down"
    /\ Unexpected
    /\ link' = [link EXCEPT ![n] = Fresh]
    /\ socket' = socket \ {n}
    /\ IfLinked(n, <<Msg("SQUIT", n)>>)
    /\ IF link[n].state = "connect" THEN DelRouter(n) ELSE UNCHANGED <<routed, usr>>
    /\ Forget(n)
    /\ UNCHANGED <<on, logins, upset, spoilt, stale>>

\* The daemon ends: its tables are gone (ibc_init at the next start), and the
\* next daemon does not know the sessions of the users.
Ends(n, msgs) ==
    /\ link[n].state # "down"
    /\ Unexpected
    /\ link' = [link EXCEPT ![n] = [Fresh EXCEPT !.state = "down"]]
    /\ socket' = socket \ {n}
    /\ routed' = [routed EXCEPT ![n] = FALSE]
    /\ usr' = [usr EXCEPT ![n] = {}]
    /\ on' = on \ {n}
    /\ Forget(n)
    /\ Send(n, msgs)
    /\ UNCHANGED <<logins, upset, spoilt, stale>>

Killed(n) == Ends(n, <<>>)

\* ibc_shutdown() of a linked server (of another one it is like Killed)
Shutdown(n) ==
    /\ link[n].state = "connect"
    /\ Ends(n, (IF n \in usr[n] THEN <<Msg("QUIT", n)>> ELSE <<>>) \o <<Msg("SQUIT", n)>>)

\* The daemon is back, after longer than a datagram and its answer travel.
Boot(n) ==
    /\ link[n].state = "down"
    /\ Settled
    /\ Goes(n, "init")
    /\ UNCHANGED <<socket, tables, net, faults, logins, upset, spoilt, open, stale>>

-----------------------------------------------------------------------------
(* The network *)

News(m) == m.cmd \in {"USER", "QUIT"}
Damage(n) ==
    /\ Unexpected
    /\ \E i \in 1..Len(net[n]) :
           /\ spoilt' = (spoilt \/ News(net[n][i]) \/ (i > 1 /\ News(net[n][i - 1])))
           /\ \/ net' = [net EXCEPT ![n] = RemoveAt(@, i)]            \* lost
              \/ net' = [net EXCEPT ![n] = InsertAt(@, i, @[i])]      \* doubled
              \/ /\ i > 1                                             \* overtaken
                 /\ net' = [net EXCEPT ![n][i - 1] = net[n][i], ![n][i] = net[n][i - 1]]
    /\ UNCHANGED <<socket, link, tables, logins, upset, open, stale>>

Timers(n) == \/ Setup(n) \/ PlaceCall(n) \/ GiveUp(n)
             \/ DieOfCalls(n) \/ DieOfSilence(n) \/ Ping(n) \/ Again(n)

Next == \E n \in Nodes : \/ Timers(n) \/ Receive(n) \/ Login(n) \/ Logout(n)
                         \/ Reset(n) \/ Killed(n) \/ Shutdown(n) \/ Boot(n) \/ Damage(n)

Spec == Init /\ [][Next]_vars

(* The daemon polls its sockets and its timers for ever.  The delay before a
   new call is drawn at random between 10 s and CFG.dialdelay, so the calls of
   two servers do not cross for ever: a server that is not calling takes the
   peer's PASS and SERVER again and again.                                  *)
FairSpec ==
    /\ Spec
    /\ WF_vars(\E n \in Nodes : Receive(n)) /\ SF_vars(\E n \in Nodes : Boot(n))
    /\ \A n \in Nodes : /\ WF_vars(Timers(n))
                        /\ SF_vars(Pass(n) /\ link[n].token = 0)
                        /\ SF_vars(Accepts(n))

-----------------------------------------------------------------------------
(* Properties *)

TypeOK ==
    /\ link \in [Nodes -> [state : States, token : Tokens \cup {0}, gotpass : BOOLEAN,
                           half : Nat, quiet : 0..Pings, behind : BOOLEAN]]
    /\ routed \in [Nodes -> BOOLEAN]
    /\ usr \in [Nodes -> SUBSET Nodes]
    /\ on \subseteq Nodes /\ socket \subseteq Nodes
    /\ \A n \in Nodes : \A m \in ToSet(net[n]) :
           m.cmd \in Commands /\ m.arg \in Nodes \cup Tokens \cup {0}
    /\ faults \in 0..MaxFaults
    /\ logins \in 0..MaxLogins
    /\ open \in [Nodes -> SUBSET Tokens]
    /\ upset \in BOOLEAN /\ spoilt \in BOOLEAN /\ stale \in BOOLEAN

\* A connected peer has its place in the table of servers, and a server or a
\* user is in the tables of one that has lost the link only after a call to a
\* server that was connected by a call of its own (taskibc.c:1134).
TablesFollowLink ==
    \A n \in Nodes : /\ link[n].state = "connect" => routed[n]
                     /\ ~upset /\ link[n].state # "connect" => ~routed[n]
                     /\ ~routed[n] => Peer(n) \notin usr[n]

Inv == TypeOK /\ TablesFollowLink

\* Only such a call can bring a server to list a user of its own who is not
\* logged in: the peer tells it of its former users when it connects again.
NoGhosts == upset \/ \A n \in Nodes : n \in usr[n] => n \in on

Linked == \A n \in Nodes : link[n].state = "connect"

\* When nothing goes wrong no link is given up and no server hangs up,
\* however calls cross each other.
DiesOfFaultsOnly ==
    faults = 0 => \A n \in Nodes : link[n].state \in {"init", "call", "waitpwd", "connect"}

\* Two servers that are connected and have nothing left to read agree on who
\* is there, after any number of restarts, resets, lost calls and timeouts.  Not
\* if news of a user was damaged, if tables were kept when the link was lost, or
\* if a call was accepted that was over (taskibc.c:1143), for this may open the
\* link between one's news and the other's, or by a server without a socket.
Agreement ==
    /\ ~upset /\ ~spoilt /\ ~stale
    /\ Linked /\ Settled
    => \A n \in Nodes : usr[n] = on

\* A name lookup has failed and, before the server was back at it, a datagram of
\* the peer has moved its state on: it calls and answers without a socket, and
\* only NCS_INIT makes one (taskibc.c:822, 836, 1143).
Mute(n) == n \notin socket /\ link[n].state \notin {"init", "fail", "down"}

\* However the link was damaged, the servers connect again and stay so, unless
\* one of them is mute for good.
Relinked == <>[]Linked \/ \E n \in Nodes : <>[]Mute(n)
=============================================================================
