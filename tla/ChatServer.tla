----------------------------- MODULE ChatServer -----------------------------
(***************************************************************************)
(* The chat server of one system without links to others                   *)
(* (mbtask/taskchat.c): the commands CCON, CPUT and CCLO of the local      *)
(* sessions, and what the daemon does for a session that hung up.  The     *)
(* sessions are the programs that chat: mbsebbs (mbsebbs/chat.c) and, for  *)
(* the sysop, mbmon (mbmon/mbmon.c); both send one command at a time and   *)
(* wait for the answer, and the daemon handles one command at a time.      *)
(* The lines of text the server hands out are in ChatRing.                 *)
(***************************************************************************)
EXTENDS ChatTables

CONSTANTS Me,         \* CFG.myfqdn
          Sysop       \* the name mbmon connects with, CFG.sysop

ASSUME ChatServerAssumption == /\ Me \in Servers /\ Sysop \in Names
                               /\ "#sysop" \in Channels
                               \* a name of 20 letters or more
                               /\ \A c \in Channels : Cut[c] # c => Cut[c] # "#sysop"

VARIABLES
    usr,        \* usr_list[]
    chn,        \* chn_list[]
    srvusers,   \* users in our own entry of srv_list[]
    registered, \* the pids in reginfo[] (see TaskRegs)
    sess,       \* sess[p]: where the program with pid p is
    who,        \* who[p]: the user of that program, "" when it is cleaned up
    up          \* the daemon runs

tables == <<usr, chn, srvusers>>
vars == <<tables, registered, sess, who, up>>

\* "nick" and "join": about to send that command without the user asking;
\* "poll": about to ask for lines; "chat": waits for a key
SessStates == {"none", "bbs", "nick", "join", "poll", "chat", "close"}
SysopChannel == "#sysop"

TypeOK == /\ usr \in [UsrSlots -> UsrRec \cup {NoUsr}]
          /\ chn \in [ChnSlots -> ChnRec \cup {NoChn}]
          /\ srvusers \in Nat
          /\ registered \subseteq Pids
          /\ sess \in [Pids -> SessStates]
          /\ who \in [Pids -> Names \cup {""}]
          /\ up \in BOOLEAN

Init == /\ usr = [i \in UsrSlots |-> NoUsr]
        /\ chn = [i \in ChnSlots |-> NoChn]
        /\ srvusers = 0
        /\ registered = {}
        /\ sess = [p \in Pids |-> "none"]
        /\ who = [p \in Pids |-> ""]
        /\ up = TRUE

-----------------------------------------------------------------------------
(* Helpers *)

WithPid(p) == {i \in Users(usr) : usr[i].pid = p}
\* strcasecmp()
Private(c) == c \in {SysopChannel, "#SYSOP"}

\* What is compared of a channel's owner: not the channel.
Owns(i) == /\ usr[i].channel # ""
           /\ \E j \in ChnSlots : /\ chn[j].owner \in {usr[i].nick, usr[i].name}
                                  /\ chn[j].server = usr[i].server

\* part(): the first entry with this pid that is in a channel the server has.
Leaving(p) == {i \in WithPid(p) : usr[i].channel # "" /\ Channel(chn, usr[i].channel) # {}}

Part(p) ==
    IF Leaving(p) = {} THEN UNCHANGED tables
    ELSE LET i == First(Leaving(p)) IN
         /\ chn' = Left(chn, usr[i].channel)
         /\ usr' = InChannel(usr, {i}, "")
         /\ UNCHANGED srvusers

-----------------------------------------------------------------------------
(* CCON: chat_connect_r(), and how the client goes on *)

\* The client looks for "200:1," where a refusal is "100:1,", so a refused
\* client goes on as well.  A forced chat begins with commands of its own.
NextStep(p, forced) ==
    IF ~forced THEN "poll" ELSE IF who[p] = Sysop THEN "join" ELSE "nick"

Connect(p, forced) ==
    /\ up /\ sess[p] = "bbs"
    /\ IF CanAddUser(usr, Me, who[p])
       THEN LET new == UserAdded(usr, Me, who[p])
                i == First(Entry(new, Me, who[p]))
            IN /\ usr' = [new EXCEPT ![i].pid = p,
                                     ![i].sysop = forced /\ who[p] = Sysop]
               /\ srvusers' = srvusers + 1
       ELSE UNCHANGED <<usr, srvusers>>
    /\ sess' = [sess EXCEPT ![p] = NextStep(p, forced)]
    /\ UNCHANGED <<chn, registered, who, up>>

-----------------------------------------------------------------------------
(* CPUT: chat_put_r() *)

\* The commands act on the first entry that has the pid of the sender.
Acting(p) == First(WithPid(p))

\* Mutant: the sysop channel is like any other.
MayCreateAnybody(i, c) == TRUE

MayCreate(i, c) == Private(c) => usr[i].sysop

Join(p, c) ==
    LET i == Acting(p) IN
    IF Channel(chn, c) # {}
    THEN /\ chn' = Entered(chn, c)
         /\ usr' = InChannel(usr, {i}, Cut[c])
    ELSE IF MayCreate(i, c) /\ FreeChn(chn) # {}
    THEN /\ chn' = Created(chn, c, usr[i].nick, Me)
         /\ usr' = InChannel(usr, {i}, Cut[c])
    ELSE UNCHANGED <<usr, chn>>

DoJoin(p, c) ==
    /\ IF usr[Acting(p)].channel # "" THEN UNCHANGED <<usr, chn>>
       ELSE Join(p, c)
    /\ UNCHANGED srvusers

DoNick(p, nick) ==
    /\ usr' = IF NickTaken(usr, nick) THEN usr
              ELSE [usr EXCEPT ![Acting(p)].nick = nick]
    /\ UNCHANGED <<chn, srvusers>>

DoTopic(p) ==
    LET i == Acting(p) IN
    /\ IF Owns(i) /\ Channel(chn, usr[i].channel) # {}
       THEN chn' = TopicSet(chn, usr[i].channel)
       ELSE UNCHANGED chn
    /\ UNCHANGED <<usr, srvusers>>

\* The line goes to the rings of the users, see ChatRing.
DoSay(p) == UNCHANGED tables

\* The log line of a CPUT without an entry prints the pid as a string.
Put(p, Handler, next) ==
    /\ up
    /\ IF WithPid(p) # {} THEN Handler /\ up' = up
       ELSE up' = FALSE /\ UNCHANGED tables
    /\ sess' = [sess EXCEPT ![p] = next]
    /\ UNCHANGED <<registered, who>>

ForcedNick(p) == sess[p] = "nick" /\ Put(p, DoNick(p, who[p]), "join")
ForcedJoin(p) == sess[p] = "join" /\ Put(p, DoJoin(p, SysopChannel), "poll")

Command(p) ==
    /\ sess[p] = "chat"
    /\ \/ \E c \in Channels : Put(p, DoJoin(p, c), "poll")
       \/ \E nick \in Nicks : Put(p, DoNick(p, nick), "poll")
       \/ Put(p, DoTopic(p), "poll")
       \/ Put(p, DoSay(p), "poll")
       \/ Put(p, Part(p), "poll")
       \/ Put(p, Part(p), "close")

\* While the BBS is closed or runs on batteries CCON, CPUT and CGET are refused
\* before anything is looked up; that may begin and end between any two
\* commands.  It ends the chat where the client looks at the answer.
Refused(p) ==
    /\ up
    /\ \/ sess[p] = "nick" /\ sess' = [sess EXCEPT ![p] = "join"]
       \/ sess[p] = "join" /\ sess' = [sess EXCEPT ![p] = "poll"]
       \/ sess[p] \in {"poll", "chat"} /\ sess' = [sess EXCEPT ![p] = "close"]
    /\ UNCHANGED <<tables, registered, who, up>>

RefusedConnect(p, forced) == /\ up /\ sess[p] = "bbs"
                             /\ sess' = [sess EXCEPT ![p] = NextStep(p, forced)]
                             /\ UNCHANGED <<tables, registered, who, up>>

-----------------------------------------------------------------------------
(* CGET, CCLO and the end of a session *)

\* chat_get_r(); "100:2,1,*** ERROR - Not connected to server;" ends the chat.
Get(p) == /\ up /\ sess[p] = "poll"
          /\ sess' = [sess EXCEPT ![p] = IF WithPid(p) = {} THEN "close" ELSE "chat"]
          /\ UNCHANGED <<tables, registered, who, up>>

\* chat_close_r() with del_user()
Close(p) ==
    /\ up /\ sess[p] = "close"
    /\ IF WithPid(p) = {} THEN UNCHANGED tables
       ELSE LET name == usr[First(WithPid(p))].name
                gone == Entry(usr, Me, name)
                c == usr[First(gone)].channel
            IN /\ chn' = IF c = "" THEN chn ELSE Left(chn, c)
               /\ usr' = Without(usr, gone)
               /\ srvusers' = srvusers - Cardinality(gone)
    /\ sess' = [sess EXCEPT ![p] = "bbs"]
    /\ UNCHANGED <<registered, who, up>>

\* A program with an unused pid registers and lets somebody in.
Login(p, u) == /\ up /\ sess[p] = "none" /\ p \notin registered
               /\ registered' = registered \cup {p}
               /\ sess' = [sess EXCEPT ![p] = "bbs"]
               /\ who' = [who EXCEPT ![p] = u]
               /\ UNCHANGED <<tables, up>>

\* It ends, is killed, or loses its line: at any moment.
Gone(p) == /\ sess[p] # "none"
           /\ sess' = [sess EXCEPT ![p] = "none"]
           /\ UNCHANGED <<tables, registered, who, up>>

\* Mutant: the chat server is not told.
CleanUserSilently(p) == /\ up /\ p \in registered /\ sess[p] = "none"
                        /\ registered' = registered \ {p}
                        /\ who' = [who EXCEPT ![p] = ""]
                        /\ UNCHANGED <<tables, sess, up>>

\* reg_closecon() or reg_check() calls chat_cleanuser().
CleanUser(p) == /\ up /\ p \in registered /\ sess[p] = "none"
                /\ Part(p)
                /\ registered' = registered \ {p}
                /\ who' = [who EXCEPT ![p] = ""]
                /\ UNCHANGED <<sess, up>>

Next == \E p \in Pids :
            \/ \E u \in Names : Login(p, u)
            \/ \E forced \in BOOLEAN : Connect(p, forced) \/ RefusedConnect(p, forced)
            \/ ForcedNick(p) \/ ForcedJoin(p) \/ Command(p)
            \/ Refused(p) \/ Get(p) \/ Close(p) \/ Gone(p) \/ CleanUser(p)

Spec == Init /\ [][Next]_vars

-----------------------------------------------------------------------------
(* Properties *)

\* The count of users in an entry of the channels is the number of users who
\* are in that channel, a name has one entry, and no user is in a channel the
\* server does not have, whoever hangs up when: the count decides when part()
\* and del_user() remove the channel.  Names that are cut to fit are excepted.
CountsExact ==
    \A c \in InTable : (\A d \in Channels : Cut[d] = c => d = c) =>
        /\ Cardinality(Channel(chn, c)) <= 1
        /\ \A i \in Channel(chn, c) : chn[i].users = Cardinality(Members(usr, c))
        /\ (Channel(chn, c) = {}) <=> (Members(usr, c) = {})

\* Also where long names give a channel several entries, the counts in the
\* entries of a name add up to the users who are in a channel of that name: the
\* entries have a seat for every user they count.
Seats(c) == UNION {{i} \X (1..chn[i].users) : i \in Channel(chn, c)}
CountsAddUp == \A c \in InTable : Cardinality(Seats(c)) = Cardinality(Members(usr, c))

\* Everybody is registered once, and the number of users this server shows and
\* the daily reset waits for is the number of entries (add_user, del_user).
UsersCounted == /\ srvusers = Cardinality(Users(usr))
                /\ \A i \in Users(usr) : Entry(usr, usr[i].server, usr[i].name) = {i}

\* A session that is gone and cleaned up has left its channel, though its entry
\* stays: it takes no part in the counts of channels any more (chat_cleanuser).
GoneIsOut == \A i \in Users(usr) : usr[i].pid \notin registered => usr[i].channel = ""

Inv == TypeOK /\ GoneIsOut

\* The sysop channel comes into being with a sysop in it (join).
OnlySysopCreates ==
    [][Channel(chn, SysopChannel) = {} /\ Channel(chn, SysopChannel)' # {} =>
          \E i \in Members(usr, SysopChannel)' : usr'[i].sysop]_vars

\* mbtask.html:283 "Error, fatal and disconnect chat": a program that is not
\* connected is told so.
DaemonSurvives == up

=============================================================================
