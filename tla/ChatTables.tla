---------------------------- MODULE ChatTables -----------------------------
(***************************************************************************)
(* The tables of the chat server (mbtask/taskibc.h) and what the functions *)
(* that change them return (mbtask/taskibc.c): add_user, del_user,         *)
(* del_userchannel, add_channel, del_channel.  The tables are arrays that  *)
(* are searched from slot 1 upward and filled at their first free slot.    *)
(* ChatServer keeps such tables in its variables.                          *)
(***************************************************************************)
EXTENDS Naturals, FiniteSets

CONSTANTS Servers,    \* the chat servers
          Names,      \* unix names of users; a real name belongs to each
          Nicks,      \* what a user may call himself, his name included
          Channels,   \* the names of channels users ask for
          Cut,        \* Cut[c]: the part of c that fits in a table
          MaxUsr,     \* MAXIBC_USR
          MaxChn,     \* MAXIBC_CHN
          Pids,       \* the processes that chat
          NoPid       \* the pid in the entry of a user of another server

ASSUME ChatAssumption == /\ Names \subseteq Nicks
                         /\ "" \notin Servers \cup Nicks \cup Channels
                         /\ Cut \in [Channels -> Channels]
                         /\ \A c \in Channels : Cut[Cut[c]] = Cut[c]
                         /\ MaxUsr \in Nat /\ MaxChn \in Nat
                         /\ NoPid \notin Pids

UsrSlots == 1..MaxUsr
ChnSlots == 1..MaxChn
InTable == {Cut[c] : c \in Channels}

\* A free slot is all zeros.
NoUsr == [server |-> "", name |-> "", nick |-> "", channel |-> "",
          sysop |-> FALSE, pid |-> NoPid]
NoChn == [server |-> "", name |-> "", owner |-> "", users |-> 0, topic |-> FALSE]

UsrRec == [server : Servers, name : Names, nick : Nicks, channel : InTable \cup {""},
           sysop : BOOLEAN, pid : Pids \cup {NoPid}]
\* topic: somebody has set one
ChnRec == [server : Servers, name : InTable, owner : Nicks, users : Nat, topic : BOOLEAN]

First(S) == CHOOSE i \in S : \A j \in S : i <= j

-----------------------------------------------------------------------------
(* Users *)

Users(usr) == {i \in UsrSlots : usr[i] # NoUsr}
Of(usr, server) == {i \in Users(usr) : usr[i].server = server}
Entry(usr, server, name) == {i \in Of(usr, server) : usr[i].name = name}
\* The users a command that names nick@server is about.
Called(usr, server, nick) ==
    {i \in Of(usr, server) : usr[i].nick = nick \/ usr[i].name = nick}
Members(usr, c) == {i \in Users(usr) : usr[i].channel = c}
NickTaken(usr, nick) == \E i \in Users(usr) : usr[i].name = nick \/ usr[i].nick = nick

\* Mutant: no search for the real name.
CanAddUserAgain(usr, server, name) == \E i \in UsrSlots : usr[i] = NoUsr

\* add_user() answers 0.
CanAddUser(usr, server, name) ==
    /\ Entry(usr, server, name) = {}
    /\ \E i \in UsrSlots : usr[i] = NoUsr

UserAdded(usr, server, name) ==
    [usr EXCEPT ![First({i \in UsrSlots : usr[i] = NoUsr})] =
        [NoUsr EXCEPT !.server = server, !.name = name, !.nick = name]]

Without(usr, slots) == [i \in UsrSlots |-> IF i \in slots THEN NoUsr ELSE usr[i]]
InChannel(usr, slots, c) ==
    [i \in UsrSlots |-> IF i \in slots THEN [usr[i] EXCEPT !.channel = c] ELSE usr[i]]

-----------------------------------------------------------------------------
(* Channels *)

Channel(chn, c) == {i \in ChnSlots : chn[i].name = c}
FreeChn(chn) == {i \in ChnSlots : chn[i] = NoChn}

Entered(chn, c) == [chn EXCEPT ![First(Channel(chn, c))].users = @ + 1]

\* add_channel(), if there is room
Created(chn, c, owner, server) ==
    IF FreeChn(chn) = {} THEN chn
    ELSE [chn EXCEPT ![First(FreeChn(chn))] =
             [server |-> server, name |-> Cut[c], owner |-> owner, users |-> 1,
              topic |-> FALSE]]

\* Mutant: the empty channel stays.
LeftKeepsEmpty(chn, c) ==
    IF Channel(chn, c) = {} THEN chn
    ELSE [chn EXCEPT ![First(Channel(chn, c))].users = @ - 1]

\* Mutant: the search goes on, and every entry of the name loses a user.
LeftEverywhere(chn, c) ==
    [i \in ChnSlots |-> IF chn[i].name # c THEN chn[i]
                        ELSE IF chn[i].users > 1 THEN [chn[i] EXCEPT !.users = @ - 1]
                        ELSE NoChn]

\* del_userchannel(); the last user takes the channel with him.
Left(chn, c) ==
    IF Channel(chn, c) = {} THEN chn
    ELSE LET i == First(Channel(chn, c)) IN
         [chn EXCEPT ![i] = IF chn[i].users > 1 THEN [chn[i] EXCEPT !.users = @ - 1]
                            ELSE NoChn]

TopicSet(chn, c) ==
    IF Channel(chn, c) = {} THEN chn
    ELSE [chn EXCEPT ![First(Channel(chn, c))].topic = TRUE]
=============================================================================
