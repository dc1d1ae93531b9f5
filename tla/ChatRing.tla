------------------------------ MODULE ChatRing ------------------------------
(***************************************************************************)
(* How the lines of the chat server reach the users (mbtask/taskchat.c):   *)
(* one ring for all, in which every line is stored once for every user it  *)
(* is meant for, one head, and a pointer for every user that follows it    *)
(* when the user's program asks for a line (CGET).  Who is in which        *)
(* channel is left to ChatServer: a line is said to any of the users.      *)
(***************************************************************************)
EXTENDS Integers, FiniteSetsExt

CONSTANTS Chatters,     \* the processes that chat
          Nobody,       \* what a cell that was never written is meant for
          MaxMessages,  \* MAXMESSAGES
          MaxLines      \* bound of the model: lines said

ASSUME ChatRingAssumption == /\ IsFiniteSet(Chatters) /\ Nobody \notin Chatters
                             /\ MaxMessages \in Nat \ {0}
                             /\ MaxLines \in Nat

VARIABLES
    ring,       \* chat_messages[], and the cell behind it
    head,       \* buffer_head
    pointer,    \* pointer[p] in the entry of p, -1 for no entry
    inbox,      \* history: the lines for p that p has not got
    passed,     \* history: the head has passed the pointer of p
    said,       \* history: lines said, which have the numbers 1, 2, ...
    lastgot     \* history: the last line p got, 0 for none

ringVars == <<ring, head, pointer, inbox, passed, said, lastgot>>

\* The array ends at MaxMessages - 1, head and pointers go one further.  What
\* the cell there holds in memory besides is left open by the language; here it
\* is a cell like the others.
Cells == 0..MaxMessages
Line == [to : Chatters \cup {Nobody}, line : 0..MaxLines]

\* Position i moved forward n times: it goes back to 0 from MaxMessages.
Advanced(i, n) == (i + n) % (MaxMessages + 1)

Connected == {p \in Chatters : pointer[p] # -1}

RingTypeOK == /\ ring \in [Cells -> Line]
              /\ head \in Cells
              /\ pointer \in [Chatters -> Cells \cup {-1}]
              /\ inbox \in [Chatters -> SUBSET (1..MaxLines)]
              /\ passed \in [Chatters -> BOOLEAN]
              /\ said \in 0..MaxLines
              /\ lastgot \in [Chatters -> 0..MaxLines]

RingInit == /\ ring = [i \in Cells |-> [to |-> Nobody, line |-> 0]]
            /\ head = 0
            /\ pointer = [p \in Chatters |-> -1]
            /\ inbox = [p \in Chatters |-> {}]
            /\ passed = [p \in Chatters |-> FALSE]
            /\ said = 0
            /\ lastgot = [p \in Chatters |-> 0]

-----------------------------------------------------------------------------
(* Storing lines *)

\* The orders in which the users S may stand in the table
Orders(S) == Bijection(1..Cardinality(S), S)

\* system_msg() for each of n users, one after the other: which of them write
\* to cell i.  The last one stays.
Writes(i, n) == {k \in 1..n : Advanced(head, k) = i}

Stored(users, n, line) ==
    [i \in Cells |-> IF Writes(i, n) = {} THEN ring[i]
                     ELSE [to |-> users[Max(Writes(i, n))], line |-> line]]

\* How far the pointer of p is behind the head.
Lag(p) == (head - pointer[p]) % (MaxMessages + 1)

\* chat_msg(): a line to the users S, in the order of the table.
Say(S, users) ==
    /\ said < MaxLines
    /\ said' = said + 1
    /\ ring' = Stored(users, Cardinality(S), said + 1)
    /\ head' = Advanced(head, Cardinality(S))
    /\ inbox' = [p \in Chatters |-> IF p \in S THEN inbox[p] \cup {said + 1} ELSE inbox[p]]
    /\ passed' = [p \in Chatters |->
                     passed[p] \/ (p \in Connected /\ Lag(p) + Cardinality(S) > MaxMessages)]
    /\ UNCHANGED <<pointer, lastgot>>

-----------------------------------------------------------------------------
(* Users *)

\* Mutant: it begins at the beginning of the ring.
FollowFromStart(p) == /\ p \notin Connected
                      /\ pointer' = [pointer EXCEPT ![p] = 0]
                      /\ UNCHANGED <<ring, head, inbox, passed, said, lastgot>>

\* chat_connect_r(); the words of welcome are not modelled
Follow(p) == /\ p \notin Connected
             /\ pointer' = [pointer EXCEPT ![p] = head]
             /\ UNCHANGED <<ring, head, inbox, passed, said, lastgot>>

\* chat_close_r()
Leave(p) == /\ p \in Connected
            /\ pointer' = [pointer EXCEPT ![p] = -1]
            /\ inbox' = [inbox EXCEPT ![p] = {}]
            /\ passed' = [passed EXCEPT ![p] = FALSE]
            /\ lastgot' = [lastgot EXCEPT ![p] = 0]
            /\ UNCHANGED <<ring, head, said>>

\* Mutant: it reads one cell too far.
UnreadTooFar(p) == 1..(Lag(p) + 1)

\* The cells from the pointer of p to the head: how often it has to move.
Unread(p) == 1..Lag(p)
CellOf(p, k) == ring[Advanced(pointer[p], k)]
ForMe(p) == {k \in Unread(p) : CellOf(p, k).to = p}

\* chat_get_r(): the pointer stops at the first line for p, or at the head.
GetLine(p) ==
    /\ p \in Connected
    /\ \/ /\ ForMe(p) = {}
          /\ pointer' = [pointer EXCEPT ![p] = head]
          /\ inbox' = [inbox EXCEPT ![p] = {}]
          /\ UNCHANGED lastgot
       \/ /\ ForMe(p) # {}
          /\ LET k == Min(ForMe(p)) IN
             /\ pointer' = [pointer EXCEPT ![p] = Advanced(@, k)]
             /\ inbox' = [inbox EXCEPT ![p] = {l \in @ : l > CellOf(p, k).line}]
             /\ lastgot' = [lastgot EXCEPT ![p] = CellOf(p, k).line]
    /\ passed' = [passed EXCEPT ![p] = FALSE]
    /\ UNCHANGED <<ring, head, said>>

RingNext == \/ \E S \in SUBSET Connected :
                   S # {} /\ \E users \in Orders(S) : Say(S, users)
            \/ \E p \in Chatters : Follow(p) \/ Leave(p) \/ GetLine(p)

RingSpec == RingInit /\ [][RingNext]_ringVars

-----------------------------------------------------------------------------
(* Properties *)

Ahead(p) == {CellOf(p, k).line : k \in ForMe(p)}

\* A user whose pointer the head has not passed gets every line that was said to
\* him since he connected or since he asked last, and no other (chat_get_r).  He
\* gets each once and in the order they were said, even when some are lost.
Delivered == \A p \in Connected :
    /\ ~passed[p] => Ahead(p) = inbox[p]
    /\ \A j, k \in ForMe(p) : j < k => CellOf(p, j).line < CellOf(p, k).line

RingInv == RingTypeOK /\ Delivered

\* No user gets a line again or an older one, not even after he lost some.
NeverBack == [][\A p \in Chatters : lastgot'[p] # lastgot[p] =>
                    lastgot'[p] = 0 \/ lastgot'[p] > lastgot[p]]_ringVars

=============================================================================
