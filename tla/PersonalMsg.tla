---------------------------- MODULE PersonalMsg ----------------------------
(***************************************************************************)
(* Personal messages to a user who is online: the ring of messages in the  *)
(* user's slot of the client table (mbtask/taskregs.c, reg_spm, reg_ipm_r) *)
(* and the reason for a page, which lies behind it in memory.  The arrays  *)
(* have RB elements and the ring has the RB + 1 positions 0..RB, so the    *)
(* model keeps the memory of the record cell by cell.                      *)
(***************************************************************************)
EXTENDS Integers, Sequences

CONSTANTS RB,        \* elements of fname[] and msg[] in a record
          MaxSent    \* bound: messages accepted in one behaviour

ASSUME RBAssumption == RB \in Nat \ {0}
ASSUME MaxSentAssumption == MaxSent \in Nat

VARIABLES
    open,             \* the slot belongs to a user who is online
    silent, ismsg, ptr_in, ptr_out,      \* fields of reg_info
    cell,             \* the memory of fname[], msg[] and reason[]
    paged,            \* the user has paged the sysop
    sent, at,         \* history: messages accepted, and which is where
    extra             \* history: position RB was used since the user came

slotVars == <<open, silent, ismsg, ptr_in, ptr_out, cell, paged>>
vars == <<slotVars, sent, at, extra>>

Positions == 0..RB
Ids == 1..MaxSent
None == <<"none", 0>>
Cells == ({"fname", "msg"} \X (0..(RB - 1))) \cup {<<"reason", 0>>}
Contents == {None, <<"reason", 0>>} \cup ({"from", "text"} \X Ids)

TypeOK == /\ open \in BOOLEAN /\ silent \in BOOLEAN /\ ismsg \in BOOLEAN
          /\ paged \in BOOLEAN /\ extra \in BOOLEAN
          /\ ptr_in \in Positions /\ ptr_out \in Positions
          /\ cell \in [Cells -> Contents]
          /\ sent \in 0..MaxSent
          /\ at \in [Positions -> 0..MaxSent]

-----------------------------------------------------------------------------
(* The layout of the record.  An element behind the end of an array is     *)
(* what the next member starts with: fname[RB] is msg[0], msg[RB] is       *)
(* reason.  strncpy() pads with zeros, so a name over a text hides it.     *)

NameCell(i) == IF i < RB THEN <<"fname", i>> ELSE <<"msg", 0>>
TextCell(i) == IF i < RB THEN <<"msg", i>> ELSE <<"reason", 0>>

Advance(i) == IF i < RB THEN i + 1 ELSE 0

\* Positions of the messages that wait, and how many there are.
Waits == IF ~ismsg THEN 0
         ELSE IF ptr_in > ptr_out THEN ptr_in - ptr_out
         ELSE ptr_in - ptr_out + RB + 1
Waiting == {(ptr_out + k) % (RB + 1) : k \in 0..(Waits - 1)}

Cleared == /\ silent' = FALSE /\ ismsg' = FALSE
           /\ ptr_in' = 0 /\ ptr_out' = 0
           /\ cell' = [c \in Cells |-> None]
           /\ paged' = FALSE
           /\ extra' = FALSE

Init == /\ open = FALSE /\ silent = FALSE /\ ismsg = FALSE
        /\ ptr_in = 0 /\ ptr_out = 0
        /\ cell = [c \in Cells |-> None]
        /\ paged = FALSE
        /\ sent = 0
        /\ at = [i \in Positions |-> 0]
        /\ extra = FALSE

-----------------------------------------------------------------------------
(* The user comes, goes, and says whether messages are welcome *)

Login == /\ ~open
         /\ open' = TRUE
         /\ silent' = TRUE
         /\ UNCHANGED <<ismsg, ptr_in, ptr_out, cell, paged, sent, at, extra>>

Logout == /\ open
          /\ open' = FALSE
          /\ Cleared
          /\ UNCHANGED <<sent, at>>

Silent == /\ open
          /\ silent' = ~silent
          /\ UNCHANGED <<open, ismsg, ptr_in, ptr_out, cell, paged, sent, at, extra>>

\* The user pages the sysop for a chat; the sysop comes.
Page == /\ open
        /\ paged' = TRUE
        /\ cell' = [cell EXCEPT ![<<"reason", 0>>] = <<"reason", 0>>]
        /\ UNCHANGED <<open, silent, ismsg, ptr_in, ptr_out, sent, at, extra>>

SysopTalk == /\ paged
             /\ paged' = FALSE
             /\ UNCHANGED <<open, silent, ismsg, ptr_in, ptr_out, cell, sent, at, extra>>

-----------------------------------------------------------------------------
(* reg_spm: another user, or the sysop, sends a message *)

\* Mutant: a full ring is not noticed.
FullNever == FALSE
Full == ismsg /\ ptr_in = ptr_out

\* Mutant: the name is copied with the length of the text, over the next name.
StoreLongName ==
    /\ sent < MaxSent
    /\ sent' = sent + 1
    /\ cell' = [cell EXCEPT ![NameCell(ptr_in)] = <<"from", sent'>>,
                            ![NameCell(Advance(ptr_in))] = None,
                            ![TextCell(ptr_in)] = <<"text", sent'>>]
    /\ at' = [at EXCEPT ![ptr_in] = sent']
    /\ extra' = (extra \/ ptr_in = RB)
    /\ ptr_in' = Advance(ptr_in)
    /\ ismsg' = TRUE
    /\ UNCHANGED <<open, silent, ptr_out, paged>>

\* The message gets the next number; sent < MaxSent is the bound.
Store ==
    /\ sent < MaxSent
    /\ sent' = sent + 1
    /\ cell' = [cell EXCEPT ![NameCell(ptr_in)] = <<"from", sent'>>,
                            ![TextCell(ptr_in)] = <<"text", sent'>>]
    /\ at' = [at EXCEPT ![ptr_in] = sent']
    /\ extra' = (extra \/ ptr_in = RB)
    /\ ptr_in' = Advance(ptr_in)
    /\ ismsg' = TRUE
    /\ UNCHANGED <<open, silent, ptr_out, paged>>

\* The answers 3, 2 and 1 of reg_spm leave everything as it is.  A user who does
\* not want to be disturbed is not, not even by the sysop.
Send == open /\ ~Full /\ ~silent /\ Store

\* reg_ipm_r: the user's program asks for a message.
Receive == /\ open /\ ismsg
           /\ ptr_out' = Advance(ptr_out)
           /\ ismsg' = (ptr_out' # ptr_in)
           /\ UNCHANGED <<open, silent, ptr_in, cell, paged, sent, at, extra>>

Next == \/ Login \/ Logout \/ Silent \/ Page \/ SysopTalk
        \/ Send \/ Receive

Spec == Init /\ [][Next]_vars

-----------------------------------------------------------------------------
(* Properties *)

\* The ring is a mailbox for RB + 1 messages: across any wrap of the two
\* pointers messages come out once, in the order they were accepted, and a
\* full ring accepts none.
Mailbox == INSTANCE BoundedFifo
    WITH Capacity <- RB + 1,
         queue <- [k \in 1..Waits |-> at[(ptr_out + k - 1) % (RB + 1)]]
ImplementsFifo == Mailbox!Spec

\* What the daemon hands out for position i is what was sent.
Intact(i) == /\ cell[NameCell(i)] = <<"from", at[i]>>
             /\ cell[TextCell(i)] = <<"text", at[i]>>

\* Messages that wait, and the reason of a page, are what was sent, as long as
\* the ring was never full; later only the messages at its first and its last
\* position and the reason may be damaged.
DamageConfined ==
    /\ \A i \in Waiting \cap (1..(RB - 1)) : Intact(i)
    /\ ~extra => /\ \A i \in Waiting : Intact(i)
                 /\ paged => cell[<<"reason", 0>>] = <<"reason", 0>>

Inv == TypeOK /\ DamageConfined

=============================================================================
