---------------------------- MODULE BoundedFifo ----------------------------
(***************************************************************************)
(* What a mailbox promises: messages wait in the order in which they were  *)
(* accepted, each is taken out once, and none is accepted when Capacity    *)
(* messages wait.  Messages are numbered in the order of acceptance.       *)
(***************************************************************************)
EXTENDS Naturals, Sequences

CONSTANT Capacity

VARIABLES queue,   \* the numbers of the messages that wait
          sent     \* how many were accepted

vars == <<queue, sent>>

Init == queue = <<>> /\ sent = 0

Put == /\ Len(queue) < Capacity
       /\ sent' = sent + 1
       /\ queue' = Append(queue, sent')

Get == /\ queue # <<>>
       /\ queue' = Tail(queue)
       /\ UNCHANGED sent

\* The owner of the mailbox leaves.
Reset == queue' = <<>> /\ UNCHANGED sent

Next == Put \/ Get \/ Reset

Spec == Init /\ [][Next]_vars
============================================================================
