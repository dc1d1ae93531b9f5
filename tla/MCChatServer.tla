---------------------------- MODULE MCChatServer ----------------------------
(***************************************************************************)
(* Instances of ChatServer for TLC.                                        *)
(***************************************************************************)
EXTENDS ChatServer, TLC

CutNothing == [c \in Channels |-> c]
\* "#long2" does not fit in the table, "#long" is what remains of it
CutLong == [c \in Channels |-> IF c = "#long2" THEN "#long" ELSE c]
PidSymmetry == Permutations(Pids)
=============================================================================
