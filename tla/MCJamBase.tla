----------------------------- MODULE MCJamBase -----------------------------
(* JamBase for TLC: what the programs do in the behaviours that are checked. *)
EXTENDS JamBase

Plan(procs, old, add, kill, delete, pack, read, crash) ==
    [procs |-> procs, old |-> old, add |-> add, kill |-> kill, delete |-> delete,
     pack |-> pack, read |-> read, crash |-> crash]

MCPlans == {Plan(2, 1, 2, 0, 0, 1, 0, 0),  \* adding beside a pack
            Plan(2, 1, 1, 1, 1, 1, 0, 0),  \* ... and beside deletions
            Plan(2, 2, 0, 1, 1, 1, 1, 0),  \* reading beside deletions and a pack
            Plan(2, 1, 2, 1, 1, 0, 1, 0),  \* ... and beside adding
            Plan(2, 1, 1, 0, 0, 1, 1, 0),
            Plan(2, 0, 2, 0, 0, 1, 0, 1),  \* a new base, and a program is killed
            Plan(1, 1, 2, 1, 1, 1, 1, 1),  \* one program at a time, any of them killed
            Plan(1, 1, 3, 1, 1, 1, 0, 1)}
============================================================================
