------------------------------ MODULE Transfer ------------------------------
(***************************************************************************)
(* What a mail session promises about each file: it leaves the sender's    *)
(* outbound only when the receiver has all of it in its inbound.  Where    *)
(* the promise is not kept, the module says what it takes.                 *)
(***************************************************************************)
CONSTANT Files

VARIABLES place,    \* where each file is
          failed,   \* files the receiver could not move to its inbound
          foreign   \* files of which the receiver keeps a part that is not theirs

vars == <<place, failed, foreign>>

Places == {"outbound", "both", "inbound", "stranded", "lost"}

Init == /\ place = [f \in Files |-> "outbound"]
        /\ failed = {} /\ foreign \subseteq Files

Move(f, from, to) == place[f] = from /\ place' = [place EXCEPT ![f] = to]

\* The receiver has the file; the sender disposes of it.
Deliver(f) == Move(f, "outbound", "both")
Dispose(f) == Move(f, "both", "inbound")

\* The file stays complete where partial files are kept.
Strand(f) == f \in failed /\ Move(f, "outbound", "stranded")

\* The sender disposes of a file the receiver has not got: what it keeps of it
\* has the right length, but the data of another file.
Lose(f) == f \in foreign /\ Move(f, "outbound", "lost")

\* From now on another file of that name is offered instead.
Replace(f) == Move(f, "both", "outbound")

Next == /\ failed \subseteq failed' /\ foreign' \subseteq Files
        /\ \/ \E f \in Files : \/ Deliver(f) \/ Dispose(f)
                               \/ Strand(f) \/ Lose(f) \/ Replace(f)
           \/ UNCHANGED place

Spec == Init /\ [][Next]_vars
=============================================================================
