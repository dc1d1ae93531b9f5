------------------------------ MODULE MCBinkp ------------------------------
(* One file each way, or two files one way.  In the last session a block is *)
(* kept of each file, or "b" was damaged by what was resumed into it.       *)
EXTENDS Binkp
MCOwners == {f \in [Files -> Peers] : f["a"] = "org"}
MCBlocks == [f \in Files |-> IF f = "a" THEN <<3, 2>> ELSE <<1, 2>>]
MCPart(f) == <<<<f, 2>>>>
MCKept == {[f \in Files |-> MCPart(f)],
           [f \in Files |-> IF f = "b" THEN MCPart("b") \o MCPart("a") ELSE MCPart(f)]}
=============================================================================
