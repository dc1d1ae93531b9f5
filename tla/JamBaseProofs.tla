---------------------------- MODULE JamBaseProofs ----------------------------
(***************************************************************************)
(* Theorems about JamBase, for any number of programs, any plan for them,  *)
(* any size of the base and of an unsigned int: the number of messages and *)
(* the numbers of the messages are right, what was stored is there, and    *)
(* the pointer of the user passes over nothing, save in the cases that the *)
(* properties name.                                                        *)
(*                                                                         *)
(* The invariant has two halves.  Base holds always: what programs have    *)
(* open, which files are in use, that a lock has one owner, that there is  *)
(* room, and what a writer has written so far.  The rest is about the base *)
(* as the next program will find it, and each part of it is conditional:   *)
(* it holds until the accident happens that breaks it (JamBase!mishap).    *)
(***************************************************************************)
EXTENDS JamBase, FiniteSetTheorems, SequenceTheorems, WellFoundedInduction, TLAPS

-----------------------------------------------------------------------------
(* The invariant: the state of the base *)

\* The file that has the name, or will have it when the exchange is over, and
\* what is in it.
Target(f) == IF tmp[f] = None THEN dir[f] ELSE tmp[f]
THdrs == IF Target("jhr") = None THEN <<>> ELSE jhr[Target("jhr")].hdrs
TActive == IF Target("jhr") = None THEN 0 ELSE jhr[Target("jhr")].active
TTexts == IF Target("jdt") = None THEN <<>> ELSE jdt[Target("jdt")]
TIndex == IF Target("jdx") = None THEN <<>> ELSE jdx[Target("jdx")]
TLast == IF Target("jlr") = None THEN 0 ELSE jlr[Target("jlr")]

\* What the variables are.
HeaderFile == [info : BOOLEAN, active : 0..(Wrap - 1), hdrs : Seq(Header)]
Types ==
    /\ left \in [{"procs", "old", "add", "kill", "pack", "read", "delete", "crash"} -> Nat]
    /\ msgs \in Nat /\ swaps \in Nat /\ msgs + left.add <= MaxMsgs /\ MaxMsgs < Wrap
    /\ dir \in [Files -> Inodes \cup {None}] /\ tmp \in [Files -> Inodes \cup {None}]
    /\ jhr \in [Inodes -> HeaderFile] /\ jdt \in [Inodes -> Seq(1..MaxMsgs)]
    /\ jdx \in [Inodes -> Seq(Nat \ {0})] /\ jlr \in [Inodes -> Nat]
    /\ pc \in [Procs -> States] /\ job \in [Procs -> Jobs]
    /\ fd \in [Procs -> [Files -> Inodes \cup {None}]]
    /\ act \in [Procs -> 0..(Wrap - 1)]
    /\ num \in [Procs -> Nat] /\ cur \in [Procs -> Int]
    /\ killed \cup seen \cup astray \cup stored \subseteq 1..MaxMsgs

\* What a program has open, and what it was started for, at the place where
\* it is.
StageOf(p) ==
    /\ pc[p] = "closed" => /\ \A f \in Files : fd[p][f] = None
                           /\ job[p] \in {"none", "show", "done"}
    /\ pc[p] \notin {"closed", "swap"} => fd[p].jhr # None
    /\ pc[p] \in LockPc \cup {"open"} => \A f \in Files : fd[p][f] # None
    /\ pc[p] \in Adding => job[p] = "add"
    /\ pc[p] = "header" => num[p] >= 1
    /\ pc[p] = "deleted" => job[p] = "kill"
    /\ pc[p] = "swap" => job[p] = "pack" /\ num[p] \in 1..8
    /\ job[p] = "add" => cur[p] \in 1..msgs
    /\ job[p] \in {"show", "set"} => cur[p] <= swaps
Stage == \A p \in Procs : StageOf(p)

\* The new files of a pack have no other name and nobody has opened them.
Apart == \A f \in Files : tmp[f] # None =>
             tmp[f] # dir[f] /\ \A q \in Procs : fd[q][f] # tmp[f]

\* A file that nobody can reach any more is empty.
Blank == /\ \A i \in Inodes \ Used("jhr") : jhr[i] = NoHeaders
         /\ \A i \in Inodes \ Used("jdt") : jdt[i] = <<>>
         /\ \A i \in Inodes \ Used("jdx") : jdx[i] = <<>>
         /\ \A i \in Inodes \ Used("jlr") : jlr[i] = 0

\* A header file is locked by one program (440-466).
Locking == \A p, q \in Procs : pc[p] \in LockPc /\ pc[q] \in LockPc /\ p # q
                                   => fd[p].jhr # fd[q].jhr

\* Programs whose message has no header yet: there is room for theirs in every
\* file, so that the count never reaches the size of an unsigned int.
Pending == {p \in Procs : job[p] = "add" /\ pc[p] \in {"info", "files", "open", "locked", "header"}}
Room == \A i \in Inodes : Len(jhr[i].hdrs) + Cardinality(Pending) <= msgs

\* What the program that has the lock has written of its message so far: the
\* index entry, the header behind it, the text the header leads to.
WritingOf(p) ==
    /\ pc[p] = "header" => \E k \in DOMAIN Index(p) : Index(p)[k] = Len(Hdrs(p)) + 1
    /\ pc[p] \in {"text", "final", "count", "deleted"} => Hdrs(p) # <<>>
    /\ pc[p] \in {"text", "final", "count"} =>
           /\ \E k \in DOMAIN Index(p) : Index(p)[k] = Len(Hdrs(p))
           /\ Last(Hdrs(p)).msg = cur[p] /\ ~Last(Hdrs(p)).del
    /\ pc[p] \in {"final", "count"} =>
           /\ Last(Hdrs(p)).txt \in DOMAIN Texts(p)
           /\ Texts(p)[Last(Hdrs(p)).txt] = cur[p]
    /\ pc[p] = "count" => Last(Hdrs(p)).done
Writing == \A p \in Procs : WritingOf(p)

\* A program was killed while it exchanged the files, or packed files that had
\* been replaced before it got the lock: the names may be those of files of
\* different bases.
Torn == Hit({"swap", "stalepack"})

\* Until then one program at most exchanges the files, those that it has not
\* come to have both names, and there are no others with a temporary name.
Orderly == ~Torn =>
    /\ \A p, q \in Swapping : p = q
    /\ Swapping = {} => \A f \in Files : tmp[f] = None
    /\ \A p \in Swapping, k \in 1..4 : tmp[Order[k]] # None <=> num[p] <= 2 * k

\* A program that adds a message works on the files that have the names, or its
\* message is one of those that went astray.
Held == ~Torn => \A p \in Procs : pc[p] \in Adding /\ cur[p] \notin astray => Current(p)

\* The program is at one of these places and has locked the base.
At(p, where) == fd[p].jhr = Target("jhr") /\ pc[p] \in where

\* The count of messages is that of those not deleted, except between the two
\* writes of a program that adds or deletes one (283-297, 342-347).
Counting == ~Torn /\ ~Hit({"wiped", "add", "delete"}) =>
    /\ (\A p \in Procs : ~At(p, {"text", "final", "count", "deleted"}))
           => TActive = Cardinality(Undeleted(THdrs))
    /\ \A p \in Procs : At(p, {"text", "final", "count"})
           => TActive + 1 = Cardinality(Undeleted(THdrs))
    /\ \A p \in Procs : At(p, {"deleted"})
           => TActive = Cardinality(Undeleted(THdrs)) + 1

\* Only the last header can have subfields that it does not count (196-284).
Tails == ~Torn /\ ~Hit({"tail"}) =>
    \A k \in DOMAIN THdrs : THdrs[k].tail =>
        k = Len(THdrs) /\ \E p \in Procs : At(p, {"final"})

\* A program that leaves these behind was adding a message.
Marks == Hit({"entry", "tail"}) => Hit({"add"})

\* The index leads to the headers in their order, and to the one that comes next.
Lined == ~Torn /\ ~Hit({"entry"}) /\ astray = {} =>
    /\ \A k \in DOMAIN TIndex : TIndex[k] = k
    /\ (\A p \in Procs : pc[p] # "header") => Len(TIndex) = Len(THdrs)
    /\ (\E p \in Procs : pc[p] = "header") => Len(TIndex) = Len(THdrs) + 1

\* Numbers are places in the file of headers, unless they began again at 1.
Serial == ~Torn /\ ~Hit({"entry", "restart"}) /\ astray = {} =>
    /\ \A k \in DOMAIN THdrs : THdrs[k].num = k
    /\ \A p \in Procs : pc[p] = "header" => num[p] = Len(THdrs) + 1

\* Numbers rise, and that of a new message is above those that are there.
Rising == ~Torn /\ ~Hit({"entry", "blind"}) /\ astray = {} =>
    /\ \A k, l \in DOMAIN THdrs : k < l /\ ~THdrs[k].del => THdrs[k].num < THdrs[l].num
    /\ \A p \in Procs : pc[p] = "header" =>
           \A k \in DOMAIN THdrs : ~THdrs[k].del => THdrs[k].num < num[p]

\* Message m is at k: in the index, finished, and with its text.
There(m, k) == /\ THdrs[k].msg = m /\ ~THdrs[k].del /\ THdrs[k].done
               /\ THdrs[k].txt \in DOMAIN TTexts /\ TTexts[THdrs[k].txt] = m
               /\ \E j \in DOMAIN TIndex : TIndex[j] = k

\* What was stored, and not deleted, is there.
Keeping == ~Torn /\ ~(Hit({"tail"}) /\ Displaced) =>
    \A m \in stored \ (killed \cup astray) : \E k \in DOMAIN THdrs : There(m, k)

\* The user has read everything up to place n.
SeenTo(n) == \A k \in DOMAIN THdrs : k <= n /\ ~THdrs[k].del => THdrs[k].msg \in seen

\* That is so for the pointer, and a program that is going to set it has a number
\* of this base and has read what is before it.
Reading == ~Torn /\ ~Hit({"entry", "restart", "late"}) /\ astray = {} =>
    /\ TLast <= Len(THdrs) /\ SeenTo(TLast)
    /\ \A p \in Procs : job[p] \in {"show", "set"} /\ cur[p] = swaps =>
           /\ Swapping = {} /\ \A f \in Files : dir[f] # None
           /\ num[p] \in DOMAIN THdrs /\ SeenTo(num[p] - 1)
           /\ job[p] = "set" /\ fd[p] = dir => SeenTo(num[p])

-----------------------------------------------------------------------------
(* Numbers and places *)

LessThan == {ss \in Nat \X Nat : ss[1] < ss[2]}

\* A set of numbers has a least one: this is how induction is done here.
LEMMA HasLeast ==
  ASSUME NEW S, S \subseteq Nat, S # {}
  PROVE  \E i \in S : \A j \in S : i <= j
<1>1. IsWellFoundedOn(LessThan, Nat)
  BY NatLessThanWellFounded DEF OpToRel, LessThan
<1>2. PICK i \in S : \A j \in S : <<j, i>> \notin LessThan
  BY <1>1, WFMin
<1>3. ASSUME NEW j \in S, j < i PROVE FALSE
  <2>1. /\ <<j, i>> \in Nat \X Nat
        /\ <<j, i>>[1] = j /\ <<j, i>>[2] = i
    OBVIOUS
  <2> QED
    BY <1>2, <1>3, <2>1 DEF LessThan
<1> QED
  BY <1>3

\* How many of the elements of S lie at or before a place
LEMMA RankFinite ==
  ASSUME NEW S, NEW k \in Nat
  PROVE  IsFiniteSet(S \cap 1..k)
<1>1. IsFiniteSet(1..k) /\ (S \cap 1..k) \in SUBSET (1..k)
  BY FS_Interval
<1> QED
  BY <1>1, FS_Subset

\* How many of S lie up to k, and how that grows with k
LEMMA RankType ==
  ASSUME NEW S, NEW k \in Nat
  PROVE  Rank(S, k) \in Nat
<1>1. IsFiniteSet(S \cap 1..k)
  BY RankFinite
<1> QED
  BY <1>1, FS_CardinalityType DEF Rank

LEMMA RankNone ==
  ASSUME NEW S
  PROVE  Rank(S, 0) = 0
<1>1. S \cap 1..0 = {}
  OBVIOUS
<1> QED
  BY <1>1, FS_EmptySet DEF Rank

LEMMA RankNext ==
  ASSUME NEW S, NEW k \in Nat
  PROVE  Rank(S, k + 1) = IF k + 1 \in S THEN Rank(S, k) + 1 ELSE Rank(S, k)
<1>1. IsFiniteSet(S \cap 1..k)
  BY RankFinite
<1>2. CASE k + 1 \in S
  <2>1. S \cap 1..(k + 1) = (S \cap 1..k) \cup {k + 1} /\ k + 1 \notin S \cap 1..k
    BY <1>2
  <2> QED
    BY <1>1, <1>2, <2>1, FS_AddElement DEF Rank
<1>3. CASE k + 1 \notin S
  <2>1. S \cap 1..(k + 1) = S \cap 1..k
    BY <1>3
  <2> QED
    BY <1>3, <2>1 DEF Rank
<1> QED
  BY <1>2, <1>3

LEMMA RankGrows ==
  ASSUME NEW S, NEW k \in Nat, NEW l \in Nat, k <= l
  PROVE  /\ Rank(S, k) <= Rank(S, l)
         /\ k < l /\ l \in S => Rank(S, k) < Rank(S, l)
<1>0. IsFiniteSet(S \cap 1..l) /\ Rank(S, k) \in Nat /\ Rank(S, l) \in Nat
  BY RankFinite, RankType
<1>1. (S \cap 1..k) \in SUBSET (S \cap 1..l)
  OBVIOUS
<1>2. /\ Cardinality(S \cap 1..k) <= Cardinality(S \cap 1..l)
      /\ Cardinality(S \cap 1..l) = Cardinality(S \cap 1..k) => S \cap 1..l = S \cap 1..k
  BY <1>0, <1>1, FS_Subset
<1>3. ASSUME k < l, l \in S PROVE S \cap 1..l # S \cap 1..k
  <2>1. l \in S \cap 1..l /\ l \notin S \cap 1..k
    BY <1>3
  <2> QED
    BY <2>1
<1> QED
  BY <1>0, <1>2, <1>3 DEF Rank

\* The element of S at its own rank is itself, ...
LEMMA RankIsPlace ==
  ASSUME NEW S, S \subseteq Nat \ {0}, NEW k \in S
  PROVE  /\ Place(S, Rank(S, k)) = k
         /\ IsFiniteSet(S) => Rank(S, k) \in 1..Cardinality(S)
<1>1. ASSUME NEW l \in S, Rank(S, l) = Rank(S, k) PROVE l = k
  <2>1. k \in Nat /\ l \in Nat
    OBVIOUS
  <2>0. Rank(S, k) \in Nat
    BY <2>1, RankType
  <2>2. CASE l < k
    <3>1. Rank(S, l) < Rank(S, k)
      BY <2>1, <2>2, RankGrows
    <3> QED
      BY <1>1, <2>0, <3>1
  <2>3. CASE k < l
    <3>1. Rank(S, k) < Rank(S, l)
      BY <2>1, <2>3, RankGrows
    <3> QED
      BY <1>1, <2>0, <3>1
  <2> QED
    BY <2>1, <2>2, <2>3
<1>2. Place(S, Rank(S, k)) = k
  BY <1>1 DEF Place
<1>3. ASSUME IsFiniteSet(S) PROVE Rank(S, k) \in 1..Cardinality(S)
  <2>1. /\ k \in Nat /\ k - 1 \in Nat /\ k - 1 + 1 = k
    OBVIOUS
  <2>6. Rank(S, k - 1) \in Nat
    BY <2>1, RankType
  <2>7. Rank(S, k - 1 + 1) = Rank(S, k - 1) + 1
    BY <2>1, RankNext
  <2>2. Rank(S, k) = Rank(S, k - 1) + 1 /\ Rank(S, k - 1) \in Nat
    BY <2>1, <2>6, <2>7
  <2>3. (S \cap 1..k) \in SUBSET S
    OBVIOUS
  <2>4. Rank(S, k) <= Cardinality(S)
    BY <1>3, <2>3, FS_Subset DEF Rank
  <2>5. Cardinality(S) \in Nat
    BY <1>3, FS_CardinalityType
  <2> QED
    BY <2>2, <2>4, <2>5
<1> QED
  BY <1>2, <1>3

\* ... and there is one at every rank.
LEMMA PlaceIsRank ==
  ASSUME NEW m \in Nat, NEW S, S \subseteq 1..m, NEW n \in 1..Cardinality(S)
  PROVE  Place(S, n) \in S /\ Rank(S, Place(S, n)) = n
<1>1. S \cap 1..m = S
  OBVIOUS
<1>2. Rank(S, m) = Cardinality(S) /\ Rank(S, m) \in Nat
  BY <1>1, RankType DEF Rank
<1> DEFINE Reached == {k \in Nat : Rank(S, k) >= n}
<1>3. m \in Reached
  BY <1>2
<1>4. PICK k \in Reached : \A j \in Reached : k <= j
  BY <1>3, HasLeast
<1>5. k # 0
  BY <1>4, RankNone
<1>6. /\ k - 1 \in Nat /\ k - 1 + 1 = k /\ k - 1 \notin Reached
  BY <1>4, <1>5
<1>7. Rank(S, k) = (IF k \in S THEN Rank(S, k - 1) + 1 ELSE Rank(S, k - 1))
  BY <1>6, RankNext
<1>a. Rank(S, k - 1) \in Nat
  BY <1>6, RankType
<1>8. Rank(S, k - 1) \in Nat /\ Rank(S, k - 1) < n /\ Rank(S, k) >= n
  BY <1>4, <1>6, <1>a
<1>9. k \in S /\ Rank(S, k) = n
  BY <1>7, <1>8
<1> QED
  BY <1>9 DEF Place
-----------------------------------------------------------------------------
(* Files *)

\* There is a file nobody uses for each new name.
LEMMA FreshOne ==
  ASSUME Types, NEW f \in Files, dir[f] = None \/ tmp[f] = None
  PROVE  Fresh(f) \in Inodes /\ Fresh(f) \notin Used(f) /\ Fresh(f) # None
<1> DEFINE S == Inodes \ Used(f)
           x == IF dir[f] = None THEN tmp[f] ELSE dir[f]
           h == [p \in Procs |-> fd[p][f]]
           T == {fd[p][f] : p \in Procs}
<1>1. Cardinality(Procs) \in Nat /\ IsFiniteSet(Procs)
  BY JamBaseAssumption, FS_CardinalityType
<1>2. IsFiniteSet(Inodes) /\ Cardinality(Inodes) = Cardinality(Procs) + 2
  BY <1>1, FS_Interval DEF Inodes
<1>3. h \in Surjection(Procs, T)
  BY DEF Surjection
<1>4. IsFiniteSet(T) /\ Cardinality(T) <= Cardinality(Procs) /\ Cardinality(T) \in Nat
  BY <1>1, <1>3, FS_Surjection, FS_CardinalityType
<1>a. /\ IsFiniteSet(T \cup {x})
      /\ Cardinality(T \cup {x}) = (IF x \in T THEN Cardinality(T) ELSE Cardinality(T) + 1)
  BY <1>4, FS_AddElement
<1>5. /\ IsFiniteSet(T \cup {x}) /\ Cardinality(T \cup {x}) <= Cardinality(Procs) + 1
      /\ Cardinality(T \cup {x}) \in Nat
  <2> HIDE DEF T, x
  <2> QED
    BY <1>1, <1>4, <1>a
<1>6. S # {}
  <2>1. SUFFICES ASSUME Inodes \subseteq Used(f) PROVE FALSE
    OBVIOUS
  <2>2. None \notin Inodes
    BY <1>1 DEF Inodes, None
  <2>3. Inodes \in SUBSET (T \cup {x})
    BY <2>1, <2>2 DEF Used
  <2>4. Cardinality(Inodes) <= Cardinality(T \cup {x})
    BY <1>5, <2>3, FS_Subset
  <2> QED
    BY <1>1, <1>2, <1>5, <2>4
<1>7. S \subseteq Nat
  BY <1>1 DEF Inodes
<1>8. \E i \in S : \A j \in S : i <= j
  BY <1>6, <1>7, HasLeast
<1>9. Fresh(f) \in S
  BY <1>8 DEF Fresh
<1> QED
  BY <1>1, <1>9 DEF Inodes, None

-----------------------------------------------------------------------------
(* What files hold when they are opened, closed and given names *)

\* What the constants are, and the numbers made of them
LEMMA Bounds == /\ IsFiniteSet(Procs) /\ Procs \subseteq Nat
                /\ MaxMsgs \in Nat /\ Wrap \in Nat
BY JamBaseAssumption

LEMMA NoFile == None \notin Inodes /\ Inodes \subseteq Nat
BY Bounds, FS_CardinalityType DEF Inodes, None

LEMMA ZeroCounts ==
  ASSUME Types
  PROVE  0 \in 0..(Wrap - 1)
BY Bounds DEF Types

\* What open(2) does to the names and to what a program has open.
LEMMA Opened ==
  ASSUME Types, NEW p \in Procs, NEW f \in Files, OpenFile(p, f)
  PROVE  /\ fd'[p][f] \in Inodes /\ dir'[f] = fd'[p][f]
         /\ dir[f] = None => fd'[p][f] = Fresh(f) /\ Fresh(f) \notin Used(f)
         /\ dir[f] # None => fd'[p][f] = dir[f]
         /\ \A g \in Files : g # f => fd'[p][g] = fd[p][g] /\ dir'[g] = dir[g]
         /\ \A q \in Procs : q # p => fd'[q] = fd[q]
         /\ fd' \in [Procs -> [Files -> Inodes \cup {None}]]
         /\ dir' \in [Files -> Inodes \cup {None}]
<1>1. fd \in [Procs -> [Files -> Inodes \cup {None}]] /\ dir \in [Files -> Inodes \cup {None}]
  BY DEF Types
<1>2. dir[f] = None => Fresh(f) \in Inodes /\ Fresh(f) \notin Used(f)
  BY FreshOne
<1>3. /\ fd' = [fd EXCEPT ![p][f] = IF dir[f] = None THEN Fresh(f) ELSE dir[f]]
      /\ dir' = [dir EXCEPT ![f] = fd'[p][f]]
  BY DEF OpenFile
<1> QED
  BY <1>1, <1>2, <1>3

\* What is left of the files when one is closed or loses its name
LEMMA Forgotten ==
  ASSUME Types, Forget
  PROVE  /\ jhr' \in [Inodes -> HeaderFile] /\ jdt' \in [Inodes -> Seq(1..MaxMsgs)]
         /\ jdx' \in [Inodes -> Seq(Nat \ {0})] /\ jlr' \in [Inodes -> Nat]
         /\ \A i \in Inodes : i \in Used("jhr")' => jhr'[i] = jhr[i]
         /\ \A i \in Inodes : i \in Used("jdt")' => jdt'[i] = jdt[i]
         /\ \A i \in Inodes : i \in Used("jdx")' => jdx'[i] = jdx[i]
         /\ \A i \in Inodes : i \in Used("jlr")' => jlr'[i] = jlr[i]
         /\ \A i \in Inodes : i \notin Used("jhr")' => jhr'[i] = NoHeaders
         /\ \A i \in Inodes : i \notin Used("jdt")' => jdt'[i] = <<>>
         /\ \A i \in Inodes : i \notin Used("jdx")' => jdx'[i] = <<>>
         /\ \A i \in Inodes : i \notin Used("jlr")' => jlr'[i] = 0
<1> DEFINE H == Used("jhr")'
           T == Used("jdt")'
           X == Used("jdx")'
           L == Used("jlr")'
<1>1. /\ jhr \in [Inodes -> HeaderFile] /\ jdt \in [Inodes -> Seq(1..MaxMsgs)]
      /\ jdx \in [Inodes -> Seq(Nat \ {0})] /\ jlr \in [Inodes -> Nat]
  BY DEF Types
<1>2. /\ jhr' = [i \in Inodes |-> IF i \in H THEN jhr[i] ELSE NoHeaders]
      /\ jdt' = [i \in Inodes |-> IF i \in T THEN jdt[i] ELSE <<>>]
      /\ jdx' = [i \in Inodes |-> IF i \in X THEN jdx[i] ELSE <<>>]
      /\ jlr' = [i \in Inodes |-> IF i \in L THEN jlr[i] ELSE 0]
  BY DEF Forget
<1>3. NoHeaders \in HeaderFile
  <2>1. 0 \in 0..(Wrap - 1)
    BY Bounds DEF Types
  <2>2. <<>> \in Seq(Header)
    OBVIOUS
  <2> QED
    BY <2>1, <2>2 DEF NoHeaders, HeaderFile
<1>4. <<>> \in Seq(1..MaxMsgs) /\ <<>> \in Seq(Nat \ {0})
  OBVIOUS
<1> HIDE DEF H, T, X, L
<1>5. jhr' \in [Inodes -> HeaderFile]
  BY <1>1, <1>2, <1>3
<1>6. jdt' \in [Inodes -> Seq(1..MaxMsgs)]
  BY <1>1, <1>2, <1>4
<1>7. jdx' \in [Inodes -> Seq(Nat \ {0})]
  BY <1>1, <1>2, <1>4
<1>8. jlr' \in [Inodes -> Nat]
  BY <1>1, <1>2
<1>9. /\ \A i \in Inodes : i \in H => jhr'[i] = jhr[i]
      /\ \A i \in Inodes : i \in T => jdt'[i] = jdt[i]
      /\ \A i \in Inodes : i \in X => jdx'[i] = jdx[i]
      /\ \A i \in Inodes : i \in L => jlr'[i] = jlr[i]
      /\ \A i \in Inodes : i \notin H => jhr'[i] = NoHeaders
      /\ \A i \in Inodes : i \notin T => jdt'[i] = <<>>
      /\ \A i \in Inodes : i \notin X => jdx'[i] = <<>>
      /\ \A i \in Inodes : i \notin L => jlr'[i] = 0
  BY <1>2
<1> QED
  BY <1>5, <1>6, <1>7, <1>8, <1>9 DEF H, T, X, L

-----------------------------------------------------------------------------
(* Types *)

\* Each step leaves the variables what they are.  The header file, its texts
\* and its index are written by the holder of the lock alone.
PlanFields == {"procs", "old", "add", "kill", "pack", "read", "delete", "crash"}

LEMMA StartTypes ==
  ASSUME Types, NEW p \in Procs, NEW j \in {"add", "kill", "pack", "read"}, Start(p, j)
  PROVE  Types'
<1>1. "jhr" \in Files /\ OpenFile(p, "jhr")
  BY DEF Start, OpenHdr, Files
<1>2. /\ fd'[p].jhr \in Inodes
      /\ fd' \in [Procs -> [Files -> Inodes \cup {None}]]
      /\ dir' \in [Files -> Inodes \cup {None}]
  BY <1>1, Opened
<1>3. act' \in [Procs -> 0..(Wrap - 1)] /\ pc' \in [Procs -> States]
  <2>1. jhr[fd'[p].jhr].active \in 0..(Wrap - 1) /\ 0 \in 0..(Wrap - 1)
    BY <1>2, ZeroCounts DEF Types, HeaderFile
  <2> QED
    BY <2>1 DEF Start, OpenHdr, Types, States, Adding
<1>4. /\ left' \in [PlanFields -> Nat] /\ msgs' \in Nat /\ msgs' + left'.add <= MaxMsgs
  <2>1. /\ left \in [PlanFields -> Nat] /\ msgs \in Nat /\ left[j] > 0 /\ j \in PlanFields
        /\ msgs + left.add <= MaxMsgs /\ left' = [left EXCEPT ![j] = @ - 1]
        /\ msgs' = IF j = "add" THEN msgs + 1 ELSE msgs
    BY DEF Start, Types, PlanFields
  <2>2. left'[j] = left[j] - 1 /\ left[j] \in Nat /\ left'[j] \in Nat
    BY <2>1
  <2>3. left' \in [PlanFields -> Nat]
    BY <2>1, <2>2
  <2>4. "add" \in PlanFields /\ left.add \in Nat
    BY <2>1 DEF PlanFields
  <2>5. CASE j = "add"
    BY <2>1, <2>2, <2>3, <2>4, <2>5, Bounds
  <2>6. CASE j # "add"
    BY <2>1, <2>3, <2>4, <2>6
  <2> QED
    BY <2>5, <2>6
<1>5. job' \in [Procs -> Jobs]
  BY DEF Start, Types, Jobs
<1>6. cur' \in [Procs -> Int]
  <2>1. (IF j = "add" THEN msgs' ELSE 0) \in Int
    BY <1>4
  <2> QED
    BY <2>1 DEF Start, Types
<1> QED
  BY <1>2, <1>3, <1>4, <1>5, <1>6 DEF Start, OpenHdr, Types, files, history, PlanFields

LEMMA AgainTypes ==
  ASSUME Types, NEW p \in Procs, Again(p)
  PROVE  Types'
<1>1. "jhr" \in Files /\ OpenFile(p, "jhr")
  BY DEF Again, OpenHdr, Files
<1>2. /\ fd'[p].jhr \in Inodes
      /\ fd' \in [Procs -> [Files -> Inodes \cup {None}]]
      /\ dir' \in [Files -> Inodes \cup {None}]
  BY <1>1, Opened
<1>3. act' \in [Procs -> 0..(Wrap - 1)] /\ pc' \in [Procs -> States]
  <2>1. jhr[fd'[p].jhr].active \in 0..(Wrap - 1) /\ 0 \in 0..(Wrap - 1)
    BY <1>2, ZeroCounts DEF Types, HeaderFile
  <2> QED
    BY <2>1 DEF Again, OpenHdr, Types, States, Adding
<1> QED
  BY <1>2, <1>3 DEF Again, OpenHdr, Types, files, bounds, history

\* Order[2] ... are files.
LEMMA OrderIsFile == /\ \A k \in 1..4 : Order[k] \in Files
                     /\ Order[1] = "jhr" /\ Order[2] = "jdt"
                     /\ Order[3] = "jdx" /\ Order[4] = "jlr"
<1>1. /\ Order[1] = "jhr" /\ Order[2] = "jdt" /\ Order[3] = "jdx" /\ Order[4] = "jlr"
  BY DEF Order
<1>2. ASSUME NEW k \in 1..4 PROVE k = 1 \/ k = 2 \/ k = 3 \/ k = 4
  OBVIOUS
<1> QED
  BY <1>1, <1>2 DEF Files

LEMMA OpenNextTypes ==
  ASSUME Types, NEW p \in Procs, OpenNext(p)
  PROVE  Types'
<1>1. PICK k \in 2..4 : /\ OpenFile(p, Order[k])
                        /\ pc' = [pc EXCEPT ![p] = IF k = 4 THEN "open" ELSE "files"]
  BY DEF OpenNext
<1>2. Order[k] \in Files
  BY OrderIsFile
<1>3. /\ fd' \in [Procs -> [Files -> Inodes \cup {None}]]
      /\ dir' \in [Files -> Inodes \cup {None}]
  BY <1>1, <1>2, Opened
<1>4. pc' \in [Procs -> States]
  BY <1>1 DEF Types, States
<1> QED
  BY <1>3, <1>4 DEF OpenNext, Types, files, bounds, history

LEMMA CreateTypes ==
  ASSUME Types, NEW p \in Procs, Create(p), fd[p].jhr # None
  PROVE  Types'
<1>1. fd[p].jhr \in Inodes
  BY DEF Types, Files
<1>2. jhr' = [jhr EXCEPT ![fd[p].jhr].info = TRUE, ![fd[p].jhr].active = 0]
  BY DEF Create
<1>3. jhr' \in [Inodes -> HeaderFile]
  <2>1. 0 \in 0..(Wrap - 1) /\ jhr \in [Inodes -> HeaderFile]
    BY Bounds DEF Types
  <2> QED
    BY <1>1, <1>2, <2>1 DEF HeaderFile
<1> QED
  BY <1>3 DEF Create, Goto, Types, States, bounds, history

LEMMA LockTypes ==
  ASSUME Types, NEW p \in Procs, Lock(p)
  PROVE  Types'
BY DEF Lock, Goto, Types, States, bounds, history, files

\* A program that closes its files
LEMMA CloseTypes ==
  ASSUME Types, NEW p \in Procs, Close(p)
  PROVE  /\ dir' \in [Files -> Inodes \cup {None}] /\ tmp' \in [Files -> Inodes \cup {None}]
         /\ jhr' \in [Inodes -> HeaderFile] /\ jdt' \in [Inodes -> Seq(1..MaxMsgs)]
         /\ jdx' \in [Inodes -> Seq(Nat \ {0})] /\ jlr' \in [Inodes -> Nat]
         /\ pc' \in [Procs -> States]
         /\ fd' \in [Procs -> [Files -> Inodes \cup {None}]]
         /\ act' \in [Procs -> 0..(Wrap - 1)]
<1>1. Forget
  BY DEF Close
<1>2. /\ jhr' \in [Inodes -> HeaderFile] /\ jdt' \in [Inodes -> Seq(1..MaxMsgs)]
      /\ jdx' \in [Inodes -> Seq(Nat \ {0})] /\ jlr' \in [Inodes -> Nat]
  BY <1>1, Forgotten
<1>3. 0 \in 0..(Wrap - 1)
  BY Bounds DEF Types
<1>4. act' \in [Procs -> 0..(Wrap - 1)]
  BY <1>3 DEF Close, Types
<1> QED
  BY <1>2, <1>4 DEF Close, Types, States

LEMMA DoneTypes ==
  ASSUME Types, NEW p \in Procs, Done(p), seen' \subseteq 1..MaxMsgs
  PROVE  Types'
<1>1. Close(p)
  BY DEF Done
<1>2. job' \in [Procs -> Jobs] /\ num' \in [Procs -> Nat] /\ cur' \in [Procs -> Int]
  BY DEF Done, Types, Jobs
<1> QED
  BY <1>1, <1>2, CloseTypes DEF Done, Types, bounds

-----------------------------------------------------------------------------
(* Types: adding and deleting *)

\* The files of a program that has opened them all, and what is in them
LEMMA HasFiles ==
  ASSUME Types, NEW p \in Procs, StageOf(p), pc[p] \in LockPc \cup {"open"}
  PROVE  /\ fd[p].jhr \in Inodes /\ fd[p].jdt \in Inodes
         /\ fd[p].jdx \in Inodes /\ fd[p].jlr \in Inodes
         /\ Hdrs(p) \in Seq(Header) /\ Active(p) \in 0..(Wrap - 1)
         /\ Index(p) \in Seq(Nat \ {0}) /\ Texts(p) \in Seq(1..MaxMsgs)
         /\ jhr[fd[p].jhr] \in HeaderFile
         /\ jlr[fd[p].jlr] \in Nat
<1>1. \A f \in Files : fd[p][f] \in Inodes
  BY DEF StageOf, Types
<1>2. /\ fd[p].jhr \in Inodes /\ fd[p].jdt \in Inodes
      /\ fd[p].jdx \in Inodes /\ fd[p].jlr \in Inodes
  BY <1>1 DEF Files
<1>3. jhr[fd[p].jhr] \in HeaderFile
  BY <1>2 DEF Types
<1> QED
  BY <1>2, <1>3 DEF Types, Hdrs, Active, Index, Texts, HeaderFile

\* The number a new message gets is one behind that of another.
LEMMA HighestType ==
  ASSUME Types, NEW p \in Procs, StageOf(p), pc[p] \in LockPc \cup {"open"},
         NEW high \in Highest(p)
  PROVE  high \in Nat
<1>1. Hdrs(p) \in Seq(Header)
  BY HasFiles
<1>2. CASE high = Hdrs(p)[Last(Index(p))].num /\ Last(Index(p)) \in DOMAIN Hdrs(p)
  <2>1. Hdrs(p)[Last(Index(p))] \in Header
    BY <1>1, <1>2
  <2> QED
    BY <1>2, <2>1 DEF Header
<1>3. CASE high \in 0..MaxMsgs
  BY <1>3
<1> QED
  BY <1>2, <1>3 DEF Highest

\* The number of a message that is being added is one of those counted.
LEMMA CurIsMessage ==
  ASSUME Types, NEW p \in Procs, StageOf(p), job[p] = "add"
  PROVE  cur[p] \in 1..MaxMsgs
<1>1. cur[p] \in 1..msgs /\ msgs \in Nat /\ left.add \in Nat /\ msgs + left.add <= MaxMsgs
  BY DEF StageOf, Types
<1> QED
  BY <1>1, Bounds

LEMMA AstrayType ==
  ASSUME Types, NEW p \in Procs, StageOf(p), NEW from, NEW to, Adds(p, from, to)
  PROVE  /\ astray' \subseteq 1..MaxMsgs
         /\ stored \cup {cur[p]} \subseteq 1..MaxMsgs
         /\ to \in Adding \cup {"unlock"} => pc' \in [Procs -> States]
<1>1. cur[p] \in 1..MaxMsgs
  BY CurIsMessage DEF Adds
<1> QED
  BY <1>1 DEF Adds, Goto, Types, States

\* JAM_AddMsg()
LEMMA AddIndexTypes ==
  ASSUME Types, NEW p \in Procs, StageOf(p), AddIndex(p)
  PROVE  /\ Types' /\ num'[p] \in Nat \ {0}
<1>1. /\ pc[p] = "locked" /\ pc' = [pc EXCEPT ![p] = "header"]
      /\ pc[p] \in LockPc \cup {"open"}
  BY DEF AddIndex, Adds, Goto, LockPc
<1>2. PICK high \in Highest(p) : num' = [num EXCEPT ![p] = high + 1]
  BY DEF AddIndex
<1>3. high \in Nat
  BY <1>1, HighestType
<1>4. /\ fd[p].jdx \in Inodes /\ Index(p) \in Seq(Nat \ {0}) /\ Hdrs(p) \in Seq(Header)
  BY <1>1, HasFiles
<1>5. Len(Hdrs(p)) + 1 \in Nat \ {0}
  BY <1>4
<1>6. jdx' \in [Inodes -> Seq(Nat \ {0})]
  <2>1. jdx' = [jdx EXCEPT ![fd[p].jdx] = Append(jdx[fd[p].jdx], Len(Hdrs(p)) + 1)]
    BY DEF AddIndex
  <2>2. Append(jdx[fd[p].jdx], Len(Hdrs(p)) + 1) \in Seq(Nat \ {0})
    BY <1>4, <1>5, AppendProperties DEF Index
  <2> QED
    BY <1>4, <2>1, <2>2 DEF Types
<1>7. num' \in [Procs -> Nat] /\ num'[p] \in Nat \ {0}
  BY <1>2, <1>3 DEF Types
<1>8. astray' \subseteq 1..MaxMsgs
  BY AstrayType DEF AddIndex
<1>9. pc' \in [Procs -> States]
  BY <1>1 DEF Types, States, Adding
<1> QED
  BY <1>6, <1>7, <1>8, <1>9 DEF AddIndex, Adds, Types, bounds

LEMMA AddHeaderTypes ==
  ASSUME Types, NEW p \in Procs, StageOf(p), AddHeader(p)
  PROVE  Types'
<1>1. pc[p] = "header" /\ pc[p] \in LockPc \cup {"open"} /\ Adds(p, "header", "text")
  BY DEF AddHeader, Adds, Goto, LockPc, Adding
<1>2. /\ fd[p].jhr \in Inodes /\ Hdrs(p) \in Seq(Header) /\ jhr[fd[p].jhr] \in HeaderFile
  BY <1>1, HasFiles
<1> DEFINE h == [msg |-> cur[p], num |-> num[p], txt |-> 0,
                 del |-> FALSE, done |-> FALSE, tail |-> FALSE]
<1>3. h \in Header
  <2>1. cur[p] \in 1..MaxMsgs
    BY CurIsMessage DEF AddHeader, Adds
  <2>2. num[p] \in Nat \ {0}
    BY <1>1 DEF StageOf, Types
  <2> QED
    BY <2>1, <2>2 DEF Header
<1>4. jhr' = [jhr EXCEPT ![fd[p].jhr].hdrs = Append(jhr[fd[p].jhr].hdrs, h)]
  BY DEF AddHeader
<1>5. Append(jhr[fd[p].jhr].hdrs, h) \in Seq(Header)
  BY <1>2, <1>3, AppendProperties DEF Hdrs
<1>6. jhr' \in [Inodes -> HeaderFile]
  <2> HIDE DEF h
  <2>1. jhr \in [Inodes -> HeaderFile]
    BY DEF Types
  <2> QED
    BY <1>2, <1>4, <1>5, <2>1 DEF HeaderFile
<1>7. astray' \subseteq 1..MaxMsgs /\ pc' \in [Procs -> States]
  BY <1>1, AstrayType DEF Adding
<1> QED
  BY <1>6, <1>7 DEF AddHeader, Adds, Types, bounds

\* A file that has headers has a last one.
LEMMA LastIsHeader ==
  ASSUME Types, NEW p \in Procs, StageOf(p), pc[p] \in LockPc \cup {"open"}, Hdrs(p) # <<>>
  PROVE  /\ Last(Hdrs(p)) \in Header /\ Last(Hdrs(p)) = Hdrs(p)[Len(Hdrs(p))]
         /\ Len(Hdrs(p)) \in DOMAIN Hdrs(p) /\ Len(Hdrs(p)) \in Nat \ {0}
         /\ DOMAIN Hdrs(p) = 1..Len(Hdrs(p))
<1>1. Hdrs(p) \in Seq(Header)
  BY HasFiles
<1>2. Len(Hdrs(p)) \in Nat \ {0}
  BY <1>1, EmptySeq
<1> QED
  BY <1>1, <1>2 DEF Last

\* A header file in which the last header is another one
LEMMA RewriteTypes ==
  ASSUME Types, NEW p \in Procs, StageOf(p), pc[p] \in LockPc \cup {"open"}, Hdrs(p) # <<>>,
         NEW h \in Header, Rewrites(p, h)
  PROVE  /\ jhr' \in [Inodes -> HeaderFile]
         /\ \A i \in Inodes : i # fd[p].jhr => jhr'[i] = jhr[i]
         /\ jhr'[fd[p].jhr].active = jhr[fd[p].jhr].active
         /\ jhr'[fd[p].jhr].hdrs = [Hdrs(p) EXCEPT ![Len(Hdrs(p))] = h]
<1>1. /\ fd[p].jhr \in Inodes /\ Hdrs(p) \in Seq(Header) /\ jhr[fd[p].jhr] \in HeaderFile
      /\ Len(Hdrs(p)) \in 1..Len(Hdrs(p)) /\ jhr \in [Inodes -> HeaderFile]
  BY HasFiles, LastIsHeader DEF Types
<1> DEFINE s == [Hdrs(p) EXCEPT ![Len(Hdrs(p))] = h]
<1>2. s \in Seq(Header)
  BY <1>1, ExceptSeq
<1>3. jhr' = [jhr EXCEPT ![fd[p].jhr].hdrs = s]
  BY <1>1 DEF Rewrites, Hdrs, HeaderFile
<1> HIDE DEF s
<1>4. /\ jhr' \in [Inodes -> HeaderFile]
      /\ \A i \in Inodes : i # fd[p].jhr => jhr'[i] = jhr[i]
      /\ jhr'[fd[p].jhr].active = jhr[fd[p].jhr].active
      /\ jhr'[fd[p].jhr].hdrs = s
  BY <1>1, <1>2, <1>3 DEF HeaderFile
<1> QED
  BY <1>4 DEF s

\* The header is written again with subfields, and with its final form.
LEMMA AddTextTypes ==
  ASSUME Types, NEW p \in Procs, StageOf(p), WritingOf(p), AddText(p)
  PROVE  Types'
<1>1. /\ pc[p] = "text" /\ pc[p] \in LockPc \cup {"open"} /\ Adds(p, "text", "final")
      /\ Hdrs(p) # <<>>
  BY DEF AddText, Adds, Goto, LockPc, Adding, WritingOf
<1>2. /\ Last(Hdrs(p)) \in Header /\ fd[p].jdt \in Inodes /\ Texts(p) \in Seq(1..MaxMsgs)
  BY <1>1, LastIsHeader, HasFiles
<1>3. [Last(Hdrs(p)) EXCEPT !.tail = TRUE, !.txt = Len(Texts(p)) + 1] \in Header
  <2>1. Len(Texts(p)) + 1 \in Nat
    BY <1>2
  <2> QED
    BY <1>2, <2>1 DEF Header
<1>4. jhr' \in [Inodes -> HeaderFile]
  BY <1>1, <1>3, RewriteTypes DEF AddText
<1>5. jdt' \in [Inodes -> Seq(1..MaxMsgs)]
  <2>1. cur[p] \in 1..MaxMsgs
    BY CurIsMessage DEF AddText, Adds
  <2>2. Append(jdt[fd[p].jdt], cur[p]) \in Seq(1..MaxMsgs)
    BY <1>2, <2>1, AppendProperties DEF Texts
  <2>3. jdt' = [jdt EXCEPT ![fd[p].jdt] = Append(jdt[fd[p].jdt], cur[p])]
    BY DEF AddText
  <2> QED
    BY <1>2, <2>2, <2>3 DEF Types
<1>6. astray' \subseteq 1..MaxMsgs /\ pc' \in [Procs -> States]
  BY <1>1, AstrayType DEF Adding
<1> QED
  BY <1>4, <1>5, <1>6 DEF AddText, Adds, Types, bounds

LEMMA AddFinalTypes ==
  ASSUME Types, NEW p \in Procs, StageOf(p), WritingOf(p), AddFinal(p)
  PROVE  Types'
<1>1. /\ pc[p] = "final" /\ pc[p] \in LockPc \cup {"open"} /\ Adds(p, "final", "count")
      /\ Hdrs(p) # <<>>
  BY DEF AddFinal, Adds, Goto, LockPc, Adding, WritingOf
<1>2. Last(Hdrs(p)) \in Header
  BY <1>1, LastIsHeader
<1>3. [Last(Hdrs(p)) EXCEPT !.tail = FALSE, !.done = TRUE] \in Header
  BY <1>2 DEF Header
<1>4. jhr' \in [Inodes -> HeaderFile]
  BY <1>1, <1>3, RewriteTypes DEF AddFinal
<1>6. astray' \subseteq 1..MaxMsgs /\ pc' \in [Procs -> States]
  BY <1>1, AstrayType DEF Adding
<1> QED
  BY <1>4, <1>6 DEF AddFinal, Adds, Types, bounds

\* A count is changed in the file and in memory.
LEMMA CountTypes ==
  ASSUME Types, NEW p \in Procs, StageOf(p), pc[p] \in LockPc \cup {"open"},
         NEW n \in {-1, 1}, Count(p, n)
  PROVE  /\ jhr' \in [Inodes -> HeaderFile] /\ act' \in [Procs -> 0..(Wrap - 1)]
         /\ \A i \in Inodes : i # fd[p].jhr => jhr'[i] = jhr[i]
         /\ jhr'[fd[p].jhr].hdrs = Hdrs(p)
         /\ jhr'[fd[p].jhr].active = (Active(p) + n) % Wrap
<1>1. /\ fd[p].jhr \in Inodes /\ Active(p) \in 0..(Wrap - 1) /\ jhr \in [Inodes -> HeaderFile]
  BY HasFiles DEF Types
<1>2. Active(p) + n \in Int /\ Wrap \in Nat \ {0}
  <2>1. Wrap \in Nat /\ 0 \in 0..(Wrap - 1) /\ Active(p) \in Int
    BY <1>1, Bounds, ZeroCounts
  <2> QED
    BY <2>1
<1>3. Counted(p, n) \in 0..(Wrap - 1)
  BY <1>2 DEF Counted
<1>4. /\ jhr' = [jhr EXCEPT ![fd[p].jhr].active = Counted(p, n)]
      /\ act' = [act EXCEPT ![p] = Counted(p, n)]
  BY DEF Count
<1>5. /\ jhr' \in [Inodes -> HeaderFile]
      /\ \A i \in Inodes : i # fd[p].jhr => jhr'[i] = jhr[i]
      /\ jhr'[fd[p].jhr].hdrs = jhr[fd[p].jhr].hdrs
      /\ jhr'[fd[p].jhr].active = Counted(p, n)
  BY <1>1, <1>3, <1>4 DEF HeaderFile
<1> QED
  BY <1>3, <1>4, <1>5 DEF Types, Hdrs, Counted

LEMMA AddCountTypes ==
  ASSUME Types, NEW p \in Procs, StageOf(p), AddCount(p)
  PROVE  Types'
<1>1. pc[p] \in LockPc \cup {"open"} /\ Adds(p, "count", "unlock") /\ Count(p, 1)
  BY DEF AddCount, Adds, Goto, LockPc, Adding
<1>2. jhr' \in [Inodes -> HeaderFile] /\ act' \in [Procs -> 0..(Wrap - 1)]
  BY <1>1, CountTypes
<1>3. /\ astray' \subseteq 1..MaxMsgs /\ pc' \in [Procs -> States]
      /\ stored \cup {cur[p]} \subseteq 1..MaxMsgs
  BY <1>1, AstrayType
<1> QED
  BY <1>2, <1>3 DEF AddCount, Adds, Types, bounds

\* A message that is found is one that is not deleted.
LEMMA FindFinds ==
  ASSUME Types, NEW p \in Procs, StageOf(p), pc[p] \in LockPc \cup {"open"},
         NEW n, NEW k \in Find(p, n)
  PROVE  /\ k \in DOMAIN Hdrs(p) /\ Hdrs(p)[k] \in Header
         /\ ~Hdrs(p)[k].del /\ Hdrs(p)[k].num = n
         /\ \E j \in DOMAIN Index(p) : Index(p)[j] = k
<1> DEFINE found == {j \in DOMAIN Index(p) : /\ Index(p)[j] \in Undeleted(Hdrs(p))
                                             /\ Hdrs(p)[Index(p)[j]].num = n}
<1>1. Hdrs(p) \in Seq(Header) /\ Index(p) \in Seq(Nat \ {0})
  BY HasFiles
<1>2. found # {} /\ k = Index(p)[CHOOSE j \in found : \A l \in found : j <= l]
  BY DEF Find
<1>3. found \subseteq Nat
  BY <1>1
<1>4. PICK j \in found : \A l \in found : j <= l
  BY <1>2, <1>3, HasLeast
<1>5. (CHOOSE m \in found : \A l \in found : m <= l) \in found
  BY <1>4
<1>6. \E m \in found : k = Index(p)[m]
  BY <1>2, <1>5
<1> QED
  BY <1>1, <1>6 DEF Undeleted

\* JAM_Delete() marks a header and leaves the others.
LEMMA DeleteTypes ==
  ASSUME Types, NEW p \in Procs, StageOf(p), Delete(p)
  PROVE  /\ Types'
         /\ \E k \in DOMAIN Hdrs(p) :
                /\ jhr'[fd[p].jhr].hdrs = [Hdrs(p) EXCEPT ![k] = [Hdrs(p)[k] EXCEPT !.del = TRUE]]
                /\ ~Hdrs(p)[k].del
                /\ killed' = killed \cup {Hdrs(p)[k].msg}
         /\ jhr'[fd[p].jhr].active = jhr[fd[p].jhr].active
         /\ \A i \in Inodes : i # fd[p].jhr => jhr'[i] = jhr[i]
<1>1. pc[p] = "locked" /\ pc[p] \in LockPc \cup {"open"} /\ pc' = [pc EXCEPT ![p] = "deleted"]
  BY DEF Delete, Goto, LockPc
<1>2. PICK k \in UNION {Find(p, h.num) : h \in ToSet(Hdrs(p))} :
           /\ jhr' = [jhr EXCEPT ![fd[p].jhr].hdrs[k].del = TRUE]
           /\ killed' = killed \cup {Hdrs(p)[k].msg}
  BY DEF Delete
<1>3. /\ fd[p].jhr \in Inodes /\ Hdrs(p) \in Seq(Header) /\ jhr \in [Inodes -> HeaderFile]
  BY <1>1, HasFiles DEF Types
<1>4. k \in DOMAIN Hdrs(p) /\ Hdrs(p)[k] \in Header /\ ~Hdrs(p)[k].del
  BY <1>1, <1>2, FindFinds
<1> DEFINE h == [Hdrs(p)[k] EXCEPT !.del = TRUE]
           s == [Hdrs(p) EXCEPT ![k] = h]
<1>5. h \in Header
  BY <1>4 DEF Header
<1>6. s \in Seq(Header)
  <2>1. k \in 1..Len(Hdrs(p))
    BY <1>3, <1>4
  <2> HIDE DEF h
  <2> QED
    BY <1>3, <1>5, <2>1, ExceptSeq
<1>7. jhr' = [jhr EXCEPT ![fd[p].jhr].hdrs = s]
  BY <1>2 DEF Hdrs
<1>8. /\ jhr' \in [Inodes -> HeaderFile]
      /\ \A i \in Inodes : i # fd[p].jhr => jhr'[i] = jhr[i]
      /\ jhr'[fd[p].jhr].active = jhr[fd[p].jhr].active
      /\ jhr'[fd[p].jhr].hdrs = s
  <2> HIDE DEF s
  <2> QED
    BY <1>3, <1>6, <1>7 DEF HeaderFile
<1>9. left' \in [PlanFields -> Nat] /\ left'.add = left.add
  <2>1. left \in [PlanFields -> Nat] /\ left.delete > 0 /\ left' = [left EXCEPT !.delete = @ - 1]
    BY DEF Delete, Types, PlanFields
  <2>2. "delete" \in PlanFields /\ "add" \in PlanFields
        /\ left.delete \in Nat /\ left.delete - 1 \in Nat
    BY <2>1 DEF PlanFields
  <2> QED
    BY <2>1, <2>2
<1>a. pc' \in [Procs -> States] /\ killed' \subseteq 1..MaxMsgs
  BY <1>1, <1>2, <1>4 DEF Types, States, Header
<1>b. Types'
  BY <1>8, <1>9, <1>a DEF Delete, Types, PlanFields
<1> QED
  BY <1>2, <1>4, <1>8, <1>b

LEMMA DeleteCountTypes ==
  ASSUME Types, NEW p \in Procs, StageOf(p), DeleteCount(p)
  PROVE  Types'
<1>1. pc[p] \in LockPc \cup {"open"} /\ Count(p, -1) /\ pc' = [pc EXCEPT ![p] = "locked"]
  BY DEF DeleteCount, Goto, LockPc
<1>2. jhr' \in [Inodes -> HeaderFile] /\ act' \in [Procs -> 0..(Wrap - 1)]
  BY <1>1, CountTypes
<1> QED
  BY <1>1, <1>2 DEF DeleteCount, Types, bounds, history, States

-----------------------------------------------------------------------------
(* What packing computes *)

\* What is read and copied are headers of the file.
LEMMA ReadRange ==
  ASSUME Types, NEW p \in Procs, StageOf(p), pc[p] \in LockPc \cup {"open"}
  PROVE  /\ Read(p) \subseteq 1..Len(Hdrs(p)) /\ Copied(p) \subseteq 1..Len(Hdrs(p))
         /\ WithText(p) \subseteq Copied(p) /\ Len(Hdrs(p)) \in Nat
         /\ IsFiniteSet(Read(p)) /\ IsFiniteSet(Copied(p)) /\ IsFiniteSet(WithText(p))
         /\ Cardinality(Copied(p)) \in Nat /\ Cardinality(Copied(p)) <= Len(Hdrs(p))
         /\ Cardinality(Read(p)) \in Nat /\ Cardinality(WithText(p)) \in Nat
<1>1. DOMAIN Hdrs(p) = 1..Len(Hdrs(p)) /\ Len(Hdrs(p)) \in Nat
  BY HasFiles
<1>2. /\ Read(p) \in SUBSET (1..Len(Hdrs(p))) /\ Copied(p) \in SUBSET (1..Len(Hdrs(p)))
      /\ WithText(p) \in SUBSET (1..Len(Hdrs(p))) /\ WithText(p) \subseteq Copied(p)
  BY <1>1 DEF Read, Copied, WithText
<1>3. IsFiniteSet(1..Len(Hdrs(p))) /\ Cardinality(1..Len(Hdrs(p))) = Len(Hdrs(p))
  <2>1. 1 \in Int /\ Len(Hdrs(p)) \in Int
        /\ (IF 1 > Len(Hdrs(p)) THEN 0 ELSE Len(Hdrs(p)) - 1 + 1) = Len(Hdrs(p))
    BY <1>1
  <2> QED
    BY <2>1, FS_Interval
<1>4. /\ IsFiniteSet(Read(p)) /\ IsFiniteSet(Copied(p)) /\ IsFiniteSet(WithText(p))
      /\ Cardinality(Copied(p)) <= Len(Hdrs(p))
  BY <1>2, <1>3, FS_Subset
<1> QED
  BY <1>1, <1>2, <1>4, FS_CardinalityType

\* The pointer at each message that is looked at
Pointed(p, last, f) ==
    f = [k \in 0..Cardinality(Read(p)) |->
            IF k = 0 THEN last
            ELSE IF f[k - 1] = Hdrs(p)[k].num THEN Rank(Copied(p), k)
            ELSE f[k - 1]]

\* The recursive function Renumbered has a value at each message: there is no
\* least number up to which it has none.
LEMMA PointedExists ==
  ASSUME NEW p, NEW last, Cardinality(Read(p)) \in Nat
  PROVE  \E f : Pointed(p, last, f)
<1> DEFINE After(f, k) == IF f[k - 1] = Hdrs(p)[k].num THEN Rank(Copied(p), k) ELSE f[k - 1]
           Fits(n, f) == f = [k \in 0..n |-> IF k = 0 THEN last ELSE After(f, k)]
           Bad == {n \in Nat : ~\E f : Fits(n, f)}
<1>1. SUFFICES Bad = {}
  <2>1. Cardinality(Read(p)) \notin Bad
    BY <1>1
  <2> QED
    BY <2>1 DEF Pointed
<1>2. SUFFICES ASSUME Bad # {} PROVE FALSE
  OBVIOUS
<1>3. PICK n \in Bad : \A m \in Bad : n <= m
  BY <1>2, HasLeast
<1>4. n # 0
  <2> DEFINE f == [k \in 0..0 |-> last]
  <2>1. Fits(0, f)
    OBVIOUS
  <2> QED
    BY <1>3, <2>1
<1>5. n \in Nat /\ n - 1 \in Nat /\ n - 1 \notin Bad
  <2>1. n \in Nat
    BY <1>3
  <2> HIDE DEF Bad
  <2>2. n - 1 \in Nat /\ ~(n <= n - 1)
    BY <2>1, <1>4
  <2> QED
    BY <1>3, <2>1, <2>2
<1>6. PICK f : Fits(n - 1, f)
  BY <1>5
<1> DEFINE g == [k \in 0..n |-> IF k = n THEN After(f, n) ELSE f[k]]
<1>7. ASSUME NEW k \in 0..n PROVE g[k] = IF k = 0 THEN last ELSE After(g, k)
  <2>1. CASE k = n
    <3>0. n \in Nat
      BY <1>3
    <3>1. n - 1 \in 0..n /\ n - 1 # n
      BY <1>4, <3>0
    <3>2. g[n - 1] = f[n - 1]
      BY <3>1
    <3> QED
      BY <1>4, <2>1, <3>2
  <2>2. CASE k # n
    <3>1. k \in 0..(n - 1)
      BY <1>5, <2>2
    <3>2. f[k] = IF k = 0 THEN last ELSE After(f, k)
      <4> HIDE DEF After
      <4> QED
        BY <1>6, <3>1
    <3>3. k # 0 => k - 1 \in 0..n /\ k - 1 # n
      BY <3>1, <1>5
    <3>4. k # 0 => g[k - 1] = f[k - 1]
      BY <3>3
    <3>5. g[k] = f[k]
      BY <2>2
    <3> QED
      BY <3>2, <3>4, <3>5
  <2> QED
    BY <2>1, <2>2
<1>8. Fits(n, g)
  <2> HIDE DEF After
  <2>1. DOMAIN g = 0..n
    OBVIOUS
  <2>2. g = [k \in 0..n |-> g[k]]
    BY <2>1
  <2> QED
    BY <1>7, <2>2
<1> QED
  BY <1>3, <1>8

\* So it is the pointer at the last message that is read, ...
LEMMA RenumberedIs ==
  ASSUME NEW p, NEW last, Cardinality(Read(p)) \in Nat
  PROVE  \E f : Pointed(p, last, f) /\ Renumbered(p, last) = f[Cardinality(Read(p))]
<1> DEFINE lr[k \in 0..Cardinality(Read(p))] ==
               IF k = 0 THEN last
               ELSE IF lr[k - 1] = Hdrs(p)[k].num THEN Rank(Copied(p), k)
               ELSE lr[k - 1]
<1>1. lr = CHOOSE f : Pointed(p, last, f)
  BY DEF Pointed
<1>2. Renumbered(p, last) = lr[Cardinality(Read(p))]
  BY DEF Renumbered
<1> HIDE DEF lr
<1>3. Pointed(p, last, lr)
  BY <1>1, PointedExists
<1> QED
  BY <1>2, <1>3

\* ... a number.
LEMMA RenumberedType ==
  ASSUME NEW p, NEW last \in Nat, Cardinality(Read(p)) \in Nat
  PROVE  Renumbered(p, last) \in Nat
<1>1. PICK f : Pointed(p, last, f) /\ Renumbered(p, last) = f[Cardinality(Read(p))]
  BY RenumberedIs
<1> DEFINE Bad == {k \in 0..Cardinality(Read(p)) : f[k] \notin Nat}
<1>2. SUFFICES ASSUME Bad # {} PROVE FALSE
  BY <1>1
<1>3. Bad \subseteq Nat
  OBVIOUS
<1>4. PICK k \in Bad : \A j \in Bad : k <= j
  BY <1>2, <1>3, HasLeast
<1>5. f[k] = IF k = 0 THEN last
             ELSE IF f[k - 1] = Hdrs(p)[k].num THEN Rank(Copied(p), k)
             ELSE f[k - 1]
  BY <1>1 DEF Pointed
<1>6. k # 0
  BY <1>4, <1>5
<1>7. k \in Nat /\ k - 1 \in 0..Cardinality(Read(p)) /\ k - 1 \notin Bad
  BY <1>4, <1>6
<1>8. Rank(Copied(p), k) \in Nat
  BY <1>7, RankType
<1> QED
  BY <1>4, <1>5, <1>6, <1>7, <1>8

\* The headers that packing writes
LEMMA PackedIs ==
  ASSUME Types, NEW p \in Procs, StageOf(p), pc[p] \in LockPc \cup {"open"}
  PROVE  /\ PackedHdrs(p) \in Seq(Header) /\ Len(PackedHdrs(p)) = Cardinality(Copied(p))
         /\ DOMAIN PackedHdrs(p) = 1..Cardinality(Copied(p))
         /\ \A n \in 1..Cardinality(Copied(p)) :
                LET k == Place(Copied(p), n) IN
                /\ k \in Copied(p) /\ Rank(Copied(p), k) = n
                /\ PackedHdrs(p)[n].num = n /\ ~PackedHdrs(p)[n].del /\ ~PackedHdrs(p)[n].tail
                /\ PackedHdrs(p)[n].msg = Hdrs(p)[k].msg
                /\ PackedHdrs(p)[n].done = Hdrs(p)[k].done
                /\ PackedHdrs(p)[n].txt = IF Hdrs(p)[k].done THEN Rank(WithText(p), k) ELSE 0
<1> DEFINE C == Cardinality(Copied(p))
<1>1. /\ Copied(p) \subseteq 1..Len(Hdrs(p)) /\ Len(Hdrs(p)) \in Nat /\ C \in Nat
      /\ Hdrs(p) \in Seq(Header) /\ Copied(p) \subseteq Undeleted(Hdrs(p))
  BY ReadRange, HasFiles DEF Copied
<1>2. ASSUME NEW n \in 1..C
      PROVE  LET k == Place(Copied(p), n) IN
             /\ k \in Copied(p) /\ Rank(Copied(p), k) = n
             /\ PackedHeader(p, n) \in Header
             /\ PackedHeader(p, n).num = n /\ ~PackedHeader(p, n).del /\ ~PackedHeader(p, n).tail
             /\ PackedHeader(p, n).msg = Hdrs(p)[k].msg
             /\ PackedHeader(p, n).done = Hdrs(p)[k].done
             /\ PackedHeader(p, n).txt = IF Hdrs(p)[k].done THEN Rank(WithText(p), k) ELSE 0
  <2> DEFINE k == Place(Copied(p), n)
             t == IF Hdrs(p)[k].done THEN Rank(WithText(p), k) ELSE 0
  <2>1. k \in Copied(p) /\ Rank(Copied(p), k) = n
    BY <1>1, PlaceIsRank
  <2>2. k \in Nat /\ Hdrs(p)[k] \in Header /\ ~Hdrs(p)[k].del
    BY <1>1, <2>1 DEF Undeleted
  <2>3. t \in Nat
    BY <2>2, RankType
  <2>4. PackedHeader(p, n) = [Hdrs(p)[k] EXCEPT !.num = n, !.tail = FALSE, !.txt = t]
    BY DEF PackedHeader
  <2>5. n \in Nat \ {0}
    OBVIOUS
  <2> HIDE DEF t, k
  <2>6. /\ PackedHeader(p, n) \in Header
        /\ PackedHeader(p, n).num = n /\ ~PackedHeader(p, n).del /\ ~PackedHeader(p, n).tail
        /\ PackedHeader(p, n).msg = Hdrs(p)[k].msg
        /\ PackedHeader(p, n).done = Hdrs(p)[k].done
        /\ PackedHeader(p, n).txt = t
    BY <2>2, <2>3, <2>4, <2>5 DEF Header
  <2> QED
    BY <2>1, <2>6 DEF t, k
<1> HIDE DEF C
<1>3. PackedHdrs(p) = [n \in 1..C |-> PackedHeader(p, n)]
  BY DEF PackedHdrs, C
<1>4. PackedHdrs(p) \in [1..C -> Header]
  BY <1>2, <1>3
<1>5. PackedHdrs(p) \in Seq(Header) /\ Len(PackedHdrs(p)) = C
  BY <1>1, <1>4
<1>6. \A n \in 1..C : PackedHdrs(p)[n] = PackedHeader(p, n)
  BY <1>3
<1> QED
  BY <1>2, <1>3, <1>5, <1>6 DEF C

LEMMA IsSeq ==
  ASSUME NEW S, NEW n \in Nat, NEW f \in [1..n -> S]
  PROVE  f \in Seq(S) /\ Len(f) = n /\ DOMAIN f = 1..n
OBVIOUS

\* ... and the texts
LEMMA PackedTextsAre ==
  ASSUME Types, NEW p \in Procs, StageOf(p), pc[p] \in LockPc \cup {"open"}, ~Endless(p)
  PROVE  /\ PackedTexts(p) \in Seq(1..MaxMsgs)
         /\ DOMAIN PackedTexts(p) = 1..Cardinality(WithText(p))
         /\ \A k \in WithText(p) :
                /\ Rank(WithText(p), k) \in DOMAIN PackedTexts(p)
                /\ PackedTexts(p)[Rank(WithText(p), k)] = Texts(p)[Hdrs(p)[k].txt]
<1> DEFINE W == WithText(p)
           C == Cardinality(W)
           e(n) == Texts(p)[Hdrs(p)[Place(W, n)].txt]
<1>1. /\ W \subseteq 1..Len(Hdrs(p)) /\ Len(Hdrs(p)) \in Nat /\ C \in Nat /\ IsFiniteSet(W)
      /\ Texts(p) \in Seq(1..MaxMsgs)
  BY ReadRange, HasFiles
<1>2. ASSUME NEW n \in 1..C PROVE e(n) \in 1..MaxMsgs
  <2>1. Place(W, n) \in W
    BY <1>1, PlaceIsRank
  <2>2. Hdrs(p)[Place(W, n)].txt \in DOMAIN Texts(p)
    BY <2>1 DEF Endless
  <2>3. Hdrs(p)[Place(W, n)].txt \in 1..Len(Texts(p))
    BY <1>1, <2>2
  <2> QED
    BY <1>1, <2>3, ElementOfSeq
<1>3. PackedTexts(p) = [n \in 1..C |-> e(n)]
  BY DEF PackedTexts
<1> HIDE DEF C, e, W
<1>4. PackedTexts(p) \in [1..C -> 1..MaxMsgs]
  BY <1>2, <1>3
<1>5. ASSUME NEW k \in W
      PROVE  Rank(W, k) \in 1..C /\ PackedTexts(p)[Rank(W, k)] = Texts(p)[Hdrs(p)[k].txt]
  <2>1. W \subseteq Nat \ {0}
    BY <1>1
  <2>2. Place(W, Rank(W, k)) = k /\ Rank(W, k) \in 1..C
    BY <1>1, <2>1, RankIsPlace DEF C
  <2>3. PackedTexts(p)[Rank(W, k)] = e(Rank(W, k))
    BY <1>3, <2>2
  <2> QED
    BY <2>2, <2>3 DEF e
<1>6. PackedTexts(p) \in Seq(1..MaxMsgs) /\ DOMAIN PackedTexts(p) = 1..C
  <2>1. C \in Nat
    BY <1>1 DEF C
  <2> QED
    BY <1>4, <2>1, IsSeq
<1> QED
  BY <1>5, <1>6 DEF C, W

-----------------------------------------------------------------------------
(* Types: packing and reading *)

\* The files that packing makes, and what is in them
LEMMA Packs ==
  ASSUME Types, NEW p \in Procs, StageOf(p), Apart, Len(Hdrs(p)) <= MaxMsgs, Pack(p)
  PROVE  /\ pc[p] = "locked" /\ pc' = [pc EXCEPT ![p] = "swap"]
         /\ tmp' \in [Files -> Inodes]
         /\ \A f \in Files : tmp'[f] = IF tmp[f] = None THEN Fresh(f) ELSE tmp[f]
         /\ \A f \in Files : tmp'[f] # dir[f] /\ \A q \in Procs : fd[q][f] # tmp'[f]
         /\ PackedCount(p) \in 0..(Wrap - 1)
         /\ jhr'[tmp'.jhr] = [info |-> TRUE, active |-> PackedCount(p), hdrs |-> PackedHdrs(p)]
         /\ \A i \in Inodes : i # tmp'.jhr => jhr'[i] = jhr[i]
         /\ jdt'[tmp'.jdt] = PackedTexts(p)
         /\ \A i \in Inodes : i # tmp'.jdt => jdt'[i] = jdt[i]
         /\ jdx'[tmp'.jdx] = [n \in 1..Cardinality(Copied(p)) |-> n]
         /\ \A i \in Inodes : i # tmp'.jdx => jdx'[i] = jdx[i]
         /\ LET last == Renumbered(p, jlr[fd[p].jlr]) IN
            jlr'[tmp'.jlr] = IF last > PackedCount(p) THEN PackedCount(p) ELSE last
         /\ \A i \in Inodes : i # tmp'.jlr /\ i # fd[p].jlr => jlr'[i] = jlr[i]
         /\ jhr' \in [Inodes -> HeaderFile] /\ jdt' \in [Inodes -> Seq(1..MaxMsgs)]
         /\ jdx' \in [Inodes -> Seq(Nat \ {0})] /\ jlr' \in [Inodes -> Nat]
<1> DEFINE new == [f \in Files |-> IF tmp[f] = None THEN Fresh(f) ELSE tmp[f]]
           last == Renumbered(p, jlr[fd[p].jlr])
           file == [info |-> TRUE, active |-> PackedCount(p), hdrs |-> PackedHdrs(p)]
           order == [n \in 1..Cardinality(Copied(p)) |-> n]
<1>1. /\ pc[p] = "locked" /\ pc[p] \in LockPc \cup {"open"} /\ pc' = [pc EXCEPT ![p] = "swap"]
      /\ ~Endless(p) /\ tmp' = new
  BY DEF Pack, Goto, LockPc
<1>2. /\ jhr' = [jhr EXCEPT ![new.jhr] = file]
      /\ jdt' = [jdt EXCEPT ![new.jdt] = PackedTexts(p)]
      /\ jdx' = [jdx EXCEPT ![new.jdx] = order]
      /\ jlr' = [jlr EXCEPT ![fd[p].jlr] = last,
                            ![new.jlr] = IF last > PackedCount(p) THEN PackedCount(p) ELSE last]
  BY DEF Pack
<1>3. ASSUME NEW f \in Files
      PROVE  /\ new[f] \in Inodes /\ new[f] # dir[f]
             /\ \A q \in Procs : fd[q][f] # new[f]
  <2>1. CASE tmp[f] = None
    <3>1. Fresh(f) \in Inodes /\ Fresh(f) \notin Used(f)
      BY <2>1, FreshOne
    <3> QED
      BY <2>1, <3>1 DEF Used
  <2>2. CASE tmp[f] # None
    <3>1. tmp[f] \in Inodes
      BY <2>2 DEF Types
    <3> QED
      BY <2>2, <3>1 DEF Apart
  <2> QED
    BY <2>1, <2>2
<1>4. /\ new.jhr \in Inodes /\ new.jdt \in Inodes /\ new.jdx \in Inodes /\ new.jlr \in Inodes
      /\ fd[p].jlr # new.jlr
  BY <1>3 DEF Files
<1>5. /\ fd[p].jlr \in Inodes /\ jlr[fd[p].jlr] \in Nat /\ Active(p) \in 0..(Wrap - 1)
      /\ Cardinality(Copied(p)) \in Nat /\ Cardinality(Copied(p)) <= Len(Hdrs(p))
      /\ Len(Hdrs(p)) \in Nat /\ Cardinality(Read(p)) \in Nat
  BY <1>1, HasFiles, ReadRange
<1>6. PackedCount(p) \in 0..(Wrap - 1)
  <2>1. Cardinality(Copied(p)) \in 0..(Wrap - 1)
    <3>1. MaxMsgs < Wrap /\ MaxMsgs \in Nat /\ Wrap \in Nat
      BY Bounds DEF Types
    <3> QED
      BY <1>5, <3>1
  <2> QED
    BY <1>5, <2>1 DEF PackedCount
<1>7. last \in Nat
  BY <1>5, RenumberedType
<1>8. file \in HeaderFile
  BY <1>1, <1>6, PackedIs DEF HeaderFile
<1>9. PackedTexts(p) \in Seq(1..MaxMsgs)
  BY <1>1, PackedTextsAre
<1>10. order \in Seq(Nat \ {0})
  <2>1. order \in [1..Cardinality(Copied(p)) -> Nat \ {0}]
    OBVIOUS
  <2> HIDE DEF order
  <2> QED
    BY <1>5, <2>1, IsSeq
<1>11. /\ jhr \in [Inodes -> HeaderFile] /\ jdt \in [Inodes -> Seq(1..MaxMsgs)]
       /\ jdx \in [Inodes -> Seq(Nat \ {0})] /\ jlr \in [Inodes -> Nat]
  BY DEF Types
<1>12. new \in [Files -> Inodes]
       /\ \A f \in Files : new[f] = IF tmp[f] = None THEN Fresh(f) ELSE tmp[f]
  BY <1>3
<1> HIDE DEF new, last, file, order
<1>13. /\ jhr' \in [Inodes -> HeaderFile] /\ jhr'[new.jhr] = file
       /\ \A i \in Inodes : i # new.jhr => jhr'[i] = jhr[i]
  BY <1>2, <1>4, <1>8, <1>11
<1>14. /\ jdt' \in [Inodes -> Seq(1..MaxMsgs)] /\ jdt'[new.jdt] = PackedTexts(p)
       /\ \A i \in Inodes : i # new.jdt => jdt'[i] = jdt[i]
  BY <1>2, <1>4, <1>9, <1>11
<1>15. /\ jdx' \in [Inodes -> Seq(Nat \ {0})] /\ jdx'[new.jdx] = order
       /\ \A i \in Inodes : i # new.jdx => jdx'[i] = jdx[i]
  BY <1>2, <1>4, <1>10, <1>11
<1>16. /\ jlr' \in [Inodes -> Nat]
       /\ jlr'[new.jlr] = IF last > PackedCount(p) THEN PackedCount(p) ELSE last
       /\ \A i \in Inodes : i # new.jlr /\ i # fd[p].jlr => jlr'[i] = jlr[i]
  <2>1. (IF last > PackedCount(p) THEN PackedCount(p) ELSE last) \in Nat
    BY <1>6, <1>7
  <2> QED
    BY <1>2, <1>4, <1>5, <1>7, <1>11, <2>1
<1> QED
  BY <1>1, <1>3, <1>6, <1>12, <1>13, <1>14, <1>15, <1>16 DEF file, order, last

\* JAM_Pack()
LEMMA PackTypes ==
  ASSUME Types, NEW p \in Procs, StageOf(p), Apart, Len(Hdrs(p)) <= MaxMsgs, Pack(p)
  PROVE  Types'
<1>1. /\ pc' = [pc EXCEPT ![p] = "swap"] /\ tmp' \in [Files -> Inodes]
      /\ jhr' \in [Inodes -> HeaderFile] /\ jdt' \in [Inodes -> Seq(1..MaxMsgs)]
      /\ jdx' \in [Inodes -> Seq(Nat \ {0})] /\ jlr' \in [Inodes -> Nat]
  BY Packs
<1>2. /\ num' = [num EXCEPT ![p] = 1] /\ swaps' = swaps + 1
  BY DEF Pack
<1>3. /\ tmp' \in [Files -> Inodes \cup {None}] /\ pc' \in [Procs -> States]
      /\ num' \in [Procs -> Nat] /\ swaps' \in Nat
  BY <1>1, <1>2 DEF Types, States
<1> QED
  BY <1>1, <1>3 DEF Pack, Types, history

\* A step of the exchange of the files
LEMMA Swaps ==
  ASSUME Types, NEW p \in Procs, StageOf(p), Swap(p)
  PROVE  /\ num[p] \in 1..8
         /\ \E k \in 1..4 :
                LET f == Order[k] IN
                /\ num[p] \in {2 * k - 1, 2 * k}
                /\ num[p] = 2 * k - 1 => dir' = [dir EXCEPT ![f] = None] /\ tmp' = tmp
                /\ num[p] = 2 * k =>
                       /\ dir' = [dir EXCEPT ![f] = IF tmp[f] = None THEN @ ELSE tmp[f]]
                       /\ tmp' = [tmp EXCEPT ![f] = None]
<1>1. num[p] \in 1..8
  BY DEF Swap, StageOf
<1> DEFINE k == (num[p] + 1) \div 2
           f == Order[k]
<1>2. k \in 1..4 /\ num[p] \in {2 * k - 1, 2 * k} /\ (num[p] % 2 = 1 <=> num[p] = 2 * k - 1)
  BY <1>1
<1>3. IF num[p] % 2 = 1
      THEN dir' = [dir EXCEPT ![f] = None] /\ tmp' = tmp
      ELSE /\ dir' = [dir EXCEPT ![f] = IF tmp[f] = None THEN dir[f] ELSE tmp[f]]
           /\ tmp' = [tmp EXCEPT ![f] = None]
  BY DEF Swap
<1> HIDE DEF k
<1>4. num[p] = 2 * k => num[p] % 2 # 1
  BY <1>1, <1>2
<1> QED
  BY <1>1, <1>2, <1>3, <1>4

\* The exchange of the names
LEMMA SwapTypes ==
  ASSUME Types, NEW p \in Procs, StageOf(p), Swap(p)
  PROVE  Types'
<1>1. /\ dir' \in [Files -> Inodes \cup {None}] /\ tmp' \in [Files -> Inodes \cup {None}]
  <2>1. PICK k \in 1..4 :
                LET f == Order[k] IN
                /\ num[p] \in {2 * k - 1, 2 * k}
                /\ num[p] = 2 * k - 1 => dir' = [dir EXCEPT ![f] = None] /\ tmp' = tmp
                /\ num[p] = 2 * k =>
                       /\ dir' = [dir EXCEPT ![f] = IF tmp[f] = None THEN @ ELSE tmp[f]]
                       /\ tmp' = [tmp EXCEPT ![f] = None]
    BY Swaps
  <2>2. Order[k] \in Files
    BY OrderIsFile
  <2>3. CASE num[p] = 2 * k - 1
    BY <2>1, <2>2, <2>3 DEF Types
  <2>4. CASE num[p] = 2 * k
    BY <2>1, <2>2, <2>4 DEF Types
  <2> QED
    BY <2>1, <2>3, <2>4
<1>2. Forget
  BY DEF Swap
<1>3. /\ jhr' \in [Inodes -> HeaderFile] /\ jdt' \in [Inodes -> Seq(1..MaxMsgs)]
      /\ jdx' \in [Inodes -> Seq(Nat \ {0})] /\ jlr' \in [Inodes -> Nat]
  BY <1>2, Forgotten
<1>4. /\ num' \in [Procs -> Nat] /\ pc' \in [Procs -> States] /\ job' \in [Procs -> Jobs]
      /\ fd' \in [Procs -> [Files -> Inodes \cup {None}]]
  <2>1. num[p] + 1 \in Nat
    BY DEF Types
  <2> QED
    BY <2>1 DEF Swap, Types, States, Jobs
<1> QED
  BY <1>1, <1>3, <1>4 DEF Swap, Types, bounds, history

\* The number JAM_Next() finds is that of a header behind the pointer.
LEMMA Next1Type ==
  ASSUME Types, NEW p \in Procs, StageOf(p), pc[p] \in LockPc \cup {"open"}
  PROVE  /\ Next1(p) \in Nat
         /\ Next1(p) # 0 =>
                LET later == {k \in DOMAIN Index(p) :
                                  /\ Index(p)[k] \in Undeleted(Hdrs(p))
                                  /\ Hdrs(p)[Index(p)[k]].num > jlr[fd[p].jlr]}
                IN \E k \in later : /\ \A j \in later : k <= j
                                    /\ Next1(p) = Hdrs(p)[Index(p)[k]].num
<1> DEFINE later == {k \in DOMAIN Index(p) : /\ Index(p)[k] \in Undeleted(Hdrs(p))
                                             /\ Hdrs(p)[Index(p)[k]].num > jlr[fd[p].jlr]}
<1>1. Next1(p) = IF act[p] = 0 \/ later = {} THEN 0
                 ELSE Hdrs(p)[Index(p)[CHOOSE k \in later : \A j \in later : k <= j]].num
  BY DEF Next1
<1>2. Hdrs(p) \in Seq(Header) /\ Index(p) \in Seq(Nat \ {0})
  BY HasFiles
<1>3. CASE later # {}
  <2>1. later \subseteq Nat
    BY <1>2
  <2>2. \E k \in later : \A j \in later : k <= j
    BY <1>3, <2>1, HasLeast
  <2> DEFINE k == CHOOSE k \in later : \A j \in later : k <= j
  <2>3. k \in later /\ \A j \in later : k <= j
    BY <2>2
  <2>7. \A j \in later : Index(p)[j] \in DOMAIN Hdrs(p)
    BY DEF Undeleted
  <2>8. \A j \in DOMAIN Hdrs(p) : Hdrs(p)[j] \in Header
    BY <1>2
  <2>4. Hdrs(p)[Index(p)[k]] \in Header
    <3> HIDE DEF later, k
    <3> QED
      BY <2>3, <2>7, <2>8
  <2>5. Hdrs(p)[Index(p)[k]].num \in Nat
    BY Zenon, <2>4 DEF Header
  <2> HIDE DEF later, k
  <2>6. Next1(p) \in {0, Hdrs(p)[Index(p)[k]].num}
    BY <1>1 DEF k
  <2> QED
    BY <2>3, <2>5, <2>6 DEF later
<1>4. CASE later = {}
  <2>1. Next1(p) = 0
    BY <1>1, <1>4
  <2> QED
    BY <2>1
<1> QED
  BY <1>3, <1>4

\* A user who reads
LEMMA FindNextTypes ==
  ASSUME Types, NEW p \in Procs, StageOf(p), FindNext(p)
  PROVE  Types'
<1>1. CASE Next1(p) = 0
  <2>1. Done(p) /\ seen' = seen
    BY <1>1 DEF FindNext
  <2> QED
    BY <2>1, DoneTypes DEF Types
<1>2. CASE Next1(p) # 0
  <2>1. /\ Close(p) /\ job' = [job EXCEPT ![p] = "show"]
        /\ num' = [num EXCEPT ![p] = Next1(p)]
        /\ cur' = [cur EXCEPT ![p] = IF Current(p) THEN swaps ELSE -1]
        /\ UNCHANGED <<bounds, stored, killed, astray, seen, mishap>>
    BY <1>2 DEF FindNext
  <2>2. pc[p] \in LockPc \cup {"open"}
    BY DEF FindNext
  <2>3. Next1(p) \in Nat
    BY <2>2, Next1Type
  <2>4. (IF Current(p) THEN swaps ELSE -1) \in Int
    BY DEF Types
  <2>5. job' \in [Procs -> Jobs]
    BY <2>1 DEF Types, Jobs
  <2>6. num' \in [Procs -> Nat] /\ cur' \in [Procs -> Int]
    BY <2>1, <2>3, <2>4 DEF Types
  <2> QED
    BY <2>1, <2>5, <2>6, CloseTypes DEF Types, bounds
<1> QED
  BY <1>1, <1>2

LEMMA ShowTypes ==
  ASSUME Types, NEW p \in Procs, StageOf(p), Show(p)
  PROVE  Types'
<1>1. CASE Find(p, num[p]) = {}
  <2>1. Done(p) /\ seen' = seen
    BY <1>1 DEF Show
  <2> QED
    BY <2>1, DoneTypes DEF Types
<1>2. CASE Find(p, num[p]) # {}
  <2>1. pc[p] \in LockPc \cup {"open"}
    BY DEF Show
  <2>2. \A k \in Find(p, num[p]) : Hdrs(p)[k] \in Header
    BY <2>1, FindFinds
  <2>3. seen' \subseteq 1..MaxMsgs
    <3>1. seen' = seen \cup {Hdrs(p)[k].msg : k \in Find(p, num[p])}
      BY <1>2 DEF Show
    <3>2. \A k \in Find(p, num[p]) : Hdrs(p)[k].msg \in 1..MaxMsgs
      BY <2>2 DEF Header
    <3>3. seen \subseteq 1..MaxMsgs
      BY DEF Types
    <3> QED
      BY <3>1, <3>2, <3>3
  <2> QED
    BY <1>2, <2>3 DEF Show, Types, Jobs, bounds, files
<1> QED
  BY <1>1, <1>2

LEMMA SetLastReadTypes ==
  ASSUME Types, NEW p \in Procs, StageOf(p), SetLastRead(p)
  PROVE  Types'
<1>1. pc[p] \in LockPc \cup {"open"} /\ pc' = [pc EXCEPT ![p] = "unlock"]
  BY DEF SetLastRead, Goto, LockPc
<1>2. fd[p].jlr \in Inodes
  BY <1>1, HasFiles
<1>3. jlr' \in [Inodes -> Nat]
  BY <1>2 DEF SetLastRead, Types
<1> QED
  BY <1>1, <1>3 DEF SetLastRead, Types, States, bounds, history

\* A program that is killed
LEMMA CrashTypes ==
  ASSUME Types, NEW p \in Procs, Crash(p)
  PROVE  Types'
<1>1. Close(p) /\ left.crash > 0 /\ left' = [left EXCEPT !.crash = @ - 1]
  BY DEF Crash
<1>2. left' \in [PlanFields -> Nat] /\ left'.add = left.add
  <2>1. left \in [PlanFields -> Nat]
    BY DEF Types, PlanFields
  <2>2. "crash" \in PlanFields /\ "add" \in PlanFields
        /\ left.crash \in Nat /\ left.crash - 1 \in Nat
    BY <1>1, <2>1 DEF PlanFields
  <2> QED
    BY <1>1, <2>1, <2>2
<1>3. job' \in [Procs -> Jobs] /\ num' \in [Procs -> Nat] /\ cur' \in [Procs -> Int]
  BY DEF Crash, Types, Jobs
<1> QED
  BY <1>1, <1>2, <1>3, CloseTypes DEF Crash, Types, history, PlanFields

-----------------------------------------------------------------------------
(* Kinds of steps *)

\* A step of program p
Step(p) ==
    \/ \E j \in {"add", "kill", "pack", "read"} : Start(p, j)
    \/ Again(p) \/ Create(p) \/ OpenNext(p) \/ Lock(p) \/ LockFails(p) \/ UnLock(p)
    \/ AddIndex(p) \/ AddHeader(p) \/ AddText(p) \/ AddFinal(p) \/ AddCount(p)
    \/ Delete(p) \/ DeleteCount(p) \/ Pack(p) \/ Swap(p)
    \/ FindNext(p) \/ Show(p) \/ SetLastRead(p) \/ Crash(p)

\* Steps that open a file, that close all of them, and that write to one
Opens(p) == (\E j \in {"add", "kill", "pack", "read"} : Start(p, j)) \/ Again(p) \/ OpenNext(p)
Closes(p) == \/ LockFails(p) \/ UnLock(p) \/ FindNext(p) \/ Crash(p)
             \/ Show(p) /\ Find(p, num[p]) = {}
Shows(p) == Show(p) /\ Find(p, num[p]) # {}
Writes(p) == \/ Create(p) \/ AddIndex(p) \/ AddHeader(p) \/ AddText(p) \/ AddFinal(p)
             \/ AddCount(p) \/ Delete(p) \/ DeleteCount(p) \/ SetLastRead(p)

\* Every step is one of a program, of one of these kinds.
LEMMA StepIs == Next => \E p \in Procs : Step(p)
BY DEF Next, Step

LEMMA StepKinds ==
  ASSUME NEW p \in Procs, Step(p)
  PROVE  Opens(p) \/ Closes(p) \/ Shows(p) \/ Lock(p) \/ Writes(p) \/ Pack(p) \/ Swap(p)
BY DEF Step, Opens, Closes, Shows, Writes

\* What each kind does to the files
LEMMA OpensFile ==
  ASSUME NEW p \in Procs, Opens(p)
  PROVE  /\ \E f \in Files : OpenFile(p, f) /\ ((pc[p] = "closed" /\ f = "jhr") \/ fd[p][f] = None)
         /\ UNCHANGED <<tmp, files, num, swaps, history, mishap>>
<1>1. CASE \E j \in {"add", "kill", "pack", "read"} : Start(p, j)
  BY <1>1 DEF Start, OpenHdr, Files
<1>2. CASE Again(p)
  BY <1>2 DEF Again, OpenHdr, Files, bounds
<1>3. CASE OpenNext(p)
  <2>1. PICK k \in 2..4 : OpenFile(p, Order[k]) /\ fd[p][Order[k]] = None
    BY <1>3 DEF OpenNext
  <2>2. Order[k] \in Files
    BY OrderIsFile
  <2> QED
    BY <1>3, <2>1, <2>2 DEF OpenNext, bounds
<1> QED
  BY <1>1, <1>2, <1>3 DEF Opens

LEMMA ClosesFiles ==
  ASSUME NEW p \in Procs, Closes(p)
  PROVE  /\ Close(p) /\ Forget
         /\ UNCHANGED <<dir, tmp, msgs, swaps, stored, killed, astray, seen>>
<1>1. CASE LockFails(p)
  BY <1>1 DEF LockFails, Done, Close, bounds
<1>2. CASE UnLock(p)
  BY <1>2 DEF UnLock, Done, Close, bounds
<1>3. CASE FindNext(p)
  BY <1>3 DEF FindNext, Done, Close, bounds
<1>4. CASE Crash(p)
  BY <1>4 DEF Crash, Close, history
<1>5. CASE Show(p) /\ Find(p, num[p]) = {}
  BY <1>5 DEF Show, Done, Close, bounds
<1> QED
  BY <1>1, <1>2, <1>3, <1>4, <1>5 DEF Closes

LEMMA WritesKeep ==
  ASSUME NEW p \in Procs, Writes(p)
  PROVE  UNCHANGED <<dir, tmp, fd, job, cur, swaps, msgs>>
<1>1. CASE Create(p) \/ DeleteCount(p)
  BY <1>1 DEF Create, DeleteCount, bounds
<1>2. CASE Delete(p) \/ SetLastRead(p)
  BY <1>2 DEF Delete, SetLastRead, bounds
<1>3. CASE AddIndex(p) \/ AddHeader(p) \/ AddText(p) \/ AddFinal(p) \/ AddCount(p)
  BY <1>3 DEF AddIndex, AddHeader, AddText, AddFinal, AddCount, Adds, bounds
<1> QED
  BY <1>1, <1>2, <1>3 DEF Writes

\* No step changes what another program has open or is about to do.
LEMMA OthersSame ==
  ASSUME Types, NEW p \in Procs, Step(p), NEW q \in Procs, q # p
  PROVE  /\ pc'[q] = pc[q] /\ job'[q] = job[q] /\ fd'[q] = fd[q]
         /\ num'[q] = num[q] /\ cur'[q] = cur[q] /\ act'[q] = act[q]
<1>0. /\ pc \in [Procs -> States] /\ job \in [Procs -> Jobs]
      /\ fd \in [Procs -> [Files -> Inodes \cup {None}]]
      /\ act \in [Procs -> 0..(Wrap - 1)]
      /\ num \in [Procs -> Nat] /\ cur \in [Procs -> Int]
  BY DEF Types
<1>1. CASE Opens(p)
  <2>1. PICK f \in Files : OpenFile(p, f)
    BY <1>1, OpensFile
  <2>2. fd'[q] = fd[q]
    BY <2>1, Opened
  <2>3. /\ \E v : pc' = [pc EXCEPT ![p] = v]
        /\ job' = job \/ \E v : job' = [job EXCEPT ![p] = v]
        /\ cur' = cur \/ \E v : cur' = [cur EXCEPT ![p] = v]
        /\ num' = num
        /\ act' = act \/ \E v : act' = [act EXCEPT ![p] = v]
    BY <1>1 DEF Opens, Start, Again, OpenNext, OpenHdr
  <2> QED
    BY <1>0, <2>2, <2>3
<1>2. CASE Closes(p)
  <2>1. Close(p)
    BY <1>2, ClosesFiles
  <2>2. /\ job' = [job EXCEPT ![p] = "none"] \/ job' = [job EXCEPT ![p] = "show"]
        /\ \E v : cur' = [cur EXCEPT ![p] = v]
        /\ \E v : num' = [num EXCEPT ![p] = v]
    BY <1>2 DEF Closes, LockFails, UnLock, FindNext, Crash, Show, Done
  <2> QED
    BY <1>0, <2>1, <2>2 DEF Close
<1>3. CASE Shows(p)
  BY <1>0, <1>3 DEF Shows, Show
<1>4. CASE Lock(p)
  BY <1>0, <1>4 DEF Lock, Goto
<1>5. CASE Writes(p)
  <2>1. UNCHANGED <<fd, job, cur>>
    BY <1>5, WritesKeep
  <2>2. /\ \E v : pc' = [pc EXCEPT ![p] = v]
        /\ num' = num \/ \E v : num' = [num EXCEPT ![p] = v]
        /\ act' = act \/ \E v : act' = [act EXCEPT ![p] = v]
    BY Zenon, <1>5 DEF Writes, Create, AddIndex, AddHeader, AddText, AddFinal, AddCount, Adds,
                Delete, DeleteCount, SetLastRead, Goto, Count
  <2> QED
    BY <1>0, <2>1, <2>2
<1>6. CASE Pack(p)
  BY <1>0, <1>6 DEF Pack, Goto
<1>7. CASE Swap(p)
  BY <1>0, <1>7 DEF Swap
<1> QED
  BY <1>1, <1>2, <1>3, <1>4, <1>5, <1>6, <1>7, StepKinds

-----------------------------------------------------------------------------
(* What a program that has got so far has open *)

\* Messages and exchanges of files are counted up.
LEMMA CountersGrow ==
  ASSUME Types, NEW p \in Procs, Step(p)
  PROVE  msgs <= msgs' /\ swaps <= swaps' /\ (~Pack(p) => swaps' = swaps)
<1>0. msgs \in Nat /\ swaps \in Nat
  BY DEF Types
<1>1. CASE Opens(p)
  BY <1>0, <1>1 DEF Opens, Start, Again, OpenNext, bounds
<1>2. CASE Closes(p)
  BY <1>0, <1>2, ClosesFiles
<1>3. CASE Shows(p) \/ Lock(p) \/ Swap(p)
  BY <1>0, <1>3 DEF Shows, Show, Lock, Swap, bounds
<1>4. CASE Writes(p)
  BY <1>0, <1>4, WritesKeep
<1>5. CASE Pack(p)
  BY <1>0, <1>5 DEF Pack
<1> QED
  BY <1>1, <1>2, <1>3, <1>4, <1>5, StepKinds

\* Each kind of step leaves its program at a stage that is described.
LEMMA OpensStage ==
  ASSUME Types, Types', NEW p \in Procs, StageOf(p), Opens(p)
  PROVE  StageOf(p)'
<1>0. /\ pc \in [Procs -> States] /\ job \in [Procs -> Jobs] /\ cur \in [Procs -> Int]
      /\ msgs \in Nat /\ msgs' \in Nat
  BY DEF Types
<1>1. CASE \E j \in {"add", "kill", "pack", "read"} : Start(p, j)
  <2>1. PICK j \in {"add", "kill", "pack", "read"} : Start(p, j)
    BY <1>1
  <2>2. OpenFile(p, "jhr") /\ "jhr" \in Files /\ job'[p] = j /\ pc'[p] \in {"files", "info"}
    BY <1>0, <2>1 DEF Start, OpenHdr, Files
  <2>3. fd'[p].jhr # None
    BY <2>2, Opened, NoFile
  <2>4. j = "add" => cur'[p] \in 1..msgs'
    BY <1>0, <2>1 DEF Start
  <2> QED
    BY <2>2, <2>3, <2>4 DEF StageOf, LockPc, Adding
<1>2. CASE Again(p)
  <2>2. /\ OpenFile(p, "jhr") /\ "jhr" \in Files /\ job' = job /\ pc'[p] \in {"files", "info"}
        /\ cur' = cur /\ swaps' = swaps /\ job[p] \in {"show", "done"}
    BY <1>0, <1>2 DEF Again, OpenHdr, Files, bounds
  <2>3. fd'[p].jhr # None
    BY <2>2, Opened, NoFile
  <2> QED
    BY <2>2, <2>3 DEF StageOf, LockPc, Adding
<1>3. CASE OpenNext(p)
  <2>1. PICK k \in 2..4 : /\ \A j \in 1..(k - 1) : fd[p][Order[j]] # None
                          /\ OpenFile(p, Order[k])
                          /\ pc' = [pc EXCEPT ![p] = IF k = 4 THEN "open" ELSE "files"]
    BY <1>3 DEF OpenNext
  <2>2. Order[k] \in Files /\ fd'[p][Order[k]] # None
    BY <2>1, Opened, NoFile, OrderIsFile
  <2>3. \A f \in Files : fd[p][f] # None => fd'[p][f] # None
    BY <2>1, <2>2, Opened, NoFile
  <2>4. pc[p] = "files" /\ fd[p].jhr # None /\ "jhr" \in Files
    BY <1>3 DEF OpenNext, StageOf, Files
  <2>5. k = 4 => \A f \in Files : fd'[p][f] # None
    <3>1. SUFFICES ASSUME k = 4 PROVE \A f \in Files : fd'[p][f] # None
      OBVIOUS
    <3>2. /\ fd[p][Order[1]] # None /\ fd[p][Order[2]] # None /\ fd[p][Order[3]] # None
          /\ fd'[p][Order[4]] # None
      BY <2>1, <2>2, <3>1
    <3> QED
      BY <2>3, <3>2, OrderIsFile DEF Files
  <2>6. /\ job' = job /\ cur' = cur /\ msgs' = msgs /\ swaps' = swaps
        /\ pc'[p] = IF k = 4 THEN "open" ELSE "files"
    BY <1>0, <1>3, <2>1 DEF OpenNext, bounds
  <2> QED
    BY <2>3, <2>4, <2>5, <2>6 DEF StageOf, LockPc, Adding
<1> QED
  BY <1>1, <1>2, <1>3 DEF Opens

LEMMA ClosesStage ==
  ASSUME Types, NEW p \in Procs, StageOf(p), Closes(p)
  PROVE  StageOf(p)' /\ pc'[p] = "closed" /\ \A f \in Files : fd'[p][f] = None
<1>0. /\ pc \in [Procs -> States] /\ job \in [Procs -> Jobs] /\ cur \in [Procs -> Int]
      /\ fd \in [Procs -> [Files -> Inodes \cup {None}]] /\ swaps \in Nat
  BY DEF Types
<1>1. Close(p) /\ swaps' = swaps
  BY ClosesFiles
<1>2. pc'[p] = "closed" /\ \A f \in Files : fd'[p][f] = None
  BY <1>0, <1>1 DEF Close
<1>3. \/ job' = [job EXCEPT ![p] = "none"]
      \/ /\ job' = [job EXCEPT ![p] = "show"]
         /\ \E v \in {swaps, -1} : cur' = [cur EXCEPT ![p] = v]
  BY DEF Closes, LockFails, UnLock, FindNext, Crash, Show, Done
<1>4. job'[p] = "none" \/ (job'[p] = "show" /\ cur'[p] <= swaps)
  <2>1. CASE job' = [job EXCEPT ![p] = "none"]
    <3>1. job'[p] = "none"
      BY <1>0, <2>1
    <3> QED
      BY <3>1
  <2>2. CASE /\ job' = [job EXCEPT ![p] = "show"]
             /\ \E v \in {swaps, -1} : cur' = [cur EXCEPT ![p] = v]
    <3>1. job'[p] = "show" /\ cur'[p] \in {swaps, -1}
      BY <1>0, <2>2
    <3>2. cur'[p] <= swaps
      <4>1. swaps \in Nat
        BY <1>0
      <4> QED
        BY <3>1, <4>1
    <3> QED
      BY <3>1, <3>2
  <2> QED
    BY <1>3, <2>1, <2>2
<1> QED
  BY <1>1, <1>2, <1>4 DEF StageOf, LockPc, Adding

LEMMA WritesStage ==
  ASSUME Types, NEW p \in Procs, StageOf(p), Writes(p)
  PROVE  StageOf(p)'
<1>0. pc \in [Procs -> States]
  BY DEF Types
<1>1. UNCHANGED <<fd, job, cur, swaps, msgs>>
  BY WritesKeep
<1>2. CASE Create(p)
  <2>1. pc[p] = "info" /\ pc'[p] = "files"
    BY <1>0, <1>2 DEF Create, Goto
  <2> QED
    BY <1>1, <2>1 DEF StageOf, LockPc, Adding
<1>3. CASE AddIndex(p)
  <2>1. pc[p] = "locked" /\ pc'[p] = "header" /\ job[p] = "add"
    BY <1>0, <1>3 DEF AddIndex, Adds, Goto
  <2>2. num'[p] \in Nat \ {0}
    BY <1>3, AddIndexTypes
  <2> QED
    BY <1>1, <2>1, <2>2 DEF StageOf, LockPc, Adding
<1>4. CASE AddHeader(p) \/ AddText(p) \/ AddFinal(p) \/ AddCount(p)
  <2>1. /\ pc[p] \in Adding /\ pc'[p] \in {"text", "final", "count", "unlock"} /\ job[p] = "add"
    BY <1>0, <1>4 DEF AddHeader, AddText, AddFinal, AddCount, Adds, Goto, Adding
  <2> QED
    BY <1>1, <2>1 DEF StageOf, LockPc, Adding
<1>5. CASE Delete(p)
  <2>1. pc[p] = "locked" /\ pc'[p] = "deleted" /\ job[p] = "kill"
    BY <1>0, <1>5 DEF Delete, Goto
  <2> QED
    BY <1>1, <2>1 DEF StageOf, LockPc, Adding
<1>6. CASE DeleteCount(p)
  <2>1. pc[p] = "deleted" /\ pc'[p] = "locked"
    BY <1>0, <1>6 DEF DeleteCount, Goto
  <2> QED
    BY <1>1, <2>1 DEF StageOf, LockPc, Adding
<1>7. CASE SetLastRead(p)
  <2>1. pc[p] = "locked" /\ pc'[p] = "unlock"
    BY <1>0, <1>7 DEF SetLastRead, Goto
  <2> QED
    BY <1>1, <2>1 DEF StageOf, LockPc, Adding
<1> QED
  BY <1>2, <1>3, <1>4, <1>5, <1>6, <1>7 DEF Writes

\* The stages of all programs
LEMMA StageStep ==
  ASSUME Types, Types', Stage, NEW p \in Procs, Step(p)
  PROVE  Stage'
<1>0. /\ pc \in [Procs -> States] /\ job \in [Procs -> Jobs] /\ cur \in [Procs -> Int]
      /\ fd \in [Procs -> [Files -> Inodes \cup {None}]] /\ swaps \in Nat /\ swaps' \in Nat
      /\ num \in [Procs -> Nat] /\ msgs \in Nat /\ msgs' \in Nat
  BY DEF Types
<1>1. ASSUME NEW q \in Procs, q # p PROVE StageOf(q)'
  <2>1. /\ pc'[q] = pc[q] /\ job'[q] = job[q] /\ fd'[q] = fd[q]
        /\ num'[q] = num[q] /\ cur'[q] = cur[q] /\ cur[q] \in Int
    BY <1>0, <1>1, OthersSame
  <2>2. msgs <= msgs' /\ swaps <= swaps'
    BY CountersGrow
  <2>3. StageOf(q)
    BY DEF Stage
  <2>4. /\ job[q] = "add" => cur[q] \in 1..msgs'
        /\ job[q] \in {"show", "set"} => cur[q] <= swaps'
    BY <1>0, <2>1, <2>2, <2>3 DEF StageOf
  <2> QED
    BY <2>1, <2>3, <2>4 DEF StageOf
<1>2. StageOf(p)
  BY DEF Stage
<1>3. StageOf(p)'
  <2>1. CASE Opens(p)
    BY <1>2, <2>1, OpensStage
  <2>2. CASE Closes(p)
    BY <1>2, <2>2, ClosesStage
  <2>3. CASE Shows(p)
    <3>1. /\ pc' = pc /\ fd' = fd /\ cur' = cur /\ swaps' = swaps /\ pc[p] = "open"
          /\ job[p] = "show" /\ job'[p] = "set"
      BY <1>0, <2>3 DEF Shows, Show, bounds
    <3> QED
      BY <1>2, <3>1 DEF StageOf, LockPc, Adding
  <2>4. CASE Lock(p)
    <3>1. /\ pc[p] = "open" /\ pc'[p] = "locked" /\ fd' = fd /\ cur' = cur /\ swaps' = swaps
          /\ msgs' = msgs /\ job' = job
      BY <1>0, <2>4 DEF Lock, Goto, bounds
    <3> QED
      BY <1>2, <3>1 DEF StageOf, LockPc, Adding
  <2>5. CASE Writes(p)
    BY <1>2, <2>5, WritesStage
  <2>6. CASE Pack(p)
    <3>1. pc'[p] = "swap" /\ job'[p] = "pack" /\ num'[p] = 1
      BY <1>0, <2>6 DEF Pack, Goto
    <3> QED
      BY <3>1 DEF StageOf, LockPc, Adding
  <2>7. CASE Swap(p)
    <3>1. /\ num[p] \in 1..8 /\ job[p] = "pack" /\ \A f \in Files : fd'[p][f] = None
          /\ num'[p] = IF num[p] = 8 THEN 0 ELSE num[p] + 1
          /\ pc'[p] = IF num[p] = 8 THEN "closed" ELSE "swap"
          /\ job'[p] = IF num[p] = 8 THEN "done" ELSE job[p]
      BY <1>0, <1>2, <2>7 DEF Swap, StageOf
    <3> QED
      BY <3>1 DEF StageOf, LockPc, Adding
  <2> QED
    BY <2>1, <2>2, <2>3, <2>4, <2>5, <2>6, <2>7, StepKinds
<1> QED
  BY <1>1, <1>3 DEF Stage

-----------------------------------------------------------------------------
(* Files that are used and files that are not *)

\* A file is used when it has a name, a temporary name or an opener.
LEMMA UsedIs ==
  ASSUME NEW f, NEW i
  PROVE  /\ i \in Used(f) <=> i = dir[f] \/ i = tmp[f] \/ \E q \in Procs : i = fd[q][f]
         /\ i \in Used(f)' <=> i = dir'[f] \/ i = tmp'[f] \/ \E q \in Procs : i = fd'[q][f]
BY DEF Used

\* No file of headers is longer than the number of messages.
LEMMA RoomBounds ==
  ASSUME Types, Room
  PROVE  \A i \in Inodes : Len(jhr[i].hdrs) \in Nat /\ Len(jhr[i].hdrs) <= MaxMsgs
<1>1. Pending \in SUBSET Procs /\ IsFiniteSet(Procs)
  BY Bounds DEF Pending
<1>2. Cardinality(Pending) \in Nat
  BY <1>1, FS_Subset, FS_CardinalityType
<1>3. msgs \in Nat /\ left.add \in Nat /\ msgs + left.add <= MaxMsgs
  BY DEF Types
<1>4. ASSUME NEW i \in Inodes PROVE Len(jhr[i].hdrs) \in Nat /\ Len(jhr[i].hdrs) <= MaxMsgs
  <2>1. jhr[i].hdrs \in Seq(Header)
    BY DEF Types, HeaderFile
  <2>2. Len(jhr[i].hdrs) \in Nat /\ Len(jhr[i].hdrs) + Cardinality(Pending) <= msgs
    BY <2>1 DEF Room
  <2> QED
    BY <1>2, <1>3, <2>2, Bounds
<1> QED
  BY <1>4

\* A pack has room for what it copies.
LEMMA PackFits ==
  ASSUME Types, Stage, Room, NEW p \in Procs, Pack(p)
  PROVE  Len(Hdrs(p)) <= MaxMsgs /\ StageOf(p)
<1>1. StageOf(p) /\ pc[p] \in LockPc \cup {"open"}
  BY DEF Stage, Pack, Goto, LockPc
<1>2. fd[p].jhr \in Inodes
  BY <1>1, HasFiles
<1> QED
  BY <1>1, <1>2, RoomBounds DEF Hdrs

\* What a step may do to a file that stays in use
LEMMA Contents ==
  ASSUME Types, Stage, Apart, Room, NEW p \in Procs, Step(p), NEW i \in Inodes
  PROVE  /\ i \in Used("jhr")' /\ ~(Writes(p) /\ i = fd[p].jhr) /\ ~(Pack(p) /\ i = tmp'.jhr)
                => jhr'[i] = jhr[i]
         /\ i \in Used("jdt")' /\ ~(Pack(p) /\ i = tmp'.jdt)
                => \/ jdt'[i] = jdt[i]
                   \/ AddText(p) /\ i = fd[p].jdt /\ jdt'[i] = Append(jdt[i], cur[p])
         /\ i \in Used("jdx")' /\ ~(Pack(p) /\ i = tmp'.jdx)
                => \/ jdx'[i] = jdx[i]
                   \/ AddIndex(p) /\ i = fd[p].jdx /\ jdx'[i] = Append(jdx[i], Len(Hdrs(p)) + 1)
         /\ i \in Used("jlr")' /\ ~(Pack(p) /\ i \in {tmp'.jlr, fd[p].jlr})
                => \/ jlr'[i] = jlr[i]
                   \/ SetLastRead(p) /\ i = fd[p].jlr /\ jlr'[i] = num[p]
<1>0. /\ jhr \in [Inodes -> HeaderFile] /\ jdt \in [Inodes -> Seq(1..MaxMsgs)]
      /\ jdx \in [Inodes -> Seq(Nat \ {0})] /\ jlr \in [Inodes -> Nat]
  BY DEF Types
<1>1. CASE Opens(p) \/ Shows(p) \/ Lock(p)
  <2>1. jhr' = jhr /\ jdt' = jdt /\ jdx' = jdx /\ jlr' = jlr
    BY <1>1, OpensFile DEF Shows, Show, Lock, files
  <2> QED
    BY <2>1
<1>2. CASE Closes(p) \/ Swap(p)
  <2>1. Forget
    BY <1>2, ClosesFiles DEF Swap
  <2> QED
    BY <2>1, Forgotten
<1>3. CASE Writes(p)
  <2>1. CASE Create(p) \/ DeleteCount(p) \/ Delete(p) \/ AddHeader(p) \/ AddFinal(p) \/ AddCount(p)
    <3>1. /\ jdt' = jdt /\ jdx' = jdx /\ jlr' = jlr
          /\ \E x : jhr' = [jhr EXCEPT ![fd[p].jhr] = x]
      BY Zenon, <2>1 DEF Create, DeleteCount, Delete, AddHeader, AddFinal, AddCount, Adds, Count, Rewrites
    <3> QED
      BY <1>0, <1>3, <3>1
  <2>2. CASE AddIndex(p)
    <3>1. /\ jhr' = jhr /\ jdt' = jdt /\ jlr' = jlr
          /\ jdx' = [jdx EXCEPT ![fd[p].jdx] = Append(@, Len(Hdrs(p)) + 1)]
      BY <2>2 DEF AddIndex, Adds
    <3> QED
      BY <1>0, <2>2, <3>1
  <2>3. CASE AddText(p)
    <3>1. /\ jdx' = jdx /\ jlr' = jlr
          /\ \E x : jhr' = [jhr EXCEPT ![fd[p].jhr] = x]
          /\ jdt' = [jdt EXCEPT ![fd[p].jdt] = Append(@, cur[p])]
      BY <2>3 DEF AddText, Adds, Rewrites
    <3> QED
      BY <1>0, <1>3, <2>3, <3>1
  <2>4. CASE SetLastRead(p)
    <3>1. /\ jhr' = jhr /\ jdt' = jdt /\ jdx' = jdx /\ jlr' = [jlr EXCEPT ![fd[p].jlr] = num[p]]
      BY <2>4 DEF SetLastRead
    <3> QED
      BY <1>0, <2>4, <3>1
  <2> QED
    BY <1>3, <2>1, <2>2, <2>3, <2>4 DEF Writes
<1>4. CASE Pack(p)
  <2>1. Len(Hdrs(p)) <= MaxMsgs /\ StageOf(p)
    BY <1>4, PackFits
  <2> QED
    BY <1>4, <2>1, Packs
<1> QED
  BY <1>1, <1>2, <1>3, <1>4, StepKinds

\* New files stay apart: others open only what has the name.
LEMMA ApartStep ==
  ASSUME Types, Stage, Apart, Room, NEW p \in Procs, Step(p)
  PROVE  Apart'
<1>0. /\ fd \in [Procs -> [Files -> Inodes \cup {None}]] /\ tmp \in [Files -> Inodes \cup {None}]
      /\ dir \in [Files -> Inodes \cup {None}]
  BY DEF Types
<1>1. CASE Opens(p)
  <2>1. PICK f \in Files : OpenFile(p, f) /\ tmp' = tmp
    BY <1>1, OpensFile
  <2>2. fd'[p][f] # tmp[f] \/ tmp[f] = None
    BY <2>1, Opened, UsedIs DEF Apart
  <2>3. /\ dir'[f] = fd'[p][f]
        /\ \A g \in Files : g # f => fd'[p][g] = fd[p][g] /\ dir'[g] = dir[g]
        /\ \A q \in Procs : q # p => fd'[q] = fd[q]
    BY <2>1, Opened
  <2> QED
    BY <2>1, <2>2, <2>3 DEF Apart
<1>2. CASE Closes(p)
  <2>1. /\ dir' = dir /\ tmp' = tmp /\ \A f \in Files : fd'[p][f] = None
        /\ \A q \in Procs : q # p => fd'[q] = fd[q]
    BY <1>0, <1>2, ClosesFiles, OthersSame DEF Close
  <2> QED
    BY <2>1 DEF Apart
<1>3. CASE Shows(p) \/ Lock(p) \/ Writes(p)
  <2>1. UNCHANGED <<dir, tmp, fd>>
    BY <1>3, WritesKeep DEF Shows, Show, Lock
  <2> QED
    BY <2>1 DEF Apart
<1>4. CASE Pack(p)
  <2>1. /\ dir' = dir /\ fd' = fd
        /\ \A f \in Files : tmp'[f] # dir[f] /\ \A q \in Procs : fd[q][f] # tmp'[f]
    BY <1>4, PackFits, Packs DEF Pack
  <2> QED
    BY <2>1 DEF Apart
<1>5. CASE Swap(p)
  <2>1. PICK k \in 1..4 :
                LET f == Order[k] IN
                /\ num[p] \in {2 * k - 1, 2 * k}
                /\ num[p] = 2 * k - 1 => dir' = [dir EXCEPT ![f] = None] /\ tmp' = tmp
                /\ num[p] = 2 * k =>
                       /\ dir' = [dir EXCEPT ![f] = IF tmp[f] = None THEN @ ELSE tmp[f]]
                       /\ tmp' = [tmp EXCEPT ![f] = None]
    BY <1>5, Swaps DEF Stage
  <2>2. Order[k] \in Files
    BY OrderIsFile
  <2>3. \A f \in Files : /\ tmp'[f] # None => tmp'[f] = tmp[f]
                         /\ tmp'[f] # None => dir'[f] \in {None, dir[f]}
    <3>1. CASE num[p] = 2 * k - 1
      BY <1>0, <2>1, <2>2, <3>1
    <3>2. CASE num[p] = 2 * k
      BY <1>0, <2>1, <2>2, <3>2
    <3> QED
      BY <2>1, <3>1, <3>2
  <2>4. /\ \A f \in Files : fd'[p][f] = None
        /\ \A q \in Procs : q # p => fd'[q] = fd[q]
    BY <1>0, <1>5, OthersSame DEF Swap
  <2> QED
    BY <2>3, <2>4 DEF Apart
<1> QED
  BY <1>1, <1>2, <1>3, <1>4, <1>5, StepKinds

\* A file that comes into use was empty, and one that goes out of use will be.
LEMMA BlankStep ==
  ASSUME Types, Stage, Apart, Room, Blank, NEW p \in Procs, Step(p)
  PROVE  Blank'
<1>0. /\ jhr \in [Inodes -> HeaderFile] /\ jdt \in [Inodes -> Seq(1..MaxMsgs)]
      /\ jdx \in [Inodes -> Seq(Nat \ {0})] /\ jlr \in [Inodes -> Nat]
      /\ fd \in [Procs -> [Files -> Inodes \cup {None}]]
  BY DEF Types
<1>1. CASE Opens(p)
  <2>1. PICK f \in Files : /\ OpenFile(p, f) /\ ((pc[p] = "closed" /\ f = "jhr") \/ fd[p][f] = None)
                           /\ UNCHANGED <<tmp, files>>
    BY <1>1, OpensFile
  <2>2. fd[p][f] = None
    BY <2>1 DEF Stage, StageOf
  <2>3. \A g \in Files : \A i \in Inodes : i \in Used(g) => i \in Used(g)'
    <3>1. /\ dir[f] # None => dir'[f] = dir[f]
          /\ \A g \in Files : g # f => fd'[p][g] = fd[p][g] /\ dir'[g] = dir[g]
          /\ \A q \in Procs : q # p => fd'[q] = fd[q]
      BY <2>1, Opened
    <3>2. ASSUME NEW g \in Files, NEW i \in Inodes, i \in Used(g) PROVE i \in Used(g)'
      <4>1. i # None
        BY NoFile
      <4>2. CASE i = dir[g]
        BY <3>1, <4>1, <4>2, UsedIs
      <4>3. CASE i = tmp[g]
        BY <2>1, <4>3, UsedIs
      <4>4. CASE \E q \in Procs : i = fd[q][g]
        <5>1. PICK q \in Procs : i = fd[q][g]
          BY <4>4
        <5>2. fd'[q][g] = fd[q][g]
          BY <2>2, <3>1, <4>1, <5>1
        <5> QED
          BY <5>1, <5>2, UsedIs
      <4> QED
        BY <3>2, <4>2, <4>3, <4>4, UsedIs
    <3> QED
      BY <3>2
  <2>4. jhr' = jhr /\ jdt' = jdt /\ jdx' = jdx /\ jlr' = jlr
    BY <2>1 DEF files
  <2> QED
    BY <2>3, <2>4 DEF Blank, Files
<1>2. CASE Closes(p) \/ Swap(p)
  <2>1. Forget
    BY <1>2, ClosesFiles DEF Swap
  <2> QED
    BY <2>1, Forgotten DEF Blank
<1>3. CASE Shows(p) \/ Lock(p)
  <2>1. UNCHANGED <<dir, tmp, fd>> /\ jhr' = jhr /\ jdt' = jdt /\ jdx' = jdx /\ jlr' = jlr
    BY <1>3 DEF Shows, Show, Lock, files
  <2> QED
    BY <2>1 DEF Blank, Used
<1>4. CASE Writes(p)
  <2>1. UNCHANGED <<dir, tmp, fd>>
    BY <1>4, WritesKeep
  <2>2. \A f \in Files : Used(f)' = Used(f) /\ fd[p][f] \in Used(f)
    BY <2>1 DEF Used
  <2>3. /\ \A i \in Inodes : i # fd[p].jhr => jhr'[i] = jhr[i]
        /\ \A i \in Inodes : i # fd[p].jdt => jdt'[i] = jdt[i]
        /\ \A i \in Inodes : i # fd[p].jdx => jdx'[i] = jdx[i]
        /\ \A i \in Inodes : i # fd[p].jlr => jlr'[i] = jlr[i]
    <3>1. /\ jhr' = jhr \/ \E x : jhr' = [jhr EXCEPT ![fd[p].jhr] = x]
          /\ jdt' = jdt \/ \E x : jdt' = [jdt EXCEPT ![fd[p].jdt] = x]
          /\ jdx' = jdx \/ \E x : jdx' = [jdx EXCEPT ![fd[p].jdx] = x]
          /\ jlr' = jlr \/ \E x : jlr' = [jlr EXCEPT ![fd[p].jlr] = x]
      BY Zenon, <1>4 DEF Writes, Create, DeleteCount, Delete, AddIndex, AddHeader, AddText, AddFinal,
                  AddCount, SetLastRead, Adds, Count, Rewrites
    <3> QED
      BY <1>0, <3>1
  <2> QED
    BY <2>2, <2>3 DEF Blank, Files
<1>5. CASE Pack(p)
  <2>1. /\ dir' = dir /\ fd' = fd /\ \A f \in Files : tmp[f] # None => tmp'[f] = tmp[f]
        /\ \A i \in Inodes : i # tmp'.jhr => jhr'[i] = jhr[i]
        /\ \A i \in Inodes : i # tmp'.jdt => jdt'[i] = jdt[i]
        /\ \A i \in Inodes : i # tmp'.jdx => jdx'[i] = jdx[i]
        /\ \A i \in Inodes : i # tmp'.jlr /\ i # fd[p].jlr => jlr'[i] = jlr[i]
    BY <1>5, PackFits, Packs DEF Pack
  <2>2. \A f \in Files : \A i \in Inodes : i \in Used(f) => i \in Used(f)'
    BY <2>1, NoFile, UsedIs
  <2>3. \A f \in Files : tmp'[f] \in Used(f)' /\ fd[p][f] \in Used(f)'
    BY <2>1, UsedIs
  <2> QED
    BY <2>1, <2>2, <2>3 DEF Blank, Files
<1> QED
  BY <1>1, <1>2, <1>3, <1>4, <1>5, StepKinds

-----------------------------------------------------------------------------
(* The lock, and what its owner writes *)

\* The lock is got by waiting for it and kept until it is given back.
LEMMA LockSteps ==
  ASSUME Types, NEW p \in Procs, Step(p), pc'[p] \in LockPc
  PROVE  fd'[p] = fd[p] /\ (pc[p] \in LockPc \/ Lock(p))
<1>0. pc \in [Procs -> States]
  BY DEF Types
<1>1. CASE Opens(p)
  <2>1. \E v \in {"info", "files", "open"} : pc' = [pc EXCEPT ![p] = v]
    BY <1>1 DEF Opens, Start, Again, OpenNext, OpenHdr
  <2> QED
    BY <1>0, <2>1 DEF LockPc, Adding
<1>2. CASE Closes(p)
  <2>1. pc'[p] = "closed"
    BY <1>0, <1>2, ClosesFiles DEF Close
  <2> QED
    BY <2>1 DEF LockPc, Adding
<1>3. CASE Shows(p)
  BY <1>3 DEF Shows, Show
<1>4. CASE Lock(p)
  BY <1>4 DEF Lock
<1>5. CASE Writes(p)
  <2>1. fd' = fd
    BY <1>5, WritesKeep
  <2>2. CASE Create(p)
    <3>1. pc'[p] = "files"
      BY <1>0, <2>2 DEF Create, Goto
    <3> QED
      BY <3>1 DEF LockPc, Adding
  <2>3. CASE ~Create(p)
    <3>1. pc[p] \in LockPc
      BY Zenon, <1>5, <2>3 DEF Writes, AddIndex, AddHeader, AddText, AddFinal, AddCount, Adds,
                Delete, DeleteCount, SetLastRead, Goto, LockPc, Adding
    <3> QED
      BY <2>1, <3>1
  <2> QED
    BY <2>2, <2>3
<1>6. CASE Pack(p) \/ Swap(p)
  <2>1. pc'[p] \in {"swap", "closed"}
    BY <1>0, <1>6 DEF Pack, Swap, Goto
  <2> QED
    BY <2>1 DEF LockPc, Adding
<1> QED
  BY <1>1, <1>2, <1>3, <1>4, <1>5, <1>6, StepKinds

\* LockFree() and LockFails() see to it that a lock has one owner.
LEMMA LockingStep ==
  ASSUME Types, Locking, NEW p \in Procs, Step(p)
  PROVE  Locking'
<1>1. ASSUME NEW q \in Procs, q # p, pc'[q] \in LockPc, pc'[p] \in LockPc
      PROVE  fd'[p].jhr # fd'[q].jhr
  <2>1. fd'[p] = fd[p] /\ (pc[p] \in LockPc \/ LockFree(p))
    BY <1>1, LockSteps DEF Lock
  <2>2. fd'[q] = fd[q] /\ pc'[q] = pc[q]
    BY <1>1, OthersSame
  <2>3. fd[p].jhr # fd[q].jhr
    BY <1>1, <2>1, <2>2 DEF Locking, LockFree
  <2> QED
    BY <2>1, <2>2, <2>3
<1>2. ASSUME NEW q \in Procs, NEW r \in Procs, q # p, r # p, q # r,
             pc'[q] \in LockPc, pc'[r] \in LockPc
      PROVE  fd'[q].jhr # fd'[r].jhr
  <2>1. fd'[q] = fd[q] /\ pc'[q] = pc[q] /\ fd'[r] = fd[r] /\ pc'[r] = pc[r]
    BY <1>2, OthersSame
  <2> QED
    BY <1>2, <2>1 DEF Locking
<1> QED
  BY <1>1, <1>2 DEF Locking

\* What the writers write to the header file
LEMMA CreateWrites ==
  ASSUME Types, NEW p \in Procs, StageOf(p), Create(p)
  PROVE  /\ fd[p].jhr \in Inodes
         /\ jhr'[fd[p].jhr].hdrs = Hdrs(p) /\ jhr'[fd[p].jhr].active = 0
<1>1. fd[p].jhr \in Inodes
  <2>1. pc[p] = "info"
    BY DEF Create, Goto
  <2> QED
    BY <2>1 DEF StageOf, Types, Files
<1>2. jhr' = [jhr EXCEPT ![fd[p].jhr].info = TRUE, ![fd[p].jhr].active = 0]
  BY DEF Create
<1>3. jhr[fd[p].jhr] \in HeaderFile /\ jhr \in [Inodes -> HeaderFile]
  BY <1>1 DEF Types
<1> QED
  BY <1>1, <1>2, <1>3 DEF HeaderFile, Hdrs

\* The header of a new message at its three stages
NewHeader(p) == [msg |-> cur[p], num |-> num[p], txt |-> 0,
                 del |-> FALSE, done |-> FALSE, tail |-> FALSE]

\* What is written of it, and that nothing else is
LEMMA AddHeaderWrites ==
  ASSUME Types, NEW p \in Procs, StageOf(p), AddHeader(p)
  PROVE  /\ pc[p] = "header" /\ pc'[p] = "text" /\ pc[p] \in LockPc /\ NewHeader(p) \in Header
         /\ fd[p].jhr \in Inodes
         /\ jhr'[fd[p].jhr].hdrs = Append(Hdrs(p), NewHeader(p))
         /\ jhr'[fd[p].jhr].active = Active(p)
         /\ \A i \in Inodes : i # fd[p].jhr => jhr'[i] = jhr[i]
<1>1. /\ pc[p] = "header" /\ pc[p] \in LockPc /\ pc'[p] = "text"
      /\ pc[p] \in LockPc \cup {"open"}
  BY DEF AddHeader, Adds, Goto, LockPc, Adding, Types
<1>2. fd[p].jhr \in Inodes /\ jhr[fd[p].jhr] \in HeaderFile /\ jhr \in [Inodes -> HeaderFile]
  BY <1>1, HasFiles DEF Types
<1>3. jhr' = [jhr EXCEPT ![fd[p].jhr].hdrs = Append(Hdrs(p), NewHeader(p))]
  BY DEF AddHeader, Hdrs, NewHeader
<1>4. NewHeader(p) \in Header
  <2>1. cur[p] \in 1..MaxMsgs
    BY CurIsMessage DEF AddHeader, Adds
  <2>2. num[p] \in Nat \ {0}
    BY <1>1 DEF StageOf, Types
  <2> QED
    BY <2>1, <2>2 DEF Header, NewHeader
<1> QED
  BY <1>1, <1>2, <1>3, <1>4 DEF HeaderFile, Active

TextHeader(p) == [Last(Hdrs(p)) EXCEPT !.tail = TRUE, !.txt = Len(Texts(p)) + 1]
FinalHeader(p) == [Last(Hdrs(p)) EXCEPT !.tail = FALSE, !.done = TRUE]

LEMMA AddTextWrites ==
  ASSUME Types, NEW p \in Procs, StageOf(p), WritingOf(p), AddText(p)
  PROVE  /\ pc[p] = "text" /\ pc'[p] = "final" /\ pc[p] \in LockPc /\ Hdrs(p) # <<>>
         /\ TextHeader(p) \in Header /\ Last(Hdrs(p)) \in Header
         /\ jhr'[fd[p].jhr].hdrs = [Hdrs(p) EXCEPT ![Len(Hdrs(p))] = TextHeader(p)]
         /\ jhr'[fd[p].jhr].active = Active(p)
         /\ \A i \in Inodes : i # fd[p].jhr => jhr'[i] = jhr[i]
         /\ fd[p].jdt \in Inodes /\ Texts(p) \in Seq(1..MaxMsgs) /\ cur[p] \in 1..MaxMsgs
         /\ jdt'[fd[p].jdt] = Append(Texts(p), cur[p])
<1>1. /\ pc[p] = "text" /\ pc'[p] = "final" /\ pc[p] \in LockPc
      /\ pc[p] \in LockPc \cup {"open"} /\ Hdrs(p) # <<>>
  BY DEF AddText, Adds, Goto, LockPc, Adding, WritingOf, Types
<1>2. /\ Last(Hdrs(p)) \in Header /\ fd[p].jdt \in Inodes /\ Texts(p) \in Seq(1..MaxMsgs)
  BY <1>1, LastIsHeader, HasFiles
<1>3. TextHeader(p) \in Header
  <2>1. Len(Texts(p)) + 1 \in Nat
    BY <1>2
  <2> QED
    BY <1>2, <2>1 DEF Header, TextHeader
<1>4. Rewrites(p, TextHeader(p))
  BY DEF AddText, TextHeader
<1>5. /\ jhr'[fd[p].jhr].hdrs = [Hdrs(p) EXCEPT ![Len(Hdrs(p))] = TextHeader(p)]
      /\ jhr'[fd[p].jhr].active = Active(p)
      /\ \A i \in Inodes : i # fd[p].jhr => jhr'[i] = jhr[i]
  BY <1>1, <1>3, <1>4, RewriteTypes DEF Active
<1>6. jdt'[fd[p].jdt] = Append(Texts(p), cur[p]) /\ cur[p] \in 1..MaxMsgs
  BY <1>2, CurIsMessage DEF AddText, Adds, Texts, Types
<1> QED
  BY <1>1, <1>2, <1>3, <1>5, <1>6

LEMMA AddFinalWrites ==
  ASSUME Types, NEW p \in Procs, StageOf(p), WritingOf(p), AddFinal(p)
  PROVE  /\ pc[p] = "final" /\ pc'[p] = "count" /\ pc[p] \in LockPc /\ Hdrs(p) # <<>>
         /\ FinalHeader(p) \in Header /\ Last(Hdrs(p)) \in Header
         /\ jhr'[fd[p].jhr].hdrs = [Hdrs(p) EXCEPT ![Len(Hdrs(p))] = FinalHeader(p)]
         /\ jhr'[fd[p].jhr].active = Active(p)
         /\ \A i \in Inodes : i # fd[p].jhr => jhr'[i] = jhr[i]
<1>1. /\ pc[p] = "final" /\ pc'[p] = "count" /\ pc[p] \in LockPc
      /\ pc[p] \in LockPc \cup {"open"} /\ Hdrs(p) # <<>>
  BY DEF AddFinal, Adds, Goto, LockPc, Adding, WritingOf, Types
<1>2. Last(Hdrs(p)) \in Header
  BY <1>1, LastIsHeader
<1>3. FinalHeader(p) \in Header
  BY <1>2 DEF Header, FinalHeader
<1>4. Rewrites(p, FinalHeader(p))
  BY DEF AddFinal, FinalHeader
<1>5. /\ jhr'[fd[p].jhr].hdrs = [Hdrs(p) EXCEPT ![Len(Hdrs(p))] = FinalHeader(p)]
      /\ jhr'[fd[p].jhr].active = Active(p)
      /\ \A i \in Inodes : i # fd[p].jhr => jhr'[i] = jhr[i]
  BY <1>1, <1>3, <1>4, RewriteTypes DEF Active
<1> QED
  BY <1>1, <1>2, <1>3, <1>5

\* ... and what they leave of its length
LEMMA LengthKept ==
  ASSUME Types, Stage, Apart, Room, Writing, NEW p \in Procs, Step(p), NEW i \in Inodes,
         ~(AddHeader(p) /\ i = fd[p].jhr), ~(Pack(p) /\ i = tmp'.jhr)
  PROVE  i \in Used("jhr")' => Len(jhr'[i].hdrs) = Len(jhr[i].hdrs)
<1>1. CASE ~(Writes(p) /\ i = fd[p].jhr)
  BY <1>1, Contents
<1>2. CASE Writes(p) /\ i = fd[p].jhr
  <2>1. StageOf(p) /\ WritingOf(p)
    BY DEF Stage, Writing
  <2>0. jhr[i].hdrs = Hdrs(p)
    BY <1>2 DEF Hdrs
  <2>2. CASE Create(p)
    BY <1>2, <2>0, <2>1, <2>2, CreateWrites
  <2>3. CASE AddIndex(p) \/ SetLastRead(p)
    BY <1>2, <2>3 DEF AddIndex, SetLastRead
  <2>4. CASE AddText(p) \/ AddFinal(p)
    <3>1. \E h \in Header : jhr'[i].hdrs = [Hdrs(p) EXCEPT ![Len(Hdrs(p))] = h]
      BY <1>2, <2>1, <2>4, AddTextWrites, AddFinalWrites
    <3>2. Hdrs(p) \in Seq(Header)
      BY <2>0 DEF Types, HeaderFile
    <3> QED
      BY <2>0, <3>1, <3>2
  <2>5. CASE AddCount(p) \/ DeleteCount(p)
    <3>1. pc[p] \in LockPc \cup {"open"} /\ \E n \in {-1, 1} : Count(p, n)
      BY <2>5 DEF AddCount, DeleteCount, Adds, Goto, LockPc, Adding
    <3> QED
      BY <1>2, <2>0, <2>1, <3>1, CountTypes
  <2>6. CASE Delete(p)
    <3>1. PICK k \in DOMAIN Hdrs(p) :
              jhr'[i].hdrs = [Hdrs(p) EXCEPT ![k] = [Hdrs(p)[k] EXCEPT !.del = TRUE]]
      BY <1>2, <2>1, <2>6, DeleteTypes
    <3>2. pc[p] \in LockPc \cup {"open"}
      BY <2>6 DEF Delete, Goto, LockPc
    <3>3. Hdrs(p) \in Seq(Header)
      BY <2>1, <3>2, HasFiles
    <3> QED
      BY <2>0, <3>1, <3>3
  <2> QED
    BY <1>2, <2>2, <2>3, <2>4, <2>5, <2>6 DEF Writes
<1> QED
  BY <1>1, <1>2

-----------------------------------------------------------------------------
(* There is room for the messages *)

\* Only a program that begins a message comes to be pending.
LEMMA PendingSteps ==
  ASSUME Types, Stage, NEW p \in Procs, Step(p), ~Start(p, "add")
  PROVE  /\ Pending' \subseteq Pending
         /\ AddHeader(p) => p \in Pending /\ Pending' \subseteq Pending \ {p}
<1>0. pc \in [Procs -> States] /\ job \in [Procs -> Jobs]
  BY DEF Types
<1> DEFINE Places == {"info", "files", "open", "locked", "header"}
<1>1. ASSUME job'[p] = "add", pc'[p] \in Places
      PROVE  job[p] = "add" /\ pc[p] \in Places /\ ~AddHeader(p)
  <2>1. CASE \E j \in {"kill", "pack", "read"} : Start(p, j)
    <3>1. job'[p] \in {"kill", "pack", "read"}
      BY <1>0, <2>1 DEF Start
    <3> QED
      BY <1>1, <3>1
  <2>2. CASE Again(p)
    <3>1. job' = job /\ job[p] \in {"show", "done"}
      BY <2>2 DEF Again
    <3> QED
      BY <1>1, <3>1
  <2>3. CASE OpenNext(p) \/ Lock(p)
    <3>1. job' = job /\ pc[p] \in {"files", "open"}
      BY <2>3 DEF OpenNext, Lock, Goto
    <3> QED
      BY <1>0, <1>1, <2>3, <3>1 DEF AddHeader, Adds, Goto
  <2>4. CASE Closes(p) \/ Pack(p) \/ Swap(p)
    <3>1. pc'[p] \in {"closed", "swap"}
      BY <1>0, <2>4, ClosesFiles DEF Close, Pack, Swap, Goto
    <3> QED
      BY <1>1, <3>1
  <2>5. CASE Shows(p)
    <3>1. job'[p] = "set"
      BY <1>0, <2>5 DEF Shows, Show
    <3> QED
      BY <1>1, <3>1
  <2>6. CASE Writes(p)
    <3>1. job' = job
      BY <2>6, WritesKeep
    <3>2. CASE Create(p) \/ AddIndex(p)
      <4>1. pc[p] \in {"info", "locked"}
        BY <3>2 DEF Create, AddIndex, Adds, Goto
      <4> QED
        BY <1>1, <3>1, <4>1 DEF AddHeader, Adds, Goto
    <3>3. CASE \/ AddHeader(p) \/ AddText(p) \/ AddFinal(p) \/ AddCount(p)
               \/ Delete(p) \/ SetLastRead(p)
      <4>1. pc'[p] \in {"text", "final", "count", "unlock", "deleted"}
        BY Zenon, <1>0, <3>3 DEF AddHeader, AddText, AddFinal, AddCount, Adds, Delete, SetLastRead, Goto
      <4> QED
        BY <1>1, <4>1
    <3>4. CASE DeleteCount(p)
      <4>1. pc[p] = "deleted"
        BY <3>4 DEF DeleteCount, Goto
      <4>2. job[p] = "kill"
        BY <4>1 DEF Stage, StageOf
      <4> QED
        BY <1>1, <3>1, <4>2
    <3> QED
      BY <2>6, <3>2, <3>3, <3>4 DEF Writes
  <2>7. Opens(p) => (\E j \in {"kill", "pack", "read"} : Start(p, j)) \/ Again(p) \/ OpenNext(p)
    BY DEF Opens
  <2> QED
    BY <2>1, <2>2, <2>3, <2>4, <2>5, <2>6, <2>7, StepKinds
<1>2. \A q \in Procs : q # p => pc'[q] = pc[q] /\ job'[q] = job[q]
  BY OthersSame
<1>3. Pending' \subseteq Pending
  BY <1>1, <1>2 DEF Pending
<1>4. AddHeader(p) => p \in Pending /\ p \notin Pending'
  BY <1>1 DEF AddHeader, Adds, Goto, Pending
<1> QED
  BY <1>3, <1>4

\* There is room: a message counts as pending until its header is written.
LEMMA RoomStep ==
  ASSUME Types, Types', Stage, Apart, Room, Writing, Blank', NEW p \in Procs, Step(p)
  PROVE  Room'
<1>1. IsFiniteSet(Pending) /\ Cardinality(Pending) \in Nat
  <2>1. Pending \in SUBSET Procs
    BY DEF Pending
  <2> QED
    BY <2>1, Bounds, FS_Subset, FS_CardinalityType
<1>2. IsFiniteSet(Pending') /\ Cardinality(Pending') \in Nat
  <2>1. Pending' \in SUBSET Procs
    BY DEF Pending
  <2> QED
    BY <2>1, Bounds, FS_Subset, FS_CardinalityType
<1>3. \A i \in Inodes : Len(jhr[i].hdrs) \in Nat
  BY RoomBounds
<1>4. \A i \in Inodes : i \notin Used("jhr")' => Len(jhr'[i].hdrs) = 0
  <2>1. Len(NoHeaders.hdrs) = 0
    BY DEF NoHeaders
  <2> QED
    BY <2>1 DEF Blank
<1>5. msgs \in Nat /\ msgs' \in Nat /\ msgs <= msgs'
  BY CountersGrow DEF Types
<1> SUFFICES ASSUME NEW i \in Inodes PROVE Len(jhr'[i].hdrs) + Cardinality(Pending') <= msgs'
  BY DEF Room
<1>6. \A j \in Inodes : Len(jhr[j].hdrs) + Cardinality(Pending) <= msgs
  BY DEF Room
<1>7. Cardinality(Pending') = Cardinality(Pending) \/ Cardinality(Pending') # Cardinality(Pending)
  OBVIOUS
<1>8. CASE Start(p, "add")
  <2>1. jhr' = jhr /\ msgs' = msgs + 1
    BY <1>8 DEF Start, OpenHdr, files
  <2>2. Pending' \in SUBSET (Pending \cup {p})
    BY OthersSame DEF Pending
  <2>3. /\ IsFiniteSet(Pending \cup {p})
        /\ Cardinality(Pending \cup {p}) =
              (IF p \in Pending THEN Cardinality(Pending) ELSE Cardinality(Pending) + 1)
    BY <1>1, FS_AddElement
  <2>4. Cardinality(Pending') <= Cardinality(Pending \cup {p})
    BY <2>2, <2>3, FS_Subset
  <2> QED
    BY <1>1, <1>2, <1>3, <1>5, <1>6, <2>1, <2>3, <2>4
<1>9. CASE ~Start(p, "add")
  <2>1. Cardinality(Pending') <= Cardinality(Pending)
    <3>1. Pending' \in SUBSET Pending
      BY <1>9, PendingSteps
    <3> QED
      BY <1>1, <3>1, FS_Subset
  <2>2. CASE i \notin Used("jhr")'
    <3>1. Len(jhr'[i].hdrs) = 0
      BY <1>4, <2>2
    <3>2. Len(jhr[i].hdrs) \in Nat /\ Len(jhr[i].hdrs) + Cardinality(Pending) <= msgs
      BY <1>3, <1>6
    <3> QED
      BY <1>1, <1>2, <1>5, <2>1, <3>1, <3>2
  <2>3. CASE i \in Used("jhr")' /\ ~(AddHeader(p) /\ i = fd[p].jhr) /\ ~(Pack(p) /\ i = tmp'.jhr)
    <3>1. Len(jhr'[i].hdrs) = Len(jhr[i].hdrs)
      BY <2>3, LengthKept
    <3>2. Len(jhr[i].hdrs) \in Nat /\ Len(jhr[i].hdrs) + Cardinality(Pending) <= msgs
      BY <1>3, <1>6
    <3> QED
      BY <1>1, <1>2, <1>5, <2>1, <3>1, <3>2
  <2>4. CASE AddHeader(p) /\ i = fd[p].jhr
    <3>1. StageOf(p)
      BY DEF Stage
    <3>2. jhr'[i].hdrs = Append(Hdrs(p), NewHeader(p)) /\ NewHeader(p) \in Header
      BY <2>4, <3>1, AddHeaderWrites
    <3>3. Hdrs(p) \in Seq(Header) /\ Hdrs(p) = jhr[i].hdrs
      BY <2>4 DEF Hdrs, Types, HeaderFile
    <3>4. Len(jhr'[i].hdrs) = Len(jhr[i].hdrs) + 1
      BY <3>2, <3>3, AppendProperties
    <3>5. Cardinality(Pending') <= Cardinality(Pending) - 1
      <4>1. p \in Pending /\ Pending' \in SUBSET (Pending \ {p})
        BY <1>9, <2>4, PendingSteps
      <4>2. /\ IsFiniteSet(Pending \ {p})
            /\ Cardinality(Pending \ {p}) =
                  (IF p \in Pending THEN Cardinality(Pending) - 1 ELSE Cardinality(Pending))
        BY <1>1, FS_RemoveElement
      <4>3. Cardinality(Pending') <= Cardinality(Pending \ {p})
        BY <4>1, <4>2, FS_Subset
      <4> QED
        BY <1>1, <1>2, <4>1, <4>2, <4>3
    <3>6. Len(jhr[i].hdrs) \in Nat /\ Len(jhr[i].hdrs) + Cardinality(Pending) <= msgs
      BY <1>3, <1>6
    <3> QED
      BY <1>1, <1>2, <1>5, <3>4, <3>5, <3>6
  <2>5. CASE Pack(p) /\ i = tmp'.jhr
    <3>1. /\ StageOf(p) /\ Len(Hdrs(p)) <= MaxMsgs /\ pc[p] \in LockPc \cup {"open"}
      BY <2>5, PackFits DEF Pack, Goto, LockPc
    <3>2. jhr'[i].hdrs = PackedHdrs(p)
      <4>1. jhr'[tmp'.jhr] = [info |-> TRUE, active |-> PackedCount(p), hdrs |-> PackedHdrs(p)]
        BY <2>5, <3>1, Packs
      <4> QED
        BY <2>5, <4>1
    <3>3. Len(PackedHdrs(p)) = Cardinality(Copied(p)) /\ Cardinality(Copied(p)) <= Len(Hdrs(p))
      BY <3>1, PackedIs, ReadRange
    <3>4. fd[p].jhr \in Inodes /\ Cardinality(Copied(p)) \in Nat
      BY <3>1, HasFiles, ReadRange
    <3>5. Len(Hdrs(p)) \in Nat /\ Len(Hdrs(p)) + Cardinality(Pending) <= msgs
      BY <1>3, <1>6, <3>4 DEF Hdrs
    <3> QED
      BY <1>1, <1>2, <1>5, <2>1, <3>2, <3>3, <3>4, <3>5
  <2> QED
    BY <2>2, <2>3, <2>4, <2>5
<1> QED
  BY <1>8, <1>9

-----------------------------------------------------------------------------
(* What a writer has written *)

\* Every element of s is in its place in t.
Grows(s, t) == \A k \in DOMAIN s : k \in DOMAIN t /\ t[k] = s[k]

LEMMA AppendGrows ==
  ASSUME NEW S, NEW s \in Seq(S), NEW e \in S
  PROVE  /\ Grows(s, Append(s, e)) /\ Append(s, e) \in Seq(S)
         /\ Len(s) + 1 \in DOMAIN Append(s, e) /\ Append(s, e)[Len(s) + 1] = e
         /\ Len(Append(s, e)) = Len(s) + 1 /\ DOMAIN s = 1..Len(s) /\ Len(s) \in Nat
BY AppendProperties DEF Grows

\* Nobody else changes what a program that has the lock has written.
LEMMA OthersWriting ==
  ASSUME Types, Stage, Apart, Apart', Room, Locking, Writing, NEW p \in Procs, Step(p),
         NEW q \in Procs, q # p, pc[q] \in LockPc
  PROVE  /\ jhr'[fd[q].jhr].hdrs = Hdrs(q)
         /\ Grows(Index(q), jdx'[fd[q].jdx])
         /\ Grows(Texts(q), jdt'[fd[q].jdt])
         /\ pc'[q] = pc[q] /\ fd'[q] = fd[q] /\ cur'[q] = cur[q]
<1>1. pc'[q] = pc[q] /\ fd'[q] = fd[q] /\ cur'[q] = cur[q]
  BY OthersSame
<1>2. /\ fd[q].jhr \in Inodes /\ fd[q].jdt \in Inodes /\ fd[q].jdx \in Inodes
      /\ Index(q) \in Seq(Nat \ {0}) /\ Texts(q) \in Seq(1..MaxMsgs)
  BY HasFiles DEF Stage
<1>3. /\ fd[q].jhr \in Used("jhr")' /\ fd[q].jdt \in Used("jdt")' /\ fd[q].jdx \in Used("jdx")'
  BY <1>1, UsedIs
<1>4. fd[q].jhr # tmp'.jhr /\ fd[q].jdt # tmp'.jdt /\ fd[q].jdx # tmp'.jdx
  <2>1. "jhr" \in Files /\ "jdt" \in Files /\ "jdx" \in Files
    BY DEF Files
  <2> QED
    BY <1>1, <1>2, <2>1, NoFile DEF Apart
<1>5. jhr'[fd[q].jhr].hdrs = Hdrs(q)
  <2>1. CASE Writes(p) /\ fd[q].jhr = fd[p].jhr
    <3>1. pc[p] \notin LockPc
      BY <2>1 DEF Locking
    <3>2. Create(p)
      BY Zenon, <2>1, <3>1 DEF Writes, AddIndex, AddHeader, AddText, AddFinal, AddCount, Adds,
                Delete, DeleteCount, SetLastRead, Goto, LockPc, Adding
    <3>3. jhr'[fd[p].jhr].hdrs = Hdrs(p)
      BY <3>2, CreateWrites DEF Stage
    <3> QED
      BY <2>1, <3>3 DEF Hdrs
  <2>2. CASE ~(Writes(p) /\ fd[q].jhr = fd[p].jhr)
    <3>1. jhr'[fd[q].jhr] = jhr[fd[q].jhr]
      BY <1>2, <1>3, <1>4, <2>2, Contents
    <3> QED
      BY <3>1 DEF Hdrs
  <2> QED
    BY <2>1, <2>2
<1>6. Grows(Index(q), jdx'[fd[q].jdx])
  <2>1. \/ jdx'[fd[q].jdx] = Index(q)
        \/ AddIndex(p) /\ jdx'[fd[q].jdx] = Append(Index(q), Len(Hdrs(p)) + 1)
    BY <1>2, <1>3, <1>4, Contents DEF Index
  <2>2. AddIndex(p) => Len(Hdrs(p)) + 1 \in Nat \ {0}
    <3>1. AddIndex(p) => pc[p] \in LockPc \cup {"open"}
      BY DEF AddIndex, Adds, Goto, LockPc
    <3>2. AddIndex(p) => Hdrs(p) \in Seq(Header)
      BY <3>1, HasFiles DEF Stage
    <3> QED
      BY <3>2
  <2>3. jdx'[fd[q].jdx] = Index(q) => Grows(Index(q), jdx'[fd[q].jdx])
    BY DEF Grows
  <2>4. ASSUME AddIndex(p) PROVE Grows(Index(q), Append(Index(q), Len(Hdrs(p)) + 1))
    <3> DEFINE e == Len(Hdrs(p)) + 1
    <3>1. e \in Nat \ {0} /\ Index(q) \in Seq(Nat \ {0})
      BY <1>2, <2>2, <2>4
    <3> HIDE DEF e
    <3>2. Grows(Index(q), Append(Index(q), e))
      BY <3>1, AppendGrows
    <3> QED
      BY <3>2 DEF e
  <2> QED
    BY <2>1, <2>3, <2>4
<1>7. Grows(Texts(q), jdt'[fd[q].jdt])
  <2>1. \/ jdt'[fd[q].jdt] = Texts(q)
        \/ AddText(p) /\ jdt'[fd[q].jdt] = Append(Texts(q), cur[p])
    BY <1>2, <1>3, <1>4, Contents DEF Texts
  <2>2. AddText(p) => cur[p] \in 1..MaxMsgs
    BY CurIsMessage DEF AddText, Adds, Stage
  <2>3. jdt'[fd[q].jdt] = Texts(q) => Grows(Texts(q), jdt'[fd[q].jdt])
    BY DEF Grows
  <2>4. ASSUME AddText(p) PROVE Grows(Texts(q), Append(Texts(q), cur[p]))
    <3> DEFINE e == cur[p]
               S == 1..MaxMsgs
    <3>1. e \in S /\ Texts(q) \in Seq(S)
      BY <1>2, <2>2, <2>4
    <3> HIDE DEF e, S
    <3>2. Grows(Texts(q), Append(Texts(q), e))
      BY <3>1, AppendGrows
    <3> QED
      BY <3>2 DEF e
  <2> QED
    BY <2>1, <2>3, <2>4
<1> QED
  BY <1>1, <1>5, <1>6, <1>7

\* What a writer has written is what it has written so far, and stays.
LEMMA WritingStep ==
  ASSUME Types, Stage, Apart, Apart', Room, Locking, Writing, NEW p \in Procs, Step(p)
  PROVE  Writing'
<1>0. pc \in [Procs -> States]
  BY DEF Types
<1> DEFINE Places == {"header", "text", "final", "count", "deleted"}
<1>1. ASSUME NEW q \in Procs, q # p PROVE WritingOf(q)'
  <2>1. CASE pc[q] \in Places
    <3>0. pc[q] \in LockPc
      BY <2>1 DEF LockPc, Adding
    <3>1. /\ Hdrs(q)' = Hdrs(q) /\ pc'[q] = pc[q] /\ cur'[q] = cur[q]
          /\ Grows(Index(q), Index(q)') /\ Grows(Texts(q), Texts(q)')
      BY <1>1, <3>0, OthersWriting DEF Hdrs, Index, Texts
    <3>2. WritingOf(q)
      BY DEF Writing
    <3> QED
      BY <3>1, <3>2 DEF WritingOf, Grows
  <2>2. CASE pc[q] \notin Places
    <3>1. pc'[q] = pc[q]
      BY <1>1, OthersSame
    <3> QED
      BY <2>2, <3>1 DEF WritingOf
  <2> QED
    BY <2>1, <2>2
<1>2. WritingOf(p)'
  <2>0. StageOf(p) /\ WritingOf(p)
    BY DEF Stage, Writing
  <2>1. CASE AddIndex(p)
    <3>1. /\ pc'[p] = "header" /\ pc[p] \in LockPc \cup {"open"} /\ jhr' = jhr /\ fd' = fd
          /\ jdx' = [jdx EXCEPT ![fd[p].jdx] = Append(Index(p), Len(Hdrs(p)) + 1)]
      BY <1>0, <2>1 DEF AddIndex, Adds, Goto, LockPc, Index
    <3>2. fd[p].jdx \in Inodes /\ Index(p) \in Seq(Nat \ {0}) /\ Hdrs(p) \in Seq(Header)
      BY <2>0, <3>1, HasFiles
    <3>3. Index(p)' = Append(Index(p), Len(Hdrs(p)) + 1) /\ Hdrs(p)' = Hdrs(p)
      BY <3>1, <3>2 DEF Types, Index, Hdrs
    <3>4. Len(Hdrs(p)) + 1 \in Nat \ {0}
      BY <3>2
    <3>5. \E k \in DOMAIN Index(p)' : Index(p)'[k] = Len(Hdrs(p)) + 1
      BY <3>2, <3>3, <3>4, AppendGrows
    <3> QED
      BY <3>1, <3>3, <3>5 DEF WritingOf
  <2>2. CASE AddHeader(p)
    <3>1. /\ pc[p] = "header" /\ pc'[p] = "text" /\ NewHeader(p) \in Header
          /\ jhr'[fd[p].jhr].hdrs = Append(Hdrs(p), NewHeader(p))
          /\ fd[p].jhr \in Inodes
      BY <2>0, <2>2, AddHeaderWrites
    <3>2. fd' = fd /\ jdx' = jdx /\ cur' = cur
      BY <2>2 DEF AddHeader, Adds
    <3>3. Hdrs(p) \in Seq(Header)
      BY <3>1 DEF Types, HeaderFile, Hdrs
    <3>4. /\ Hdrs(p)' = Append(Hdrs(p), NewHeader(p)) /\ Index(p)' = Index(p)
      BY <3>1, <3>2 DEF Hdrs, Index
    <3>5. Len(Hdrs(p)') = Len(Hdrs(p)) + 1 /\ Hdrs(p)' # <<>> /\ Last(Hdrs(p)') = NewHeader(p)
      BY <3>1, <3>3, <3>4, AppendProperties DEF Last
    <3>6. \E k \in DOMAIN Index(p) : Index(p)[k] = Len(Hdrs(p)) + 1
      BY <2>0, <3>1 DEF WritingOf
    <3>7. NewHeader(p).msg = cur[p] /\ ~NewHeader(p).del
      BY DEF NewHeader
    <3> QED
      BY <3>1, <3>2, <3>4, <3>5, <3>6, <3>7 DEF WritingOf
  <2>3. CASE AddText(p)
    <3>1. /\ pc[p] = "text" /\ pc'[p] = "final" /\ TextHeader(p) \in Header /\ Hdrs(p) # <<>>
          /\ jhr'[fd[p].jhr].hdrs = [Hdrs(p) EXCEPT ![Len(Hdrs(p))] = TextHeader(p)]
          /\ pc[p] \in LockPc /\ Last(Hdrs(p)) \in Header
          /\ Texts(p) \in Seq(1..MaxMsgs) /\ cur[p] \in 1..MaxMsgs
          /\ jdt'[fd[p].jdt] = Append(Texts(p), cur[p])
      BY <2>0, <2>3, AddTextWrites
    <3>2. fd' = fd /\ jdx' = jdx /\ cur' = cur
      BY <2>3 DEF AddText, Adds
    <3>3. Hdrs(p) \in Seq(Header) /\ Len(Hdrs(p)) \in DOMAIN Hdrs(p)
      BY <2>0, <3>1, LastIsHeader, HasFiles
    <3>4. /\ Hdrs(p)' = [Hdrs(p) EXCEPT ![Len(Hdrs(p))] = TextHeader(p)] /\ Index(p)' = Index(p)
          /\ Texts(p)' = Append(Texts(p), cur[p])
      BY <3>1, <3>2 DEF Hdrs, Index, Texts
    <3>5. /\ Len(Hdrs(p)') = Len(Hdrs(p)) /\ Hdrs(p)' # <<>> /\ Last(Hdrs(p)') = TextHeader(p)
      BY <3>3, <3>4 DEF Last
    <3>6. Len(Texts(p)) + 1 \in DOMAIN Texts(p)' /\ Texts(p)'[Len(Texts(p)) + 1] = cur[p]
      BY <3>1, <3>4, AppendGrows
    <3>7. /\ TextHeader(p).msg = Last(Hdrs(p)).msg /\ TextHeader(p).del = Last(Hdrs(p)).del
          /\ TextHeader(p).txt = Len(Texts(p)) + 1
      BY <3>1 DEF TextHeader, Header
    <3> QED
      BY <2>0, <3>1, <3>2, <3>4, <3>5, <3>6, <3>7 DEF WritingOf
  <2>4. CASE AddFinal(p)
    <3>1. /\ pc[p] = "final" /\ pc'[p] = "count" /\ FinalHeader(p) \in Header /\ Hdrs(p) # <<>>
          /\ jhr'[fd[p].jhr].hdrs = [Hdrs(p) EXCEPT ![Len(Hdrs(p))] = FinalHeader(p)]
          /\ pc[p] \in LockPc /\ Last(Hdrs(p)) \in Header
      BY <2>0, <2>4, AddFinalWrites
    <3>2. fd' = fd /\ jdx' = jdx /\ cur' = cur /\ jdt' = jdt
      BY <2>4 DEF AddFinal, Adds
    <3>3. Hdrs(p) \in Seq(Header) /\ Len(Hdrs(p)) \in DOMAIN Hdrs(p)
      BY <2>0, <3>1, LastIsHeader, HasFiles
    <3>4. /\ Hdrs(p)' = [Hdrs(p) EXCEPT ![Len(Hdrs(p))] = FinalHeader(p)] /\ Index(p)' = Index(p)
          /\ Texts(p)' = Texts(p)
      BY <3>1, <3>2 DEF Hdrs, Index, Texts
    <3>5. /\ Len(Hdrs(p)') = Len(Hdrs(p)) /\ Hdrs(p)' # <<>> /\ Last(Hdrs(p)') = FinalHeader(p)
      BY <3>3, <3>4 DEF Last
    <3>7. /\ FinalHeader(p).msg = Last(Hdrs(p)).msg /\ FinalHeader(p).del = Last(Hdrs(p)).del
          /\ FinalHeader(p).txt = Last(Hdrs(p)).txt /\ FinalHeader(p).done
      BY <3>1 DEF FinalHeader, Header
    <3> QED
      BY <2>0, <3>1, <3>2, <3>4, <3>5, <3>7 DEF WritingOf
  <2>5. CASE Delete(p)
    <3>1. pc'[p] = "deleted" /\ pc[p] \in LockPc \cup {"open"} /\ fd' = fd
      BY <1>0, <2>5 DEF Delete, Goto, LockPc
    <3>2. Hdrs(p) \in Seq(Header)
      BY <2>0, <3>1, HasFiles
    <3>3. PICK k \in DOMAIN Hdrs(p) :
              jhr'[fd[p].jhr].hdrs = [Hdrs(p) EXCEPT ![k] = [Hdrs(p)[k] EXCEPT !.del = TRUE]]
      BY <2>0, <2>5, DeleteTypes
    <3>4. k \in DOMAIN jhr'[fd[p].jhr].hdrs
      BY <3>3
    <3>5. Hdrs(p)' # <<>>
      BY <3>1, <3>4 DEF Hdrs
    <3> QED
      BY <3>1, <3>5 DEF WritingOf
  <2>6. CASE ~AddIndex(p) /\ ~AddHeader(p) /\ ~AddText(p) /\ ~AddFinal(p) /\ ~Delete(p)
    <3>1. pc'[p] \notin Places
      <4>1. CASE Opens(p)
        <5>1. pc'[p] \in {"info", "files", "open"}
          BY <1>0, <4>1 DEF Opens, Start, Again, OpenNext, OpenHdr
        <5> QED
          BY <5>1
      <4>2. CASE Closes(p) \/ Pack(p) \/ Swap(p)
        <5>1. pc'[p] \in {"closed", "swap"}
          BY <1>0, <4>2, ClosesFiles DEF Close, Pack, Swap, Goto
        <5> QED
          BY <5>1
      <4>3. CASE Shows(p) \/ Lock(p)
        <5>1. pc'[p] \in {"open", "locked"}
          BY <1>0, <4>3 DEF Shows, Show, Lock, Goto
        <5> QED
          BY <5>1
      <4>4. CASE Writes(p)
        <5>1. pc'[p] \in {"files", "unlock", "locked"}
          BY <1>0, <2>6, <4>4 DEF Writes, Create, AddCount, Adds, DeleteCount, SetLastRead, Goto
        <5> QED
          BY <5>1
      <4> QED
        BY <4>1, <4>2, <4>3, <4>4, StepKinds
    <3> QED
      BY <3>1 DEF WritingOf
  <2> QED
    BY <2>1, <2>2, <2>3, <2>4, <2>5, <2>6
<1> QED
  BY <1>1, <1>2 DEF Writing

-----------------------------------------------------------------------------
(* The first half of the invariant *)

\* One step leaves the types in place, ...
LEMMA TypesStep ==
  ASSUME Types, Stage, Apart, Room, Writing, NEW p \in Procs, Step(p)
  PROVE  Types'
<1>1. StageOf(p) /\ WritingOf(p)
  BY DEF Stage, Writing
<1>2. CASE Opens(p)
  BY <1>2, StartTypes, AgainTypes, OpenNextTypes DEF Opens
<1>3. CASE LockFails(p) \/ UnLock(p)
  <2>1. Done(p) /\ seen' \subseteq 1..MaxMsgs
    BY <1>3 DEF LockFails, UnLock, Types
  <2> QED
    BY <2>1, DoneTypes
<1>4. CASE Show(p)
  BY <1>1, <1>4, ShowTypes
<1>5. CASE Create(p)
  <2>1. fd[p].jhr # None
    BY <1>1, <1>5 DEF StageOf, Create, Goto
  <2> QED
    BY <1>5, <2>1, CreateTypes
<1>6. CASE Writes(p) /\ ~Create(p)
  BY <1>1, <1>6, AddIndexTypes, AddHeaderTypes, AddTextTypes, AddFinalTypes, AddCountTypes,
     DeleteTypes, DeleteCountTypes, SetLastReadTypes DEF Writes
<1>7. CASE Pack(p)
  BY <1>7, PackFits, PackTypes
<1>8. CASE Swap(p)
  BY <1>1, <1>8, SwapTypes
<1>9. CASE FindNext(p)
  BY <1>1, <1>9, FindNextTypes
<1>10. CASE Crash(p)
  BY <1>10, CrashTypes
<1>11. CASE Lock(p)
  BY <1>11, LockTypes
<1> QED
  BY <1>2, <1>3, <1>4, <1>5, <1>6, <1>7, <1>8, <1>9, <1>10, <1>11, StepKinds
     DEF Closes, Shows

\* All that holds whatever happens
Base == Types /\ Stage /\ Apart /\ Blank /\ Locking /\ Room /\ Writing

\* ... and all of Base.
LEMMA BaseStep ==
  ASSUME Base, NEW p \in Procs, Step(p)
  PROVE  Base'
<1>0. Types /\ Stage /\ Apart /\ Blank /\ Locking /\ Room /\ Writing
  BY DEF Base
<1>1. Types'
  BY <1>0, TypesStep
<1>2. Stage'
  BY <1>0, <1>1, StageStep
<1>3. Apart' /\ Blank'
  BY <1>0, ApartStep, BlankStep
<1>4. Locking' /\ Room' /\ Writing'
  BY <1>0, <1>1, <1>3, LockingStep, RoomStep, WritingStep
<1> QED
  BY <1>1, <1>2, <1>3, <1>4 DEF Base

\* The files at the beginning
LEMMA At1Is ==
  ASSUME NEW S, NEW content \in S, NEW empty \in S
  PROVE  At1(content, empty) \in [Inodes -> S]
BY DEF At1

LEMMA FirstInode == 1 \in Inodes
<1>1. Cardinality(Procs) \in Nat
  BY Bounds, FS_CardinalityType
<1> QED
  BY <1>1 DEF Inodes

LEMMA InitialIs ==
  ASSUME Init
  PROVE  /\ left.old \in Nat /\ left.old + left.add <= MaxMsgs /\ left.add \in Nat
         /\ [m \in 1..left.old |-> m] \in Seq(1..MaxMsgs)
         /\ [m \in 1..left.old |-> m] \in Seq(Nat \ {0})
         /\ [m \in 1..left.old |-> Written(m)] \in Seq(Header)
         /\ Initial(left.old) \in HeaderFile /\ NoHeaders \in HeaderFile
         /\ Len(Initial(left.old).hdrs) = left.old /\ Len(NoHeaders.hdrs) = 0
         /\ left.old < Wrap
<1>1. /\ left \in [PlanFields -> Nat] /\ left.old + left.add <= MaxMsgs
      /\ MaxMsgs + left.delete < Wrap
  BY JamBaseAssumption DEF Init, PlanFields
<1>2. left.old \in Nat /\ left.add \in Nat /\ left.delete \in Nat
  BY <1>1 DEF PlanFields
<1>3. MaxMsgs \in Nat /\ Wrap \in Nat
  BY Bounds
<1>4. \A m \in 1..left.old : m \in 1..MaxMsgs /\ m \in Nat \ {0} /\ m \in Nat
  BY <1>1, <1>2, <1>3
<1>5. \A m \in 1..left.old : Written(m) \in Header
  BY <1>4 DEF Written, Header
<1>6. [m \in 1..left.old |-> Written(m)] \in [1..left.old -> Header]
  BY <1>5
<1>7. [m \in 1..left.old |-> m] \in [1..left.old -> 1..MaxMsgs]
  BY <1>4
<1>8. [m \in 1..left.old |-> m] \in [1..left.old -> Nat \ {0}]
  BY <1>4
<1>9. left.old \in 0..(Wrap - 1) /\ 0 \in 0..(Wrap - 1)
  BY <1>1, <1>2, <1>3
<1>10. <<>> \in Seq(Header) /\ Len(<<>>) = 0
  OBVIOUS
<1> DEFINE hdrs == [m \in 1..left.old |-> Written(m)]
<1>11. hdrs \in Seq(Header) /\ Len(hdrs) = left.old
  BY <1>2, <1>6, IsSeq
<1>12. Initial(left.old) \in HeaderFile /\ Initial(left.old).hdrs = hdrs
  BY <1>9, <1>11 DEF Initial, HeaderFile
<1>13. NoHeaders \in HeaderFile /\ NoHeaders.hdrs = <<>>
  BY <1>9, <1>10 DEF NoHeaders, HeaderFile
<1>14. [m \in 1..left.old |-> m] \in Seq(1..MaxMsgs) /\ [m \in 1..left.old |-> m] \in Seq(Nat \ {0})
  BY <1>2, <1>7, <1>8, IsSeq
<1>15. Len(Initial(left.old).hdrs) = left.old /\ Len(NoHeaders.hdrs) = 0
  BY <1>10, <1>11, <1>12, <1>13
<1>16. left.old < Wrap
  BY <1>1, <1>2, <1>3
<1> QED
  BY <1>1, <1>2, <1>11, <1>12, <1>13, <1>14, <1>15, <1>16

\* Base holds at the beginning.
LEMMA BaseInit ==
  ASSUME Init
  PROVE  Base
<1>0. /\ left.old \in Nat /\ left.old + left.add <= MaxMsgs /\ left.add \in Nat
      /\ [m \in 1..left.old |-> m] \in Seq(1..MaxMsgs)
      /\ [m \in 1..left.old |-> m] \in Seq(Nat \ {0})
      /\ Initial(left.old) \in HeaderFile /\ NoHeaders \in HeaderFile
      /\ Len(Initial(left.old).hdrs) = left.old /\ Len(NoHeaders.hdrs) = 0
      /\ left.old < Wrap
  BY InitialIs
<1>1. 1 \in Inodes
  BY FirstInode
<1>2. MaxMsgs \in Nat /\ Wrap \in Nat /\ 0 \in 0..(Wrap - 1) /\ MaxMsgs < Wrap
  <2>1. left \in [PlanFields -> Nat] /\ MaxMsgs + left.delete < Wrap
    BY JamBaseAssumption DEF Init, PlanFields
  <2>2. left.delete \in Nat /\ MaxMsgs \in Nat /\ Wrap \in Nat
    BY <2>1, Bounds DEF PlanFields
  <2> QED
    BY <2>1, <2>2
<1>3. PICK last \in 0..left.old : jlr = At1(last, 0) /\ seen = 1..last
  BY DEF Init
<1>4. /\ jhr = At1(Initial(left.old), NoHeaders)
      /\ jdt = At1([m \in 1..left.old |-> m], <<>>)
      /\ jdx = At1([m \in 1..left.old |-> m], <<>>)
  BY DEF Init
<1>5. Types
  <2>1. jhr \in [Inodes -> HeaderFile]
    BY <1>0, <1>4, At1Is
  <2>2. jdt \in [Inodes -> Seq(1..MaxMsgs)] /\ jdx \in [Inodes -> Seq(Nat \ {0})]
    <3>1. <<>> \in Seq(1..MaxMsgs) /\ <<>> \in Seq(Nat \ {0})
      OBVIOUS
    <3> QED
      BY <1>0, <1>4, <3>1, At1Is
  <2>3. jlr \in [Inodes -> Nat]
    <3>1. last \in Nat /\ 0 \in Nat
      BY <1>0
    <3> QED
      BY <1>3, <3>1, At1Is
  <2>4. dir \in [Files -> Inodes \cup {None}] /\ tmp \in [Files -> Inodes \cup {None}]
    BY <1>1 DEF Init
  <2>5. /\ pc \in [Procs -> States] /\ job \in [Procs -> Jobs]
        /\ fd \in [Procs -> [Files -> Inodes \cup {None}]]
        /\ act \in [Procs -> 0..(Wrap - 1)]
        /\ num \in [Procs -> Nat] /\ cur \in [Procs -> Int]
    BY <1>2 DEF Init, States, Jobs
  <2>6. killed \cup seen \cup astray \cup stored \subseteq 1..MaxMsgs
    <3>1. last <= MaxMsgs /\ left.old <= MaxMsgs /\ last \in Nat
      BY <1>0, <1>2
    <3>2. stored = 1..left.old /\ killed = {} /\ astray = {} /\ seen = 1..last
      BY <1>3 DEF Init
    <3>3. stored \subseteq 1..MaxMsgs /\ seen \subseteq 1..MaxMsgs
      BY <1>0, <1>2, <3>1, <3>2
    <3> QED
      BY <3>2, <3>3
  <2>7. left \in [PlanFields -> Nat] /\ msgs = left.old /\ swaps = 0
    BY JamBaseAssumption DEF Init, PlanFields
  <2> QED
    BY <1>0, <1>2, <2>1, <2>2, <2>3, <2>4, <2>5, <2>6, <2>7 DEF Types, PlanFields
<1>6. \A p \in Procs : /\ pc[p] = "closed" /\ job[p] = "none"
                       /\ \A f \in Files : fd[p][f] = None
  BY DEF Init
<1>7. \A f \in Files : tmp[f] = None /\ dir[f] = IF left.old = 0 THEN None ELSE 1
  BY DEF Init
<1>8. Stage /\ Locking /\ Writing
  BY <1>6 DEF Stage, StageOf, Locking, Writing, WritingOf, LockPc, Adding
<1>9. Apart
  BY <1>7 DEF Apart
<1>10. Blank
  <2>1. ASSUME NEW f \in Files, NEW i \in Inodes \ Used(f) PROVE i # 1 \/ ~(left.old > 0)
    BY <1>0, <1>7, <2>1 DEF Used, None
  <2>2. "jhr" \in Files /\ "jdt" \in Files /\ "jdx" \in Files /\ "jlr" \in Files
    BY DEF Files
  <2> QED
    BY <1>3, <1>4, <2>1, <2>2 DEF Blank, At1
<1>11. Room
  <2>1. Pending = {}
    BY <1>6 DEF Pending
  <2>2. Cardinality(Pending) = 0
    BY <2>1, FS_EmptySet
  <2>3. msgs = left.old
    BY DEF Init
  <2>4. ASSUME NEW i \in Inodes PROVE Len(jhr[i].hdrs) <= left.old /\ Len(jhr[i].hdrs) \in Nat
    BY <1>0, <1>4 DEF At1
  <2> QED
    BY <1>0, <2>2, <2>3, <2>4 DEF Room
<1> QED
  BY <1>5, <1>8, <1>9, <1>10, <1>11 DEF Base

\* Base is about the variables alone.
LEMMA BaseStutter ==
  ASSUME Base, UNCHANGED vars
  PROVE  Base'
<1>1. Types'
  BY DEF Base, vars, Types
<1>2. Stage' /\ Locking' /\ Writing'
  BY DEF Base, vars, Stage, StageOf, Locking, Writing, WritingOf, Hdrs, Index, Texts
<1>3. Apart' /\ Blank' /\ Room'
  BY DEF Base, vars, Apart, Blank, Used, Room, Pending
<1> QED
  BY <1>1, <1>2, <1>3 DEF Base

-----------------------------------------------------------------------------
(* The exchange of the files, and writers beside it *)

\* What went wrong stays wrong: a condition that holds after a step held before.
LEMMA HistoryGrows ==
  ASSUME NEW p \in Procs, Step(p)
  PROVE  /\ mishap \subseteq mishap' /\ astray \subseteq astray' /\ stored \subseteq stored'
         /\ killed \subseteq killed' /\ seen \subseteq seen'
<1>1. CASE Opens(p)
  BY <1>1, OpensFile DEF history
<1>2. CASE Closes(p)
  <2>1. mishap \subseteq mishap'
    BY <1>2 DEF Closes, LockFails, UnLock, FindNext, Crash, Show
  <2> QED
    BY <1>2, <2>1, ClosesFiles
<1>3. CASE Shows(p)
  BY <1>3 DEF Shows, Show
<1>4. CASE Lock(p) \/ Swap(p)
  BY <1>4 DEF Lock, Swap, history
<1>5. CASE Pack(p)
  BY <1>5 DEF Pack, history
<1>6. CASE Create(p) \/ DeleteCount(p) \/ SetLastRead(p) \/ Delete(p)
  BY <1>6 DEF Create, DeleteCount, SetLastRead, Delete, history
<1>7. CASE AddIndex(p) \/ AddHeader(p) \/ AddText(p) \/ AddFinal(p) \/ AddCount(p)
  BY <1>7 DEF AddIndex, AddHeader, AddText, AddFinal, AddCount, Adds
<1> QED
  BY <1>1, <1>2, <1>3, <1>4, <1>5, <1>6, <1>7, StepKinds DEF Writes

LEMMA HitGrows ==
  ASSUME NEW p \in Procs, Step(p), NEW what
  PROVE  /\ Hit(what) => Hit(what)'
         /\ Torn => Torn'
BY HistoryGrows DEF Hit, Torn

\* The files are exchanged in this order.
LEMMA FilesOrder == \A f \in Files : \E k \in 1..4 : f = Order[k]
BY OrderIsFile DEF Files

\* A program comes to exchange files by packing, and ends or dies at it.
LEMMA SwappingSteps ==
  ASSUME Types, NEW p \in Procs, Step(p)
  PROVE  /\ ~Pack(p) => Swapping' \subseteq Swapping
         /\ Pack(p) => Swapping' = Swapping \cup {p}
         /\ p \in Swapping => Swap(p) \/ Crash(p)
         /\ ~Swap(p) /\ ~Crash(p) /\ ~Pack(p) => Swapping' = Swapping
<1>0. pc \in [Procs -> States]
  BY DEF Types
<1>1. \A q \in Procs : q # p => pc'[q] = pc[q]
  BY OthersSame
<1>2. pc'[p] = "swap" => Pack(p) \/ pc[p] = "swap"
  <2>1. CASE Opens(p) \/ Closes(p)
    BY <1>0, <2>1, ClosesFiles DEF Opens, Start, Again, OpenNext, OpenHdr, Close
  <2>2. CASE Shows(p) \/ Lock(p) \/ Writes(p) \/ Swap(p)
    BY Zenon, <1>0, <2>2 DEF Shows, Show, Lock, Swap, Writes, Create, AddIndex, AddHeader, AddText,
       AddFinal, AddCount, Adds, Delete, DeleteCount, SetLastRead, Goto
  <2> QED
    BY <2>1, <2>2, StepKinds
<1>3. pc[p] = "swap" => Swap(p) \/ Crash(p)
  BY DEF Step, Start, Again, Create, OpenNext, Lock, LockFails, UnLock, AddIndex, AddHeader,
     AddText, AddFinal, AddCount, Adds, Delete, DeleteCount, SetLastRead, Pack, FindNext, Show, Goto
<1>4. Pack(p) => pc'[p] = "swap"
  BY <1>0 DEF Pack, Goto
<1> QED
  BY <1>1, <1>2, <1>3, <1>4 DEF Swapping

\* Only these steps change the names.
LEMMA TmpSteps ==
  ASSUME Types, NEW p \in Procs, Step(p), ~Pack(p), ~Swap(p)
  PROVE  tmp' = tmp
BY StepKinds, OpensFile, ClosesFiles, WritesKeep DEF Shows, Show, Lock

LEMMA DirSteps ==
  ASSUME Types, NEW p \in Procs, Step(p), ~Opens(p), ~Swap(p)
  PROVE  dir' = dir
BY StepKinds, ClosesFiles, WritesKeep DEF Shows, Show, Lock, Pack

\* One program at most exchanges the files: a second one packs files that have
\* lost their names, or are about to, and that is a mishap.
LEMMA OrderlyStep ==
  ASSUME Base, Orderly, NEW p \in Procs, Step(p)
  PROVE  Orderly'
<1>0. /\ Types /\ Stage /\ StageOf(p) /\ pc \in [Procs -> States] /\ num \in [Procs -> Nat]
      /\ tmp \in [Files -> Inodes \cup {None}]
  BY DEF Base, Types, Stage
<1> SUFFICES ASSUME ~Torn'
             PROVE  /\ \A q, r \in Swapping' : q = r
                    /\ Swapping' = {} => \A f \in Files : tmp'[f] = None
                    /\ \A q \in Swapping', k \in 1..4 : tmp'[Order[k]] # None <=> num'[q] <= 2 * k
  BY DEF Orderly
<1>1. /\ \A q, r \in Swapping : q = r
      /\ Swapping = {} => \A f \in Files : tmp[f] = None
      /\ \A q \in Swapping, k \in 1..4 : tmp[Order[k]] # None <=> num[q] <= 2 * k
  BY HitGrows DEF Orderly
<1>2. CASE Pack(p)
  <2>1. Swapping' = Swapping \cup {p}
    BY <1>0, <1>2, SwappingSteps
  <2>2. Swapping = {} /\ num'[p] = 1
    BY <1>0, <1>2 DEF Pack, Torn, Hit, Current
  <2>3. \A k \in 1..4 : tmp'[Order[k]] # None
    <3>1. tmp' \in [Files -> Inodes]
      BY <1>0, <1>2, PackFits, Packs DEF Base
    <3> QED
      BY <3>1, OrderIsFile, NoFile
  <2> QED
    BY <2>1, <2>2, <2>3
<1>3. CASE Swap(p)
  <2>0. num[p] \in 1..8
    BY <1>0, <1>3, Swaps
  <2>a. pc[p] = "swap" /\ p \in Swapping
    BY <1>3 DEF Swap, Swapping
  <2>1. pc[p] = "swap" /\ Swapping = {p} /\ num[p] \in 1..8
    BY <1>1, <2>0, <2>a
  <2>2. /\ num'[p] = IF num[p] = 8 THEN 0 ELSE num[p] + 1
        /\ pc'[p] = IF num[p] = 8 THEN "closed" ELSE "swap"
    BY <1>0, <1>3 DEF Swap
  <2>3. Swapping' = IF num[p] = 8 THEN {} ELSE {p}
    <3>1. \A q \in Procs : q # p => pc'[q] = pc[q]
      BY <1>0, OthersSame
    <3> QED
      BY <2>1, <2>2, <3>1 DEF Swapping
  <2>4. \A k \in 1..4 : tmp'[Order[k]] # None <=> num[p] + 1 <= 2 * k
    <3>1. PICK k \in 1..4 :
               /\ num[p] \in {2 * k - 1, 2 * k}
               /\ num[p] = 2 * k - 1 => tmp' = tmp
               /\ num[p] = 2 * k => tmp' = [tmp EXCEPT ![Order[k]] = None]
      BY <1>0, <1>3, Swaps
    <3>2. ASSUME NEW j \in 1..4 PROVE tmp[Order[j]] # None <=> num[p] <= 2 * j
      BY <1>1, <2>1
    <3>3. ASSUME NEW j \in 1..4, j # k PROVE Order[j] # Order[k]
      BY <3>3 DEF Order
    <3>4. CASE num[p] = 2 * k - 1
      <4>1. \A j \in 1..4 : num[p] <= 2 * j <=> num[p] + 1 <= 2 * j
        BY <3>4
      <4> QED
        BY <3>1, <3>2, <3>4, <4>1
    <3>5. CASE num[p] = 2 * k
      <4>1. ASSUME NEW j \in 1..4, j # k PROVE tmp'[Order[j]] # None <=> num[p] + 1 <= 2 * j
        <5>1. num[p] <= 2 * j <=> num[p] + 1 <= 2 * j
          BY <3>5, <4>1
        <5>2. tmp'[Order[j]] = tmp[Order[j]]
          BY <1>0, <3>1, <3>3, <3>5, <4>1, OrderIsFile
        <5> QED
          BY <3>2, <5>1, <5>2
      <4>2. tmp'[Order[k]] = None
        BY <1>0, <3>1, <3>5, OrderIsFile
      <4>3. ~(num[p] + 1 <= 2 * k)
        BY <3>5
      <4> QED
        BY <4>1, <4>2, <4>3
    <3> QED
      BY <3>1, <3>4, <3>5
  <2>5. CASE num[p] = 8
    <3>1. \A k \in 1..4 : tmp'[Order[k]] = None
      BY <2>4, <2>5
    <3> QED
      BY <2>3, <2>5, <3>1, FilesOrder
  <2>6. CASE num[p] # 8
    BY <2>2, <2>3, <2>4, <2>6
  <2> QED
    BY <2>5, <2>6
<1>4. CASE ~Pack(p) /\ ~Swap(p)
  <2>1. tmp' = tmp
    BY <1>0, <1>4, TmpSteps
  <2>2. ~(pc[p] = "swap")
    <3>1. pc[p] = "swap" => Crash(p)
      BY <1>0, <1>4, SwappingSteps DEF Swapping
    <3>2. Crash(p) /\ pc[p] = "swap" => Torn'
      BY DEF Crash, Leaves, Torn, Hit
    <3> QED
      BY <3>1, <3>2
  <2>3. pc'[p] # "swap"
    BY <1>0, <1>4, <2>2, SwappingSteps DEF Swapping
  <2>4. Swapping' = Swapping /\ \A q \in Swapping : num'[q] = num[q]
    BY <1>0, <2>2, <2>3, OthersSame DEF Swapping
  <2> QED
    BY <1>1, <2>1, <2>4
<1> QED
  BY <1>2, <1>3, <1>4

\* A program that works on the files of the base sees the base, ...
LEMMA CurrentFiles ==
  ASSUME Base, Orderly, ~Torn, NEW p \in Procs, Current(p)
  PROVE  /\ Swapping = {}
         /\ \A f \in Files : tmp[f] = None /\ Target(f) = fd[p][f] /\ dir[f] = fd[p][f]
BY DEF Current, Orderly, Target

\* ... and does so until a pack, which needs its lock.
LEMMA CurrentKept ==
  ASSUME Base, Orderly, ~Torn', NEW p \in Procs, Step(p), NEW q \in Procs, q # p,
         Current(q), pc[q] \in LockPc \cup {"open"}, ~Pack(p)
  PROVE  Current(q)'
<1>0. Types /\ StageOf(q) /\ dir \in [Files -> Inodes \cup {None}]
  BY DEF Base, Types, Stage
<1>1. Swapping' = {}
  BY <1>0, SwappingSteps DEF Current
<1>2. ~Swap(p)
  BY DEF Swap, Current, Swapping
<1>3. dir' = dir
  <2>1. CASE Opens(p)
    <3>1. PICK f \in Files : OpenFile(p, f)
      BY <2>1, OpensFile
    <3>2. dir[f] # None
      BY <1>0 DEF Current, StageOf
    <3>3. fd'[p][f] = dir[f] /\ dir' = [dir EXCEPT ![f] = fd'[p][f]]
      BY <1>0, <3>1, <3>2, Opened DEF OpenFile
    <3> QED
      BY <1>0, <3>3
  <2>2. CASE ~Opens(p)
    BY <1>0, <1>2, <2>2, DirSteps
  <2> QED
    BY <2>1, <2>2
<1>4. fd'[q] = fd[q]
  BY <1>0, OthersSame
<1> QED
  BY <1>1, <1>3, <1>4 DEF Current

\* Nobody packs a base while a message is written to it.
LEMMA NoPackBeside ==
  ASSUME Base, Orderly, ~Torn', NEW p \in Procs, Pack(p), NEW q \in Procs, q # p,
         pc[q] \in LockPc
  PROVE  Current(p) /\ fd[q].jhr # dir.jhr
<1>1. Current(p)
  BY DEF Pack, Torn, Hit
<1>2. pc[p] \in LockPc
  BY DEF Pack, Goto, LockPc
<1>3. fd[q].jhr # fd[p].jhr
  BY <1>2 DEF Base, Locking
<1> QED
  BY <1>1, <1>3 DEF Current

\* A writer that loses its files leaves its message astray.
LEMMA HeldStep ==
  ASSUME Base, Orderly, Held, NEW p \in Procs, Step(p)
  PROVE  Held'
<1>0. Types /\ pc \in [Procs -> States]
  BY DEF Base, Types
<1> SUFFICES ASSUME ~Torn', NEW q \in Procs, pc'[q] \in Adding, cur'[q] \notin astray'
             PROVE  Current(q)'
  BY DEF Held
<1>1. ~Torn
  BY HitGrows
<1>2. CASE q # p
  <2>1. pc[q] \in Adding /\ cur[q] \notin astray
    BY <1>0, <1>2, OthersSame, HistoryGrows
  <2>2. Current(q) /\ pc[q] \in LockPc
    BY <1>1, <2>1 DEF Held, LockPc
  <2>3. ~Pack(p)
    BY <1>2, <2>2, NoPackBeside DEF Current
  <2> QED
    BY <1>2, <2>2, <2>3, CurrentKept
<1>3. CASE q = p
  <2>1. AddIndex(p) \/ AddHeader(p) \/ AddText(p) \/ AddFinal(p)
    <3>1. CASE Opens(p) \/ Closes(p) \/ Pack(p) \/ Swap(p)
      BY <1>0, <1>3, <3>1, ClosesFiles DEF Opens, Start, Again, OpenNext, OpenHdr, Close, Pack, Swap,
         Goto, Adding
    <3>2. CASE Shows(p) \/ Lock(p)
      BY <1>0, <1>3, <3>2 DEF Shows, Show, Lock, Goto, Adding
    <3>3. CASE Create(p) \/ AddCount(p) \/ Delete(p) \/ DeleteCount(p) \/ SetLastRead(p)
      BY <1>0, <1>3, <3>3 DEF Create, AddCount, Adds, Delete, DeleteCount, SetLastRead, Goto, Adding
    <3> QED
      BY <3>1, <3>2, <3>3, StepKinds DEF Writes
  <2>2. /\ astray' = IF Current(p) THEN astray ELSE astray \cup {cur[p]}
        /\ cur' = cur /\ dir' = dir /\ fd' = fd
    BY <2>1 DEF AddIndex, AddHeader, AddText, AddFinal, Adds
  <2>3. Current(p)
    BY <1>3, <2>2
  <2>4. Swapping' \subseteq Swapping
    BY Zenon, <1>0, <2>1, SwappingSteps DEF AddIndex, AddHeader, AddText, AddFinal, Adds, Goto, Pack
  <2> QED
    BY <1>3, <2>2, <2>3, <2>4 DEF Current
<1> QED
  BY <1>2, <1>3

-----------------------------------------------------------------------------
(* The base as the next program will find it *)

\* The target is a file in use, ...
LEMMA TargetType ==
  ASSUME Types, NEW f \in Files
  PROVE  /\ Target(f) \in Inodes \cup {None}
         /\ Target(f) # None => Target(f) \in Used(f)
BY UsedIs DEF Types, Target

\* ... of the right type.
LEMMA TTypes ==
  ASSUME Types, Room
  PROVE  /\ THdrs \in Seq(Header) /\ TActive \in 0..(Wrap - 1) /\ TTexts \in Seq(1..MaxMsgs)
         /\ TIndex \in Seq(Nat \ {0}) /\ TLast \in Nat
         /\ Len(THdrs) \in Nat /\ Len(THdrs) <= MaxMsgs /\ DOMAIN THdrs = 1..Len(THdrs)
         /\ DOMAIN TIndex = 1..Len(TIndex)
         /\ Len(TIndex) \in Nat
<1>1. \A f \in Files : Target(f) # None => Target(f) \in Inodes
  BY TargetType
<1>2. "jhr" \in Files /\ "jdt" \in Files /\ "jdx" \in Files /\ "jlr" \in Files
  BY DEF Files
<1>3. THdrs \in Seq(Header)
  <2>1. <<>> \in Seq(Header)
    OBVIOUS
  <2> QED
    BY <1>1, <1>2, <2>1 DEF THdrs, Types, HeaderFile
<1>4. TActive \in 0..(Wrap - 1)
  BY <1>1, <1>2, ZeroCounts DEF TActive, Types, HeaderFile
<1>5. TTexts \in Seq(1..MaxMsgs)
  <2>1. <<>> \in Seq(1..MaxMsgs)
    OBVIOUS
  <2> QED
    BY <1>1, <1>2, <2>1 DEF TTexts, Types
<1>6. TIndex \in Seq(Nat \ {0})
  <2>1. <<>> \in Seq(Nat \ {0})
    OBVIOUS
  <2> QED
    BY <1>1, <1>2, <2>1 DEF TIndex, Types
<1>7. TLast \in Nat
  BY <1>1, <1>2 DEF TLast, Types
<1>8. Len(THdrs) <= MaxMsgs
  <2>1. CASE Target("jhr") = None
    BY <2>1, Bounds DEF THdrs
  <2>2. CASE Target("jhr") # None
    BY <1>1, <1>2, <2>2, RoomBounds DEF THdrs
  <2> QED
    BY <2>1, <2>2
<1>9. Len(THdrs) \in Nat /\ DOMAIN THdrs = 1..Len(THdrs) /\ DOMAIN TIndex = 1..Len(TIndex)
      /\ Len(TIndex) \in Nat
  BY <1>3, <1>6
<1> QED
  BY <1>3, <1>4, <1>5, <1>6, <1>7, <1>8, <1>9

\* Only packing changes the file that has the name or will have it when the
\* exchange is over; a file that gets its name now is empty.
LEMMA TargetStep ==
  ASSUME Base, Orderly, ~Torn', NEW p \in Procs, Step(p), ~Pack(p), NEW f \in Files
  PROVE  \/ Target(f)' = Target(f)
         \/ Opens(p) /\ Target(f) = None /\ Target(f)' \in Inodes \ Used(f)
<1>0. /\ Types /\ StageOf(p) /\ ~Torn
      /\ dir \in [Files -> Inodes \cup {None}] /\ tmp \in [Files -> Inodes \cup {None}]
  BY HitGrows DEF Base, Stage, Types
<1>1. CASE Swap(p)
  <2>0. p \in Swapping
    BY <1>1 DEF Swap, Swapping
  <2>1. PICK k \in 1..4 :
             /\ num[p] \in {2 * k - 1, 2 * k}
             /\ num[p] = 2 * k - 1 => dir' = [dir EXCEPT ![Order[k]] = None] /\ tmp' = tmp
             /\ num[p] = 2 * k =>
                    /\ dir' = [dir EXCEPT ![Order[k]] = IF tmp[Order[k]] = None THEN @ ELSE tmp[Order[k]]]
                    /\ tmp' = [tmp EXCEPT ![Order[k]] = None]
    BY <1>0, <1>1, Swaps
  <2>2. num[p] <= 2 * k
    BY <2>1
  <2>3. tmp[Order[k]] # None
    BY <1>0, <2>0, <2>2 DEF Orderly
  <2>4. CASE num[p] = 2 * k - 1
    BY <1>0, <2>1, <2>3, <2>4 DEF Target
  <2>5. CASE num[p] = 2 * k
    <3>1. /\ dir' = [dir EXCEPT ![Order[k]] = tmp[Order[k]]]
          /\ tmp' = [tmp EXCEPT ![Order[k]] = None]
      BY <2>1, <2>3, <2>5
    <3>2. Order[k] \in Files
      BY OrderIsFile
    <3> HIDE <2>1
    <3> DEFINE g == Order[k]
    <3>3. /\ dir' = [dir EXCEPT ![g] = tmp[g]] /\ tmp' = [tmp EXCEPT ![g] = None]
          /\ g \in Files /\ tmp[g] # None
      BY <2>3, <3>1, <3>2
    <3> HIDE DEF g
    <3>4. CASE f = g
      BY <1>0, <3>3, <3>4 DEF Target
    <3>5. CASE f # g
      BY <1>0, <3>3, <3>5 DEF Target
    <3> QED
      BY <3>4, <3>5
  <2> QED
    BY <2>1, <2>4, <2>5
<1>2. CASE Opens(p)
  <2>1. PICK g \in Files : OpenFile(p, g)
    BY <1>2, OpensFile
  <2>2. tmp' = tmp
    BY <1>2, OpensFile
  <2>3. /\ dir'[g] = fd'[p][g] /\ fd'[p][g] \in Inodes
        /\ dir[g] = None => fd'[p][g] \notin Used(g)
        /\ dir[g] # None => fd'[p][g] = dir[g]
        /\ \A h \in Files : h # g => dir'[h] = dir[h]
    BY <1>0, <2>1, Opened
  <2>4. CASE f = g
    <3>1. CASE tmp[f] # None \/ dir[f] # None
      BY <2>2, <2>3, <2>4, <3>1 DEF Target
    <3>2. CASE tmp[f] = None /\ dir[f] = None
      BY <1>2, <2>2, <2>3, <2>4, <3>2 DEF Target
    <3> QED
      BY <3>1, <3>2
  <2>5. CASE f # g
    BY <2>2, <2>3, <2>5 DEF Target
  <2> QED
    BY <2>4, <2>5
<1>3. CASE ~Swap(p) /\ ~Opens(p)
  <2>1. tmp' = tmp /\ dir' = dir
    BY <1>0, <1>3, TmpSteps, DirSteps
  <2> QED
    BY <2>1 DEF Target
<1> QED
  BY <1>1, <1>2, <1>3

\* Writers do not change names, openers do not write.
LEMMA WritesTarget ==
  ASSUME NEW p \in Procs, Writes(p), NEW f
  PROVE  Target(f)' = Target(f)
BY WritesKeep DEF Target

LEMMA OpensKeepFiles ==
  ASSUME NEW p \in Procs, Opens(p)
  PROVE  jhr' = jhr /\ jdt' = jdt /\ jdx' = jdx /\ jlr' = jlr
BY OpensFile DEF files

LEMMA TargetUsed ==
  ASSUME NEW f
  PROVE  Target(f)' # None => Target(f)' \in Used(f)'
BY UsedIs DEF Target

\* What a step other than a pack changes of the base: a file that one program
\* writes to and that is the target, or nothing.
LEMMA TKeep ==
  ASSUME Base, Orderly, ~Torn', NEW p \in Procs, Step(p), ~Pack(p)
  PROVE  /\ \/ THdrs' = THdrs /\ TActive' = TActive
            \/ /\ Writes(p) /\ fd[p].jhr = Target("jhr") /\ Target("jhr") \in Inodes
               /\ THdrs = Hdrs(p) /\ TActive = Active(p)
               /\ THdrs' = jhr'[fd[p].jhr].hdrs /\ TActive' = jhr'[fd[p].jhr].active
         /\ \/ TTexts' = TTexts
            \/ /\ AddText(p) /\ fd[p].jdt = Target("jdt") /\ TTexts = Texts(p)
               /\ TTexts' = Append(Texts(p), cur[p])
         /\ \/ TIndex' = TIndex
            \/ /\ AddIndex(p) /\ fd[p].jdx = Target("jdx") /\ TIndex = Index(p)
               /\ TIndex' = Append(Index(p), Len(Hdrs(p)) + 1)
         /\ \/ TLast' = TLast
            \/ /\ SetLastRead(p) /\ fd[p].jlr = Target("jlr") /\ TLast = jlr[fd[p].jlr]
               /\ TLast' = num[p]
<1>0. Types /\ Types' /\ Stage /\ Apart /\ Room /\ Blank
  BY BaseStep DEF Base
<1>1. "jhr" \in Files /\ "jdt" \in Files /\ "jdx" \in Files /\ "jlr" \in Files
  BY DEF Files
<1>3. \/ THdrs' = THdrs /\ TActive' = TActive
      \/ /\ Writes(p) /\ fd[p].jhr = Target("jhr") /\ Target("jhr") \in Inodes
         /\ THdrs = Hdrs(p) /\ TActive = Active(p)
         /\ THdrs' = jhr'[fd[p].jhr].hdrs /\ TActive' = jhr'[fd[p].jhr].active
  <2>1. CASE Target("jhr")' = Target("jhr")
    <3>1. CASE Target("jhr") = None
      BY <2>1, <3>1 DEF THdrs, TActive
    <3>2. CASE Target("jhr") # None /\ Writes(p) /\ fd[p].jhr = Target("jhr")
      <4>1. Target("jhr") \in Inodes /\ Target("jhr")' = fd[p].jhr
        BY <1>0, <1>1, <2>1, <3>2, TargetType
      <4>2. THdrs = Hdrs(p) /\ TActive = Active(p)
        BY <3>2 DEF THdrs, TActive, Hdrs, Active
      <4>3. THdrs' = jhr'[fd[p].jhr].hdrs /\ TActive' = jhr'[fd[p].jhr].active
        BY <2>1, <3>2, <4>1 DEF THdrs, TActive
      <4> QED
        BY <3>2, <4>1, <4>2, <4>3
    <3>3. CASE Target("jhr") # None /\ ~(Writes(p) /\ fd[p].jhr = Target("jhr"))
      <4> DEFINE i == Target("jhr")
      <4>0. i \in Inodes /\ i \in Used("jhr")'
        BY <1>0, <1>1, <2>1, <3>3, TargetType, TargetUsed
      <4> HIDE DEF i
      <4>a. ~(Writes(p) /\ i = fd[p].jhr)
        BY <3>3 DEF i
      <4>1. jhr'[i] = jhr[i]
        BY <1>0, <4>0, <4>a, Contents
      <4> QED
        BY <2>1, <3>3, <4>1 DEF THdrs, TActive, i
    <3> QED
      BY <3>1, <3>2, <3>3
  <2>2. CASE Opens(p) /\ Target("jhr") = None /\ Target("jhr")' \in Inodes \ Used("jhr")
    <3>1. jhr'[Target("jhr")'] = NoHeaders
      BY <1>0, <2>2, OpensKeepFiles DEF Blank
    <3>2. Target("jhr")' # None
      BY <2>2, NoFile
    <3> QED
      BY <2>2, <3>1, <3>2 DEF THdrs, TActive, NoHeaders
  <2> QED
    BY <1>1, <2>1, <2>2, TargetStep
<1>4. \/ TTexts' = TTexts
      \/ /\ AddText(p) /\ fd[p].jdt = Target("jdt") /\ TTexts = Texts(p)
         /\ TTexts' = Append(Texts(p), cur[p])
  <2>1. CASE Target("jdt")' = Target("jdt")
    <3>1. CASE Target("jdt") = None
      BY <2>1, <3>1 DEF TTexts
    <3>2. CASE Target("jdt") # None
      <4> DEFINE i == Target("jdt")
      <4>0. i \in Inodes /\ i \in Used("jdt")'
        BY <1>0, <1>1, <2>1, <3>2, TargetType, TargetUsed
      <4> HIDE DEF i
      <4>1. \/ jdt'[i] = jdt[i]
            \/ AddText(p) /\ i = fd[p].jdt
               /\ jdt'[i] = Append(jdt[i], cur[p])
        BY <1>0, <4>0, Contents
      <4> QED
        BY <2>1, <3>2, <4>1 DEF TTexts, Texts, i
    <3> QED
      BY <3>1, <3>2
  <2>2. CASE Opens(p) /\ Target("jdt") = None /\ Target("jdt")' \in Inodes \ Used("jdt")
    <3>1. jdt'[Target("jdt")'] = <<>>
      BY <1>0, <2>2, OpensKeepFiles DEF Blank
    <3>2. Target("jdt")' # None
      BY <2>2, NoFile
    <3> QED
      BY <2>2, <3>1, <3>2 DEF TTexts
  <2> QED
    BY <1>1, <2>1, <2>2, TargetStep
<1>5. \/ TIndex' = TIndex
      \/ /\ AddIndex(p) /\ fd[p].jdx = Target("jdx") /\ TIndex = Index(p)
         /\ TIndex' = Append(Index(p), Len(Hdrs(p)) + 1)
  <2>1. CASE Target("jdx")' = Target("jdx")
    <3>1. CASE Target("jdx") = None
      BY <2>1, <3>1 DEF TIndex
    <3>2. CASE Target("jdx") # None
      <4> DEFINE i == Target("jdx")
      <4>0. i \in Inodes /\ i \in Used("jdx")'
        BY <1>0, <1>1, <2>1, <3>2, TargetType, TargetUsed
      <4> HIDE DEF i
      <4>1. \/ jdx'[i] = jdx[i]
            \/ AddIndex(p) /\ i = fd[p].jdx
               /\ jdx'[i] = Append(jdx[i], Len(Hdrs(p)) + 1)
        BY <1>0, <4>0, Contents
      <4> QED
        BY <2>1, <3>2, <4>1 DEF TIndex, Index, i
    <3> QED
      BY <3>1, <3>2
  <2>2. CASE Opens(p) /\ Target("jdx") = None /\ Target("jdx")' \in Inodes \ Used("jdx")
    <3>1. jdx'[Target("jdx")'] = <<>>
      BY <1>0, <2>2, OpensKeepFiles DEF Blank
    <3>2. Target("jdx")' # None
      BY <2>2, NoFile
    <3> QED
      BY <2>2, <3>1, <3>2 DEF TIndex
  <2> QED
    BY <1>1, <2>1, <2>2, TargetStep
<1>6. \/ TLast' = TLast
      \/ /\ SetLastRead(p) /\ fd[p].jlr = Target("jlr") /\ TLast = jlr[fd[p].jlr]
         /\ TLast' = num[p]
  <2>1. CASE Target("jlr")' = Target("jlr")
    <3>1. CASE Target("jlr") = None
      BY <2>1, <3>1 DEF TLast
    <3>2. CASE Target("jlr") # None
      <4> DEFINE i == Target("jlr")
      <4>0. i \in Inodes /\ i \in Used("jlr")'
        BY <1>0, <1>1, <2>1, <3>2, TargetType, TargetUsed
      <4> HIDE DEF i
      <4>1. \/ jlr'[i] = jlr[i]
            \/ SetLastRead(p) /\ i = fd[p].jlr /\ jlr'[i] = num[p]
        BY <1>0, <4>0, Contents
      <4> QED
        BY <2>1, <3>2, <4>1 DEF TLast, i
    <3> QED
      BY <3>1, <3>2
  <2>2. CASE Opens(p) /\ Target("jlr") = None /\ Target("jlr")' \in Inodes \ Used("jlr")
    <3>1. jlr'[Target("jlr")'] = 0
      BY <1>0, <2>2, OpensKeepFiles DEF Blank
    <3>2. Target("jlr")' # None
      BY <2>2, NoFile
    <3> QED
      BY <2>2, <3>1, <3>2 DEF TLast
  <2> QED
    BY <1>1, <2>1, <2>2, TargetStep
<1> QED
  BY <1>3, <1>4, <1>5, <1>6

\* A program that works on the files of the base has the view that Target gives.
LEMMA CurrentView ==
  ASSUME Base, Orderly, ~Torn, NEW p \in Procs, Current(p), pc[p] \in LockPc \cup {"open"}
  PROVE  /\ THdrs = Hdrs(p) /\ TActive = Active(p) /\ TTexts = Texts(p) /\ TIndex = Index(p)
         /\ TLast = jlr[fd[p].jlr]
         /\ fd[p].jhr = Target("jhr") /\ fd[p].jdt = Target("jdt")
         /\ fd[p].jdx = Target("jdx") /\ fd[p].jlr = Target("jlr")
<1>1. "jhr" \in Files /\ "jdt" \in Files /\ "jdx" \in Files /\ "jlr" \in Files
  BY DEF Files
<1>2. /\ fd[p].jhr = Target("jhr") /\ fd[p].jdt = Target("jdt")
      /\ fd[p].jdx = Target("jdx") /\ fd[p].jlr = Target("jlr")
  BY <1>1, CurrentFiles
<1>3. \A f \in Files : fd[p][f] # None
  BY DEF Base, Stage, StageOf
<1> QED
  BY <1>1, <1>2, <1>3 DEF THdrs, TActive, TTexts, TIndex, TLast, Hdrs, Active, Texts, Index

\* After a pack the view is that of the copy, before the first name is exchanged.
LEMMA PackView ==
  ASSUME Base, Orderly, ~Torn', NEW p \in Procs, Pack(p)
  PROVE  /\ Current(p) /\ ~Torn /\ pc[p] = "locked" /\ Swapping = {} /\ Swapping' # {}
         /\ THdrs = Hdrs(p) /\ TActive = Active(p) /\ TTexts = Texts(p) /\ TIndex = Index(p)
         /\ TLast = jlr[fd[p].jlr]
         /\ THdrs' = PackedHdrs(p) /\ TActive' = PackedCount(p) /\ TTexts' = PackedTexts(p)
         /\ TIndex' = [n \in 1..Cardinality(Copied(p)) |-> n]
         /\ LET last == Renumbered(p, TLast) IN
            TLast' = IF last > PackedCount(p) THEN PackedCount(p) ELSE last
         /\ \A q \in Procs : fd'[q].jhr # Target("jhr")'
         /\ UNCHANGED <<dir, job, fd, act, cur, left, msgs, stored, killed, seen, astray, mishap>>
<1>0. Types /\ StageOf(p) /\ Apart /\ Len(Hdrs(p)) <= MaxMsgs
  BY PackFits DEF Base
<1>1. Current(p) /\ mishap' = mishap /\ Step(p)
  BY DEF Pack, Torn, Hit, Step
<1>2. ~Torn
  BY <1>1, HitGrows
<1>3. pc[p] \in LockPc /\ pc[p] = "locked"
  BY DEF Pack, Goto, LockPc
<1>4. /\ THdrs = Hdrs(p) /\ TActive = Active(p) /\ TTexts = Texts(p) /\ TIndex = Index(p)
      /\ TLast = jlr[fd[p].jlr]
  BY <1>1, <1>2, <1>3, CurrentView
<1>5. /\ tmp' \in [Files -> Inodes]
      /\ \A f \in Files : tmp'[f] # dir[f] /\ \A q \in Procs : fd[q][f] # tmp'[f]
      /\ jhr'[tmp'.jhr] = [info |-> TRUE, active |-> PackedCount(p), hdrs |-> PackedHdrs(p)]
      /\ jdt'[tmp'.jdt] = PackedTexts(p)
      /\ jdx'[tmp'.jdx] = [n \in 1..Cardinality(Copied(p)) |-> n]
      /\ LET last == Renumbered(p, jlr[fd[p].jlr]) IN
         jlr'[tmp'.jlr] = IF last > PackedCount(p) THEN PackedCount(p) ELSE last
  BY <1>0, Packs
<1>6. "jhr" \in Files /\ "jdt" \in Files /\ "jdx" \in Files /\ "jlr" \in Files
  BY DEF Files
<1>7. \A f \in Files : Target(f)' = tmp'[f] /\ tmp'[f] # None
  BY <1>5, NoFile DEF Target
<1>8. /\ THdrs' = PackedHdrs(p) /\ TActive' = PackedCount(p)
  BY <1>5, <1>6, <1>7 DEF THdrs, TActive
<1>9. /\ TTexts' = PackedTexts(p) /\ TIndex' = [n \in 1..Cardinality(Copied(p)) |-> n]
  BY <1>5, <1>6, <1>7 DEF TTexts, TIndex
<1>10. LET last == Renumbered(p, TLast) IN
       TLast' = IF last > PackedCount(p) THEN PackedCount(p) ELSE last
  BY <1>4, <1>5, <1>6, <1>7 DEF TLast
<1>11. UNCHANGED <<dir, job, fd, act, cur, left, msgs, stored, killed, seen, astray>>
  BY DEF Pack, history
<1>12. \A q \in Procs : fd'[q].jhr # Target("jhr")'
  BY <1>5, <1>6, <1>7, <1>11
<1>13. Swapping = {} /\ Swapping' # {}
  BY <1>0, <1>1, SwappingSteps DEF Current
<1> QED
  BY <1>1, <1>2, <1>3, <1>4, <1>8, <1>9, <1>10, <1>11, <1>12, <1>13

-----------------------------------------------------------------------------
(* Headers that were left without their end *)

\* What a program does to the headers of the base
LEMMA TSteps ==
  ASSUME Base, Orderly, ~Torn', NEW p \in Procs, Step(p), ~Pack(p)
  PROVE  /\ ~(Writes(p) /\ fd[p].jhr = Target("jhr")) => THdrs' = THdrs /\ TActive' = TActive
         /\ fd[p].jhr = Target("jhr") =>
             /\ Writes(p) => THdrs = Hdrs(p) /\ TActive = Active(p) /\ Target("jhr") # None
             /\ Create(p) => THdrs' = THdrs /\ TActive' = 0
             /\ AddIndex(p) \/ SetLastRead(p) => THdrs' = THdrs /\ TActive' = TActive
             /\ AddHeader(p) => THdrs' = Append(THdrs, NewHeader(p)) /\ TActive' = TActive
             /\ AddText(p) => /\ THdrs # <<>> /\ TActive' = TActive
                              /\ THdrs' = [THdrs EXCEPT ![Len(THdrs)] = TextHeader(p)]
             /\ AddFinal(p) => /\ THdrs # <<>> /\ TActive' = TActive
                               /\ THdrs' = [THdrs EXCEPT ![Len(THdrs)] = FinalHeader(p)]
             /\ AddCount(p) => THdrs' = THdrs /\ TActive' = (TActive + 1) % Wrap
             /\ DeleteCount(p) => THdrs' = THdrs /\ TActive' = (TActive + (-1)) % Wrap
             /\ Delete(p) => /\ TActive' = TActive
                             /\ \E k \in DOMAIN THdrs :
                                 /\ ~THdrs[k].del
                                 /\ THdrs' = [THdrs EXCEPT ![k] = [THdrs[k] EXCEPT !.del = TRUE]]
                                 /\ killed' = killed \cup {THdrs[k].msg}
<1>0. Types /\ StageOf(p) /\ WritingOf(p)
  BY DEF Base, Stage, Writing
<1>1. ~(Writes(p) /\ fd[p].jhr = Target("jhr")) => THdrs' = THdrs /\ TActive' = TActive
  BY TKeep
<1> SUFFICES ASSUME fd[p].jhr = Target("jhr"), Writes(p)
             PROVE
             /\ THdrs = Hdrs(p) /\ TActive = Active(p) /\ Target("jhr") # None
             /\ Create(p) => THdrs' = THdrs /\ TActive' = 0
             /\ AddIndex(p) \/ SetLastRead(p) => THdrs' = THdrs /\ TActive' = TActive
             /\ AddHeader(p) => THdrs' = Append(THdrs, NewHeader(p)) /\ TActive' = TActive
             /\ AddText(p) => /\ THdrs # <<>> /\ TActive' = TActive
                              /\ THdrs' = [THdrs EXCEPT ![Len(THdrs)] = TextHeader(p)]
             /\ AddFinal(p) => /\ THdrs # <<>> /\ TActive' = TActive
                               /\ THdrs' = [THdrs EXCEPT ![Len(THdrs)] = FinalHeader(p)]
             /\ AddCount(p) => THdrs' = THdrs /\ TActive' = (TActive + 1) % Wrap
             /\ DeleteCount(p) => THdrs' = THdrs /\ TActive' = (TActive + (-1)) % Wrap
             /\ Delete(p) => /\ TActive' = TActive
                             /\ \E k \in DOMAIN THdrs :
                                 /\ ~THdrs[k].del
                                 /\ THdrs' = [THdrs EXCEPT ![k] = [THdrs[k] EXCEPT !.del = TRUE]]
                                 /\ killed' = killed \cup {THdrs[k].msg}
  <2> DEFINE effect ==
             /\ Create(p) => THdrs' = THdrs /\ TActive' = 0
             /\ AddIndex(p) \/ SetLastRead(p) => THdrs' = THdrs /\ TActive' = TActive
             /\ AddHeader(p) => THdrs' = Append(THdrs, NewHeader(p)) /\ TActive' = TActive
             /\ AddText(p) => /\ THdrs # <<>> /\ TActive' = TActive
                              /\ THdrs' = [THdrs EXCEPT ![Len(THdrs)] = TextHeader(p)]
             /\ AddFinal(p) => /\ THdrs # <<>> /\ TActive' = TActive
                               /\ THdrs' = [THdrs EXCEPT ![Len(THdrs)] = FinalHeader(p)]
             /\ AddCount(p) => THdrs' = THdrs /\ TActive' = (TActive + 1) % Wrap
             /\ DeleteCount(p) => THdrs' = THdrs /\ TActive' = (TActive + (-1)) % Wrap
             /\ Delete(p) => /\ TActive' = TActive
                             /\ \E k \in DOMAIN THdrs :
                                 /\ ~THdrs[k].del
                                 /\ THdrs' = [THdrs EXCEPT ![k] = [THdrs[k] EXCEPT !.del = TRUE]]
                                 /\ killed' = killed \cup {THdrs[k].msg}
  <2>1. ~Writes(p) => effect
    BY DEF Writes
  <2> QED
    BY <1>1, <2>1
<1>2. Target("jhr") # None
  <2>1. pc[p] \notin {"closed", "swap"}
    BY DEF Writes, Create, AddIndex, AddHeader, AddText, AddFinal, AddCount, Adds, Delete,
           DeleteCount, SetLastRead, Goto
  <2> QED
    BY <1>0, <2>1 DEF StageOf
<1>3. Target("jhr")' = fd[p].jhr
  BY WritesTarget
<1>4. THdrs = Hdrs(p) /\ TActive = Active(p)
  BY <1>2 DEF THdrs, TActive, Hdrs, Active
<1>5. THdrs' = jhr'[fd[p].jhr].hdrs /\ TActive' = jhr'[fd[p].jhr].active
  BY <1>2, <1>3 DEF THdrs, TActive
<1>6. Create(p) => THdrs' = THdrs /\ TActive' = 0
  BY <1>0, <1>4, <1>5, CreateWrites
<1>7. AddIndex(p) \/ SetLastRead(p) => THdrs' = THdrs /\ TActive' = TActive
  BY <1>4, <1>5 DEF AddIndex, SetLastRead, Hdrs, Active
<1>8. AddHeader(p) => THdrs' = Append(THdrs, NewHeader(p)) /\ TActive' = TActive
  BY <1>0, <1>4, <1>5, AddHeaderWrites
<1>9. AddText(p) => /\ THdrs # <<>> /\ TActive' = TActive
                    /\ THdrs' = [THdrs EXCEPT ![Len(THdrs)] = TextHeader(p)]
  BY <1>0, <1>4, <1>5, AddTextWrites
<1>10. AddFinal(p) => /\ THdrs # <<>> /\ TActive' = TActive
                      /\ THdrs' = [THdrs EXCEPT ![Len(THdrs)] = FinalHeader(p)]
  BY <1>0, <1>4, <1>5, AddFinalWrites
<1>11. AddCount(p) => THdrs' = THdrs /\ TActive' = (TActive + 1) % Wrap
  <2>1. AddCount(p) => pc[p] \in LockPc \cup {"open"} /\ Count(p, 1)
    BY DEF AddCount, Adds, Goto, LockPc, Adding
  <2> QED
    BY <1>0, <1>4, <1>5, <2>1, CountTypes
<1>12. DeleteCount(p) => THdrs' = THdrs /\ TActive' = (TActive + (-1)) % Wrap
  <2>1. DeleteCount(p) => pc[p] \in LockPc \cup {"open"} /\ Count(p, -1)
    BY DEF DeleteCount, Goto, LockPc
  <2> QED
    BY <1>0, <1>4, <1>5, <2>1, CountTypes
<1>13. Delete(p) => /\ TActive' = TActive
                    /\ \E k \in DOMAIN THdrs :
                                 /\ ~THdrs[k].del
                                 /\ THdrs' = [THdrs EXCEPT ![k] = [THdrs[k] EXCEPT !.del = TRUE]]
                                 /\ killed' = killed \cup {THdrs[k].msg}
  <2> SUFFICES ASSUME Delete(p)
               PROVE  /\ TActive' = TActive
                      /\ \E k \in DOMAIN THdrs :
                                 /\ ~THdrs[k].del
                                 /\ THdrs' = [THdrs EXCEPT ![k] = [THdrs[k] EXCEPT !.del = TRUE]]
                                 /\ killed' = killed \cup {THdrs[k].msg}
    OBVIOUS
  <2>1. PICK k \in DOMAIN Hdrs(p) :
                /\ jhr'[fd[p].jhr].hdrs = [Hdrs(p) EXCEPT ![k] = [Hdrs(p)[k] EXCEPT !.del = TRUE]]
                /\ ~Hdrs(p)[k].del
                /\ killed' = killed \cup {Hdrs(p)[k].msg}
    BY <1>0, DeleteTypes
  <2>2. jhr'[fd[p].jhr].active = jhr[fd[p].jhr].active
    BY <1>0, DeleteTypes
  <2> QED
    BY <1>4, <1>5, <2>1, <2>2 DEF Active
<1> QED
  BY <1>2, <1>4, <1>6, <1>7, <1>8, <1>9, <1>10, <1>11, <1>12, <1>13

\* Other programs stay where they are, and one at most is at work on the base.
LEMMA AtOthers ==
  ASSUME Base, Orderly, ~Torn', NEW p \in Procs, Step(p), ~Pack(p), NEW q \in Procs, q # p,
         NEW where, where \subseteq LockPc
  PROVE  At(q, where)' <=> At(q, where)
<1>1. pc'[q] = pc[q] /\ fd'[q] = fd[q]
  BY OthersSame DEF Base
<1>2. "jhr" \in Files
  BY DEF Files
<1>3. pc[q] \in where => fd[q].jhr # None
  BY DEF Base, Stage, StageOf, LockPc, Adding
<1>4. \/ Target("jhr")' = Target("jhr")
      \/ Target("jhr") = None /\ Target("jhr")' \notin Used("jhr")
  BY <1>2, TargetStep
<1>5. fd[q].jhr \in Used("jhr")
  BY DEF Used
<1> QED
  BY <1>1, <1>3, <1>4, <1>5 DEF At

LEMMA Alone ==
  ASSUME Base, NEW p \in Procs, At(p, LockPc), NEW q \in Procs, q # p
  PROVE  ~At(q, LockPc)
BY DEF Base, Locking, At

\* Everything is copied when no header was left without its end, and when
\* headers are where their numbers and the index say.
LEMMA ReadsAll ==
  ASSUME Types, NEW p \in Procs, StageOf(p), pc[p] \in LockPc,
         \/ \A k \in DOMAIN Hdrs(p) : ~Hdrs(p)[k].tail
         \/ \A k \in DOMAIN Hdrs(p) : Hdrs(p)[k].num = k /\ k \in DOMAIN Index(p) /\ Index(p)[k] = k
  PROVE  /\ Read(p) = DOMAIN Hdrs(p) /\ Copied(p) = Undeleted(Hdrs(p))
         /\ (\A k \in DOMAIN Hdrs(p) : ~Hdrs(p)[k].tail) => ~Panics(p)
<1>1. Hdrs(p) \in Seq(Header) /\ DOMAIN Hdrs(p) = 1..Len(Hdrs(p)) /\ Len(Hdrs(p)) \in Nat
  BY HasFiles
<1>2. ASSUME NEW k \in DOMAIN Hdrs(p), NEW j \in 2..k
      PROVE  j \in DOMAIN Hdrs(p) /\ j - 1 \in DOMAIN Hdrs(p)
  BY <1>1
<1>3. \A k \in DOMAIN Hdrs(p) : Readable(p, k)
  BY <1>2 DEF Readable
<1>4. Read(p) = DOMAIN Hdrs(p)
  BY <1>3 DEF Read
<1>5. (\A k \in DOMAIN Hdrs(p) : ~Hdrs(p)[k].tail) => ~Panics(p)
  BY <1>4 DEF Panics
<1> QED
  BY <1>4, <1>5 DEF Copied, Undeleted

\* The marks of a program that dies while adding
LEMMA MarksStep ==
  ASSUME Marks, NEW p \in Procs, Step(p)
  PROVE  Marks'
<1>1. CASE Opens(p)
  BY <1>1, OpensFile DEF Marks, Hit
<1>2. CASE Closes(p)
  BY <1>2 DEF Closes, LockFails, UnLock, FindNext, Crash, Show, Leaves, Marks, Hit
<1>3. CASE Shows(p) \/ Lock(p) \/ Swap(p) \/ Pack(p)
  BY <1>3 DEF Shows, Show, Lock, Swap, Pack, Marks, Hit
<1>4. CASE Create(p) \/ DeleteCount(p) \/ SetLastRead(p) \/ Delete(p)
  BY <1>4 DEF Create, DeleteCount, SetLastRead, Delete, Marks, Hit
<1>5. CASE AddIndex(p)
  BY <1>5 DEF AddIndex, Numbering, Marks, Hit
<1>6. CASE AddHeader(p) \/ AddText(p) \/ AddFinal(p) \/ AddCount(p)
  BY <1>6 DEF AddHeader, AddText, AddFinal, AddCount, Marks, Hit
<1> QED
  BY <1>1, <1>2, <1>3, <1>4, <1>5, <1>6, StepKinds DEF Writes

\* With all headers finished a pack copies every message.
LEMMA NoTails ==
  ASSUME Base, Orderly, Tails, Marks, ~Torn', ~Hit({"tail"}), NEW p \in Procs, Pack(p)
  PROVE  /\ \A k \in DOMAIN Hdrs(p) : ~Hdrs(p)[k].tail
         /\ Read(p) = DOMAIN Hdrs(p) /\ Copied(p) = Undeleted(Hdrs(p)) /\ ~Panics(p)
<1>0. /\ THdrs = Hdrs(p) /\ ~Torn /\ pc[p] = "locked" /\ Current(p)
      /\ Types /\ StageOf(p)
  BY PackView DEF Base, Stage
<1>1. At(p, LockPc)
  BY <1>0, CurrentView DEF At, LockPc
<1>2. \A q \in Procs : ~At(q, {"final"})
  <2>1. \A q \in Procs : At(q, {"final"}) => At(q, LockPc) /\ q # p
    BY <1>0 DEF At, LockPc, Adding
  <2> QED
    BY <1>1, <2>1, Alone
<1>3. \A k \in DOMAIN Hdrs(p) : ~Hdrs(p)[k].tail
  BY <1>0, <1>2 DEF Tails
<1>4. pc[p] \in LockPc
  BY <1>0 DEF LockPc
<1> QED
  BY <1>0, <1>3, <1>4, ReadsAll

\* Which step a program takes from each place
LEMMA PcSteps ==
  ASSUME Types, NEW p \in Procs, Step(p)
  PROVE  /\ pc[p] = "final" => AddFinal(p) \/ Crash(p)
         /\ pc[p] = "header" => AddHeader(p) \/ Crash(p)
         /\ pc[p] = "text" => AddText(p) \/ Crash(p)
         /\ pc[p] = "count" => AddCount(p) \/ Crash(p)
         /\ pc[p] = "deleted" => DeleteCount(p) \/ Crash(p)
         /\ pc'[p] = "header" => AddIndex(p)
         /\ pc'[p] = "text" => AddHeader(p)
         /\ pc'[p] = "final" => AddText(p)
         /\ pc'[p] = "count" => AddFinal(p)
         /\ pc'[p] = "deleted" => Delete(p)
<1>0. pc \in [Procs -> States]
  BY DEF Types
<1>1. CASE Opens(p) \/ Closes(p)
  BY <1>0, <1>1, ClosesFiles DEF Opens, Closes, Start, Again, OpenNext, OpenHdr, Close,
     LockFails, UnLock, FindNext, Show
<1>2. CASE Shows(p) \/ Lock(p) \/ Swap(p) \/ Pack(p)
  BY <1>0, <1>2 DEF Shows, Show, Lock, Swap, Pack, Goto
<1>3. CASE Create(p) \/ DeleteCount(p) \/ SetLastRead(p) \/ Delete(p)
  BY Zenon, <1>0, <1>3 DEF Create, DeleteCount, SetLastRead, Delete, Goto
<1>4. CASE AddIndex(p) \/ AddHeader(p) \/ AddText(p) \/ AddFinal(p) \/ AddCount(p)
  BY Zenon, <1>0, <1>4 DEF AddIndex, AddHeader, AddText, AddFinal, AddCount, Adds, Goto
<1> QED
  BY <1>1, <1>2, <1>3, <1>4, StepKinds DEF Writes

\* The final header comes before the next message: both are written under one lock.
LEMMA TailsStep ==
  ASSUME Base, Orderly, Tails, NEW p \in Procs, Step(p)
  PROVE  Tails'
<1>0. Types /\ StageOf(p) /\ WritingOf(p) /\ Room
  BY DEF Base, Stage, Writing
<1> SUFFICES ASSUME ~Torn', ~Hit({"tail"})', NEW k \in DOMAIN THdrs', THdrs'[k].tail
             PROVE  k = Len(THdrs') /\ \E q \in Procs : At(q, {"final"})'
  BY DEF Tails
<1>1. /\ ~Torn /\ ~Hit({"tail"})
      /\ \A j \in DOMAIN THdrs : THdrs[j].tail =>
             j = Len(THdrs) /\ \E q \in Procs : At(q, {"final"})
  BY HitGrows DEF Tails
<1>2. {"final"} \subseteq LockPc
  BY DEF LockPc, Adding
<1>3. THdrs \in Seq(Header) /\ DOMAIN THdrs = 1..Len(THdrs) /\ Len(THdrs) \in Nat
  BY <1>0, TTypes
<1>a. At(p, {"final"}) => AddFinal(p)
  BY <1>0, PcSteps DEF At, Crash, Leaves, Hit
<1>4. ASSUME Len(THdrs') = Len(THdrs), k \in DOMAIN THdrs, THdrs[k].tail, ~Pack(p), ~AddFinal(p)
      PROVE  k = Len(THdrs') /\ \E q \in Procs : At(q, {"final"})'
  <2>1. PICK q \in Procs : At(q, {"final"})
    BY <1>1, <1>4
  <2>2. q # p
    BY <1>a, <1>4, <2>1
  <2> QED
    BY <1>1, <1>2, <1>4, <2>1, <2>2, AtOthers
<1>5. CASE Pack(p)
  <2>1. THdrs' = PackedHdrs(p)
    BY <1>5, PackView
  <2>2. pc[p] \in LockPc \cup {"open"}
    BY <1>5 DEF Pack, Goto, LockPc
  <2> QED
    BY <1>0, <2>1, <2>2, PackedIs
<1>6. CASE ~Pack(p) /\ ~(Writes(p) /\ fd[p].jhr = Target("jhr"))
  <2>1. THdrs' = THdrs
    BY <1>6, TSteps
  <2>2. CASE AddFinal(p)
    <3>1. fd[p].jhr # Target("jhr")
      BY <1>6, <2>2 DEF Writes
    <3>2. PICK q \in Procs : At(q, {"final"})
      BY <1>1, <2>1
    <3>3. q # p
      BY <3>1, <3>2 DEF At
    <3> QED
      BY <1>1, <1>2, <1>6, <2>1, <3>2, <3>3, AtOthers
  <2>3. CASE ~AddFinal(p)
    BY <1>4, <1>6, <2>1, <2>3
  <2> QED
    BY <2>2, <2>3
<1>7. CASE ~Pack(p) /\ Writes(p) /\ fd[p].jhr = Target("jhr")
  <2>0. pc[p] \in LockPc => \A q \in Procs : q # p => ~At(q, {"final"})
    <3>1. pc[p] \in LockPc => At(p, LockPc)
      BY <1>7 DEF At
    <3>2. \A q \in Procs : At(q, {"final"}) => At(q, LockPc)
      BY <1>2 DEF At
    <3> QED
      BY <3>1, <3>2, Alone
  <2>1. CASE Create(p) \/ AddIndex(p) \/ SetLastRead(p) \/ AddCount(p) \/ DeleteCount(p)
    <3>1. THdrs' = THdrs
      BY <1>7, <2>1, TSteps
    <3>2. ~AddFinal(p)
      BY <2>1 DEF Create, AddIndex, SetLastRead, AddCount, DeleteCount, AddFinal, Adds, Goto
    <3> QED
      BY <1>4, <1>7, <3>1, <3>2
  <2>2. CASE Delete(p)
    <3>1. PICK d \in DOMAIN THdrs : THdrs' = [THdrs EXCEPT ![d] = [THdrs[d] EXCEPT !.del = TRUE]]
      BY <1>7, <2>2, TSteps
    <3>2. Len(THdrs') = Len(THdrs) /\ DOMAIN THdrs' = DOMAIN THdrs
      BY <1>3, <3>1
    <3>3. THdrs[k].tail
      <4>1. THdrs[k] \in Header /\ THdrs[d] \in Header
        BY <1>3, <3>1, <3>2
      <4> QED
        BY <3>1, <3>2, <4>1 DEF Header
    <3>4. ~AddFinal(p)
      BY <2>2 DEF Delete, AddFinal, Adds, Goto
    <3> QED
      BY <1>4, <1>7, <3>2, <3>3, <3>4
  <2>3. CASE AddHeader(p)
    <3>1. THdrs' = Append(THdrs, NewHeader(p)) /\ NewHeader(p) \in Header
      BY <1>0, <1>7, <2>3, TSteps, AddHeaderWrites
    <3>2. pc[p] \in LockPc /\ ~At(p, {"final"})
      BY <2>3 DEF AddHeader, Adds, Goto, LockPc, Adding, At
    <3>3. \A q \in Procs : ~At(q, {"final"})
      BY <2>0, <3>2
    <3>4. \A j \in DOMAIN THdrs : ~THdrs[j].tail
      BY <1>1, <3>3
    <3>5. ~NewHeader(p).tail
      BY DEF NewHeader
    <3> QED
      BY <1>3, <3>1, <3>4, <3>5, AppendProperties
  <2>4. CASE AddText(p)
    <3>1. /\ THdrs' = [THdrs EXCEPT ![Len(THdrs)] = TextHeader(p)] /\ THdrs # <<>>
          /\ pc'[p] = "final"
      BY <1>0, <1>7, <2>4, TSteps, AddTextWrites
    <3>2. Len(THdrs') = Len(THdrs) /\ DOMAIN THdrs' = DOMAIN THdrs
      BY <1>3, <3>1
    <3>3. k = Len(THdrs')
      BY <1>1, <3>1, <3>2
    <3>4. fd'[p].jhr = Target("jhr")'
      BY <1>7, WritesKeep, WritesTarget
    <3> QED
      BY <3>1, <3>3, <3>4 DEF At
  <2>5. CASE AddFinal(p)
    <3>1. /\ THdrs' = [THdrs EXCEPT ![Len(THdrs)] = FinalHeader(p)] /\ THdrs # <<>>
          /\ Last(Hdrs(p)) \in Header
      BY <1>0, <1>7, <2>5, TSteps, AddFinalWrites
    <3>2. Len(THdrs') = Len(THdrs) /\ DOMAIN THdrs' = DOMAIN THdrs
      BY <1>3, <3>1
    <3>3. ~FinalHeader(p).tail
      BY <3>1 DEF FinalHeader, Header
    <3>4. k # Len(THdrs)
      BY <1>3, <3>1, <3>2, <3>3
    <3>5. THdrs'[k] = THdrs[k]
      BY <3>1, <3>2, <3>4
    <3> QED
      BY <1>1, <3>2, <3>4, <3>5
  <2> QED
    BY <1>7, <2>1, <2>2, <2>3, <2>4, <2>5 DEF Writes
<1> QED
  BY <1>5, <1>6, <1>7

-----------------------------------------------------------------------------
(* The count of messages *)

\* How writing to the headers changes the number of those that are not deleted
LEMMA UndeletedFinite ==
  ASSUME NEW h \in Seq(Header)
  PROVE  /\ Undeleted(h) \subseteq 1..Len(h) /\ IsFiniteSet(Undeleted(h))
         /\ Cardinality(Undeleted(h)) \in Nat /\ Cardinality(Undeleted(h)) <= Len(h)
<1>1. Len(h) \in Nat /\ DOMAIN h = 1..Len(h)
  OBVIOUS
<1>2. Undeleted(h) \subseteq 1..Len(h)
  BY <1>1 DEF Undeleted
<1>3. IsFiniteSet(1..Len(h)) /\ Cardinality(1..Len(h)) = Len(h)
  BY <1>1, FS_Interval
<1> QED
  BY <1>1, <1>2, <1>3, FS_Subset, FS_CardinalityType

LEMMA UndeletedRewritten ==
  ASSUME NEW h \in Seq(Header), NEW k \in DOMAIN h, NEW x \in Header, x.del = h[k].del
  PROVE  /\ Undeleted([h EXCEPT ![k] = x]) = Undeleted(h)
         /\ Len([h EXCEPT ![k] = x]) = Len(h) /\ DOMAIN [h EXCEPT ![k] = x] = DOMAIN h
BY DEF Undeleted

LEMMA UndeletedAppended ==
  ASSUME NEW h \in Seq(Header), NEW x \in Header, ~x.del
  PROVE  /\ Undeleted(Append(h, x)) = Undeleted(h) \cup {Len(h) + 1}
         /\ Cardinality(Undeleted(Append(h, x))) = Cardinality(Undeleted(h)) + 1
<1>1. /\ DOMAIN Append(h, x) = 1..(Len(h) + 1) /\ DOMAIN h = 1..Len(h) /\ Len(h) \in Nat
      /\ Append(h, x)[Len(h) + 1] = x /\ \A k \in DOMAIN h : Append(h, x)[k] = h[k]
  BY AppendProperties
<1>2. Undeleted(Append(h, x)) = Undeleted(h) \cup {Len(h) + 1}
  BY <1>1 DEF Undeleted
<1>3. Len(h) + 1 \notin Undeleted(h)
  BY <1>1 DEF Undeleted
<1> QED
  BY <1>2, <1>3, UndeletedFinite, FS_AddElement

LEMMA UndeletedDeleted ==
  ASSUME NEW h \in Seq(Header), NEW k \in DOMAIN h, ~h[k].del
  PROVE  LET g == [h EXCEPT ![k] = [h[k] EXCEPT !.del = TRUE]] IN
         /\ Undeleted(g) = Undeleted(h) \ {k}
         /\ Cardinality(Undeleted(h)) = Cardinality(Undeleted(g)) + 1
         /\ Len(g) = Len(h) /\ DOMAIN g = DOMAIN h
<1> DEFINE x == [h[k] EXCEPT !.del = TRUE]
           g == [h EXCEPT ![k] = x]
<1>1. h[k] \in Header
  OBVIOUS
<1>2. x.del
  BY <1>1 DEF Header
<1> HIDE DEF x
<1>3. /\ DOMAIN g = DOMAIN h /\ Len(g) = Len(h) /\ g[k] = x
      /\ \A j \in DOMAIN h : j # k => g[j] = h[j]
  OBVIOUS
<1> HIDE DEF g
<1>4. Undeleted(g) = Undeleted(h) \ {k} /\ k \in Undeleted(h)
  BY <1>2, <1>3 DEF Undeleted
<1>5. Cardinality(Undeleted(h)) = Cardinality(Undeleted(g)) + 1
  <2>1. IsFiniteSet(Undeleted(h)) /\ Cardinality(Undeleted(h)) \in Nat
    BY UndeletedFinite
  <2>2. Cardinality(Undeleted(h) \ {k}) = Cardinality(Undeleted(h)) - 1
    BY <1>4, <2>1, FS_RemoveElement
  <2> QED
    BY <1>4, <2>1, <2>2
<1> QED
  BY <1>3, <1>4, <1>5 DEF g, x

\* The messages that are not deleted, and Counting without its condition
Und == Cardinality(Undeleted(THdrs))

Sums ==
    /\ (\A p \in Procs : ~At(p, {"text", "final", "count", "deleted"})) => TActive = Und
    /\ \A p \in Procs : At(p, {"text", "final", "count"}) => TActive + 1 = Und
    /\ \A p \in Procs : At(p, {"deleted"}) => TActive = Und + 1
LEMMA CountingIs == Counting <=> (~Torn /\ ~Hit({"wiped", "add", "delete"}) => Sums)
BY DEF Counting, Sums, Und

\* A pack counts what it copies.
LEMMA PackCounts ==
  ASSUME Base, Orderly, Tails, Marks, Counting, ~Torn', ~Hit({"wiped", "add", "delete"})',
         NEW p \in Procs, Pack(p)
  PROVE  TActive' = Und'
<1>0. /\ THdrs = Hdrs(p) /\ TActive = Active(p) /\ ~Torn /\ pc[p] = "locked" /\ Current(p)
      /\ THdrs' = PackedHdrs(p) /\ TActive' = PackedCount(p) /\ mishap' = mishap
      /\ Types /\ StageOf(p)
  BY PackView DEF Base, Stage
<1>1. ~Hit({"wiped", "add", "delete"}) /\ ~Hit({"tail"})
  <2>1. ~Hit({"wiped", "add", "delete"}) /\ ~Hit({"add"})
    BY <1>0 DEF Hit
  <2>2. ~Hit({"entry", "tail"})
    BY <2>1 DEF Marks
  <2> QED
    BY <2>1, <2>2 DEF Hit
<1>2. Copied(p) = Undeleted(Hdrs(p)) /\ ~Panics(p)
  BY <1>1, NoTails
<1>3. Undeleted(PackedHdrs(p)) = 1..Cardinality(Copied(p)) /\ Cardinality(Copied(p)) \in Nat
  <2>1. pc[p] \in LockPc \cup {"open"}
    BY <1>0 DEF LockPc
  <2>2. /\ DOMAIN PackedHdrs(p) = 1..Cardinality(Copied(p))
        /\ \A n \in 1..Cardinality(Copied(p)) : ~PackedHdrs(p)[n].del
    BY <1>0, <2>1, PackedIs
  <2>3. Cardinality(Copied(p)) \in Nat
    BY <1>0, <2>1, ReadRange
  <2> QED
    BY <2>2, <2>3 DEF Undeleted
<1>4. Cardinality(Undeleted(PackedHdrs(p))) = Cardinality(Copied(p))
  <2> DEFINE n == Cardinality(Copied(p))
  <2>1. n \in Nat /\ Undeleted(PackedHdrs(p)) = 1..n
    BY <1>3
  <2> HIDE DEF n
  <2>2. Cardinality(1..n) = n
    BY <2>1, FS_Interval
  <2> QED
    BY <2>1, <2>2 DEF n
<1>5. TActive = Und
  <2>1. At(p, LockPc)
    BY <1>0, CurrentView DEF At, LockPc
  <2>2. \A q \in Procs : ~At(q, {"text", "final", "count", "deleted"})
    <3>1. \A q \in Procs : At(q, {"text", "final", "count", "deleted"}) => At(q, LockPc) /\ q # p
      BY <1>0 DEF At, LockPc, Adding
    <3> QED
      BY <2>1, <3>1, Alone
  <2> QED
    BY <1>0, <1>1, <2>2 DEF Counting, Und
<1>6. CASE Copied(p) = {}
  <2>1. Cardinality(Copied(p)) = 0
    BY <1>6, FS_EmptySet
  <2>2. TActive' = TActive
    BY <1>0, <1>6 DEF PackedCount
  <2>3. Und' = 0 /\ Und = 0
    BY <1>0, <1>2, <1>4, <2>1 DEF Und
  <2> QED
    BY <1>5, <2>2, <2>3
<1>7. CASE Copied(p) # {}
  <2>1. TActive' = Cardinality(Copied(p))
    BY <1>0, <1>2, <1>7 DEF PackedCount
  <2> QED
    BY <1>0, <1>4, <2>1 DEF Und
<1> QED
  BY <1>6, <1>7

\* Each of the writes of a message or a deletion moves the count or the messages,
\* and no other program is between its own two.
LEMMA CountingStep ==
  ASSUME Base, Orderly, Tails, Marks, Counting, NEW p \in Procs, Step(p)
  PROVE  Counting'
<1>0. Types /\ StageOf(p) /\ WritingOf(p) /\ Room /\ pc \in [Procs -> States]
  BY DEF Base, Stage, Writing, Types
<1> SUFFICES ASSUME ~Torn', ~Hit({"wiped", "add", "delete"})'
             PROVE  Sums'
  <2>1. Counting' <=> (~Torn' /\ ~Hit({"wiped", "add", "delete"})' => Sums')
    BY DEF Counting, Sums, Und
  <2> QED
    BY <2>1
<1>1. /\ ~Torn /\ ~Hit({"wiped", "add", "delete"})
      /\ (\A q \in Procs : ~At(q, {"text", "final", "count", "deleted"})) => TActive = Und
      /\ \A q \in Procs : At(q, {"text", "final", "count"}) => TActive + 1 = Und
      /\ \A q \in Procs : At(q, {"deleted"}) => TActive = Und + 1
  BY HitGrows, CountingIs DEF Sums
<1>2. THdrs \in Seq(Header) /\ Und \in Nat /\ Und <= MaxMsgs /\ TActive \in 0..(Wrap - 1)
      /\ MaxMsgs < Wrap /\ MaxMsgs \in Nat /\ Wrap \in Nat
      /\ Len(THdrs) \in Nat /\ DOMAIN THdrs = 1..Len(THdrs)
  <2>1. THdrs \in Seq(Header) /\ Len(THdrs) \in Nat /\ Len(THdrs) <= MaxMsgs
        /\ DOMAIN THdrs = 1..Len(THdrs) /\ TActive \in 0..(Wrap - 1)
    BY <1>0, TTypes
  <2>2. Cardinality(Undeleted(THdrs)) \in Nat /\ Cardinality(Undeleted(THdrs)) <= Len(THdrs)
    BY <2>1, UndeletedFinite
  <2>3. MaxMsgs < Wrap /\ MaxMsgs \in Nat /\ Wrap \in Nat
    BY <1>0, Bounds DEF Types
  <2> QED
    BY <2>1, <2>2, <2>3 DEF Und
<1>3. CASE Pack(p)
  <2>1. \A q \in Procs : fd'[q].jhr # Target("jhr")'
    BY <1>3, PackView
  <2>2. TActive' = Und'
    BY <1>3, PackCounts
  <2> QED
    BY <2>1, <2>2 DEF At, Sums
<1>4. CASE ~Pack(p) /\ ~(Writes(p) /\ fd[p].jhr = Target("jhr"))
  <2>1. THdrs' = THdrs /\ TActive' = TActive /\ Und' = Und
    BY <1>4, TSteps DEF Und
  <2>2. ASSUME NEW where,
               where \in {{"text", "final", "count", "deleted"}, {"text", "final", "count"}, {"deleted"}},
               NEW q \in Procs
        PROVE  At(q, where)' <=> At(q, where)
    <3>0. where \subseteq LockPc /\ where \subseteq {"text", "final", "count", "deleted"}
      BY <2>2 DEF LockPc, Adding
    <3>1. CASE q # p
      BY <1>4, <3>0, <3>1, AtOthers
    <3>2. CASE q = p
      <4>1. ASSUME At(p, where) PROVE FALSE
        <5>1. pc[p] \in {"text", "final", "count", "deleted"} /\ fd[p].jhr = Target("jhr")
          BY <3>0, <4>1 DEF At
        <5>2. AddFinal(p) \/ AddText(p) \/ AddCount(p) \/ DeleteCount(p) \/ Crash(p)
          BY <1>0, <5>1, PcSteps
        <5>3. ~Crash(p)
          BY <5>1 DEF Crash, Leaves, Hit
        <5> QED
          BY <1>4, <5>1, <5>2, <5>3 DEF Writes
      <4>2. ASSUME At(p, where)' PROVE FALSE
        <5>1. pc'[p] \in {"text", "final", "count", "deleted"} /\ fd'[p].jhr = Target("jhr")'
          BY <3>0, <4>2 DEF At
        <5>2. AddHeader(p) \/ AddText(p) \/ AddFinal(p) \/ Delete(p)
          BY <1>0, <5>1, PcSteps
        <5>3. Writes(p)
          BY <5>2 DEF Writes
        <5>4. fd' = fd /\ Target("jhr")' = Target("jhr")
          BY <5>3, WritesKeep, WritesTarget
        <5> QED
          BY <1>4, <5>1, <5>3, <5>4
      <4> QED
        BY <3>2, <4>1, <4>2
    <3> QED
      BY <3>1, <3>2
  <2>3. ASSUME NEW q \in Procs
        PROVE  /\ At(q, {"text", "final", "count", "deleted"})' <=> At(q, {"text", "final", "count", "deleted"})
               /\ At(q, {"text", "final", "count"})' <=> At(q, {"text", "final", "count"})
               /\ At(q, {"deleted"})' <=> At(q, {"deleted"})
    BY <2>2
  <2> QED
    BY <1>1, <2>1, <2>3 DEF Sums
<1>5. CASE ~Pack(p) /\ Writes(p) /\ fd[p].jhr = Target("jhr")
  <2>0. fd'[p].jhr = Target("jhr")'
    BY <1>5, WritesKeep, WritesTarget
  <2>a. ASSUME pc[p] \in LockPc, NEW q \in Procs, q # p
        PROVE  /\ ~At(q, {"text", "final", "count", "deleted"})
               /\ ~At(q, {"text", "final", "count"}) /\ ~At(q, {"deleted"})
    <3>1. ~At(q, LockPc)
      BY <1>5, <2>a, Alone DEF At
    <3> QED
      BY <3>1 DEF At, LockPc, Adding
  <2>b. ASSUME NEW q \in Procs, q # p
        PROVE  /\ At(q, {"text", "final", "count", "deleted"})' <=> At(q, {"text", "final", "count", "deleted"})
               /\ At(q, {"text", "final", "count"})' <=> At(q, {"text", "final", "count"})
               /\ At(q, {"deleted"})' <=> At(q, {"deleted"})
    <3>1. {"text", "final", "count", "deleted"} \subseteq LockPc
      BY DEF LockPc, Adding
    <3>2. {"text", "final", "count"} \subseteq LockPc
      BY DEF LockPc, Adding
    <3>3. {"deleted"} \subseteq LockPc
      BY DEF LockPc
    <3> QED
      BY <1>5, <2>b, <3>1, <3>2, <3>3, AtOthers
  <2>c. ASSUME pc[p] \in LockPc, NEW q \in Procs, q # p
        PROVE  /\ ~At(q, {"text", "final", "count", "deleted"})'
               /\ ~At(q, {"text", "final", "count"})' /\ ~At(q, {"deleted"})'
    BY <2>a, <2>b, <2>c
  \* Nobody is in the middle of a change before, and nobody is after.
  <2>d. ASSUME pc[p] \in LockPc, pc'[p] \notin {"text", "final", "count", "deleted"}, TActive' = Und'
        PROVE  Sums'
    <3>1. ~At(p, {"text", "final", "count"})' /\ ~At(p, {"deleted"})'
      BY <2>d DEF At
    <3> QED
      BY <2>c, <2>d, <3>1 DEF Sums
  <2>e. ASSUME pc[p] \in LockPc, pc'[p] \in {"text", "final", "count"}, TActive' + 1 = Und'
        PROVE  Sums'
    <3>1. At(p, {"text", "final", "count", "deleted"})' /\ ~At(p, {"deleted"})'
      BY <2>0, <2>e DEF At
    <3> QED
      BY <2>c, <2>e, <3>1 DEF Sums
  <2>1. CASE Create(p)
    <3>1. THdrs' = THdrs /\ TActive' = 0 /\ THdrs = Hdrs(p)
      BY <1>5, <2>1, TSteps
    <3>2. Hdrs(p) = <<>>
      BY <2>1 DEF Create, Hit
    <3>3. Und' = 0
      <4>1. Undeleted(THdrs) = {}
        BY <3>1, <3>2 DEF Undeleted
      <4> QED
        BY <3>1, <4>1, FS_EmptySet DEF Und
    <3>4. ASSUME NEW q \in Procs
          PROVE  ~At(q, {"text", "final", "count"})' /\ ~At(q, {"deleted"})'
      <4>1. CASE q = p
        <5>1. pc'[p] = "files"
          BY <1>0, <2>1 DEF Create, Goto
        <5> QED
          BY <4>1, <5>1 DEF At
      <4>2. CASE q # p
        <5>1. fd[q].jhr = fd[p].jhr => Hdrs(q) = <<>>
          BY <3>2 DEF Hdrs
        <5>2. ~At(q, {"text", "final", "count", "deleted"})
          BY <1>5, <5>1 DEF At, Base, Writing, WritingOf
        <5>3. ~At(q, {"text", "final", "count"}) /\ ~At(q, {"deleted"})
          BY <5>2 DEF At
        <5> QED
          BY <2>b, <4>2, <5>3
      <4> QED
        BY <4>1, <4>2
    <3> QED
      BY <3>1, <3>3, <3>4 DEF Sums
  <2>2. CASE AddIndex(p) \/ SetLastRead(p)
    <3>1. THdrs' = THdrs /\ TActive' = TActive /\ Und' = Und
      BY <1>5, <2>2, TSteps DEF Und
    <3>2. pc[p] = "locked" /\ pc'[p] \in {"header", "unlock"}
      BY <1>0, <2>2 DEF AddIndex, Adds, SetLastRead, Goto
    <3>3. pc[p] \in LockPc
      BY <3>2 DEF LockPc
    <3>4. \A q \in Procs : ~At(q, {"text", "final", "count", "deleted"})
      <4>1. ~At(p, {"text", "final", "count", "deleted"})
        BY <3>2 DEF At
      <4> QED
        BY <2>a, <3>3, <4>1
    <3>5. TActive' = Und'
      BY <1>1, <3>1, <3>4
    <3> QED
      BY <2>d, <3>2, <3>3, <3>5
  <2>3. CASE AddHeader(p)
    <3>1. /\ THdrs' = Append(THdrs, NewHeader(p)) /\ TActive' = TActive
          /\ NewHeader(p) \in Header /\ pc[p] = "header" /\ pc'[p] = "text" /\ pc[p] \in LockPc
      BY <1>0, <1>5, <2>3, TSteps, AddHeaderWrites
    <3>2. \A q \in Procs : ~At(q, {"text", "final", "count", "deleted"})
      <4>1. ~At(p, {"text", "final", "count", "deleted"})
        BY <3>1 DEF At
      <4> QED
        BY <2>a, <3>1, <4>1
    <3>3. Und' = Und + 1
      <4>1. ~NewHeader(p).del
        BY DEF NewHeader
      <4> QED
        BY <1>2, <3>1, <4>1, UndeletedAppended DEF Und
    <3>4. TActive' + 1 = Und'
      BY <1>1, <3>1, <3>2, <3>3
    <3> QED
      BY <2>e, <3>1, <3>4
  <2>4. CASE AddText(p) \/ AddFinal(p)
    <3>1. PICK h \in Header : /\ THdrs' = [THdrs EXCEPT ![Len(THdrs)] = h] /\ TActive' = TActive
                              /\ THdrs # <<>> /\ h.del = Last(Hdrs(p)).del /\ THdrs = Hdrs(p)
      <4>1. AddText(p) => TextHeader(p) \in Header /\ TextHeader(p).del = Last(Hdrs(p)).del
        BY <1>0, AddTextWrites DEF TextHeader, Header
      <4>2. AddFinal(p) => FinalHeader(p) \in Header /\ FinalHeader(p).del = Last(Hdrs(p)).del
        BY <1>0, AddFinalWrites DEF FinalHeader, Header
      <4> QED
        BY <1>5, <2>4, <4>1, <4>2, TSteps
    <3>2. Len(THdrs) \in DOMAIN THdrs /\ Last(Hdrs(p)) = THdrs[Len(THdrs)]
      BY <1>2, <3>1 DEF Last
    <3>3. Und' = Und
      <4>1. h.del = THdrs[Len(THdrs)].del
        BY <3>1, <3>2
      <4>2. Undeleted([THdrs EXCEPT ![Len(THdrs)] = h]) = Undeleted(THdrs)
        BY <1>2, <3>2, <4>1, UndeletedRewritten
      <4> QED
        BY <3>1, <4>2 DEF Und
    <3>4. pc[p] \in {"text", "final"} /\ pc'[p] \in {"final", "count"}
      BY <1>0, <2>4 DEF AddText, AddFinal, Adds, Goto
    <3>5. pc[p] \in LockPc /\ At(p, {"text", "final", "count"})
      BY <1>5, <3>4 DEF LockPc, Adding, At
    <3>6. TActive' + 1 = Und'
      BY <1>1, <3>1, <3>3, <3>5
    <3> QED
      BY <2>e, <3>4, <3>5, <3>6
  <2>5. CASE AddCount(p)
    <3>1. THdrs' = THdrs /\ TActive' = (TActive + 1) % Wrap /\ Und' = Und
      BY <1>5, <2>5, TSteps DEF Und
    <3>2. pc[p] = "count" /\ pc'[p] = "unlock"
      BY <1>0, <2>5 DEF AddCount, Adds, Goto
    <3>3. pc[p] \in LockPc /\ At(p, {"text", "final", "count"})
      BY <1>5, <3>2 DEF LockPc, Adding, At
    <3>4. TActive + 1 = Und
      BY <1>1, <3>3
    <3>5. Und % Wrap = Und
      BY <1>2
    <3>6. TActive' = Und'
      BY <3>1, <3>4, <3>5
    <3> QED
      BY <2>d, <3>2, <3>3, <3>6
  <2>6. CASE DeleteCount(p)
    <3>1. THdrs' = THdrs /\ TActive' = (TActive + (-1)) % Wrap /\ Und' = Und
      BY <1>5, <2>6, TSteps DEF Und
    <3>2. pc[p] = "deleted" /\ pc'[p] = "locked"
      BY <1>0, <2>6 DEF DeleteCount, Goto
    <3>3. pc[p] \in LockPc /\ At(p, {"deleted"})
      BY <1>5, <3>2 DEF LockPc, At
    <3>4. TActive = Und + 1
      BY <1>1, <3>3
    <3>5. TActive + (-1) = Und /\ Und % Wrap = Und
      BY <1>2, <3>4
    <3>6. TActive' = Und'
      BY <3>1, <3>5
    <3> QED
      BY <2>d, <3>2, <3>3, <3>6
  <2>7. CASE Delete(p)
    <3>1. PICK k \in DOMAIN THdrs :
                      /\ ~THdrs[k].del
                      /\ THdrs' = [THdrs EXCEPT ![k] = [THdrs[k] EXCEPT !.del = TRUE]]
                      /\ TActive' = TActive
      BY <1>5, <2>7, TSteps
    <3>2. pc[p] = "locked" /\ pc'[p] = "deleted"
      BY <1>0, <2>7 DEF Delete, Goto
    <3>3. pc[p] \in LockPc
      BY <3>2 DEF LockPc
    <3>4. \A q \in Procs : ~At(q, {"text", "final", "count", "deleted"})
      <4>1. ~At(p, {"text", "final", "count", "deleted"})
        BY <3>2 DEF At
      <4> QED
        BY <2>a, <3>3, <4>1
    <3>5. Und = Und' + 1
      BY <1>2, <3>1, UndeletedDeleted DEF Und
    <3>6. TActive' = Und' + 1
      BY <1>1, <3>1, <3>4, <3>5
    <3>7. At(p, {"text", "final", "count", "deleted"})' /\ ~At(p, {"text", "final", "count"})'
      BY <2>0, <3>2 DEF At
    <3> QED
      BY <2>c, <3>3, <3>6, <3>7 DEF Sums
  <2> QED
    BY <1>5, <2>1, <2>2, <2>3, <2>4, <2>5, <2>6, <2>7 DEF Writes
<1> QED
  BY <1>3, <1>4, <1>5

-----------------------------------------------------------------------------
(* Numbers *)

\* What a step leaves of the headers that are there
LEMMA THdrsKept ==
  ASSUME Base, Orderly, ~Torn', NEW p \in Procs, Step(p), ~Pack(p),
         ~(AddHeader(p) /\ fd[p].jhr = Target("jhr"))
  PROVE  /\ Len(THdrs') = Len(THdrs) /\ DOMAIN THdrs' = DOMAIN THdrs
         /\ \A k \in DOMAIN THdrs :
                /\ THdrs'[k].num = THdrs[k].num /\ THdrs'[k].msg = THdrs[k].msg
                /\ THdrs[k].done => THdrs'[k].done
                /\ \/ THdrs'[k].del = THdrs[k].del
                   \/ /\ THdrs'[k].del /\ killed' = killed \cup {THdrs[k].msg}
                /\ \/ THdrs'[k].txt = THdrs[k].txt
                   \/ /\ AddText(p) /\ fd[p].jhr = Target("jhr") /\ THdrs[k].msg = cur[p]
                      /\ THdrs'[k].txt = Len(Texts(p)) + 1
<1>0. Types /\ StageOf(p) /\ WritingOf(p) /\ Room
  BY DEF Base, Stage, Writing
<1>1. THdrs \in Seq(Header) /\ DOMAIN THdrs = 1..Len(THdrs) /\ Len(THdrs) \in Nat
  BY <1>0, TTypes
<1>2. CASE THdrs' = THdrs
  BY <1>2
<1>3. CASE THdrs' # THdrs
  <2>1. Writes(p) /\ fd[p].jhr = Target("jhr") /\ THdrs = Hdrs(p)
    BY <1>3, TSteps
  <2>2. AddText(p) \/ AddFinal(p) \/ Delete(p)
    BY <1>3, <2>1, TSteps DEF Writes
  <2>3. CASE AddText(p) \/ AddFinal(p)
    <3>1. PICK h \in Header :
              /\ THdrs' = [THdrs EXCEPT ![Len(THdrs)] = h] /\ THdrs # <<>>
              /\ \/ AddText(p) /\ h = TextHeader(p)
                 \/ AddFinal(p) /\ h = FinalHeader(p)
      BY <1>0, <2>1, <2>3, TSteps, AddTextWrites, AddFinalWrites
    <3>2. /\ Len(THdrs) \in DOMAIN THdrs /\ Last(Hdrs(p)) = THdrs[Len(THdrs)]
          /\ THdrs[Len(THdrs)] \in Header
      BY <1>1, <2>1, <3>1 DEF Last
    <3>3. /\ h.num = THdrs[Len(THdrs)].num /\ h.msg = THdrs[Len(THdrs)].msg
          /\ h.del = THdrs[Len(THdrs)].del
          /\ THdrs[Len(THdrs)].done => h.done
          /\ \/ h.txt = THdrs[Len(THdrs)].txt
             \/ AddText(p) /\ h.txt = Len(Texts(p)) + 1
      <4> DEFINE g == THdrs[Len(THdrs)]
      <4>1. g \in Header /\ Last(Hdrs(p)) = g
        BY <3>2
      <4> HIDE DEF g
      <4>2. CASE AddText(p) /\ h = TextHeader(p)
        <5>1. h = [g EXCEPT !.tail = TRUE, !.txt = Len(Texts(p)) + 1]
          BY <4>1, <4>2 DEF TextHeader
        <5>2. /\ h.num = g.num /\ h.msg = g.msg /\ h.del = g.del /\ h.done = g.done
              /\ h.txt = Len(Texts(p)) + 1
          BY <4>1, <5>1 DEF Header
        <5> QED
          BY <4>2, <5>2 DEF g
      <4>3. CASE AddFinal(p) /\ h = FinalHeader(p)
        <5>1. h = [g EXCEPT !.tail = FALSE, !.done = TRUE]
          BY <4>1, <4>3 DEF FinalHeader
        <5>2. /\ h.num = g.num /\ h.msg = g.msg /\ h.del = g.del /\ h.txt = g.txt
              /\ h.done = TRUE
          BY <4>1, <5>1 DEF Header
        <5> QED
          BY <4>3, <5>2 DEF g
      <4> QED
        BY <3>1, <4>2, <4>3
    <3>4. AddText(p) => THdrs[Len(THdrs)].msg = cur[p]
      BY <1>0, <3>2 DEF WritingOf, AddText, Adds, Goto
    <3>5. /\ Len(THdrs') = Len(THdrs) /\ DOMAIN THdrs' = DOMAIN THdrs /\ THdrs'[Len(THdrs)] = h
          /\ \A k \in DOMAIN THdrs : k # Len(THdrs) => THdrs'[k] = THdrs[k]
      BY <1>1, <3>1, <3>2
    <3>6. ASSUME NEW k \in DOMAIN THdrs
          PROVE  /\ THdrs'[k].num = THdrs[k].num /\ THdrs'[k].msg = THdrs[k].msg
                 /\ THdrs[k].done => THdrs'[k].done
                 /\ THdrs'[k].del = THdrs[k].del
                 /\ \/ THdrs'[k].txt = THdrs[k].txt
                    \/ /\ AddText(p) /\ THdrs[k].msg = cur[p]
                       /\ THdrs'[k].txt = Len(Texts(p)) + 1
      <4>1. CASE k = Len(THdrs)
        BY <3>3, <3>4, <3>5, <4>1
      <4>2. CASE k # Len(THdrs)
        BY <3>5, <4>2
      <4> QED
        BY <4>1, <4>2
    <3> QED
      BY <2>1, <3>5, <3>6
  <2>4. CASE Delete(p)
    <3>1. PICK d \in DOMAIN THdrs :
              /\ THdrs' = [THdrs EXCEPT ![d] = [THdrs[d] EXCEPT !.del = TRUE]]
              /\ killed' = killed \cup {THdrs[d].msg}
      BY <2>1, <2>4, TSteps
    <3>2. THdrs[d] \in Header
      BY <1>1
    <3> DEFINE h == [THdrs[d] EXCEPT !.del = TRUE]
    <3>3. /\ h.num = THdrs[d].num /\ h.msg = THdrs[d].msg /\ h.done = THdrs[d].done
          /\ h.txt = THdrs[d].txt /\ h.del
      BY <3>2 DEF Header
    <3>4. THdrs' = [THdrs EXCEPT ![d] = h]
      BY <3>1
    <3> HIDE DEF h
    <3>5. /\ Len(THdrs') = Len(THdrs) /\ DOMAIN THdrs' = DOMAIN THdrs /\ THdrs'[d] = h
          /\ \A k \in DOMAIN THdrs : k # d => THdrs'[k] = THdrs[k]
      BY <1>1, <3>4
    <3>6. ASSUME NEW k \in DOMAIN THdrs
          PROVE  /\ THdrs'[k].num = THdrs[k].num /\ THdrs'[k].msg = THdrs[k].msg
                 /\ THdrs[k].done => THdrs'[k].done
                 /\ \/ THdrs'[k].del = THdrs[k].del
                    \/ THdrs'[k].del /\ killed' = killed \cup {THdrs[k].msg}
                 /\ THdrs'[k].txt = THdrs[k].txt
      <4>1. CASE k = d
        BY <3>1, <3>3, <3>5, <4>1
      <4>2. CASE k # d
        BY <3>5, <4>2
      <4> QED
        BY <4>1, <4>2
    <3> QED
      BY <3>5, <3>6
  <2> QED
    BY <2>2, <2>3, <2>4
<1> QED
  BY <1>2, <1>3

\* The index grows when a message is added, and otherwise by a pack.
LEMMA TIndexSteps ==
  ASSUME Base, Orderly, ~Torn', NEW p \in Procs, Step(p), ~Pack(p)
  PROVE  /\ ~AddIndex(p) => TIndex' = TIndex
         /\ AddIndex(p) /\ Current(p) => TIndex' = Append(TIndex, Len(THdrs) + 1)
<1>1. ~AddIndex(p) => TIndex' = TIndex
  BY TKeep
<1>2. ASSUME AddIndex(p), Current(p) PROVE TIndex' = Append(TIndex, Len(THdrs) + 1)
  <2>0. /\ Types /\ StageOf(p) /\ ~Torn /\ pc[p] \in LockPc
    BY <1>2, HitGrows DEF Base, Stage, AddIndex, Adds, Goto, LockPc
  <2>1. TIndex = Index(p) /\ THdrs = Hdrs(p) /\ Target("jdx") = fd[p].jdx
    BY <1>2, <2>0, CurrentView
  <2>2. Target("jdx")' = fd[p].jdx /\ fd[p].jdx \in Inodes /\ fd[p].jdx # None
    BY <1>2, <2>0, <2>1, WritesTarget, HasFiles, NoFile DEF Writes
  <2>3. jdx'[fd[p].jdx] = Append(Index(p), Len(Hdrs(p)) + 1)
    BY <1>2, <2>2 DEF AddIndex, Index, Base, Types
  <2> QED
    BY <2>1, <2>2, <2>3 DEF TIndex
<1> QED
  BY <1>1, <1>2

\* While nobody has written to files that were being exchanged, one program at
\* most adds a message.
LEMMA AddsCurrent ==
  ASSUME Base, Orderly, Held, ~Torn, astray = {}
  PROVE  /\ \A p \in Procs : pc[p] \in Adding => Current(p) /\ At(p, LockPc)
         /\ \A p, q \in Procs : pc[p] \in Adding /\ At(q, LockPc) => p = q
<1>1. ASSUME NEW p \in Procs, pc[p] \in Adding
      PROVE  Current(p) /\ At(p, LockPc)
  <2>1. Current(p)
    BY <1>1 DEF Held
  <2>2. pc[p] \in LockPc
    BY <1>1 DEF LockPc
  <2> QED
    BY <2>1, <2>2, CurrentView DEF At
<1> QED
  BY <1>1, Alone

\* A program that writes its index entry has the base for itself.
LEMMA AddsAlone ==
  ASSUME Base, Orderly, Held, ~Torn', astray' = {}, NEW p \in Procs, Step(p)
  PROVE  /\ ~Torn /\ astray = {}
         /\ AddIndex(p) \/ AddHeader(p) => Current(p) /\ fd[p].jhr = Target("jhr") /\ pc[p] \in LockPc
         /\ AddIndex(p) \/ AddHeader(p) \/ Pack(p) => \A q \in Procs : q # p => pc[q] # "header"
<1>1. ~Torn /\ astray = {}
  BY HitGrows, HistoryGrows
<1>2. AddIndex(p) \/ AddHeader(p) => Current(p)
  BY DEF AddIndex, AddHeader, Adds
<1>3. AddIndex(p) \/ AddHeader(p) => pc[p] \in LockPc
  BY DEF AddIndex, AddHeader, Adds, Goto, LockPc, Adding
<1>4. AddIndex(p) \/ AddHeader(p) => fd[p].jhr = Target("jhr")
  BY <1>1, <1>2, <1>3, CurrentView
<1>5. ASSUME AddIndex(p) \/ AddHeader(p) \/ Pack(p), NEW q \in Procs, q # p
      PROVE  pc[q] # "header"
  <2>1. At(p, LockPc)
    <3>1. CASE Pack(p)
      <4>1. Current(p) /\ pc[p] \in LockPc
        BY <3>1, PackView DEF LockPc
      <4> QED
        BY <1>1, <4>1, CurrentView DEF At
    <3> QED
      BY <1>3, <1>4, <1>5, <3>1 DEF At
  <2> QED
    BY <1>1, <1>5, <2>1, AddsCurrent DEF Adding
<1> QED
  BY <1>1, <1>2, <1>3, <1>4, <1>5

\* The place between the index entry and the header is reached and left by these.
LEMMA HeaderSteps ==
  ASSUME Types, NEW p \in Procs, Step(p), ~Hit({"entry"})', ~AddIndex(p), ~AddHeader(p)
  PROVE  \A q \in Procs : pc'[q] = "header" <=> pc[q] = "header"
<1>1. \A q \in Procs : q # p => pc'[q] = pc[q]
  BY OthersSame
<1>2. pc'[p] # "header"
  BY PcSteps
<1>3. pc[p] # "header"
  BY PcSteps DEF Crash, Leaves, Hit
<1> QED
  BY <1>1, <1>2, <1>3

\* Lined, Serial and Rising without their conditions
InLine ==
    /\ \A k \in DOMAIN TIndex : TIndex[k] = k
    /\ (\A p \in Procs : pc[p] # "header") => Len(TIndex) = Len(THdrs)
    /\ (\E p \in Procs : pc[p] = "header") => Len(TIndex) = Len(THdrs) + 1

\* The entry leads to where the header will be, and a pack numbers entries by place.
LEMMA LinedStep ==
  ASSUME Base, Orderly, Held, Lined, NEW p \in Procs, Step(p)
  PROVE  Lined'
<1>0. Types /\ StageOf(p) /\ WritingOf(p) /\ Room /\ pc \in [Procs -> States]
  BY DEF Base, Stage, Writing, Types
<1> SUFFICES ASSUME ~Torn', ~Hit({"entry"})', astray' = {}
             PROVE  InLine'
  <2>1. Lined' <=> (~Torn' /\ ~Hit({"entry"})' /\ astray' = {} => InLine')
    BY DEF Lined, InLine
  <2> QED
    BY <2>1
<1>1. ~Torn /\ astray = {} /\ InLine
  BY HitGrows, AddsAlone DEF Lined, InLine
<1>2. /\ THdrs \in Seq(Header) /\ DOMAIN THdrs = 1..Len(THdrs) /\ Len(THdrs) \in Nat
      /\ TIndex \in Seq(Nat \ {0}) /\ DOMAIN TIndex = 1..Len(TIndex)
      /\ Len(TIndex) \in Nat
  BY <1>0, TTypes
<1>3. CASE Pack(p)
  <2>1. /\ TIndex' = [n \in 1..Cardinality(Copied(p)) |-> n] /\ THdrs' = PackedHdrs(p)
        /\ pc[p] \in LockPc \cup {"open"}
    BY <1>3, PackView DEF LockPc
  <2>2. Len(PackedHdrs(p)) = Cardinality(Copied(p)) /\ Cardinality(Copied(p)) \in Nat
    BY <1>0, <2>1, PackedIs, ReadRange
  <2>3. DOMAIN TIndex' = 1..Cardinality(Copied(p)) /\ \A n \in DOMAIN TIndex' : TIndex'[n] = n
    BY <2>1
  <2>4. Len(TIndex') = Cardinality(Copied(p))
    <3> DEFINE c == Cardinality(Copied(p))
    <3>1. c \in Nat /\ TIndex' = [n \in 1..c |-> n]
      BY <2>1, <2>2
    <3> HIDE DEF c
    <3>2. Len([n \in 1..c |-> n]) = c
      BY <3>1
    <3> QED
      BY <3>1, <3>2 DEF c
  <2>5. \A q \in Procs : pc'[q] # "header"
    <3>1. pc' = [pc EXCEPT ![p] = "swap"]
      BY <1>3 DEF Pack, Goto
    <3> QED
      BY <1>0, <1>3, <3>1, AddsAlone
  <2> QED
    BY <2>1, <2>2, <2>3, <2>4, <2>5 DEF InLine
<1>4. CASE AddIndex(p)
  <2>1. /\ Current(p) /\ ~Pack(p) /\ pc[p] = "locked" /\ pc'[p] = "header"
        /\ \A q \in Procs : pc[q] # "header"
    <3>1. Current(p) /\ \A q \in Procs : q # p => pc[q] # "header"
      BY <1>4, AddsAlone
    <3>2. pc[p] = "locked" /\ pc'[p] = "header"
      BY <1>0, <1>4 DEF AddIndex, Adds, Goto
    <3>3. ~Pack(p)
      BY <1>0, <3>2 DEF Pack, Goto
    <3> QED
      BY <3>1, <3>2, <3>3
  <2>2. TIndex' = Append(TIndex, Len(THdrs) + 1) /\ Len(THdrs') = Len(THdrs)
    <3>1. ~AddHeader(p)
      BY <1>4, <2>1 DEF AddHeader, Adds, Goto
    <3> QED
      BY <1>4, <2>1, <3>1, TIndexSteps, THdrsKept
  <2>3. Len(TIndex) = Len(THdrs)
    BY <1>1, <2>1 DEF InLine
  <2>4. /\ Len(TIndex') = Len(THdrs') + 1
        /\ \A k \in DOMAIN TIndex' : TIndex'[k] = k
    <3> DEFINE e == Len(THdrs) + 1
    <3>1. e \in Nat \ {0} /\ e = Len(TIndex) + 1
      BY <1>2, <2>3
    <3> HIDE DEF e
    <3>2. /\ Len(Append(TIndex, e)) = Len(TIndex) + 1 /\ DOMAIN Append(TIndex, e) = 1..(Len(TIndex) + 1)
          /\ Append(TIndex, e)[Len(TIndex) + 1] = e
          /\ \A k \in 1..Len(TIndex) : Append(TIndex, e)[k] = TIndex[k]
      BY <1>2, <3>1, AppendProperties
    <3>3. \A k \in DOMAIN TIndex : TIndex[k] = k
      BY <1>1 DEF InLine
    <3>4. TIndex' = Append(TIndex, e)
      BY <2>2 DEF e
    <3> QED
      BY <1>2, <2>2, <2>3, <3>1, <3>2, <3>3, <3>4
  <2> QED
    BY <2>1, <2>4 DEF InLine
<1>5. CASE AddHeader(p)
  <2>1. /\ Current(p) /\ fd[p].jhr = Target("jhr") /\ \A q \in Procs : q # p => pc[q] # "header"
    BY <1>5, AddsAlone
  <2>2. pc[p] = "header" /\ pc'[p] = "text" /\ NewHeader(p) \in Header
    BY <1>0, <1>5, AddHeaderWrites
  <2>3. ~Pack(p) /\ ~AddIndex(p)
    BY <2>2 DEF Pack, AddIndex, Adds, Goto
  <2>4. THdrs' = Append(THdrs, NewHeader(p)) /\ TIndex' = TIndex
    BY <1>5, <2>1, <2>3, TSteps, TIndexSteps
  <2>5. Len(THdrs') = Len(THdrs) + 1
    BY <1>2, <2>2, <2>4, AppendProperties
  <2>6. \A q \in Procs : pc'[q] # "header"
    BY <1>0, <2>1, <2>2, OthersSame
  <2> QED
    BY Zenon, <1>1, <1>2, <2>2, <2>4, <2>5, <2>6 DEF InLine
<1>6. CASE ~Pack(p) /\ ~AddIndex(p) /\ ~AddHeader(p)
  <2>1. TIndex' = TIndex /\ Len(THdrs') = Len(THdrs)
    BY <1>6, TIndexSteps, THdrsKept
  <2>2. \A q \in Procs : pc'[q] = "header" <=> pc[q] = "header"
    BY <1>0, <1>6, HeaderSteps
  <2> QED
    BY <1>1, <2>1, <2>2 DEF InLine
<1> QED
  BY <1>3, <1>4, <1>5, <1>6

\* The number a program takes is that of the last header in a base whose index
\* is in line.
LEMMA HighestInLine ==
  ASSUME Base, Orderly, Held, Lined, ~Torn', ~Hit({"entry"})', astray' = {},
         NEW p \in Procs, Step(p), AddIndex(p)
  PROVE  /\ num'[p] \in Nat \ {0} /\ THdrs = Hdrs(p)
         /\ THdrs # <<>> /\ act[p] # 0 => num'[p] = THdrs[Len(THdrs)].num + 1
         /\ THdrs # <<>> /\ act[p] = 0 => num'[p] = 1
         /\ THdrs = <<>> => num'[p] = 1
         /\ mishap' = mishap \cup Numbering(p, num'[p])
<1>0. Types /\ StageOf(p) /\ num \in [Procs -> Nat] /\ Room
  BY DEF Base, Stage, Types
<1>1. ~Torn /\ astray = {} /\ InLine /\ Current(p) /\ pc[p] \in LockPc
  BY HitGrows, AddsAlone DEF Lined, InLine
<1>2. \A q \in Procs : pc[q] # "header"
  <2>1. pc[p] # "header"
    BY DEF AddIndex, Adds, Goto
  <2> QED
    BY <2>1, AddsAlone
<1>3. THdrs = Hdrs(p) /\ TIndex = Index(p)
  BY <1>1, CurrentView
<1>4. /\ Len(Index(p)) = Len(Hdrs(p)) /\ \A k \in DOMAIN Index(p) : Index(p)[k] = k
  BY <1>1, <1>2, <1>3 DEF InLine
<1>5. /\ THdrs \in Seq(Header) /\ DOMAIN THdrs = 1..Len(THdrs) /\ Len(THdrs) \in Nat
      /\ TIndex \in Seq(Nat \ {0}) /\ DOMAIN TIndex = 1..Len(TIndex)
  BY <1>0, TTypes
<1>6. PICK high \in Highest(p) : num' = [num EXCEPT ![p] = high + 1]
                                 /\ mishap' = mishap \cup Numbering(p, high + 1)
  BY DEF AddIndex
<1>7. num'[p] = high + 1
  BY <1>0, <1>6
<1>8. act[p] = 0 \/ Hdrs(p) = <<>> => high = 0
  <2>1. Hdrs(p) = <<>> => Index(p) = <<>>
    BY <1>3, <1>4, <1>5
  <2> QED
    BY <1>6, <2>1 DEF Highest
<1>9. act[p] # 0 /\ Hdrs(p) # <<>> => high = Hdrs(p)[Len(Hdrs(p))].num
  <2>1. Hdrs(p) # <<>> => /\ Index(p) # <<>> /\ Last(Index(p)) = Len(Hdrs(p))
                          /\ Len(Hdrs(p)) \in DOMAIN Hdrs(p)
    BY <1>3, <1>4, <1>5 DEF Last
  <2> QED
    BY <1>6, <2>1 DEF Highest
<1>10. num'[p] \in Nat \ {0}
  BY <1>0, AddIndexTypes
<1> QED
  BY <1>3, <1>6, <1>7, <1>8, <1>9, <1>10

\* Numbers are places.
Straight ==
    /\ \A k \in DOMAIN THdrs : THdrs[k].num = k
    /\ \A p \in Procs : pc[p] = "header" => num[p] = Len(THdrs) + 1

\* A message takes the number behind the last, unless it found the base empty.
LEMMA SerialStep ==
  ASSUME Base, Orderly, Held, Lined, Serial, NEW p \in Procs, Step(p)
  PROVE  Serial'
<1>0. Types /\ StageOf(p) /\ WritingOf(p) /\ Room /\ pc \in [Procs -> States]
  BY DEF Base, Stage, Writing, Types
<1> SUFFICES ASSUME ~Torn', ~Hit({"entry", "restart"})', astray' = {}
             PROVE  Straight'
  <2>1. Serial' <=> (~Torn' /\ ~Hit({"entry", "restart"})' /\ astray' = {} => Straight')
    BY DEF Serial, Straight
  <2> QED
    BY <2>1
<1>1. ~Torn /\ astray = {} /\ Straight
  BY HitGrows, AddsAlone DEF Serial, Straight
<1>2. /\ THdrs \in Seq(Header) /\ DOMAIN THdrs = 1..Len(THdrs) /\ Len(THdrs) \in Nat
  BY <1>0, TTypes
<1>a. ~Hit({"entry"})' /\ ~Hit({"restart"})'
  BY DEF Hit
<1>3. CASE Pack(p)
  <2>1. THdrs' = PackedHdrs(p) /\ pc[p] \in LockPc \cup {"open"}
    BY <1>3, PackView DEF LockPc
  <2>2. \A n \in DOMAIN THdrs' : THdrs'[n].num = n
    BY <1>0, <2>1, PackedIs
  <2>3. \A q \in Procs : pc'[q] # "header"
    <3>1. pc' = [pc EXCEPT ![p] = "swap"]
      BY <1>3 DEF Pack, Goto
    <3> QED
      BY <1>0, <1>3, <3>1, AddsAlone
  <2> QED
    BY <2>2, <2>3 DEF Straight
<1>4. CASE AddIndex(p)
  <2>1. /\ num'[p] \in Nat \ {0} /\ THdrs = Hdrs(p)
        /\ THdrs # <<>> /\ act[p] # 0 => num'[p] = THdrs[Len(THdrs)].num + 1
        /\ THdrs # <<>> /\ act[p] = 0 => num'[p] = 1
        /\ THdrs = <<>> => num'[p] = 1
        /\ mishap' = mishap \cup Numbering(p, num'[p])
    BY <1>4, <1>a, HighestInLine
  <2>2. ~(THdrs # <<>> /\ act[p] = 0)
    <3>1. ASSUME THdrs # <<>>, act[p] = 0 PROVE FALSE
      <4>1. 1 \in DOMAIN THdrs /\ THdrs[1] \in Header
        BY <1>2, <3>1
      <4>2. THdrs[1].num >= num'[p]
        BY <2>1, <3>1, <4>1 DEF Header
      <4> QED
        BY <1>a, <2>1, <4>1, <4>2 DEF Numbering, Hit
    <3> QED
      BY <3>1
  <2>3. num'[p] = Len(THdrs) + 1
    <3>1. THdrs # <<>> => THdrs[Len(THdrs)].num = Len(THdrs)
      BY <1>1, <1>2 DEF Straight
    <3>2. THdrs = <<>> => Len(THdrs) = 0
      OBVIOUS
    <3> QED
      BY <2>1, <2>2, <3>1, <3>2
  <2>4. THdrs' = THdrs
    <3>1. ~Pack(p) /\ Current(p) /\ fd[p].jhr = Target("jhr")
      BY <1>0, <1>4, AddsAlone DEF Pack, AddIndex, Adds, Goto
    <3> QED
      BY <1>4, <3>1, TSteps
  <2>5. \A q \in Procs : q # p => pc'[q] # "header"
    BY <1>0, <1>4, AddsAlone, OthersSame
  <2> QED
    BY <1>1, <2>3, <2>4, <2>5 DEF Straight
<1>5. CASE AddHeader(p)
  <2>1. /\ fd[p].jhr = Target("jhr") /\ \A q \in Procs : q # p => pc[q] # "header"
    BY <1>5, AddsAlone
  <2>2. pc[p] = "header" /\ pc'[p] = "text" /\ NewHeader(p) \in Header
    BY <1>0, <1>5, AddHeaderWrites
  <2>3. ~Pack(p)
    BY <2>2 DEF Pack, Goto
  <2>4. THdrs' = Append(THdrs, NewHeader(p))
    BY <1>5, <2>1, <2>3, TSteps
  <2>5. NewHeader(p).num = Len(THdrs) + 1
    BY <1>1, <2>2 DEF Straight, NewHeader
  <2>6. \A k \in DOMAIN THdrs' : THdrs'[k].num = k
    BY <1>1, <1>2, <2>2, <2>4, <2>5, AppendProperties DEF Straight
  <2>7. \A q \in Procs : pc'[q] # "header"
    BY <1>0, <2>1, <2>2, OthersSame
  <2> QED
    BY <2>6, <2>7 DEF Straight
<1>6. CASE ~Pack(p) /\ ~AddIndex(p) /\ ~AddHeader(p)
  <2>1. /\ Len(THdrs') = Len(THdrs) /\ DOMAIN THdrs' = DOMAIN THdrs
        /\ \A k \in DOMAIN THdrs : THdrs'[k].num = THdrs[k].num
    BY <1>6, THdrsKept
  <2>2. \A q \in Procs : pc'[q] = "header" => pc[q] = "header" /\ num'[q] = num[q]
    <3>1. \A q \in Procs : pc'[q] = "header" <=> pc[q] = "header"
      BY <1>0, <1>6, <1>a, HeaderSteps
    <3>2. pc'[p] # "header"
      BY <1>0, <1>6, PcSteps
    <3> QED
      BY <1>0, <3>1, <3>2, OthersSame
  <2> QED
    BY <1>1, <2>1, <2>2 DEF Straight
<1> QED
  BY <1>3, <1>4, <1>5, <1>6

\* Numbers rise.
Climbing ==
    /\ \A k, l \in DOMAIN THdrs : k < l /\ ~THdrs[k].del => THdrs[k].num < THdrs[l].num
    /\ \A p \in Procs : pc[p] = "header" =>
           \A k \in DOMAIN THdrs : ~THdrs[k].del => THdrs[k].num < num[p]

\* The last header has the highest number, or the count was read before it came.
LEMMA RisingStep ==
  ASSUME Base, Orderly, Held, Lined, Rising, NEW p \in Procs, Step(p)
  PROVE  Rising'
<1>0. Types /\ StageOf(p) /\ WritingOf(p) /\ Room /\ pc \in [Procs -> States]
  BY DEF Base, Stage, Writing, Types
<1> SUFFICES ASSUME ~Torn', ~Hit({"entry", "blind"})', astray' = {}
             PROVE  Climbing'
  <2>1. Rising' <=> (~Torn' /\ ~Hit({"entry", "blind"})' /\ astray' = {} => Climbing')
    BY DEF Rising, Climbing
  <2> QED
    BY <2>1
<1>1. ~Torn /\ astray = {} /\ Climbing
  BY HitGrows, AddsAlone DEF Rising, Climbing
<1>2. /\ THdrs \in Seq(Header) /\ DOMAIN THdrs = 1..Len(THdrs) /\ Len(THdrs) \in Nat
      /\ \A k \in DOMAIN THdrs : THdrs[k].num \in Nat
  <2>1. /\ THdrs \in Seq(Header) /\ DOMAIN THdrs = 1..Len(THdrs) /\ Len(THdrs) \in Nat
    BY <1>0, TTypes
  <2>2. ASSUME NEW k \in DOMAIN THdrs PROVE THdrs[k].num \in Nat
    <3>1. THdrs[k] \in Header
      BY <2>1
    <3> QED
      BY <3>1 DEF Header
  <2> QED
    BY <2>1, <2>2
<1>a. ~Hit({"entry"})' /\ ~Hit({"blind"})'
  BY DEF Hit
<1>3. CASE Pack(p)
  <2>1. THdrs' = PackedHdrs(p) /\ pc[p] \in LockPc \cup {"open"}
    BY <1>3, PackView DEF LockPc
  <2>2. \A n \in DOMAIN THdrs' : THdrs'[n].num = n
    BY <1>0, <2>1, PackedIs
  <2>3. \A q \in Procs : pc'[q] # "header"
    <3>1. pc' = [pc EXCEPT ![p] = "swap"]
      BY <1>3 DEF Pack, Goto
    <3> QED
      BY <1>0, <1>3, <3>1, AddsAlone
  <2> QED
    BY <2>2, <2>3 DEF Climbing
<1>4. CASE AddIndex(p)
  <2>1. /\ num'[p] \in Nat \ {0} /\ THdrs = Hdrs(p)
        /\ THdrs # <<>> /\ act[p] # 0 => num'[p] = THdrs[Len(THdrs)].num + 1
        /\ mishap' = mishap \cup Numbering(p, num'[p])
    BY <1>4, <1>a, HighestInLine
  <2>2. \A k \in DOMAIN THdrs : ~THdrs[k].del => THdrs[k].num < num'[p]
    <3>1. CASE act[p] = 0
      <4>1. Undeleted(Hdrs(p)) = {}
        BY <1>a, <2>1, <3>1 DEF Numbering, Hit
      <4> QED
        BY <2>1, <4>1 DEF Undeleted
    <3>2. CASE act[p] # 0
      <4>1. ASSUME NEW k \in DOMAIN THdrs, ~THdrs[k].del PROVE THdrs[k].num < num'[p]
        <5>1. THdrs # <<>> /\ Len(THdrs) \in DOMAIN THdrs
          BY <1>2
        <5>2. num'[p] = THdrs[Len(THdrs)].num + 1
          BY <2>1, <3>2, <5>1
        <5>3. k = Len(THdrs) \/ THdrs[k].num < THdrs[Len(THdrs)].num
          BY <1>1, <1>2, <4>1, <5>1 DEF Climbing
        <5> QED
          BY <1>2, <5>1, <5>2, <5>3
      <4> QED
        BY <4>1
    <3> QED
      BY <3>1, <3>2
  <2>4. THdrs' = THdrs
    <3>1. ~Pack(p) /\ Current(p) /\ fd[p].jhr = Target("jhr")
      BY <1>0, <1>4, AddsAlone DEF Pack, AddIndex, Adds, Goto
    <3> QED
      BY <1>4, <3>1, TSteps
  <2>5. \A q \in Procs : q # p => pc'[q] # "header"
    BY <1>0, <1>4, AddsAlone, OthersSame
  <2> QED
    BY <1>1, <2>2, <2>4, <2>5 DEF Climbing
<1>5. CASE AddHeader(p)
  <2>1. /\ fd[p].jhr = Target("jhr") /\ \A q \in Procs : q # p => pc[q] # "header"
    BY <1>5, AddsAlone
  <2>2. pc[p] = "header" /\ pc'[p] = "text" /\ NewHeader(p) \in Header
    BY <1>0, <1>5, AddHeaderWrites
  <2>3. ~Pack(p)
    BY <2>2 DEF Pack, Goto
  <2>4. THdrs' = Append(THdrs, NewHeader(p))
    BY <1>5, <2>1, <2>3, TSteps
  <2>5. \A k \in DOMAIN THdrs : ~THdrs[k].del => THdrs[k].num < NewHeader(p).num
    BY <1>1, <2>2 DEF Climbing, NewHeader
  <2>a. /\ DOMAIN THdrs' = 1..(Len(THdrs) + 1) /\ THdrs'[Len(THdrs) + 1] = NewHeader(p)
        /\ \A k \in DOMAIN THdrs : THdrs'[k] = THdrs[k]
    BY <1>2, <2>2, <2>4, AppendProperties
  <2>6. ASSUME NEW k \in DOMAIN THdrs', NEW l \in DOMAIN THdrs', k < l, ~THdrs'[k].del
        PROVE  THdrs'[k].num < THdrs'[l].num
    <3>1. k \in DOMAIN THdrs /\ THdrs'[k] = THdrs[k]
      BY <1>2, <2>a, <2>6
    <3>2. CASE l = Len(THdrs) + 1
      BY <2>5, <2>6, <2>a, <3>1, <3>2
    <3>3. CASE l # Len(THdrs) + 1
      <4>1. l \in DOMAIN THdrs /\ THdrs'[l] = THdrs[l]
        BY <1>2, <2>a, <2>6, <3>3
      <4> QED
        BY <1>1, <2>6, <3>1, <4>1 DEF Climbing
    <3> QED
      BY <3>2, <3>3
  <2>7. \A q \in Procs : pc'[q] # "header"
    BY <1>0, <2>1, <2>2, OthersSame
  <2> QED
    BY <2>6, <2>7 DEF Climbing
<1>6. CASE ~Pack(p) /\ ~AddIndex(p) /\ ~AddHeader(p)
  <2>1. /\ DOMAIN THdrs' = DOMAIN THdrs
        /\ \A k \in DOMAIN THdrs : /\ THdrs'[k].num = THdrs[k].num
                                   /\ ~THdrs'[k].del => ~THdrs[k].del
    BY <1>6, THdrsKept
  <2>2. \A q \in Procs : pc'[q] = "header" => pc[q] = "header" /\ num'[q] = num[q]
    <3>1. \A q \in Procs : pc'[q] = "header" <=> pc[q] = "header"
      BY <1>0, <1>6, <1>a, HeaderSteps
    <3>2. pc'[p] # "header"
      BY <1>0, <1>6, PcSteps
    <3> QED
      BY <1>0, <3>1, <3>2, OthersSame
  <2> QED
    BY <1>1, <2>1, <2>2 DEF Climbing
<1> QED
  BY <1>3, <1>4, <1>5, <1>6

-----------------------------------------------------------------------------
(* What was stored is there *)

\* Texts and index only grow, but for a pack.
LEMMA TTextsSteps ==
  ASSUME Base, Orderly, ~Torn', NEW p \in Procs, Step(p), ~Pack(p)
  PROVE  /\ Grows(TTexts, TTexts') /\ Grows(TIndex, TIndex')
         /\ ~AddText(p) => TTexts' = TTexts
         /\ AddText(p) /\ Current(p) => /\ TTexts = Texts(p)
                                        /\ TTexts' = Append(TTexts, cur[p])
<1>0. Types /\ StageOf(p) /\ ~Torn /\ Room
  BY HitGrows DEF Base, Stage
<1>1. ~AddText(p) => TTexts' = TTexts
  BY TKeep
<1>2. ASSUME AddText(p), Current(p) PROVE TTexts = Texts(p) /\ TTexts' = Append(TTexts, cur[p])
  <2>0. pc[p] \in LockPc
    BY <1>2 DEF AddText, Adds, Goto, LockPc, Adding
  <2>1. TTexts = Texts(p) /\ Target("jdt") = fd[p].jdt
    BY <1>0, <1>2, <2>0, CurrentView
  <2>2. Target("jdt")' = fd[p].jdt /\ fd[p].jdt \in Inodes /\ fd[p].jdt # None
    BY <1>0, <1>2, <2>0, <2>1, WritesTarget, HasFiles, NoFile DEF Writes
  <2>3. jdt'[fd[p].jdt] = Append(Texts(p), cur[p])
    BY <1>2, <2>2 DEF AddText, Texts, Base, Types
  <2> QED
    BY <2>1, <2>2, <2>3 DEF TTexts
<1>3. Grows(TTexts, TTexts')
  <2>1. TTexts' = TTexts \/ (AddText(p) /\ TTexts' = Append(TTexts, cur[p]))
    BY TKeep
  <2>2. TTexts \in Seq(1..MaxMsgs) /\ (AddText(p) => cur[p] \in 1..MaxMsgs)
    BY <1>0, TTypes, CurIsMessage DEF AddText, Adds
  <2> DEFINE S == 1..MaxMsgs
             e == cur[p]
             s == TTexts
  <2>3. TTexts' = s \/ (e \in S /\ TTexts' = Append(s, e))
    BY <2>1, <2>2
  <2>4. s \in Seq(S)
    BY <2>2
  <2> HIDE DEF S, e, s
  <2>5. Grows(s, TTexts')
    <3>1. TTexts' = s => Grows(s, TTexts')
      BY DEF Grows
    <3>2. e \in S => Grows(s, Append(s, e))
      BY <2>4, AppendGrows
    <3> QED
      BY <2>3, <3>1, <3>2
  <2> QED
    BY <2>5 DEF s
<1>4. Grows(TIndex, TIndex')
  <2>1. TIndex' = TIndex \/ (AddIndex(p) /\ TIndex' = Append(TIndex, Len(Hdrs(p)) + 1))
    BY TKeep
  <2>2. TIndex \in Seq(Nat \ {0}) /\ (AddIndex(p) => Len(Hdrs(p)) + 1 \in Nat \ {0})
    <3>1. AddIndex(p) => pc[p] \in LockPc
      BY DEF AddIndex, Adds, Goto, LockPc
    <3>2. AddIndex(p) => Hdrs(p) \in Seq(Header)
      BY <1>0, <3>1, HasFiles
    <3> QED
      BY <1>0, <3>2, TTypes
  <2> DEFINE S == Nat \ {0}
             e == Len(Hdrs(p)) + 1
             s == TIndex
  <2>3. TIndex' = s \/ (e \in S /\ TIndex' = Append(s, e))
    BY <2>1, <2>2
  <2>4. s \in Seq(S)
    BY <2>2
  <2> HIDE DEF S, e, s
  <2>5. Grows(s, TIndex')
    <3>1. TIndex' = s => Grows(s, TIndex')
      BY DEF Grows
    <3>2. e \in S => Grows(s, Append(s, e))
      BY <2>4, AppendGrows
    <3> QED
      BY <2>3, <3>1, <3>2
  <2> QED
    BY <2>5 DEF s
<1> QED
  BY <1>1, <1>2, <1>3, <1>4

\* A pack copies all messages, also behind a header without its end as long as
\* headers are where their numbers and the index say.
LEMMA PackCopiesAll ==
  ASSUME Base, Orderly, Held, Tails, Marks, Lined, Serial, ~Torn', ~(Hit({"tail"}) /\ Displaced),
         NEW p \in Procs, Pack(p)
  PROVE  Copied(p) = Undeleted(Hdrs(p)) /\ Read(p) = DOMAIN Hdrs(p)
<1>0. /\ THdrs = Hdrs(p) /\ TIndex = Index(p) /\ ~Torn /\ pc[p] \in LockPc /\ Types /\ StageOf(p)
      /\ Step(p) /\ astray' = astray /\ Room
  BY PackView DEF Base, Stage, LockPc, Step
<1>1. CASE ~Hit({"tail"})
  BY <1>1, NoTails
<1>2. CASE Hit({"tail"})
  <2>1. ~Hit({"restart", "entry"}) /\ astray = {}
    BY <1>2 DEF Displaced
  <2>2. ~Hit({"entry"}) /\ ~Hit({"entry", "restart"})
    BY <2>1 DEF Hit
  <2>3. InLine /\ Straight
    BY <1>0, <2>1, <2>2 DEF Lined, InLine, Serial, Straight
  <2>4. \A q \in Procs : pc[q] # "header"
    <3>1. pc[p] # "header"
      BY DEF Pack, Goto
    <3> QED
      BY <1>0, <2>1, <3>1, AddsAlone
  <2>5. \A k \in DOMAIN Hdrs(p) : Hdrs(p)[k].num = k /\ k \in DOMAIN Index(p) /\ Index(p)[k] = k
    <3>1. Len(TIndex) = Len(THdrs) /\ DOMAIN THdrs = 1..Len(THdrs) /\ DOMAIN TIndex = 1..Len(TIndex)
      BY Zenon, <1>0, <2>3, <2>4, TTypes DEF InLine
    <3> QED
      BY Zenon, <1>0, <2>3, <3>1 DEF InLine, Straight
  <2> QED
    BY <1>0, <2>5, ReadsAll
<1> QED
  BY <1>1, <1>2

\* Keeping without its condition
Kept == \A m \in stored \ (killed \cup astray) : \E k \in DOMAIN THdrs : There(m, k)

\* A message that is there stays, with its text, until it is deleted; the last
\* write of a message makes it one of those stored.
LEMMA KeepingStep ==
  ASSUME Base, Orderly, Held, Tails, Marks, Lined, Serial, Keeping, NEW p \in Procs, Step(p)
  PROVE  Keeping'
<1>0. Types /\ StageOf(p) /\ WritingOf(p) /\ Room
  BY DEF Base, Stage, Writing
<1> SUFFICES ASSUME ~Torn', ~(Hit({"tail"})' /\ Displaced')
             PROVE  Kept'
  <2>1. Keeping' <=> (~Torn' /\ ~(Hit({"tail"})' /\ Displaced') => Kept')
    BY DEF Keeping, Kept
  <2> QED
    BY <2>1
<1>1. ~Torn /\ ~(Hit({"tail"}) /\ Displaced) /\ Kept
  <2>1. ~Torn /\ (Hit({"tail"}) => Hit({"tail"})')
    BY HitGrows
  <2>2. Displaced => Displaced'
    BY HistoryGrows DEF Displaced, Hit
  <2> QED
    BY <2>1, <2>2 DEF Keeping, Kept
<1> SUFFICES ASSUME NEW m, m \in stored', m \notin killed', m \notin astray'
             PROVE  \E k \in DOMAIN THdrs' : There(m, k)'
  BY DEF Kept
<1>2. m \notin killed /\ m \notin astray
  BY HistoryGrows
<1>3. /\ THdrs \in Seq(Header) /\ DOMAIN THdrs = 1..Len(THdrs) /\ Len(THdrs) \in Nat
  BY <1>0, TTypes
<1>4. CASE m \in stored /\ Pack(p)
  <2>0. /\ THdrs = Hdrs(p) /\ TTexts = Texts(p) /\ THdrs' = PackedHdrs(p) /\ TTexts' = PackedTexts(p)
        /\ TIndex' = [n \in 1..Cardinality(Copied(p)) |-> n] /\ pc[p] \in LockPc \cup {"open"}
    BY <1>4, PackView DEF LockPc
  <2>1. PICK k \in DOMAIN THdrs : There(m, k)
    BY <1>1, <1>2, <1>4 DEF Kept
  <2>2. /\ k \in Copied(p) /\ k \in WithText(p) /\ Hdrs(p)[k].msg = m /\ Hdrs(p)[k].done
        /\ Texts(p)[Hdrs(p)[k].txt] = m
    <3>1. Copied(p) = Undeleted(Hdrs(p))
      BY <1>1, <1>4, PackCopiesAll
    <3> QED
      BY <2>0, <2>1, <3>1 DEF There, WithText, Undeleted
  <2>3. /\ Copied(p) \subseteq Nat \ {0} /\ IsFiniteSet(Copied(p)) /\ ~Endless(p)
    BY <1>0, <1>4, <2>0, ReadRange DEF Pack
  <2> DEFINE n == Rank(Copied(p), k)
  <2>4. n \in 1..Cardinality(Copied(p)) /\ Place(Copied(p), n) = k
    BY <2>2, <2>3, RankIsPlace
  <2>5. /\ n \in DOMAIN PackedHdrs(p) /\ ~PackedHdrs(p)[n].del /\ PackedHdrs(p)[n].msg = m
        /\ PackedHdrs(p)[n].done /\ PackedHdrs(p)[n].txt = Rank(WithText(p), k)
    BY <1>0, <2>0, <2>2, <2>4, PackedIs
  <2>6. /\ Rank(WithText(p), k) \in DOMAIN PackedTexts(p)
        /\ PackedTexts(p)[Rank(WithText(p), k)] = m
    BY <1>0, <2>0, <2>2, <2>3, PackedTextsAre
  <2>7. n \in DOMAIN TIndex' /\ TIndex'[n] = n
    BY <2>0, <2>4
  <2> HIDE DEF n
  <2> QED
    BY <2>0, <2>5, <2>6, <2>7 DEF There
<1>5. CASE m \in stored /\ ~Pack(p)
  <2>1. PICK k \in DOMAIN THdrs : There(m, k)
    BY <1>1, <1>2, <1>5 DEF Kept
  <2>2. Grows(TTexts, TTexts') /\ Grows(TIndex, TIndex')
    BY <1>5, TTextsSteps
  <2>3. CASE AddHeader(p) /\ fd[p].jhr = Target("jhr")
    <3>1. THdrs' = Append(THdrs, NewHeader(p)) /\ NewHeader(p) \in Header
      BY <1>0, <1>5, <2>3, TSteps, AddHeaderWrites
    <3>2. k \in DOMAIN THdrs' /\ THdrs'[k] = THdrs[k]
      BY <1>3, <2>1, <3>1, AppendProperties
    <3> QED
      BY <2>1, <2>2, <3>2 DEF There, Grows
  <2>4. CASE ~(AddHeader(p) /\ fd[p].jhr = Target("jhr"))
    <3>1. /\ k \in DOMAIN THdrs' /\ THdrs'[k].msg = THdrs[k].msg
          /\ THdrs[k].done => THdrs'[k].done
          /\ \/ THdrs'[k].del = THdrs[k].del
             \/ /\ THdrs'[k].del /\ killed' = killed \cup {THdrs[k].msg}
          /\ \/ THdrs'[k].txt = THdrs[k].txt
             \/ /\ AddText(p) /\ fd[p].jhr = Target("jhr") /\ THdrs[k].msg = cur[p]
                /\ THdrs'[k].txt = Len(Texts(p)) + 1
      BY <1>5, <2>4, THdrsKept
    <3>2. /\ THdrs[k].msg = m /\ ~THdrs[k].del /\ THdrs[k].done
          /\ THdrs[k].txt \in DOMAIN TTexts /\ TTexts[THdrs[k].txt] = m
          /\ \E j \in DOMAIN TIndex' : TIndex'[j] = k
      BY <2>1, <2>2 DEF There, Grows
    <3>3. ~THdrs'[k].del
      BY <3>1, <3>2
    <3>4. THdrs'[k].txt \in DOMAIN TTexts' /\ TTexts'[THdrs'[k].txt] = m
      <4>1. CASE THdrs'[k].txt = THdrs[k].txt
        BY <2>2, <3>2, <4>1 DEF Grows
      <4>2. CASE /\ AddText(p) /\ THdrs[k].msg = cur[p]
                 /\ THdrs'[k].txt = Len(Texts(p)) + 1
        <5>1. Current(p)
          BY <3>2, <4>2 DEF AddText, Adds
        <5>2. TTexts = Texts(p) /\ TTexts' = Append(TTexts, cur[p])
          BY <1>5, <4>2, <5>1, TTextsSteps
        <5>3. TTexts \in Seq(1..MaxMsgs) /\ cur[p] \in 1..MaxMsgs
          BY <1>0, <4>2, TTypes, CurIsMessage DEF AddText, Adds
        <5> DEFINE S == 1..MaxMsgs
                   s == TTexts
                   e == cur[p]
        <5>4. s \in Seq(S) /\ e \in S /\ TTexts' = Append(s, e) /\ THdrs'[k].txt = Len(s) + 1 /\ e = m
          BY <3>2, <4>2, <5>2, <5>3
        <5> HIDE DEF S, s, e
        <5>5. Len(s) + 1 \in DOMAIN Append(s, e) /\ Append(s, e)[Len(s) + 1] = e
          BY <5>4, AppendGrows
        <5> QED
          BY <5>4, <5>5
      <4> QED
        BY <3>1, <4>1, <4>2
    <3> QED
      BY <3>1, <3>2, <3>3, <3>4 DEF There
  <2> QED
    BY <2>3, <2>4
<1>6. CASE m \notin stored
  <2>1. AddCount(p) /\ m = cur[p]
    <3>1. CASE Opens(p) \/ Closes(p)
      BY <1>6, <3>1, OpensFile, ClosesFiles DEF history
    <3>2. CASE Shows(p) \/ Lock(p) \/ Swap(p) \/ Pack(p)
      BY <1>6, <3>2 DEF Shows, Show, Lock, Swap, Pack, history
    <3>3. CASE Create(p) \/ DeleteCount(p) \/ SetLastRead(p) \/ Delete(p)
      BY <1>6, <3>3 DEF Create, DeleteCount, SetLastRead, Delete, history
    <3>4. CASE AddIndex(p) \/ AddHeader(p) \/ AddText(p) \/ AddFinal(p)
      BY <1>6, <3>4 DEF AddIndex, AddHeader, AddText, AddFinal
    <3>5. CASE AddCount(p)
      BY <1>6, <3>5 DEF AddCount
    <3> QED
      BY <3>1, <3>2, <3>3, <3>4, <3>5, StepKinds DEF Writes
  <2>2. Current(p) /\ pc[p] = "count" /\ ~Pack(p) /\ pc[p] \in LockPc
    BY <2>1 DEF AddCount, Adds, Goto, Pack, LockPc, Adding
  <2>3. THdrs = Hdrs(p) /\ TTexts = Texts(p) /\ TIndex = Index(p) /\ fd[p].jhr = Target("jhr")
    BY <1>1, <2>2, CurrentView
  <2>4. THdrs' = THdrs /\ TTexts' = TTexts /\ TIndex' = TIndex
    <3>1. ~AddText(p) /\ ~AddIndex(p)
      BY <2>2 DEF AddText, AddIndex, Adds, Goto
    <3> QED
      BY <2>1, <2>2, <2>3, <3>1, TSteps, TTextsSteps, TIndexSteps
  <2>5. Hdrs(p) # <<>> /\ Len(THdrs) \in DOMAIN THdrs /\ Last(Hdrs(p)) = THdrs[Len(THdrs)]
    BY <1>0, <1>3, <2>2, <2>3 DEF WritingOf, Last
  <2>6. There(m, Len(THdrs))
    BY <1>0, <2>1, <2>2, <2>3, <2>5 DEF WritingOf, There
  <2> QED
    BY <2>4, <2>5, <2>6 DEF There
<1> QED
  BY <1>4, <1>5, <1>6

-----------------------------------------------------------------------------
(* The pointer of the user *)

\* Only a program that has the base open is about to set the pointer.
Setting == \A p \in Procs : job[p] = "set" => pc[p] \in {"open", "locked", "unlock"}

\* The pointer is set by a program that has shown a message.
LEMMA SettingStep ==
  ASSUME Types, Stage, Setting, NEW p \in Procs, Step(p)
  PROVE  Setting'
<1>0. pc \in [Procs -> States] /\ job \in [Procs -> Jobs] /\ StageOf(p)
  BY DEF Types, Stage
<1>1. ASSUME NEW q \in Procs, q # p, job'[q] = "set" PROVE pc'[q] \in {"open", "locked", "unlock"}
  BY <1>1, OthersSame DEF Setting
<1>2. ASSUME job'[p] = "set" PROVE pc'[p] \in {"open", "locked", "unlock"}
  <2>1. CASE Opens(p)
    BY <1>0, <1>2, <2>1 DEF Opens, Start, Again, OpenNext, Setting
  <2>2. CASE Closes(p)
    BY <1>0, <1>2, <2>2 DEF Closes, LockFails, UnLock, FindNext, Crash, Show, Done
  <2>3. CASE Shows(p) \/ Lock(p)
    BY <1>0, <1>2, <2>3 DEF Shows, Show, Lock, Goto
  <2>4. CASE Pack(p) \/ Swap(p)
    BY <1>0, <1>2, <2>4 DEF Pack, Swap, StageOf
  <2>5. CASE SetLastRead(p)
    BY <1>0, <2>5 DEF SetLastRead, Goto
  <2>6. CASE Create(p)
    BY <1>0, <1>2, <2>6 DEF Create, Goto, Setting
  <2>7. CASE Delete(p) \/ DeleteCount(p)
    BY <1>0, <1>2, <2>7 DEF Delete, DeleteCount, Goto, StageOf
  <2>8. CASE AddIndex(p) \/ AddHeader(p) \/ AddText(p) \/ AddFinal(p) \/ AddCount(p)
    BY <1>0, <1>2, <2>8 DEF AddIndex, AddHeader, AddText, AddFinal, AddCount, Adds
  <2> QED
    BY <2>1, <2>2, <2>3, <2>4, <2>5, <2>6, <2>7, <2>8, StepKinds DEF Writes
<1> QED
  BY <1>1, <1>2 DEF Setting

\* Where the pointer of a user points after packing, when the headers are
\* numbered by their places and all are read.
LEMMA RenumberedSerial ==
  ASSUME NEW p, NEW N \in Nat, Read(p) = 1..N, \A k \in 1..N : Hdrs(p)[k].num = k,
         NEW L \in 0..N
  PROVE  Renumbered(p, L) = Rank(Copied(p), L)
<1>1. Cardinality(Read(p)) = N
  BY FS_Interval
<1>2. PICK f : Pointed(p, L, f) /\ Renumbered(p, L) = f[N]
  BY <1>1, RenumberedIs
<1>3. f = [k \in 0..N |-> IF k = 0 THEN L
                          ELSE IF f[k - 1] = Hdrs(p)[k].num THEN Rank(Copied(p), k)
                          ELSE f[k - 1]]
  BY <1>1, <1>2 DEF Pointed
<1> DEFINE r == Rank(Copied(p), L)
<1>4. /\ f[0] = L
      /\ \A k \in 1..N : f[k] = IF f[k - 1] = k THEN Rank(Copied(p), k) ELSE f[k - 1]
  <2>1. f[0] = L
    BY <1>3
  <2>2. ASSUME NEW k \in 1..N PROVE f[k] = IF f[k - 1] = k THEN Rank(Copied(p), k) ELSE f[k - 1]
    <3>1. k \in 0..N /\ k # 0 /\ Hdrs(p)[k].num = k
      OBVIOUS
    <3> QED
      BY <1>3, <3>1
  <2> QED
    BY <2>1, <2>2
<1>5. r \in Nat /\ r <= L /\ (L = 0 => r = 0)
  <2>1. IsFiniteSet(1..L) /\ Cardinality(1..L) = L
    BY FS_Interval
  <2>2. Cardinality(Copied(p) \cap 1..L) <= Cardinality(1..L)
    BY <2>1, FS_Subset
  <2>3. r \in Nat
    BY RankType
  <2>4. L = 0 => r = 0
    BY RankNone
  <2> QED
    BY <2>1, <2>2, <2>3, <2>4 DEF Rank
<1> DEFINE Right(k) == f[k] = IF k < L THEN L ELSE r
           Bad == {k \in 0..N : ~Right(k)}
<1>6. Bad = {}
  <2>1. ASSUME Bad # {} PROVE FALSE
    <3>1. Bad \subseteq Nat
      OBVIOUS
    <3>2. PICK k \in Bad : \A j \in Bad : k <= j
      BY <2>1, <3>1, HasLeast
    <3>3. k # 0
      <4>1. Right(0)
        BY <1>4, <1>5
      <4> QED
        BY <3>2, <4>1
    <3>4. k \in 1..N /\ k - 1 \in 0..N /\ Right(k - 1)
      BY <3>2, <3>3
    <3>5. f[k] = IF f[k - 1] = k THEN Rank(Copied(p), k) ELSE f[k - 1]
      BY <1>4, <3>4
    <3>6. Right(k)
      <4> HIDE DEF r
      <4>1. CASE k < L
        BY <1>5, <3>4, <3>5, <4>1
      <4>2. CASE k = L
        <5>1. f[k - 1] = L
          BY <3>4, <4>2
        <5> QED
          BY <3>5, <4>2, <5>1 DEF r
      <4>3. CASE k > L
        <5>1. f[k - 1] = r /\ r # k
          BY <1>5, <3>4, <4>3
        <5> QED
          BY <3>4, <3>5, <4>3, <5>1
      <4> QED
        BY <3>4, <4>1, <4>2, <4>3
    <3> QED
      BY <3>2, <3>6
  <2> QED
    BY <2>1
<1>7. Right(N)
  <2>1. N \in 0..N
    OBVIOUS
  <2> QED
    BY <1>6, <2>1
<1>8. f[N] = r
  BY <1>7
<1> QED
  BY <1>2, <1>8

\* What is seen stays seen, and new messages come at the end.
LEMMA SeenKept ==
  ASSUME Base, Orderly, ~Torn', NEW p \in Procs, Step(p), ~Pack(p), NEW n \in Int,
         n <= Len(THdrs), SeenTo(n)
  PROVE  SeenTo(n)' /\ Len(THdrs) <= Len(THdrs')
<1>0. Types /\ StageOf(p) /\ Room
  BY DEF Base, Stage
<1>1. /\ THdrs \in Seq(Header) /\ DOMAIN THdrs = 1..Len(THdrs) /\ Len(THdrs) \in Nat
  BY <1>0, TTypes
<1>2. seen \subseteq seen'
  BY HistoryGrows
<1>3. CASE AddHeader(p) /\ fd[p].jhr = Target("jhr")
  <2>1. THdrs' = Append(THdrs, NewHeader(p)) /\ NewHeader(p) \in Header
    BY <1>0, <1>3, TSteps, AddHeaderWrites
  <2>2. /\ DOMAIN THdrs' = 1..(Len(THdrs) + 1) /\ Len(THdrs') = Len(THdrs) + 1
        /\ \A k \in DOMAIN THdrs : THdrs'[k] = THdrs[k]
    BY <1>1, <2>1, AppendProperties
  <2> QED
    BY <1>1, <1>2, <2>2 DEF SeenTo
<1>4. CASE ~(AddHeader(p) /\ fd[p].jhr = Target("jhr"))
  <2>1. /\ Len(THdrs') = Len(THdrs) /\ DOMAIN THdrs' = DOMAIN THdrs
        /\ \A k \in DOMAIN THdrs : THdrs'[k].msg = THdrs[k].msg /\ (~THdrs'[k].del => ~THdrs[k].del)
    BY <1>4, THdrsKept
  <2> QED
    BY <1>1, <1>2, <2>1 DEF SeenTo
<1> QED
  BY <1>3, <1>4

\* The headers after a step
LEMMA LenPrimed ==
  ASSUME Base'
  PROVE  DOMAIN THdrs' = 1..Len(THdrs') /\ Len(THdrs') \in Nat
<1>1. THdrs' \in Seq(Header)
  <2>1. Types'
    BY DEF Base
  <2>2. \A i \in Inodes : jhr'[i].hdrs \in Seq(Header)
    BY <2>1 DEF Types, HeaderFile
  <2>3. Target("jhr")' # None => Target("jhr")' \in Inodes
    BY <2>1 DEF Types, Target, Files
  <2>4. <<>> \in Seq(Header)
    OBVIOUS
  <2> QED
    BY <2>2, <2>3, <2>4 DEF THdrs
<1> QED
  BY <1>1

\* Reading without its condition
ReadsOn(p) == /\ Swapping = {} /\ \A f \in Files : dir[f] # None
              /\ num[p] \in DOMAIN THdrs /\ SeenTo(num[p] - 1)
              /\ job[p] = "set" /\ fd[p] = dir => SeenTo(num[p])
Follows == /\ TLast <= Len(THdrs) /\ SeenTo(TLast)
           /\ \A p \in Procs : job[p] \in {"show", "set"} /\ cur[p] = swaps => ReadsOn(p)

\* A program goes on with the number it has.
LEMMA ReadsOnKept ==
  ASSUME Base, Orderly, ~Torn', NEW p \in Procs, Step(p), ~Pack(p), NEW q \in Procs, ReadsOn(q),
         num'[q] = num[q], fd'[q] = fd[q] \/ job'[q] # "set",
         job'[q] = "set" => job[q] = "set"
  PROVE  ReadsOn(q)'
<1>0. Types /\ Room /\ dir \in [Files -> Inodes \cup {None}] /\ num \in [Procs -> Nat]
  BY DEF Base, Types
<1>1. Swapping' = {} /\ dir' = dir
  <2>1. Swapping = {} /\ \A f \in Files : dir[f] # None
    BY DEF ReadsOn
  <2>2. Swapping' = {}
    BY <1>0, <2>1, SwappingSteps
  <2>3. ~Swap(p)
    BY <2>1 DEF Swap, Swapping
  <2>4. CASE Opens(p)
    <3>1. PICK f \in Files : OpenFile(p, f)
      BY <2>4, OpensFile
    <3>2. fd'[p][f] = dir[f] /\ dir' = [dir EXCEPT ![f] = fd'[p][f]]
      BY <1>0, <2>1, <3>1, Opened DEF OpenFile
    <3> QED
      BY <1>0, <2>2, <3>2
  <2>5. CASE ~Opens(p)
    BY <1>0, <2>2, <2>3, <2>5, DirSteps
  <2> QED
    BY <2>4, <2>5
<1>2. /\ DOMAIN THdrs = 1..Len(THdrs) /\ Len(THdrs) \in Nat /\ num[q] \in Nat
  BY <1>0, TTypes
<1>3. num[q] \in 1..Len(THdrs)
  BY <1>2 DEF ReadsOn
<1>4. SeenTo(num[q] - 1)' /\ Len(THdrs) <= Len(THdrs')
  <2>1. PICK n \in Int : n = num[q] - 1
    BY <1>2
  <2>2. n <= Len(THdrs) /\ SeenTo(n)
    BY <1>2, <1>3, <2>1 DEF ReadsOn, SeenTo
  <2>3. SeenTo(n)' /\ Len(THdrs) <= Len(THdrs')
    BY <2>1, <2>2, SeenKept
  <2>4. num'[q] = num[q]
    OBVIOUS
  <2> QED
    BY <2>1, <2>3, <2>4 DEF SeenTo
<1>5. num'[q] \in DOMAIN THdrs'
  <2>1. DOMAIN THdrs' = 1..Len(THdrs') /\ Len(THdrs') \in Nat
    BY BaseStep, LenPrimed
  <2> QED
    BY <1>2, <1>3, <1>4, <2>1
<1>6. SeenTo(num[q]) => SeenTo(num[q])'
  BY <1>2, <1>3, SeenKept DEF SeenTo
<1>7. SeenTo(num'[q] - 1)
  BY DEF ReadsOn
<1> QED
  BY <1>1, <1>4, <1>5, <1>6 DEF ReadsOn, SeenTo

\* A pack moves the pointer with the messages, and the readers lose theirs.
LEMMA PackFollows ==
  ASSUME Base, Orderly, Held, Tails, Marks, Lined, Serial, Reading, NEW p \in Procs, Pack(p),
         ~Torn', ~Hit({"entry", "restart", "late"})', astray' = {}
  PROVE  Follows'
<1>0. /\ Types /\ StageOf(p) /\ Room /\ ~Torn /\ THdrs = Hdrs(p) /\ THdrs' = PackedHdrs(p)
      /\ pc[p] \in LockPc \cup {"open"} /\ astray = {} /\ mishap' = mishap /\ seen' = seen
      /\ TLast' = IF Renumbered(p, TLast) > PackedCount(p) THEN PackedCount(p)
                  ELSE Renumbered(p, TLast)
      /\ PackedCount(p) \in Nat
  <2>1. PackedCount(p) \in 0..(Wrap - 1)
    BY PackFits, Packs DEF Base
  <2> QED
    BY <2>1, PackView DEF Base, Stage, LockPc
<1>1. ~Hit({"entry", "restart"}) /\ ~Hit({"entry", "restart", "late"}) /\ ~Displaced
  BY <1>0 DEF Hit, Displaced
<1>2. TLast <= Len(THdrs) /\ SeenTo(TLast) /\ \A k \in DOMAIN THdrs : THdrs[k].num = k
  BY <1>0, <1>1 DEF Reading, Serial
<1>3. Copied(p) = Undeleted(Hdrs(p)) /\ Read(p) = DOMAIN Hdrs(p)
  BY <1>1, PackCopiesAll
<1>4. DOMAIN THdrs = 1..Len(THdrs) /\ Len(THdrs) \in Nat /\ TLast \in Nat
  BY <1>0, TTypes
<1>5. Renumbered(p, TLast) = Rank(Copied(p), TLast)
  <2> DEFINE N == Len(THdrs)
             L == TLast
  <2>1. N \in Nat /\ Read(p) = 1..N /\ L \in 0..N /\ \A k \in 1..N : Hdrs(p)[k].num = k
    BY <1>0, <1>2, <1>3, <1>4
  <2> HIDE DEF N, L
  <2>2. Renumbered(p, L) = Rank(Copied(p), L)
    BY <2>1, RenumberedSerial
  <2> QED
    BY <2>2 DEF L
<1> DEFINE r == Rank(Copied(p), TLast)
           c == Cardinality(Copied(p))
<1>6. r \in Nat /\ r <= c /\ c \in Nat /\ Copied(p) \subseteq Nat
  <2>1. IsFiniteSet(Copied(p)) /\ c \in Nat /\ Copied(p) \subseteq 1..Len(Hdrs(p))
    BY <1>0, ReadRange
  <2>2. Cardinality(Copied(p) \cap 1..TLast) <= c
    BY <2>1, FS_Subset
  <2>3. r \in Nat
    BY <1>4, RankType
  <2> QED
    BY <2>1, <2>2, <2>3 DEF Rank
<1>7. TLast' \in Nat /\ TLast' <= r
  <2> HIDE DEF r
  <2>1. TLast' = IF r > PackedCount(p) THEN PackedCount(p) ELSE r
    BY <1>0, <1>5 DEF r
  <2> QED
    BY <1>0, <1>6, <2>1
<1>8. Len(THdrs') = c /\ DOMAIN THdrs' = 1..c
  BY <1>0, PackedIs
<1>9. SeenTo(TLast)'
  <2>1. ASSUME NEW n \in DOMAIN THdrs', n <= TLast' PROVE THdrs'[n].msg \in seen'
    <3> DEFINE k == Place(Copied(p), n)
    <3>1. k \in Copied(p) /\ Rank(Copied(p), k) = n /\ PackedHdrs(p)[n].msg = Hdrs(p)[k].msg
      BY <1>0, <1>8, <2>1, PackedIs
    <3> HIDE DEF k
    <3>2. k \in Nat /\ k \in DOMAIN THdrs /\ ~THdrs[k].del
      BY <1>0, <1>3, <1>6, <3>1 DEF Undeleted
    <3>3. n \in Nat /\ n <= r
      BY <1>6, <1>7, <1>8, <2>1
    <3>4. k <= TLast
      <4>1. ASSUME TLast < k PROVE FALSE
        <5>1. Rank(Copied(p), TLast) < Rank(Copied(p), k)
          BY <1>4, <3>1, <3>2, <4>1, RankGrows
        <5> QED
          BY <1>6, <3>1, <3>3, <5>1
      <4> QED
        BY <1>4, <3>2, <4>1
    <3>5. THdrs[k].msg \in seen
      BY <1>2, <3>2, <3>4 DEF SeenTo
    <3> QED
      BY <1>0, <3>1, <3>5
  <2> QED
    BY <2>1 DEF SeenTo
<1>10. \A q \in Procs : ~(job'[q] \in {"show", "set"} /\ cur'[q] = swaps')
  <2>1. job' = job /\ cur' = cur /\ swaps' = swaps + 1 /\ swaps \in Nat
    BY <1>0 DEF Pack, Types
  <2>2. \A q \in Procs : job[q] \in {"show", "set"} => cur[q] <= swaps
    BY DEF Base, Stage, StageOf
  <2>3. \A q \in Procs : cur[q] \in Int
    BY <1>0 DEF Types
  <2> QED
    BY <2>1, <2>2, <2>3
<1>11. TLast' <= Len(THdrs')
  BY <1>6, <1>7, <1>8
<1> QED
  BY <1>9, <1>10, <1>11 DEF Follows, SeenTo

\* The next message is the first one behind the pointer.
LEMMA FindsNext ==
  ASSUME Base, Orderly, Held, Lined, Serial, Follows, ~Torn, ~Hit({"entry", "restart"}), astray = {},
         NEW p \in Procs, pc[p] = "open", Current(p), Next1(p) # 0
  PROVE  Next1(p) \in DOMAIN THdrs /\ SeenTo(Next1(p) - 1)
<1>0. Types /\ StageOf(p) /\ Room /\ pc[p] \in LockPc \cup {"open"}
  BY DEF Base, Stage
<1>1. THdrs = Hdrs(p) /\ TIndex = Index(p) /\ TLast = jlr[fd[p].jlr]
  BY <1>0, CurrentView
<1>2. InLine /\ Straight
  BY DEF Lined, InLine, Serial, Straight, Hit
<1>3. /\ DOMAIN THdrs = 1..Len(THdrs) /\ Len(THdrs) \in Nat /\ TLast \in Nat
      /\ DOMAIN TIndex = 1..Len(TIndex)
      /\ Len(TIndex) \in Nat
  BY <1>0, TTypes
<1> DEFINE later == {j \in DOMAIN Index(p) :
                                  /\ Index(p)[j] \in Undeleted(Hdrs(p))
                                  /\ Hdrs(p)[Index(p)[j]].num > jlr[fd[p].jlr]}
<1>4. PICK k \in later : (\A j \in later : k <= j) /\ Next1(p) = Hdrs(p)[Index(p)[k]].num
  BY <1>0, Next1Type
<1>5. /\ k \in DOMAIN TIndex /\ TIndex[k] = k /\ k \in DOMAIN THdrs /\ THdrs[k].num = k
      /\ Next1(p) = k
  BY <1>1, <1>2, <1>4 DEF InLine, Straight, Undeleted
<1>6. ASSUME NEW j \in DOMAIN THdrs, j <= k - 1, ~THdrs[j].del PROVE THdrs[j].msg \in seen
  <2>1. CASE j <= TLast
    BY <1>6, <2>1 DEF Follows, SeenTo
  <2>2. CASE j > TLast
    <3>1. j \in DOMAIN TIndex
      BY <1>3, <1>5, <1>6
    <3>2. TIndex[j] = j /\ THdrs[j].num = j
      BY <1>2, <1>6, <3>1 DEF InLine, Straight
    <3>3. j \in later
      BY <1>1, <1>6, <2>2, <3>1, <3>2 DEF Undeleted
    <3> QED
      BY <1>3, <1>4, <1>5, <1>6, <3>3
  <2> QED
    BY <1>3, <1>6, <2>1, <2>2
<1> QED
  BY <1>5, <1>6 DEF SeenTo

\* The message shown is the one at the number.
LEMMA ShowsIt ==
  ASSUME Base, Orderly, Serial, ~Torn, ~Hit({"entry", "restart"}), astray = {},
         NEW p \in Procs, Shows(p), Current(p), num[p] \in DOMAIN THdrs, SeenTo(num[p] - 1)
  PROVE  SeenTo(num[p])' /\ THdrs' = THdrs
<1>0. Types /\ StageOf(p) /\ Room /\ pc[p] \in LockPc \cup {"open"}
  BY DEF Base, Stage, Shows, Show
<1>1. THdrs = Hdrs(p)
  BY <1>0, CurrentView
<1>2. /\ DOMAIN THdrs = 1..Len(THdrs) /\ Len(THdrs) \in Nat
  BY <1>0, TTypes
<1>3. PICK k : k \in Find(p, num[p])
  BY DEF Shows
<1>4. k = num[p]
  <2>1. k \in DOMAIN Hdrs(p) /\ Hdrs(p)[k].num = num[p]
    BY <1>0, <1>3, FindFinds
  <2> QED
    BY <1>1, <2>1 DEF Serial
<1>5. seen' = seen \cup {Hdrs(p)[j].msg : j \in Find(p, num[p])}
  BY DEF Shows, Show
<1>6. THdrs[num[p]].msg \in seen' /\ seen \subseteq seen'
  BY <1>1, <1>3, <1>4, <1>5
<1>7. THdrs' = THdrs
  BY DEF Shows, Show, THdrs, Target, files
<1>8. ASSUME NEW j \in DOMAIN THdrs, j <= num[p], ~THdrs[j].del PROVE THdrs[j].msg \in seen'
  <2>1. CASE j = num[p]
    BY <1>6, <2>1
  <2>2. CASE j # num[p]
    <3>1. j <= num[p] - 1
      BY <1>2, <1>8, <2>2
    <3> QED
      BY <1>6, <1>8, <3>1 DEF SeenTo
  <2> QED
    BY <2>1, <2>2
<1>9. num' = num
  BY DEF Shows, Show
<1> QED
  BY <1>7, <1>8, <1>9 DEF SeenTo

\* The user goes from message to message.
LEMMA ReadingStep ==
  ASSUME Base, Orderly, Held, Tails, Marks, Lined, Serial, Reading, Setting, NEW p \in Procs, Step(p)
  PROVE  Reading'
<1>0. /\ Types /\ StageOf(p) /\ Room /\ pc \in [Procs -> States] /\ job \in [Procs -> Jobs]
      /\ num \in [Procs -> Nat] /\ cur \in [Procs -> Int] /\ swaps \in Nat
  BY DEF Base, Stage, Types
<1> SUFFICES ASSUME ~Torn', ~Hit({"entry", "restart", "late"})', astray' = {}
             PROVE  Follows'
  <2>1. Reading' <=> (~Torn' /\ ~Hit({"entry", "restart", "late"})' /\ astray' = {} => Follows')
    BY DEF Reading, Follows, ReadsOn
  <2> QED
    BY <2>1
<1>1. ~Torn /\ astray = {} /\ Follows /\ ~Hit({"entry", "restart"})
  <2>1. ~Torn /\ astray = {} /\ ~Hit({"entry", "restart", "late"})
    BY HitGrows, AddsAlone
  <2> QED
    BY <2>1 DEF Reading, Follows, ReadsOn, Hit
<1>2. CASE Pack(p)
  BY <1>2, PackFollows
<1>3. CASE ~Pack(p)
  <2>0. swaps' = swaps
    BY <1>0, <1>3, CountersGrow
  <2>1. /\ DOMAIN THdrs = 1..Len(THdrs) /\ Len(THdrs) \in Nat /\ TLast \in Nat
    BY <1>0, TTypes
  <2>2. TLast' <= Len(THdrs') /\ SeenTo(TLast)'
    <3>1. PICK n \in Nat : TLast' = n /\ n <= Len(THdrs) /\ SeenTo(n)
      <4>1. CASE TLast' = TLast
        BY <1>1, <2>1, <4>1 DEF Follows
      <4>2. CASE SetLastRead(p) /\ TLast' = num[p]
        <5>1. cur[p] = swaps /\ Current(p) /\ job[p] = "set"
          BY <4>2 DEF SetLastRead, Hit
        <5>2. ReadsOn(p) /\ fd[p] = dir
          BY <1>1, <5>1 DEF Follows, Current
        <5> QED
          BY <1>0, <2>1, <4>2, <5>1, <5>2 DEF ReadsOn
      <4> QED
        BY <1>3, <4>1, <4>2, TKeep
    <3>2. SeenTo(n)' /\ Len(THdrs) <= Len(THdrs')
      BY <1>3, <3>1, SeenKept
    <3>3. Len(THdrs') \in Nat
      BY BaseStep, LenPrimed
    <3> QED
      BY <2>1, <3>1, <3>2, <3>3 DEF SeenTo
  <2>3. ASSUME NEW q \in Procs, job'[q] \in {"show", "set"}, cur'[q] = swaps'
        PROVE  ReadsOn(q)'
    <3>1. CASE q # p
      <4>1. /\ job'[q] = job[q] /\ cur'[q] = cur[q] /\ num'[q] = num[q] /\ fd'[q] = fd[q]
        BY <1>0, <3>1, OthersSame
      <4>2. ReadsOn(q)
        BY <1>1, <2>0, <2>3, <4>1 DEF Follows
      <4> QED
        BY <1>3, <4>1, <4>2, ReadsOnKept
    <3>2. CASE q = p /\ FindNext(p)
      <4>1. /\ job' = [job EXCEPT ![p] = "show"] /\ num' = [num EXCEPT ![p] = Next1(p)]
            /\ cur' = [cur EXCEPT ![p] = IF Current(p) THEN swaps ELSE -1]
            /\ Next1(p) # 0 /\ pc[p] = "open"
        <5>1. Next1(p) # 0
          BY <1>0, <2>3, <3>2 DEF FindNext, Done
        <5> QED
          BY <3>2, <5>1 DEF FindNext
      <4>2. Current(p)
        BY <1>0, <2>0, <2>3, <3>2, <4>1
      <4>3. Next1(p) \in DOMAIN THdrs /\ SeenTo(Next1(p) - 1)
        BY <1>1, <4>1, <4>2, FindsNext
      <4>4. THdrs' = THdrs /\ dir' = dir /\ seen' = seen
        <5>1. ~Writes(p) /\ Closes(p)
          BY <3>2, <4>1 DEF Closes, Writes, FindNext, Create, AddIndex, AddHeader, AddText, AddFinal,
                    AddCount, Adds, Delete, DeleteCount, SetLastRead, Goto
        <5> QED
          BY <1>3, <5>1, TSteps, ClosesFiles
      <4>5. Swapping' = {} /\ \A f \in Files : dir'[f] # None
        <5>1. Swapping' = {}
          BY <1>0, <1>3, <4>2, SwappingSteps DEF Current
        <5>2. \A f \in Files : fd[p][f] # None
          BY <1>0, <4>1 DEF StageOf
        <5> QED
          BY <4>2, <4>4, <5>1, <5>2 DEF Current
      <4>6. num'[p] = Next1(p) /\ job'[p] = "show"
        BY <1>0, <4>1
      <4>7. num'[p] \in DOMAIN THdrs'
        BY <4>3, <4>4, <4>6
      <4>8. \A k \in DOMAIN THdrs' : k <= num'[p] - 1 /\ ~THdrs'[k].del => THdrs'[k].msg \in seen'
        BY <4>3, <4>4, <4>6 DEF SeenTo
      <4> QED
        BY <3>2, <4>5, <4>6, <4>7, <4>8 DEF ReadsOn, SeenTo
    <3>3. CASE q = p /\ Shows(p)
      <4>1. /\ job[p] = "show" /\ pc[p] = "open"
            /\ UNCHANGED <<dir, tmp, files, pc, fd, act, num, cur, stored, killed, astray>>
        BY <3>3 DEF Shows, Show
      <4>2. ReadsOn(p)
        BY <1>1, <2>0, <2>3, <3>3, <4>1 DEF Follows
      <4>3. Swapping' = {} /\ \A f \in Files : dir'[f] # None
        BY <4>1, <4>2 DEF ReadsOn, Swapping
      <4>4. THdrs' = THdrs
        BY <4>1 DEF THdrs, Target, files
      <4>5. SeenTo(num[p] - 1)'
        <5>1. seen \subseteq seen'
          BY HistoryGrows
        <5> QED
          BY <4>1, <4>2, <4>4, <5>1 DEF ReadsOn, SeenTo
      <4>6. fd'[p] = dir' => SeenTo(num[p])'
        <5>1. ASSUME fd'[p] = dir' PROVE SeenTo(num[p])'
          <6>1. Current(p)
            BY <4>1, <4>2, <5>1 DEF Current, ReadsOn
          <6>2. num[p] \in DOMAIN THdrs /\ SeenTo(num[p] - 1)
            BY <4>2 DEF ReadsOn
          <6> QED
            BY <1>1, <3>3, <6>1, <6>2, ShowsIt
        <5> QED
          BY <5>1
      <4>7. num'[p] \in DOMAIN THdrs'
        BY <4>1, <4>2, <4>4 DEF ReadsOn
      <4> QED
        BY <3>3, <4>1, <4>3, <4>5, <4>6, <4>7 DEF ReadsOn, SeenTo
    <3>4. CASE q = p /\ ~FindNext(p) /\ ~Shows(p)
      <4>1. /\ num'[p] = num[p] /\ cur'[p] = cur[p] /\ job'[p] = job[p]
            /\ fd'[p] = fd[p] \/ job'[p] # "set"
        <5>1. CASE Opens(p)
          <6>1. Again(p) \/ OpenNext(p)
            BY <1>0, <2>3, <3>4, <5>1 DEF Opens, Start
          <6>2. job'[p] # "set"
            BY <1>0, <6>1 DEF Again, OpenNext, Setting
          <6> QED
            BY <6>1, <6>2 DEF Again, OpenNext
        <5>2. CASE Closes(p)
          <6>1. job'[p] = "none"
            BY <1>0, <3>4, <5>2 DEF Closes, LockFails, UnLock, Crash, Show, Done
          <6> QED
            BY <2>3, <3>4, <6>1
        <5>3. CASE Lock(p)
          BY <5>3 DEF Lock
        <5>4. CASE Swap(p)
          <6>1. job'[p] \in {"done", "pack"}
            BY <1>0, <5>4 DEF Swap, StageOf
          <6> QED
            BY <2>3, <3>4, <6>1
        <5>5. CASE Writes(p)
          <6>1. UNCHANGED <<fd, job, cur>>
            BY <5>5, WritesKeep
          <6>2. ~AddIndex(p)
            BY <2>3, <3>4, <6>1 DEF AddIndex, Adds
          <6>3. num' = num
            BY Zenon, <5>5, <6>2 DEF Writes, Create, AddHeader, AddText, AddFinal, AddCount, Delete,
                      DeleteCount, SetLastRead
          <6> QED
            BY <6>1, <6>3
        <5> QED
          BY <1>3, <3>4, <5>1, <5>2, <5>3, <5>4, <5>5, StepKinds
      <4>2. ReadsOn(p)
        BY <1>1, <2>0, <2>3, <3>4, <4>1 DEF Follows
      <4> QED
        BY <1>3, <3>4, <4>1, <4>2, ReadsOnKept
    <3> QED
      BY <3>1, <3>2, <3>3, <3>4
  <2> QED
    BY <2>2, <2>3 DEF Follows, SeenTo
<1> QED
  BY <1>2, <1>3

-----------------------------------------------------------------------------
(* The theorems *)

\* The inductive invariant
JInv == /\ Base /\ Orderly /\ Held /\ Counting /\ Tails /\ Marks /\ Lined /\ Serial /\ Rising
        /\ Keeping /\ Reading /\ Setting

\* The base at the beginning: empty, or with messages read up to the pointer
LEMMA FirstView ==
  ASSUME Init
  PROVE  \E N \in Nat, last \in Nat :
             /\ N = left.old /\ N < Wrap /\ last <= N
             /\ THdrs = [m \in 1..N |-> Written(m)] /\ Len(THdrs) = N /\ DOMAIN THdrs = 1..N
             /\ TActive = N
             /\ TTexts = [m \in 1..N |-> m] /\ TIndex = [m \in 1..N |-> m] /\ Len(TIndex) = N
             /\ TLast = last /\ seen = 1..last /\ stored = 1..N
<1>1. /\ left.old \in Nat /\ left.old < Wrap
  BY InitialIs
<1>2. PICK last \in 0..left.old : jlr = At1(last, 0) /\ seen = 1..last
  BY DEF Init
<1>3. PICK N \in Nat : N = left.old
  BY <1>1
<1>4. /\ jhr = At1(Initial(N), NoHeaders)
      /\ jdt = At1([m \in 1..N |-> m], <<>>)
      /\ jdx = At1([m \in 1..N |-> m], <<>>)
      /\ stored = 1..N
  BY <1>3 DEF Init
<1>5. \A f \in Files : Target(f) = IF N = 0 THEN None ELSE 1
  BY <1>3 DEF Init, Target
<1>6. "jhr" \in Files /\ "jdt" \in Files /\ "jdx" \in Files /\ "jlr" \in Files
  BY DEF Files
<1>7. CASE N = 0
  <2>1. /\ THdrs = <<>> /\ TActive = 0 /\ TTexts = <<>> /\ TIndex = <<>> /\ TLast = 0
    BY <1>5, <1>6, <1>7 DEF THdrs, TActive, TTexts, TIndex, TLast
  <2>2. last = 0
    BY <1>2, <1>3, <1>7
  <2>3. \A e : [m \in 1..N |-> e] = <<>>
    BY <1>7
  <2>4. [m \in 1..N |-> Written(m)] = <<>> /\ [m \in 1..N |-> m] = <<>>
    BY <1>7
  <2>5. Len(<<>>) = 0 /\ DOMAIN <<>> = 1..0
    OBVIOUS
  <2> QED
    BY <1>1, <1>2, <1>3, <1>4, <1>7, <2>1, <2>2, <2>4, <2>5
<1>8. CASE N # 0
  <2>0. 1 \in Inodes /\ None # 1 /\ left.old > 0
    BY <1>3, <1>8, FirstInode DEF None
  <2>1. jhr[1] = Initial(N) /\ jdt[1] = [m \in 1..N |-> m] /\ jdx[1] = [m \in 1..N |-> m] /\ jlr[1] = last
    BY <1>2, <1>4, <2>0 DEF At1
  <2>2. /\ THdrs = [m \in 1..N |-> Written(m)] /\ TActive = N
        /\ TTexts = [m \in 1..N |-> m] /\ TIndex = [m \in 1..N |-> m] /\ TLast = last
    BY <1>5, <1>6, <1>8, <2>0, <2>1 DEF THdrs, TActive, TTexts, TIndex, TLast, Initial
  <2>3. Len([m \in 1..N |-> Written(m)]) = N /\ Len([m \in 1..N |-> m]) = N
    OBVIOUS
  <2>4. DOMAIN [m \in 1..N |-> Written(m)] = 1..N
    OBVIOUS
  <2>5. last \in Nat /\ last <= N
    BY <1>2, <1>3
  <2> QED
    BY <1>1, <1>2, <1>3, <1>4, <2>2, <2>3, <2>4, <2>5
<1> QED
  BY <1>7, <1>8

\* It holds at the beginning ...
LEMMA JInvInit ==
  ASSUME Init
  PROVE  JInv
<1>1. Base
  BY BaseInit
<1>2. /\ \A p \in Procs : pc[p] = "closed" /\ job[p] = "none"
      /\ \A f \in Files : tmp[f] = None
      /\ mishap = {} /\ astray = {} /\ killed = {}
  BY DEF Init
<1>3. PICK N \in Nat, last \in Nat :
             /\ N = left.old /\ N < Wrap /\ last <= N
             /\ THdrs = [m \in 1..N |-> Written(m)] /\ Len(THdrs) = N /\ DOMAIN THdrs = 1..N
             /\ TActive = N
             /\ TTexts = [m \in 1..N |-> m] /\ TIndex = [m \in 1..N |-> m] /\ Len(TIndex) = N
             /\ TLast = last /\ seen = 1..last /\ stored = 1..N
  BY FirstView
<1>4. /\ \A k \in DOMAIN THdrs : /\ THdrs[k].num = k /\ THdrs[k].msg = k /\ ~THdrs[k].del
                                 /\ THdrs[k].done /\ ~THdrs[k].tail /\ THdrs[k].txt = k
      /\ \A k \in 1..N : k \in DOMAIN TIndex /\ TIndex[k] = k /\ k \in DOMAIN TTexts /\ TTexts[k] = k
      /\ DOMAIN TIndex = 1..N
  BY <1>3 DEF Written
<1>5. Orderly /\ Held /\ Tails /\ Marks /\ Setting
  BY <1>2, <1>4 DEF Orderly, Swapping, Held, Tails, Marks, Hit, Setting, Adding
<1>6. Counting
  <2>1. Undeleted(THdrs) = 1..N
    BY <1>3, <1>4 DEF Undeleted
  <2>2. Cardinality(Undeleted(THdrs)) = N
    BY <2>1, FS_Interval
  <2> QED
    BY <1>2, <1>3, <2>2 DEF Counting, At
<1>7. Lined /\ Serial /\ Rising
  BY <1>2, <1>3, <1>4 DEF Lined, Serial, Rising
<1>8. Keeping
  <2>1. ASSUME NEW m \in 1..N PROVE \E k \in DOMAIN THdrs : There(m, k)
    <3>0. m \in DOMAIN THdrs
      BY <1>3
    <3>a. /\ THdrs[m].msg = m /\ ~THdrs[m].del /\ THdrs[m].done /\ THdrs[m].txt = m
          /\ m \in DOMAIN TIndex /\ TIndex[m] = m /\ m \in DOMAIN TTexts /\ TTexts[m] = m
      BY <1>4, <3>0
    <3>1. m \in DOMAIN THdrs /\ There(m, m)
      BY <3>0, <3>a DEF There
    <3> QED
      BY <3>1
  <2> QED
    BY <1>3, <2>1 DEF Keeping
<1>9. Reading
  <2>1. TLast <= Len(THdrs)
    BY <1>3
  <2>2. SeenTo(TLast)
    <3>1. ASSUME NEW k \in DOMAIN THdrs, k <= TLast PROVE THdrs[k].msg \in seen
      <4>1. THdrs[k].msg = k /\ k \in 1..N
        BY <1>3, <1>4
      <4>2. k \in 1..last
        BY <1>3, <3>1, <4>1
      <4> QED
        BY <1>3, <4>1, <4>2
    <3> QED
      BY <3>1 DEF SeenTo
  <2>3. \A p \in Procs : job[p] \notin {"show", "set"}
    BY <1>2
  <2> QED
    BY <2>1, <2>2, <2>3 DEF Reading
<1> QED
  BY <1>1, <1>5, <1>6, <1>7, <1>8, <1>9 DEF JInv

\* ... and is about the variables alone; ...
LEMMA JInvStutter ==
  ASSUME JInv, UNCHANGED vars
  PROVE  JInv'
<1>1. Base'
  BY BaseStutter DEF JInv
<1>2. /\ UNCHANGED <<dir, tmp, jhr, jdt, jdx, jlr, pc, job, fd, act, num, cur, left, msgs, swaps,
          stored, killed, seen, astray, mishap>>
  BY DEF vars
<1>3. THdrs' = THdrs /\ TActive' = TActive /\ TTexts' = TTexts /\ TIndex' = TIndex /\ TLast' = TLast
  BY <1>2 DEF THdrs, TActive, TTexts, TIndex, TLast, Target
<1>4. Orderly' /\ Held' /\ Marks' /\ Setting'
  BY <1>2 DEF JInv, Orderly, Held, Marks, Setting, Torn, Hit, Swapping, Current
<1>5. Counting' /\ Tails'
  BY <1>2, <1>3 DEF JInv, Counting, Tails, At, Target, Torn, Hit
<1>6. Lined' /\ Serial' /\ Rising'
  BY <1>2, <1>3 DEF JInv, Lined, Serial, Rising, Torn, Hit
<1>7. Keeping'
  BY <1>2, <1>3 DEF JInv, Keeping, There, Torn, Hit, Displaced
<1>8. Reading'
  BY <1>2, <1>3 DEF JInv, Reading, SeenTo, Swapping, Torn, Hit
<1> QED
  BY <1>1, <1>4, <1>5, <1>6, <1>7, <1>8 DEF JInv

\* ... every step preserves it.
LEMMA JInvNext ==
  ASSUME JInv, [Next]_vars
  PROVE  JInv'
<1>1. ASSUME Next PROVE JInv'
  <2>1. PICK p \in Procs : Step(p)
    BY <1>1, StepIs
  <2>2. /\ Base /\ Orderly /\ Held /\ Counting /\ Tails /\ Marks /\ Lined /\ Serial /\ Rising
        /\ Keeping /\ Reading /\ Setting /\ Types /\ Stage
    BY DEF JInv, Base
  <2>3. Base' /\ Orderly' /\ Held' /\ Marks' /\ Setting'
    BY <2>1, <2>2, BaseStep, OrderlyStep, HeldStep, MarksStep, SettingStep
  <2>4. Counting' /\ Tails'
    BY <2>1, <2>2, CountingStep, TailsStep
  <2>5. Lined' /\ Serial' /\ Rising'
    BY <2>1, <2>2, LinedStep, SerialStep, RisingStep
  <2>6. Keeping' /\ Reading'
    BY <2>1, <2>2, KeepingStep, ReadingStep
  <2> QED
    BY <2>3, <2>4, <2>5, <2>6 DEF JInv
<1> QED
  BY <1>1, JInvStutter

\* The invariant holds in every state: what has a name or will get it is the base
\* that JAM_AddMsg(), JAM_Delete(), JAM_Pack() and the user's pointer made of
\* it, as long as the conditions of its parts hold.
THEOREM JInvHolds == Spec => []JInv
<1>1. Init => JInv
  BY JInvInit
<1>2. JInv /\ [Next]_vars => JInv'
  BY JInvNext
<1> QED
  BY <1>1, <1>2, PTL DEF Spec

\* When nobody exchanges the files, the target is the base.
LEMMA ExistsView ==
  ASSUME JInv, Exists, ~Torn
  PROVE  /\ THdrs = BaseHdrs /\ TActive = jhr[dir.jhr].active /\ TTexts = BaseTexts
         /\ TIndex = jdx[dir.jdx] /\ TLast = jlr[dir.jlr] /\ Target("jhr") = dir.jhr
<1>1. \A f \in Files : Target(f) = dir[f] /\ dir[f] # None
  BY DEF JInv, Orderly, Exists, Target
<1>2. "jhr" \in Files /\ "jdt" \in Files /\ "jdx" \in Files /\ "jlr" \in Files
  BY DEF Files
<1> QED
  BY <1>1, <1>2 DEF THdrs, TActive, TTexts, TIndex, TLast, BaseHdrs, BaseTexts

\* What the parts of the invariant say of the base that a program opens
LEMMA TypeOKFollows ==
  ASSUME JInv
  PROVE  TypeOK
<1>1. Types
  BY DEF JInv, Base
<1>2. ASSUME NEW i \in Inodes
      PROVE  /\ jhr[i].active \in 0..(Wrap - 1)
             /\ \A k \in DOMAIN jhr[i].hdrs : jhr[i].hdrs[k] \in Header
             /\ \A k \in DOMAIN jdt[i] : jdt[i][k] \in 1..MaxMsgs
             /\ jlr[i] \in Nat
  <2>1. jhr[i] \in HeaderFile /\ jdt[i] \in Seq(1..MaxMsgs) /\ jlr[i] \in Nat
    BY <1>1 DEF Types
  <2>2. jhr[i].active \in 0..(Wrap - 1) /\ jhr[i].hdrs \in Seq(Header)
    BY <2>1 DEF HeaderFile
  <2>3. \A k \in DOMAIN jhr[i].hdrs : jhr[i].hdrs[k] \in Header
    BY <2>2
  <2>4. \A k \in DOMAIN jdt[i] : jdt[i][k] \in 1..MaxMsgs
    <3> DEFINE S == 1..MaxMsgs
    <3>1. jdt[i] \in Seq(S)
      BY <2>1
    <3> HIDE DEF S
    <3>2. \A k \in DOMAIN jdt[i] : jdt[i][k] \in S
      BY <3>1, ElementOfSeq
    <3> QED
      BY <3>2 DEF S
  <2> QED
    BY <2>1, <2>2, <2>3, <2>4
<1> QED
  BY <1>1, <1>2 DEF TypeOK, Types

LEMMA IndexSoundFollows ==
  ASSUME JInv
  PROVE  IndexSound
<1>1. CountExact
  <2> SUFFICES ASSUME Exists, ~Busy, ~Hit({"swap", "stalepack", "wiped", "add", "delete"})
               PROVE  jhr[dir.jhr].active = Cardinality(Undeleted(BaseHdrs))
    BY DEF CountExact
  <2>1. ~Torn /\ ~Hit({"wiped", "add", "delete"})
    BY DEF Hit, Torn
  <2>2. \A p \in Procs : ~At(p, {"text", "final", "count", "deleted"})
    BY <2>1, ExistsView DEF At, Busy, Adding
  <2> QED
    BY <2>1, <2>2, ExistsView DEF JInv, Counting
<1>2. Ascending
  <2> SUFFICES ASSUME Exists, astray = {}, ~Hit({"blind", "entry", "swap", "stalepack"}),
                      NEW k \in Numbered, NEW l \in Numbered, k < l
               PROVE  BaseHdrs[k].num < BaseHdrs[l].num
    BY DEF Ascending
  <2>1. ~Torn /\ ~Hit({"entry", "blind"})
    BY DEF Hit, Torn
  <2>2. k \in DOMAIN THdrs /\ l \in DOMAIN THdrs /\ ~THdrs[k].del
    BY <2>1, ExistsView DEF Numbered, Undeleted
  <2> QED
    BY <2>1, <2>2, ExistsView DEF JInv, Rising
<1> QED
  BY <1>1, <1>2, TypeOKFollows DEF IndexSound

LEMMA MessagesKeptFollows ==
  ASSUME JInv
  PROVE  MessagesKept
<1> SUFFICES ASSUME Exists, ~Hit({"swap", "stalepack"}), ~(Hit({"tail"}) /\ Displaced),
                    NEW m \in stored \ (killed \cup astray)
             PROVE  \E h \in Shown : Whole(h) /\ h.msg = m
  BY DEF MessagesKept
<1>1. ~Torn
  BY DEF Torn
<1>2. PICK k \in DOMAIN THdrs : There(m, k)
  BY <1>1 DEF JInv, Keeping
<1>3. PICK j \in DOMAIN TIndex : TIndex[j] = k
  BY <1>2 DEF There
<1>4. k \in ToSet(jdx[dir.jdx])
  BY <1>1, <1>3, ExistsView DEF ToSet
<1>5. k \in Numbered
  BY <1>1, <1>2, <1>4, ExistsView DEF Numbered, Undeleted, There
<1>6. BaseHdrs[k] \in Shown
  BY <1>5 DEF Shown
<1>7. Whole(BaseHdrs[k]) /\ BaseHdrs[k].msg = m
  BY <1>1, <1>2, ExistsView DEF There, Whole
<1> QED
  BY <1>6, <1>7

LEMMA NothingSkippedFollows ==
  ASSUME JInv
  PROVE  NothingSkipped
<1> SUFFICES ASSUME Exists, astray = {}, ~Hit({"restart", "entry", "late", "swap", "stalepack"}),
                    NEW h \in Shown, h.num <= jlr[dir.jlr]
             PROVE  h.msg \in seen
  BY DEF NothingSkipped
<1>1. ~Torn /\ ~Hit({"entry", "restart"}) /\ ~Hit({"entry", "restart", "late"})
  BY DEF Torn, Hit
<1>2. PICK k \in Numbered : h = BaseHdrs[k]
  BY DEF Shown
<1>3. k \in DOMAIN THdrs /\ ~THdrs[k].del /\ h = THdrs[k]
  BY <1>1, <1>2, ExistsView DEF Numbered, Undeleted
<1>4. h.num = k
  BY <1>1, <1>3 DEF JInv, Serial
<1>5. SeenTo(TLast)
  BY <1>1 DEF JInv, Reading
<1> QED
  BY <1>1, <1>3, <1>4, <1>5, ExistsView DEF SeenTo

\* The count of messages in the header, by which JAM_Highest() and JAM_Next() go,
\* is that of the messages not deleted, and numbers ascend along the index,
\* however many programs add, delete and pack and wherever they are killed,
\* but for the cases that CountExact and Ascending name.
THEOREM IndexSoundHolds == Spec => []IndexSound
<1>1. JInv => IndexSound
  BY IndexSoundFollows
<1> QED
  BY <1>1, JInvHolds, PTL

\* A message whose writer was told that it is stored (AddCount, 290-297) is found
\* with its text until somebody deletes it: in particular JAM_Pack() loses none,
\* whoever else has the base open, but for the cases that MessagesKept names.
THEOREM MessagesKeptHolds == Spec => []MessagesKept
<1>1. JInv => MessagesKept
  BY MessagesKeptFollows
<1> QED
  BY <1>1, JInvHolds, PTL

\* No message that the user has not read lies at or before the user's pointer,
\* whoever packs and renumbers the base between the two sessions of a reader,
\* but for the cases that NothingSkipped names.
THEOREM NothingSkippedHolds == Spec => []NothingSkipped
<1>1. JInv => NothingSkipped
  BY NothingSkippedFollows
<1> QED
  BY <1>1, JInvHolds, PTL
=============================================================================
