------------------------- MODULE ClientTableProofs -------------------------
(***************************************************************************)
(* For any size of the client table and of the ring in a slot, and any     *)
(* number of sessions: personal messages are a bounded first-in first-out  *)
(* queue, the position behind the arrays damages no message but those at   *)
(* its two neighbours in memory, and a scan of the table that nobody       *)
(* disturbs shows every session.                                           *)
(***************************************************************************)
EXTENDS PersonalMsg, ClientList,
        SequenceTheorems, NaturalsInduction, WellFoundedInduction, TLAPS

-----------------------------------------------------------------------------
(* Personal messages *)

\* An empty ring has equal pointers, and position RB is in use only when extra
\* says so.
PointersMeet == ~ismsg => ptr_in = ptr_out
ExtraKnown == RB \in Waiting => extra

IInv == TypeOK /\ PointersMeet /\ ExtraKnown /\ DamageConfined

-----------------------------------------------------------------------------
(* The ring *)

\* Position p plus k, where k is at most a turn.
LEMMA Around ==
  ASSUME NEW p \in Positions, NEW k \in 0..RB
  PROVE  /\ (p + k) % (RB + 1) = IF p + k <= RB THEN p + k ELSE p + k - (RB + 1)
         /\ (p + k) % (RB + 1) \in Positions
  <1>1. RB \in Nat /\ RB > 0 /\ p \in 0..RB
    BY RBAssumption DEF Positions
  <1>2. \A n \in Nat : n > 0 => \A x \in 0..(n - 1) : x % n = x
    OBVIOUS
  <1>3. \A n \in Nat : n > 0 => \A x \in n..(2 * n - 1) : x % n = x - n
    OBVIOUS
  <1>4. CASE p + k <= RB
    <2>1. (p + k) % (RB + 1) = p + k
      BY <1>1, <1>2, <1>4
    <2> QED
      BY <1>1, <1>4, <2>1 DEF Positions
  <1>5. CASE p + k > RB
    <2>1. p + k \in (RB + 1)..(2 * (RB + 1) - 1)
      BY <1>1, <1>5
    <2>2. (p + k) % (RB + 1) = p + k - (RB + 1)
      BY <1>1, <1>3, <2>1
    <2> QED
      BY <1>1, <1>5, <2>2 DEF Positions
  <1> QED
    BY <1>1, <1>4, <1>5

LEMMA WaitsType ==
  ASSUME TypeOK, PointersMeet
  PROVE  /\ Waits \in 0..(RB + 1)
         /\ Waits = 0 <=> ~ismsg
         /\ ~Full => Waits < RB + 1
         /\ ismsg => Waits > 0
  <1>1. RB \in Nat /\ RB > 0 /\ ptr_in \in 0..RB /\ ptr_out \in 0..RB /\ ismsg \in BOOLEAN
    BY RBAssumption DEF TypeOK, Positions
  <1> QED
    BY <1>1 DEF Waits, Full

\* The next message goes behind those that wait, to a position that is free
\* unless the ring is full.
LEMMA NextPosition ==
  ASSUME TypeOK, PointersMeet, ~Full
  PROVE  /\ (ptr_out + Waits) % (RB + 1) = ptr_in
         /\ \A k \in 0..(Waits - 1) : (ptr_out + k) % (RB + 1) # ptr_in
  <1>1. RB \in Nat /\ RB > 0 /\ ptr_in \in 0..RB /\ ptr_out \in 0..RB /\ ismsg \in BOOLEAN
    BY RBAssumption DEF TypeOK, Positions
  <1>2. Waits \in 0..RB
    BY <1>1, WaitsType
  <1>3. ptr_out + Waits = ptr_in \/ ptr_out + Waits = ptr_in + (RB + 1)
    BY <1>1 DEF Waits, PointersMeet, Full
  <1>4. (ptr_out + Waits) % (RB + 1) = ptr_in
    <2>1. (ptr_out + Waits) % (RB + 1) = IF ptr_out + Waits <= RB THEN ptr_out + Waits
                                         ELSE ptr_out + Waits - (RB + 1)
      BY <1>1, <1>2, Around DEF Positions
    <2> QED
      BY <1>1, <1>2, <1>3, <2>1
  <1>5. ASSUME NEW k \in 0..(Waits - 1) PROVE (ptr_out + k) % (RB + 1) # ptr_in
    <2>1. k \in 0..RB /\ k < Waits
      BY <1>1, <1>2, <1>5
    <2>2. (ptr_out + k) % (RB + 1) = IF ptr_out + k <= RB THEN ptr_out + k
                                     ELSE ptr_out + k - (RB + 1)
      BY <1>1, <2>1, Around DEF Positions
    <2> QED
      BY <1>1, <1>2, <1>3, <2>1, <2>2
  <1> QED
    BY <1>4, <1>5

LEMMA WaitsAfterStore ==
  ASSUME TypeOK, PointersMeet, ~Full, ptr_in' = Advance(ptr_in), ismsg' = TRUE,
         ptr_out' = ptr_out
  PROVE  Waits' = Waits + 1 /\ PointersMeet'
  <1>1. RB \in Nat /\ RB > 0 /\ ptr_in \in 0..RB /\ ptr_out \in 0..RB /\ ismsg \in BOOLEAN
    BY RBAssumption DEF TypeOK, Positions
  <1> QED
    BY <1>1 DEF Waits, PointersMeet, Full, Advance

LEMMA WaitsAfterReceive ==
  ASSUME TypeOK, PointersMeet, ismsg, ptr_out' = Advance(ptr_out),
         ismsg' = (ptr_out' # ptr_in), ptr_in' = ptr_in
  PROVE  /\ Waits' = Waits - 1 /\ PointersMeet'
         /\ \A k \in 0..(Waits - 2) :
               (ptr_out' + k) % (RB + 1) = (ptr_out + k + 1) % (RB + 1)
  <1>1. RB \in Nat /\ RB > 0 /\ ptr_in \in 0..RB /\ ptr_out \in 0..RB /\ ptr_out' \in 0..RB
    BY RBAssumption DEF TypeOK, Positions, Advance
  <1>2. Waits' = Waits - 1 /\ PointersMeet'
    <2>1. Waits = IF ptr_in > ptr_out THEN ptr_in - ptr_out ELSE ptr_in - ptr_out + RB + 1
      BY DEF Waits
    <2>2. Waits' = IF ptr_out' = ptr_in THEN 0
                   ELSE IF ptr_in > ptr_out' THEN ptr_in - ptr_out'
                   ELSE ptr_in - ptr_out' + RB + 1
      BY DEF Waits
    <2>3. ptr_out' = IF ptr_out < RB THEN ptr_out + 1 ELSE 0
      BY DEF Advance
    <2>4. Waits' = Waits - 1
      BY <1>1, <2>1, <2>2, <2>3
    <2> QED
      BY <2>4 DEF PointersMeet
  <1>3. ASSUME NEW k \in 0..(Waits - 2)
        PROVE  (ptr_out' + k) % (RB + 1) = (ptr_out + k + 1) % (RB + 1)
    <2>1. Waits \in 0..(RB + 1)
      BY WaitsType
    <2>2. k \in 0..RB /\ k + 1 \in 0..RB
      BY <1>1, <2>1
    <2>3. (ptr_out' + k) % (RB + 1) = IF ptr_out' + k <= RB THEN ptr_out' + k
                                      ELSE ptr_out' + k - (RB + 1)
      BY <1>1, <2>2, Around DEF Positions
    <2>4. (ptr_out + (k + 1)) % (RB + 1) = IF ptr_out + (k + 1) <= RB THEN ptr_out + (k + 1)
                                           ELSE ptr_out + (k + 1) - (RB + 1)
      BY <1>1, <2>2, Around DEF Positions
    <2>5. ptr_out + k + 1 = ptr_out + (k + 1)
      BY <1>1
    <2>6. ptr_out' = IF ptr_out < RB THEN ptr_out + 1 ELSE 0
      BY DEF Advance
    <2> QED
      BY <1>1, <2>2, <2>3, <2>4, <2>5, <2>6
  <1> QED
    BY <1>2, <1>3

\* The cells of a position.
LEMMA CellsOf ==
  ASSUME NEW i \in Positions
  PROVE  NameCell(i) \in Cells /\ TextCell(i) \in Cells /\ NameCell(i) # TextCell(i)
  <1>1. RB \in Nat /\ RB > 0 /\ i \in 0..RB
    BY RBAssumption DEF Positions
  <1>2. CASE i < RB
    <2>1. i \in 0..(RB - 1)
      BY <1>1, <1>2
    <2> QED
      BY <1>2, <2>1 DEF NameCell, TextCell, Cells
  <1>3. CASE i = RB
    <2>1. 0 \in 0..(RB - 1) /\ ~(i < RB)
      BY <1>1, <1>3
    <2> QED
      BY <2>1 DEF NameCell, TextCell, Cells
  <1> QED
    BY <1>1, <1>2, <1>3

\* Positions share a cell only with position RB, and only the first one does.
LEMMA CellsApart ==
  ASSUME NEW i \in Positions, NEW j \in Positions, i # j,
         i \in 1..(RB - 1) \/ (i < RB /\ j < RB)
  PROVE  /\ NameCell(j) # NameCell(i) /\ NameCell(j) # TextCell(i)
         /\ TextCell(j) # NameCell(i) /\ TextCell(j) # TextCell(i)
  <1>1. RB \in Nat /\ RB > 0 /\ i \in 0..RB /\ j \in 0..RB
    BY RBAssumption DEF Positions
  <1>2. i < RB /\ NameCell(i) = <<"fname", i>> /\ TextCell(i) = <<"msg", i>>
    BY <1>1 DEF NameCell, TextCell
  <1>3. CASE j < RB
    <2>1. NameCell(j) = <<"fname", j>> /\ TextCell(j) = <<"msg", j>>
      BY <1>3 DEF NameCell, TextCell
    <2> QED
      BY <1>2, <2>1
  <1>4. CASE j = RB
    <2>1. NameCell(j) = <<"msg", 0>> /\ TextCell(j) = <<"reason", 0>>
      BY <1>1, <1>4 DEF NameCell, TextCell
    <2>2. i # 0
      BY <1>1, <1>4
    <2> QED
      BY <1>2, <2>1, <2>2
  <1> QED
    BY <1>1, <1>3, <1>4

LEMMA WaitingPositions ==
  ASSUME TypeOK, PointersMeet
  PROVE  Waiting \subseteq Positions
  <1> SUFFICES ASSUME NEW k \in 0..(Waits - 1) PROVE (ptr_out + k) % (RB + 1) \in Positions
    BY DEF Waiting
  <1>1. k \in 0..RB
    BY WaitsType, RBAssumption
  <1> QED
    BY <1>1, Around DEF TypeOK

-----------------------------------------------------------------------------
(* Each step keeps the invariant, and is one of the mailbox's or none *)

Queue == [k \in 1..Waits |-> at[(ptr_out + k - 1) % (RB + 1)]]

LEMMA SeqAsFunction ==
  ASSUME NEW S, NEW s \in Seq(S)
  PROVE  s = [k \in 1..Len(s) |-> s[k]]
  BY LenProperties

LEMMA QueueType ==
  ASSUME TypeOK, PointersMeet
  PROVE  Queue \in Seq(0..MaxSent) /\ Len(Queue) = Waits
  <1>1. RB \in Nat /\ RB > 0 /\ Waits \in 0..(RB + 1) /\ ptr_out \in 0..RB
    BY RBAssumption, WaitsType DEF TypeOK, Positions
  <1>2. ASSUME NEW k \in 1..Waits PROVE at[(ptr_out + k - 1) % (RB + 1)] \in 0..MaxSent
    <2>1. k - 1 \in 0..RB /\ ptr_out + k - 1 = ptr_out + (k - 1)
      BY <1>1, <1>2
    <2>2. (ptr_out + (k - 1)) % (RB + 1) \in Positions
      BY <2>1, Around DEF TypeOK
    <2> QED
      BY <2>1, <2>2 DEF TypeOK
  <1> QED
    BY <1>1, <1>2 DEF Queue

LEMMA InitIInv == Init => IInv /\ Mailbox!Init
  <1> SUFFICES ASSUME Init PROVE IInv /\ Mailbox!Init
    OBVIOUS
  <1>1. RB \in Nat /\ 0 \in Positions /\ 0 \in 0..MaxSent
    BY RBAssumption, MaxSentAssumption DEF Positions
  <1>2. TypeOK
    BY <1>1 DEF Init, TypeOK, Contents
  <1>3. Waits = 0 /\ Waiting = {}
    BY DEF Init, Waits, Waiting
  <1>4. PointersMeet /\ ExtraKnown
    BY <1>3 DEF Init, PointersMeet, ExtraKnown
  <1>5. DamageConfined
    BY <1>3 DEF Init, DamageConfined
  <1>6. [k \in 1..Waits |-> at[(ptr_out + k - 1) % (RB + 1)]] = <<>>
    BY <1>3
  <1> QED
    BY <1>2, <1>4, <1>5, <1>6 DEF IInv, Init, Mailbox!Init

\* Steps that leave the ring alone; the reason of a page may be written.
LEMMA RingUnchanged ==
  ASSUME IInv, TypeOK',
         UNCHANGED <<ismsg, ptr_in, ptr_out, at, sent, extra>>,
         cell' = cell \/ cell' = [cell EXCEPT ![<<"reason", 0>>] = <<"reason", 0>>],
         paged' => (paged \/ cell' = [cell EXCEPT ![<<"reason", 0>>] = <<"reason", 0>>])
  PROVE  IInv' /\ UNCHANGED Mailbox!vars
  <1>1. Waits' = Waits /\ Waiting' = Waiting
    BY DEF Waits, Waiting
  <1>2. PointersMeet' /\ ExtraKnown'
    BY <1>1 DEF IInv, PointersMeet, ExtraKnown
  <1>3. UNCHANGED Mailbox!vars
    BY <1>1 DEF Mailbox!vars
  <1>4. ASSUME NEW i \in Positions, i < RB, Intact(i) PROVE Intact(i)'
    <2>1. NameCell(i) # <<"reason", 0>> /\ TextCell(i) # <<"reason", 0>>
      BY <1>4 DEF NameCell, TextCell
    <2> QED
      BY <1>4, <2>1, CellsOf DEF Intact, IInv, TypeOK, NameCell, TextCell
  <1>5. DamageConfined'
    <2>1. ASSUME NEW i \in Waiting \cap (1..(RB - 1)) PROVE Intact(i)'
      <3>1. i \in Positions /\ i < RB
        BY WaitingPositions, RBAssumption DEF IInv
      <3> QED
        BY <1>4, <3>1 DEF IInv, DamageConfined
    <2>2. ASSUME ~extra, NEW i \in Waiting PROVE Intact(i)'
      <3>1. i \in Positions /\ i # RB
        BY <2>2, WaitingPositions DEF IInv, ExtraKnown
      <3>2. i < RB
        BY <3>1, RBAssumption DEF Positions
      <3> QED
        BY <1>4, <2>2, <3>1, <3>2 DEF IInv, DamageConfined
    <2>3. ASSUME ~extra, paged' PROVE cell'[<<"reason", 0>>] = <<"reason", 0>>
      <3>1. <<"reason", 0>> \in Cells
        BY DEF Cells
      <3> QED
        BY <2>3, <3>1 DEF IInv, DamageConfined, TypeOK
    <2> QED
      BY <1>1, <2>1, <2>2, <2>3 DEF DamageConfined
  <1> QED
    BY <1>2, <1>3, <1>5 DEF IInv

LEMMA SendStep ==
  ASSUME IInv, Send
  PROVE  IInv' /\ Mailbox!Put
  <1>1. TypeOK /\ PointersMeet /\ ExtraKnown /\ DamageConfined /\ ~Full
    BY DEF IInv, Send
  <1>2. RB \in Nat /\ RB > 0 /\ MaxSent \in Nat /\ ptr_in \in 0..RB /\ ptr_out \in 0..RB
        /\ sent \in 0..MaxSent
    BY <1>1, RBAssumption, MaxSentAssumption DEF TypeOK, Positions
  <1>3. /\ sent' = sent + 1 /\ sent' \in 0..MaxSent /\ sent' \in Ids
        /\ cell' = [cell EXCEPT ![NameCell(ptr_in)] = <<"from", sent'>>,
                                ![TextCell(ptr_in)] = <<"text", sent'>>]
        /\ at' = [at EXCEPT ![ptr_in] = sent']
        /\ extra' = (extra \/ ptr_in = RB)
        /\ ptr_in' = Advance(ptr_in) /\ ismsg' = TRUE
        /\ UNCHANGED <<open, silent, ptr_out, paged>>
    BY <1>2 DEF Send, Store, Ids
  <1>4. ptr_in \in Positions /\ Advance(ptr_in) \in Positions
    BY <1>2 DEF Positions, Advance
  <1>5. TypeOK'
    <2>1. <<"from", sent'>> \in Contents /\ <<"text", sent'>> \in Contents
      BY <1>3 DEF Contents
    <2>2. cell' \in [Cells -> Contents]
      BY <1>1, <1>3, <2>1 DEF TypeOK
    <2>3. at' \in [Positions -> 0..MaxSent]
      BY <1>1, <1>3 DEF TypeOK
    <2> QED
      BY <1>1, <1>3, <1>4, <2>2, <2>3 DEF TypeOK
  <1>6. Waits' = Waits + 1 /\ PointersMeet' /\ Waits \in 0..RB
    BY <1>1, <1>2, <1>3, WaitsAfterStore, WaitsType
  <1>7. /\ (ptr_out + Waits) % (RB + 1) = ptr_in
        /\ \A k \in 0..(Waits - 1) : (ptr_out + k) % (RB + 1) # ptr_in
    BY <1>1, NextPosition
  <1>8. Waiting' \subseteq Waiting \cup {ptr_in} /\ ptr_in \notin Waiting
    <2>1. ASSUME NEW k \in 0..(Waits' - 1) PROVE (ptr_out' + k) % (RB + 1) \in Waiting \cup {ptr_in}
      <3>1. k \in 0..(Waits - 1) \/ k = Waits
        BY <1>6
      <3> QED
        BY <1>3, <1>7, <3>1 DEF Waiting
    <2> QED
      BY <1>7, <2>1 DEF Waiting
  <1>9. ExtraKnown'
    BY <1>1, <1>3, <1>8 DEF ExtraKnown
  <1>10. ASSUME NEW i \in Positions, i # ptr_in, Intact(i),
                i \in 1..(RB - 1) \/ (i < RB /\ ptr_in < RB)
         PROVE  Intact(i)'
    <2>1. /\ NameCell(ptr_in) # NameCell(i) /\ NameCell(ptr_in) # TextCell(i)
          /\ TextCell(ptr_in) # NameCell(i) /\ TextCell(ptr_in) # TextCell(i)
      BY <1>4, <1>10, CellsApart
    <2>2. at'[i] = at[i]
      BY <1>1, <1>3, <1>4, <1>10 DEF TypeOK
    <2>3. cell'[NameCell(i)] = cell[NameCell(i)] /\ cell'[TextCell(i)] = cell[TextCell(i)]
      BY <1>1, <1>3, <1>10, <2>1, CellsOf DEF TypeOK
    <2> QED
      BY <1>10, <2>2, <2>3 DEF Intact, NameCell, TextCell
  <1>11. ASSUME NEW i \in Positions, i = ptr_in PROVE Intact(i)'
    <2>1. cell'[NameCell(i)] = <<"from", sent'>> /\ cell'[TextCell(i)] = <<"text", sent'>>
      BY <1>1, <1>3, <1>11, CellsOf DEF TypeOK
    <2>2. at'[i] = sent'
      BY <1>1, <1>3, <1>11 DEF TypeOK
    <2> QED
      BY <2>1, <2>2 DEF Intact, NameCell, TextCell
  <1>12. DamageConfined'
    <2>1. ASSUME NEW i \in Waiting' \cap (1..(RB - 1)) PROVE Intact(i)'
      <3>1. i \in Positions /\ i < RB /\ i \in 1..(RB - 1)
        BY <1>2 DEF Positions
      <3>2. CASE i = ptr_in
        BY <1>11, <3>1, <3>2
      <3>3. CASE i # ptr_in
        <4>1. Intact(i)
          BY <1>1, <1>8, <2>1, <3>3 DEF DamageConfined
        <4> QED
          BY <1>10, <3>1, <3>3, <4>1
      <3> QED
        BY <3>2, <3>3
    <2>2. ASSUME ~extra' PROVE ~extra /\ ptr_in < RB
      <3>1. ~extra /\ ptr_in # RB
        BY <1>3, <2>2
      <3> QED
        BY <1>2, <3>1
    <2>3. ASSUME ~extra', NEW i \in Waiting' PROVE Intact(i)'
      <3>1. CASE i = ptr_in
        BY <1>4, <1>11, <3>1
      <3>2. CASE i # ptr_in
        <4>1. i \in Waiting /\ i \in Positions /\ Intact(i)
          BY <1>1, <1>8, <2>2, <2>3, <3>2, WaitingPositions DEF DamageConfined
        <4>2. i < RB
          BY <1>1, <1>2, <2>2, <2>3, <4>1 DEF ExtraKnown, Positions
        <4> QED
          BY <1>10, <2>2, <2>3, <3>2, <4>1, <4>2
      <3> QED
        BY <3>1, <3>2
    <2>4. ASSUME ~extra', paged' PROVE cell'[<<"reason", 0>>] = <<"reason", 0>>
      <3>1. cell[<<"reason", 0>>] = <<"reason", 0>>
        BY <1>1, <1>3, <2>2, <2>4 DEF DamageConfined
      <3>2. NameCell(ptr_in) # <<"reason", 0>> /\ TextCell(ptr_in) # <<"reason", 0>>
        BY <2>2, <2>4 DEF NameCell, TextCell
      <3>3. <<"reason", 0>> \in Cells
        BY DEF Cells
      <3> QED
        BY <1>1, <1>3, <3>1, <3>2, <3>3 DEF TypeOK
    <2> QED
      BY <2>1, <2>3, <2>4 DEF DamageConfined
  <1>13. Mailbox!Put
    <2>1. Queue \in Seq(0..MaxSent) /\ Len(Queue) = Waits
      BY <1>1, QueueType
    <2>2. ASSUME NEW k \in 1..Waits
          PROVE  at'[(ptr_out + k - 1) % (RB + 1)] = at[(ptr_out + k - 1) % (RB + 1)]
      <3>1. k - 1 \in 0..(Waits - 1) /\ k - 1 \in 0..RB /\ ptr_out + k - 1 = ptr_out + (k - 1)
        BY <1>2, <1>6, <2>2
      <3>2. (ptr_out + (k - 1)) % (RB + 1) \in Positions
        BY <1>1, <3>1, Around DEF TypeOK
      <3>3. (ptr_out + (k - 1)) % (RB + 1) # ptr_in
        BY <1>7, <3>1
      <3> QED
        BY <1>1, <1>3, <3>1, <3>2, <3>3 DEF TypeOK
    <2>3. at'[(ptr_out + (Waits + 1) - 1) % (RB + 1)] = sent'
      <3>1. ptr_out + (Waits + 1) - 1 = ptr_out + Waits
        BY <1>2, <1>6
      <3> QED
        BY <1>1, <1>3, <1>4, <1>7, <3>1 DEF TypeOK
    <2>4. Queue' = [k \in 1..(Waits + 1) |-> at'[(ptr_out + k - 1) % (RB + 1)]]
      BY <1>3, <1>6 DEF Queue
    <2>5. Append(Queue, sent') = [k \in 1..(Waits + 1) |-> IF k = Waits + 1 THEN sent' ELSE Queue[k]]
      <3>1. /\ Append(Queue, sent') \in Seq(0..MaxSent)
            /\ Len(Append(Queue, sent')) = Waits + 1
            /\ \A k \in 1..Waits : Append(Queue, sent')[k] = Queue[k]
            /\ Append(Queue, sent')[Waits + 1] = sent'
        BY <1>3, <2>1, AppendProperties
      <3>2. \A k \in 1..(Waits + 1) : k = Waits + 1 \/ k \in 1..Waits
        BY <1>6
      <3>3. Append(Queue, sent') = [k \in 1..(Waits + 1) |-> Append(Queue, sent')[k]]
        BY <3>1, SeqAsFunction
      <3> QED
        BY <3>1, <3>2, <3>3
    <2>6. ASSUME NEW k \in 1..(Waits + 1)
          PROVE  at'[(ptr_out + k - 1) % (RB + 1)] = IF k = Waits + 1 THEN sent' ELSE Queue[k]
      <3>1. CASE k = Waits + 1
        BY <2>3, <3>1
      <3>2. CASE k # Waits + 1
        <4>1. k \in 1..Waits
          BY <1>6, <2>6, <3>2
        <4> QED
          BY <2>2, <3>2, <4>1 DEF Queue
      <3> QED
        BY <3>1, <3>2
    <2>7. Queue' = Append(Queue, sent')
      BY <2>4, <2>5, <2>6
    <2>8. Len(Queue) < RB + 1
      BY <1>2, <1>6, <2>1
    <2> QED
      BY <1>3, <2>7, <2>8 DEF Mailbox!Put, Queue
  <1> QED
    BY <1>5, <1>6, <1>9, <1>12, <1>13 DEF IInv

LEMMA ReceiveStep ==
  ASSUME IInv, Receive
  PROVE  IInv' /\ Mailbox!Get
  <1>1. TypeOK /\ PointersMeet /\ ExtraKnown /\ DamageConfined
    BY DEF IInv
  <1>2. RB \in Nat /\ RB > 0 /\ ptr_in \in 0..RB /\ ptr_out \in 0..RB
    BY <1>1, RBAssumption DEF TypeOK, Positions
  <1>3. /\ ismsg /\ ptr_out' = Advance(ptr_out) /\ ismsg' = (ptr_out' # ptr_in)
        /\ UNCHANGED <<open, silent, ptr_in, cell, paged, sent, at, extra>>
    BY DEF Receive
  <1>4. TypeOK'
    BY <1>1, <1>2, <1>3 DEF TypeOK, Advance, Positions
  <1>5. Waits \in 0..(RB + 1) /\ Waits > 0
    BY <1>1, <1>3, WaitsType
  <1>6. /\ Waits' = Waits - 1 /\ PointersMeet'
        /\ \A k \in 0..(Waits - 2) : (ptr_out' + k) % (RB + 1) = (ptr_out + k + 1) % (RB + 1)
    BY <1>1, <1>3, WaitsAfterReceive
  <1>7. Waiting' \subseteq Waiting
    <2>1. ASSUME NEW k \in 0..(Waits' - 1) PROVE (ptr_out' + k) % (RB + 1) \in Waiting
      <3>1. k \in 0..(Waits - 2) /\ k + 1 \in 0..(Waits - 1) /\ ptr_out + k + 1 = ptr_out + (k + 1)
        BY <1>2, <1>5, <1>6
      <3>2. (ptr_out' + k) % (RB + 1) = (ptr_out + (k + 1)) % (RB + 1)
        BY <1>6, <3>1
      <3> QED
        BY <3>1, <3>2 DEF Waiting
    <2> QED
      BY <2>1 DEF Waiting
  <1>8. ExtraKnown' /\ DamageConfined'
    BY <1>1, <1>3, <1>7 DEF ExtraKnown, DamageConfined, Intact
  <1>9. Mailbox!Get
    <2>1. Queue' = [k \in 1..(Waits - 1) |-> at[(ptr_out' + k - 1) % (RB + 1)]]
      BY <1>3, <1>6 DEF Queue
    <2>2. Tail(Queue) = [k \in 1..(Waits - 1) |-> Queue[k + 1]]
      <3>1. Queue \in Seq(0..MaxSent) /\ Len(Queue) = Waits /\ Queue # <<>>
        BY <1>1, <1>5, QueueType
      <3>2. /\ Tail(Queue) \in Seq(0..MaxSent) /\ Len(Tail(Queue)) = Waits - 1
            /\ \A k \in 1..(Waits - 1) : Tail(Queue)[k] = Queue[k + 1]
        BY <3>1, HeadTailProperties
      <3>3. Tail(Queue) = [k \in 1..(Waits - 1) |-> Tail(Queue)[k]]
        BY <3>2, SeqAsFunction
      <3> QED
        BY <3>2, <3>3
    <2>3. ASSUME NEW k \in 1..(Waits - 1)
          PROVE  at[(ptr_out' + k - 1) % (RB + 1)] = Queue[k + 1]
      <3>1. /\ k - 1 \in 0..(Waits - 2) /\ k + 1 \in 1..Waits
            /\ ptr_out' + k - 1 = ptr_out' + (k - 1)
            /\ ptr_out + (k - 1) + 1 = ptr_out + (k + 1) - 1
        BY <1>2, <1>3, <1>5, <2>3 DEF Advance
      <3>2. (ptr_out' + (k - 1)) % (RB + 1) = (ptr_out + (k - 1) + 1) % (RB + 1)
        BY <1>6, <3>1
      <3> QED
        BY <3>1, <3>2 DEF Queue
    <2>4. Queue' = Tail(Queue)
      BY <2>1, <2>2, <2>3
    <2>5. Queue # <<>>
      BY <1>5 DEF Queue
    <2> QED
      BY <1>3, <2>4, <2>5 DEF Mailbox!Get, Queue
  <1> QED
    BY <1>4, <1>6, <1>8, <1>9 DEF IInv

LEMMA LogoutStep ==
  ASSUME IInv, Logout
  PROVE  IInv' /\ Mailbox!Reset
  <1>1. /\ ismsg' = FALSE /\ ptr_in' = 0 /\ ptr_out' = 0 /\ silent' = FALSE /\ paged' = FALSE
        /\ extra' = FALSE /\ open' = FALSE /\ cell' = [c \in Cells |-> None]
        /\ UNCHANGED <<sent, at>>
    BY DEF Logout, Cleared
  <1>2. Waits' = 0 /\ Waiting' = {}
    BY <1>1 DEF Waits, Waiting
  <1>3. TypeOK'
    <2>1. 0 \in Positions /\ None \in Contents
      BY RBAssumption DEF Positions, Contents
    <2>2. cell' \in [Cells -> Contents]
      BY <1>1, <2>1
    <2> QED
      BY <1>1, <2>1, <2>2 DEF IInv, TypeOK
  <1>4. PointersMeet' /\ ExtraKnown' /\ DamageConfined'
    BY <1>1, <1>2 DEF PointersMeet, ExtraKnown, DamageConfined
  <1>5. Mailbox!Reset
    BY <1>1, <1>2 DEF Mailbox!Reset
  <1> QED
    BY <1>3, <1>4, <1>5 DEF IInv

LEMMA NextIInv == IInv /\ [Next]_vars => IInv' /\ [Mailbox!Next]_(Mailbox!vars)
  <1> SUFFICES ASSUME IInv, [Next]_vars PROVE IInv' /\ [Mailbox!Next]_(Mailbox!vars)
    OBVIOUS
  <1>1. CASE Send
    BY <1>1, SendStep DEF Mailbox!Next
  <1>2. CASE Receive
    BY <1>2, ReceiveStep DEF Mailbox!Next
  <1>3. CASE Logout
    BY <1>3, LogoutStep DEF Mailbox!Next
  <1>4. CASE Login \/ Silent \/ Page \/ SysopTalk \/ UNCHANGED vars
    <2>1. TypeOK'
      <3>1. <<"reason", 0>> \in Contents
        BY DEF Contents
      <3> QED
        BY <1>4, <3>1 DEF IInv, TypeOK, Login, Silent, Page, SysopTalk, vars, slotVars
    <2>2. /\ UNCHANGED <<ismsg, ptr_in, ptr_out, at, sent, extra>>
          /\ cell' = cell \/ cell' = [cell EXCEPT ![<<"reason", 0>>] = <<"reason", 0>>]
          /\ paged' => (paged \/ cell' = [cell EXCEPT ![<<"reason", 0>>] = <<"reason", 0>>])
      BY <1>4 DEF Login, Silent, Page, SysopTalk, vars, slotVars
    <2>3. IInv' /\ UNCHANGED Mailbox!vars
      BY <2>1, <2>2, RingUnchanged
    <2> QED
      BY <2>3
  <1> QED
    BY <1>1, <1>2, <1>3, <1>4 DEF Next

\* The invariant holds in every behaviour.
THEOREM IInvHolds == Spec => []IInv
  BY InitIInv, NextIInv, PTL DEF Spec

\* Messages that wait are handed out as they were sent, except at the first and
\* the last position of a ring that was full once, for any size of the ring.
THEOREM InvHolds == Spec => []Inv
  <1>1. IInv => Inv
    BY DEF IInv, Inv
  <1> QED
    BY <1>1, IInvHolds, PTL

\* Every step of reg_spm and reg_ipm_r is one of a bounded queue or leaves it
\* alone: across any wrap of the pointers each message comes out once and in
\* order, for any size of the ring.
THEOREM FifoRefined == Spec => ImplementsFifo
  <1>1. Mailbox!Init /\ [][Mailbox!Next]_(Mailbox!vars) => ImplementsFifo
    BY DEF ImplementsFifo, Mailbox!Spec
  <1>2. Spec => Mailbox!Init
    BY InitIInv DEF Spec
  <1>3. Spec => [][Mailbox!Next]_(Mailbox!vars)
    BY IInvHolds, NextIInv, PTL DEF Spec
  <1> QED
    BY <1>1, <1>2, <1>3, PTL

-----------------------------------------------------------------------------
(* The list of clients *)

\* Who has left the table has no slot.
OutHasNone == \A p \in Procs : pc[p] = "out" <=> slot[p] = 0

\* What a scan that nobody disturbed has still to show lies ahead of the cursor.
MissingAhead == \A p \in Procs : pc[p] = "scan" /\ ~mixed[p] =>
                    \A q \in missing[p] : slot[q] > entrypos

\* Only sessions in the table are missing.
MissingThere == \A p \in Procs : missing[p] \subseteq Registered

ListIInv == ListTypeOK /\ OutHasNone /\ MissingThere /\ MissingAhead /\ ScanComplete

LessThan == {ss \in Nat \X Nat : ss[1] < ss[2]}

\* The first slot of a set of slots.
LEMMA FirstSlot ==
  ASSUME NEW S, S \subseteq Nat, S # {}
  PROVE  Min(S) \in S /\ \A s \in S : Min(S) <= s
  <1>1. IsWellFoundedOn(LessThan, Nat)
    BY NatLessThanWellFounded DEF OpToRel, LessThan
  <1>2. PICK i \in S : \A j \in S : <<j, i>> \notin LessThan
    BY <1>1, WFMin
  <1>3. ASSUME NEW j \in S, j < i PROVE FALSE
    <2>1. /\ <<j, i>> \in Nat \X Nat
          /\ <<j, i>>[1] = j /\ <<j, i>>[2] = i
      OBVIOUS
    <2> QED
      BY <1>2, <1>3, <2>1 DEF LessThan
  <1>4. \A j \in S : i =< j
    BY <1>3
  <1> QED
    BY <1>4 DEF Min

\* The daemon's slot and those of the sessions are numbers in the table.
LEMMA UsedAreSlots ==
  ASSUME ListTypeOK
  PROVE  /\ UsedSlots \subseteq 0..(MaxClient - 1)
         /\ MaxClient \in Nat \ {0}
         /\ \A q \in Registered : slot[q] \in UsedSlots /\ slot[q] \in 1..(MaxClient - 1)
  <1>1. \A q \in Procs : slot[q] \in {0} \cup 1..(MaxClient - 1)
    BY DEF ListTypeOK, Slots
  <1>2. \A q \in Registered : slot[q] \in UsedSlots /\ slot[q] \in 1..(MaxClient - 1)
    BY <1>1 DEF Registered, UsedSlots
  <1>3. UsedSlots \subseteq 0..(MaxClient - 1)
    BY <1>2, MaxClientAssumption DEF UsedSlots
  <1> QED
    BY <1>2, <1>3, MaxClientAssumption

LEMMA CursorType ==
  ASSUME ListTypeOK
  PROVE  /\ entrypos \in Nat /\ entrypos <= MaxClient + 1
         /\ entrypos \in 0..(MaxClient + 1)
         /\ MaxClient \in Nat \ {0}
  <1>1. entrypos \in 0..(MaxClient + 1)
    BY DEF ListTypeOK, Beyond
  <1> QED
    BY <1>1, MaxClientAssumption

LEMMA ListInitIInv == ListInit => ListIInv
  <1> SUFFICES ASSUME ListInit PROVE ListIInv
    OBVIOUS
  <1>1. entrypos \in 0..Beyond
    <2>1. entrypos = 0
      BY DEF ListInit
    <2>2. MaxClient + 1 \in Nat
      BY MaxClientAssumption
    <2> QED
      BY <2>1, <2>2 DEF Beyond
  <1>2. Registered = {}
    BY DEF ListInit, Registered
  <1>3. ListTypeOK
    BY <1>1, <1>2 DEF ListInit, ListTypeOK
  <1> QED
    BY <1>3 DEF ListIInv, ListInit, OutHasNone, MissingThere, MissingAhead, ScanComplete

LEMMA SessionStartsIInv ==
  ASSUME ListIInv, NEW p \in Procs, SessionStarts(p)
  PROVE  ListIInv'
  <1> DEFINE s == Min(FreeSlots)
  <1>1. /\ pc' = [pc EXCEPT ![p] = "menu"] /\ slot' = [slot EXCEPT ![p] = s]
        /\ pc[p] = "out" /\ FreeSlots # {}
        /\ UNCHANGED <<doing, entrypos, up, missing, mixed>>
    BY DEF SessionStarts
  <1>2. s \in Slots /\ s \notin UsedSlots /\ s # 0
    <2>1. FreeSlots \subseteq Nat
      BY MaxClientAssumption DEF FreeSlots, Slots
    <2>2. s \in FreeSlots
      BY <1>1, <2>1, FirstSlot
    <2> QED
      BY <2>2 DEF FreeSlots, Slots, UsedSlots
  <1> HIDE DEF s
  <1>3. slot[p] = 0 /\ p \notin Registered
    BY <1>1 DEF ListIInv, OutHasNone, Registered
  <1>4. Registered' = Registered \cup {p}
    BY <1>1, <1>2 DEF ListIInv, ListTypeOK, Registered
  <1>5. \A q \in Procs : q # p => slot'[q] = slot[q] /\ pc'[q] = pc[q]
    BY <1>1 DEF ListIInv, ListTypeOK
  <1>6. slot'[p] = s /\ pc'[p] = "menu"
    BY <1>1 DEF ListIInv, ListTypeOK
  <1>7. ListTypeOK'
    <2>1. \A q \in Registered : slot[q] # s
      BY <1>2 DEF UsedSlots
    <2>2. \A q, r \in Registered' : slot'[q] = slot'[r] => q = r
      BY <1>3, <1>4, <1>5, <1>6, <2>1 DEF ListIInv, ListTypeOK, Registered
    <2> QED
      BY <1>1, <1>2, <2>2 DEF ListIInv, ListTypeOK
  <1>8. OutHasNone'
    BY <1>2, <1>5, <1>6 DEF ListIInv, OutHasNone
  <1>9. MissingThere' /\ \A q \in Procs : p \notin missing'[q]
    BY <1>1, <1>3, <1>4 DEF ListIInv, MissingThere
  <1>10. MissingAhead'
    BY <1>1, <1>4, <1>5, <1>6, <1>9 DEF ListIInv, MissingAhead, MissingThere, Registered
  <1>11. ScanComplete'
    BY <1>1, <1>5, <1>6 DEF ListIInv, ScanComplete
  <1> QED
    BY <1>7, <1>8, <1>9, <1>10, <1>11 DEF ListIInv

LEMMA SessionEndsIInv ==
  ASSUME ListIInv, NEW p \in Procs, SessionEnds(p)
  PROVE  ListIInv'
  <1>1. /\ pc' = [pc EXCEPT ![p] = "out"] /\ slot' = [slot EXCEPT ![p] = 0]
        /\ doing' = [doing EXCEPT ![p] = ""] /\ mixed' = [mixed EXCEPT ![p] = FALSE]
        /\ missing' = [q \in Procs |-> IF q = p THEN {} ELSE missing[q] \ {p}]
        /\ UNCHANGED <<entrypos, up>>
    BY DEF SessionEnds
  <1>2. Registered' = Registered \ {p}
    BY <1>1 DEF ListIInv, ListTypeOK, Registered
  <1>3. pc'[p] = "out" /\ slot'[p] = 0 /\ missing'[p] = {}
    BY <1>1 DEF ListIInv, ListTypeOK
  <1>4. \A q \in Procs : q # p =>
            /\ pc'[q] = pc[q] /\ slot'[q] = slot[q] /\ mixed'[q] = mixed[q]
            /\ missing'[q] = missing[q] \ {p}
    BY <1>1 DEF ListIInv, ListTypeOK
  <1>5. ListTypeOK'
    <2>1. \A q, r \in Registered' : slot'[q] = slot'[r] => q = r
      BY <1>2, <1>4 DEF ListIInv, ListTypeOK, Registered
    <2>2. missing' \in [Procs -> SUBSET Procs]
      BY <1>1 DEF ListIInv, ListTypeOK
    <2> QED
      BY <1>1, <2>1, <2>2 DEF ListIInv, ListTypeOK
  <1>6. OutHasNone'
    BY <1>3, <1>4 DEF ListIInv, OutHasNone
  <1>7. MissingThere'
    BY <1>2, <1>3, <1>4 DEF ListIInv, MissingThere
  <1>8. MissingAhead'
    BY <1>1, <1>2, <1>3, <1>4 DEF ListIInv, MissingAhead, MissingThere, Registered
  <1>9. ScanComplete'
    BY <1>3, <1>4 DEF ListIInv, ScanComplete
  <1> QED
    BY <1>5, <1>6, <1>7, <1>8, <1>9 DEF ListIInv

\* What an answer of GMON leaves to be shown: the entry is the next in the table,
\* and the end of the list leaves nothing.
LEMMA AnswerAhead ==
  ASSUME ListTypeOK, NEW first \in BOOLEAN, NEW M, M \subseteq Registered,
         \A q \in M : slot[q] >= Start(first),
         Entry(first) \/ NoMore(first) \/ Garbage(first)
  PROVE  /\ entrypos' \in 0..Beyond /\ up' \in BOOLEAN
         /\ \A q \in M \ Shown : slot[q] > entrypos'
         /\ NoMore(first) \/ Garbage(first) => M = {}
  <1> DEFINE L == Later(Start(first))
  <1>1. /\ UsedSlots \subseteq 0..(MaxClient - 1) /\ MaxClient \in Nat \ {0}
        /\ \A q \in M : slot[q] \in UsedSlots /\ slot[q] \in 1..(MaxClient - 1)
    BY UsedAreSlots
  <1>2. Start(first) \in 0..(MaxClient + 2)
    BY CursorType DEF Start
  <1>3. L \subseteq 0..(MaxClient - 1) /\ \A q \in M : slot[q] \in L
    BY <1>1 DEF Later
  <1> HIDE DEF L
  <1>7. up \in BOOLEAN
    BY DEF ListTypeOK
  <1>4. CASE Entry(first)
    <2>1. entrypos' = Min(L) /\ L # {} /\ up' = up
      BY <1>4 DEF Entry, L
    <2>2. entrypos' \in L /\ \A s \in L : entrypos' <= s
      <3>1. L \subseteq Nat
        BY <1>1, <1>3
      <3> QED
        BY <2>1, <3>1, FirstSlot
    <2>3. \A q \in M : q \notin Shown => slot[q] # entrypos'
      BY DEF Shown
    <2>4. ~NoMore(first) /\ ~Garbage(first)
      <3>1. \A s \in L : Start(first) <= s
        BY DEF Later, L
      <3> QED
        BY <1>1, <1>2, <1>3, <2>1, <3>1 DEF NoMore, Garbage, Eof, L
    <2> QED
      BY <1>1, <1>3, <1>7, <2>1, <2>2, <2>3, <2>4 DEF Beyond
  <1>5. CASE NoMore(first)
    <2>1. M = {}
      BY <1>3, <1>5 DEF NoMore, L
    <2> QED
      BY <1>1, <1>5, <1>7, <2>1 DEF NoMore, Eof, Beyond
  <1>6. CASE Garbage(first)
    <2>1. M = {}
      BY <1>1, <1>2, <1>6 DEF Garbage, Eof
    <2>2. entrypos' = MaxClient + 1 /\ up' \in BOOLEAN
      BY <1>6, <1>7 DEF Garbage, Beyond
    <2>3. entrypos' \in 0..Beyond
      BY <1>1, <2>2 DEF Beyond
    <2> QED
      BY <2>1, <2>2, <2>3
  <1> QED
    BY <1>4, <1>5, <1>6

\* One turn of the loop, with the sessions M to be shown that lie ahead, unless
\* somebody else moved the cursor.
LEMMA GmonIInv ==
  ASSUME ListIInv, NEW p \in Procs, NEW first \in BOOLEAN, NEW M, M \subseteq Registered,
         pc[p] # "out",
         first \/ ~mixed[p] => \A q \in M : slot[q] >= Start(first),
         Gmon(p, first, M)
  PROVE  ListIInv'
  <1>1. /\ Entry(first) \/ NoMore(first) \/ Garbage(first)
        /\ \E c \in {"menu", "scan", "enter"} :
               /\ pc' = [pc EXCEPT ![p] = c]
               /\ c = "enter" => NoMore(first)
               /\ missing' = [missing EXCEPT ![p] = IF c = "menu" THEN {} ELSE M \ Shown]
               /\ mixed' = [q \in Procs |-> IF q = p THEN mixed[p] /\ ~first /\ c # "menu"
                                            ELSE mixed[q] \/ q \in Scanning]
        /\ UNCHANGED <<slot, doing>>
    BY DEF Gmon, ListIInv, ListTypeOK
  <1>2. PICK c \in {"menu", "scan", "enter"} :
               /\ pc' = [pc EXCEPT ![p] = c]
               /\ c = "enter" => NoMore(first)
               /\ missing' = [missing EXCEPT ![p] = IF c = "menu" THEN {} ELSE M \ Shown]
               /\ mixed' = [q \in Procs |-> IF q = p THEN mixed[p] /\ ~first /\ c # "menu"
                                            ELSE mixed[q] \/ q \in Scanning]
    BY <1>1
  <1>3. Registered' = Registered /\ slot' = slot
    BY <1>1 DEF Registered
  <1>4. entrypos' \in 0..Beyond /\ up' \in BOOLEAN
    <2>1. PICK N \in SUBSET Registered : \A q \in N : slot[q] >= Start(first)
      <3>1. {} \in SUBSET Registered
        OBVIOUS
      <3> QED
        BY <3>1
    <2>2. ListTypeOK
      BY DEF ListIInv
    <2> QED
      BY <1>1, <2>1, <2>2, AnswerAhead
  <1>5. ASSUME first \/ ~mixed[p]
        PROVE  /\ \A q \in M \ Shown : slot[q] > entrypos'
               /\ NoMore(first) => M = {}
    BY <1>1, <1>5, AnswerAhead DEF ListIInv
  <1>6. /\ pc'[p] = c /\ missing'[p] \subseteq M
        /\ c # "menu" => missing'[p] = M \ Shown
        /\ ~mixed'[p] /\ c # "menu" => first \/ ~mixed[p]
    BY <1>2 DEF ListIInv, ListTypeOK
  <1>7. \A q \in Procs : q # p =>
            /\ pc'[q] = pc[q] /\ missing'[q] = missing[q]
            /\ mixed'[q] = (mixed[q] \/ pc[q] = "scan")
    BY <1>2 DEF ListIInv, ListTypeOK, Scanning
  <1>8. ListTypeOK'
    <2>1. missing' \in [Procs -> SUBSET Procs]
      BY <1>2 DEF ListIInv, ListTypeOK, Registered
    <2>2. mixed' \in [Procs -> BOOLEAN]
      BY <1>2 DEF ListIInv, ListTypeOK, Scanning
    <2> QED
      BY <1>1, <1>2, <1>3, <1>4, <2>1, <2>2 DEF ListIInv, ListTypeOK
  <1>9. OutHasNone'
    BY <1>3, <1>6, <1>7 DEF ListIInv, OutHasNone
  <1>10. MissingThere'
    BY <1>3, <1>6, <1>7 DEF ListIInv, MissingThere
  <1>11. MissingAhead'
    BY <1>3, <1>5, <1>6, <1>7 DEF MissingAhead
  <1>12. ScanComplete'
    BY <1>2, <1>5, <1>6, <1>7 DEF ListIInv, ScanComplete
  <1> QED
    BY <1>8, <1>9, <1>10, <1>11, <1>12 DEF ListIInv

LEMMA DoorIInv ==
  ASSUME ListIInv, NEW p \in Procs, EnterDoor(p) \/ LeaveDoor(p)
  PROVE  ListIInv'
  <1>1. /\ slot' = slot /\ entrypos' = entrypos /\ up' = up
        /\ Registered' = Registered
    BY DEF EnterDoor, LeaveDoor, Registered
  <1>2. /\ pc'[p] \in {"door", "menu"} /\ pc[p] \in {"enter", "door"}
        /\ missing'[p] \subseteq missing[p]
        /\ \A q \in Procs : q # p => /\ pc'[q] = pc[q] /\ missing'[q] = missing[q]
                                     /\ mixed'[q] = mixed[q]
    BY DEF EnterDoor, LeaveDoor, ListIInv, ListTypeOK
  <1>3. ListTypeOK'
    BY <1>1 DEF EnterDoor, LeaveDoor, ListIInv, ListTypeOK
  <1>4. OutHasNone' /\ MissingThere'
    BY <1>1, <1>2 DEF ListIInv, OutHasNone, MissingThere
  <1>5. MissingAhead' /\ ScanComplete'
    BY <1>1, <1>2 DEF ListIInv, MissingAhead, ScanComplete
  <1> QED
    BY <1>3, <1>4, <1>5 DEF ListIInv

LEMMA ListNextIInv == ListIInv /\ [ListNext]_listVars => ListIInv'
  <1> SUFFICES ASSUME ListIInv, [ListNext]_listVars PROVE ListIInv'
    OBVIOUS
  <1>1. ASSUME NEW p \in Procs, ScanFirst(p) PROVE ListIInv'
    <2>1. \A q \in Registered : slot[q] >= Start(TRUE)
      BY UsedAreSlots DEF ListIInv, Start
    <2> QED
      BY <1>1, <2>1, GmonIInv DEF ScanFirst
  <1>2. ASSUME NEW p \in Procs, ScanNext(p) PROVE ListIInv'
    <2>1. missing[p] \subseteq Registered
      BY DEF ListIInv, MissingThere
    <2>2. ~mixed[p] => \A q \in missing[p] : slot[q] >= Start(FALSE)
      <3>1. \A q \in Registered : slot[q] \in Nat
        BY UsedAreSlots DEF ListIInv
      <3>2. entrypos \in Nat
        BY CursorType DEF ListIInv
      <3> QED
        BY <1>2, <2>1, <3>1, <3>2 DEF ScanNext, ListIInv, MissingAhead, Start
    <2> QED
      BY <1>2, <2>1, <2>2, GmonIInv DEF ScanNext
  <1>3. CASE UNCHANGED listVars
    BY <1>3 DEF listVars, ListIInv, ListTypeOK, OutHasNone, MissingThere, MissingAhead,
                ScanComplete, Registered
  <1> QED
    BY <1>1, <1>2, <1>3, SessionStartsIInv, SessionEndsIInv, DoorIInv DEF ListNext

THEOREM ListIInvHolds == ListSpec => []ListIInv
  BY ListInitIInv, ListNextIInv, PTL DEF ListSpec

\* A session that reads the list to its end, with no other reader in between, has
\* been shown every session that was there all the time, for any number of
\* sessions, in a table of any size.
THEOREM ListInvHolds == ListSpec => []ListInv
  <1>1. ListIInv => ListInv
    BY DEF ListIInv, ListInv
  <1> QED
    BY <1>1, ListIInvHolds, PTL
=============================================================================
