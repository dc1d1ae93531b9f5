-------------------------- MODULE ChatServerProofs --------------------------
(***************************************************************************)
(* For any number of users, channels and processes, and any names that are *)
(* cut: the counts of the chat server agree with its tables, who is gone   *)
(* is in no channel, and the sysop's channel is made by the sysop.  For a  *)
(* ring of lines of any size: lines reach the users once and in order.     *)
(***************************************************************************)
EXTENDS ChatServer, ChatRing, FiniteSetTheorems, WellFoundedInduction, TLAPS

\* A search that finds something finds the first of it.
LEMMA FirstIn ==
  ASSUME NEW S, S \subseteq Nat, S # {}
  PROVE  First(S) \in S /\ \A j \in S : First(S) <= j
  <1>1. \E i \in S : \A j \in S : ~ (<<j, i>> \in OpToRel(<, Nat))
    BY NatLessThanWellFounded, WFMin
  <1>2. PICK i \in S : \A j \in S : ~ (<<j, i>> \in OpToRel(<, Nat))
    BY <1>1
  <1>3. \A j \in S : i <= j
    <2> TAKE j \in S
    <2>1. ~(j < i)
      BY <1>2 DEF OpToRel
    <2> QED BY <2>1
  <1> QED
    BY <1>3 DEF First

-----------------------------------------------------------------------------
(* Channels: what the functions that change their table do to the counts *)

\* The channel of a user who is in none, and the name of a free entry.
Nowhere == ""

ChnTable == [ChnSlots -> ChnRec \cup {NoChn}]
RoomTable == [UsrSlots -> InTable \cup {Nowhere}]

\* The users whom the count in entry j stands for
At(home, j) == {i \in UsrSlots : home[i] = j}

\* home[i] is the entry that counts user i, who is in a channel of its name
\* (a name that was cut may have several entries); 0 when he is in no channel.
Home(rooms, table, home) ==
    /\ home \in [UsrSlots -> 0..MaxChn]
    /\ \A i \in UsrSlots : /\ rooms[i] = Nowhere <=> home[i] = 0
                           /\ rooms[i] # Nowhere => table[home[i]].name = rooms[i]
    /\ \A j \in ChnSlots : /\ table[j].users = Cardinality(At(home, j))
                           /\ table[j] # NoChn => table[j].users > 0

Housed(rooms, table) ==
    \E home \in [UsrSlots -> 0..MaxChn] : Home(rooms, table, home)

\* The tables have sizes.
LEMMA Sizes == MaxUsr \in Nat /\ MaxChn \in Nat
  BY ChatAssumption, Zenon

\* A free entry of the channels counts nobody and has no channel's name.
LEMMA Empty == NoChn.name = Nowhere /\ NoChn.users = 0 /\ Nowhere \notin InTable
  BY ChatAssumption DEF NoChn, InTable, Nowhere

\* An entry of the channels is used when it has a name.
LEMMA ChnFields ==
  ASSUME NEW table \in ChnTable, NEW j \in ChnSlots
  PROVE  /\ table[j].name \in InTable \cup {Nowhere}
         /\ table[j].users \in Nat
         /\ table[j].name = Nowhere <=> table[j] = NoChn
         /\ table[j] # NoChn => table[j] \in ChnRec
  <1>1. table[j] \in ChnRec \cup {NoChn}
    BY DEF ChnTable
  <1>2. CASE table[j] = NoChn
    <2>1. table[j].name = Nowhere
      BY <1>2, Empty, Zenon
    <2>2. table[j].users = 0
      BY <1>2, Empty, Zenon
    <2>3. table[j].users \in Nat
      BY <2>2
    <2> QED
      BY <1>2, <2>1, <2>3, Zenon
  <1>3. CASE table[j] \in ChnRec
    BY <1>3, Empty DEF ChnRec
  <1> QED
    BY <1>1, <1>2, <1>3

\* An entry counts finitely many users.
LEMMA AtFinite ==
  ASSUME NEW home, NEW j
  PROVE  IsFiniteSet(At(home, j)) /\ Cardinality(At(home, j)) \in Nat
  <1>1. IsFiniteSet(UsrSlots)
    BY Sizes, FS_Interval DEF UsrSlots
  <1>2. At(home, j) \subseteq UsrSlots
    BY DEF At
  <1> QED
    BY <1>1, <1>2, FS_Subset, FS_CardinalityType

\* Slots are numbers from 1; 0 is none.
LEMMA SlotNumbers ==
  /\ UsrSlots \subseteq Nat /\ ChnSlots \subseteq Nat
  /\ 0 \in 0..MaxChn
  /\ \A j \in ChnSlots : j \in 0..MaxChn /\ j # 0
  /\ \A j \in 0..MaxChn : j # 0 => j \in ChnSlots
  BY Sizes DEF UsrSlots, ChnSlots

\* A user moves from the entry that counts him to another one.
LEMMA Moves ==
  ASSUME NEW home \in [UsrSlots -> 0..MaxChn], NEW i \in UsrSlots,
         NEW to \in 0..MaxChn, home[i] # to,
         NEW moved \in [UsrSlots -> 0..MaxChn], moved[i] = to,
         \A k \in UsrSlots \ {i} : moved[k] = home[k]
  PROVE  /\ Cardinality(At(moved, to)) = Cardinality(At(home, to)) + 1
         /\ Cardinality(At(moved, home[i])) = Cardinality(At(home, home[i])) - 1
         /\ \A j \in (0..MaxChn) \ {to, home[i]} : At(moved, j) = At(home, j)
  <1>1. At(moved, to) = At(home, to) \cup {i} /\ i \notin At(home, to)
    BY DEF At
  <1>2. At(moved, home[i]) = At(home, home[i]) \ {i} /\ i \in At(home, home[i])
    BY DEF At
  <1>3. \A j \in (0..MaxChn) \ {to, home[i]} : At(moved, j) = At(home, j)
    BY DEF At
  <1>4. Cardinality(At(moved, to)) = Cardinality(At(home, to)) + 1
    BY <1>1, AtFinite, FS_AddElement
  <1>5. Cardinality(At(moved, home[i])) = Cardinality(At(home, home[i])) - 1
    BY <1>2, AtFinite, FS_RemoveElement
  <1> QED
    BY <1>3, <1>4, <1>5

\* One user changes his channel, and the tables follow.
LEMMA Changes ==
  ASSUME NEW rooms \in RoomTable, NEW table \in ChnTable,
         NEW home \in [UsrSlots -> 0..MaxChn], Home(rooms, table, home),
         NEW i \in UsrSlots, NEW to \in 0..MaxChn, home[i] # to,
         NEW into \in RoomTable, NEW after \in ChnTable,
         \A k \in UsrSlots \ {i} :
             /\ into[k] = rooms[k]
             /\ home[k] # 0 => after[home[k]].name = table[home[k]].name,
         into[i] = Nowhere <=> to = 0,
         to # 0 => after[to].name = into[i],
         to # 0 => after[to].users = table[to].users + 1,
         home[i] # 0 => after[home[i]].users = table[home[i]].users - 1,
         \A j \in ChnSlots \ {to, home[i]} : after[j].users = table[j].users,
         \A j \in ChnSlots : after[j] # NoChn => after[j].users > 0
  PROVE  Housed(into, after)
  <1> DEFINE moved == [home EXCEPT ![i] = to]
  <1>1. /\ moved \in [UsrSlots -> 0..MaxChn]
        /\ moved[i] = to
        /\ \A k \in UsrSlots \ {i} : moved[k] = home[k]
    OBVIOUS
  <1> HIDE DEF moved
  <1>2. /\ Cardinality(At(moved, to)) = Cardinality(At(home, to)) + 1
        /\ Cardinality(At(moved, home[i])) = Cardinality(At(home, home[i])) - 1
        /\ \A j \in (0..MaxChn) \ {to, home[i]} : At(moved, j) = At(home, j)
    BY <1>1, Moves
  <1>3. ASSUME NEW k \in UsrSlots
        PROVE  /\ into[k] = Nowhere <=> moved[k] = 0
               /\ into[k] # Nowhere => after[moved[k]].name = into[k]
    <2>1. CASE k = i
      BY <2>1, <1>1
    <2>2. CASE k # i
      BY <2>2, <1>1 DEF Home
    <2> QED
      BY <2>1, <2>2
  <1>4. ASSUME NEW j \in ChnSlots
        PROVE  after[j].users = Cardinality(At(moved, j))
    <2>0. /\ table[j].users = Cardinality(At(home, j))
          /\ j # 0 /\ j \in 0..MaxChn
      BY SlotNumbers DEF Home
    <2>1. CASE j = to
      BY <2>0, <2>1, <1>2
    <2>2. CASE j = home[i]
      BY <2>0, <2>2, <1>2
    <2>3. CASE j \notin {to, home[i]}
      BY <2>0, <2>3, <1>2
    <2> QED
      BY <2>1, <2>2, <2>3
  <1>5. Home(into, after, moved)
    BY <1>1, <1>3, <1>4 DEF Home
  <1> QED
    BY <1>1, <1>5 DEF Housed

\* Somebody enters a channel that has an entry (join).
LEMMA Enters ==
  ASSUME NEW rooms \in RoomTable, NEW table \in ChnTable, Housed(rooms, table),
         NEW i \in UsrSlots, rooms[i] = Nowhere,
         NEW c \in InTable, Channel(table, c) # {}
  PROVE  /\ Entered(table, c) \in ChnTable
         /\ Housed([rooms EXCEPT ![i] = c], Entered(table, c))
         /\ \A j \in ChnSlots : Entered(table, c)[j].name = table[j].name
  <1> DEFINE into == [rooms EXCEPT ![i] = c]
             after == Entered(table, c)
  <1>1. Channel(table, c) \subseteq Nat
    BY SlotNumbers DEF Channel
  <1>2. PICK f \in Channel(table, c) : f = First(Channel(table, c))
    BY <1>1, FirstIn
  <1>3. f \in ChnSlots /\ table[f].name = c
    BY <1>2 DEF Channel
  <1>4. PICK home \in [UsrSlots -> 0..MaxChn] : Home(rooms, table, home)
    BY DEF Housed
  <1>5. home[i] = 0 /\ f \in 0..MaxChn /\ f # 0
    BY <1>3, <1>4, SlotNumbers DEF Home
  <1>6. table[f].users \in Nat
    BY <1>3, ChnFields
  <1>61. c # Nowhere /\ table[f] \in ChnRec
    BY <1>3, Empty, ChnFields
  <1>7. /\ after[f] = [table[f] EXCEPT !.users = @ + 1]
        /\ \A j \in ChnSlots \ {f} : after[j] = table[j]
        /\ DOMAIN after = ChnSlots
    BY <1>2, <1>3 DEF Entered, ChnTable
  <1>8. /\ after[f] \in ChnRec
        /\ after[f].name = c
        /\ after[f].users = table[f].users + 1
    <2>1. table[f].users + 1 \in Nat
      BY <1>6
    <2> QED
      BY <2>1, <1>3, <1>61, <1>7 DEF ChnRec
  <1>9. after \in ChnTable
    BY <1>7, <1>8 DEF Entered, ChnTable
  <1>10. /\ into \in RoomTable
         /\ into[i] = c
         /\ \A k \in UsrSlots \ {i} : into[k] = rooms[k]
    BY DEF RoomTable
  <1> HIDE DEF into, after
  <1>11. ASSUME NEW k \in UsrSlots \ {i}, home[k] # 0
         PROVE  after[home[k]].name = table[home[k]].name
    <2>1. home[k] \in ChnSlots
      BY <1>11, SlotNumbers
    <2> QED
      BY <2>1, <1>3, <1>7, <1>8
  <1>12. ASSUME NEW j \in ChnSlots, after[j] # NoChn
         PROVE  after[j].users > 0
    <2>1. CASE j = f
      BY <2>1, <1>6, <1>8
    <2>2. CASE j # f
      BY <2>2, <1>12, <1>4, <1>7 DEF Home
    <2> QED
      BY <2>1, <2>2
  <1>13. \A j \in ChnSlots \ {f, home[i]} : after[j].users = table[j].users
    BY <1>7
  <1>14. /\ home[i] # f
         /\ into[i] = Nowhere <=> f = 0
         /\ after[f].name = into[i]
    BY <1>5, <1>61, <1>8, <1>10
  <1>15. Housed(into, after)
    BY <1>4, <1>5, <1>8, <1>9, <1>10, <1>11, <1>12, <1>13, <1>14, Changes
  <1> QED
    BY <1>3, <1>7, <1>8, <1>9, <1>15 DEF into, after

\* Somebody makes a channel (join, add_channel).
LEMMA Creates ==
  ASSUME NEW rooms \in RoomTable, NEW table \in ChnTable, Housed(rooms, table),
         NEW i \in UsrSlots, rooms[i] = Nowhere,
         NEW c \in Channels, NEW owner \in Nicks, NEW server \in Servers,
         FreeChn(table) # {}
  PROVE  /\ Created(table, c, owner, server) \in ChnTable
         /\ Housed([rooms EXCEPT ![i] = Cut[c]], Created(table, c, owner, server))
         /\ \E f \in FreeChn(table) :
               /\ Created(table, c, owner, server)[f].name = Cut[c]
               /\ \A j \in ChnSlots \ {f} : Created(table, c, owner, server)[j] = table[j]
  <1> DEFINE into == [rooms EXCEPT ![i] = Cut[c]]
             after == Created(table, c, owner, server)
             entry == [server |-> server, name |-> Cut[c], owner |-> owner,
                       users |-> 1, topic |-> FALSE]
  <1>1. FreeChn(table) \subseteq Nat
    BY SlotNumbers DEF FreeChn
  <1>2. PICK f \in FreeChn(table) : f = First(FreeChn(table))
    BY <1>1, FirstIn
  <1>3. f \in ChnSlots /\ table[f] = NoChn
    BY <1>2 DEF FreeChn
  <1>4. PICK home \in [UsrSlots -> 0..MaxChn] : Home(rooms, table, home)
    BY DEF Housed
  <1>5. home[i] = 0 /\ f \in 0..MaxChn /\ f # 0
    BY <1>3, <1>4, SlotNumbers DEF Home
  <1>6. Cut[c] \in InTable
    BY DEF InTable
  <1>7. /\ entry \in ChnRec
        /\ entry.name = Cut[c]
        /\ entry.users = 1
    BY <1>6 DEF ChnRec
  <1> HIDE DEF entry
  <1>8. /\ after[f] = entry
        /\ \A j \in ChnSlots \ {f} : after[j] = table[j]
        /\ DOMAIN after = ChnSlots
    BY <1>2, <1>3 DEF Created, ChnTable, entry
  <1>9. after \in ChnTable
    <2>1. after = [table EXCEPT ![f] = entry]
      BY <1>2 DEF Created, entry
    <2> QED
      BY <2>1, <1>7 DEF ChnTable
  <1>10. /\ into \in RoomTable
         /\ into[i] = Cut[c]
         /\ \A k \in UsrSlots \ {i} : into[k] = rooms[k]
    BY <1>6 DEF RoomTable
  <1> HIDE DEF into, after
  <1>11. table[f].users = 0 /\ after[f].users = table[f].users + 1
    BY <1>3, <1>7, <1>8, Empty
  <1>12. At(home, f) = {}
    <2>1. Cardinality(At(home, f)) = 0
      BY <1>3, <1>4, <1>11 DEF Home
    <2> QED
      BY <2>1, AtFinite, FS_EmptySet
  <1>13. ASSUME NEW k \in UsrSlots \ {i}, home[k] # 0
         PROVE  after[home[k]].name = table[home[k]].name
    <2>1. home[k] \in ChnSlots /\ home[k] # f
      BY <1>12, <1>13, SlotNumbers DEF At
    <2> QED
      BY <2>1, <1>8
  <1>14. ASSUME NEW j \in ChnSlots, after[j] # NoChn
         PROVE  after[j].users > 0
    <2>1. CASE j = f
      BY <2>1, <1>7, <1>8
    <2>2. CASE j # f
      BY <2>2, <1>14, <1>4, <1>8 DEF Home
    <2> QED
      BY <2>1, <2>2
  <1>15. \A j \in ChnSlots \ {f, home[i]} : after[j].users = table[j].users
    BY <1>8
  <1>16. /\ home[i] # f
         /\ into[i] = Nowhere <=> f = 0
         /\ after[f].name = into[i]
    BY <1>5, <1>6, <1>7, <1>8, <1>10, Empty
  <1>17. Housed(into, after)
    BY <1>4, <1>5, <1>9, <1>10, <1>11, <1>13, <1>14, <1>15, <1>16, Changes
  <1>18. after[f].name = Cut[c]
    BY <1>7, <1>8
  <1> QED
    BY <1>2, <1>8, <1>9, <1>17, <1>18 DEF into, after

\* Where two entries have the name of a user's channel, it does not matter which
\* of them counts him.
LEMMA AtFirst ==
  ASSUME NEW rooms \in RoomTable, NEW table \in ChnTable, Housed(rooms, table),
         NEW i \in UsrSlots, rooms[i] # Nowhere
  PROVE  \E home \in [UsrSlots -> 0..MaxChn] :
            /\ Home(rooms, table, home)
            /\ home[i] \in Channel(table, rooms[i])
            /\ home[i] = First(Channel(table, rooms[i]))
  <1> DEFINE c == rooms[i]
  <1>1. PICK home \in [UsrSlots -> 0..MaxChn] : Home(rooms, table, home)
    BY DEF Housed
  <1>2. home[i] \in Channel(table, c) /\ home[i] \in ChnSlots /\ home[i] # 0
    BY <1>1, SlotNumbers DEF Home, Channel
  <1>3. Channel(table, c) \subseteq Nat
    BY SlotNumbers DEF Channel
  <1>4. PICK f \in Channel(table, c) : f = First(Channel(table, c))
    BY <1>2, <1>3, FirstIn
  <1>5. CASE home[i] = f
    BY <1>1, <1>4, <1>5
  <1>6. CASE home[i] # f
    <2>1. f \in ChnSlots /\ table[f].name = c /\ f \in 0..MaxChn /\ f # 0
      BY <1>4, SlotNumbers DEF Channel
    <2>2. table[f] # NoChn
      <3>1. c \in InTable
        BY DEF RoomTable
      <3> QED
        BY <2>1, <3>1, Empty
    <2>3. table[f].users > 0 /\ table[f].users = Cardinality(At(home, f))
      BY <1>1, <2>1, <2>2 DEF Home
    <2>4. At(home, f) # {}
      BY <2>3, FS_EmptySet
    <2>5. PICK k \in UsrSlots : home[k] = f
      BY <2>4 DEF At
    <2>6. k # i /\ rooms[k] = c
      BY <1>1, <1>6, <2>1, <2>5 DEF Home
    <2> DEFINE h == home[i]
               first == [home EXCEPT ![i] = f]
               both == [first EXCEPT ![k] = h]
    <2>7. /\ first \in [UsrSlots -> 0..MaxChn] /\ both \in [UsrSlots -> 0..MaxChn]
          /\ first[i] = f /\ first[k] = f /\ both[i] = f /\ both[k] = h
          /\ \A l \in UsrSlots \ {i} : first[l] = home[l]
          /\ \A l \in UsrSlots \ {k} : both[l] = first[l]
          /\ h \in 0..MaxChn /\ h # f
      BY <1>6, <2>1, <2>5, <2>6
    <2> HIDE DEF first, both
    <2>8. /\ Cardinality(At(first, f)) = Cardinality(At(home, f)) + 1
          /\ Cardinality(At(first, h)) = Cardinality(At(home, h)) - 1
          /\ \A j \in (0..MaxChn) \ {f, h} : At(first, j) = At(home, j)
      BY <2>1, <2>7, Moves
    <2> HIDE DEF h
    <2>9. /\ Cardinality(At(both, h)) = Cardinality(At(first, h)) + 1
          /\ Cardinality(At(both, f)) = Cardinality(At(first, f)) - 1
          /\ \A j \in (0..MaxChn) \ {f, h} : At(both, j) = At(first, j)
      BY <2>7, Moves
    <2>10. \A l \in UsrSlots \ {i, k} : both[l] = home[l]
      BY <2>7
    <2>11. \A j \in 0..MaxChn : Cardinality(At(both, j)) = Cardinality(At(home, j))
      <3> TAKE j \in 0..MaxChn
      <3>1. Cardinality(At(home, j)) \in Nat
        BY AtFinite
      <3>2. CASE j = f
        BY <3>1, <3>2, <2>8, <2>9
      <3>3. CASE j = h
        BY <3>1, <3>3, <2>8, <2>9
      <3>4. CASE j \notin {f, h}
        BY <3>4, <2>8, <2>9
      <3> QED
        BY <3>2, <3>3, <3>4
    <2>12. ASSUME NEW l \in UsrSlots
           PROVE  /\ rooms[l] = Nowhere <=> both[l] = 0
                  /\ rooms[l] # Nowhere => table[both[l]].name = rooms[l]
      <3>1. CASE l = i
        BY <3>1, <2>1, <2>7
      <3>2. CASE l = k
        <4>1. table[h].name = c /\ h # 0
          BY <1>2 DEF h, Channel
        <4> QED
          BY <3>2, <4>1, <2>6, <2>7
      <3>3. CASE l \notin {i, k}
        BY <3>3, <1>1, <2>10 DEF Home
      <3> QED
        BY <3>1, <3>2, <3>3
    <2>13. \A j \in ChnSlots : /\ table[j].users = Cardinality(At(both, j))
                               /\ table[j] # NoChn => table[j].users > 0
      BY <1>1, <2>11, SlotNumbers DEF Home
    <2>14. Home(rooms, table, both)
      BY <2>7, <2>12, <2>13 DEF Home
    <2> QED
      BY <1>4, <2>7, <2>14
  <1> QED
    BY <1>5, <1>6

\* Somebody leaves his channel (part, del_user, del_userchannel).
LEMMA LeavesHouse ==
  ASSUME NEW rooms \in RoomTable, NEW table \in ChnTable, Housed(rooms, table),
         NEW i \in UsrSlots, rooms[i] # Nowhere
  PROVE  /\ Channel(table, rooms[i]) # {}
         /\ Left(table, rooms[i]) \in ChnTable
         /\ Housed([rooms EXCEPT ![i] = Nowhere], Left(table, rooms[i]))
         /\ \A j \in ChnSlots : \/ Left(table, rooms[i])[j] = NoChn
                                \/ Left(table, rooms[i])[j].name = table[j].name
  <1> DEFINE c == rooms[i]
             into == [rooms EXCEPT ![i] = Nowhere]
             after == Left(table, c)
  <1>1. PICK home \in [UsrSlots -> 0..MaxChn] :
            /\ Home(rooms, table, home)
            /\ home[i] \in Channel(table, c)
            /\ home[i] = First(Channel(table, c))
    BY AtFirst
  <1> DEFINE f == home[i]
  <1>2. f \in ChnSlots /\ f # 0
    BY <1>1, SlotNumbers DEF Channel
  <1>3. table[f].name = c
    BY <1>1 DEF Channel
  <1>4. c \in InTable
    BY DEF RoomTable
  <1>5. table[f] # NoChn
    BY <1>3, <1>4, Empty
  <1>6. table[f] \in ChnRec
    BY <1>2, <1>5, ChnFields
  <1>7. table[f].users \in Nat /\ table[f].users > 0
    BY <1>1, <1>2, <1>5, ChnFields DEF Home
  <1>8. table[f].users = Cardinality(At(home, f))
    BY <1>1, <1>2 DEF Home
  <1> HIDE DEF f
  <1>9. after = [table EXCEPT ![f] = IF table[f].users > 1
                                     THEN [table[f] EXCEPT !.users = @ - 1]
                                     ELSE NoChn]
    BY <1>1 DEF Left, f
  <1>10. \A j \in ChnSlots \ {f} : after[j] = table[j]
    BY <1>9 DEF ChnTable
  <1>11. /\ table[f].users > 1 => after[f] = [table[f] EXCEPT !.users = @ - 1]
         /\ ~(table[f].users > 1) => after[f] = NoChn
    BY <1>2, <1>9 DEF ChnTable
  <1>12. /\ after[f] \in ChnRec \cup {NoChn}
         /\ after[f].users = table[f].users - 1
         /\ after[f] # NoChn => after[f].users > 0 /\ after[f].name = c
    <2>1. CASE table[f].users > 1
      <3>1. table[f].users - 1 \in Nat /\ table[f].users - 1 > 0
        BY <1>7, <2>1
      <3>2. after[f] = [table[f] EXCEPT !.users = @ - 1]
        BY <1>11, <2>1
      <3>3. after[f] \in ChnRec
        BY <3>1, <3>2, <1>6 DEF ChnRec
      <3>4. after[f].users = table[f].users - 1 /\ after[f].name = table[f].name
        BY <3>2, <1>6 DEF ChnRec
      <3> QED
        BY <3>1, <3>3, <3>4, <1>3
    <2>2. CASE ~(table[f].users > 1)
      <3>1. table[f].users = 1
        BY <1>7, <2>2
      <3>2. after[f] = NoChn
        BY <1>11, <2>2
      <3>3. after[f].users = 0
        BY <3>2, Empty
      <3> QED
        BY <3>1, <3>2, <3>3
    <2> QED
      BY <2>1, <2>2
  <1>13. after \in ChnTable
    BY <1>9, <1>11, <1>12 DEF ChnTable
  <1>14. /\ into \in RoomTable
         /\ into[i] = Nowhere
         /\ \A k \in UsrSlots \ {i} : into[k] = rooms[k]
    BY DEF RoomTable
  <1> HIDE DEF into, after
  <1>15. ASSUME NEW k \in UsrSlots \ {i}, home[k] # 0
         PROVE  after[home[k]].name = table[home[k]].name
    <2>1. home[k] \in ChnSlots
      BY <1>15, SlotNumbers
    <2>2. CASE home[k] # f
      BY <2>1, <2>2, <1>10
    <2>3. CASE home[k] = f
      <3>1. table[f].users > 1
        <4>1. {i, k} \subseteq At(home, f) /\ i # k
          BY <2>3 DEF At, f
        <4>2. Cardinality({i, k}) = 2
          <5>1. Cardinality({i}) = 1 /\ IsFiniteSet({i})
            BY FS_Singleton
          <5>2. {i, k} = {i} \cup {k} /\ k \notin {i}
            BY <4>1
          <5> QED
            BY <5>1, <5>2, FS_AddElement
        <4>3. Cardinality({i, k}) <= Cardinality(At(home, f))
          BY <4>1, AtFinite, FS_Subset
        <4> QED
          BY <4>2, <4>3, <1>7, <1>8
      <3>2. after[f].users > 0
        BY <3>1, <1>7, <1>12
      <3>3. after[f] # NoChn
        BY <3>2, Empty
      <3> QED
        BY <2>3, <3>3, <1>3, <1>12
    <2> QED
      BY <2>2, <2>3
  <1>16. ASSUME NEW j \in ChnSlots, after[j] # NoChn
         PROVE  after[j].users > 0
    BY <1>1, <1>10, <1>12, <1>16 DEF Home
  <1>17. \A j \in ChnSlots \ {0, f} : after[j].users = table[j].users
    BY <1>10
  <1>18. home[i] = f
    BY DEF f
  <1>19. Housed(into, after)
    BY <1>1, <1>2, <1>12, <1>13, <1>14, <1>15, <1>16, <1>17, <1>18, SlotNumbers, Changes
  <1>20. \A j \in ChnSlots : after[j] = NoChn \/ after[j].name = table[j].name
    BY <1>3, <1>10, <1>12
  <1> QED
    BY <1>1, <1>13, <1>19, <1>20 DEF into, after

\* Somebody sets the topic of his channel.
LEMMA Topics ==
  ASSUME NEW rooms \in RoomTable, NEW table \in ChnTable, Housed(rooms, table),
         NEW c \in InTable, Channel(table, c) # {}
  PROVE  /\ TopicSet(table, c) \in ChnTable
         /\ Housed(rooms, TopicSet(table, c))
         /\ \A j \in ChnSlots : TopicSet(table, c)[j].name = table[j].name
  <1> DEFINE after == TopicSet(table, c)
  <1>1. Channel(table, c) \subseteq Nat
    BY SlotNumbers DEF Channel
  <1>2. PICK f \in Channel(table, c) : f = First(Channel(table, c))
    BY <1>1, FirstIn
  <1>3. f \in ChnSlots /\ table[f].name = c
    BY <1>2 DEF Channel
  <1>4. table[f] \in ChnRec /\ table[f] # NoChn
    BY <1>3, Empty, ChnFields
  <1>5. after = [table EXCEPT ![f].topic = TRUE]
    BY <1>2 DEF TopicSet
  <1>6. after \in ChnTable
    BY <1>3, <1>4, <1>5 DEF ChnTable, ChnRec
  <1>7. \A j \in ChnSlots : /\ after[j].name = table[j].name
                            /\ after[j].users = table[j].users
                            /\ after[j] # NoChn => table[j] # NoChn
    BY <1>3, <1>4, <1>5 DEF ChnTable, ChnRec
  <1> HIDE DEF after
  <1>8. PICK home \in [UsrSlots -> 0..MaxChn] : Home(rooms, table, home)
    BY DEF Housed
  <1>9. ASSUME NEW k \in UsrSlots, rooms[k] # Nowhere
        PROVE  after[home[k]].name = rooms[k]
    BY <1>7, <1>8, <1>9, SlotNumbers DEF Home
  <1>10. Home(rooms, after, home)
    BY <1>7, <1>8, <1>9 DEF Home
  <1> QED
    BY <1>6, <1>7, <1>10 DEF Housed, after

-----------------------------------------------------------------------------
(* The invariant *)

Rooms == [i \in UsrSlots |-> usr[i].channel]

\* A user of this server came with a process.
OurUsers == \A i \in Users(usr) : usr[i].server = Me /\ usr[i].pid \in Pids

\* Of the entries with one pid (an earlier process left the others) only the
\* one that its commands act on may be in a channel.
OneActs == \A p \in Pids : \A i \in WithPid(p) : usr[i].channel # Nowhere => i = Acting(p)

\* A name that nothing else is cut to has one entry.
OneEntry == \A c \in InTable : (\A d \in Channels : Cut[d] = c => d = c) =>
                \A j, k \in Channel(chn, c) : j = k

TablesOK == /\ usr \in [UsrSlots -> UsrRec \cup {NoUsr}]
            /\ chn \in ChnTable
            /\ srvusers \in Nat
            /\ OurUsers
            /\ OneActs
            /\ OneEntry
            /\ UsersCounted
            /\ Housed(Rooms, chn)

SessionTypes == /\ registered \subseteq Pids
                /\ sess \in [Pids -> SessStates]
                /\ who \in [Pids -> Names \cup {""}]
                /\ up \in BOOLEAN

\* A program that runs is registered and knows whom it serves.
Sessions == \A p \in Pids : sess[p] # "none" => p \in registered /\ who[p] \in Names

\* Before it chats, and when it is cleaned up, no entry with its pid is in a
\* channel.
IdleOut == \A p \in Pids : sess[p] = "bbs" \/ p \notin registered =>
               \A i \in WithPid(p) : usr[i].channel = Nowhere

IInv == TablesOK /\ SessionTypes /\ Sessions /\ IdleOut

\* A free entry of the users is in no channel and is not a user.
LEMMA NoUsrEmpty ==
  /\ NoUsr.channel = Nowhere /\ NoUsr \notin UsrRec
  /\ \A r \in UsrRec : /\ r.channel \in InTable \cup {Nowhere}
                       /\ r.server \in Servers /\ r.name \in Names
  BY ChatAssumption DEF NoUsr, UsrRec, Nowhere

\* Who is in a channel is a user.
LEMMA UsrFields ==
  ASSUME usr \in [UsrSlots -> UsrRec \cup {NoUsr}], NEW i \in UsrSlots
  PROVE  /\ i \in Users(usr) <=> usr[i] \in UsrRec
         /\ i \notin Users(usr) => usr[i] = NoUsr
         /\ usr[i].channel \in InTable \cup {Nowhere}
         /\ usr[i].channel # Nowhere => i \in Users(usr)
  BY NoUsrEmpty DEF Users

\* The channels of the users, as a table.
LEMMA RoomsType ==
  ASSUME usr \in [UsrSlots -> UsrRec \cup {NoUsr}]
  PROVE  Rooms \in RoomTable
  BY UsrFields DEF Rooms, RoomTable

\* There are finitely many users.
LEMMA UsersFinite == IsFiniteSet(Users(usr)) /\ Cardinality(Users(usr)) \in Nat
  <1>1. IsFiniteSet(UsrSlots)
    BY Sizes, FS_Interval DEF UsrSlots
  <1>2. Users(usr) \subseteq UsrSlots
    BY DEF Users
  <1> QED
    BY <1>1, <1>2, FS_Subset, FS_CardinalityType

\* Commands act on an entry with the pid of their sender.
LEMMA ActingIn ==
  ASSUME NEW p \in Pids, WithPid(p) # {}
  PROVE  Acting(p) \in WithPid(p) /\ Acting(p) \in Users(usr) /\ Acting(p) \in UsrSlots
  <1>1. WithPid(p) \subseteq Nat /\ WithPid(p) \subseteq Users(usr) /\ Users(usr) \subseteq UsrSlots
    BY SlotNumbers DEF WithPid, Users
  <1> QED
    BY <1>1, FirstIn DEF Acting

\* The entries of other processes are as they were.
Others(p) == \A q \in Pids \ {p} : \A i \in WithPid(q)' :
                 i \in WithPid(q) /\ usr'[i].channel = usr[i].channel

-----------------------------------------------------------------------------
(* The commands *)

\* A user is now in channel c, or in none.
LEMMA GoesTo ==
  ASSUME TablesOK, NEW i \in Users(usr), NEW c \in InTable \cup {Nowhere},
         usr' = InChannel(usr, {i}, c)
  PROVE  /\ usr' \in [UsrSlots -> UsrRec \cup {NoUsr}]
         /\ Rooms' = [Rooms EXCEPT ![i] = c]
         /\ usr'[i] = [usr[i] EXCEPT !.channel = c]
         /\ usr'[i].channel = c
         /\ \A k \in UsrSlots \ {i} : usr'[k] = usr[k]
         /\ \A q \in Pids : WithPid(q)' = WithPid(q) /\ Acting(q)' = Acting(q)
         /\ Users(usr') = Users(usr)
         /\ OurUsers'
         /\ srvusers' = srvusers => UsersCounted'
  <1> USE DEF TablesOK
  <1>1. i \in UsrSlots /\ usr[i] \in UsrRec
    BY UsrFields DEF Users
  <1>2. /\ usr'[i] = [usr[i] EXCEPT !.channel = c]
        /\ \A k \in UsrSlots \ {i} : usr'[k] = usr[k]
        /\ DOMAIN usr' = UsrSlots
    BY <1>1 DEF InChannel
  <1>3. /\ usr'[i] \in UsrRec
        /\ usr'[i].channel = c /\ usr'[i].server = usr[i].server
        /\ usr'[i].name = usr[i].name /\ usr'[i].pid = usr[i].pid
    BY <1>1, <1>2 DEF UsrRec, Nowhere
  <1>4. usr' \in [UsrSlots -> UsrRec \cup {NoUsr}]
    BY <1>2, <1>3 DEF InChannel
  <1>5. Rooms' = [Rooms EXCEPT ![i] = c]
    BY <1>1, <1>2, <1>3 DEF Rooms
  <1>6. Users(usr') = Users(usr)
    BY <1>1, <1>2, <1>3, NoUsrEmpty DEF Users
  <1>7. \A k \in UsrSlots : /\ usr'[k].server = usr[k].server
                            /\ usr'[k].name = usr[k].name
                            /\ usr'[k].pid = usr[k].pid
    BY <1>2, <1>3
  <1>8. \A q \in Pids : WithPid(q)' = WithPid(q)
    BY <1>6, <1>7 DEF WithPid, Users
  <1>9. \A q \in Pids : Acting(q)' = Acting(q)
    BY <1>8 DEF Acting
  <1>10. OurUsers'
    BY <1>6, <1>7 DEF OurUsers, Users
  <1>11. \A server, name : Entry(usr', server, name) = Entry(usr, server, name)
    BY <1>6, <1>7 DEF Entry, Of, Users
  <1>12. srvusers' = srvusers => UsersCounted'
    <2>1. srvusers' = srvusers => srvusers' = Cardinality(Users(usr'))
      BY <1>6 DEF UsersCounted
    <2>2. ASSUME NEW k \in Users(usr')
          PROVE  Entry(usr', usr'[k].server, usr'[k].name) = {k}
      <3>1. k \in Users(usr) /\ k \in UsrSlots
        BY <1>6 DEF Users
      <3>2. Entry(usr, usr[k].server, usr[k].name) = {k}
        BY <3>1 DEF UsersCounted
      <3>3. Entry(usr', usr'[k].server, usr'[k].name) = Entry(usr, usr[k].server, usr[k].name)
        BY <3>1, <1>7, <1>11
      <3> QED
        BY <3>2, <3>3
    <2> QED
      BY <2>1, <2>2 DEF UsersCounted
  <1> QED
    BY <1>2, <1>3, <1>4, <1>5, <1>6, <1>8, <1>9, <1>10, <1>12

\* Who leaves, by part() or chat_cleanuser(), is in no channel under any of his entries.
LEMMA PartOut ==
  ASSUME TablesOK, NEW p \in Pids, Part(p)
  PROVE  /\ TablesOK' /\ Others(p)
         /\ \A i \in WithPid(p)' : usr'[i].channel = Nowhere
         /\ Channel(chn', SysopChannel) \subseteq Channel(chn, SysopChannel)
  <1> USE DEF TablesOK
  <1>1. Rooms \in RoomTable
    BY RoomsType
  <1>2. \A i \in UsrSlots : Rooms[i] = usr[i].channel
    BY DEF Rooms
  <1>3. \A i \in WithPid(p) : i \in UsrSlots /\ i \in Users(usr)
    BY DEF WithPid, Users
  <1>4. \A i \in WithPid(p) : usr[i].channel # Nowhere => i \in Leaving(p)
    BY <1>1, <1>2, <1>3, LeavesHouse DEF Leaving, Nowhere
  <1>5. CASE Leaving(p) = {}
    <2>1. UNCHANGED tables
      BY <1>5 DEF Part
    <2>2. TablesOK'
      BY <2>1 DEF tables, Rooms, OurUsers, OneActs, OneEntry, UsersCounted, WithPid, Acting
    <2> QED
      BY <1>4, <1>5, <2>1, <2>2 DEF Others, tables, WithPid
  <1>6. CASE Leaving(p) # {}
    <2>1. Leaving(p) \subseteq Nat
      BY <1>3, SlotNumbers DEF Leaving
    <2>2. PICK i \in Leaving(p) : i = First(Leaving(p))
      BY <1>6, <2>1, FirstIn
    <2>3. i \in WithPid(p) /\ i \in UsrSlots /\ i \in Users(usr) /\ usr[i].channel # Nowhere
      BY <2>2, <1>3 DEF Leaving, Nowhere
    <2>4. /\ chn' = Left(chn, usr[i].channel)
          /\ usr' = InChannel(usr, {i}, Nowhere)
          /\ srvusers' = srvusers
      BY <1>6, <2>2 DEF Part, Nowhere
    <2>5. /\ usr' \in [UsrSlots -> UsrRec \cup {NoUsr}]
          /\ Rooms' = [Rooms EXCEPT ![i] = Nowhere]
          /\ usr'[i].channel = Nowhere
          /\ \A k \in UsrSlots \ {i} : usr'[k] = usr[k]
          /\ \A q \in Pids : WithPid(q)' = WithPid(q) /\ Acting(q)' = Acting(q)
          /\ OurUsers' /\ UsersCounted'
      BY <2>3, <2>4, GoesTo
    <2>6. /\ chn' \in ChnTable
          /\ Housed(Rooms', chn')
          /\ \A j \in ChnSlots : chn'[j] = NoChn \/ chn'[j].name = chn[j].name
      <3>1. Rooms[i] # Nowhere /\ Rooms[i] = usr[i].channel
        BY <1>2, <2>3
      <3>2. /\ Left(chn, Rooms[i]) \in ChnTable
            /\ Housed([Rooms EXCEPT ![i] = Nowhere], Left(chn, Rooms[i]))
            /\ \A j \in ChnSlots : \/ Left(chn, Rooms[i])[j] = NoChn
                                   \/ Left(chn, Rooms[i])[j].name = chn[j].name
        BY <1>1, <2>3, <3>1, LeavesHouse
      <3>3. chn' = Left(chn, Rooms[i])
        BY <2>4, <3>1
      <3> QED
        BY <2>5, <3>2, <3>3
    <2>7. \A c \in InTable : Channel(chn', c) \subseteq Channel(chn, c)
      BY <2>6, Empty DEF Channel
    <2>8. OneEntry'
      BY <2>7 DEF OneEntry
    <2>9. OneActs'
      <3> SUFFICES ASSUME NEW q \in Pids, NEW k \in WithPid(q), usr'[k].channel # Nowhere
                   PROVE  k = Acting(q)
        BY <2>5 DEF OneActs
      <3>1. k \in UsrSlots /\ usr[k].channel # Nowhere
        BY <2>5 DEF WithPid, Users
      <3> QED
        BY <3>1 DEF OneActs
    <2>10. \A k \in WithPid(p)' : usr'[k].channel = Nowhere
      <3> SUFFICES ASSUME NEW k \in WithPid(p), usr'[k].channel # Nowhere
                   PROVE  FALSE
        BY <2>5
      <3>1. k # i /\ usr[k].channel # Nowhere
        BY <1>3, <2>5
      <3>2. k = Acting(p) /\ i = Acting(p)
        BY <2>3, <3>1 DEF OneActs
      <3> QED
        BY <3>1, <3>2
    <2>11. Others(p)
      <3> SUFFICES ASSUME NEW q \in Pids \ {p}, NEW k \in WithPid(q)
                   PROVE  usr'[k].channel = usr[k].channel
        BY <2>5 DEF Others
      <3>1. k \in UsrSlots \ {i}
        BY <2>3 DEF WithPid, Users
      <3> QED
        BY <3>1, <2>5
    <2>12. Channel(chn', SysopChannel) \subseteq Channel(chn, SysopChannel)
      <3>1. SysopChannel # Nowhere
        BY ChatServerAssumption, ChatAssumption DEF SysopChannel, Nowhere
      <3> QED
        BY <2>6, <3>1, Empty DEF Channel
    <2>13. srvusers' \in Nat
      BY <2>4
    <2>14. TablesOK'
      BY <2>5, <2>6, <2>8, <2>9, <2>13
    <2> QED
      BY <2>10, <2>11, <2>12, <2>14
  <1> QED
    BY <1>5, <1>6

\* A command that only changes the table of channels, and no names in it
LEMMA OnlyChannels ==
  ASSUME TablesOK, usr' = usr, srvusers' = srvusers, chn' \in ChnTable,
         Housed(Rooms, chn'), \A j \in ChnSlots : chn'[j].name = chn[j].name
  PROVE  /\ TablesOK'
         /\ \A q \in Pids : WithPid(q)' = WithPid(q)
         /\ \A c : Channel(chn', c) = Channel(chn, c)
  <1>1. \A c : Channel(chn', c) = Channel(chn, c)
    BY DEF Channel
  <1>2. OneEntry'
    BY <1>1 DEF TablesOK, OneEntry
  <1>3. \A q \in Pids : WithPid(q)' = WithPid(q) /\ Acting(q)' = Acting(q)
    BY DEF WithPid, Acting
  <1>4. OneActs' /\ OurUsers'
    BY <1>3 DEF TablesOK, OneActs, OurUsers
  <1>5. UsersCounted'
    BY DEF TablesOK, UsersCounted
  <1>6. Housed(Rooms, chn)'
    BY DEF Rooms
  <1> QED
    BY <1>1, <1>2, <1>3, <1>4, <1>5, <1>6 DEF TablesOK

\* /join keeps the tables right, also when the name is cut and when there is no room.
LEMMA JoinIn ==
  ASSUME TablesOK, NEW p \in Pids, WithPid(p) # {}, NEW c \in Channels, DoJoin(p, c)
  PROVE  /\ TablesOK' /\ Others(p)
         /\ Channel(chn, SysopChannel) = {} /\ Channel(chn', SysopChannel) # {} =>
               \E i \in Members(usr', SysopChannel) : usr'[i].sysop
  <1> USE DEF TablesOK
  <1> DEFINE i == Acting(p)
  <1>1. i \in WithPid(p) /\ i \in Users(usr) /\ i \in UsrSlots
    BY ActingIn
  <1>2. Rooms \in RoomTable /\ Rooms[i] = usr[i].channel
    BY <1>1, RoomsType DEF Rooms
  <1>3. CASE usr' = usr /\ chn' = chn
    <2>1. srvusers' = srvusers
      BY DEF DoJoin
    <2>2. TablesOK' /\ \A q \in Pids : WithPid(q)' = WithPid(q)
      BY <1>3, <2>1, OnlyChannels
    <2> QED
      BY <1>3, <2>2 DEF Others
  <1>4. ASSUME usr[i].channel = Nowhere, NEW d \in InTable, usr' = InChannel(usr, {i}, d),
               chn' \in ChnTable, Housed([Rooms EXCEPT ![i] = d], chn'), OneEntry'
        PROVE  /\ TablesOK' /\ Others(p)
               /\ usr'[i] = [usr[i] EXCEPT !.channel = d]
               /\ Users(usr') = Users(usr)
    <2>1. srvusers' = srvusers
      BY DEF DoJoin
    <2>2. /\ usr' \in [UsrSlots -> UsrRec \cup {NoUsr}]
          /\ Rooms' = [Rooms EXCEPT ![i] = d]
          /\ usr'[i] = [usr[i] EXCEPT !.channel = d]
          /\ \A k \in UsrSlots \ {i} : usr'[k] = usr[k]
          /\ \A q \in Pids : WithPid(q)' = WithPid(q) /\ Acting(q)' = Acting(q)
          /\ Users(usr') = Users(usr)
          /\ OurUsers' /\ UsersCounted'
      BY <1>1, <1>4, <2>1, GoesTo
    <2>3. ASSUME NEW q \in Pids, NEW k \in WithPid(q), usr'[k].channel # Nowhere
          PROVE  k = Acting(q)
      <3>1. k \in UsrSlots
        BY DEF WithPid, Users
      <3>2. CASE k = i
        <4>1. q = p
          BY <1>1, <3>2 DEF WithPid
        <4> QED
          BY <3>2, <4>1
      <3>3. CASE k # i
        BY <2>2, <2>3, <3>1, <3>3 DEF OneActs
      <3> QED
        BY <3>2, <3>3
    <2>4. OneActs'
      BY <2>2, <2>3 DEF OneActs
    <2>5. Others(p)
      <3> SUFFICES ASSUME NEW q \in Pids \ {p}, NEW k \in WithPid(q)
                   PROVE  usr'[k].channel = usr[k].channel
        BY <2>2 DEF Others
      <3>1. k \in UsrSlots \ {i}
        BY <1>1 DEF WithPid, Users
      <3> QED
        BY <3>1, <2>2
    <2>6. TablesOK'
      BY <1>4, <2>1, <2>2, <2>4
    <2> QED
      BY <2>2, <2>5, <2>6
  <1>5. CASE usr[i].channel = Nowhere /\ Channel(chn, c) # {}
    <2>1. chn' = Entered(chn, c) /\ usr' = InChannel(usr, {i}, Cut[c])
      BY <1>5 DEF DoJoin, Join, Nowhere
    <2>2. c \in InTable
      <3>1. PICK j \in ChnSlots : chn[j].name = c
        BY <1>5 DEF Channel
      <3>2. c # Nowhere
        BY ChatAssumption DEF Nowhere
      <3> QED
        BY <3>1, <3>2, ChnFields
    <2>3. Cut[c] = c
      BY <2>2, ChatAssumption, Zenon DEF InTable
    <2>4. /\ Entered(chn, c) \in ChnTable
          /\ Housed([Rooms EXCEPT ![i] = c], Entered(chn, c))
          /\ \A j \in ChnSlots : Entered(chn, c)[j].name = chn[j].name
      BY <1>1, <1>2, <1>5, <2>2, Enters
    <2>5. \A d : Channel(chn', d) = Channel(chn, d)
      BY <2>1, <2>4 DEF Channel
    <2>6. OneEntry'
      BY <2>5 DEF OneEntry
    <2>7. usr' = InChannel(usr, {i}, c)
      BY <2>1, <2>3
    <2> HIDE DEF i
    <2> QED
      BY <1>4, <1>5, <2>1, <2>2, <2>4, <2>5, <2>6, <2>7
  <1>6. CASE usr[i].channel = Nowhere /\ Channel(chn, c) = {} /\ MayCreate(i, c)
             /\ FreeChn(chn) # {}
    <2>1. chn' = Created(chn, c, usr[i].nick, Me) /\ usr' = InChannel(usr, {i}, Cut[c])
      BY <1>6 DEF DoJoin, Join, Nowhere
    <2>2. Cut[c] \in InTable
      BY DEF InTable
    <2>3. usr[i].nick \in Nicks /\ Me \in Servers /\ usr[i] \in UsrRec
      BY <1>1, UsrFields, ChatServerAssumption DEF UsrRec
    <2>4. /\ chn' \in ChnTable
          /\ Housed([Rooms EXCEPT ![i] = Cut[c]], chn')
          /\ \E f \in FreeChn(chn) : /\ chn'[f].name = Cut[c]
                                     /\ \A j \in ChnSlots \ {f} : chn'[j] = chn[j]
      BY <1>1, <1>2, <1>6, <2>1, <2>3, Creates
    <2>5. PICK f \in FreeChn(chn) : /\ chn'[f].name = Cut[c]
                                    /\ \A j \in ChnSlots \ {f} : chn'[j] = chn[j]
      BY <2>4
    <2>6. OneEntry'
      <3> SUFFICES ASSUME NEW d \in InTable, \A e \in Channels : Cut[e] = d => e = d,
                          NEW j \in Channel(chn', d), NEW k \in Channel(chn', d)
                   PROVE  j = k
        BY DEF OneEntry
      <3>1. CASE Cut[c] = d
        <4>1. Channel(chn, d) = {}
          BY <1>6, <3>1
        <4>2. j = f /\ k = f
          BY <2>5, <4>1 DEF Channel
        <4> QED
          BY <4>2
      <3>2. CASE Cut[c] # d
        <4>1. j \in Channel(chn, d) /\ k \in Channel(chn, d)
          BY <2>5, <3>2 DEF Channel
        <4> QED
          BY <4>1 DEF OneEntry
      <3> QED
        BY <3>1, <3>2
    <2>7. /\ TablesOK' /\ Others(p)
          /\ usr'[i] = [usr[i] EXCEPT !.channel = Cut[c]]
          /\ Users(usr') = Users(usr)
      <3> HIDE DEF i
      <3> QED
        BY <1>4, <1>6, <2>1, <2>2, <2>4, <2>6
    <2>8. ASSUME Channel(chn, SysopChannel) = {}, Channel(chn', SysopChannel) # {}
          PROVE  \E k \in Members(usr', SysopChannel) : usr'[k].sysop
      <3>1. Cut[c] = SysopChannel
        BY <2>5, <2>8 DEF Channel
      <3>2. c = SysopChannel
        BY <3>1, ChatServerAssumption DEF SysopChannel
      <3>3. usr[i].sysop
        BY <1>6, <3>2 DEF MayCreate, Private
      <3>4. usr'[i].channel = SysopChannel /\ usr'[i].sysop
        BY <2>3, <2>7, <3>1, <3>3 DEF UsrRec
      <3> QED
        BY <1>1, <2>7, <3>4 DEF Members
    <2> QED
      BY <2>7, <2>8
  <1>7. \/ usr' = usr /\ chn' = chn
        \/ usr[i].channel = Nowhere /\ Channel(chn, c) # {}
        \/ usr[i].channel = Nowhere /\ Channel(chn, c) = {} /\ MayCreate(i, c) /\ FreeChn(chn) # {}
    BY DEF DoJoin, Join, Nowhere
  <1> QED
    BY <1>3, <1>5, <1>6, <1>7

\* /nick changes nothing that is counted.
LEMMA NickKeeps ==
  ASSUME TablesOK, NEW p \in Pids, WithPid(p) # {}, NEW nick \in Nicks, DoNick(p, nick)
  PROVE  TablesOK' /\ Others(p) /\ chn' = chn
  <1> USE DEF TablesOK
  <1> DEFINE i == Acting(p)
  <1>1. i \in WithPid(p) /\ i \in Users(usr) /\ i \in UsrSlots
    BY ActingIn
  <1>2. chn' = chn /\ srvusers' = srvusers
    BY DEF DoNick
  <1>3. CASE usr' = usr
    <2>1. TablesOK' /\ \A q \in Pids : WithPid(q)' = WithPid(q)
      BY <1>2, <1>3, OnlyChannels
    <2> QED
      BY <1>2, <1>3, <2>1 DEF Others
  <1>4. CASE usr' = [usr EXCEPT ![i].nick = nick]
    <2>1. usr[i] \in UsrRec
      BY <1>1, UsrFields
    <2>2. /\ usr'[i] = [usr[i] EXCEPT !.nick = nick]
          /\ \A k \in UsrSlots \ {i} : usr'[k] = usr[k]
      BY <1>1, <1>4
    <2>3. /\ usr'[i] \in UsrRec
          /\ usr'[i].channel = usr[i].channel /\ usr'[i].server = usr[i].server
          /\ usr'[i].name = usr[i].name /\ usr'[i].pid = usr[i].pid
      BY <2>1, <2>2 DEF UsrRec
    <2>4. usr' \in [UsrSlots -> UsrRec \cup {NoUsr}]
      BY <1>1, <1>4, <2>2, <2>3
    <2>5. \A k \in UsrSlots :
             /\ usr'[k].channel = usr[k].channel /\ usr'[k].server = usr[k].server
             /\ usr'[k].name = usr[k].name /\ usr'[k].pid = usr[k].pid
      BY <2>2, <2>3
    <2>6. Users(usr') = Users(usr)
      BY <1>1, <2>2, <2>3, NoUsrEmpty DEF Users
    <2>7. \A q \in Pids : WithPid(q)' = WithPid(q)
      BY <2>5, <2>6 DEF WithPid, Users
    <2>8. OneActs'
      BY <2>5, <2>7 DEF OneActs, Acting, WithPid, Users
    <2>9. OurUsers'
      BY <2>5, <2>6 DEF OurUsers, Users
    <2>10. UsersCounted'
      <3>1. srvusers' = Cardinality(Users(usr'))
        BY <1>2, <2>6 DEF UsersCounted
      <3>2. ASSUME NEW k \in Users(usr')
            PROVE  Entry(usr', usr'[k].server, usr'[k].name) = {k}
        <4>1. k \in Users(usr) /\ k \in UsrSlots
          BY <2>6 DEF Users
        <4>2. Entry(usr, usr[k].server, usr[k].name) = {k}
          BY <4>1 DEF UsersCounted
        <4>3. Entry(usr', usr'[k].server, usr'[k].name) = Entry(usr, usr[k].server, usr[k].name)
          BY <4>1, <2>5, <2>6 DEF Entry, Of, Users
        <4> QED
          BY <4>2, <4>3
      <3> QED
        BY <3>1, <3>2 DEF UsersCounted
    <2>11. Housed(Rooms, chn)'
      <3>1. Rooms' = Rooms
        BY <2>5 DEF Rooms
      <3> QED
        BY <1>2, <3>1
    <2>12. OneEntry'
      BY <1>2 DEF OneEntry
    <2>13. TablesOK'
      BY <1>2, <2>4, <2>8, <2>9, <2>10, <2>11, <2>12
    <2>14. Others(p)
      BY <2>5, <2>7 DEF Others, WithPid, Users
    <2> QED
      BY <1>2, <2>13, <2>14
  <1> QED
    BY <1>3, <1>4 DEF DoNick

\* /topic changes nothing that is counted.
LEMMA TopicKeeps ==
  ASSUME TablesOK, NEW p \in Pids, WithPid(p) # {}, DoTopic(p)
  PROVE  /\ TablesOK' /\ Others(p)
         /\ Channel(chn', SysopChannel) = Channel(chn, SysopChannel)
  <1> USE DEF TablesOK
  <1> DEFINE i == Acting(p)
  <1>1. i \in UsrSlots
    BY ActingIn
  <1>2. usr' = usr /\ srvusers' = srvusers
    BY DEF DoTopic
  <1>3. CASE chn' = chn
    <2>1. TablesOK' /\ \A q \in Pids : WithPid(q)' = WithPid(q)
      BY <1>2, <1>3, OnlyChannels
    <2> QED
      BY <1>2, <1>3, <2>1 DEF Others
  <1>4. CASE Owns(i) /\ Channel(chn, usr[i].channel) # {} /\ chn' = TopicSet(chn, usr[i].channel)
    <2>1. usr[i].channel \in InTable
      BY <1>1, <1>4, UsrFields DEF Owns, Nowhere
    <2>2. /\ chn' \in ChnTable
          /\ Housed(Rooms, chn')
          /\ \A j \in ChnSlots : chn'[j].name = chn[j].name
      BY <1>4, <2>1, RoomsType, Topics
    <2>3. /\ TablesOK'
          /\ \A q \in Pids : WithPid(q)' = WithPid(q)
          /\ \A c : Channel(chn', c) = Channel(chn, c)
      BY <1>2, <2>2, OnlyChannels
    <2> QED
      BY <1>2, <2>3 DEF Others
  <1> QED
    BY <1>3, <1>4 DEF DoTopic

\* A session connects (chat_connect_r): its user has an entry then, in no channel.
LEMMA ConnectKeeps ==
  ASSUME IInv, NEW p \in Pids, NEW forced \in BOOLEAN, Connect(p, forced)
  PROVE  TablesOK' /\ Others(p) /\ chn' = chn
  <1> USE DEF IInv, TablesOK
  <1>1. /\ chn' = chn /\ sess[p] = "bbs"
    BY DEF Connect
  <1>2. who[p] \in Names
    BY <1>1 DEF Sessions
  <1>3. CASE ~CanAddUser(usr, Me, who[p])
    <2>1. usr' = usr /\ srvusers' = srvusers
      BY <1>3 DEF Connect
    <2>2. TablesOK' /\ \A q \in Pids : WithPid(q)' = WithPid(q)
      BY <1>1, <2>1, OnlyChannels
    <2> QED
      BY <1>1, <2>1, <2>2 DEF Others
  <1>4. CASE CanAddUser(usr, Me, who[p])
    <2> DEFINE free == {k \in UsrSlots : usr[k] = NoUsr}
               first == [NoUsr EXCEPT !.server = Me, !.name = who[p], !.nick = who[p]]
               new == UserAdded(usr, Me, who[p])
               entry == [first EXCEPT !.pid = p, !.sysop = forced /\ who[p] = Sysop]
    <2>1. free \subseteq Nat /\ free # {} /\ Entry(usr, Me, who[p]) = {}
      BY <1>4, SlotNumbers DEF CanAddUser
    <2>2. PICK f \in free : f = First(free)
      BY <2>1, FirstIn
    <2>3. f \in UsrSlots /\ usr[f] = NoUsr /\ f \notin Users(usr)
      BY <2>2 DEF Users
    <2>4. new = [usr EXCEPT ![f] = first]
      BY <2>2 DEF UserAdded
    <2>5. first.server = Me /\ first.name = who[p] /\ first # NoUsr
      <3>1. Me # ""
        BY ChatAssumption, ChatServerAssumption
      <3> QED
        BY <3>1 DEF NoUsr
    <2>6. Entry(new, Me, who[p]) = {f}
      BY <2>1, <2>3, <2>4, <2>5 DEF Entry, Of, Users
    <2>7. First(Entry(new, Me, who[p])) = f
      <3>1. f \in Nat
        BY <2>3, SlotNumbers
      <3> QED
        BY <2>6, <3>1, FirstIn
    <2>8. usr' = [usr EXCEPT ![f] = entry] /\ srvusers' = srvusers + 1
      <3> HIDE DEF new
      <3>1. /\ usr' = [new EXCEPT ![f].pid = p, ![f].sysop = forced /\ who[p] = Sysop]
            /\ srvusers' = srvusers + 1
        BY <1>4, <2>7 DEF Connect, new
      <3> HIDE DEF first
      <3>2. new[f] = first
        BY <2>3, <2>4
      <3>3. usr' = [new EXCEPT ![f] = entry]
        BY <2>3, <2>4, <3>1, <3>2
      <3> QED
        BY <2>4, <3>1, <3>3
    <2>9. /\ entry \in UsrRec
          /\ entry.server = Me /\ entry.name = who[p] /\ entry.pid = p
          /\ entry.channel = Nowhere
      <3>1. who[p] \in Nicks /\ Me \in Servers
        BY <1>2, ChatAssumption, ChatServerAssumption
      <3> QED
        BY <1>2, <3>1 DEF NoUsr, UsrRec, Nowhere
    <2> HIDE DEF entry, first, new, free
    <2>10. /\ usr' \in [UsrSlots -> UsrRec \cup {NoUsr}]
           /\ usr'[f] = entry
           /\ \A k \in UsrSlots \ {f} : usr'[k] = usr[k]
      BY <2>3, <2>8, <2>9
    <2>11. Users(usr') = Users(usr) \cup {f}
      BY <2>3, <2>9, <2>10, NoUsrEmpty DEF Users
    <2>12. /\ WithPid(p)' = WithPid(p) \cup {f}
           /\ \A q \in Pids \ {p} : WithPid(q)' = WithPid(q)
      BY <2>3, <2>9, <2>10, <2>11 DEF WithPid, Users
    <2>13. Rooms' = Rooms
      BY <2>3, <2>9, <2>10, NoUsrEmpty DEF Rooms
    <2>14. Housed(Rooms, chn)'
      BY <1>1, <2>13
    <2>15. OneEntry'
      BY <1>1 DEF OneEntry
    <2>16. OurUsers'
      BY <2>3, <2>9, <2>10, <2>11 DEF OurUsers, Users
    <2>17. ASSUME NEW q \in Pids, NEW k \in WithPid(q)', usr'[k].channel # Nowhere
           PROVE  k = Acting(q)'
      <3>1. CASE q = p
        BY <1>1, <2>9, <2>10, <2>12, <2>17, <3>1 DEF IdleOut, WithPid, Users
      <3>2. CASE q # p
        <4>1. WithPid(q)' = WithPid(q) /\ k \in WithPid(q) /\ k \in UsrSlots \ {f}
          BY <2>3, <2>12, <2>17, <3>2 DEF WithPid, Users
        <4>2. k = Acting(q)
          BY <2>10, <2>17, <4>1 DEF OneActs
        <4> QED
          BY <4>1, <4>2 DEF Acting
      <3> QED
        BY <3>1, <3>2
    <2>18. OneActs'
      BY <2>17 DEF OneActs
    <2>19. UsersCounted'
      <3>1. srvusers' = Cardinality(Users(usr'))
        <4>1. IsFiniteSet(Users(usr))
          BY UsersFinite
        <4>2. Cardinality(Users(usr')) = Cardinality(Users(usr)) + 1
          BY <2>3, <2>11, <4>1, FS_AddElement
        <4> QED
          BY <2>8, <4>2 DEF UsersCounted
      <3>2. ASSUME NEW k \in Users(usr')
            PROVE  Entry(usr', usr'[k].server, usr'[k].name) = {k}
        <4>1. CASE k = f
          <5>1. Entry(usr', Me, who[p]) = {f}
            BY <2>1, <2>3, <2>9, <2>10, <2>11 DEF Entry, Of, Users
          <5> QED
            BY <4>1, <5>1, <2>9, <2>10
        <4>2. CASE k # f
          <5>1. k \in Users(usr) /\ k \in UsrSlots /\ usr'[k] = usr[k]
            BY <2>10, <2>11, <4>2 DEF Users
          <5>2. Entry(usr, usr[k].server, usr[k].name) = {k}
            BY <5>1 DEF UsersCounted
          <5>3. ~(usr[k].server = Me /\ usr[k].name = who[p])
            BY <2>1, <5>1 DEF Entry, Of
          <5>4. Entry(usr', usr[k].server, usr[k].name) = Entry(usr, usr[k].server, usr[k].name)
            BY <2>3, <2>9, <2>10, <2>11, <5>3 DEF Entry, Of, Users
          <5> QED
            BY <5>1, <5>2, <5>4
        <4> QED
          BY <4>1, <4>2
      <3> QED
        BY <3>1, <3>2 DEF UsersCounted
    <2>20. TablesOK'
      BY <1>1, <2>8, <2>10, <2>14, <2>15, <2>16, <2>18, <2>19
    <2>21. Others(p)
      BY <2>3, <2>10, <2>12 DEF Others, WithPid, Users
    <2> QED
      BY <1>1, <2>20, <2>21
  <1> QED
    BY <1>3, <1>4

\* A session closes its connection (chat_close_r, del_user): the entry its
\* commands acted on goes, and it was the only one in a channel.
LEMMA CloseKeeps ==
  ASSUME TablesOK, NEW p \in Pids, Close(p)
  PROVE  /\ TablesOK' /\ Others(p)
         /\ \A i \in WithPid(p)' : usr'[i].channel = Nowhere
         /\ Channel(chn', SysopChannel) \subseteq Channel(chn, SysopChannel)
  <1> USE DEF TablesOK
  <1>1. CASE WithPid(p) = {}
    <2>1. usr' = usr /\ chn' = chn /\ srvusers' = srvusers
      BY <1>1 DEF Close, tables
    <2>2. TablesOK' /\ \A q \in Pids : WithPid(q)' = WithPid(q)
      BY <2>1, OnlyChannels
    <2> QED
      BY <1>1, <2>1, <2>2 DEF Others
  <1>2. CASE WithPid(p) # {}
    <2> DEFINE a == Acting(p)
               gone == Entry(usr, Me, usr[a].name)
    <2>1. a \in WithPid(p) /\ a \in Users(usr) /\ a \in UsrSlots /\ a \in Nat
      BY <1>2, ActingIn, SlotNumbers
    <2>2. gone = {a}
      BY <2>1 DEF UsersCounted, OurUsers
    <2>3. First(gone) = a
      BY <2>1, <2>2, FirstIn
    <2>4. /\ chn' = IF usr[a].channel = Nowhere THEN chn ELSE Left(chn, usr[a].channel)
          /\ usr' = Without(usr, {a})
      BY <1>2, <2>2, <2>3 DEF Close, Acting, Nowhere
    <2>5. srvusers' = srvusers - Cardinality({a})
      BY <1>2, <2>2 DEF Close, Acting
    <2> HIDE DEF a
    <2>6. /\ usr' \in [UsrSlots -> UsrRec \cup {NoUsr}]
          /\ usr'[a] = NoUsr
          /\ \A k \in UsrSlots \ {a} : usr'[k] = usr[k]
      BY <2>1, <2>4 DEF Without
    <2>7. Users(usr') = Users(usr) \ {a}
      BY <2>1, <2>6 DEF Users
    <2>8. /\ WithPid(p)' = WithPid(p) \ {a}
          /\ \A q \in Pids \ {p} : WithPid(q)' = WithPid(q)
      <3>1. usr[a].pid = p
        BY <2>1 DEF WithPid
      <3>2. \A k \in Users(usr') : usr'[k].pid = usr[k].pid
        BY <2>6, <2>7 DEF Users
      <3>3. \A q \in Pids : WithPid(q)' = {k \in Users(usr) \ {a} : usr[k].pid = q}
        BY <2>7, <3>2 DEF WithPid
      <3> QED
        BY <3>1, <3>3 DEF WithPid
    <2>9. Rooms' = [Rooms EXCEPT ![a] = Nowhere]
      BY <2>1, <2>6, NoUsrEmpty DEF Rooms
    <2>10. Rooms \in RoomTable /\ Rooms[a] = usr[a].channel
      BY <2>1, RoomsType DEF Rooms
    <2>11. /\ chn' \in ChnTable
           /\ Housed(Rooms', chn')
           /\ \A j \in ChnSlots : chn'[j] = NoChn \/ chn'[j].name = chn[j].name
      <3>1. CASE usr[a].channel = Nowhere
        <4>1. Rooms' = Rooms
          BY <2>9, <2>10, <3>1 DEF RoomTable
        <4> QED
          BY <2>4, <3>1, <4>1
      <3>2. CASE usr[a].channel # Nowhere
        <4>1. Rooms[a] # Nowhere
          BY <2>10, <3>2
        <4>2. /\ Left(chn, Rooms[a]) \in ChnTable
              /\ Housed([Rooms EXCEPT ![a] = Nowhere], Left(chn, Rooms[a]))
              /\ \A j \in ChnSlots : \/ Left(chn, Rooms[a])[j] = NoChn
                                     \/ Left(chn, Rooms[a])[j].name = chn[j].name
          BY <2>1, <2>10, <4>1, LeavesHouse
        <4>3. chn' = Left(chn, Rooms[a])
          BY <2>4, <2>10, <3>2
        <4> QED
          BY <2>9, <4>2, <4>3
      <3> QED
        BY <3>1, <3>2
    <2>12. OneEntry'
      <3>1. \A c \in InTable : Channel(chn', c) \subseteq Channel(chn, c)
        BY <2>11, Empty DEF Channel
      <3> QED
        BY <3>1 DEF OneEntry
    <2>13. Channel(chn', SysopChannel) \subseteq Channel(chn, SysopChannel)
      <3>1. SysopChannel # Nowhere
        BY ChatServerAssumption, ChatAssumption DEF SysopChannel, Nowhere
      <3> QED
        BY <2>11, <3>1, Empty DEF Channel
    <2>14. \A k \in WithPid(p)' : usr'[k].channel = Nowhere
      <3> SUFFICES ASSUME NEW k \in WithPid(p)' PROVE usr'[k].channel = Nowhere
        OBVIOUS
      <3>1. k \in WithPid(p) /\ k # a /\ k \in UsrSlots
        BY <2>8 DEF WithPid, Users
      <3>2. usr[k].channel = Nowhere
        BY <3>1 DEF OneActs, a
      <3> QED
        BY <2>6, <3>1, <3>2
    <2>15. ASSUME NEW q \in Pids \ {p}, NEW k \in WithPid(q)'
           PROVE  k \in WithPid(q) /\ usr'[k] = usr[k] /\ Acting(q)' = Acting(q)
      <3>1. WithPid(q)' = WithPid(q)
        BY <2>8
      <3>2. k \in UsrSlots \ {a}
        BY <2>1, <3>1 DEF WithPid, Users
      <3> QED
        BY <2>6, <3>1, <3>2 DEF Acting
    <2>16. OneActs'
      <3> SUFFICES ASSUME NEW q \in Pids, NEW k \in WithPid(q)', usr'[k].channel # Nowhere
                   PROVE  k = Acting(q)'
        BY DEF OneActs
      <3>1. q # p
        BY <2>14
      <3> QED
        BY <2>15, <3>1 DEF OneActs
    <2>17. OurUsers'
      BY <2>6, <2>7 DEF OurUsers, Users
    <2>18. UsersCounted' /\ srvusers' \in Nat
      <3>1. /\ Cardinality(Users(usr')) = Cardinality(Users(usr)) - 1
            /\ Cardinality(Users(usr')) \in Nat
        BY <2>1, <2>7, UsersFinite, FS_RemoveElement, FS_CardinalityType
      <3>2. Cardinality({a}) = 1
        BY FS_Singleton
      <3>3. srvusers = Cardinality(Users(usr))
        BY DEF UsersCounted
      <3>4. srvusers' = Cardinality(Users(usr'))
        BY <2>5, <3>1, <3>2, <3>3
      <3>5. ASSUME NEW k \in Users(usr')
            PROVE  Entry(usr', usr'[k].server, usr'[k].name) = {k}
        <4>1. k \in Users(usr) /\ k \in UsrSlots /\ k # a /\ usr'[k] = usr[k]
          BY <2>6, <2>7 DEF Users
        <4>2. Entry(usr, usr[k].server, usr[k].name) = {k}
          BY <4>1 DEF UsersCounted
        <4>3. Entry(usr', usr[k].server, usr[k].name)
                  = Entry(usr, usr[k].server, usr[k].name) \ {a}
          BY <2>6, <2>7 DEF Entry, Of, Users
        <4> QED
          BY <4>1, <4>2, <4>3
      <3> QED
        BY <3>1, <3>4, <3>5 DEF UsersCounted
    <2>19. TablesOK'
      BY <2>6, <2>11, <2>12, <2>16, <2>17, <2>18
    <2>20. Others(p)
      BY <2>15 DEF Others
    <2> QED
      BY <2>13, <2>14, <2>19, <2>20
  <1> QED
    BY <1>1, <1>2

-----------------------------------------------------------------------------
(* Every step keeps the invariant *)

\* The daemon starts with empty tables.
LEMMA Initially == Init => IInv
  <1> SUFFICES ASSUME Init PROVE IInv
    OBVIOUS
  <1> USE DEF Init
  <1>1. Users(usr) = {} /\ \A p \in Pids : WithPid(p) = {}
    BY DEF Users, WithPid
  <1>2. Rooms = [i \in UsrSlots |-> Nowhere]
    BY NoUsrEmpty DEF Rooms
  <1>3. Housed(Rooms, chn)
    <2> DEFINE home == [i \in UsrSlots |-> 0]
    <2>1. home \in [UsrSlots -> 0..MaxChn]
      BY SlotNumbers
    <2>2. \A j \in ChnSlots : At(home, j) = {}
      BY SlotNumbers DEF At
    <2>3. \A j \in ChnSlots : chn[j].users = Cardinality(At(home, j)) /\ chn[j] = NoChn
      BY <2>2, Empty, FS_EmptySet
    <2>4. \A i \in UsrSlots : home[i] = 0 /\ Rooms[i] = Nowhere
      BY <1>2
    <2> HIDE DEF home
    <2>5. Home(Rooms, chn, home)
      BY <2>1, <2>3, <2>4 DEF Home
    <2> QED
      BY <2>1, <2>5 DEF Housed
  <1>4. OneEntry
    BY Empty DEF OneEntry, Channel
  <1>5. UsersCounted
    BY <1>1, FS_EmptySet DEF UsersCounted
  <1>6. usr \in [UsrSlots -> UsrRec \cup {NoUsr}] /\ chn \in ChnTable /\ srvusers \in Nat
    BY DEF ChnTable
  <1>7. TablesOK
    BY <1>1, <1>3, <1>4, <1>5, <1>6 DEF TablesOK, OurUsers, OneActs
  <1>8. SessionTypes /\ Sessions
    BY DEF SessionTypes, Sessions, SessStates
  <1> QED
    BY <1>1, <1>7, <1>8 DEF IInv, IdleOut

\* The daemon's tables as they are, whatever the sessions do
LEMMA SameTables ==
  ASSUME TablesOK, UNCHANGED tables
  PROVE  TablesOK' /\ \A q \in Pids : WithPid(q)' = WithPid(q) /\ Others(q)
  <1>1. usr' = usr /\ chn' = chn /\ srvusers' = srvusers
    BY DEF tables
  <1>2. TablesOK' /\ \A q \in Pids : WithPid(q)' = WithPid(q)
    BY <1>1, OnlyChannels DEF TablesOK
  <1> QED
    BY <1>1, <1>2 DEF Others

\* A program goes on from a state in which it runs.
LEMMA SessionGoes ==
  ASSUME IInv, NEW p \in Pids, NEW next \in SessStates, sess[p] # "none",
         sess' = [sess EXCEPT ![p] = next],
         registered' = registered, who' = who, up' \in BOOLEAN,
         TablesOK', Others(p),
         next = "bbs" => \A i \in WithPid(p)' : usr'[i].channel = Nowhere
  PROVE  IInv'
  <1> USE DEF IInv, SessionTypes
  <1>1. p \in registered /\ who[p] \in Names
    BY DEF Sessions
  <1>2. /\ sess' \in [Pids -> SessStates]
        /\ sess'[p] = next
        /\ \A q \in Pids \ {p} : sess'[q] = sess[q]
    OBVIOUS
  <1>3. Sessions'
    BY <1>1, <1>2 DEF Sessions
  <1>4. IdleOut'
    <2> SUFFICES ASSUME NEW q \in Pids, sess'[q] = "bbs" \/ q \notin registered,
                        NEW i \in WithPid(q)'
                 PROVE  usr'[i].channel = Nowhere
      BY DEF IdleOut
    <2>1. CASE q = p
      BY <1>1, <1>2, <2>1
    <2>2. CASE q # p
      <3>1. i \in WithPid(q) /\ usr'[i].channel = usr[i].channel
        BY <2>2 DEF Others
      <3> QED
        BY <1>2, <2>2, <3>1 DEF IdleOut
    <2> QED
      BY <2>1, <2>2
  <1> QED
    BY <1>2, <1>3, <1>4

\* Somebody with an entry marked as the sysop's is in his channel when it is new.
SysopFirst == Channel(chn, SysopChannel) = {} /\ Channel(chn', SysopChannel) # {} =>
                  \E i \in Members(usr', SysopChannel) : usr'[i].sysop

\* CPUT, whichever command it carries
CommandStep(p) == \/ \E c \in Channels : DoJoin(p, c)
                  \/ \E nick \in Nicks : DoNick(p, nick)
                  \/ DoTopic(p)
                  \/ DoSay(p)
                  \/ Part(p)

\* Every command of a connected session keeps the tables right.
LEMMA CommandKeeps ==
  ASSUME IInv, NEW p \in Pids, WithPid(p) # {}, CommandStep(p)
  PROVE  TablesOK' /\ Others(p) /\ SysopFirst
  <1>0. TablesOK
    BY DEF IInv
  <1>1. CASE \E c \in Channels : DoJoin(p, c)
    BY <1>0, <1>1, JoinIn DEF SysopFirst
  <1>2. CASE \E nick \in Nicks : DoNick(p, nick)
    BY <1>0, <1>2, NickKeeps DEF SysopFirst
  <1>3. CASE DoTopic(p)
    BY <1>0, <1>3, TopicKeeps DEF SysopFirst
  <1>4. CASE DoSay(p)
    <2>1. UNCHANGED tables
      BY <1>4 DEF DoSay
    <2> QED
      BY <1>0, <2>1, SameTables DEF SysopFirst, tables
  <1>5. CASE Part(p)
    BY <1>0, <1>5, PartOut DEF SysopFirst
  <1> QED
    BY <1>1, <1>2, <1>3, <1>4, <1>5 DEF CommandStep

\* CPUT, from a session that is connected or is not
LEMMA PutKeeps ==
  ASSUME IInv, NEW p \in Pids, NEW next \in SessStates, next # "bbs", sess[p] # "none",
         sess' = [sess EXCEPT ![p] = next], registered' = registered, who' = who,
         \/ WithPid(p) # {} /\ CommandStep(p) /\ up' = up
         \/ UNCHANGED tables /\ up' = FALSE
  PROVE  IInv' /\ SysopFirst
  <1>1. TablesOK' /\ Others(p) /\ SysopFirst
    <2>1. CASE UNCHANGED tables
      BY <2>1, SameTables DEF IInv, SysopFirst, tables
    <2>2. CASE WithPid(p) # {} /\ CommandStep(p)
      BY <2>2, CommandKeeps
    <2> QED
      BY <2>1, <2>2
  <1>2. up' \in BOOLEAN
    BY DEF IInv, SessionTypes
  <1> QED
    BY <1>1, <1>2, SessionGoes

\* One step of any program
LEMMA StepKeeps ==
  ASSUME IInv, Next
  PROVE  IInv' /\ SysopFirst
  <1> PICK p \in Pids : \/ \E u \in Names : Login(p, u)
                        \/ \E forced \in BOOLEAN : Connect(p, forced) \/ RefusedConnect(p, forced)
                        \/ ForcedNick(p) \/ ForcedJoin(p) \/ Command(p)
                        \/ Refused(p) \/ Get(p) \/ Close(p) \/ Gone(p) \/ CleanUser(p)
    BY DEF Next
  <1>0. TablesOK /\ SessionTypes
    BY DEF IInv
  <1>1. ASSUME NEW u \in Names, Login(p, u)
        PROVE  IInv' /\ SysopFirst
    <2>1. TablesOK' /\ \A q \in Pids : WithPid(q)' = WithPid(q)
      BY <1>0, <1>1, SameTables DEF Login
    <2>2. usr' = usr /\ chn' = chn
      BY <1>1 DEF Login, tables
    <2>3. /\ registered' = registered \cup {p} /\ p \notin registered
          /\ sess' = [sess EXCEPT ![p] = "bbs"]
          /\ who' = [who EXCEPT ![p] = u]
          /\ up' = up
      BY <1>1 DEF Login
    <2>4. SessionTypes'
      BY <1>0, <2>3 DEF SessionTypes, SessStates
    <2>5. Sessions'
      BY <1>0, <2>3 DEF IInv, SessionTypes, Sessions
    <2>6. IdleOut'
      BY <1>0, <2>1, <2>2, <2>3 DEF IInv, SessionTypes, IdleOut
    <2> QED
      BY <2>1, <2>2, <2>4, <2>5, <2>6 DEF IInv, SysopFirst
  <1>2. ASSUME NEW forced \in BOOLEAN, Connect(p, forced)
        PROVE  IInv' /\ SysopFirst
    <2>1. TablesOK' /\ Others(p) /\ chn' = chn
      BY <1>2, ConnectKeeps
    <2>2. /\ NextStep(p, forced) \in SessStates /\ NextStep(p, forced) # "bbs"
          /\ sess' = [sess EXCEPT ![p] = NextStep(p, forced)]
          /\ sess[p] # "none"
          /\ registered' = registered /\ who' = who /\ up' = up
      BY <1>2 DEF Connect, NextStep, SessStates
    <2> HIDE DEF NextStep
    <2>3. IInv'
      BY <1>0, <2>1, <2>2, SessionGoes DEF SessionTypes
    <2> QED
      BY <2>1, <2>3 DEF SysopFirst
  <1>3. CASE ForcedNick(p)
    <2>1. who[p] \in Nicks /\ sess[p] # "none"
      BY <1>3, ChatAssumption DEF IInv, Sessions, ForcedNick
    <2>2. CommandStep(p) \/ ~DoNick(p, who[p])
      BY <2>1 DEF CommandStep
    <2> QED
      BY <1>3, <2>1, <2>2, PutKeeps DEF ForcedNick, Put, SessStates
  <1>4. CASE ForcedJoin(p)
    <2>1. CommandStep(p) \/ ~DoJoin(p, SysopChannel)
      BY ChatServerAssumption DEF CommandStep, SysopChannel
    <2> QED
      BY <1>4, <2>1, PutKeeps DEF ForcedJoin, Put, SessStates
  <1>5. CASE Command(p)
    <2>1. sess[p] # "none"
      BY <1>5 DEF Command
    <2>2. \E next \in {"poll", "close"} :
             /\ sess' = [sess EXCEPT ![p] = next]
             /\ registered' = registered /\ who' = who
             /\ \/ WithPid(p) # {} /\ CommandStep(p) /\ up' = up
                \/ UNCHANGED tables /\ up' = FALSE
      BY <1>5 DEF Command, Put, CommandStep
    <2>3. {"poll", "close"} \subseteq SessStates
      BY DEF SessStates
    <2> QED
      BY <2>1, <2>2, <2>3, PutKeeps
  <1>6. CASE Get(p)
    <2>1. TablesOK' /\ Others(p)
      BY <1>0, <1>6, SameTables DEF Get
    <2>2. \E next \in {"close", "chat"} : sess' = [sess EXCEPT ![p] = next]
      BY <1>6 DEF Get
    <2>3. IInv'
      BY <1>0, <1>6, <2>1, <2>2, SessionGoes DEF Get, SessStates, SessionTypes
    <2> QED
      BY <1>6, <2>3 DEF Get, tables, SysopFirst
  <1>7. CASE Close(p)
    <2>1. /\ TablesOK' /\ Others(p)
          /\ \A i \in WithPid(p)' : usr'[i].channel = Nowhere
          /\ Channel(chn', SysopChannel) \subseteq Channel(chn, SysopChannel)
      BY <1>0, <1>7, CloseKeeps
    <2>2. IInv'
      BY <1>0, <1>7, <2>1, SessionGoes DEF Close, SessStates, SessionTypes
    <2> QED
      BY <2>1, <2>2 DEF SysopFirst
  <1>8. CASE Gone(p)
    <2>1. TablesOK' /\ Others(p)
      BY <1>0, <1>8, SameTables DEF Gone
    <2>2. IInv'
      BY <1>0, <1>8, <2>1, SessionGoes DEF Gone, SessStates, SessionTypes
    <2> QED
      BY <1>8, <2>2 DEF Gone, tables, SysopFirst
  <1>9. CASE CleanUser(p)
    <2>1. Part(p)
      BY <1>9 DEF CleanUser
    <2>2. /\ TablesOK' /\ Others(p)
          /\ \A i \in WithPid(p)' : usr'[i].channel = Nowhere
          /\ Channel(chn', SysopChannel) \subseteq Channel(chn, SysopChannel)
      BY <1>0, <2>1, PartOut
    <2>3. /\ registered' = registered \ {p} /\ sess[p] = "none"
          /\ who' = [who EXCEPT ![p] = ""]
          /\ sess' = sess /\ up' = up
      BY <1>9 DEF CleanUser
    <2>4. SessionTypes'
      BY <1>0, <2>3 DEF SessionTypes
    <2>5. Sessions'
      BY <1>0, <2>3 DEF IInv, SessionTypes, Sessions
    <2>6. IdleOut'
      BY <1>0, <2>2, <2>3 DEF IInv, IdleOut, Others
    <2> QED
      BY <2>2, <2>4, <2>5, <2>6 DEF IInv, SysopFirst
  <1>10. CASE Refused(p)
    <2>1. TablesOK' /\ Others(p)
      BY <1>0, <1>10, SameTables DEF Refused
    <2>2. /\ \E next \in {"join", "poll", "close"} : sess' = [sess EXCEPT ![p] = next]
          /\ sess[p] # "none"
      BY <1>10 DEF Refused
    <2>3. IInv'
      BY <1>0, <1>10, <2>1, <2>2, SessionGoes DEF Refused, SessStates, SessionTypes
    <2> QED
      BY <1>10, <2>3 DEF Refused, tables, SysopFirst
  <1>11. ASSUME NEW forced \in BOOLEAN, RefusedConnect(p, forced)
         PROVE  IInv' /\ SysopFirst
    <2>1. TablesOK' /\ Others(p)
      BY <1>0, <1>11, SameTables DEF RefusedConnect
    <2>2. /\ NextStep(p, forced) \in SessStates /\ NextStep(p, forced) # "bbs"
          /\ sess' = [sess EXCEPT ![p] = NextStep(p, forced)]
          /\ sess[p] # "none"
          /\ registered' = registered /\ who' = who /\ up' = up
      BY <1>11 DEF RefusedConnect, NextStep, SessStates
    <2> HIDE DEF NextStep
    <2>3. IInv'
      BY <1>0, <2>1, <2>2, SessionGoes DEF SessionTypes
    <2> QED
      BY <1>11, <2>3 DEF RefusedConnect, tables, SysopFirst
  <1> QED
    BY <1>1, <1>2, <1>3, <1>4, <1>5, <1>6, <1>7, <1>8, <1>9, <1>10, <1>11

-----------------------------------------------------------------------------
(* What is proved *)

\* The invariant holds in every behaviour of the chat server.
THEOREM IInvHolds == Spec => []IInv
  <1>1. IInv /\ UNCHANGED vars => IInv'
    <2> SUFFICES ASSUME IInv, UNCHANGED vars PROVE IInv'
      OBVIOUS
    <2>1. UNCHANGED tables /\ UNCHANGED <<registered, sess, who, up>>
      BY DEF vars
    <2>2. TablesOK' /\ \A q \in Pids : WithPid(q)' = WithPid(q)
      BY <2>1, SameTables DEF IInv
    <2>3. SessionTypes' /\ Sessions'
      BY <2>1 DEF IInv, SessionTypes, Sessions
    <2>4. IdleOut'
      BY <2>1, <2>2 DEF IInv, IdleOut, tables
    <2> QED
      BY <2>2, <2>3, <2>4 DEF IInv
  <1> QED
    BY <1>1, Initially, StepKeeps, PTL DEF Spec

\* Types, and that a session which has vanished and was cleaned up is in no
\* channel, although its entry stays (taskchat.c:351).
THEOREM InvHolds == Spec => []Inv
  <1>1. IInv => Inv
    <2> SUFFICES ASSUME IInv PROVE Inv
      OBVIOUS
    <2> USE DEF IInv, TablesOK
    <2>1. TypeOK
      BY DEF TypeOK, SessionTypes, ChnTable
    <2>2. GoneIsOut
      BY DEF GoneIsOut, OurUsers, IdleOut, WithPid, Nowhere
    <2> QED
      BY <2>1, <2>2 DEF Inv
  <1> QED
    BY <1>1, IInvHolds, PTL

\* Every channel of a name that nothing else is cut to has one entry, whose
\* count is that of the users in it, and has none when nobody is in it
\* (taskibc.c:289, taskchat.c:202).
THEOREM CountsAgree == Spec => []CountsExact
  <1>1. IInv => CountsExact
    <2> SUFFICES ASSUME IInv, NEW c \in InTable, \A d \in Channels : Cut[d] = c => d = c
                 PROVE  /\ Cardinality(Channel(chn, c)) <= 1
                        /\ \A j \in Channel(chn, c) : chn[j].users = Cardinality(Members(usr, c))
                        /\ (Channel(chn, c) = {}) <=> (Members(usr, c) = {})
      BY DEF CountsExact
    <2> USE DEF IInv, TablesOK
    <2>1. PICK home \in [UsrSlots -> 0..MaxChn] : Home(Rooms, chn, home)
      BY DEF Housed
    <2>2. \A i \in UsrSlots : Rooms[i] = usr[i].channel
      BY DEF Rooms
    <2>3. c # Nowhere
      BY Empty
    <2>4. \A i \in Members(usr, c) : home[i] \in Channel(chn, c)
      BY <2>1, <2>2, <2>3, SlotNumbers DEF Members, Users, Home, Channel
    <2>5. \A j, k \in Channel(chn, c) : j = k
      BY DEF OneEntry
    <2>6. ASSUME NEW j \in Channel(chn, c)
          PROVE  /\ Members(usr, c) = At(home, j)
                 /\ chn[j].users = Cardinality(Members(usr, c))
                 /\ Members(usr, c) # {}
      <3>1. j \in ChnSlots /\ j # 0 /\ chn[j].name = c
        BY SlotNumbers DEF Channel
      <3>2. \A i \in At(home, j) : i \in UsrSlots /\ usr[i].channel = c
        BY <2>1, <2>2, <3>1 DEF At, Home
      <3>3. At(home, j) \subseteq Members(usr, c)
        BY <2>3, <3>2, UsrFields DEF Members
      <3>4. Members(usr, c) \subseteq At(home, j)
        BY <2>4, <2>5 DEF At, Members, Users
      <3>5. Members(usr, c) = At(home, j)
        BY <3>3, <3>4
      <3>6. chn[j] # NoChn
        BY <2>3, <3>1, Empty
      <3>7. Cardinality(At(home, j)) > 0 /\ chn[j].users = Cardinality(At(home, j))
        BY <2>1, <3>1, <3>6 DEF Home
      <3>8. At(home, j) # {}
        <4>1. Cardinality({}) = 0
          BY FS_EmptySet
        <4> QED
          BY <3>7, <4>1
      <3> QED
        BY <3>5, <3>7, <3>8
    <2>7. Cardinality(Channel(chn, c)) <= 1
      <3>1. CASE Channel(chn, c) = {}
        BY <3>1, FS_EmptySet
      <3>2. CASE Channel(chn, c) # {}
        <4>1. PICK j \in Channel(chn, c) : Channel(chn, c) = {j}
          BY <2>5, <3>2
        <4>2. Cardinality({j}) = 1
          BY FS_Singleton
        <4> QED
          BY <4>1, <4>2
      <3> QED
        BY <3>1, <3>2
    <2> QED
      BY <2>4, <2>6, <2>7
  <1> QED
    BY <1>1, IInvHolds, PTL

\* The users in the channels of a name have a seat each in its entries, and every
\* seat is taken (taskibc.c:289, taskchat.c:202).
THEOREM SeatsTaken == Spec => []CountsAddUp
  <1>1. IInv => CountsAddUp
    <2> SUFFICES ASSUME IInv, NEW c \in InTable
                 PROVE  Cardinality(Seats(c)) = Cardinality(Members(usr, c))
      BY DEF CountsAddUp
    <2> USE DEF IInv, TablesOK
    <2> DEFINE M == Members(usr, c)
    <2>1. PICK home \in [UsrSlots -> 0..MaxChn] : Home(Rooms, chn, home)
      BY DEF Housed
    <2>2. \A i \in UsrSlots : Rooms[i] = usr[i].channel
      BY DEF Rooms
    <2>3. c # Nowhere
      BY Empty
    <2>4. \A i \in M : home[i] \in Channel(chn, c) /\ i \in At(home, home[i])
      BY <2>1, <2>2, <2>3, SlotNumbers DEF Members, Users, Home, Channel, At
    <2>5. ASSUME NEW j \in Channel(chn, c)
          PROVE  /\ At(home, j) \subseteq M
                 /\ Bijection(At(home, j), 1..chn[j].users) # {}
      <3>1. j \in ChnSlots /\ j # 0 /\ chn[j].name = c
        BY SlotNumbers DEF Channel
      <3>2. \A i \in At(home, j) : i \in UsrSlots /\ usr[i].channel = c
        BY <2>1, <2>2, <3>1 DEF At, Home
      <3>3. At(home, j) \subseteq M
        BY <2>3, <3>2, UsrFields DEF Members
      <3>4. IsFiniteSet(At(home, j))
        <4>1. IsFiniteSet(UsrSlots)
          BY FS_Interval, Sizes DEF UsrSlots
        <4> QED
          BY <4>1, FS_Subset DEF At
      <3>5. chn[j].users = Cardinality(At(home, j)) /\ chn[j].users \in Nat
        BY <2>1, <3>1, <3>4, FS_CardinalityType DEF Home
      <3>6. IsFiniteSet(1..chn[j].users) /\ Cardinality(1..chn[j].users) = chn[j].users
        BY <3>5, FS_Interval
      <3>7. ExistsBijection(At(home, j), 1..chn[j].users)
        BY <3>4, <3>5, <3>6, FS_SameCardinalityBij
      <3> QED
        BY <3>3, <3>7 DEF ExistsBijection
    <2> DEFINE seat == [j \in Channel(chn, c) |->
                           CHOOSE f \in Bijection(At(home, j), 1..chn[j].users) : TRUE]
               sits == [i \in M |-> <<home[i], seat[home[i]][i]>>]
    <2>6. ASSUME NEW j \in Channel(chn, c)
          PROVE  /\ \A i \in At(home, j) : seat[j][i] \in 1..chn[j].users
                 /\ \A i, k \in At(home, j) : seat[j][i] = seat[j][k] => i = k
                 /\ \A n \in 1..chn[j].users : \E i \in At(home, j) : seat[j][i] = n
      <3>1. seat[j] \in Bijection(At(home, j), 1..chn[j].users)
        BY <2>5
      <3> QED
        BY <3>1 DEF Bijection, Injection, Surjection, IsInjective
    <2> HIDE DEF seat, M
    <2>7. \A s : s \in Seats(c) <=>
              \E j \in Channel(chn, c) : \E n \in 1..chn[j].users : s = <<j, n>>
      <3>1. \A s : s \in Seats(c) <=>
                \E j \in Channel(chn, c) : s \in {j} \X (1..chn[j].users)
        BY DEF Seats
      <3>2. ASSUME NEW s, NEW j
            PROVE  s \in {j} \X (1..chn[j].users) <=> \E n \in 1..chn[j].users : s = <<j, n>>
        OBVIOUS
      <3> QED
        BY <3>1, <3>2, Zenon
    <2>8. sits \in [M -> Seats(c)]
      BY <2>4, <2>6, <2>7
    <2>9. \A i, k \in M : sits[i] = sits[k] => i = k
      BY <2>4, <2>6
    <2>10. \A s \in Seats(c) : \E i \in M : sits[i] = s
      <3> TAKE s \in Seats(c)
      <3>1. PICK j \in Channel(chn, c) : \E n \in 1..chn[j].users : s = <<j, n>>
        BY <2>7
      <3>2. PICK n \in 1..chn[j].users : s = <<j, n>>
        BY <3>1
      <3>3. PICK i \in At(home, j) : seat[j][i] = n
        BY <2>6
      <3>4. i \in M /\ home[i] = j
        BY <2>5 DEF At
      <3>5. sits[i] = <<j, n>>
        BY <3>3, <3>4
      <3> QED
        BY <3>2, <3>4, <3>5
    <2>11. sits \in Bijection(M, Seats(c))
      <3> HIDE DEF sits
      <3> QED
        BY <2>8, <2>9, <2>10 DEF Bijection, Injection, Surjection, IsInjective
    <2>12. IsFiniteSet(M)
      <3>1. IsFiniteSet(UsrSlots) /\ M \subseteq UsrSlots
        BY FS_Interval, Sizes DEF UsrSlots, M, Members, Users
      <3> QED
        BY <3>1, FS_Subset
    <2>13. ExistsBijection(M, Seats(c))
      BY <2>11 DEF ExistsBijection
    <2> QED
      BY <2>12, <2>13, FS_Bijection DEF M
  <1> QED
    BY <1>1, IInvHolds, PTL

\* Nobody is registered twice, and the number of users that this server shows
\* is the number of its entries (taskibc.c:235-338).
THEOREM UsersAgree == Spec => []UsersCounted
  <1>1. IInv => UsersCounted
    BY DEF IInv, TablesOK
  <1> QED
    BY <1>1, IInvHolds, PTL

\* Whoever makes the sysop's channel is a sysop (taskchat.c:231-238).
THEOREM SysopCreates == Spec => OnlySysopCreates
  <1>1. IInv /\ [Next]_vars => [SysopFirst]_vars
    BY StepKeeps
  <1>2. [SysopFirst]_vars =>
            [Channel(chn, SysopChannel) = {} /\ Channel(chn, SysopChannel)' # {} =>
                \E i \in Members(usr, SysopChannel)' : usr'[i].sysop]_vars
    BY DEF SysopFirst
  <1> QED
    BY <1>1, <1>2, IInvHolds, PTL DEF Spec, OnlySysopCreates

-----------------------------------------------------------------------------
(* The ring of lines: numbers and cells *)

\* The lines a user has not got are among those said, and so is what he got last.
Numbers == \A p \in Chatters : inbox[p] \subseteq 1..said /\ lastgot[p] <= said

\* Nothing is for a user who is not connected.
NothingFor == \A p \in Chatters \ Connected : inbox[p] = {}

\* What a user will be given is the newest part of what is for him, even when
\* the head has passed his pointer.
Newest == \A p \in Connected :
    /\ Ahead(p) \subseteq inbox[p]
    /\ \A l \in inbox[p] \ Ahead(p) : \A u \in Ahead(p) : l < u

\* And it is newer than what he was given last.
Newer == \A p \in Connected : \A u \in Ahead(p) : u > lastgot[p]

RingIInv == RingTypeOK /\ Numbers /\ NothingFor /\ Newest /\ Newer /\ Delivered

\* A step to a cell that is at most a turn away
LEMMA StepForward ==
  ASSUME NEW i \in Cells, NEW n \in 0..(MaxMessages + 1)
  PROVE  /\ Advanced(i, n) = IF i + n <= MaxMessages THEN i + n ELSE i + n - (MaxMessages + 1)
         /\ Advanced(i, n) \in Cells
  <1>1. MaxMessages \in Nat /\ MaxMessages > 0 /\ i \in 0..MaxMessages
    BY ChatRingAssumption DEF Cells
  <1>2. \A m \in Nat : m > 0 => \A x \in 0..(m - 1) : x % m = x
    OBVIOUS
  <1>3. \A m \in Nat : m > 0 => \A x \in m..(2 * m - 1) : x % m = x - m
    OBVIOUS
  <1>4. CASE i + n <= MaxMessages
    <2>1. (i + n) % (MaxMessages + 1) = i + n
      BY <1>1, <1>2, <1>4
    <2> QED
      BY <1>1, <1>4, <2>1 DEF Advanced, Cells
  <1>5. CASE i + n > MaxMessages
    <2>1. i + n \in (MaxMessages + 1)..(2 * (MaxMessages + 1) - 1)
      BY <1>1, <1>5
    <2>2. (i + n) % (MaxMessages + 1) = i + n - (MaxMessages + 1)
      BY <1>1, <1>3, <2>1
    <2> QED
      BY <1>1, <1>5, <2>2 DEF Advanced, Cells
  <1> QED
    BY <1>1, <1>4, <1>5

LEMMA StepsForward ==
  ASSUME NEW i \in Cells, NEW n \in Nat
  PROVE  Advanced(i, n) \in Cells
  <1>1. MaxMessages \in Nat /\ i \in Nat
    BY ChatRingAssumption DEF Cells
  <1>2. \A m \in Nat : m > 0 => \A x \in Nat : x % m \in 0..(m - 1)
    OBVIOUS
  <1>3. (i + n) % (MaxMessages + 1) \in 0..MaxMessages
    BY <1>1, <1>2
  <1> QED
    BY <1>3 DEF Advanced, Cells

\* How far one cell is behind another.
Behind(h, i) == (h - i) % (MaxMessages + 1)

LEMMA Behinds ==
  ASSUME NEW h \in Cells, NEW i \in Cells
  PROVE  Behind(h, i) = IF h >= i THEN h - i ELSE h - i + MaxMessages + 1
  <1>1. MaxMessages \in Nat /\ h \in 0..MaxMessages /\ i \in 0..MaxMessages
    BY ChatRingAssumption DEF Cells
  <1>2. \A m \in Nat : m > 0 => \A x \in 0..(m - 1) : x % m = x
    OBVIOUS
  <1>3. \A m \in Nat : m > 0 => \A x \in (1 - m)..(-1) : x % m = x + m
    OBVIOUS
  <1>4. CASE h >= i
    BY <1>1, <1>2, <1>4 DEF Behind
  <1>5. CASE h < i
    BY <1>1, <1>3, <1>5 DEF Behind
  <1> QED
    BY <1>1, <1>4, <1>5

\* A set of numbers has a first, and up to a bound a last.
LEMMA LeastAndLast ==
  ASSUME NEW S, S # {}, NEW n \in Nat, S \subseteq 1..n
  PROVE  /\ Min(S) \in S /\ \A j \in S : Min(S) <= j
         /\ Max(S) \in S /\ \A j \in S : Max(S) >= j
  <1>1. \E i \in S : \A j \in S : i =< j
    <2>1. S \subseteq Nat
      OBVIOUS
    <2> QED
      BY <2>1, FirstIn
  <1>2. \E i \in S : \A j \in S : i >= j
    <2> DEFINE R == {n - j : j \in S}
    <2>1. R \subseteq Nat /\ R # {}
      <3>1. \A j \in S : j \in Nat /\ n - j \in Nat
        OBVIOUS
      <3> QED
        BY <3>1
    <2>2. PICK r \in R : \A s \in R : r <= s
      BY <2>1, FirstIn
    <2>3. PICK i \in S : r = n - i
      BY <2>2
    <2>4. \A j \in S : i >= j
      <3> TAKE j \in S
      <3>1. n - j \in R /\ j \in Nat /\ i \in Nat
        OBVIOUS
      <3> QED
        BY <2>2, <2>3, <3>1
    <2> QED
      BY <2>3, <2>4
  <1> QED
    BY <1>1, <1>2 DEF Min, Max

LEMMA RingTypes ==
  ASSUME RingTypeOK, NEW p \in Connected
  PROVE  /\ p \in Chatters
         /\ pointer[p] \in Cells /\ head \in Cells
         /\ pointer[p] \in 0..MaxMessages /\ head \in 0..MaxMessages
         /\ MaxMessages \in Nat /\ MaxMessages > 0
         /\ said \in 0..MaxLines /\ MaxLines \in Nat
         /\ Lag(p) = IF head >= pointer[p] THEN head - pointer[p]
                     ELSE head - pointer[p] + MaxMessages + 1
         /\ Lag(p) \in 0..MaxMessages
         /\ \A i \in Cells : ring[i].to \in Chatters \cup {Nobody} /\ ring[i].line \in 0..MaxLines
  <1>1. /\ p \in Chatters /\ pointer[p] \in Cells /\ head \in Cells
        /\ said \in 0..MaxLines /\ ring \in [Cells -> Line]
    BY DEF RingTypeOK, Connected
  <1>2. MaxMessages \in Nat /\ MaxMessages > 0 /\ MaxLines \in Nat
    BY ChatRingAssumption
  <1>3. pointer[p] \in 0..MaxMessages /\ head \in 0..MaxMessages
    BY <1>1 DEF Cells
  <1>4. Lag(p) = IF head >= pointer[p] THEN head - pointer[p]
                 ELSE head - pointer[p] + MaxMessages + 1
    BY <1>1, Behinds DEF Lag, Behind
  <1>5. \A i \in Cells : ring[i].to \in Chatters \cup {Nobody} /\ ring[i].line \in 0..MaxLines
    BY <1>1 DEF Line
  <1> QED
    BY <1>1, <1>2, <1>3, <1>4, <1>5

-----------------------------------------------------------------------------
(* The ring of lines: a line is said *)

\* The cells a line is written to, one for each user unless it goes round, and
\* whom the line in a cell is for.
LEMMA Written ==
  ASSUME RingTypeOK, NEW S, IsFiniteSet(S), NEW users \in Orders(S), Say(S, users), NEW i \in Cells
  PROVE  /\ Cardinality(S) \in Nat
         /\ Writes(i, Cardinality(S)) = {} => ring'[i] = ring[i]
         /\ Writes(i, Cardinality(S)) # {} =>
                /\ ring'[i].line = said + 1
                /\ \E k \in 1..Cardinality(S) :
                       /\ Advanced(head, k) = i /\ ring'[i].to = users[k]
                       /\ \A j \in 1..Cardinality(S) : Advanced(head, j) = i => j <= k
  <1> DEFINE n == Cardinality(S)
             W == Writes(i, n)
  <1>1. n \in Nat
    BY FS_CardinalityType
  <1>2. ring' = Stored(users, n, said + 1)
    BY DEF Say
  <1>3. ring'[i] = IF W = {} THEN ring[i] ELSE [to |-> users[Max(W)], line |-> said + 1]
    BY <1>2 DEF Stored
  <1>4. W \subseteq 1..n
    BY DEF Writes
  <1>5. ASSUME W # {}
        PROVE  Max(W) \in W /\ \A j \in W : Max(W) >= j
    <2> HIDE DEF n, W
    <2> QED
      BY <1>1, <1>4, <1>5, LeastAndLast
  <1>6. ASSUME W # {}
        PROVE  \E k \in 1..n : /\ Advanced(head, k) = i /\ ring'[i].to = users[k]
                               /\ \A j \in 1..n : Advanced(head, j) = i => j <= k
    <2>1. PICK k \in 1..n : k = Max(W) /\ k \in W /\ \A j \in W : k >= j
      BY <1>4, <1>5, <1>6
    <2>2. Advanced(head, k) = i /\ ring'[i].to = users[k]
      BY <1>3, <1>6, <2>1 DEF Writes
    <2>3. \A j \in 1..n : Advanced(head, j) = i => j \in W
      BY DEF Writes
    <2>4. \A j \in 1..n : Advanced(head, j) = i => j <= k
      BY <2>1, <2>3
    <2> QED
      BY <2>2, <2>4
  <1>7. W # {} => ring'[i].line = said + 1
    BY <1>3
  <1> QED
    BY <1>1, <1>3, <1>6, <1>7

\* Users have one place each in the table.
LEMMA OnePlace ==
  ASSUME NEW S, NEW users \in Orders(S)
  PROVE  /\ \A j, k \in 1..Cardinality(S) : users[j] = users[k] => j = k
         /\ \A j \in 1..Cardinality(S) : users[j] \in S
         /\ \A p \in S : \E j \in 1..Cardinality(S) : users[j] = p
  BY DEF Orders, Bijection, Injection, Surjection, IsInjective

\* A line that does not reach the pointer of p goes behind what waits for p.
LEMMA SayBehind ==
  ASSUME RingIInv, NEW S, S \subseteq Connected, IsFiniteSet(S), NEW users \in Orders(S),
         Say(S, users), NEW p \in Connected, Lag(p) + Cardinality(S) <= MaxMessages
  PROVE  /\ Ahead(p)' = IF p \in S THEN Ahead(p) \cup {said + 1} ELSE Ahead(p)
         /\ (\A j, k \in ForMe(p) : j < k => CellOf(p, j).line < CellOf(p, k).line)'
  <1> DEFINE n == Cardinality(S)
             L == Lag(p)
  <1>1. RingTypeOK
    BY DEF RingIInv
  <1>2. /\ pointer[p] \in Cells /\ head \in Cells
        /\ pointer[p] \in 0..MaxMessages /\ head \in 0..MaxMessages
        /\ MaxMessages \in Nat /\ MaxMessages > 0 /\ said \in Nat
        /\ L = IF head >= pointer[p] THEN head - pointer[p]
               ELSE head - pointer[p] + MaxMessages + 1
        /\ L \in 0..MaxMessages
        /\ p \in Chatters
    BY <1>1, RingTypes
  <1>3. n \in Nat
    BY FS_CardinalityType
  <1>4. L + n <= MaxMessages
    OBVIOUS
  <1>5. pointer' = pointer /\ head' = Advanced(head, n)
    BY DEF Say
  <1>6. CellOf(p, 0)' = CellOf(p, 0)' /\ \A k : CellOf(p, k)' = ring'[Advanced(pointer[p], k)]
    BY <1>5 DEF CellOf, Advanced
  <1>7. Lag(p)' = Behind(head', pointer[p])
    BY <1>5 DEF Lag, Behind
  <1> HIDE DEF n, L
  <1>8. Lag(p)' = L + n
    <2>1. /\ head' = IF head + n <= MaxMessages THEN head + n ELSE head + n - (MaxMessages + 1)
          /\ head' \in Cells
      BY <1>2, <1>3, <1>4, <1>5, StepForward
    <2>2. Lag(p)' = IF head' >= pointer[p] THEN head' - pointer[p]
                    ELSE head' - pointer[p] + MaxMessages + 1
      BY <1>2, <1>7, <2>1, Behinds
    <2> QED
      BY <1>2, <1>3, <1>4, <2>1, <2>2
  <1>9. \A k \in 0..MaxMessages :
            /\ Advanced(pointer[p], k) = IF pointer[p] + k <= MaxMessages THEN pointer[p] + k
                                         ELSE pointer[p] + k - (MaxMessages + 1)
            /\ Advanced(pointer[p], k) \in Cells
            /\ Advanced(head, k) = IF head + k <= MaxMessages THEN head + k
                                   ELSE head + k - (MaxMessages + 1)
    BY <1>2, StepForward
  <1>10. \A k \in 1..L : CellOf(p, k)' = CellOf(p, k)
    <2> TAKE k \in 1..L
    <2> DEFINE c == Advanced(pointer[p], k)
    <2>1. k \in 0..MaxMessages /\ c \in Cells
      BY <1>2, <1>9
    <2>2. \A j \in 1..n : Advanced(head, j) # c
      <3> TAKE j \in 1..n
      <3>1. j \in 0..MaxMessages
        BY <1>2, <1>3, <1>4
      <3>2. k <= L /\ L + j <= MaxMessages /\ k \in 1..MaxMessages /\ j \in 1..MaxMessages
        BY <1>2, <1>3, <1>4
      <3> QED
        BY <1>2, <1>9, <2>1, <3>1, <3>2
    <2>3. Writes(c, n) = {}
      BY <2>2 DEF Writes
    <2>4. ring'[c] = ring[c]
      BY <1>1, <2>1, <2>3, Written DEF n
    <2> QED
      BY <1>6, <2>4 DEF CellOf
  <1>11. \A k \in (L + 1)..(L + n) :
             /\ k - L \in 1..n
             /\ CellOf(p, k)'.to = users[k - L] /\ CellOf(p, k)'.line = said + 1
    <2> TAKE k \in (L + 1)..(L + n)
    <2> DEFINE c == Advanced(pointer[p], k)
    <2>1. k \in 0..MaxMessages /\ c \in Cells /\ k - L \in 1..n /\ k - L \in 0..MaxMessages
      BY <1>2, <1>3, <1>4, <1>9
    <2>2. Advanced(head, k - L) = c
      BY <1>2, <1>9, <2>1
    <2>3. \A j \in 1..n : Advanced(head, j) = c => j = k - L
      <3> TAKE j \in 1..n
      <3> DEFINE m == k - L
      <3>1. /\ j \in 0..MaxMessages /\ m \in 0..MaxMessages
            /\ Advanced(head, m) = c
        BY <1>2, <1>3, <1>4, <2>1, <2>2
      <3> HIDE DEF c, m
      <3>2. Advanced(head, j) = c => j = m
        BY <1>2, <1>9, <3>1
      <3> QED
        BY <3>2 DEF m
    <2>4. Writes(c, n) # {}
      BY <2>1, <2>2 DEF Writes
    <2>5. /\ ring'[c].line = said + 1
          /\ \E j \in 1..n : Advanced(head, j) = c /\ ring'[c].to = users[j]
      BY <1>1, <2>1, <2>4, Written DEF n
    <2> QED
      BY <1>6, <2>1, <2>3, <2>5
  <1>12. ForMe(p)' = {k \in 1..(L + n) : CellOf(p, k)'.to = p}
    BY <1>8 DEF ForMe, Unread
  <1>13. ForMe(p) = {k \in 1..L : CellOf(p, k).to = p}
    BY DEF ForMe, Unread, L
  <1>14. \A k \in ForMe(p) : CellOf(p, k).line \in 1..said
    BY <1>2 DEF RingIInv, Numbers, Newest, Ahead
  <1>15. \A j, k \in 1..n : users[j] = users[k] => j = k
    BY OnePlace DEF n
  <1>16. \A j \in 1..n : users[j] \in S
    BY OnePlace DEF n
  <1>17. p \in S => \E j \in 1..n : users[j] = p
    BY OnePlace DEF n
  <1>18. \A k \in 1..(L + n) : k \in 1..L \/ k \in (L + 1)..(L + n)
    BY <1>2, <1>3
  <1>19. \A k \in ForMe(p)' : IF k \in 1..L THEN k \in ForMe(p) /\ CellOf(p, k)'.line = CellOf(p, k).line
                              ELSE /\ k \in (L + 1)..(L + n) /\ users[k - L] = p /\ k - L \in 1..n
                                   /\ CellOf(p, k)'.line = said + 1
    BY <1>10, <1>11, <1>12, <1>13, <1>18
  <1>20. \A u : u \in Ahead(p)' <=> \E k \in ForMe(p)' : u = CellOf(p, k)'.line
    BY DEF Ahead
  <1>21. Ahead(p)' = IF p \in S THEN Ahead(p) \cup {said + 1} ELSE Ahead(p)
    <2>1. \A u \in Ahead(p)' : u \in Ahead(p) \/ (p \in S /\ u = said + 1)
      <3> TAKE u \in Ahead(p)'
      <3>1. PICK k \in ForMe(p)' : u = CellOf(p, k)'.line
        BY <1>20
      <3>2. CASE k \in 1..L
        <4>1. k \in ForMe(p) /\ u = CellOf(p, k).line
          BY <1>19, <3>1, <3>2
        <4>2. u \in {CellOf(p, i).line : i \in ForMe(p)}
          BY <4>1
        <4> QED
          BY <4>2 DEF Ahead
      <3>3. CASE k \notin 1..L
        BY <1>16, <1>19, <3>1, <3>3
      <3> QED
        BY <3>2, <3>3
    <2>2. \A k \in ForMe(p) : k \in ForMe(p)' /\ CellOf(p, k)'.line = CellOf(p, k).line
      <3> TAKE k \in ForMe(p)
      <3>1. k \in 1..L /\ k \in 1..(L + n)
        BY <1>2, <1>3, <1>13
      <3> QED
        BY <1>10, <1>12, <1>13, <3>1
    <2>3. \A u \in Ahead(p) : u \in Ahead(p)'
      BY <1>20, <2>2 DEF Ahead
    <2>4. ASSUME p \in S PROVE said + 1 \in Ahead(p)'
      <3>1. PICK j \in 1..n : users[j] = p
        BY <1>17, <2>4
      <3>2. L + j \in (L + 1)..(L + n) /\ L + j \in 1..(L + n) /\ (L + j) - L = j
        BY <1>2, <1>3
      <3>3. PICK k \in (L + 1)..(L + n) : k \in 1..(L + n) /\ k - L = j
        BY <3>2
      <3>4. k \in ForMe(p)' /\ CellOf(p, k)'.line = said + 1
        BY <1>11, <1>12, <3>1, <3>3
      <3> QED
        BY <1>20, <3>4
    <2> QED
      BY <2>1, <2>3, <2>4
  <1>22. ASSUME NEW j \in ForMe(p)', NEW k \in ForMe(p)', j < k
         PROVE  CellOf(p, j)'.line < CellOf(p, k)'.line
    <2>1. j \in Int /\ k \in Int
      BY <1>12
    <2>2. CASE k \in 1..L
      <3>1. j \in 1..L
        BY <1>2, <1>12, <1>22, <2>1, <2>2
      <3>2. j \in ForMe(p) /\ k \in ForMe(p)
        BY <1>19, <2>2, <3>1
      <3>3. CellOf(p, j).line < CellOf(p, k).line
        BY <1>22, <3>2 DEF RingIInv, Delivered
      <3> QED
        BY <1>19, <2>2, <3>1, <3>3
    <2>3. CASE k \notin 1..L /\ j \in 1..L
      <3>1. CellOf(p, j)'.line \in 1..said /\ CellOf(p, k)'.line = said + 1
        BY <1>14, <1>19, <2>3
      <3> QED
        BY <1>2, <3>1
    <2>4. CASE k \notin 1..L /\ j \notin 1..L
      <3>1. users[j - L] = p /\ users[k - L] = p /\ j - L \in 1..n /\ k - L \in 1..n
        BY <1>19, <2>4
      <3>2. j - L = k - L
        BY <1>15, <3>1
      <3> QED
        BY <1>2, <1>22, <2>1, <3>2
    <2> QED
      BY <2>2, <2>3, <2>4
  <1>23. (\A j, k \in ForMe(p) : j < k => CellOf(p, j).line < CellOf(p, k).line)'
    BY <1>22
  <1> QED
    BY <1>21, <1>23

\* A line that reaches the pointer of p takes the cells of all that waited for p.
LEMMA SayRound ==
  ASSUME RingIInv, NEW S, S \subseteq Connected, IsFiniteSet(S), NEW users \in Orders(S),
         Say(S, users), NEW p \in Connected, Lag(p) + Cardinality(S) > MaxMessages
  PROVE  /\ Ahead(p)' \subseteq (IF p \in S THEN {said + 1} ELSE {})
         /\ (\A j, k \in ForMe(p) : j < k => CellOf(p, j).line < CellOf(p, k).line)'
  <1> DEFINE n == Cardinality(S)
             L == Lag(p)
             M == Lag(p)'
  <1>1. RingTypeOK
    BY DEF RingIInv
  <1>2. /\ pointer[p] \in Cells /\ head \in Cells
        /\ pointer[p] \in 0..MaxMessages /\ head \in 0..MaxMessages
        /\ MaxMessages \in Nat /\ MaxMessages > 0
        /\ L = IF head >= pointer[p] THEN head - pointer[p]
               ELSE head - pointer[p] + MaxMessages + 1
        /\ L \in 0..MaxMessages
    BY <1>1, RingTypes
  <1>3. n \in Nat
    BY FS_CardinalityType
  <1>4. L + n > MaxMessages
    OBVIOUS
  <1>5. pointer' = pointer /\ head' = Advanced(head, n)
    BY DEF Say
  <1>6. \A k : CellOf(p, k)' = ring'[Advanced(pointer[p], k)]
    BY <1>5 DEF CellOf, Advanced
  <1>7. M = Behind(head', pointer[p])
    BY <1>5 DEF Lag, Behind
  <1>8. ForMe(p)' = {k \in 1..M : CellOf(p, k)'.to = p}
    BY DEF ForMe, Unread
  <1> HIDE DEF n, L, M
  <1>9. head' \in Cells /\ head' \in 0..MaxMessages
    BY <1>2, <1>3, <1>5, StepsForward DEF Cells
  <1>10. /\ M = IF head' >= pointer[p] THEN head' - pointer[p]
                ELSE head' - pointer[p] + MaxMessages + 1
         /\ M \in 0..MaxMessages
    BY <1>2, <1>7, <1>9, Behinds
  <1>11. \A k \in 0..(MaxMessages + 1) :
             /\ Advanced(pointer[p], k) = IF pointer[p] + k <= MaxMessages THEN pointer[p] + k
                                          ELSE pointer[p] + k - (MaxMessages + 1)
             /\ Advanced(pointer[p], k) \in Cells
             /\ Advanced(head, k) = IF head + k <= MaxMessages THEN head + k
                                    ELSE head + k - (MaxMessages + 1)
    BY <1>2, StepForward
  <1>12. ASSUME NEW k \in 1..M
         PROVE  \E j \in 1..n : Advanced(head, j) = Advanced(pointer[p], k)
    <2> DEFINE c == Advanced(pointer[p], k)
    <2>1. k \in 1..MaxMessages /\ k \in 0..(MaxMessages + 1) /\ c \in Cells /\ c \in 0..MaxMessages
      BY <1>2, <1>10, <1>11 DEF Cells
    <2>2. c = IF pointer[p] + k <= MaxMessages THEN pointer[p] + k
              ELSE pointer[p] + k - (MaxMessages + 1)
      BY <1>11, <2>1
    <2> HIDE DEF c
    <2>3. CASE n > MaxMessages
      <3> DEFINE d == IF c > head THEN c - head ELSE c - head + MaxMessages + 1
      <3>1. d \in 1..n /\ d \in 0..(MaxMessages + 1)
        BY <1>2, <1>3, <2>1, <2>3
      <3>2. Advanced(head, d) = IF head + d <= MaxMessages THEN head + d
                                ELSE head + d - (MaxMessages + 1)
        <4> HIDE DEF d
        <4> QED
          BY <1>11, <3>1
      <3>3. Advanced(head, d) = c
        BY <1>2, <2>1, <3>2
      <3> HIDE DEF d
      <3> QED
        BY <3>1, <3>3 DEF c
    <2>4. CASE n <= MaxMessages
      <3> DEFINE d == k + (MaxMessages + 1) - L
      <3>1. n \in 0..(MaxMessages + 1)
        BY <1>2, <1>3, <2>4
      <3>2. head' = IF head + n <= MaxMessages THEN head + n ELSE head + n - (MaxMessages + 1)
        BY <1>5, <1>11, <3>1
      <3>3. M = L + n - (MaxMessages + 1)
        BY <1>2, <1>3, <1>4, <1>10, <2>4, <3>2
      <3>4. d \in 1..n /\ d \in 0..(MaxMessages + 1)
        BY <1>2, <1>3, <1>10, <2>1, <2>4, <3>3
      <3>5. Advanced(head, d) = IF head + d <= MaxMessages THEN head + d
                                ELSE head + d - (MaxMessages + 1)
        <4> HIDE DEF d
        <4> QED
          BY <1>11, <3>4
      <3>6. Advanced(head, d) = c
        BY <1>2, <2>1, <2>2, <3>4, <3>5
      <3> HIDE DEF d
      <3> QED
        BY <3>4, <3>6 DEF c
    <2> QED
      BY <1>2, <1>3, <2>3, <2>4
  <1>13. ASSUME NEW k \in 1..M
         PROVE  /\ CellOf(p, k)'.line = said + 1
                /\ \E j \in 1..n : /\ Advanced(head, j) = Advanced(pointer[p], k)
                                   /\ CellOf(p, k)'.to = users[j]
    <2> DEFINE c == Advanced(pointer[p], k)
    <2>1. c \in Cells
      BY <1>2, <1>10, <1>11
    <2>2. Writes(c, n) # {}
      BY <1>12 DEF Writes
    <2> HIDE DEF c
    <2>3. /\ ring'[c].line = said + 1
          /\ \E j \in 1..n : Advanced(head, j) = c /\ ring'[c].to = users[j]
      BY <1>1, <2>1, <2>2, Written DEF n
    <2> QED
      BY <1>6, <2>3 DEF c
  <1>14. \A j, k \in 1..n : users[j] = users[k] => j = k
    BY OnePlace DEF n
  <1>15. \A j \in 1..n : users[j] \in S
    BY OnePlace DEF n
  <1>16. \A k \in ForMe(p)' : p \in S /\ k \in 1..M /\ CellOf(p, k)'.line = said + 1
    BY <1>8, <1>13, <1>15
  <1>17. \A u : u \in Ahead(p)' <=> \E k \in ForMe(p)' : u = CellOf(p, k)'.line
    BY DEF Ahead
  <1>18. Ahead(p)' \subseteq (IF p \in S THEN {said + 1} ELSE {})
    BY <1>16, <1>17
  <1>19. ASSUME NEW j \in ForMe(p)', NEW k \in ForMe(p)' PROVE j = k
    <2>1. j \in 1..M /\ k \in 1..M /\ CellOf(p, j)'.to = p /\ CellOf(p, k)'.to = p
      BY <1>8
    <2>2. PICK a \in 1..n : Advanced(head, a) = Advanced(pointer[p], j) /\ users[a] = p
      BY <1>13, <2>1
    <2>3. PICK b \in 1..n : Advanced(head, b) = Advanced(pointer[p], k) /\ users[b] = p
      BY <1>13, <2>1
    <2>4. Advanced(pointer[p], j) = Advanced(pointer[p], k)
      BY <1>14, <2>2, <2>3
    <2>5. /\ j \in 1..MaxMessages /\ k \in 1..MaxMessages
          /\ j \in 0..(MaxMessages + 1) /\ k \in 0..(MaxMessages + 1)
      BY <1>2, <1>10, <2>1
    <2> QED
      BY <1>2, <1>11, <2>4, <2>5
  <1>20. ASSUME NEW j \in ForMe(p)', NEW k \in ForMe(p)', j < k PROVE FALSE
    <2>1. j = k /\ j \in Int
      BY <1>8, <1>19
    <2> QED
      BY <1>20, <2>1
  <1>21. (\A j, k \in ForMe(p) : j < k => CellOf(p, j).line < CellOf(p, k).line)'
    BY <1>20
  <1> QED
    BY <1>18, <1>21

LEMMA SayRingIInv ==
  ASSUME RingIInv, NEW S, S \subseteq Connected, NEW users \in Orders(S), Say(S, users)
  PROVE  RingIInv'
  <1> DEFINE n == Cardinality(S)
  <1>1. RingTypeOK
    BY DEF RingIInv
  <1>2. IsFiniteSet(S)
    BY ChatRingAssumption, FS_Subset DEF Connected
  <1>3. n \in Nat
    BY <1>2, FS_CardinalityType
  <1>4. /\ head' = Advanced(head, n) /\ pointer' = pointer /\ lastgot' = lastgot
        /\ said' = said + 1 /\ said < MaxLines
        /\ inbox' = [p \in Chatters |-> IF p \in S THEN inbox[p] \cup {said + 1} ELSE inbox[p]]
        /\ passed' = [p \in Chatters |->
                         passed[p] \/ (p \in Connected /\ Lag(p) + n > MaxMessages)]
        /\ ring' = Stored(users, n, said + 1)
    BY DEF Say
  <1>5. said \in Nat /\ MaxLines \in Nat /\ said \in 0..MaxLines /\ said + 1 \in 1..MaxLines
    BY <1>1, <1>4, ChatRingAssumption DEF RingTypeOK
  <1>6. Connected' = Connected
    BY <1>4 DEF Connected
  <1>7. S \subseteq Chatters
    BY DEF Connected
  <1>8. RingTypeOK'
    <2>1. ring' \in [Cells -> Line]
      <3>1. \A i \in Cells : ring'[i] \in Line
        <4> TAKE i \in Cells
        <4>1. CASE Writes(i, n) = {}
          BY <1>1, <1>2, <4>1, Written DEF RingTypeOK
        <4>2. CASE Writes(i, n) # {}
          <5>1. ring'[i] = [to |-> users[Max(Writes(i, n))], line |-> said + 1]
            BY <1>4, <4>2 DEF Stored
          <5>2. ring'[i].to \in S
            BY <1>1, <1>2, <4>2, Written, OnePlace
          <5> QED
            BY <1>5, <1>7, <5>1, <5>2 DEF Line
        <4> QED
          BY <4>1, <4>2
      <3> QED
        BY <1>4, <3>1 DEF Stored
    <2>2. head' \in Cells
      BY <1>1, <1>3, <1>4, StepsForward DEF RingTypeOK
    <2>3. inbox' \in [Chatters -> SUBSET (1..MaxLines)]
      BY <1>1, <1>4, <1>5 DEF RingTypeOK
    <2>4. passed' \in [Chatters -> BOOLEAN]
      <3> HIDE DEF n
      <3> QED
        BY <1>1, <1>4 DEF RingTypeOK
    <2>5. said' \in 0..MaxLines
      BY <1>4, <1>5
    <2> QED
      BY <1>1, <1>4, <2>1, <2>2, <2>3, <2>4, <2>5 DEF RingTypeOK
  <1>9. Numbers'
    <2>1. \A p \in Chatters : inbox[p] \subseteq 1..said /\ lastgot[p] <= said /\ lastgot[p] \in Nat
      BY <1>1 DEF RingIInv, Numbers, RingTypeOK
    <2> QED
      BY <1>4, <1>5, <2>1 DEF Numbers
  <1>10. NothingFor'
    BY <1>4, <1>6 DEF RingIInv, NothingFor
  <1>11. ASSUME NEW p \in Connected
         PROVE  /\ Ahead(p)' \subseteq inbox'[p]
                /\ \A l \in inbox'[p] \ Ahead(p)' : \A u \in Ahead(p)' : l < u
                /\ \A u \in Ahead(p)' : u > lastgot'[p]
                /\ ~passed'[p] => Ahead(p)' = inbox'[p]
                /\ (\A j, k \in ForMe(p) : j < k => CellOf(p, j).line < CellOf(p, k).line)'
    <2>1. /\ p \in Chatters
          /\ inbox'[p] = IF p \in S THEN inbox[p] \cup {said + 1} ELSE inbox[p]
          /\ passed'[p] = (passed[p] \/ Lag(p) + n > MaxMessages)
          /\ lastgot'[p] = lastgot[p]
          /\ inbox[p] \subseteq 1..said /\ lastgot[p] <= said /\ lastgot[p] \in Nat
      BY <1>1, <1>4 DEF Connected, RingIInv, Numbers, RingTypeOK
    <2>2. /\ Ahead(p) \subseteq inbox[p]
          /\ \A l \in inbox[p] \ Ahead(p) : \A u \in Ahead(p) : l < u
          /\ \A u \in Ahead(p) : u > lastgot[p]
          /\ ~passed[p] => Ahead(p) = inbox[p]
      BY DEF RingIInv, Newest, Newer, Delivered
    <2>3. Lag(p) \in Nat /\ MaxMessages \in Nat
      BY <1>1, RingTypes
    <2>6. said + 1 > lastgot[p] /\ \A l \in inbox[p] : l < said + 1
      BY <1>5, <2>1
    <2>4. CASE Lag(p) + n <= MaxMessages
      <3>1. /\ Ahead(p)' = IF p \in S THEN Ahead(p) \cup {said + 1} ELSE Ahead(p)
            /\ (\A j, k \in ForMe(p) : j < k => CellOf(p, j).line < CellOf(p, k).line)'
        BY <1>2, <2>4, SayBehind
      <3> HIDE DEF n
      <3>2. ~(Lag(p) + n > MaxMessages)
        BY <1>3, <2>3, <2>4
      <3>3. Ahead(p)' \subseteq inbox'[p] /\ (~passed'[p] => Ahead(p)' = inbox'[p])
        BY <2>1, <2>2, <3>1, <3>2
      <3>4. \A l \in inbox'[p] \ Ahead(p)' : l \in inbox[p] \ Ahead(p)
        BY <2>1, <2>2, <3>1
      <3>5. \A u \in Ahead(p)' : u \in Ahead(p) \/ u = said + 1
        BY <3>1
      <3>6. \A l \in inbox'[p] \ Ahead(p)' : \A u \in Ahead(p)' : l < u
        BY <2>2, <2>6, <3>4, <3>5
      <3>7. \A u \in Ahead(p)' : u > lastgot'[p]
        BY <2>1, <2>2, <2>6, <3>5
      <3> QED
        BY <3>1, <3>3, <3>6, <3>7
    <2>5. CASE Lag(p) + n > MaxMessages
      <3>1. /\ Ahead(p)' \subseteq (IF p \in S THEN {said + 1} ELSE {})
            /\ (\A j, k \in ForMe(p) : j < k => CellOf(p, j).line < CellOf(p, k).line)'
        BY <1>2, <2>5, SayRound
      <3> HIDE DEF n
      <3>2. \A u \in Ahead(p)' : p \in S /\ u = said + 1
        BY <3>1
      <3>3. passed'[p]
        BY <2>1, <2>5
      <3>4. Ahead(p)' \subseteq inbox'[p]
        BY <2>1, <3>2
      <3>5. \A u \in Ahead(p)' : u > lastgot'[p]
        BY <2>1, <2>6, <3>2
      <3>6. \A l \in inbox'[p] \ Ahead(p)' : \A u \in Ahead(p)' : l < u
        <4> TAKE l \in inbox'[p] \ Ahead(p)'
        <4> TAKE u \in Ahead(p)'
        <4>1. p \in S /\ u = said + 1 /\ l # said + 1
          BY <3>2
        <4>2. l \in inbox[p]
          BY <2>1, <4>1
        <4> QED
          BY <2>6, <4>1, <4>2
      <3> QED
        BY <3>1, <3>3, <3>4, <3>5, <3>6
    <2> HIDE DEF n
    <2> QED
      BY <1>3, <2>3, <2>4, <2>5
  <1>12. Newest' /\ Newer' /\ Delivered'
    BY <1>6, <1>11 DEF Newest, Newer, Delivered
  <1> QED
    BY <1>8, <1>9, <1>10, <1>12 DEF RingIInv

-----------------------------------------------------------------------------
(* The ring of lines: users *)

\* What waits for a user does not depend on the pointers of others.
LEMMA OthersWait ==
  ASSUME NEW q, UNCHANGED <<ring, head>>, pointer'[q] = pointer[q]
  PROVE  /\ ForMe(q)' = ForMe(q) /\ Ahead(q)' = Ahead(q)
         /\ \A k : CellOf(q, k)' = CellOf(q, k)
  <1>1. Lag(q)' = Lag(q) /\ Unread(q)' = Unread(q)
    BY DEF Lag, Unread
  <1>2. \A k : CellOf(q, k)' = CellOf(q, k)
    BY DEF CellOf, Advanced
  <1>3. ForMe(q)' = ForMe(q)
    BY <1>1, <1>2 DEF ForMe
  <1>4. Ahead(q)' = Ahead(q)
    BY <1>2, <1>3 DEF Ahead
  <1> QED
    BY <1>2, <1>3, <1>4

\* A step of p that keeps the types and what is said of p alone.
LEMMA OneUser ==
  ASSUME RingIInv, RingTypeOK', NEW p \in Chatters, UNCHANGED <<ring, head, said>>,
         \A q \in Chatters : q # p => /\ pointer'[q] = pointer[q] /\ inbox'[q] = inbox[q]
                                      /\ passed'[q] = passed[q] /\ lastgot'[q] = lastgot[q],
         inbox'[p] \subseteq 1..said /\ lastgot'[p] <= said,
         p \notin Connected' => inbox'[p] = {},
         p \in Connected' =>
             /\ Ahead(p)' = inbox'[p]
             /\ \A u \in inbox'[p] : u > lastgot'[p]
             /\ (\A j, k \in ForMe(p) : j < k => CellOf(p, j).line < CellOf(p, k).line)'
  PROVE  RingIInv'
  <1>1. \A q \in Chatters : q # p => (q \in Connected' <=> q \in Connected)
    BY DEF Connected
  <1>2. Connected' \subseteq Chatters
    BY DEF Connected
  <1>3. Numbers'
    BY DEF RingIInv, Numbers
  <1>4. NothingFor'
    BY <1>1 DEF RingIInv, NothingFor
  <1>5. ASSUME NEW q \in Connected'
        PROVE  /\ Ahead(q)' \subseteq inbox'[q]
               /\ \A l \in inbox'[q] \ Ahead(q)' : \A u \in Ahead(q)' : l < u
               /\ \A u \in Ahead(q)' : u > lastgot'[q]
               /\ ~passed'[q] => Ahead(q)' = inbox'[q]
               /\ (\A j, k \in ForMe(q) : j < k => CellOf(q, j).line < CellOf(q, k).line)'
    <2>1. CASE q = p
      BY <1>5, <2>1
    <2>2. CASE q # p
      <3>1. /\ q \in Connected /\ q \in Chatters
            /\ pointer'[q] = pointer[q] /\ inbox'[q] = inbox[q]
            /\ passed'[q] = passed[q] /\ lastgot'[q] = lastgot[q]
        BY <1>1, <1>2, <1>5, <2>2
      <3>2. /\ ForMe(q)' = ForMe(q) /\ Ahead(q)' = Ahead(q)
            /\ \A k : CellOf(q, k)' = CellOf(q, k)
        BY <3>1, OthersWait
      <3>3. /\ Ahead(q) \subseteq inbox[q]
            /\ \A l \in inbox[q] \ Ahead(q) : \A u \in Ahead(q) : l < u
            /\ \A u \in Ahead(q) : u > lastgot[q]
            /\ ~passed[q] => Ahead(q) = inbox[q]
            /\ \A j, k \in ForMe(q) : j < k => CellOf(q, j).line < CellOf(q, k).line
        BY <3>1 DEF RingIInv, Newest, Newer, Delivered
      <3>4. (\A j, k \in ForMe(q) : j < k => CellOf(q, j).line < CellOf(q, k).line)'
        BY <3>2, <3>3
      <3> QED
        BY <3>1, <3>2, <3>3, <3>4
    <2> QED
      BY <2>1, <2>2
  <1>6. Newest' /\ Newer' /\ Delivered'
    BY <1>5 DEF Newest, Newer, Delivered
  <1> QED
    BY <1>3, <1>4, <1>6 DEF RingIInv

\* At the head nothing waits.
LEMMA AtHead ==
  ASSUME RingTypeOK, NEW p, UNCHANGED head, pointer'[p] = head
  PROVE  /\ ForMe(p)' = {} /\ Ahead(p)' = {}
         /\ (\A j, k \in ForMe(p) : j < k => CellOf(p, j).line < CellOf(p, k).line)'
  <1>1. head \in Cells /\ MaxMessages \in Nat /\ head \in Nat
    BY ChatRingAssumption DEF RingTypeOK, Cells
  <1>2. Lag(p)' = Behind(head, head)
    BY DEF Lag, Behind
  <1>3. Lag(p)' = 0
    BY <1>1, <1>2, Behinds
  <1>4. ForMe(p)' = {}
    BY <1>3 DEF ForMe, Unread
  <1>5. Ahead(p)' = {}
    BY <1>4 DEF Ahead
  <1> QED
    BY <1>4, <1>5

LEMMA FollowRingIInv ==
  ASSUME RingIInv, NEW p \in Chatters, Follow(p)
  PROVE  RingIInv'
  <1>1. /\ p \notin Connected /\ pointer' = [pointer EXCEPT ![p] = head]
        /\ UNCHANGED <<ring, head, inbox, passed, said, lastgot>>
    BY DEF Follow
  <1>2. RingTypeOK /\ pointer'[p] = head
    BY <1>1 DEF RingIInv, RingTypeOK
  <1>3. RingTypeOK'
    BY <1>1, <1>2 DEF RingTypeOK
  <1>4. inbox'[p] = {}
    BY <1>1 DEF RingIInv, NothingFor
  <1>5. Ahead(p)' = {} /\ (\A j, k \in ForMe(p) : j < k => CellOf(p, j).line < CellOf(p, k).line)'
    BY <1>1, <1>2, AtHead
  <1>6. \A q \in Chatters : q # p => /\ pointer'[q] = pointer[q] /\ inbox'[q] = inbox[q]
                                     /\ passed'[q] = passed[q] /\ lastgot'[q] = lastgot[q]
    BY <1>1, <1>2 DEF RingTypeOK
  <1>7. inbox'[p] \subseteq 1..said /\ lastgot'[p] <= said
    BY <1>1 DEF RingIInv, Numbers
  <1> QED
    BY <1>1, <1>3, <1>4, <1>5, <1>6, <1>7, OneUser

LEMMA LeaveRingIInv ==
  ASSUME RingIInv, NEW p \in Chatters, Leave(p)
  PROVE  RingIInv'
  <1>1. /\ pointer' = [pointer EXCEPT ![p] = -1] /\ inbox' = [inbox EXCEPT ![p] = {}]
        /\ passed' = [passed EXCEPT ![p] = FALSE] /\ lastgot' = [lastgot EXCEPT ![p] = 0]
        /\ UNCHANGED <<ring, head, said>>
    BY DEF Leave
  <1>2. RingTypeOK
    BY DEF RingIInv
  <1>3. pointer'[p] = -1 /\ inbox'[p] = {} /\ lastgot'[p] = 0
    BY <1>1, <1>2 DEF RingTypeOK
  <1>4. RingTypeOK'
    <2>1. 0 \in 0..MaxLines
      BY ChatRingAssumption
    <2> QED
      BY <1>1, <1>2, <2>1 DEF RingTypeOK
  <1>5. p \notin Connected'
    BY <1>3 DEF Connected
  <1>6. \A q \in Chatters : q # p => /\ pointer'[q] = pointer[q] /\ inbox'[q] = inbox[q]
                                     /\ passed'[q] = passed[q] /\ lastgot'[q] = lastgot[q]
    BY <1>1, <1>2 DEF RingTypeOK
  <1>7. inbox'[p] \subseteq 1..said /\ lastgot'[p] <= said
    <2>1. said \in Nat
      BY <1>2, ChatRingAssumption DEF RingTypeOK
    <2> QED
      BY <1>3, <2>1
  <1> QED
    BY <1>1, <1>3, <1>4, <1>5, <1>6, <1>7, OneUser

\* The line a user gets is the oldest of those ahead, and leaves the others.
LEMMA FirstAhead ==
  ASSUME RingIInv, NEW p \in Connected, NEW k \in ForMe(p), \A j \in ForMe(p) : k <= j,
         UNCHANGED <<ring, head>>, pointer'[p] = Advanced(pointer[p], k)
  PROVE  /\ CellOf(p, k).line \in inbox[p]
         /\ CellOf(p, k).line > lastgot[p]
         /\ Ahead(p)' = {l \in inbox[p] : l > CellOf(p, k).line}
         /\ (\A i, j \in ForMe(p) : i < j => CellOf(p, i).line < CellOf(p, j).line)'
  <1> DEFINE L == Lag(p)
             M == Lag(p)'
             P == pointer[p]
             Q == Advanced(P, k)
  <1>1. /\ P \in Cells /\ head \in Cells /\ P \in 0..MaxMessages /\ head \in 0..MaxMessages
        /\ MaxMessages \in Nat /\ MaxMessages > 0
        /\ L = IF head >= P THEN head - P ELSE head - P + MaxMessages + 1
        /\ L \in 0..MaxMessages
    BY RingTypes DEF RingIInv
  <1>2. k \in 1..L
    BY DEF ForMe, Unread
  <1>3. M = Behind(head, Q)
    BY DEF Lag, Behind
  <1>4. ForMe(p)' = {i \in 1..M : CellOf(p, i)'.to = p}
    BY DEF ForMe, Unread
  <1>5. \A i : CellOf(p, i)' = ring[Advanced(Q, i)]
    BY DEF CellOf, Advanced
  <1>6. ForMe(p) = {i \in 1..L : ring[Advanced(P, i)].to = p}
    BY DEF ForMe, Unread, CellOf
  <1>7. \A i : CellOf(p, i) = ring[Advanced(P, i)]
    BY DEF CellOf
  <1> HIDE DEF L, M, P
  <1>8. \A i \in 0..MaxMessages :
            Advanced(P, i) = IF P + i <= MaxMessages THEN P + i ELSE P + i - (MaxMessages + 1)
    BY <1>1, StepForward
  <1>9. Q \in Cells /\ Q = IF P + k <= MaxMessages THEN P + k ELSE P + k - (MaxMessages + 1)
    BY <1>1, <1>2, StepForward
  <1> HIDE DEF Q
  <1>10. \A i \in 0..MaxMessages :
            Advanced(Q, i) = IF Q + i <= MaxMessages THEN Q + i ELSE Q + i - (MaxMessages + 1)
    BY <1>1, <1>9, StepForward
  <1>11. M = L - k
    <2>1. Q \in 0..MaxMessages
      BY <1>9 DEF Cells
    <2>2. M = IF head >= Q THEN head - Q ELSE head - Q + MaxMessages + 1
      BY <1>1, <1>3, <1>9, Behinds
    <2> QED
      BY <1>1, <1>2, <1>9, <2>1, <2>2
  <1>12. \A i \in 1..M : k + i \in 1..L /\ Advanced(Q, i) = Advanced(P, k + i)
    <2> TAKE i \in 1..M
    <2>1. k + i \in 1..L /\ i \in 0..MaxMessages /\ k + i \in 0..MaxMessages
      BY <1>1, <1>2, <1>11
    <2>2. Q \in 0..MaxMessages
      BY <1>9 DEF Cells
    <2> QED
      BY <1>1, <1>2, <1>8, <1>9, <1>10, <2>1, <2>2
  <1>13. \A i \in ForMe(p)' : k + i \in ForMe(p) /\ CellOf(p, i)'.line = CellOf(p, k + i).line
    BY <1>4, <1>5, <1>6, <1>7, <1>12
  <1>14. \A j \in ForMe(p) : j > k => j - k \in ForMe(p)' /\ CellOf(p, j - k)'.line = CellOf(p, j).line
    <2> TAKE j \in ForMe(p)
    <2> HAVE j > k
    <2>1. j \in 1..L /\ ring[Advanced(P, j)].to = p
      BY <1>6
    <2>2. PICK i \in 1..M : i = j - k /\ k + i = j
      BY <1>1, <1>2, <1>11, <2>1
    <2> QED
      BY <1>4, <1>5, <1>7, <1>12, <2>1, <2>2
  <1>15. /\ Ahead(p) \subseteq inbox[p]
         /\ \A l \in inbox[p] \ Ahead(p) : \A u \in Ahead(p) : l < u
         /\ \A u \in Ahead(p) : u > lastgot[p]
         /\ \A i, j \in ForMe(p) : i < j => CellOf(p, i).line < CellOf(p, j).line
    BY DEF RingIInv, Newest, Newer, Delivered
  <1>16. \A i \in ForMe(p) : CellOf(p, i).line \in Ahead(p)
    BY DEF Ahead
  <1>17. /\ \A u \in Ahead(p) : \E i \in ForMe(p) : u = CellOf(p, i).line
         /\ \A u : u \in Ahead(p)' <=> \E i \in ForMe(p)' : u = CellOf(p, i)'.line
    BY DEF Ahead
  <1>18. \A u \in inbox[p] : u \in Int
    BY DEF RingIInv, RingTypeOK, Connected
  <1>19. \A i \in ForMe(p) : i \in Int
    BY <1>6
  <1>20. Ahead(p)' \subseteq {l \in inbox[p] : l > CellOf(p, k).line}
    <2> SUFFICES ASSUME NEW u \in Ahead(p)'
                 PROVE  u \in inbox[p] /\ u > CellOf(p, k).line
      OBVIOUS
    <2>1. PICK i \in ForMe(p)' : u = CellOf(p, i)'.line
      BY <1>17
    <2>2. k + i \in ForMe(p) /\ u = CellOf(p, k + i).line /\ i \in 1..M
      BY <1>4, <1>13, <2>1
    <2>3. k < k + i
      BY <1>2, <2>2
    <2>4. CellOf(p, k).line < u /\ u \in Ahead(p)
      BY <1>15, <1>16, <2>2, <2>3
    <2>5. u \in Int /\ CellOf(p, k).line \in Int
      BY <1>15, <1>16, <1>18, <2>4
    <2> QED
      BY <1>15, <2>4, <2>5
  <1>21. {l \in inbox[p] : l > CellOf(p, k).line} \subseteq Ahead(p)'
    <2> SUFFICES ASSUME NEW l \in inbox[p], l > CellOf(p, k).line
                 PROVE  l \in Ahead(p)'
      OBVIOUS
    <2>1. l \in Int /\ CellOf(p, k).line \in Ahead(p) /\ CellOf(p, k).line \in Int
      BY <1>15, <1>16, <1>18
    <2>2. l \in Ahead(p)
      BY <1>15, <2>1
    <2>3. PICK j \in ForMe(p) : l = CellOf(p, j).line
      BY <1>17, <2>2
    <2>4. j # k /\ k <= j
      BY <2>1, <2>3
    <2>5. j > k
      BY <1>19, <2>4
    <2> QED
      BY <1>14, <1>17, <2>3, <2>5
  <1>22. ASSUME NEW i \in ForMe(p)', NEW j \in ForMe(p)', i < j
         PROVE  CellOf(p, i)'.line < CellOf(p, j)'.line
    <2>1. i \in 1..M /\ j \in 1..M
      BY <1>4
    <2>2. k + i < k + j
      BY <1>2, <1>22, <2>1
    <2> QED
      BY <1>13, <1>15, <2>2
  <1>23. (\A i, j \in ForMe(p) : i < j => CellOf(p, i).line < CellOf(p, j).line)'
    BY <1>22
  <1> QED
    BY <1>15, <1>16, <1>20, <1>21, <1>23

LEMMA GetLineRingIInv ==
  ASSUME RingIInv, NEW p \in Chatters, GetLine(p)
  PROVE  RingIInv' /\ (lastgot'[p] # lastgot[p] => lastgot'[p] > lastgot[p])
  <1>1. /\ p \in Connected /\ passed' = [passed EXCEPT ![p] = FALSE]
        /\ UNCHANGED <<ring, head, said>>
    BY DEF GetLine
  <1>2. RingTypeOK
    BY DEF RingIInv
  <1>3. CASE ForMe(p) = {}
    <2>1. /\ pointer' = [pointer EXCEPT ![p] = head] /\ inbox' = [inbox EXCEPT ![p] = {}]
          /\ lastgot' = lastgot
      BY <1>3 DEF GetLine
    <2>2. pointer'[p] = head /\ inbox'[p] = {}
      BY <1>2, <2>1 DEF RingTypeOK
    <2>3. RingTypeOK'
      BY <1>1, <1>2, <2>1 DEF RingTypeOK
    <2>4. /\ Ahead(p)' = {}
          /\ (\A j, k \in ForMe(p) : j < k => CellOf(p, j).line < CellOf(p, k).line)'
      BY <1>1, <1>2, <2>2, AtHead
    <2>5. \A q \in Chatters : q # p => /\ pointer'[q] = pointer[q] /\ inbox'[q] = inbox[q]
                                       /\ passed'[q] = passed[q] /\ lastgot'[q] = lastgot[q]
      BY <1>1, <1>2, <2>1 DEF RingTypeOK
    <2>6. lastgot'[p] <= said
      BY <2>1 DEF RingIInv, Numbers
    <2>7. RingIInv'
      BY <1>1, <2>2, <2>3, <2>4, <2>5, <2>6, OneUser
    <2> QED
      BY <2>1, <2>7
  <1>4. CASE ForMe(p) # {}
    <2> DEFINE k == Min(ForMe(p))
               line == CellOf(p, k).line
    <2>1. /\ pointer' = [pointer EXCEPT ![p] = Advanced(pointer[p], k)]
          /\ inbox' = [inbox EXCEPT ![p] = {l \in inbox[p] : l > line}]
          /\ lastgot' = [lastgot EXCEPT ![p] = line]
      BY <1>2, <1>4 DEF GetLine, RingTypeOK
    <2>2. k \in ForMe(p) /\ \A j \in ForMe(p) : k <= j
      <3>1. Lag(p) \in Nat /\ ForMe(p) \subseteq 1..Lag(p)
        BY <1>1, <1>2, RingTypes DEF ForMe, Unread
      <3> QED
        BY <1>4, <3>1, LeastAndLast
    <2>3. k \in 1..MaxMessages
      <3>1. Lag(p) \in 0..MaxMessages /\ MaxMessages \in Nat
        BY <1>1, <1>2, RingTypes
      <3> QED
        BY <2>2, <3>1 DEF ForMe, Unread
    <2> HIDE DEF k
    <2>4. pointer'[p] = Advanced(pointer[p], k)
      BY <1>2, <2>1 DEF RingTypeOK
    <2>5. /\ line \in inbox[p] /\ line > lastgot[p]
          /\ Ahead(p)' = {l \in inbox[p] : l > line}
          /\ (\A i, j \in ForMe(p) : i < j => CellOf(p, i).line < CellOf(p, j).line)'
      BY <1>1, <2>2, <2>4, FirstAhead
    <2> HIDE DEF line
    <2>6. inbox'[p] = {l \in inbox[p] : l > line} /\ lastgot'[p] = line
      BY <1>2, <2>1 DEF RingTypeOK
    <2>7. line \in 1..said /\ inbox[p] \subseteq 1..said /\ inbox[p] \subseteq 1..MaxLines
          /\ said \in Nat /\ MaxLines \in Nat
      BY <1>2, <2>5, ChatRingAssumption DEF RingIInv, Numbers, RingTypeOK
    <2>8. RingTypeOK'
      <3>1. Advanced(pointer[p], k) \in Cells
        <4>1. pointer[p] \in Cells /\ k \in Nat
          BY <1>1, <1>2, <2>3, RingTypes
        <4> QED
          BY <4>1, StepsForward
      <3>2. line \in 0..MaxLines /\ {l \in inbox[p] : l > line} \subseteq 1..MaxLines
        BY <2>5, <2>7
      <3> QED
        BY <1>1, <1>2, <2>1, <3>1, <3>2 DEF RingTypeOK
    <2>9. \A q \in Chatters : q # p => /\ pointer'[q] = pointer[q] /\ inbox'[q] = inbox[q]
                                       /\ passed'[q] = passed[q] /\ lastgot'[q] = lastgot[q]
      BY <1>1, <1>2, <2>1 DEF RingTypeOK
    <2>10. inbox'[p] \subseteq 1..said /\ lastgot'[p] <= said /\ \A u \in inbox'[p] : u > lastgot'[p]
      BY <2>6, <2>7
    <2>11. p \in Connected'
      <3>1. pointer'[p] \in Cells
        BY <1>1, <1>2, <2>3, <2>4, RingTypes, StepsForward
      <3>2. pointer'[p] # -1
        BY <3>1, ChatRingAssumption DEF Cells
      <3> QED
        BY <3>2 DEF Connected
    <2>12. RingIInv'
      BY <1>1, <2>5, <2>6, <2>8, <2>9, <2>10, <2>11, OneUser
    <2> QED
      BY <2>5, <2>6, <2>12
  <1> QED
    BY <1>3, <1>4

-----------------------------------------------------------------------------
(* The ring of lines: what holds of every behaviour *)

LEMMA RingInitIInv == RingInit => RingIInv
  <1> SUFFICES ASSUME RingInit PROVE RingIInv
    OBVIOUS
  <1>1. Connected = {}
    BY DEF RingInit, Connected
  <1>2. 0 \in Cells /\ 0 \in 0..MaxLines
    BY ChatRingAssumption DEF Cells
  <1>3. RingTypeOK
    BY <1>2 DEF RingInit, RingTypeOK, Line
  <1>4. Numbers
    BY DEF RingInit, Numbers
  <1> QED
    BY <1>1, <1>3, <1>4 DEF RingInit, RingIInv, NothingFor, Newest, Newer, Delivered

LEMMA RingNextIInv ==
  RingIInv /\ [RingNext]_ringVars =>
      /\ RingIInv'
      /\ [\A p \in Chatters : lastgot'[p] # lastgot[p] =>
              lastgot'[p] = 0 \/ lastgot'[p] > lastgot[p]]_ringVars
  <1> SUFFICES ASSUME RingIInv, [RingNext]_ringVars
               PROVE  /\ RingIInv'
                      /\ \A p \in Chatters : lastgot'[p] # lastgot[p] =>
                             lastgot'[p] = 0 \/ lastgot'[p] > lastgot[p]
    OBVIOUS
  <1>1. ASSUME NEW S \in SUBSET Connected, NEW users \in Orders(S), Say(S, users)
        PROVE  RingIInv' /\ lastgot' = lastgot
    BY <1>1, SayRingIInv DEF Say
  <1>2. ASSUME NEW p \in Chatters, Follow(p)
        PROVE  RingIInv' /\ lastgot' = lastgot
    BY <1>2, FollowRingIInv DEF Follow
  <1>3. ASSUME NEW p \in Chatters, Leave(p)
        PROVE  /\ RingIInv'
               /\ \A q \in Chatters : lastgot'[q] # lastgot[q] => lastgot'[q] = 0
    BY <1>3, LeaveRingIInv DEF Leave, RingIInv, RingTypeOK
  <1>4. ASSUME NEW p \in Chatters, GetLine(p)
        PROVE  /\ RingIInv'
               /\ \A q \in Chatters : lastgot'[q] # lastgot[q] => lastgot'[q] > lastgot[q]
    <2>1. RingIInv' /\ (lastgot'[p] # lastgot[p] => lastgot'[p] > lastgot[p])
      BY <1>4, GetLineRingIInv
    <2>2. \A q \in Chatters : q # p => lastgot'[q] = lastgot[q]
      BY <1>4 DEF GetLine, RingIInv, RingTypeOK
    <2> QED
      BY <2>1, <2>2
  <1>5. CASE UNCHANGED ringVars
    <2>1. /\ UNCHANGED <<ring, head, pointer, inbox, passed, said, lastgot>>
          /\ Connected' = Connected
      BY <1>5 DEF ringVars, Connected
    <2>2. \A p : /\ ForMe(p)' = ForMe(p) /\ Ahead(p)' = Ahead(p)
                 /\ \A k : CellOf(p, k)' = CellOf(p, k)
      BY <2>1, OthersWait
    <2>3. RingTypeOK' /\ Numbers' /\ NothingFor'
      BY <2>1 DEF RingIInv, RingTypeOK, Numbers, NothingFor
    <2>4. Newest' /\ Newer' /\ Delivered'
      BY <2>1, <2>2 DEF RingIInv, Newest, Newer, Delivered
    <2> QED
      BY <2>1, <2>3, <2>4 DEF RingIInv
  <1> QED
    BY <1>1, <1>2, <1>3, <1>4, <1>5 DEF RingNext

THEOREM RingIInvHolds == RingSpec => []RingIInv
  BY RingInitIInv, RingNextIInv, PTL DEF RingSpec

\* For any number of users and of lines, in a ring of any size: a user who is not
\* overtaken by the head is given exactly the lines said to him, and all are given
\* theirs in order and once (taskchat.c:361-383, 786-830).
THEOREM RingDelivers == RingSpec => []RingInv
  <1>1. RingIInv => RingInv
    BY DEF RingIInv, RingInv
  <1> QED
    BY <1>1, RingIInvHolds, PTL

\* And nobody, overtaken or not, is given a line again or an older one.
THEOREM RingNeverBack == RingSpec => NeverBack
  BY RingIInvHolds, RingNextIInv, PTL DEF RingSpec, NeverBack
=============================================================================
