--------------------------- MODULE MsgIdHash_proofs ---------------------------
(***************************************************************************)
(* Theorems about MsgIdHash, for any number of messages and ids, any table *)
(* size, any hash function and any width of the stored distance; and about *)
(* the sizes HashSizing gives tables.                                      *)
(***************************************************************************)
EXTENDS MCMsgIdHash, FiniteSetTheorems, SequenceTheorems, WellFoundedInduction, TLAPS

Occupied(h)    == distance[h] # Empty
StoredAt(h, m) == Occupied(h) /\ hashdata[h] = m

(* Every slot an element with id s passed on its way to distance d is      *)
(* taken, so a search does not stop before it.                             *)
Reach(s, d) == \A k \in 0..(d - 1) : Occupied(ProbeSlot(s, k))

SlotInv ==
    \A h \in Slot :
        Occupied(h) =>
            /\ distance[h] <= distmax
            /\ h = ProbeSlot(str[hashdata[h]], distance[h])
            /\ Reach(str[hashdata[h]], distance[h])

CarryInv ==
    phase = "probe" =>
        /\ carry.hash = ProbeSlot(str[carry.idx], carry.dist)
        /\ Reach(str[carry.idx], carry.dist)

(* What is in the table or carried is a message reached so far.            *)
HeldInv ==
    /\ \A h \in Slot : Occupied(h) => hashdata[h] \in Msg
    /\ phase = "probe" => next < NumMsg /\ carry.idx \in Msg
    /\ phase \in {"write", "done"} => next = NumMsg

(* No message is lost: all before next are in the table, and so is next    *)
(* itself while another one is carried in its stead.  It is false from the *)
(* first distance that overflows on.                                       *)
NoneLost ==
    /\ phase \in {"next", "write", "done"} =>
          \A m \in Msg : m < next => \E h \in Slot : StoredAt(h, m)
    /\ phase = "probe" =>
          \A m \in Msg : m <= next => m = carry.idx \/ \E h \in Slot : StoredAt(h, m)

(* And none is there twice.                                                *)
NoneTwice ==
    /\ \A g, h \in Slot : Occupied(g) /\ Occupied(h) /\ hashdata[g] = hashdata[h] => g = h
    /\ phase = "next" => \A h \in Slot : Occupied(h) => hashdata[h] < next
    /\ phase = "probe" => /\ \A h \in Slot : Occupied(h) => hashdata[h] # carry.idx
                          /\ \A h \in Slot : Occupied(h) => hashdata[h] <= next
                          /\ carry.idx <= next

TableInv == HeldInv /\ NoneTwice /\ (NoneLost => SlotInv /\ CarryInv)

(* What has been written for the slots below slot.                         *)
WrittenInv ==
    /\ phase \in {"next", "probe"} => slot = 0
    /\ \A h \in Slot : h < slot =>
          IF Occupied(h)
          THEN /\ midhash[h].offset \in 1..Len(middata)
               /\ midhash[h].idx = hashdata[h]
               /\ middata[midhash[h].offset] = str[hashdata[h]]
               /\ midmeta[hashdata[h]] = midhash[h].offset
          ELSE midhash[h].offset = 0
    /\ \A g, h \in Slot :
          g < slot /\ h < slot /\ Occupied(g) /\ midhash[g].offset = midhash[h].offset => g = h
    /\ \A m \in Msg : midmeta[m] # Unset => \E h \in Slot : h < slot /\ StoredAt(h, m)
    /\ Len(middata) = Cardinality({h \in Slot : h < slot /\ Occupied(h)})
    /\ phase = "done" => slot = HashSize

IInv == TypeOK /\ TableInv /\ WrittenInv
-----------------------------------------------------------------------------
LEMMA ModRange ==
    ASSUME NEW a \in Nat, NEW n \in Nat \ {0}
    PROVE  a % n \in 0..(n - 1)
  OBVIOUS

LEMMA ModUnique ==
    ASSUME NEW q \in Nat, NEW n \in Nat \ {0}, NEW r \in 0..(n - 1)
    PROVE  (n * q + r) % n = r
  OBVIOUS

(* Masking after each increment, as the loops do, is masking once.         *)
LEMMA ModNext ==
    ASSUME NEW a \in Nat, NEW n \in Nat \ {0}
    PROVE  ((a % n) + 1) % n = (a + 1) % n
<1> DEFINE q == a \div n
           r == a % n
<1>1. a = n * q + r /\ q \in Nat /\ r \in 0..(n - 1)
  OBVIOUS
<1> HIDE DEF q, r
<1>2. CASE r + 1 < n
  <2>1. r + 1 \in 0..(n - 1) /\ a + 1 = n * q + (r + 1)
    BY <1>1, <1>2
  <2>2. (r + 1) % n = r + 1
    BY <1>1, <1>2
  <2>3. (a + 1) % n = r + 1
    BY <1>1, <2>1, ModUnique
  <2> QED
    BY <2>2, <2>3 DEF r
<1>3. CASE r + 1 = n
  <2>1. q + 1 \in Nat /\ 0 \in 0..(n - 1) /\ a + 1 = n * (q + 1) + 0
    BY <1>1, <1>3
  <2>2. (a + 1) % n = 0
    BY <2>1, ModUnique
  <2>3. (r + 1) % n = 0
    BY <1>3
  <2> QED
    BY <2>2, <2>3 DEF r
<1> QED
  BY <1>1, <1>2, <1>3

LEMMA SlotNat == Slot \subseteq Nat /\ HashSize \in Nat \ {0} /\ Empty \in Nat \ {0}
  BY HashAssumption DEF Slot

LEMMA ProbeStart ==
    ASSUME NEW s \in Str, home \in [Str -> Slot]
    PROVE  ProbeSlot(s, 0) = home[s]
<1>1. home[s] \in 0..(HashSize - 1)
  BY DEF Slot
<1> QED
  BY <1>1, SlotNat DEF ProbeSlot

LEMMA ProbeStep ==
    ASSUME NEW s \in Str, NEW k \in Nat, home \in [Str -> Slot]
    PROVE  /\ ProbeSlot(s, k) \in Slot
           /\ NextSlot(ProbeSlot(s, k)) = ProbeSlot(s, k + 1)
<1>1. home[s] \in Slot
  OBVIOUS
<1>2. home[s] + k \in Nat /\ home[s] \in Nat /\ home[s] + (k + 1) = (home[s] + k) + 1
  BY <1>1, HashAssumption DEF Slot
<1>3. ProbeSlot(s, k) \in Slot
  <2>1. (home[s] + k) % HashSize \in 0..(HashSize - 1)
    BY <1>2, SlotNat, ModRange
  <2> QED
    BY <2>1 DEF ProbeSlot, Slot
<1>4. NextSlot(ProbeSlot(s, k)) = ProbeSlot(s, k + 1)
  <2>1. (((home[s] + k) % HashSize) + 1) % HashSize = ((home[s] + k) + 1) % HashSize
    BY <1>2, SlotNat, ModNext
  <2> QED
    BY <1>2, <2>1 DEF ProbeSlot, NextSlot
<1> QED
  BY <1>3, <1>4

LEMMA NextInSlot == \A h \in Slot : NextSlot(h) \in Slot
<1> TAKE h \in Slot
<1>1. h + 1 \in Nat
  BY SlotNat
<1>2. (h + 1) % HashSize \in 0..(HashSize - 1)
  BY <1>1, SlotNat, ModRange
<1> QED
  BY <1>2 DEF NextSlot, Slot

(* A set of distances that is not empty has a least member.                *)
LEMMA LeastDistance ==
    ASSUME NEW T \in SUBSET Nat, T # {}
    PROVE  \E k \in T : \A j \in T : ~(j < k)
<1>1. IsWellFoundedOn(OpToRel(<, Nat), Nat)
  BY NatLessThanWellFounded
<1>2. \E k \in T : \A j \in T : ~(<<j, k>> \in OpToRel(<, Nat))
  BY <1>1, WFMin
<1> QED
  BY <1>2 DEF OpToRel
-----------------------------------------------------------------------------
LEMMA InitInv == Init => IInv
<1> SUFFICES ASSUME Init PROVE IInv
  OBVIOUS
<1>1. 0 \in Slot /\ Empty \in Nat \ {0} /\ NumMsg \in Nat /\ HashSize \in Nat \ {0}
  BY HashAssumption DEF Slot
<1>2. TypeOK
  BY <1>1 DEF Init, TypeOK, Phase
<1>3. \A h \in Slot : ~Occupied(h)
  BY DEF Init, Occupied
<1>4. TableInv
  BY <1>3 DEF Init, TableInv, HeldInv, SlotInv, CarryInv, NoneTwice, Msg
<1>5. WrittenInv
  <2>1. {h \in Slot : h < slot /\ Occupied(h)} = {}
    BY <1>3
  <2>2. Len(middata) = Cardinality({h \in Slot : h < slot /\ Occupied(h)})
    BY <2>1, FS_EmptySet DEF Init
  <2> QED
    BY <1>1, <1>3, <2>2, SlotNat DEF Init, WrittenInv
<1> QED
  BY <1>2, <1>4, <1>5 DEF IInv

(* The types that Advance gives what it carries; dist++ does not wrap.     *)
LEMMA AdvanceType ==
    ASSUME TypeOK, NEW d \in 0..(Empty - 1), NEW m \in Msg \cup {-1}, Advance(d, m)
    PROVE  /\ carry' = [hash |-> NextSlot(carry.hash), dist |-> d + 1, idx |-> m]
           /\ carry' \in [hash : Slot, dist : 0..Empty, idx : Msg \cup {-1}]
           /\ phase' = "probe"
<1>1. NextSlot(carry.hash) \in Slot
  BY NextInSlot DEF TypeOK
<1>2. (d + 1) % (Empty + 1) = d + 1 /\ d + 1 \in 0..Empty
  BY SlotNat
<1> QED
  BY <1>1, <1>2 DEF Advance

(* What an iteration carries on has not overflowed: it is no further than  *)
(* what is in a slot.                                                      *)
LEMMA NotYetEmpty ==
    ASSUME TypeOK
    PROVE  /\ Displace => distance[carry.hash] \in 0..(Empty - 1)
           /\ Pass => carry.dist \in 0..(Empty - 1)
<1>1. distance[carry.hash] \in 0..Empty /\ carry.dist \in 0..Empty
  BY DEF TypeOK
<1>2. \A x \in 0..Empty : x # Empty => x \in 0..(Empty - 1)
  BY SlotNat
<1>3. ASSUME Displace PROVE distance[carry.hash] \in 0..(Empty - 1)
  BY <1>1, <1>2, <1>3 DEF Displace
<1>4. ASSUME Pass PROVE carry.dist \in 0..(Empty - 1)
  <2>1. distance[carry.hash] # Empty /\ distance[carry.hash] >= carry.dist
    BY <1>4 DEF Pass
  <2>2. carry.dist # Empty
    BY <1>1, <2>1, SlotNat
  <2> QED
    BY <1>1, <1>2, <2>2
<1> QED
  BY <1>3, <1>4

LEMMA TypeStep == IInv /\ [Next]_vars => TypeOK'
<1> SUFFICES ASSUME IInv, [Next]_vars PROVE TypeOK'
  OBVIOUS
<1>a. TypeOK /\ Empty \in Nat \ {0} /\ NumMsg \in Nat /\ HashSize \in Nat \ {0}
  BY HashAssumption DEF IInv
<1>1. ASSUME NEW m \in Msg, HashStart(m) PROVE TypeOK'
  <2>1. home[str[m]] \in Slot /\ 0 \in 0..Empty
    BY <1>a DEF TypeOK
  <2> QED
    BY <1>1, <1>a, <2>1 DEF HashStart, TypeOK, Phase, input, table, files
<1>2. CASE Place
  <2>1. LongerOf(carry.dist) \in 0..Empty /\ carry.dist \in 0..Empty /\ carry.idx \in Msg
    BY <1>2, <1>a DEF Place, LongerOf, TypeOK, IInv, TableInv, HeldInv
  <2>2. next + 1 \in 0..NumMsg
    BY <1>2, <1>a DEF Place, TypeOK, IInv, TableInv, HeldInv
  <2> QED
    BY <1>2, <1>a, <2>1, <2>2 DEF Place, TypeOK, Phase, input, files
<1>3. CASE Displace
  <2>1. LongerOf(carry.dist) \in 0..Empty /\ carry.dist \in 0..Empty
    BY <1>3, <1>a DEF Displace, LongerOf, TypeOK
  <2>2. distance[carry.hash] \in 0..(Empty - 1) /\ hashdata[carry.hash] \in Msg \cup {-1}
    BY <1>3, <1>a, NotYetEmpty DEF TypeOK
  <2>3. /\ carry' \in [hash : Slot, dist : 0..Empty, idx : Msg \cup {-1}]
        /\ phase' \in Phase
    BY <1>3, <1>a, <2>2, AdvanceType DEF Displace, Phase
  <2> QED
    BY <1>3, <1>a, <2>1, <2>3 DEF Displace, TypeOK, input, files
<1>4. CASE Pass
  <2>1. carry.dist \in 0..(Empty - 1) /\ carry.idx \in Msg \cup {-1}
    BY <1>4, <1>a, NotYetEmpty DEF TypeOK
  <2>2. /\ carry' \in [hash : Slot, dist : 0..Empty, idx : Msg \cup {-1}]
        /\ phase' \in Phase
    BY <1>4, <1>a, <2>1, AdvanceType DEF Pass, Phase
  <2> QED
    BY <1>4, <1>a, <2>2 DEF Pass, TypeOK, input, table, files
<1>5. CASE EndInsert \/ EndWrite
  BY <1>5, <1>a DEF EndInsert, EndWrite, TypeOK, Phase, input, table, files
<1>6. CASE WriteEmpty
  <2>1. slot \in Slot /\ slot + 1 \in 0..HashSize
    BY <1>6, <1>a DEF WriteEmpty, TypeOK, Slot
  <2> QED
    BY <1>6, <1>a, <2>1 DEF WriteEmpty, TypeOK, input, table
<1>7. CASE WriteElement
  <2>1. slot \in Slot /\ slot + 1 \in 0..HashSize
    BY <1>7, <1>a DEF WriteElement, TypeOK, Slot
  <2>2. hashdata[slot] \in Msg
    BY <1>7, <2>1 DEF WriteElement, IInv, TableInv, HeldInv, Occupied
  <2>3. Len(middata) + 1 \in Nat /\ Append(middata, str[hashdata[slot]]) \in Seq(Str)
    BY <1>a, <2>2, LenProperties, AppendProperties DEF TypeOK
  <2> QED
    BY <1>7, <1>a, <2>1, <2>2, <2>3 DEF WriteElement, TypeOK, input, table
<1>8. CASE UNCHANGED vars
  BY <1>8, <1>a DEF vars, TypeOK, input, table, files
<1> QED
  BY <1>1, <1>2, <1>3, <1>4, <1>5, <1>6, <1>7, <1>8 DEF Next
-----------------------------------------------------------------------------
LEMMA ReachNext ==
    ASSUME NEW s, NEW d \in Nat, Reach(s, d), Occupied(ProbeSlot(s, d))
    PROVE  Reach(s, d + 1)
<1> SUFFICES ASSUME NEW k \in 0..((d + 1) - 1) PROVE Occupied(ProbeSlot(s, k))
  BY DEF Reach
<1>1. k \in 0..(d - 1) \/ k = d
  OBVIOUS
<1> QED
  BY <1>1 DEF Reach

LEMMA TableStep == IInv /\ [Next]_vars => TableInv'
<1> SUFFICES ASSUME IInv, [Next]_vars PROVE TableInv'
  OBVIOUS
<1> USE SlotNat
<1>a. /\ str \in [Msg -> Str] /\ home \in [Str -> Slot]
      /\ distance \in [Slot -> 0..Empty] /\ hashdata \in [Slot -> Msg \cup {-1}]
      /\ distmax \in 0..Empty /\ next \in 0..NumMsg
      /\ carry.hash \in Slot /\ carry.dist \in 0..Empty
      /\ Msg \subseteq Nat /\ NumMsg \in Nat
  BY HashAssumption DEF IInv, TypeOK, Msg
<1>b. HeldInv /\ NoneTwice /\ (NoneLost => SlotInv /\ CarryInv)
  BY DEF IInv, TableInv
<1> DEFINE Stores(c, i, d) ==
        /\ Occupied(c)' <=> d # Empty
        /\ \A h \in Slot : h # c =>
              (Occupied(h)' <=> Occupied(h)) /\ hashdata'[h] = hashdata[h]
        /\ hashdata'[c] = i /\ i \in Msg
        /\ \A h \in Slot : Occupied(h)' => hashdata'[h] \in Msg
        /\ \A h \in Slot : StoredAt(h, i)' => h = c
        /\ \A g, h \in Slot :
              Occupied(g)' /\ Occupied(h)' /\ hashdata'[g] = hashdata'[h] => g = h
        /\ NoneLost /\ d # Empty => SlotInv'
(* What storing the carried element i at distance d in its slot c does: it *)
(* is held there unless d is the mark of a free slot, and if it is not and *)
(* nothing was lost before, all can still be reached.                      *)
<1>c. ASSUME NEW c \in Slot, NEW i, NEW d, c = carry.hash, i = carry.idx, d = carry.dist,
             phase = "probe", UNCHANGED input,
             distmax' = LongerOf(carry.dist),
             distance' = [distance EXCEPT ![carry.hash] = carry.dist],
             hashdata' = [hashdata EXCEPT ![carry.hash] = carry.idx]
      PROVE  Stores(c, i, d)
  <2>1. i \in Msg /\ str[i] \in Str /\ d \in 0..Empty
    BY <1>a, <1>b, <1>c DEF HeldInv
  <2>2. /\ Occupied(c)' <=> d # Empty
        /\ distance'[c] = d /\ hashdata'[c] = i
        /\ str' = str /\ home' = home
    BY <1>a, <1>c, <2>1 DEF Occupied, input
  <2>3. \A h \in Slot : h # c =>
            distance'[h] = distance[h] /\ hashdata'[h] = hashdata[h]
    BY <1>a, <1>c
  <2>4. \A h \in Slot : h # c => (Occupied(h)' <=> Occupied(h))
    BY <2>3 DEF Occupied
  <2>5. \A h \in Slot : Occupied(h)' => hashdata'[h] \in Msg
    BY <1>b, <2>1, <2>2, <2>3, <2>4 DEF HeldInv
  <2>6. \A h \in Slot : h # c /\ Occupied(h)' => hashdata'[h] # i /\ Occupied(h)
    BY <1>b, <1>c, <2>3, <2>4 DEF NoneTwice
  <2>7. \A h \in Slot : StoredAt(h, i)' => h = c
    BY <2>6 DEF StoredAt
  <2>8. \A g, h \in Slot :
            Occupied(g)' /\ Occupied(h)' /\ hashdata'[g] = hashdata'[h] => g = h
    BY <1>b, <2>2, <2>3, <2>6 DEF NoneTwice
  <2>9. ASSUME NoneLost, d # Empty PROVE SlotInv'
    <3>1. SlotInv /\ c = ProbeSlot(str[i], d) /\ Reach(str[i], d)
      BY <1>b, <1>c, <2>9 DEF CarryInv
    <3>2. distmax <= distmax' /\ d <= distmax' /\ distmax' \in Int
      BY <1>a, <1>c DEF LongerOf
    <3>3. \A h \in Slot : Occupied(h) => Occupied(h)'
      BY <2>2, <2>4, <2>9
    <3>4. ASSUME NEW q \in Str, NEW e \in 0..Empty, Reach(q, e) PROVE Reach(q, e)'
      <4>1. \A k \in 0..(e - 1) : ProbeSlot(q, k) \in Slot
        BY <1>a, ProbeStep
      <4>2. \A k \in 0..(e - 1) : Occupied(ProbeSlot(q, k))'
        BY <2>2, <3>3, <3>4, <4>1 DEF Reach, Occupied, ProbeSlot
      <4> QED
        BY <4>2 DEF Reach
    <3>5. ASSUME NEW h \in Slot, Occupied(h)'
          PROVE  /\ distance'[h] <= distmax'
                 /\ h = ProbeSlot(str[hashdata[h]], distance[h])'
                 /\ Reach(str[hashdata[h]], distance[h])'
      <4>1. CASE h = c
        <5>1. Reach(str[i], d)'
          <6>1. PICK q \in Str : q = str[i]
            BY <2>1
          <6>2. Reach(q, d)'
            BY <2>1, <3>1, <3>4, <6>1
          <6> QED
            BY <2>2, <6>1, <6>2 DEF Reach, ProbeSlot, Occupied
        <5>2. h = ProbeSlot(str[hashdata[h]], distance[h])'
          BY <2>2, <3>1, <4>1 DEF ProbeSlot
        <5>3. Reach(str[hashdata[h]], distance[h])'
          BY <2>2, <4>1, <5>1 DEF Reach
        <5> QED
          BY <2>2, <3>2, <4>1, <5>2, <5>3
      <4>2. CASE h # c
        <5>1. Occupied(h) /\ hashdata'[h] = hashdata[h] /\ distance'[h] = distance[h]
          BY <2>3, <2>4, <3>5, <4>2
        <5>2. /\ hashdata[h] \in Msg /\ distance[h] <= distmax
              /\ h = ProbeSlot(str[hashdata[h]], distance[h])
              /\ Reach(str[hashdata[h]], distance[h])
          BY <1>b, <3>1, <5>1 DEF SlotInv, HeldInv
        <5>3. PICK q \in Str, e \in 0..Empty : q = str[hashdata[h]] /\ e = distance[h]
          BY <1>a, <5>2
        <5>4. Reach(q, e)'
          BY <3>4, <5>2, <5>3
        <5>5. h = ProbeSlot(str[hashdata[h]], distance[h])'
          BY <2>2, <5>1, <5>2 DEF ProbeSlot
        <5>6. Reach(str[hashdata[h]], distance[h])'
          BY <2>2, <5>1, <5>3, <5>4 DEF Reach
        <5>7. distance'[h] <= distmax'
          BY <1>a, <3>2, <5>1, <5>2
        <5> QED
          BY <5>5, <5>6, <5>7
      <4> QED
        BY <4>1, <4>2
    <3> QED
      BY <3>5 DEF SlotInv
  <2> QED
    BY <2>1, <2>2, <2>3, <2>4, <2>5, <2>7, <2>8, <2>9
<1> HIDE DEF Stores
<1>1. ASSUME NEW m \in Msg, HashStart(m) PROVE TableInv'
  <2>1. UNCHANGED <<str, home, distance, hashdata, distmax, next>>
    BY <1>1 DEF HashStart, input, table
  <2>2. /\ phase = "next" /\ phase' = "probe" /\ m = next /\ next < NumMsg
        /\ carry'.idx = m /\ carry'.dist = 0 /\ carry'.hash = home[str[m]]
    BY <1>1 DEF HashStart
  <2>3. HeldInv'
    BY <1>b, <2>1, <2>2 DEF HeldInv, Occupied
  <2>4. NoneTwice'
    <3>1. \A h \in Slot : Occupied(h) => hashdata[h] < m /\ hashdata[h] \in Nat
      BY <1>a, <1>b, <2>2 DEF NoneTwice, HeldInv
    <3>2. \A h \in Slot : Occupied(h) => hashdata[h] <= m /\ hashdata[h] # m
      BY <1>a, <3>1
    <3> QED
      BY <1>a, <1>b, <2>1, <2>2, <3>2 DEF NoneTwice, Occupied
  <2>5. NoneLost' => NoneLost
    <3>1. ASSUME NoneLost', NEW n \in Msg, n < next PROVE \E h \in Slot : StoredAt(h, n)
      <4>1. n <= next /\ n # m
        BY <1>a, <2>2, <3>1
      <4> QED
        BY <2>1, <2>2, <3>1, <4>1 DEF NoneLost, StoredAt, Occupied
    <3> QED
      BY <2>2, <3>1 DEF NoneLost
  <2>6. SlotInv => SlotInv'
    BY <2>1 DEF SlotInv, Occupied, Reach, ProbeSlot
  <2>7. CarryInv'
    <3>1. str[m] \in Str /\ ProbeSlot(str[m], 0) = home[str[m]]
      BY <1>a, ProbeStart
    <3> QED
      BY <2>1, <2>2, <3>1 DEF CarryInv, Reach, ProbeSlot
  <2> QED
    BY <1>b, <2>3, <2>4, <2>5, <2>6, <2>7 DEF TableInv
<1>2. CASE Place
  <2>0. PICK c \in Slot : c = carry.hash
    BY <1>a
  <2>1. PICK i, d : c = carry.hash /\ i = carry.idx /\ d = carry.dist
    BY <2>0
  <2>2. phase = "probe" /\ phase' = "next" /\ next' = next + 1 /\ UNCHANGED input
        /\ ~Occupied(c)
    BY <1>2, <2>1 DEF Place, Occupied
  <2>3. /\ Occupied(c)' <=> d # Empty
        /\ \A h \in Slot : h # c =>
              (Occupied(h)' <=> Occupied(h)) /\ hashdata'[h] = hashdata[h]
        /\ hashdata'[c] = i /\ i \in Msg
        /\ \A h \in Slot : Occupied(h)' => hashdata'[h] \in Msg
        /\ \A h \in Slot : StoredAt(h, i)' => h = c
        /\ \A g, h \in Slot :
              Occupied(g)' /\ Occupied(h)' /\ hashdata'[g] = hashdata'[h] => g = h
        /\ NoneLost /\ d # Empty => SlotInv'
    <3>1. Stores(c, i, d)
      BY <1>2, <1>c, <2>1, <2>2 DEF Place
    <3> QED
      BY <3>1 DEF Stores
  <2>4. HeldInv'
    BY <2>2, <2>3 DEF HeldInv
  <2>5. NoneTwice'
    <3>1. \A h \in Slot : Occupied(h)' => hashdata'[h] <= next /\ hashdata'[h] \in Nat
      BY <1>a, <1>b, <2>1, <2>2, <2>3 DEF NoneTwice
    <3>2. \A h \in Slot : Occupied(h)' => hashdata'[h] < next'
      BY <1>a, <2>2, <3>1
    <3> QED
      BY <2>2, <2>3, <3>2 DEF NoneTwice
  <2>6. ASSUME NoneLost' PROVE NoneLost /\ d # Empty
    <3>1. ASSUME NEW m \in Msg, m <= next PROVE \E h \in Slot : StoredAt(h, m)'
      <4>1. m < next'
        BY <1>a, <2>2, <3>1
      <4> QED
        BY <2>2, <2>6, <4>1 DEF NoneLost
    <3>2. i <= next
      BY <1>b, <2>1, <2>2 DEF NoneTwice
    <3>3. d # Empty
      BY <2>3, <3>1, <3>2 DEF StoredAt
    <3>4. ASSUME NEW m \in Msg, m <= next PROVE m = i \/ \E h \in Slot : StoredAt(h, m)
      <4>1. PICK h \in Slot : StoredAt(h, m)'
        BY <3>1, <3>4
      <4> QED
        BY <2>3, <4>1 DEF StoredAt
    <3> QED
      BY <2>1, <2>2, <3>3, <3>4 DEF NoneLost
  <2> QED
    BY <2>2, <2>3, <2>4, <2>5, <2>6 DEF TableInv, CarryInv
<1>3. CASE Displace
  <2>0. PICK c \in Slot : c = carry.hash
    BY <1>a
  <2>1. PICK i, d, m, e :
            c = carry.hash /\ i = carry.idx /\ d = carry.dist /\ m = hashdata[c] /\ e = distance[c]
    BY <2>0
  <2>2. /\ phase = "probe" /\ UNCHANGED <<input, next>> /\ Occupied(c) /\ Advance(e, m)
        /\ next < NumMsg /\ e \in 0..(Empty - 1) /\ m \in Msg
    BY <1>3, <1>b, <2>1, NotYetEmpty DEF Displace, Occupied, HeldInv, IInv
  <2>3. /\ Occupied(c)' <=> d # Empty
        /\ \A h \in Slot : h # c =>
              (Occupied(h)' <=> Occupied(h)) /\ hashdata'[h] = hashdata[h]
        /\ hashdata'[c] = i /\ i \in Msg
        /\ \A h \in Slot : Occupied(h)' => hashdata'[h] \in Msg
        /\ \A h \in Slot : StoredAt(h, i)' => h = c
        /\ \A g, h \in Slot :
              Occupied(g)' /\ Occupied(h)' /\ hashdata'[g] = hashdata'[h] => g = h
        /\ NoneLost /\ d # Empty => SlotInv'
    <3>1. Stores(c, i, d)
      BY <1>3, <1>c, <2>1, <2>2 DEF Displace
    <3> QED
      BY <3>1 DEF Stores
  <2>4. /\ phase' = "probe" /\ next' = next /\ str' = str /\ home' = home
        /\ carry'.idx = m /\ carry'.dist = e + 1 /\ carry'.hash = NextSlot(c)
    BY <2>1, <2>2, AdvanceType DEF input, IInv
  <2>5. HeldInv'
    BY <2>2, <2>3, <2>4 DEF HeldInv
  <2>6. i # m
    BY <1>b, <2>1, <2>2 DEF NoneTwice
  <2>7. NoneTwice'
    <3>1. \A h \in Slot : Occupied(h)' => hashdata'[h] <= next
      BY <1>b, <2>1, <2>2, <2>3 DEF NoneTwice
    <3>2. \A h \in Slot : Occupied(h)' => hashdata'[h] # m
      <4>1. \A h \in Slot : h # c /\ Occupied(h) => hashdata[h] # m
        BY <1>b, <2>1, <2>2 DEF NoneTwice
      <4> QED
        BY <2>3, <2>6, <4>1
    <3>3. m <= next
      BY <1>b, <2>1, <2>2 DEF NoneTwice
    <3> QED
      BY <2>3, <2>4, <3>1, <3>2, <3>3 DEF NoneTwice
  <2>8. ASSUME NoneLost' PROVE NoneLost /\ d # Empty
    <3>1. ASSUME NEW n \in Msg, n <= next, n # m PROVE \E h \in Slot : StoredAt(h, n)'
      BY <2>4, <2>8, <3>1 DEF NoneLost
    <3>2. i <= next
      BY <1>b, <2>1, <2>2 DEF NoneTwice
    <3>3. d # Empty
      BY <2>3, <2>6, <3>1, <3>2 DEF StoredAt
    <3>4. ASSUME NEW n \in Msg, n <= next PROVE n = i \/ \E h \in Slot : StoredAt(h, n)
      <4>1. CASE n = m
        BY <2>1, <2>2, <4>1 DEF StoredAt
      <4>2. CASE n # m
        <5>1. PICK h \in Slot : StoredAt(h, n)'
          BY <3>1, <3>4, <4>2
        <5> QED
          BY <2>3, <5>1 DEF StoredAt
      <4> QED
        BY <4>1, <4>2
    <3> QED
      BY <2>1, <2>2, <3>3, <3>4 DEF NoneLost
  <2>9. ASSUME NoneLost, d # Empty PROVE CarryInv'
    <3>0. /\ str[m] \in Str /\ e \in Nat
          /\ c = ProbeSlot(str[m], e) /\ Reach(str[m], e)
      <4>1. SlotInv
        BY <1>b, <2>9
      <4>2. c = ProbeSlot(str[m], e) /\ Reach(str[m], e)
        BY <2>1, <2>2, <4>1 DEF SlotInv
      <4>3. str[m] \in Str /\ e \in Nat
        BY <1>a, <2>2
      <4> QED
        BY <4>2, <4>3
    <3>1. Reach(str[m], e + 1) /\ NextSlot(c) = ProbeSlot(str[m], e + 1)
      BY <1>a, <2>2, <3>0, ReachNext, ProbeStep
    <3>2. \A h \in Slot : Occupied(h) => Occupied(h)'
      BY <2>3, <2>9
    <3>3. \A k \in 0..((e + 1) - 1) : Occupied(ProbeSlot(str[m], k)) /\ ProbeSlot(str[m], k) \in Slot
      BY <1>a, <3>0, <3>1, ProbeStep DEF Reach
    <3>4. \A k \in 0..((e + 1) - 1) : Occupied(ProbeSlot(str[m], k))'
      BY <2>4, <3>2, <3>3 DEF Occupied, ProbeSlot
    <3>5. Reach(str[m], e + 1)'
      BY <3>4 DEF Reach
    <3>6. ProbeSlot(str[m], e + 1)' = ProbeSlot(str[m], e + 1)
      BY <2>4 DEF ProbeSlot
    <3>7. /\ carry'.hash = ProbeSlot(str[carry.idx], carry.dist)'
          /\ Reach(str[carry.idx], carry.dist)'
      BY <2>4, <3>1, <3>5, <3>6 DEF Reach, ProbeSlot
    <3> QED
      BY <3>7 DEF CarryInv
  <2> QED
    BY <2>3, <2>5, <2>7, <2>8, <2>9 DEF TableInv
<1>4. CASE Pass
  <2>1. /\ UNCHANGED <<str, home, distance, hashdata, distmax, next>>
        /\ phase = "probe" /\ Occupied(carry.hash) /\ Advance(carry.dist, carry.idx)
        /\ carry.dist \in 0..(Empty - 1) /\ carry.idx \in Msg
    BY <1>4, <1>b, NotYetEmpty DEF Pass, Occupied, input, table, HeldInv, IInv
  <2>2. /\ phase' = "probe" /\ carry'.idx = carry.idx /\ carry'.dist = carry.dist + 1
        /\ carry'.hash = NextSlot(carry.hash)
    BY <2>1, AdvanceType DEF IInv
  <2>3. SlotInv => SlotInv'
    BY <2>1 DEF SlotInv, Occupied, Reach, ProbeSlot
  <2>4. CarryInv => CarryInv'
    <3>1. SUFFICES ASSUME CarryInv PROVE CarryInv'
      OBVIOUS
    <3>2. /\ str[carry.idx] \in Str /\ carry.dist \in Nat
          /\ carry.hash = ProbeSlot(str[carry.idx], carry.dist)
          /\ Reach(str[carry.idx], carry.dist)
      <4>1. str[carry.idx] \in Str /\ carry.dist \in Nat
        <5>1. str[carry.idx] \in Str
          BY <1>a, <2>1
        <5>2. carry.dist \in 0..Empty /\ 0..Empty \subseteq Nat
          BY <1>a
        <5> QED
          BY <5>1, <5>2
      <4> QED
        BY <2>1, <3>1, <4>1 DEF CarryInv
    <3>3. /\ Reach(str[carry.idx], carry.dist + 1)
          /\ NextSlot(carry.hash) = ProbeSlot(str[carry.idx], carry.dist + 1)
      BY <1>a, <2>1, <3>2, ReachNext, ProbeStep
    <3> QED
      BY <2>1, <2>2, <3>2, <3>3 DEF CarryInv, Reach, ProbeSlot, Occupied
  <2>5. HeldInv' /\ NoneTwice' /\ (NoneLost' => NoneLost)
    BY <1>b, <2>1, <2>2 DEF HeldInv, NoneLost, NoneTwice, StoredAt, Occupied
  <2> QED
    BY <1>b, <2>3, <2>4, <2>5 DEF TableInv
<1>5. ASSUME EndInsert \/ EndWrite \/ WriteEmpty \/ WriteElement \/ UNCHANGED vars
      PROVE  TableInv'
  <2>1. UNCHANGED <<str, home, distance, hashdata, distmax, next, carry>>
    BY <1>5 DEF EndInsert, EndWrite, WriteEmpty, WriteElement, vars, input, table, files
  <2>2. /\ phase' = phase \/ phase' \in {"write", "done"}
        /\ phase' \in {"write", "done"} =>
              phase \in {"next", "write", "done"} /\ next = NumMsg
    BY <1>5, <1>b DEF EndInsert, EndWrite, WriteEmpty, WriteElement, vars, HeldInv
  <2>3. HeldInv' /\ NoneTwice'
    BY <1>b, <2>1, <2>2 DEF HeldInv, NoneTwice, Occupied
  <2>4. NoneLost' => NoneLost
    BY <2>1, <2>2 DEF NoneLost, StoredAt, Occupied
  <2>5. SlotInv /\ CarryInv => SlotInv' /\ CarryInv'
    BY <2>1, <2>2 DEF SlotInv, CarryInv, Occupied, Reach, ProbeSlot
  <2> QED
    BY <1>b, <2>3, <2>4, <2>5 DEF TableInv
<1> QED
  BY <1>1, <1>2, <1>3, <1>4, <1>5 DEF Next
-----------------------------------------------------------------------------
(* The slots below slot + 1 that are taken.                                *)
LEMMA WrittenCount ==
    ASSUME NEW k \in Nat, NEW O
    PROVE  LET W(n) == {h \in Slot : h < n /\ h \in O}
           IN  /\ IsFiniteSet(W(k)) /\ Cardinality(W(k)) \in Nat
               /\ k \in Slot /\ k \in O => Cardinality(W(k + 1)) = Cardinality(W(k)) + 1
               /\ k \notin O => W(k + 1) = W(k)
<1> DEFINE W(n) == {h \in Slot : h < n /\ h \in O}
<1>1. IsFiniteSet(Slot)
  <2>1. 0 \in Int /\ HashSize - 1 \in Int
    BY HashAssumption
  <2> QED
    BY <2>1, FS_Interval DEF Slot
<1>2. IsFiniteSet(W(k)) /\ Cardinality(W(k)) \in Nat
  <2>1. W(k) \subseteq Slot
    OBVIOUS
  <2> QED
    BY <1>1, <2>1, FS_Subset, FS_CardinalityType
<1>3. ASSUME k \in Slot, k \in O PROVE Cardinality(W(k + 1)) = Cardinality(W(k)) + 1
  <2>1. \A h \in Slot : (h < k + 1 <=> h < k \/ h = k)
    BY SlotNat
  <2>2. ~(k < k)
    OBVIOUS
  <2>3. W(k + 1) = W(k) \cup {k} /\ k \notin W(k)
    BY <1>3, <2>1, <2>2
  <2> QED
    BY <1>2, <2>3, FS_AddElement
<1>4. ASSUME k \notin O PROVE W(k + 1) = W(k)
  <2>1. \A h \in Slot : (h < k + 1 <=> h < k \/ h = k)
    BY SlotNat
  <2> QED
    BY <1>4, <2>1
<1> QED
  BY <1>2, <1>3, <1>4

LEMMA WrittenStep == IInv /\ [Next]_vars => WrittenInv'
<1> SUFFICES ASSUME IInv, [Next]_vars PROVE WrittenInv'
  OBVIOUS
<1> USE SlotNat
<1>a. /\ slot \in 0..HashSize /\ middata \in Seq(Str)
      /\ midmeta \in [Msg -> Nat \cup {Unset}]
      /\ midhash \in [Slot -> [offset : Nat, idx : Msg \cup {-1, 0}]]
      /\ str \in [Msg -> Str]
      /\ Len(middata) \in Nat
  BY LenProperties DEF IInv, TypeOK
<1>b. WrittenInv /\ HeldInv /\ NoneTwice
  BY DEF IInv, TableInv
<1> DEFINE O == {h \in Slot : Occupied(h)}
           W(n) == {h \in Slot : h < n /\ h \in O}
<1>c. Len(middata) = Cardinality(W(slot)) <=>
          Len(middata) = Cardinality({h \in Slot : h < slot /\ Occupied(h)})
  <2>1. W(slot) = {h \in Slot : h < slot /\ Occupied(h)}
    OBVIOUS
  <2> QED
    BY <2>1
<1>1. ASSUME Place \/ Displace \/ Pass \/ \E m \in Msg : HashStart(m) PROVE WrittenInv'
  <2>1. phase \in {"next", "probe"} /\ phase' # "done" /\ UNCHANGED files
    BY <1>1 DEF Place, Displace, Pass, HashStart, Advance
  <2>2. slot' = 0
    BY <1>b, <2>1 DEF WrittenInv, files
  <2>3. \A h \in Slot : ~(h < slot) /\ ~(h < slot')
    BY <2>1, <2>2 DEF files
  <2>4. {h \in Slot : h < slot /\ Occupied(h)} = {h \in Slot : h < slot' /\ Occupied(h)'}
    BY <2>3
  <2> QED
    BY <1>b, <2>1, <2>2, <2>3, <2>4 DEF WrittenInv, files
<1>2. ASSUME EndInsert \/ EndWrite \/ UNCHANGED vars PROVE WrittenInv'
  <2>1. UNCHANGED <<str, distance, hashdata, files>>
    BY <1>2 DEF EndInsert, EndWrite, vars, input, table
  <2>2. /\ phase' \in {"next", "probe"} => phase' = phase
        /\ phase' = "done" => phase = "done" \/ slot = HashSize
    BY <1>2 DEF EndInsert, EndWrite, vars
  <2> QED
    BY <1>b, <2>1, <2>2 DEF WrittenInv, Occupied, StoredAt, files
<1>3. CASE WriteEmpty
  <2>1. /\ slot \in Slot /\ ~Occupied(slot) /\ phase' = "write" /\ slot' = slot + 1
        /\ UNCHANGED <<str, distance, hashdata, middata, midmeta>>
        /\ midhash' = [midhash EXCEPT ![slot] = [offset |-> 0, idx |-> 0]]
    BY <1>3, <1>a DEF WriteEmpty, Occupied, Slot, input, table
  <2>2. \A h \in Slot : h < slot' <=> h < slot \/ h = slot
    BY <1>a, <2>1
  <2>3. \A h \in Slot : h # slot => midhash'[h] = midhash[h]
    BY <1>a, <2>1
  <2>4. midhash'[slot].offset = 0
    BY <1>a, <2>1
  <2>5. \A h \in Slot : h < slot /\ Occupied(h) => midhash[h].offset # 0
    BY <1>a, <1>b DEF WrittenInv
  <2>6. \A h \in Slot : Occupied(h)' <=> Occupied(h)
    BY <2>1 DEF Occupied
  <2>7. ASSUME NEW h \in Slot, h < slot'
        PROVE  IF Occupied(h)'
               THEN /\ midhash'[h].offset \in 1..Len(middata')
                    /\ midhash'[h].idx = hashdata'[h]
                    /\ middata'[midhash'[h].offset] = str'[hashdata'[h]]
                    /\ midmeta'[hashdata'[h]] = midhash'[h].offset
               ELSE midhash'[h].offset = 0
    BY <1>b, <2>1, <2>2, <2>3, <2>4, <2>6, <2>7 DEF WrittenInv
  <2>8. ASSUME NEW g \in Slot, NEW h \in Slot, g < slot', h < slot', Occupied(g)',
               midhash'[g].offset = midhash'[h].offset
        PROVE  g = h
    <3>1. g < slot /\ g # slot /\ Occupied(g)
      BY <2>1, <2>2, <2>6, <2>8
    <3>2. h # slot
      BY <2>3, <2>4, <2>5, <2>8, <3>1
    <3> QED
      BY <1>b, <2>2, <2>3, <2>8, <3>1, <3>2 DEF WrittenInv
  <2>9. Len(middata') = Cardinality({h \in Slot : h < slot' /\ Occupied(h)'})
    <3>1. slot \notin O /\ slot \in Nat
      BY <2>1
    <3>2. {h \in Slot : h < slot' /\ Occupied(h)'} = W(slot + 1)
      BY <2>1, <2>6
    <3>3. W(slot + 1) = W(slot)
      <4> HIDE DEF O
      <4> QED
        BY <3>1, WrittenCount
    <3> QED
      BY <1>b, <1>c, <2>1, <3>2, <3>3 DEF WrittenInv
  <2>10. ASSUME NEW m \in Msg, midmeta'[m] # Unset
         PROVE  \E h \in Slot : h < slot' /\ StoredAt(h, m)'
    <3>1. PICK h \in Slot : h < slot /\ StoredAt(h, m)
      BY <1>b, <2>1, <2>10 DEF WrittenInv
    <3> QED
      BY <2>1, <2>2, <2>6, <3>1 DEF StoredAt
  <2> QED
    BY <2>1, <2>7, <2>8, <2>9, <2>10 DEF WrittenInv
<1>4. CASE WriteElement
  <2>1. PICK m, o : m = hashdata[slot] /\ o = Len(middata) + 1
    OBVIOUS
  <2>2. /\ slot \in Slot /\ Occupied(slot) /\ phase' = "write" /\ slot' = slot + 1
        /\ UNCHANGED <<str, distance, hashdata>>
        /\ midhash' = [midhash EXCEPT ![slot] = [offset |-> o, idx |-> m]]
        /\ midmeta' = [midmeta EXCEPT ![m] = o]
        /\ middata' = Append(middata, str[m])
    BY <1>4, <1>a, <2>1 DEF WriteElement, Occupied, Slot, input, table
  <2>3. m \in Msg /\ str[m] \in Str /\ o \in Nat
    BY <1>a, <1>b, <2>1, <2>2 DEF HeldInv
  <2>4. /\ Len(middata') = o /\ middata'[o] = str[m]
        /\ \A k \in 1..Len(middata) : middata'[k] = middata[k] /\ k # o /\ k \in 1..o
    BY <1>a, <2>1, <2>2, <2>3, AppendProperties
  <2>5. \A h \in Slot : h < slot' <=> h < slot \/ h = slot
    BY <1>a, <2>2
  <2>6. /\ midhash'[slot].offset = o /\ midhash'[slot].idx = m
        /\ \A h \in Slot : h # slot => midhash'[h] = midhash[h]
    BY <1>a, <2>2
  <2>7. /\ midmeta'[m] = o
        /\ \A n \in Msg : n # m => midmeta'[n] = midmeta[n]
    BY <1>a, <2>2, <2>3
  <2>8. \A h \in Slot : Occupied(h)' <=> Occupied(h)
    BY <2>2 DEF Occupied
  <2>9. \A h \in Slot : h # slot /\ Occupied(h) => hashdata[h] \in Msg /\ hashdata[h] # m
    BY <1>b, <2>1, <2>2 DEF NoneTwice, HeldInv
  <2>10. ASSUME NEW h \in Slot, h < slot'
         PROVE  IF Occupied(h)'
                THEN /\ midhash'[h].offset \in 1..Len(middata')
                     /\ midhash'[h].idx = hashdata'[h]
                     /\ middata'[midhash'[h].offset] = str'[hashdata'[h]]
                     /\ midmeta'[hashdata'[h]] = midhash'[h].offset
                ELSE midhash'[h].offset = 0
    <3>1. CASE h = slot
      BY <1>a, <2>1, <2>2, <2>4, <2>6, <2>7, <2>8, <3>1
    <3>2. CASE h < slot /\ h # slot /\ Occupied(h)
      BY <1>b, <2>2, <2>4, <2>6, <2>7, <2>8, <2>9, <3>2 DEF WrittenInv
    <3>3. CASE h < slot /\ h # slot /\ ~Occupied(h)
      BY <1>b, <2>6, <2>8, <3>3 DEF WrittenInv
    <3> QED
      BY <1>a, <2>5, <2>10, <3>1, <3>2, <3>3
  <2>11. ASSUME NEW g \in Slot, NEW h \in Slot, g < slot', h < slot', Occupied(g)',
                midhash'[g].offset = midhash'[h].offset
         PROVE  g = h
    <3>1. \A f \in Slot : f < slot => midhash[f].offset # o
      BY <1>a, <1>b, <2>3, <2>4, <2>1 DEF WrittenInv
    <3>2. CASE g # slot /\ h # slot
      BY <1>b, <2>5, <2>6, <2>8, <2>11, <3>2 DEF WrittenInv
    <3>3. CASE g = slot /\ h # slot
      BY <2>5, <2>6, <2>11, <3>1, <3>3
    <3>4. CASE g # slot /\ h = slot
      BY <2>5, <2>6, <2>11, <3>1, <3>4
    <3> QED
      BY <3>2, <3>3, <3>4
  <2>12. Len(middata') = Cardinality({h \in Slot : h < slot' /\ Occupied(h)'})
    <3>1. slot \in O /\ slot \in Slot /\ slot \in Nat
      BY <1>a, <2>2
    <3>2. {h \in Slot : h < slot' /\ Occupied(h)'} = W(slot + 1)
      BY <2>2, <2>8
    <3>3. Cardinality(W(slot + 1)) = Cardinality(W(slot)) + 1
      <4> HIDE DEF O
      <4> QED
        BY <3>1, WrittenCount
    <3> QED
      BY <1>b, <1>c, <2>1, <2>4, <3>2, <3>3 DEF WrittenInv
  <2>13. ASSUME NEW n \in Msg, midmeta'[n] # Unset
         PROVE  \E h \in Slot : h < slot' /\ StoredAt(h, n)'
    <3>1. CASE n = m
      BY <1>a, <2>1, <2>2, <2>5, <2>8, <3>1 DEF StoredAt
    <3>2. CASE n # m
      <4>1. PICK h \in Slot : h < slot /\ StoredAt(h, n)
        BY <1>b, <2>7, <2>13, <3>2 DEF WrittenInv
      <4> QED
        BY <2>2, <2>5, <2>8, <4>1 DEF StoredAt
    <3> QED
      BY <3>1, <3>2
  <2> QED
    BY <2>2, <2>10, <2>11, <2>12, <2>13 DEF WrittenInv
<1> QED
  BY <1>1, <1>2, <1>3, <1>4 DEF Next
-----------------------------------------------------------------------------
(* As long as nothing was lost the table is searchable because of Reach:   *)
(* no slot between the home of a stored element and its place is free,     *)
(* however often it was moved.                                             *)
THEOREM Invariance == Spec => []IInv
<1>1. Init => IInv
  BY InitInv
<1>2. IInv /\ [Next]_vars => IInv'
  BY TypeStep, TableStep, WrittenStep DEF IInv
<1> QED
  BY <1>1, <1>2, PTL DEF Spec

(* Every index the insertion and write-out loops of extract-msgid use is   *)
(* inside its array, and dist++ does not wrap, though it can reach the     *)
(* mark of a free slot.                                                    *)
THEOREM TypeCorrect == Spec => []TypeOK
  BY Invariance, PTL DEF IInv

(* No slot holds what another one holds, so no more are taken than there   *)
(* are messages in them.                                                   *)
LEMMA TakenAmong ==
    ASSUME IInv, NEW M \in SUBSET Msg, \A h \in Slot : Occupied(h) => hashdata[h] \in M
    PROVE  /\ Cardinality({h \in Slot : Occupied(h)}) \in Nat
           /\ Cardinality({h \in Slot : Occupied(h)}) <= Cardinality(M)
<1> DEFINE O == {h \in Slot : Occupied(h)}
           f == [h \in O |-> hashdata[h]]
<1>1. IsFiniteSet(M)
  <2>1. 0 \in Int /\ NumMsg - 1 \in Int
    BY HashAssumption
  <2> QED
    BY <2>1, FS_Interval, FS_Subset DEF Msg
<1>2. \A h \in O : hashdata[h] \in M
  OBVIOUS
<1>3. \A g, h \in O : hashdata[g] = hashdata[h] => g = h
  BY DEF IInv, TableInv, NoneTwice
<1>4. f \in Injection(O, M)
  <2> HIDE DEF O
  <2> QED
    BY <1>2, <1>3 DEF Injection, IsInjective
<1> HIDE DEF f
<1>5. IsFiniteSet(O) /\ Cardinality(O) <= Cardinality(M)
  <2> HIDE DEF O
  <2> QED
    BY <1>1, <1>4, FS_Injection
<1>6. Cardinality(O) \in Nat
  BY <1>5, FS_CardinalityType
<1> QED
  BY <1>5, <1>6

LEMMA MsgCount == IsFiniteSet(Msg) /\ Cardinality(Msg) = NumMsg /\ NumMsg \in Nat
<1>1. 0 \in Int /\ NumMsg - 1 \in Int /\ NumMsg \in Nat
  BY HashAssumption
<1>2. /\ IsFiniteSet(0..(NumMsg - 1))
      /\ Cardinality(0..(NumMsg - 1)) = IF 0 > NumMsg - 1 THEN 0 ELSE NumMsg - 1 - 0 + 1
  BY <1>1, FS_Interval
<1> QED
  BY <1>1, <1>2 DEF Msg

LEMMA TakenAtMost ==
    ASSUME IInv
    PROVE  /\ Cardinality({s \in Slot : distance[s] # Empty}) \in Nat
           /\ Cardinality({s \in Slot : distance[s] # Empty}) <= NumMsg
<1>1. {s \in Slot : distance[s] # Empty} = {h \in Slot : Occupied(h)}
  BY DEF Occupied
<1>2. \A h \in Slot : Occupied(h) => hashdata[h] \in Msg
  BY DEF IInv, TableInv, HeldInv
<1> QED
  BY <1>1, <1>2, TakenAmong, MsgCount

(* The number of strings written tells whether a message was lost.         *)
LEMMA AllWrittenNoneLost ==
    ASSUME IInv, phase = "done", AllWritten
    PROVE  NoneLost
<1>1. phase = "done" /\ next = NumMsg /\ slot = HashSize
  BY DEF IInv, TableInv, HeldInv, WrittenInv
<1>2. Cardinality({h \in Slot : Occupied(h)}) = NumMsg
  <2>1. \A h \in Slot : h < slot
    BY <1>1, SlotNat DEF Slot
  <2>2. {h \in Slot : h < slot /\ Occupied(h)} = {h \in Slot : Occupied(h)}
    BY <2>1
  <2> QED
    BY <2>2 DEF IInv, WrittenInv, AllWritten
<1>3. SUFFICES ASSUME NEW m \in Msg, ~\E h \in Slot : StoredAt(h, m) PROVE FALSE
  BY <1>1 DEF NoneLost
<1>4. \A h \in Slot : Occupied(h) => hashdata[h] \in Msg \ {m}
  BY <1>3 DEF IInv, TableInv, HeldInv, StoredAt
<1>5. Cardinality({h \in Slot : Occupied(h)}) <= Cardinality(Msg \ {m})
  <2>1. Msg \ {m} \in SUBSET Msg
    OBVIOUS
  <2> QED
    BY <1>4, <2>1, TakenAmong
<1>6. Cardinality(Msg \ {m}) = NumMsg - 1
  BY MsgCount, FS_RemoveElement
<1> QED
  BY <1>2, <1>5, <1>6, MsgCount

LEMMA EveryMessageInTable ==
    ASSUME IInv, phase = "done", AllWritten, NEW m \in Msg
    PROVE  \E h \in Slot : StoredAt(h, m) /\ h < slot
<1>1. m < next /\ slot = HashSize
  BY HashAssumption DEF IInv, TableInv, HeldInv, WrittenInv, Msg
<1>2. PICK h \in Slot : StoredAt(h, m)
  BY <1>1, AllWrittenNoneLost DEF NoneLost
<1>3. h < slot
  BY <1>1, SlotNat DEF Slot
<1> QED
  BY <1>2, <1>3

(* In a finished archive midmeta and middata agree on every message that   *)
(* has an offset, for any hash function and any duplicates among the ids;  *)
(* and every message has one if as many strings were written as there are  *)
(* messages.                                                               *)
THEOREM MetaIsConsistent == Spec => []MetaConsistent
<1>1. IInv => MetaConsistent
  <2> SUFFICES ASSUME IInv, phase = "done"
               PROVE  /\ AllWritten => \A m \in Msg : midmeta[m] # Unset
                      /\ \A m \in Msg : midmeta[m] # Unset =>
                            /\ midmeta[m] \in DOMAIN middata
                            /\ middata[midmeta[m]] = str[m]
                            /\ \A n \in Msg : midmeta[n] = midmeta[m] => n = m
    BY DEF MetaConsistent
  <2>1. ASSUME NEW h \in Slot, NEW m \in Msg, StoredAt(h, m), h < slot
        PROVE  /\ midmeta[m] \in 1..Len(middata) /\ middata[midmeta[m]] = str[m]
               /\ midmeta[m] = midhash[h].offset
    BY <2>1 DEF IInv, WrittenInv, StoredAt
  <2>2. ASSUME AllWritten, NEW m \in Msg PROVE midmeta[m] # Unset
    <3>1. PICK h \in Slot : StoredAt(h, m) /\ h < slot
      BY <2>2, EveryMessageInTable
    <3>2. midmeta[m] \in 1..Len(middata) /\ Len(middata) \in Nat
      BY <2>1, <3>1, LenProperties DEF IInv, TypeOK
    <3> QED
      BY <3>2 DEF Unset
  <2>3. ASSUME NEW m \in Msg, midmeta[m] # Unset
        PROVE  /\ midmeta[m] \in DOMAIN middata
               /\ middata[midmeta[m]] = str[m]
               /\ \A n \in Msg : midmeta[n] = midmeta[m] => n = m
    <3>1. PICK h \in Slot : h < slot /\ StoredAt(h, m)
      BY <2>3 DEF IInv, WrittenInv
    <3>2. midmeta[m] \in 1..Len(middata) /\ middata[midmeta[m]] = str[m]
          /\ midmeta[m] = midhash[h].offset
      BY <2>1, <3>1
    <3>3. ASSUME NEW n \in Msg, midmeta[n] = midmeta[m] PROVE n = m
      <4>1. PICK g \in Slot : g < slot /\ StoredAt(g, n)
        BY <2>3, <3>3 DEF IInv, WrittenInv
      <4>2. midmeta[n] = midhash[g].offset
        BY <2>1, <4>1
      <4>3. g = h
        BY <3>1, <3>2, <3>3, <4>1, <4>2 DEF IInv, WrittenInv, StoredAt
      <4> QED
        BY <3>1, <4>1, <4>3 DEF StoredAt
    <3>4. DOMAIN middata = 1..Len(middata)
      BY LenProperties DEF IInv, TypeOK
    <3> QED
      BY <3>2, <3>3, <3>4
  <2> QED
    BY <2>2, <2>3
<1> QED
  BY <1>1, Invariance, PTL

(* HashSearch::Search finds every message id of an archive of which every  *)
(* message was written, and never returns a message of another id.         *)
THEOREM LookupIsComplete == Spec => []LookupComplete
<1>1. ASSUME IInv, phase = "done", NEW g \in Slot, NEW s \in Str, Matches(g, s)
      PROVE  /\ hashdata[g] \in Msg /\ str[hashdata[g]] = s
             /\ midhash[g].idx = hashdata[g]
  <2>1. slot = HashSize /\ g < slot
    BY <1>1, SlotNat DEF IInv, WrittenInv, Slot
  <2>2. Occupied(g)
    BY <1>1, <2>1 DEF IInv, WrittenInv, Matches, Vacant
  <2> QED
    BY <1>1, <2>1, <2>2 DEF IInv, TableInv, HeldInv, WrittenInv, Matches
<1>2. ASSUME IInv, phase = "done", NEW s \in Str, NEW r \in Msg, SearchReturns(s, r)
      PROVE  str[r] = s
  <2>1. PICK k \in 0..distmax :
            Matches(ProbeSlot(s, k), s) /\ midhash[ProbeSlot(s, k)].idx = r
    BY <1>2 DEF SearchReturns
  <2>2. ProbeSlot(s, k) \in Slot
    BY <1>2, <2>1, ProbeStep, SlotNat DEF IInv, TypeOK
  <2> QED
    BY <1>1, <1>2, <2>1, <2>2
<1>3. ASSUME IInv, phase = "done", AllWritten, NEW m \in Msg
      PROVE  \E r \in Msg : SearchReturns(str[m], r)
  <2>a. /\ str[m] \in Str /\ home \in [Str -> Slot] /\ distance \in [Slot -> 0..Empty]
        /\ distmax \in 0..Empty /\ slot = HashSize
        /\ SlotInv /\ WrittenInv
    BY <1>3, AllWrittenNoneLost DEF IInv, TypeOK, TableInv, WrittenInv
  <2>b. \A h \in Slot : h < slot
    BY <2>a, SlotNat DEF Slot
  <2>c. \A k \in Nat : ProbeSlot(str[m], k) \in Slot
    BY <2>a, ProbeStep
  <2>d. \A h \in Slot : Occupied(h) => ~Vacant(h)
    <3>1. \A h \in Slot : Occupied(h) => midhash[h].offset \in 1..Len(middata)
      BY <2>a, <2>b DEF WrittenInv
    <3>2. Len(middata) \in Nat
      BY <1>3, LenProperties DEF IInv, TypeOK
    <3> QED
      BY <3>1, <3>2 DEF Vacant
  <2>1. PICK h \in Slot : StoredAt(h, m)
    BY <1>3, EveryMessageInTable
  <2>2. PICK d \in Nat : d = distance[h]
    BY <2>a, SlotNat
  <2>3. d <= distmax /\ h = ProbeSlot(str[m], d) /\ Reach(str[m], d)
    BY <2>1, <2>2, <2>a DEF SlotInv, StoredAt
  <2>4. Matches(h, str[m])
    BY <2>1, <2>a, <2>b, <2>d DEF Matches, StoredAt, WrittenInv
  <2>5. PICK T \in SUBSET Nat : T = {k \in Nat : k <= d /\ Matches(ProbeSlot(str[m], k), str[m])}
    OBVIOUS
  <2>6. d \in T
    BY <2>3, <2>4, <2>5
  <2>7. PICK k \in T : \A j \in T : ~(j < k)
    BY <2>6, LeastDistance
  <2>8. k \in 0..distmax /\ k <= d /\ Matches(ProbeSlot(str[m], k), str[m])
    BY <2>3, <2>5, <2>7, <2>a, SlotNat
  <2>9. ASSUME NEW j \in 0..(k - 1)
        PROVE  ~Vacant(ProbeSlot(str[m], j)) /\ ~Matches(ProbeSlot(str[m], j), str[m])
    <3>1. j \in Nat /\ j < k /\ j \in 0..(d - 1)
      BY <2>7, <2>8, <2>9
    <3>2. Occupied(ProbeSlot(str[m], j))
      BY <2>3, <3>1 DEF Reach
    <3>3. j \notin T
      BY <2>7, <3>1
    <3> QED
      BY <2>5, <2>8, <2>c, <2>d, <3>1, <3>2, <3>3
  <2>10. PICK g \in Slot : g = ProbeSlot(str[m], k)
    BY <2>8, <2>c
  <2>11. hashdata[g] \in Msg /\ midhash[g].idx = hashdata[g]
    BY <1>1, <1>3, <2>a, <2>8, <2>10
  <2>12. SearchReturns(str[m], hashdata[g])
    BY <2>8, <2>9, <2>10, <2>11 DEF SearchReturns
  <2> QED
    BY <2>11, <2>12
<1>4. IInv => LookupComplete
  BY <1>2, <1>3 DEF LookupComplete
<1> QED
  BY <1>4, Invariance, PTL
-----------------------------------------------------------------------------
(* The sizes of tables.  The prover computes powers of numbers, so that    *)
(* what is true of all up to 32 is shown one by one.                       *)

(* The powers of two there are in a word of 32 bits.                       *)
LEMMA PowersDouble ==
    /\ 2^0 = 1
    /\ 2^(0 + 1) = 2 * 2^0 /\ 2^(1 + 1) = 2 * 2^1 /\ 2^(2 + 1) = 2 * 2^2
    /\ 2^(3 + 1) = 2 * 2^3 /\ 2^(4 + 1) = 2 * 2^4 /\ 2^(5 + 1) = 2 * 2^5
    /\ 2^(6 + 1) = 2 * 2^6 /\ 2^(7 + 1) = 2 * 2^7 /\ 2^(8 + 1) = 2 * 2^8
    /\ 2^(9 + 1) = 2 * 2^9 /\ 2^(10 + 1) = 2 * 2^10 /\ 2^(11 + 1) = 2 * 2^11
    /\ 2^(12 + 1) = 2 * 2^12 /\ 2^(13 + 1) = 2 * 2^13 /\ 2^(14 + 1) = 2 * 2^14
    /\ 2^(15 + 1) = 2 * 2^15 /\ 2^(16 + 1) = 2 * 2^16 /\ 2^(17 + 1) = 2 * 2^17
    /\ 2^(18 + 1) = 2 * 2^18 /\ 2^(19 + 1) = 2 * 2^19 /\ 2^(20 + 1) = 2 * 2^20
    /\ 2^(21 + 1) = 2 * 2^21 /\ 2^(22 + 1) = 2 * 2^22 /\ 2^(23 + 1) = 2 * 2^23
    /\ 2^(24 + 1) = 2 * 2^24 /\ 2^(25 + 1) = 2 * 2^25 /\ 2^(26 + 1) = 2 * 2^26
    /\ 2^(27 + 1) = 2 * 2^27 /\ 2^(28 + 1) = 2 * 2^28 /\ 2^(29 + 1) = 2 * 2^29
    /\ 2^(30 + 1) = 2 * 2^30 /\ 2^(31 + 1) = 2 * 2^31
OBVIOUS

LEMMA PowersGrow ==
    /\ 2^0 \in Nat \ {0} /\ 2^1 \in Nat \ {0} /\ 2^2 \in Nat \ {0} /\ 2^3 \in Nat \ {0}
    /\ 2^4 \in Nat \ {0} /\ 2^5 \in Nat \ {0} /\ 2^6 \in Nat \ {0} /\ 2^7 \in Nat \ {0}
    /\ 2^8 \in Nat \ {0} /\ 2^9 \in Nat \ {0} /\ 2^10 \in Nat \ {0} /\ 2^11 \in Nat \ {0}
    /\ 2^12 \in Nat \ {0} /\ 2^13 \in Nat \ {0} /\ 2^14 \in Nat \ {0} /\ 2^15 \in Nat \ {0}
    /\ 2^16 \in Nat \ {0} /\ 2^17 \in Nat \ {0} /\ 2^18 \in Nat \ {0} /\ 2^19 \in Nat \ {0}
    /\ 2^20 \in Nat \ {0} /\ 2^21 \in Nat \ {0} /\ 2^22 \in Nat \ {0} /\ 2^23 \in Nat \ {0}
    /\ 2^24 \in Nat \ {0} /\ 2^25 \in Nat \ {0} /\ 2^26 \in Nat \ {0} /\ 2^27 \in Nat \ {0}
    /\ 2^28 \in Nat \ {0} /\ 2^29 \in Nat \ {0} /\ 2^30 \in Nat \ {0} /\ 2^31 \in Nat \ {0}
    /\ 2^32 \in Nat \ {0}
OBVIOUS

LEMMA Powers ==
    \A k \in 0..31 : 2^(k + 1) = 2 * 2^k /\ 2^k \in Nat \ {0}
<1>1. \A k \in {0, 1, 2, 3, 4, 5, 6, 7} : 2^(k + 1) = 2 * 2^k /\ 2^k \in Nat \ {0}
  BY PowersDouble, PowersGrow
<1>2. \A k \in {8, 9, 10, 11, 12, 13, 14, 15} : 2^(k + 1) = 2 * 2^k /\ 2^k \in Nat \ {0}
  BY PowersDouble, PowersGrow
<1>3. \A k \in {16, 17, 18, 19, 20, 21, 22, 23} : 2^(k + 1) = 2 * 2^k /\ 2^k \in Nat \ {0}
  BY PowersDouble, PowersGrow
<1>4. \A k \in {24, 25, 26, 27, 28, 29, 30, 31} : 2^(k + 1) = 2 * 2^k /\ 2^k \in Nat \ {0}
  BY PowersDouble, PowersGrow
<1>5. ASSUME NEW k \in 0..31
      PROVE  \/ k \in {0, 1, 2, 3, 4, 5, 6, 7}
             \/ k \in {8, 9, 10, 11, 12, 13, 14, 15}
             \/ k \in {16, 17, 18, 19, 20, 21, 22, 23}
             \/ k \in {24, 25, 26, 27, 28, 29, 30, 31}
  OBVIOUS
<1> QED
  BY <1>1, <1>2, <1>3, <1>4, <1>5

(* Dividing by what a mask found: what is left is below 2^b, and what was  *)
(* divided by grows to the next power.                                     *)
Halved(s, p, s0) == s \in Nat /\ s * p <= s0 /\ s0 < (s + 1) * p /\ (s # 0 \/ p = 1)

LEMMA Halving ==
    ASSUME NEW s0 \in Nat, NEW s \in Nat, NEW p \in Nat \ {0}, Halved(s, p, s0),
           NEW q \in Nat \ {0}, s < q * q
    PROVE  /\ s >= q => Halved(s \div q, p * q, s0)
           /\ s \div q < q
<1> DEFINE d == s \div q
           m == s % q
<1>1. d \in Nat /\ m \in 0..(q - 1) /\ s = q * d + m
  OBVIOUS
<1>2. s >= q => d # 0
  <2>1. ASSUME d = 0 PROVE s < q
    BY <1>1, <2>1
  <2> QED
    BY <2>1
<1>3. d < q
  <2> SUFFICES ASSUME d >= q PROVE FALSE
    BY <1>1
  <2>1. q * d >= q * q
    BY <1>1
  <2> QED
    BY <1>1, <2>1
<1> HIDE DEF d, m
<1>4. d * (p * q) <= s0
  <2>1. d * (p * q) = (q * d) * p /\ (q * d) * p <= s * p
    BY <1>1
  <2> QED
    BY <1>1, <2>1 DEF Halved
<1>5. s0 < (d + 1) * (p * q)
  <2>1. s + 1 <= (d + 1) * q
    BY <1>1
  <2>2. (s + 1) * p <= ((d + 1) * q) * p
    BY <1>1, <2>1
  <2>3. ((d + 1) * q) * p = (d + 1) * (p * q)
    BY <1>1
  <2> QED
    BY <1>1, <2>2, <2>3 DEF Halved
<1> QED
  BY <1>1, <1>2, <1>3, <1>4, <1>5 DEF Halved, d

(* What the shifts of the five masks can add up to before each.            *)
LEMMA PowersAdd ==
    /\ \A r \in {0} : 2^(r + 16) = 2^r * 2^16 /\ 2^r \in Nat \ {0}
    /\ \A r \in {0, 16} : 2^(r + 8) = 2^r * 2^8 /\ 2^r \in Nat \ {0}
    /\ \A r \in {0, 8, 16, 24} : 2^(r + 4) = 2^r * 2^4 /\ 2^r \in Nat \ {0}
    /\ \A r \in {0, 4, 8, 12, 16, 20, 24, 28} : 2^(r + 2) = 2^r * 2^2 /\ 2^r \in Nat \ {0}
    /\ \A r \in {0, 2, 4, 6, 8, 10, 12, 14,
                     16, 18, 20, 22, 24, 26, 28, 30} : 2^(r + 1) = 2^r * 2^1 /\ 2^r \in Nat \ {0}
<1>1. \A r \in {0} : 2^(r + 16) = 2^r * 2^16 /\ 2^r \in Nat \ {0}
  <2>1. /\ 2^(0 + 16) = 2^0 * 2^16
    BY PowersGrow
  <2> QED
    BY <2>1, PowersGrow
<1>2. \A r \in {0, 16} : 2^(r + 8) = 2^r * 2^8 /\ 2^r \in Nat \ {0}
  <2>1. /\ 2^(0 + 8) = 2^0 * 2^8 /\ 2^(16 + 8) = 2^16 * 2^8
    BY PowersGrow
  <2> QED
    BY <2>1, PowersGrow
<1>3. \A r \in {0, 8, 16, 24} : 2^(r + 4) = 2^r * 2^4 /\ 2^r \in Nat \ {0}
  <2>1. /\ 2^(0 + 4) = 2^0 * 2^4 /\ 2^(8 + 4) = 2^8 * 2^4 /\ 2^(16 + 4) = 2^16 * 2^4 /\ 2^(24 + 4) = 2^24 * 2^4
    BY PowersGrow
  <2> QED
    BY <2>1, PowersGrow
<1>4. \A r \in {0, 4, 8, 12, 16, 20, 24, 28} : 2^(r + 2) = 2^r * 2^2 /\ 2^r \in Nat \ {0}
  <2>1. /\ 2^(0 + 2) = 2^0 * 2^2 /\ 2^(4 + 2) = 2^4 * 2^2 /\ 2^(8 + 2) = 2^8 * 2^2 /\ 2^(12 + 2) = 2^12 * 2^2
        /\ 2^(16 + 2) = 2^16 * 2^2 /\ 2^(20 + 2) = 2^20 * 2^2 /\ 2^(24 + 2) = 2^24 * 2^2 /\ 2^(28 + 2) = 2^28 * 2^2
    BY PowersGrow
  <2> QED
    BY <2>1, PowersGrow
<1>5. \A r \in {0, 2, 4, 6, 8, 10, 12, 14,
                     16, 18, 20, 22, 24, 26, 28, 30} : 2^(r + 1) = 2^r * 2^1 /\ 2^r \in Nat \ {0}
  <2>1. /\ 2^(0 + 1) = 2^0 * 2^1 /\ 2^(2 + 1) = 2^2 * 2^1 /\ 2^(4 + 1) = 2^4 * 2^1 /\ 2^(6 + 1) = 2^6 * 2^1
        /\ 2^(8 + 1) = 2^8 * 2^1 /\ 2^(10 + 1) = 2^10 * 2^1 /\ 2^(12 + 1) = 2^12 * 2^1 /\ 2^(14 + 1) = 2^14 * 2^1
        /\ 2^(16 + 1) = 2^16 * 2^1 /\ 2^(18 + 1) = 2^18 * 2^1 /\ 2^(20 + 1) = 2^20 * 2^1 /\ 2^(22 + 1) = 2^22 * 2^1
        /\ 2^(24 + 1) = 2^24 * 2^1 /\ 2^(26 + 1) = 2^26 * 2^1 /\ 2^(28 + 1) = 2^28 * 2^1 /\ 2^(30 + 1) = 2^30 * 2^1
    BY PowersGrow
  <2> QED
    BY <2>1, PowersGrow
<1> QED
  BY <1>1, <1>2, <1>3, <1>4, <1>5

(* One mask.                                                               *)
LEMMA MaskHalves ==
    ASSUME NEW s0 \in Nat, NEW s \in Nat, NEW r0 \in Nat, NEW b \in Nat,
           2^r0 \in Nat \ {0}, 2^b \in Nat \ {0}, 2^(r0 + b) = 2^r0 * 2^b,
           Halved(s, 2^r0, s0), s < 2^b * 2^b
    PROVE  /\ HighBits(s, b) \in {0, b}
           /\ Halved(s \div 2^HighBits(s, b), 2^(r0 + HighBits(s, b)), s0)
           /\ s \div 2^HighBits(s, b) < 2^b
           /\ s \div 2^HighBits(s, b) \in Nat
<1>1. 2^0 = 1
  BY PowersDouble
<1>2. CASE s >= 2^b
  <2>1. HighBits(s, b) = b
    BY <1>2 DEF HighBits
  <2> DEFINE q == 2^b
             p == 2^r0
  <2>2. s >= q /\ p \in Nat \ {0} /\ q \in Nat \ {0} /\ Halved(s, p, s0) /\ s < q * q
    BY <1>2
  <2>3. 2^(r0 + b) = p * q
    OBVIOUS
  <2> HIDE DEF p, q
  <2>4. Halved(s \div q, p * q, s0) /\ s \div q < q
    BY <2>2, Halving
  <2>5. s \div q \in Nat
    BY <2>4 DEF Halved
  <2> QED
    BY <2>1, <2>3, <2>4, <2>5 DEF q
<1>3. CASE ~(s >= 2^b)
  <2>1. HighBits(s, b) = 0
    BY <1>3 DEF HighBits
  <2>2. s \div 2^0 = s /\ r0 + 0 = r0 /\ s < 2^b
    BY <1>1, <1>3
  <2> QED
    BY <2>1, <2>2
<1> QED
  BY <1>2, <1>3

(* Only 2^30 and more have 31 bits.                                        *)
LEMMA PowersOrder == \A s \in Nat : s < 2^30 => s < 2^31 /\ s < 2^32
  OBVIOUS

LEMMA BitsAre ==
    ASSUME NEW size \in Nat, NEW load \in Nat \ {0}, (size * 100) \div load < 2^30
    PROVE  LET s0   == (size * 100) \div load
               bits == MsgIdHashBits(size, load)
           IN  /\ bits \in 1..30
               /\ s0 < MsgIdHashSize(bits)
               /\ s0 # 0 => MsgIdHashSize(bits) <= 2 * s0
               /\ s0 = 0 => MsgIdHashSize(bits) = 2
<1> DEFINE s0 == (size * 100) \div load
           r0 == HighBits(s0, 16)   s1 == s0 \div 2^r0
           r1 == HighBits(s1, 8)    s2 == s1 \div 2^r1
           r2 == HighBits(s2, 4)    s3 == s2 \div 2^r2
           r3 == HighBits(s3, 2)    s4 == s3 \div 2^r3
           r4 == HighBits(s4, 1)    s5 == s4 \div 2^r4
           bits == r0 + r1 + r2 + r3 + r4 + 1
<1>1. MsgIdHashBits(size, load) = bits
  BY DEF MsgIdHashBits
<1>2. s0 \in Nat /\ s0 < 2^30 /\ s0 < 2^32
  BY PowersGrow, PowersOrder
<1> HIDE DEF s0
<1>3. Halved(s0, 2^0, s0)
  BY <1>2, PowersDouble DEF Halved
<1>4. /\ r0 \in {0, 16}
      /\ Halved(s1, 2^r0, s0) /\ s1 < 2^16 /\ s1 \in Nat
  <2> DEFINE r == 0
  <2>1. r \in {0} /\ r \in Nat /\ 16 \in Nat
    BY <1>2, <1>3
  <2>2. Halved(s0, 2^r, s0) /\ s0 \in Nat
    BY <1>2, <1>3
  <2> HIDE DEF r
  <2>3. 2^r \in Nat \ {0} /\ 2^(r + 16) = 2^r * 2^16
    BY <2>1, PowersAdd
  <2>4. 2^16 \in Nat \ {0} /\ s0 < 2^16 * 2^16
    BY <1>2, <1>3, Powers
  <2>5. /\ r0 \in {0, 16} /\ Halved(s1, 2^(r + r0), s0)
        /\ s1 < 2^16 /\ s1 \in Nat
    BY <1>2, <2>1, <2>2, <2>3, <2>4, MaskHalves
  <2> HIDE DEF r0, s1
  <2>6. r + r0 \in {0, 16} /\ r + r0 = r0
    BY <2>1, <2>5 DEF r
  <2> QED
    BY <2>5, <2>6, Powers
<1> HIDE DEF r0, s1
<1>5. /\ r0 + r1 \in {0, 8, 16, 24}
      /\ Halved(s2, 2^(r0 + r1), s0) /\ s2 < 2^8 /\ s2 \in Nat
  <2> DEFINE r == r0
  <2>1. r \in {0, 16} /\ r \in Nat /\ 8 \in Nat
    BY <1>2, <1>4
  <2>2. Halved(s1, 2^r, s0) /\ s1 \in Nat
    BY <1>2, <1>4
  <2> HIDE DEF r
  <2>3. 2^r \in Nat \ {0} /\ 2^(r + 8) = 2^r * 2^8
    BY <2>1, PowersAdd
  <2>4. 2^8 \in Nat \ {0} /\ s1 < 2^8 * 2^8
    BY <1>2, <1>4, Powers
  <2>5. /\ r1 \in {0, 8} /\ Halved(s2, 2^(r + r1), s0)
        /\ s2 < 2^8 /\ s2 \in Nat
    BY <1>2, <2>1, <2>2, <2>3, <2>4, MaskHalves
  <2> HIDE DEF r1, s2
  <2>6. r + r1 \in {0, 8, 16, 24} /\ r + r1 = r0 + r1
    BY <2>1, <2>5 DEF r
  <2> QED
    BY <2>5, <2>6, Powers
<1> HIDE DEF r1, s2
<1>6. /\ r0 + r1 + r2 \in {0, 4, 8, 12, 16, 20, 24, 28}
      /\ Halved(s3, 2^(r0 + r1 + r2), s0) /\ s3 < 2^4 /\ s3 \in Nat
  <2> DEFINE r == r0 + r1
  <2>1. r \in {0, 8, 16, 24} /\ r \in Nat /\ 4 \in Nat
    BY <1>2, <1>5
  <2>2. Halved(s2, 2^r, s0) /\ s2 \in Nat
    BY <1>2, <1>5
  <2> HIDE DEF r
  <2>3. 2^r \in Nat \ {0} /\ 2^(r + 4) = 2^r * 2^4
    BY <2>1, PowersAdd
  <2>4. 2^4 \in Nat \ {0} /\ s2 < 2^4 * 2^4
    BY <1>2, <1>5, Powers
  <2>5. /\ r2 \in {0, 4} /\ Halved(s3, 2^(r + r2), s0)
        /\ s3 < 2^4 /\ s3 \in Nat
    BY <1>2, <2>1, <2>2, <2>3, <2>4, MaskHalves
  <2> HIDE DEF r2, s3
  <2>6. r + r2 \in {0, 4, 8, 12, 16, 20, 24, 28} /\ r + r2 = r0 + r1 + r2
    BY <2>1, <2>5 DEF r
  <2> QED
    BY <2>5, <2>6, Powers
<1> HIDE DEF r2, s3
<1>7. /\ r0 + r1 + r2 + r3 \in {0, 2, 4, 6, 8, 10, 12, 14, 16, 18, 20, 22, 24, 26, 28, 30}
      /\ Halved(s4, 2^(r0 + r1 + r2 + r3), s0) /\ s4 < 2^2 /\ s4 \in Nat
  <2> DEFINE r == r0 + r1 + r2
  <2>1. r \in {0, 4, 8, 12, 16, 20, 24, 28} /\ r \in Nat /\ 2 \in Nat
    BY <1>2, <1>6
  <2>2. Halved(s3, 2^r, s0) /\ s3 \in Nat
    BY <1>2, <1>6
  <2> HIDE DEF r
  <2>3. 2^r \in Nat \ {0} /\ 2^(r + 2) = 2^r * 2^2
    BY <2>1, PowersAdd
  <2>4. 2^2 \in Nat \ {0} /\ s3 < 2^2 * 2^2
    BY <1>2, <1>6, Powers
  <2>5. /\ r3 \in {0, 2} /\ Halved(s4, 2^(r + r3), s0)
        /\ s4 < 2^2 /\ s4 \in Nat
    BY <1>2, <2>1, <2>2, <2>3, <2>4, MaskHalves
  <2> HIDE DEF r3, s4
  <2>6. r + r3 \in {0, 2, 4, 6, 8, 10, 12, 14, 16, 18, 20, 22, 24, 26, 28, 30} /\ r + r3 = r0 + r1 + r2 + r3
    BY <2>1, <2>5 DEF r
  <2> QED
    BY <2>5, <2>6, Powers
<1> HIDE DEF r3, s4
<1>8. /\ r0 + r1 + r2 + r3 + r4 \in 0..31
      /\ Halved(s5, 2^(r0 + r1 + r2 + r3 + r4), s0) /\ s5 < 2^1 /\ s5 \in Nat
  <2> DEFINE r == r0 + r1 + r2 + r3
  <2>1. r \in {0, 2, 4, 6, 8, 10, 12, 14, 16, 18, 20, 22, 24, 26, 28, 30} /\ r \in Nat /\ 1 \in Nat
    BY <1>2, <1>7
  <2>2. Halved(s4, 2^r, s0) /\ s4 \in Nat
    BY <1>2, <1>7
  <2> HIDE DEF r
  <2>3. 2^r \in Nat \ {0} /\ 2^(r + 1) = 2^r * 2^1
    BY <2>1, PowersAdd
  <2>4. 2^1 \in Nat \ {0} /\ s4 < 2^1 * 2^1
    BY <1>2, <1>7, Powers
  <2>5. /\ r4 \in {0, 1} /\ Halved(s5, 2^(r + r4), s0)
        /\ s5 < 2^1 /\ s5 \in Nat
    BY <1>2, <2>1, <2>2, <2>3, <2>4, MaskHalves
  <2> HIDE DEF r4, s5
  <2>6. r + r4 \in 0..31 /\ r + r4 = r0 + r1 + r2 + r3 + r4
    BY <2>1, <2>5 DEF r
  <2> QED
    BY <2>5, <2>6, Powers
<1> HIDE DEF r4, s5
<1>9. bits = (r0 + r1 + r2 + r3 + r4) + 1
  BY DEF bits
<1> DEFINE r == r0 + r1 + r2 + r3 + r4
<1>10. r \in 0..31 /\ Halved(s5, 2^r, s0) /\ s5 < 2 /\ s5 \in Nat /\ bits = r + 1
  BY <1>8, <1>9
<1> HIDE DEF r, bits
<1>11. 2^(r + 1) = 2 * 2^r /\ 2^r \in Nat \ {0}
  BY <1>10, Powers
<1>12. CASE s0 # 0
  <2>1. s5 = 1
    <3>1. s0 < (s5 + 1) * 2^r /\ (s5 # 0 \/ 2^r = 1) /\ s5 \in {0, 1}
      BY <1>10, PowersDouble DEF Halved
    <3>2. s5 = 0 => s0 < 1
      BY <3>1
    <3> QED
      BY <1>2, <1>12, <3>1, <3>2
  <2>2. 2^r <= s0 /\ s0 < 2 * 2^r
    BY <1>10, <1>11, <2>1 DEF Halved
  <2>3. r < 30
    <3>1. r # 30
      <4> DEFINE w == 2^30
      <4>1. r = 30 => w <= s0
        BY <2>2
      <4>2. w \in Nat /\ s0 < w
        BY <1>2, PowersGrow
      <4> HIDE DEF w
      <4> QED
        BY <1>2, <4>1, <4>2
    <3>2. r # 31
      <4>1. 2^30 \in Nat /\ 2^31 = 2 * 2^30
        BY PowersGrow, PowersDouble
      <4>2. r = 31 => 2 * 2^30 <= s0
        BY <2>2, <4>1
      <4> DEFINE w == 2^30
      <4> HIDE DEF w
      <4>3. w \in Nat /\ s0 \in Nat /\ s0 < w /\ (r = 31 => 2 * w <= s0)
        BY <1>2, <4>1, <4>2 DEF w
      <4> QED
        BY <4>3
    <3> QED
      BY <1>10, <3>1, <3>2
  <2>4. MsgIdHashSize(bits) = 2^(r + 1)
    <3>1. bits < 31
      BY <1>10, <2>3
    <3>2. MsgIdHashSize(bits) = 2^bits
      BY <3>1 DEF MsgIdHashSize
    <3> QED
      BY <1>10, <3>2
  <2> QED
    BY <1>1, <1>10, <1>11, <1>12, <2>2, <2>3, <2>4 DEF s0
<1>13. CASE s0 = 0
  <2>1. s5 * 2^r <= 0 /\ (s5 # 0 \/ 2^r = 1)
    BY <1>10, <1>13 DEF Halved
  <2>2. 2^r = 1
    BY <1>10, <1>11, <2>1
  <2>3. r < 30
    <3>1. 2^30 # 1 /\ 2^31 # 1
      OBVIOUS
    <3>2. r # 30 /\ r # 31
      BY <2>2, <3>1
    <3> QED
      BY <1>10, <3>2
  <2>4. MsgIdHashSize(bits) = 2^(r + 1)
    <3>1. bits < 31
      BY <1>10, <2>3
    <3>2. MsgIdHashSize(bits) = 2^bits
      BY <3>1 DEF MsgIdHashSize
    <3> QED
      BY <1>10, <3>2
  <2> QED
    BY <1>1, <1>10, <1>11, <1>13, <2>2, <2>3, <2>4 DEF s0
<1> QED
  BY <1>12, <1>13

(* The size for n messages, as long as n / load is below 2^30, so that an  *)
(* int has it, leaves room for them, keeps to the load, and is the         *)
(* smallest power of two that does (MsgIdHashBits, MsgIdHashSize).         *)
THEOREM SizesFit ==
    \A n \in Nat : (n * 100) \div LoadFactor < 2^30 => SizedForLoad(n)
<1> SUFFICES ASSUME NEW n \in Nat, (n * 100) \div LoadFactor < 2^30 PROVE SizedForLoad(n)
  OBVIOUS
<1> DEFINE s0   == (n * 100) \div LoadFactor
           bits == MsgIdHashBits(n, LoadFactor)
           size == MsgIdHashSize(bits)
<1>1. LoadFactor \in Nat \ {0} /\ n <= s0 /\ s0 \in Nat
  BY DEF LoadFactor
<1>2. /\ bits \in 1..30 /\ s0 < size /\ (s0 # 0 => size <= 2 * s0) /\ (s0 = 0 => size = 2)
  BY <1>1, BitsAre
<1>3. size \in Nat
  <2>1. PICK k \in 0..29 : bits = k + 1
    BY <1>2
  <2>2. 2^(k + 1) = 2 * 2^k /\ 2^k \in Nat
    <3>1. k \in 0..31
      OBVIOUS
    <3> QED
      BY <3>1, Powers
  <2>3. size = 2^(k + 1)
    <3>1. bits = k + 1 /\ k + 1 < 31
      BY <2>1
    <3> HIDE DEF bits
    <3> QED
      BY <3>1 DEF MsgIdHashSize
  <2> QED
    BY <2>2, <2>3
<1> HIDE DEF s0, bits, size
<1>4. n < size /\ s0 < size /\ (size > 2 => size \div 2 <= s0)
  BY <1>1, <1>2, <1>3
<1> QED
  BY <1>4 DEF SizedForLoad, s0, bits, size

(* The table is sized as the code does, for numbers whose table an int can *)
(* count.                                                                  *)
Fits(n) == (n * 100) \div LoadFactor < 2^30

Sized == HashSize = MCHashSize /\ Fits(NumMsg) /\ MaxSize \in Nat /\ Fits(MaxSize)

LEMMA FewerFit ==
    ASSUME NEW n \in Nat, NEW k \in Nat, k <= n, Fits(n)
    PROVE  SizedForLoad(k)
<1>1. LoadFactor \in Nat \ {0}
  BY DEF LoadFactor
<1>2. 2^30 \in Nat
  BY PowersGrow
<1> DEFINE w == 2^30
<1> HIDE DEF w
<1>3. (k * 100) \div LoadFactor < w
  <2>1. (n * 100) \div LoadFactor < w /\ w \in Nat
    BY <1>2 DEF Fits, w
  <2>2. (k * 100) \div LoadFactor <= (n * 100) \div LoadFactor
    BY DEF LoadFactor
  <2> QED
    BY <1>1, <2>1, <2>2
<1> QED
  BY <1>3, SizesFit DEF w

LEMMA AroundPowers ==
    ASSUME NEW k \in 1..24, NEW n \in (2^k - 2)..(2^k + 2)
    PROVE  SizedForLoad(n)
<1>1. /\ \A j \in {1, 2, 3, 4, 5, 6, 7, 8} : 2^j \in Nat /\ 2 <= 2^j /\ 2^j <= 2^24
      /\ \A j \in {9, 10, 11, 12, 13, 14, 15, 16} : 2^j \in Nat /\ 2 <= 2^j /\ 2^j <= 2^24
      /\ \A j \in {17, 18, 19, 20, 21, 22, 23, 24} : 2^j \in Nat /\ 2 <= 2^j /\ 2^j <= 2^24
  OBVIOUS
<1>2. 2^k \in Nat /\ 2 <= 2^k /\ 2^k <= 2^24
  <2>1. \/ k \in {1, 2, 3, 4, 5, 6, 7, 8}
        \/ k \in {9, 10, 11, 12, 13, 14, 15, 16}
        \/ k \in {17, 18, 19, 20, 21, 22, 23, 24}
    OBVIOUS
  <2> QED
    BY <1>1, <2>1
<1>3. 2^30 = 64 * 2^24 /\ 2^24 \in Nat
  BY PowersGrow
<1> DEFINE p == 2^k
           q == 2^24
           w == 2^30
<1> HIDE DEF p, q, w
<1>4. n \in Nat /\ n <= p + 2 /\ p \in Nat /\ 2 <= p /\ p <= q /\ w = 64 * q /\ q \in Nat
  BY <1>2, <1>3 DEF p, q, w
<1>5. (n * 100) \div 90 < w
  <2>1. n * 100 <= 200 * q
    BY <1>4
  <2>2. n * 100 < 90 * w
    BY <1>4, <2>1
  <2> QED
    BY <1>4, <2>2
<1> QED
  BY <1>4, <1>5, SizesFit DEF LoadFactor, w

(* The insertion loop always meets a free slot: the table extract-msgid    *)
(* sizes stays within its load, and the sizes it would give other archives *)
(* do, as long as an int can count their slots (MsgIdHashSize).            *)
THEOREM RoomIsLeft == Sized => (Spec => []SizingLeavesRoom)
<1> SUFFICES ASSUME Sized PROVE Spec => []SizingLeavesRoom
  OBVIOUS
<1>1. IInv => SizingLeavesRoom
  <2> SUFFICES ASSUME IInv PROVE SizingLeavesRoom
    OBVIOUS
  <2> DEFINE taken == Cardinality({s \in Slot : distance[s] # Empty})
             wanted == (NumMsg * 100) \div LoadFactor
  <2>1. taken \in Nat /\ taken <= NumMsg /\ NumMsg \in Nat /\ HashSize \in Nat
    BY TakenAtMost, HashAssumption
  <2>2. wanted < HashSize
    <3>1. SizedForLoad(NumMsg)
      BY <2>1, SizesFit DEF Sized, Fits
    <3> QED
      BY <3>1 DEF SizedForLoad, Sized, MCHashSize
  <2>3. taken * 100 <= LoadFactor * HashSize
    <3> HIDE DEF taken
    <3>1. NumMsg * 100 < 90 * (wanted + 1) /\ wanted \in Nat
      BY <2>1 DEF LoadFactor
    <3> HIDE DEF wanted
    <3> QED
      BY <2>1, <2>2, <3>1 DEF LoadFactor
  <2>4. \A n \in 0..MaxSize : SizedForLoad(n)
    BY FewerFit DEF Sized
  <2>5. \A k \in 1..24 : \A n \in (2^k - 2)..(2^k + 2) : SizedForLoad(n)
    BY AroundPowers
  <2> QED
    BY <2>3, <2>4, <2>5 DEF SizingLeavesRoom
<1> QED
  BY <1>1, Invariance, PTL
=============================================================================
