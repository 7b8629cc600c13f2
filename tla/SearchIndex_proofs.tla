------------------------- MODULE SearchIndex_proofs -------------------------
(***************************************************************************)
(* uat-sort keeps an archive as it is: the numbers it gives are a          *)
(* bijection that follows the threads, every file written from it tells    *)
(* of each message what the source told, and uat-verify finds the result   *)
(* sorted.  The index of words that uat-lexicon makes, uat-sort renumbers  *)
(* and uat-lexsort orders leads from each word to where it stands, and     *)
(* what SearchEngine finds with it is what the messages say.               *)
(***************************************************************************)
EXTENDS SearchIndex, Forest_proofs

Parent == [m \in Msg |-> conn[m].parent]
Thread == [m \in Msg |-> Below(Parent, m)]

(* What is stored of threads agrees, as connectivity and threadify leave   *)
(* it (Connectivity_proofs, Threadify_proofs), and does not change.        *)
Stored ==
    /\ conn \in [Msg -> Conn]
    /\ Parent \in Parents(Msg) /\ Acyclic(Parent)
    /\ \A m \in Msg :
          /\ conn[m].total = Cardinality(Thread[m])
          /\ conn[m].children \in List(Msg)
          /\ Range(conn[m].children) = {c \in Msg : Parent[c] = m}
    /\ toplevel \in List(Msg)
    /\ Range(toplevel) = {m \in Msg : Parent[m] = NoParent}

(* A list of messages whose threads share nothing, and the number of       *)
(* messages in the first j of those threads.                               *)
Apart(seq) ==
    /\ seq \in Seq(Msg)
    /\ \A k, l \in 1..Len(seq) : k # l => Thread[seq[k]] \cap Thread[seq[l]] = {}

UpTo(seq, j) == Cardinality(All(Thread, seq, 1..j))

LEMMA MsgFinite ==
    IsFiniteSet(Msg) /\ Cardinality(Msg) = NumMsg /\ NoParent \notin Msg /\ NoMsg \notin Msg
<1>1. NumMsg \in Nat /\ 0 \in Int /\ NumMsg - 1 \in Int
  BY SortAssumption
<1>2. /\ IsFiniteSet(0..(NumMsg - 1))
      /\ Cardinality(0..(NumMsg - 1)) = IF 0 > NumMsg - 1 THEN 0 ELSE NumMsg - 1 - 0 + 1
  BY <1>1, FS_Interval
<1> QED
  BY <1>1, <1>2 DEF Msg, NoParent, NoMsg

LEMMA ThreadTyped ==
    /\ Thread \in [Msg -> SUBSET Msg]
    /\ \A m \in Msg : Thread[m] \in SUBSET Msg /\ IsFiniteSet(Thread[m])
                      /\ Cardinality(Thread[m]) \in Nat
<1>1. \A m \in Msg : Thread[m] \in SUBSET Msg
  BY DEF Thread, Below, Parent
<1>2. \A m \in Msg : IsFiniteSet(Thread[m]) /\ Cardinality(Thread[m]) \in Nat
  BY <1>1, MsgFinite, FS_Subset, FS_CardinalityType
<1> QED
  BY <1>1, <1>2 DEF Thread

LEMMA UpToAdds ==
    ASSUME Stored, NEW seq, Apart(seq)
    PROVE  /\ UpTo(seq, 0) = 0
           /\ \A j \in 0..Len(seq) : UpTo(seq, j) \in Nat
           /\ \A j \in 1..Len(seq) : UpTo(seq, j) = UpTo(seq, j - 1) + conn[seq[j]].total
           /\ \A i, j \in 0..Len(seq) : i <= j => UpTo(seq, i) <= UpTo(seq, j)
<1>1. seq \in Seq(Msg) /\ Len(seq) \in Nat /\ \A k \in 1..Len(seq) : seq[k] \in Msg
  BY DEF Apart
<1>2. ASSUME NEW j \in 0..Len(seq)
      PROVE  /\ All(Thread, seq, 1..j) \in SUBSET Msg /\ IsFiniteSet(All(Thread, seq, 1..j))
             /\ UpTo(seq, j) \in Nat
  <2>1. 1..j \in SUBSET (1..Len(seq))
    BY <1>1
  <2>2. All(Thread, seq, 1..j) \in SUBSET Msg /\ IsFiniteSet(All(Thread, seq, 1..j))
    BY <1>1, <2>1, MsgFinite, ThreadTyped, AllFinite
  <2> QED
    BY <2>2, FS_CardinalityType DEF UpTo
<1>3. UpTo(seq, 0) = 0
  <2>1. All(Thread, seq, 1..0) = {}
    BY DEF All
  <2> QED
    BY <2>1, FS_EmptySet DEF UpTo
<1>4. ASSUME NEW j \in 1..Len(seq)
      PROVE  UpTo(seq, j) = UpTo(seq, j - 1) + conn[seq[j]].total
  <2>1. 1..j \in SUBSET (1..Len(seq)) /\ j \in 1..j /\ (1..j) \ {j} = 1..(j - 1)
    BY <1>1
  <2>2. \A k, l \in 1..Len(seq) : k # l => Thread[seq[k]] \cap Thread[seq[l]] = {}
    BY DEF Apart
  <2>3. Cardinality(All(Thread, seq, 1..j))
          = Cardinality(All(Thread, seq, (1..j) \ {j})) + Cardinality(Thread[seq[j]])
    <3>1. IsFiniteSet(Msg) /\ Thread \in [Msg -> SUBSET Msg] /\ seq \in Seq(Msg)
      BY <1>1, MsgFinite, ThreadTyped
    <3> QED
      BY <2>1, <2>2, <3>1, AllAdd
  <2>4. conn[seq[j]].total = Cardinality(Thread[seq[j]])
    BY <1>1 DEF Stored
  <2> QED
    BY <2>1, <2>3, <2>4 DEF UpTo
<1>5. ASSUME NEW i \in 0..Len(seq), NEW j \in 0..Len(seq), i <= j
      PROVE  UpTo(seq, i) <= UpTo(seq, j)
  <2>1. All(Thread, seq, 1..i) \in SUBSET All(Thread, seq, 1..j)
    BY <1>1, <1>5 DEF All
  <2> QED
    BY <1>2, <2>1, FS_Subset DEF UpTo
<1> QED
  BY <1>2, <1>3, <1>4, <1>5

LEMMA ChildrenApart ==
    ASSUME Stored, NEW m \in Msg
    PROVE  /\ Apart(conn[m].children)
           /\ \A c \in Msg : Parent[c] = m <=> \E j \in 1..Len(conn[m].children) :
                                                  conn[m].children[j] = c
           /\ \A i, j \in 1..Len(conn[m].children) :
                 conn[m].children[i] = conn[m].children[j] => i = j
           /\ Thread[m] = {m} \cup All(Thread, conn[m].children, 1..Len(conn[m].children))
           /\ m \notin All(Thread, conn[m].children, 1..Len(conn[m].children))
           /\ conn[m].total = 1 + UpTo(conn[m].children, Len(conn[m].children))
<1> DEFINE seq == conn[m].children
<1>1. /\ seq \in Seq(Msg) /\ IsInjective(seq) /\ Range(seq) = {c \in Msg : Parent[c] = m}
      /\ Len(seq) \in Nat /\ DOMAIN seq = 1..Len(seq)
  BY DEF Stored, List
<1>2. conn[m].total = Cardinality(Thread[m])
  BY DEF Stored
<1>3. Parent \in Parents(Msg) /\ Acyclic(Parent) /\ NoParent \notin Msg
  BY MsgFinite DEF Stored
<1> HIDE DEF seq
<1>4. \A i, j \in 1..Len(seq) : seq[i] = seq[j] => i = j
  BY <1>1 DEF IsInjective
<1>5. \A j \in 1..Len(seq) : seq[j] \in Msg /\ Parent[seq[j]] = m
  BY <1>1 DEF Range
<1>6. \A c \in Msg : Parent[c] = m <=> \E j \in 1..Len(seq) : seq[j] = c
  BY <1>1 DEF Range
<1>7. ASSUME NEW i \in 1..Len(seq), NEW j \in 1..Len(seq), i # j
      PROVE  Thread[seq[i]] \cap Thread[seq[j]] = {}
  <2>1. seq[i] # seq[j]
    BY <1>4, <1>7
  <2> QED
    BY <1>3, <1>5, <2>1, BelowApart DEF Thread
<1>8. Apart(seq)
  BY <1>1, <1>7 DEF Apart
<1>9. All(Thread, seq, 1..Len(seq)) = UNION {Below(Parent, c) : c \in {c \in Msg : Parent[c] = m}}
  BY <1>5, <1>6 DEF All, Thread
<1>10. Thread[m] = {m} \cup All(Thread, seq, 1..Len(seq))
  BY <1>3, <1>9, BelowSplit DEF Thread
<1>11. m \notin All(Thread, seq, 1..Len(seq))
  BY <1>3, <1>9, BelowApart
<1>12. Cardinality(Thread[m]) = 1 + UpTo(seq, Len(seq))
  <2>1. IsFiniteSet(All(Thread, seq, 1..Len(seq)))
    BY <1>1, MsgFinite, ThreadTyped, AllFinite
  <2>2. Thread[m] = All(Thread, seq, 1..Len(seq)) \cup {m}
    BY <1>10
  <2>3. Cardinality(Thread[m]) = Cardinality(All(Thread, seq, 1..Len(seq))) + 1
    BY <1>11, <2>1, <2>2, FS_AddElement
  <2>4. Cardinality(All(Thread, seq, 1..Len(seq))) \in Nat
    BY <2>1, FS_CardinalityType
  <2> QED
    BY <2>3, <2>4 DEF UpTo
<1> QED
  BY <1>2, <1>4, <1>6, <1>8, <1>10, <1>11, <1>12 DEF seq

LEMMA TopsApart ==
    ASSUME Stored
    PROVE  /\ Apart(toplevel)
           /\ \A j \in 1..Len(toplevel) : toplevel[j] \in Msg /\ Parent[toplevel[j]] = NoParent
           /\ All(Thread, toplevel, 1..Len(toplevel)) = Msg
           /\ UpTo(toplevel, Len(toplevel)) = NumMsg
<1>1. /\ toplevel \in Seq(Msg) /\ IsInjective(toplevel)
      /\ Range(toplevel) = {m \in Msg : Parent[m] = NoParent}
      /\ Len(toplevel) \in Nat /\ DOMAIN toplevel = 1..Len(toplevel)
  BY DEF Stored, List
<1>2. Parent \in Parents(Msg) /\ Acyclic(Parent) /\ NoParent \notin Msg
  BY MsgFinite DEF Stored
<1>3. \A j \in 1..Len(toplevel) : toplevel[j] \in Msg /\ Parent[toplevel[j]] = NoParent
  BY <1>1 DEF Range
<1>4. ASSUME NEW i \in 1..Len(toplevel), NEW j \in 1..Len(toplevel), i # j
      PROVE  Thread[toplevel[i]] \cap Thread[toplevel[j]] = {}
  <2> SUFFICES ASSUME NEW x \in Thread[toplevel[i]], x \in Thread[toplevel[j]] PROVE FALSE
    OBVIOUS
  <2>1. x \in Msg /\ toplevel[i] \in Above(Parent, x) /\ toplevel[j] \in Above(Parent, x)
    BY <1>3 DEF Thread, Below, Parent
  <2>2. toplevel[i] = toplevel[j]
    BY <1>2, <1>3, <2>1, TopIsAbove
  <2> QED
    BY <1>1, <1>4, <2>2 DEF IsInjective
<1>5. Apart(toplevel)
  BY <1>1, <1>4 DEF Apart
<1>6. ASSUME NEW m \in Msg PROVE m \in All(Thread, toplevel, 1..Len(toplevel))
  <2>1. PICK top \in Above(Parent, m) : Parent[top] = NoParent
    BY <1>2, MsgFinite, AcyclicIsTopped DEF Topped
  <2>2. top \in Msg
    BY <1>2, AboveSelf
  <2>3. PICK j \in 1..Len(toplevel) : toplevel[j] = top
    BY <1>1, <2>1, <2>2 DEF Range
  <2>4. m \in Thread[toplevel[j]]
    BY <2>2, <2>3 DEF Thread, Below, Parent
  <2> QED
    BY <2>4 DEF All
<1>7. All(Thread, toplevel, 1..Len(toplevel)) \subseteq Msg
  BY <1>3, ThreadTyped DEF All
<1>8. All(Thread, toplevel, 1..Len(toplevel)) = Msg
  BY <1>6, <1>7
<1> QED
  BY <1>3, <1>5, <1>8, MsgFinite DEF UpTo
-----------------------------------------------------------------------------
(* Skip adds up, in whatever order, the sizes of the threads before.       *)
LEMMA SumChosen ==
    ASSUME Stored, NEW seq, Apart(seq), NEW S \in SUBSET (1..Len(seq))
    PROVE  MapThenSumSet(LAMBDA k : conn[seq[k]].total, S) = Cardinality(All(Thread, seq, S))
<1> DEFINE One(s) == CHOOSE x \in s : TRUE
           Eq(g) == g = [s \in SUBSET S |-> IF s = {} THEN 0
                                            ELSE conn[seq[One(s)]].total + g[s \ {One(s)}]]
           h == CHOOSE g : Eq(g)
           size == [s \in SUBSET S |-> Cardinality(All(Thread, seq, s))]
<1>1. MapThenSumSet(LAMBDA k : conn[seq[k]].total, S) = h[S]
  BY DEF MapThenSumSet, MapThenFoldSet
<1>2. IsFiniteSet(Msg) /\ Thread \in [Msg -> SUBSET Msg] /\ seq \in Seq(Msg)
      /\ \A k, l \in 1..Len(seq) : k # l => Thread[seq[k]] \cap Thread[seq[l]] = {}
  BY MsgFinite, ThreadTyped DEF Apart
<1>3. ASSUME NEW s \in SUBSET S, s # {}
      PROVE  /\ One(s) \in s /\ s \ {One(s)} \in SUBSET S
             /\ Cardinality(All(Thread, seq, s))
                  = conn[seq[One(s)]].total + Cardinality(All(Thread, seq, s \ {One(s)}))
  <2>1. One(s) \in s
    BY <1>3
  <2> DEFINE x == One(s)
  <2> HIDE DEF x
  <2>2. s \in SUBSET (1..Len(seq)) /\ x \in s /\ s \ {x} \in SUBSET (1..Len(seq))
    BY <2>1 DEF x
  <2>3. Cardinality(All(Thread, seq, s))
          = Cardinality(All(Thread, seq, s \ {x})) + Cardinality(Thread[seq[x]])
    BY <1>2, <2>2, AllAdd
  <2>4. seq[x] \in Msg
    BY <1>2, <2>2
  <2>5. conn[seq[x]].total = Cardinality(Thread[seq[x]]) /\ Cardinality(Thread[seq[x]]) \in Nat
    BY <2>4, ThreadTyped DEF Stored
  <2>6. Cardinality(All(Thread, seq, s \ {x})) \in Nat
    BY <1>2, <2>2, AllFinite, FS_CardinalityType
  <2> QED
    BY <2>1, <2>3, <2>5, <2>6 DEF x
<1>4. Eq(size)
  <2> SUFFICES ASSUME NEW s \in SUBSET S
               PROVE  size[s] = IF s = {} THEN 0 ELSE conn[seq[One(s)]].total + size[s \ {One(s)}]
    OBVIOUS
  <2>1. CASE s = {}
    <3>1. All(Thread, seq, {}) = {}
      BY DEF All
    <3> QED
      BY <2>1, <3>1, FS_EmptySet
  <2>2. CASE s # {}
    BY <1>3, <2>2
  <2> QED
    BY <2>1, <2>2
<1>5. Eq(h)
  <2> HIDE DEF Eq
  <2> QED
    BY <1>4
<1> HIDE DEF h, size
<1>6. \A s \in SUBSET S : h[s] = Cardinality(All(Thread, seq, s))
  <2> DEFINE T == {n \in Nat : \E s \in SUBSET S : /\ n = Cardinality(s)
                                                   /\ h[s] # Cardinality(All(Thread, seq, s))}
  <2>1. \A s \in SUBSET S : IsFiniteSet(s) /\ Cardinality(s) \in Nat
    <3>1. 1 \in Int /\ Len(seq) \in Int
      BY <1>2
    <3>2. IsFiniteSet(1..Len(seq))
      BY <3>1, FS_Interval
    <3> QED
      BY <3>2, FS_Subset, FS_CardinalityType
  <2> SUFFICES ASSUME T # {} PROVE FALSE
    BY <2>1
  <2>2. PICK n \in T : \A k \in T : ~(k < n)
    <3> HIDE DEF T
    <3>1. T \in SUBSET Nat
      BY DEF T
    <3> QED
      BY <3>1, LeastNumber
  <2>3. PICK s \in SUBSET S : n = Cardinality(s) /\ h[s] # Cardinality(All(Thread, seq, s))
    OBVIOUS
  <2>4. h[s] = IF s = {} THEN 0 ELSE conn[seq[One(s)]].total + h[s \ {One(s)}]
    BY <1>5
  <2>5. CASE s = {}
    <3>1. All(Thread, seq, {}) = {}
      BY DEF All
    <3> QED
      BY <2>3, <2>4, <2>5, <3>1, FS_EmptySet
  <2>6. CASE s # {}
    <3>1. One(s) \in s /\ s \ {One(s)} \in SUBSET S
      BY <1>3, <2>6
    <3> DEFINE r == s \ {One(s)}
    <3>2. Cardinality(r) = Cardinality(s) - 1 /\ Cardinality(r) \in Nat /\ Cardinality(s) \in Nat
      BY <2>1, <3>1, FS_RemoveElement
    <3>3. Cardinality(r) \notin T
      BY <2>2, <2>3, <3>2
    <3>4. h[r] = Cardinality(All(Thread, seq, r))
      BY <3>1, <3>2, <3>3
    <3> QED
      BY <1>3, <2>3, <2>4, <2>6, <3>4
  <2> QED
    BY <2>5, <2>6
<1> QED
  BY <1>1, <1>6

LEMMA SkipCounts ==
    ASSUME Stored, NEW m \in Msg, NEW j \in 1..Len(conn[m].children)
    PROVE  Skip(conn[m].children[j]) = UpTo(conn[m].children, j - 1)
<1> DEFINE seq == conn[m].children
           c   == seq[j]
           before == {k \in DOMAIN seq : \E l \in DOMAIN seq : seq[l] = c /\ k < l}
<1>1. /\ Apart(seq) /\ seq \in Seq(Msg) /\ Len(seq) \in Nat /\ DOMAIN seq = 1..Len(seq)
      /\ \A i, k \in 1..Len(seq) : seq[i] = seq[k] => i = k
  BY ChildrenApart DEF Apart
<1>2. c \in Msg /\ Parent[c] = m /\ conn[c].parent = m
  <2>1. c \in Msg
    BY <1>1
  <2> QED
    BY <2>1, ChildrenApart DEF Parent
<1>3. before = 1..(j - 1)
  BY <1>1
<1>4. Skip(c) = MapThenSumSet(LAMBDA k : conn[seq[k]].total, before)
  BY <1>2 DEF Skip
<1>5. before \in SUBSET (1..Len(seq))
  BY <1>1
<1>6. MapThenSumSet(LAMBDA k : conn[seq[k]].total, before) = Cardinality(All(Thread, seq, before))
  <2> HIDE DEF seq, before
  <2> QED
    BY <1>1, <1>5, SumChosen
<1> QED
  BY <1>3, <1>4, <1>6 DEF UpTo
-----------------------------------------------------------------------------
(* Positions.  Position is a recursive function; it exists since it exists *)
(* on the messages down to any depth.                                      *)
Depth(m) == Cardinality(Above(Parent, m))

LEMMA DepthTyped ==
    ASSUME Stored, NEW m \in Msg
    PROVE  Depth(m) \in Nat /\ 1 <= Depth(m) /\ Depth(m) <= NumMsg
<1>1. Above(Parent, m) \in SUBSET Msg /\ m \in Above(Parent, m)
  BY AboveSelf DEF Stored
<1>2. IsFiniteSet(Above(Parent, m)) /\ Depth(m) \in Nat /\ Depth(m) <= NumMsg
  BY <1>1, MsgFinite, FS_Subset, FS_CardinalityType DEF Depth
<1>3. Depth(m) # 0
  BY <1>1, <1>2, FS_EmptySet DEF Depth
<1> QED
  BY <1>2, <1>3

LEMMA UpTheThread ==
    ASSUME Stored, NEW top \in Msg, NEW m \in Thread[top], m # top
    PROVE  /\ m \in Msg /\ Parent[m] \in Thread[top] /\ Parent[m] \in Msg
           /\ Parent[m] = conn[m].parent /\ Parent[m] # NoParent
           /\ Depth(m) = Depth(Parent[m]) + 1
           /\ \E j \in 1..Len(conn[Parent[m]].children) : conn[Parent[m]].children[j] = m
<1>1. Parent \in Parents(Msg) /\ Acyclic(Parent) /\ NoParent \notin Msg /\ DOMAIN Parent = Msg
  BY MsgFinite DEF Stored, Parent
<1>2. m \in Msg /\ top \in Above(Parent, m)
  BY DEF Thread, Below, Parent
<1>3. Parent[m] # NoParent
  <2>1. Parent[m] = NoParent => Above(Parent, m) = {m}
    BY <1>1, <1>2, AboveStep
  <2> QED
    BY <1>2, <2>1
<1>4. Parent[m] \in Msg /\ Parent[m] = conn[m].parent
  BY <1>1, <1>2, <1>3 DEF Parents, Parent
<1>5. Above(Parent, m) = {m} \cup Above(Parent, Parent[m])
  BY <1>1, <1>2, <1>3, AboveStep
<1>6. m \notin Above(Parent, Parent[m])
  BY <1>1, <1>2, <1>3 DEF Acyclic
<1>7. Parent[m] \in Thread[top]
  BY <1>1, <1>2, <1>4, <1>5 DEF Thread, Below
<1>8. Depth(m) = Depth(Parent[m]) + 1
  <2>1. Above(Parent, Parent[m]) \in SUBSET Msg
    BY <1>1, <1>4, AboveSelf
  <2>2. IsFiniteSet(Above(Parent, Parent[m]))
    BY <2>1, MsgFinite, FS_Subset
  <2>3. Above(Parent, m) = Above(Parent, Parent[m]) \cup {m}
    BY <1>5
  <2> QED
    BY <1>6, <2>2, <2>3, FS_AddElement DEF Depth
<1>9. \E j \in 1..Len(conn[Parent[m]].children) : conn[Parent[m]].children[j] = m
  BY <1>2, <1>4, ChildrenApart
<1> QED
  BY <1>2, <1>3, <1>4, <1>7, <1>8, <1>9

LEMMA SkipTyped ==
    ASSUME Stored, NEW top \in Msg, NEW m \in Thread[top], m # top
    PROVE  Skip(m) \in Nat
<1>1. Parent[m] \in Msg
  BY UpTheThread
<1> DEFINE seq == conn[Parent[m]].children
<1>2. PICK j \in 1..Len(seq) : seq[j] = m
  BY UpTheThread
<1>3. Skip(m) = UpTo(seq, j - 1)
  BY <1>1, <1>2, SkipCounts
<1>4. Apart(seq) /\ Len(seq) \in Nat
  <2>1. Apart(seq)
    BY <1>1, ChildrenApart
  <2> HIDE DEF seq
  <2> QED
    BY <2>1 DEF Apart
<1>5. j - 1 \in 0..Len(seq)
  BY <1>4
<1> HIDE DEF seq
<1> QED
  BY <1>3, <1>4, <1>5, UpToAdds

LEMMA PositionIs ==
    ASSUME Stored, NEW top \in Msg, NEW at \in Nat
    PROVE  /\ Position(top, at) \in [Thread[top] -> Nat]
           /\ Position(top, at)[top] = at
           /\ \A m \in Thread[top] : m # top =>
                 Position(top, at)[m] = Position(top, at)[Parent[m]] + 1 + Skip(m)
<1> DEFINE T == Thread[top]
           Eq(S, g) == g = [m \in S |-> IF m = top THEN at ELSE g[conn[m].parent] + 1 + Skip(m)]
           f == CHOOSE g : Eq(T, g)
           Down(n) == {m \in T : Depth(m) <= n}
           Bad == {n \in Nat : ~\E g : Eq(Down(n), g)}
<1>1. Position(top, at) = f
  <2>1. InThread(top) = T
    BY DEF InThread, Thread, Parent
  <2> QED
    BY <2>1 DEF Position
<1>2. T \in SUBSET Msg /\ top \in T
  <2>1. top \in Above(Parent, top)
    BY AboveSelf DEF Stored
  <2> QED
    BY <2>1, ThreadTyped DEF Thread, Below, Parent
<1>3. \A m \in T : Depth(m) \in Nat /\ 1 <= Depth(m) /\ Depth(m) <= NumMsg
  BY <1>2, DepthTyped
<1>4. \A m \in T : m # top =>
         Parent[m] \in T /\ Parent[m] = conn[m].parent /\ Depth(m) = Depth(Parent[m]) + 1
  BY UpTheThread
<1>5. Bad = {}
  <2> SUFFICES ASSUME Bad # {} PROVE FALSE
    OBVIOUS
  <2>1. PICK n \in Bad : \A k \in Bad : ~(k < n)
    <3>1. Bad \in SUBSET Nat
      OBVIOUS
    <3> HIDE DEF Bad
    <3> QED
      BY <3>1, LeastNumber
  <2>2. CASE n = 0
    <3>1. Down(n) = {}
      BY <1>3, <2>2
    <3>2. Eq({}, [m \in {} |-> 0])
      OBVIOUS
    <3> QED
      BY <3>1, <3>2
  <2>3. CASE n # 0
    <3>1. n - 1 \in Nat /\ n - 1 \notin Bad
      <4>1. n \in Nat /\ n - 1 \in Nat /\ n - 1 < n
        BY <2>3
      <4> HIDE DEF Bad
      <4> QED
        BY <2>1, <4>1
    <3>2. PICK g : Eq(Down(n - 1), g)
      BY <3>1
    <3> DEFINE g2 == [m \in Down(n) |-> IF m = top THEN at ELSE g[conn[m].parent] + 1 + Skip(m)]
    <3>3. ASSUME NEW m \in Down(n), m # top PROVE g2[conn[m].parent] = g[conn[m].parent]
      <4> DEFINE x == Parent[m]
      <4>1. x = conn[m].parent /\ x \in Down(n) /\ x \in Down(n - 1)
        BY <1>3, <1>4, <3>1, <3>3
      <4>2. g[x] = IF x = top THEN at ELSE g[conn[x].parent] + 1 + Skip(x)
        BY <3>2, <4>1
      <4>3. g2[x] = IF x = top THEN at ELSE g[conn[x].parent] + 1 + Skip(x)
        BY <4>1
      <4> QED
        BY <4>1, <4>2, <4>3
    <3>4. Eq(Down(n), g2)
      <4>1. ASSUME NEW m \in Down(n)
            PROVE  (IF m = top THEN at ELSE g[conn[m].parent] + 1 + Skip(m))
                     = (IF m = top THEN at ELSE g2[conn[m].parent] + 1 + Skip(m))
        <5> HIDE DEF g2
        <5> QED
          BY <3>3
      <4> QED
        BY <4>1
    <3> HIDE DEF g2, Eq
    <3> QED
      BY <3>4
  <2> QED
    BY <2>2, <2>3
<1>6. Eq(T, f)
  <2>1. Down(NumMsg) = T /\ NumMsg \in Nat
    BY <1>3, SortAssumption
  <2>2. \E g : Eq(Down(NumMsg), g)
    BY <1>5, <2>1
  <2> HIDE DEF Eq
  <2> QED
    BY <2>1, <2>2
<1> HIDE DEF f
<1>7. /\ DOMAIN f = T /\ f = [m \in T |-> f[m]] /\ f[top] = at
      /\ \A m \in T : m # top => f[m] = f[Parent[m]] + 1 + Skip(m)
  BY <1>2, <1>4, <1>6
<1>8. \A m \in T : f[m] \in Nat
  <2> DEFINE W == {Depth(m) : m \in {m \in T : f[m] \notin Nat}}
  <2> SUFFICES ASSUME W # {} PROVE FALSE
    OBVIOUS
  <2>1. PICK n \in W : \A k \in W : ~(k < n)
    <3>1. W \in SUBSET Nat
      BY <1>3
    <3> HIDE DEF W
    <3> QED
      BY <3>1, LeastNumber
  <2>2. PICK m \in T : n = Depth(m) /\ f[m] \notin Nat
    OBVIOUS
  <2>3. m # top
    BY <1>7, <2>2
  <2>4. Parent[m] \in T /\ Depth(Parent[m]) \in Nat /\ Depth(Parent[m]) < n
    BY <1>3, <1>4, <2>2, <2>3
  <2>5. f[Parent[m]] \in Nat
    BY <2>1, <2>4
  <2>6. Skip(m) \in Nat
    BY <2>3, SkipTyped
  <2> QED
    BY <1>7, <2>2, <2>3, <2>5, <2>6
<1>9. f \in [T -> Nat]
  BY <1>7, <1>8
<1> QED
  BY <1>1, <1>7, <1>9
LEMMA ChildInThread ==
    ASSUME Stored, NEW top \in Msg, NEW m \in Thread[top], NEW c \in Msg, Parent[c] = m
    PROVE  /\ c \in Thread[top] /\ c # top /\ Thread[m] \subseteq Thread[top]
           /\ Thread[c] \subseteq Thread[m] /\ m \notin Thread[c] /\ m \in Msg
           /\ Cardinality(Thread[c]) < Cardinality(Thread[m])
<1>1. Parent \in Parents(Msg) /\ Acyclic(Parent) /\ NoParent \notin Msg /\ DOMAIN Parent = Msg
  BY MsgFinite DEF Stored, Parent
<1>2. m \in Msg /\ top \in Above(Parent, m) /\ m # NoParent
  BY <1>1 DEF Thread, Below
<1>3. Above(Parent, c) = {c} \cup Above(Parent, m)
  BY <1>1, <1>2, AboveStep
<1>4. c \in Thread[top]
  BY <1>1, <1>2, <1>3 DEF Thread, Below
<1>5. c # top
  BY <1>1, <1>2 DEF Acyclic
<1>6. ASSUME NEW x \in Msg, NEW y \in Msg, y \in Thread[x] PROVE Thread[y] \subseteq Thread[x]
  <2>1. x \in Above(Parent, y)
    BY <1>6 DEF Thread, Below
  <2> SUFFICES ASSUME NEW z \in Thread[y] PROVE z \in Thread[x]
    OBVIOUS
  <2>2. z \in Msg /\ y \in Above(Parent, z)
    BY <1>1, <1>6 DEF Thread, Below
  <2>3. Above(Parent, y) \subseteq Above(Parent, z)
    BY <1>1, <2>2, AboveTrans
  <2> QED
    BY <1>1, <2>1, <2>2, <2>3 DEF Thread, Below
<1>7. c \in Thread[m]
  <2>1. m \in Above(Parent, m)
    BY <1>1, <1>2, AboveSelf
  <2> QED
    BY <1>1, <1>2, <1>3, <2>1 DEF Thread, Below
<1>8. m \notin Thread[c]
  BY <1>1, <1>2, BelowApart DEF Thread
<1>9. m \in Thread[m]
  BY <1>1, <1>2, AboveSelf DEF Thread, Below
<1>10. Thread[c] \subseteq Thread[m]
  BY <1>2, <1>6, <1>7
<1>11. Cardinality(Thread[c]) < Cardinality(Thread[m])
  <2>1. IsFiniteSet(Thread[m]) /\ Cardinality(Thread[m]) \in Nat
    BY <1>2, ThreadTyped
  <2>2. Thread[c] \in SUBSET (Thread[m] \ {m})
    BY <1>8, <1>10
  <2>3. /\ IsFiniteSet(Thread[m] \ {m})
        /\ Cardinality(Thread[m] \ {m}) = Cardinality(Thread[m]) - 1
    BY <1>9, <2>1, FS_RemoveElement
  <2>4. /\ IsFiniteSet(Thread[c]) /\ Cardinality(Thread[c]) \in Nat
        /\ Cardinality(Thread[c]) <= Cardinality(Thread[m] \ {m})
    BY <2>2, <2>3, FS_Subset, FS_CardinalityType
  <2> QED
    BY <2>1, <2>3, <2>4
<1> QED
  BY <1>2, <1>4, <1>5, <1>6, <1>8, <1>10, <1>11

(* The threads of a list lie one behind the other without a gap.           *)
LEMMA Tiles ==
    ASSUME Stored, NEW seq, Apart(seq), NEW k \in Int, 1 <= k, k <= UpTo(seq, Len(seq))
    PROVE  \E j \in 1..Len(seq) : UpTo(seq, j - 1) < k /\ k <= UpTo(seq, j)
<1> DEFINE n == Len(seq)
           T == {j \in Nat : j <= n /\ k <= UpTo(seq, j)}
<1>1. n \in Nat
  BY DEF Apart
<1>2. UpTo(seq, 0) = 0 /\ \A j \in 0..n : UpTo(seq, j) \in Nat
  BY UpToAdds
<1>3. n \in T
  BY <1>1
<1>4. PICK j \in T : \A i \in T : ~(i < j)
  <2>1. T \in SUBSET Nat /\ T # {}
    BY <1>3
  <2> HIDE DEF T
  <2> QED
    BY <2>1, LeastNumber
<1>5. j # 0
  BY <1>2
<1>6. j \in 1..n /\ j - 1 \in Nat /\ j - 1 <= n /\ j - 1 < j
  BY <1>1, <1>5
<1>7. j - 1 \notin T
  <2> HIDE DEF T
  <2> QED
    BY <1>4, <1>6
<1>8. UpTo(seq, j - 1) \in Nat
  BY <1>1, <1>2, <1>6
<1>9. UpTo(seq, j - 1) < k /\ k <= UpTo(seq, j)
  BY <1>6, <1>7, <1>8
<1> QED
  BY <1>6, <1>9

(* The thread of m has the numbers from the one of m on, each once.        *)
Fills(f, m) ==
    /\ \A x \in Thread[m] : f[m] <= f[x] /\ f[x] < f[m] + conn[m].total
    /\ \A k \in f[m]..(f[m] + conn[m].total - 1) : \E x \in Thread[m] : f[x] = k
    /\ \A x, y \in Thread[m] : f[x] = f[y] => x = y

(* f numbers a thread in the order uat-verify walks it.                    *)
Follows(f, m) == \A j \in 1..Len(conn[m].children) :
    f[conn[m].children[j]] = f[m] + 1 + UpTo(conn[m].children, j - 1)

LEMMA PositionFollows ==
    ASSUME Stored, NEW top \in Msg, NEW at \in Nat, NEW m \in Thread[top]
    PROVE  Follows(Position(top, at), m)
<1> DEFINE f == Position(top, at)
           seq == conn[m].children
<1> SUFFICES ASSUME NEW j \in 1..Len(seq)
             PROVE  f[seq[j]] = f[m] + 1 + UpTo(seq, j - 1)
  BY DEF Follows
<1>1. m \in Msg
  BY ThreadTyped
<1>2. seq[j] \in Msg /\ Parent[seq[j]] = m
  <2>1. Apart(seq)
    BY <1>1, ChildrenApart
  <2>2. seq[j] \in Msg
    BY <2>1 DEF Apart
  <2> QED
    BY <1>1, <2>2, ChildrenApart
<1>3. seq[j] \in Thread[top] /\ seq[j] # top
  BY <1>2, ChildInThread
<1>4. f[seq[j]] = f[m] + 1 + Skip(seq[j])
  <2>1. \A x \in Thread[top] : x # top => f[x] = f[Parent[x]] + 1 + Skip(x)
    BY PositionIs
  <2> HIDE DEF f, seq
  <2> QED
    BY <1>2, <1>3, <2>1
<1>5. Skip(seq[j]) = UpTo(seq, j - 1)
  BY <1>1, SkipCounts
<1> QED
  BY <1>4, <1>5

LEMMA FollowingFills ==
    ASSUME Stored, NEW top \in Msg, NEW f \in [Thread[top] -> Nat],
           \A m \in Thread[top] : Follows(f, m)
    PROVE  \A m \in Thread[top] : Fills(f, m)
<1> DEFINE T == Thread[top]
           W == {Cardinality(Thread[m]) : m \in {m \in T : ~Fills(f, m)}}
<1> SUFFICES ASSUME W # {} PROVE FALSE
  OBVIOUS
<1>1. T \in SUBSET Msg
  BY ThreadTyped
<1>2. PICK n \in W : \A k \in W : ~(k < n)
  <2>1. W \in SUBSET Nat
    BY <1>1, ThreadTyped
  <2> HIDE DEF W
  <2> QED
    BY <2>1, LeastNumber
<1>3. PICK m \in T : n = Cardinality(Thread[m]) /\ ~Fills(f, m)
  OBVIOUS
<1> DEFINE seq == conn[m].children
           all == All(Thread, seq, 1..Len(seq))
<1>4. /\ m \in Msg /\ f[m] \in Nat /\ Apart(seq) /\ Len(seq) \in Nat
      /\ \A j \in 1..Len(seq) : seq[j] \in Msg /\ Parent[seq[j]] = m
      /\ Thread[m] = {m} \cup all /\ m \notin all
      /\ conn[m].total = 1 + UpTo(seq, Len(seq))
  <2>1. m \in Msg
    BY <1>1
  <2>2. Apart(seq)
    BY <2>1, ChildrenApart
  <2>3. Len(seq) \in Nat /\ \A j \in 1..Len(seq) : seq[j] \in Msg
    BY <2>2 DEF Apart
  <2>4. \A j \in 1..Len(seq) : Parent[seq[j]] = m
    BY <2>1, <2>3, ChildrenApart
  <2> QED
    BY <2>1, <2>2, <2>3, <2>4, ChildrenApart
<1>5. \A j \in 1..Len(seq) : f[seq[j]] = f[m] + 1 + UpTo(seq, j - 1)
  BY DEF Follows
<1>6. ASSUME NEW j \in 1..Len(seq)
      PROVE  seq[j] \in T /\ Fills(f, seq[j]) /\ Thread[seq[j]] \subseteq T
  <2>1. seq[j] \in T /\ Cardinality(Thread[seq[j]]) < n
    <3>1. seq[j] \in Msg /\ Parent[seq[j]] = m /\ n = Cardinality(Thread[m])
      BY <1>3, <1>4
    <3> HIDE DEF seq, W, all
    <3> QED
      BY <3>1, ChildInThread
  <2>2. Cardinality(Thread[seq[j]]) \notin W
    <3> HIDE DEF W
    <3> QED
      BY <1>2, <2>1
  <2>3. Fills(f, seq[j])
    BY <2>1, <2>2
  <2>4. Thread[seq[j]] \subseteq Thread[m] /\ Thread[m] \subseteq T
    BY <1>4, ChildInThread
  <2> QED
    BY <2>1, <2>3, <2>4
<1>7. /\ UpTo(seq, 0) = 0
      /\ \A j \in 0..Len(seq) : UpTo(seq, j) \in Nat
      /\ \A j \in 1..Len(seq) : UpTo(seq, j) = UpTo(seq, j - 1) + conn[seq[j]].total
      /\ \A i, j \in 0..Len(seq) : i <= j => UpTo(seq, i) <= UpTo(seq, j)
  BY <1>4, UpToAdds
<1> HIDE DEF W, seq
<1>8. ASSUME NEW j \in 1..Len(seq)
      PROVE  /\ j - 1 \in 0..Len(seq) /\ UpTo(seq, j - 1) \in Nat /\ UpTo(seq, j) \in Nat
             /\ UpTo(seq, j) <= UpTo(seq, Len(seq)) /\ 0 <= UpTo(seq, j - 1)
             /\ f[seq[j]] + conn[seq[j]].total = f[m] + 1 + UpTo(seq, j)
             /\ f[seq[j]] \in Nat /\ conn[seq[j]].total \in Nat
  <2>1. j - 1 \in 0..Len(seq) /\ j \in 0..Len(seq) /\ Len(seq) \in 0..Len(seq) /\ j <= Len(seq)
    BY <1>4
  <2>2. conn[seq[j]].total \in Nat
    BY <1>4, ThreadTyped DEF Stored
  <2>3. UpTo(seq, j - 1) \in Nat /\ UpTo(seq, j) \in Nat /\ UpTo(seq, j) <= UpTo(seq, Len(seq))
    BY <1>7, <2>1
  <2>4. f[seq[j]] = f[m] + 1 + UpTo(seq, j - 1) /\ UpTo(seq, j) = UpTo(seq, j - 1) + conn[seq[j]].total
    BY <1>5, <1>7
  <2>5. f[seq[j]] + conn[seq[j]].total = f[m] + 1 + UpTo(seq, j) /\ f[seq[j]] \in Nat
    <3> DEFINE a == f[seq[j]]
               t == conn[seq[j]].total
               u == UpTo(seq, j - 1)
               v == UpTo(seq, j)
               b == f[m]
    <3>1. a = b + 1 + u /\ v = u + t /\ b \in Nat /\ t \in Nat /\ u \in Nat
      BY <1>4, <2>2, <2>3, <2>4
    <3> HIDE DEF a, t, u, v, b
    <3>2. a + t = b + 1 + v /\ a \in Nat
      BY <3>1
    <3> QED
      BY <3>2 DEF a, t, u, v, b
  <2> QED
    BY <2>1, <2>2, <2>3, <2>5
<1>9. ASSUME NEW j \in 1..Len(seq), NEW x \in Thread[seq[j]]
      PROVE  /\ x \in T /\ f[x] \in Nat
             /\ f[m] + 1 + UpTo(seq, j - 1) <= f[x] /\ f[x] < f[m] + 1 + UpTo(seq, j)
  <2>1. x \in T /\ f[x] \in Nat
    BY <1>6
  <2>2. f[seq[j]] <= f[x] /\ f[x] < f[seq[j]] + conn[seq[j]].total
    BY <1>6 DEF Fills
  <2> QED
    BY <1>5, <1>8, <2>1, <2>2
<1>10. ASSUME NEW x \in all
       PROVE  \E j \in 1..Len(seq) : x \in Thread[seq[j]]
  BY DEF All
<1>11. ASSUME NEW x \in Thread[m]
       PROVE  /\ f[m] <= f[x] /\ f[x] < f[m] + conn[m].total
              /\ x # m => f[m] < f[x]
  <2>1. UpTo(seq, Len(seq)) \in Nat
    BY <1>4, <1>7
  <2>2. CASE x = m
    BY <1>4, <2>1, <2>2
  <2>3. CASE x # m
    <3>1. PICK j \in 1..Len(seq) : x \in Thread[seq[j]]
      BY <1>4, <1>10, <2>3
    <3> QED
      BY <1>4, <1>8, <1>9, <2>1, <3>1
  <2> QED
    BY <2>2, <2>3
<1>12. ASSUME NEW k \in f[m]..(f[m] + conn[m].total - 1)
       PROVE  \E x \in Thread[m] : f[x] = k
  <2>1. CASE k = f[m]
    BY <1>4, <2>1
  <2>2. CASE k # f[m]
    <3>1. k - f[m] \in Int /\ 1 <= k - f[m] /\ k - f[m] <= UpTo(seq, Len(seq)) /\ k \in Int
      BY <1>4, <1>7, <2>2
    <3>2. PICK j \in 1..Len(seq) : UpTo(seq, j - 1) < k - f[m] /\ k - f[m] <= UpTo(seq, j)
      BY <1>4, <3>1, Tiles
    <3>3. k \in f[seq[j]]..(f[seq[j]] + conn[seq[j]].total - 1)
      <4>1. f[m] + 1 + UpTo(seq, j - 1) <= k /\ k < f[m] + 1 + UpTo(seq, j)
        BY <1>4, <1>8, <3>1, <3>2
      <4> DEFINE a == f[seq[j]]
                 t == conn[seq[j]].total
      <4>2. a <= k /\ k < a + t /\ a \in Nat /\ t \in Nat /\ k \in Int
        BY <1>5, <1>8, <3>1, <4>1
      <4> HIDE DEF a, t
      <4>3. k \in a..(a + t - 1)
        BY <4>2
      <4> QED
        BY <4>3 DEF a, t
    <3>4. PICK x \in Thread[seq[j]] : f[x] = k
      BY <1>6, <3>3 DEF Fills
    <3>5. x \in all
      BY <3>4 DEF All
    <3> QED
      BY <1>4, <3>4, <3>5
  <2> QED
    BY <2>1, <2>2
<1>13. ASSUME NEW x \in all, NEW y \in all, f[x] = f[y]
       PROVE  x = y
  <2>1. PICK i \in 1..Len(seq) : x \in Thread[seq[i]]
    BY <1>10
  <2>2. PICK j \in 1..Len(seq) : y \in Thread[seq[j]]
    BY <1>10
  <2>3. ASSUME NEW a \in 1..Len(seq), NEW b \in 1..Len(seq), a < b,
               NEW u \in Thread[seq[a]], NEW v \in Thread[seq[b]]
        PROVE  f[u] < f[v]
    <3>1. a \in 0..Len(seq) /\ b - 1 \in 0..Len(seq) /\ a <= b - 1
      BY <1>4, <2>3
    <3>2. UpTo(seq, a) <= UpTo(seq, b - 1)
      BY <1>7, <3>1
    <3>3. f[u] < f[m] + 1 + UpTo(seq, a) /\ f[m] + 1 + UpTo(seq, b - 1) <= f[v]
          /\ f[u] \in Nat /\ f[v] \in Nat
      BY <1>9
    <3>4. UpTo(seq, a) \in Nat /\ UpTo(seq, b - 1) \in Nat
      BY <1>8
    <3> QED
      BY <1>4, <3>2, <3>3, <3>4
  <2>4. f[x] \in Nat
    BY <1>9, <2>1
  <2>5. ~(i < j) /\ ~(j < i)
    <3>1. ~(f[x] < f[y]) /\ ~(f[y] < f[x])
      BY <1>13, <2>4
    <3> QED
      BY <2>1, <2>2, <2>3, <3>1
  <2>6. i = j
    BY <2>5
  <2> QED
    BY <1>6, <1>13, <2>1, <2>2, <2>6 DEF Fills
<1>14. ASSUME NEW x \in Thread[m], NEW y \in Thread[m], f[x] = f[y]
       PROVE  x = y
  <2>1. \A z \in Thread[m] : z # m => z \in all /\ f[m] < f[z]
    BY <1>4, <1>11
  <2>2. ~(f[m] < f[m])
    BY <1>4
  <2> QED
    BY <1>13, <1>14, <2>1, <2>2
<1>15. Fills(f, m)
  BY <1>11, <1>12, <1>14 DEF Fills
<1> QED
  BY <1>3, <1>15
-----------------------------------------------------------------------------
(* The numbers given so far: the threads up to t one behind the other,     *)
(* each in the order uat-verify walks it.                                  *)
Ordered(t, i, o, r) ==
    /\ t \in 1..(Len(toplevel) + 1)
    /\ i = UpTo(toplevel, t - 1)
    /\ o \in [Msg -> Msg \cup {NoMsg}]
    /\ \A k \in Msg : k < i <=> o[k] # NoMsg
    /\ \A m \in Msg : m \in All(Thread, toplevel, 1..(t - 1)) <=> \E k \in Msg : o[k] = m
    /\ \A k, l \in Msg : o[k] = o[l] /\ o[k] # NoMsg => k = l
    /\ r \in Seq(Msg) /\ Len(r) = t - 1
    /\ \A j \in 1..(t - 1) : r[j] = UpTo(toplevel, j - 1) /\ o[r[j]] = toplevel[j]
    /\ \A k \in Msg : o[k] # NoMsg =>
          \A j \in 1..Len(conn[o[k]].children) :
             LET c == k + 1 + UpTo(conn[o[k]].children, j - 1)
             IN  c \in Msg /\ o[c] = conn[o[k]].children[j]

(* order and rev are inverse to each other once all threads have numbers.  *)
Renumbered == phase \notin {"lexicon", "order"} =>
    /\ thread = Len(toplevel) + 1
    /\ \A m \in Msg : rev[m] \in Msg /\ order[rev[m]] = m
    /\ \A k \in Msg : order[k] \in Msg /\ rev[order[k]] = k

(* What is in the files written so far.                                    *)
FilesInv ==
    /\ DOMAIN file = DOMAIN Unwritten
    /\ phase \in {"toplevel", "conn", "midmeta", "midhash", "lexdata", "strmeta", "lexsort", "done"}
          => file["messages"] = order
    /\ phase \in {"conn", "midmeta", "midhash", "lexdata", "strmeta", "lexsort", "done"}
          => file["toplevel"] = revtop
    /\ phase \in {"midmeta", "midhash", "lexdata", "strmeta", "lexsort", "done"}
          => file["conn"] = MovedConn
    /\ phase \in {"midhash", "lexdata", "strmeta", "lexsort", "done"} => file["midmeta"] = order
    /\ phase \in {"lexdata", "strmeta", "lexsort", "done"} => file["midhash"] = rev
    /\ phase \in {"lexsort", "done"} => file["strmeta"] = order

IInv == /\ Stored
        /\ Ordered(thread, idx, order, revtop)
        /\ rev \in [Msg -> Msg \cup {NoMsg}]
        /\ phase \in {"order", "rev", "messages", "toplevel", "conn", "midmeta",
                      "midhash", "lexdata", "strmeta", "lexicon", "lexsort", "done"}
        /\ Renumbered
        /\ FilesInv

LEMMA InitStored == Init => Stored
<1> SUFFICES ASSUME Init PROVE Stored
  OBVIOUS
<1>1. PICK parent \in {p \in [Msg -> Msg \cup {NoParent}] : Acyclic(p)}, key \in ChildOrders :
         /\ conn = [m \in Msg |->
                      [parent   |-> parent[m],
                       total    |-> Cardinality(Below(parent, m)),
                       children |-> InOrder({c \in Msg : parent[c] = m}, key)]]
         /\ toplevel \in SetToSeqs({m \in Msg : parent[m] = NoParent})
  BY DEF Init, SortInit
<1>2. parent \in [Msg -> Msg \cup {NoParent}] /\ Acyclic(parent) /\ key \in [Msg -> Nat]
  BY SortAssumption
<1>3. \A m \in Msg : /\ conn[m].parent = parent[m]
                     /\ conn[m].total = Cardinality(Below(parent, m))
                     /\ conn[m].children = InOrder({c \in Msg : parent[c] = m}, key)
                     /\ conn[m] = [parent |-> conn[m].parent, total |-> conn[m].total,
                                   children |-> conn[m].children]
  BY <1>1
<1>4. DOMAIN conn = Msg /\ conn = [m \in Msg |-> conn[m]]
  BY <1>1
<1>5. Parent = parent
  BY <1>2, <1>3 DEF Parent
<1>6. Parent \in Parents(Msg) /\ Acyclic(Parent)
  BY <1>2, <1>5 DEF Parents
<1>7. ASSUME NEW m \in Msg
      PROVE  /\ conn[m].total = Cardinality(Thread[m])
             /\ conn[m].total \in 1..NumMsg
  <2>1. Thread[m] = Below(parent, m)
    BY <1>5 DEF Thread
  <2>2. m \in Thread[m]
    BY <1>6, AboveSelf DEF Thread, Below, Parent
  <2>3. /\ Thread[m] \in SUBSET Msg /\ IsFiniteSet(Thread[m])
        /\ Cardinality(Thread[m]) \in Nat
    BY ThreadTyped
  <2>4. Cardinality(Thread[m]) <= NumMsg /\ NumMsg \in Nat
    BY <2>3, MsgFinite, FS_Subset, SortAssumption
  <2>5. Cardinality(Thread[m]) # 0
    BY <2>2, <2>3, FS_EmptySet
  <2>6. conn[m].total = Cardinality(Below(parent, m))
    BY <1>3
  <2>7. conn[m].total = Cardinality(Thread[m])
    BY <2>1, <2>6
  <2>8. Cardinality(Thread[m]) \in 1..NumMsg
    BY <2>3, <2>4, <2>5
  <2> QED
    BY <2>7, <2>8
<1>8. ASSUME NEW m \in Msg
      PROVE  /\ conn[m].children \in List(Msg)
             /\ Range(conn[m].children) = {c \in Msg : Parent[c] = m}
  <2> DEFINE S == {c \in Msg : parent[c] = m}
             t == [c \in S |-> key[c]]
  <2>1. IsFiniteSet(S) /\ S \subseteq Msg
    BY MsgFinite, FS_Subset
  <2>2. t \in [S -> Int] /\ \A c \in S : t[c] = key[c]
    BY <1>2
  <2> HIDE DEF S, t
  <2>3. PICK s \in SetToSeqs(S) : \A k, l \in DOMAIN s : k < l => t[s[k]] <= t[s[l]]
    BY <2>1, <2>2, CanBeSorted
  <2>4. s \in List(S) /\ Range(s) = S
    BY <2>1, SortedList
  <2>5. \A k \in DOMAIN s : s[k] \in S
    BY <2>4 DEF Range
  <2>6. \A k, l \in DOMAIN s : k < l => key[s[k]] <= key[s[l]]
    BY <2>2, <2>3, <2>5
  <2>7. InOrder(S, key) \in SetToSeqs(S)
    BY <2>6 DEF InOrder
  <2>8. InOrder(S, key) \in List(S) /\ Range(InOrder(S, key)) = S
    BY <2>1, <2>7, SortedList
  <2>9. InOrder(S, key) \in List(Msg)
    BY <2>1, <2>8, ListOfMore
  <2>10. conn[m].children = InOrder(S, key) /\ S = {c \in Msg : Parent[c] = m}
    BY <1>3, <1>5 DEF S
  <2> QED
    BY <2>8, <2>9, <2>10
<1>9. toplevel \in List(Msg) /\ Range(toplevel) = {m \in Msg : Parent[m] = NoParent}
  <2> DEFINE S == {m \in Msg : parent[m] = NoParent}
  <2>1. IsFiniteSet(S) /\ S \subseteq Msg /\ toplevel \in SetToSeqs(S)
    BY <1>1, MsgFinite, FS_Subset
  <2> HIDE DEF S
  <2>2. toplevel \in List(S) /\ Range(toplevel) = S
    BY <2>1, SortedList
  <2>3. toplevel \in List(Msg)
    BY <2>1, <2>2, ListOfMore
  <2> QED
    BY <1>5, <2>2, <2>3 DEF S
<1>10. conn \in [Msg -> Conn]
  <2>1. ASSUME NEW m \in Msg PROVE conn[m] \in Conn
    <3>1. conn[m].parent \in Msg \cup {NoParent}
      BY <1>2, <1>3
    <3>2. conn[m].children \in Seq(Msg)
      BY <1>8 DEF List
    <3>3. conn[m].total \in 1..NumMsg
      BY <1>7
    <3>4. conn[m] = [parent |-> conn[m].parent, total |-> conn[m].total,
                     children |-> conn[m].children]
      BY <1>3
    <3> QED
      BY <3>1, <3>2, <3>3, <3>4 DEF Conn
  <2> QED
    BY <1>4, <2>1
<1> QED
  BY <1>6, <1>7, <1>8, <1>9, <1>10 DEF Stored

LEMMA InitIInv == Init => IInv
<1> SUFFICES ASSUME Init PROVE IInv
  OBVIOUS
<1>1. Stored
  BY InitStored
<1>2. /\ idx = 0 /\ thread = 1 /\ order = [k \in Msg |-> NoMsg] /\ revtop = <<>>
      /\ rev = [m \in Msg |-> NoMsg] /\ file = Unwritten /\ phase = "lexicon"
  BY DEF Init, SortInit
<1>3. Ordered(thread, idx, order, revtop)
  <2>1. UpTo(toplevel, 0) = 0 /\ Len(toplevel) \in Nat
    BY <1>1, TopsApart, UpToAdds DEF Apart
  <2>2. All(Thread, toplevel, 1..0) = {}
    BY DEF All
  <2>3. \A k \in Msg : ~(k < 0) /\ order[k] = NoMsg
    BY <1>2, SortAssumption DEF Msg
  <2>4. revtop \in Seq(Msg) /\ Len(revtop) = 0 /\ 1..0 = {}
    BY <1>2
  <2>5. order \in [Msg -> Msg \cup {NoMsg}] /\ NoMsg \notin Msg
    BY <1>2, MsgFinite
  <2>6. thread - 1 = 0 /\ thread \in 1..(Len(toplevel) + 1)
    BY <1>2, <2>1
  <2> QED
    BY <1>2, <2>1, <2>2, <2>3, <2>4, <2>5, <2>6 DEF Ordered
<1> QED
  BY <1>1, <1>2, <1>3 DEF IInv, Renumbered, FilesInv
-----------------------------------------------------------------------------
(* A thread more: the numbers from idx on go to its messages.              *)
LEMMA ThreadPlaced ==
    ASSUME IInv, NEW top \in Msg, ExpandThread(top)
    PROVE  LET f == Position(top, idx)
           IN  /\ f \in [Thread[top] -> Nat] /\ f[top] = idx
               /\ idx \in Nat /\ idx' = idx + conn[top].total /\ idx' \in Nat /\ idx' <= NumMsg
               /\ idx < idx' /\ idx' = UpTo(toplevel, thread)
               /\ \A x \in Thread[top] :
                     /\ f[x] \in Msg /\ idx <= f[x] /\ f[x] < idx'
                     /\ order'[f[x]] = x
                     /\ Follows(f, x)
               /\ \A k \in Msg : idx <= k /\ k < idx' => \E x \in Thread[top] : f[x] = k
               /\ \A k \in Msg : k < idx \/ idx' <= k => order'[k] = order[k]
               /\ DOMAIN order' = Msg
<1> DEFINE f == Position(top, idx)
<1>1. Stored /\ Ordered(thread, idx, order, revtop)
  BY DEF IInv
<1>2. /\ thread \in 1..Len(toplevel) /\ top = toplevel[thread] /\ idx' = idx + conn[top].total
      /\ order' = [k \in Msg |-> IF \E m \in InThread(top) : f[m] = k
                                 THEN CHOOSE m \in InThread(top) : f[m] = k
                                 ELSE order[k]]
  BY <1>1 DEF ExpandThread, Ordered
<1>3. InThread(top) = Thread[top] /\ Thread[top] \subseteq Msg /\ top \in Thread[top]
  <2>1. top \in Above(Parent, top)
    BY <1>1, AboveSelf DEF Stored
  <2> QED
    BY <2>1, ThreadTyped DEF InThread, Thread, Parent, Below
<1>4. /\ idx \in Nat /\ idx' = UpTo(toplevel, thread) /\ idx' \in Nat /\ idx' <= NumMsg
      /\ idx < idx'
  <2>1. Apart(toplevel) /\ UpTo(toplevel, Len(toplevel)) = NumMsg /\ Len(toplevel) \in Nat
    <3>1. Apart(toplevel) /\ UpTo(toplevel, Len(toplevel)) = NumMsg
      BY <1>1, TopsApart
    <3>2. toplevel \in Seq(Msg)
      BY <3>1 DEF Apart
    <3>3. Len(toplevel) \in Nat
      BY <3>2
    <3> QED
      BY <3>1, <3>3
  <2>2. thread - 1 \in 0..Len(toplevel) /\ thread \in 0..Len(toplevel) /\ thread <= Len(toplevel)
        /\ Len(toplevel) \in 0..Len(toplevel)
    BY <1>2, <2>1
  <2>3. /\ UpTo(toplevel, thread - 1) \in Nat /\ UpTo(toplevel, thread) \in Nat
        /\ UpTo(toplevel, thread) = UpTo(toplevel, thread - 1) + conn[top].total
        /\ UpTo(toplevel, thread) <= UpTo(toplevel, Len(toplevel))
    BY <1>1, <1>2, <2>1, <2>2, UpToAdds
  <2>4. idx = UpTo(toplevel, thread - 1)
    BY <1>1 DEF Ordered
  <2>5. conn[top].total \in Nat /\ 1 <= conn[top].total
    BY <1>1, SortAssumption DEF Stored, Conn
  <2> QED
    BY <1>2, <2>1, <2>3, <2>4, <2>5
<1>5. f \in [Thread[top] -> Nat] /\ f[top] = idx
  BY <1>1, <1>4, PositionIs
<1>6. \A x \in Thread[top] : Follows(f, x)
  BY <1>1, <1>4, PositionFollows
<1> HIDE DEF f
<1>7. Fills(f, top)
  BY <1>1, <1>3, <1>5, <1>6, FollowingFills
<1>8. ASSUME NEW x \in Thread[top]
      PROVE  f[x] \in Msg /\ idx <= f[x] /\ f[x] < idx' /\ order'[f[x]] = x
  <2>1. idx <= f[x] /\ f[x] < idx' /\ f[x] \in Nat
    BY <1>2, <1>5, <1>7 DEF Fills
  <2>2. f[x] \in Msg
    BY <1>4, <2>1, SortAssumption DEF Msg
  <2>3. \A m \in Thread[top] : f[m] = f[x] => m = x
    BY <1>7 DEF Fills
  <2>4. order'[f[x]] = CHOOSE m \in Thread[top] : f[m] = f[x]
    BY <1>2, <1>3, <2>2
  <2> QED
    BY <2>1, <2>2, <2>3, <2>4
<1>9. ASSUME NEW k \in Msg, idx <= k, k < idx'
      PROVE  \E x \in Thread[top] : f[x] = k
  <2>1. k \in f[top]..(f[top] + conn[top].total - 1)
    <3>1. k \in Int /\ conn[top].total \in Nat
      BY <1>1, SortAssumption DEF Stored, Conn, Msg
    <3> QED
      BY <1>2, <1>4, <1>5, <1>9, <3>1
  <2> QED
    BY <1>7, <2>1 DEF Fills
<1>10. ASSUME NEW k \in Msg, k < idx \/ idx' <= k
       PROVE  order'[k] = order[k]
  <2>1. k \in Int
    BY SortAssumption DEF Msg
  <2>2. ~\E x \in Thread[top] : f[x] = k
    <3> SUFFICES ASSUME NEW x \in Thread[top], f[x] = k PROVE FALSE
      OBVIOUS
    <3>1. idx <= k /\ k < idx'
      BY <1>8
    <3> QED
      BY <1>4, <1>10, <2>1, <3>1
  <2> QED
    BY <1>2, <1>3, <2>2
<1>11. DOMAIN order' = Msg
  BY <1>2
<1> QED
  BY <1>2, <1>4, <1>5, <1>6, <1>8, <1>9, <1>10, <1>11 DEF f

LEMMA StepExpand ==
    ASSUME IInv, NEW top \in Msg, ExpandThread(top)
    PROVE  Ordered(thread', idx', order', revtop')
<1> DEFINE f == Position(top, idx)
<1>1. Stored /\ Ordered(thread, idx, order, revtop)
  BY DEF IInv
<1>2. /\ thread \in 1..Len(toplevel) /\ top = toplevel[thread] /\ thread' = thread + 1
      /\ revtop' = Append(revtop, idx) /\ Len(toplevel) \in Nat
  BY <1>1, TopsApart DEF ExpandThread, Ordered, Apart
<1>3. /\ f \in [Thread[top] -> Nat] /\ f[top] = idx
      /\ idx \in Nat /\ idx' \in Nat /\ idx' <= NumMsg /\ idx < idx'
      /\ idx' = UpTo(toplevel, thread) /\ DOMAIN order' = Msg
  BY ThreadPlaced
<1>4. \A x \in Thread[top] : /\ f[x] \in Msg /\ idx <= f[x] /\ f[x] < idx'
                             /\ order'[f[x]] = x /\ Follows(f, x)
  BY ThreadPlaced
<1>5. \A k \in Msg : idx <= k /\ k < idx' => \E x \in Thread[top] : f[x] = k
  BY ThreadPlaced
<1>6. \A k \in Msg : k < idx \/ idx' <= k => order'[k] = order[k]
  BY ThreadPlaced
<1> HIDE DEF f
<1>7. Thread[top] \subseteq Msg /\ top \in Thread[top] /\ NoMsg \notin Msg
  <2>1. top \in Above(Parent, top)
    BY <1>1, AboveSelf DEF Stored
  <2> QED
    BY <2>1, MsgFinite, ThreadTyped DEF Thread, Parent, Below
<1> DEFINE Now == All(Thread, toplevel, 1..(thread - 1))
<1>8. /\ All(Thread, toplevel, 1..(thread' - 1)) = Now \cup Thread[top]
      /\ Now \cap Thread[top] = {}
  <2>1. 1..(thread' - 1) = 1..(thread - 1) \cup {thread}
    BY <1>2
  <2>2. All(Thread, toplevel, 1..(thread' - 1)) = Now \cup Thread[top]
    BY <1>2, <2>1 DEF All
  <2>3. \A j \in 1..(thread - 1) : j \in 1..Len(toplevel) /\ j # thread
    BY <1>2
  <2>4. \A j \in 1..(thread - 1) : Thread[toplevel[j]] \cap Thread[top] = {}
    BY <1>1, <1>2, <2>3, TopsApart DEF Apart
  <2> QED
    BY <2>2, <2>4 DEF All
<1>9. /\ order \in [Msg -> Msg \cup {NoMsg}]
      /\ \A k \in Msg : k < idx <=> order[k] # NoMsg
      /\ \A m \in Msg : m \in Now <=> \E k \in Msg : order[k] = m
      /\ \A k, l \in Msg : order[k] = order[l] /\ order[k] # NoMsg => k = l
  BY <1>1 DEF Ordered
<1>10. \A k \in Msg : k \in Int
  BY SortAssumption DEF Msg
<1>11. ASSUME NEW k \in Msg
       PROVE  \/ k < idx /\ order'[k] = order[k] /\ order[k] \in Now /\ order[k] \in Msg
              \/ idx <= k /\ k < idx' /\ order'[k] \in Thread[top] /\ f[order'[k]] = k
              \/ idx' <= k /\ order'[k] = NoMsg
  <2>1. CASE k < idx
    BY <1>6, <1>9, <2>1
  <2>2. CASE idx <= k /\ k < idx'
    <3>1. PICK x \in Thread[top] : f[x] = k
      BY <1>5, <2>2
    <3> QED
      BY <1>4, <2>2, <3>1
  <2>3. CASE idx' <= k
    <3>1. ~(k < idx)
      BY <1>3, <1>10, <2>3
    <3> QED
      BY <1>6, <1>9, <2>3, <3>1
  <2> QED
    BY <1>3, <1>10, <2>1, <2>2, <2>3
<1>12. \A k \in Msg : order'[k] \in Msg \cup {NoMsg}
  BY <1>7, <1>11
<1>13. order' \in [Msg -> Msg \cup {NoMsg}]
  <2>1. order' = [k \in Msg |-> order'[k]]
    BY <1>2 DEF ExpandThread
  <2> QED
    BY <1>12, <2>1
<1>14. \A k \in Msg : k < idx' <=> order'[k] # NoMsg
  <2> SUFFICES ASSUME NEW k \in Msg PROVE k < idx' <=> order'[k] # NoMsg
    OBVIOUS
  <2>1. k < idx => k < idx' 
    BY <1>3, <1>10
  <2>2. idx' <= k => ~(k < idx')
    BY <1>3, <1>10
  <2> QED
    BY <1>7, <1>11, <2>1, <2>2
<1>15. ASSUME NEW m \in Msg
       PROVE  m \in Now \cup Thread[top] <=> \E k \in Msg : order'[k] = m
  <2>1. ASSUME m \in Now PROVE \E k \in Msg : order'[k] = m
    <3>1. PICK k \in Msg : order[k] = m
      BY <1>9, <2>1
    <3>2. k < idx
      BY <1>7, <1>9, <3>1
    <3> QED
      BY <1>6, <3>1, <3>2
  <2>2. ASSUME m \in Thread[top] PROVE \E k \in Msg : order'[k] = m
    BY <1>4, <2>2
  <2>3. ASSUME NEW k \in Msg, order'[k] = m PROVE m \in Now \cup Thread[top]
    BY <1>7, <1>11, <2>3
  <2> QED
    BY <2>1, <2>2, <2>3
<1>16. ASSUME NEW k \in Msg, NEW l \in Msg, order'[k] = order'[l], order'[k] # NoMsg
       PROVE  k = l
  <2>1. order'[k] \in Now => k < idx /\ order'[k] = order[k]
    BY <1>7, <1>8, <1>11, <1>16
  <2>2. order'[l] \in Now => l < idx /\ order'[l] = order[l]
    BY <1>7, <1>8, <1>11, <1>16
  <2>3. CASE order'[k] \in Now
    BY <1>9, <1>16, <2>1, <2>2, <2>3
  <2>4. CASE order'[k] \notin Now
    BY <1>11, <1>16, <2>4
  <2> QED
    BY <2>3, <2>4
<1>17. ASSUME NEW k \in Msg, order'[k] # NoMsg, NEW j \in 1..Len(conn[order'[k]].children)
       PROVE  LET c == k + 1 + UpTo(conn[order'[k]].children, j - 1)
              IN  c \in Msg /\ order'[c] = conn[order'[k]].children[j]
  <2>1. CASE k < idx
    <3> DEFINE c == k + 1 + UpTo(conn[order[k]].children, j - 1)
               d == conn[order[k]].children[j]
    <3>1. order'[k] = order[k] /\ order[k] # NoMsg /\ order[k] \in Msg
      BY <1>6, <1>9, <2>1
    <3>2. c \in Msg /\ order[c] = d
      BY <1>1, <1>17, <3>1 DEF Ordered
    <3>3. d \in Msg
      BY <1>17, <3>1, ChildrenApart, <1>1 DEF Apart
    <3> HIDE DEF c, d
    <3>4. c < idx
      BY <1>7, <1>9, <3>2, <3>3
    <3>5. order'[c] = d
      BY <1>6, <3>2, <3>4
    <3> QED
      BY <3>1, <3>2, <3>5 DEF c, d
  <2>2. CASE idx <= k
    <3>1. order'[k] \in Thread[top] /\ f[order'[k]] = k
      BY <1>3, <1>10, <1>11, <1>17, <2>2
    <3> DEFINE x == order'[k]
               c == k + 1 + UpTo(conn[x].children, j - 1)
               d == conn[x].children[j]
    <3>2. f[d] = c
      BY <1>4, <1>17, <3>1 DEF Follows
    <3>3. x \in Msg /\ d \in Msg /\ Parent[d] = x
      <4>1. x \in Msg
        BY <1>7, <3>1
      <4>2. Apart(conn[x].children)
        BY <1>1, <4>1, ChildrenApart
      <4>3. d \in Msg
        BY <1>17, <4>2 DEF Apart
      <4> QED
        BY <1>1, <1>17, <4>1, <4>3, ChildrenApart
    <3>4. d \in Thread[top]
      <4> HIDE DEF d, c, x
      <4>1. x \in Thread[top]
        BY <3>1 DEF x
      <4> QED
        BY <1>1, <3>3, <4>1, ChildInThread
    <3>5. f[d] \in Msg /\ order'[f[d]] = d
      BY <1>4, <3>4
    <3> QED
      BY <3>2, <3>5
  <2> QED
    BY <1>3, <1>10, <2>1, <2>2
<1>18. idx \in Msg /\ order'[idx] = top
  <2>1. f[top] \in Msg /\ order'[f[top]] = top
    BY <1>4, <1>7
  <2> QED
    BY <1>3, <2>1
<1>19. revtop \in Seq(Msg) /\ Len(revtop) = thread - 1
       /\ \A j \in 1..(thread - 1) : revtop[j] = UpTo(toplevel, j - 1) /\ order[revtop[j]] = toplevel[j]
  BY <1>1 DEF Ordered
<1>20. revtop' \in Seq(Msg) /\ Len(revtop') = thread' - 1
  BY <1>2, <1>18, <1>19
<1>21. ASSUME NEW j \in 1..(thread' - 1)
       PROVE  revtop'[j] = UpTo(toplevel, j - 1) /\ order'[revtop'[j]] = toplevel[j]
  <2>1. CASE j = thread
    <3>1. revtop'[j] = idx
      BY <1>2, <1>18, <1>19, <2>1
    <3>2. idx = UpTo(toplevel, thread - 1)
      BY <1>1 DEF Ordered
    <3> QED
      BY <1>2, <1>18, <2>1, <3>1, <3>2
  <2>2. CASE j # thread
    <3>1. j \in 1..(thread - 1)
      BY <1>2, <2>2
    <3>2. revtop'[j] = revtop[j] /\ revtop[j] \in Msg
      BY <1>2, <1>18, <1>19, <3>1
    <3>3. toplevel[j] \in Msg
      <4>1. j \in 1..Len(toplevel)
        BY <1>2, <3>1
      <4> QED
        BY <1>1, <4>1, TopsApart
    <3>4. revtop[j] < idx
      BY <1>7, <1>9, <1>19, <3>1, <3>2, <3>3
    <3> QED
      BY <1>6, <1>19, <3>1, <3>2, <3>4
  <2> QED
    BY <2>1, <2>2
<1>22. thread' \in 1..(Len(toplevel) + 1) /\ thread' - 1 = thread
  BY <1>2
<1> HIDE DEF Now
<1> QED
  BY <1>3, <1>8, <1>13, <1>14, <1>15, <1>16, <1>17, <1>20, <1>21, <1>22 DEF Ordered
LEMMA AllOrdered ==
    ASSUME Stored, Ordered(Len(toplevel) + 1, idx, order, revtop)
    PROVE  /\ \A k \in Msg : order[k] \in Msg
           /\ \A m \in Msg : \E k \in Msg : order[k] = m
           /\ \A k, l \in Msg : order[k] = order[l] => k = l
           /\ idx = NumMsg
<1>1. Len(toplevel) \in Nat /\ Len(toplevel) + 1 - 1 = Len(toplevel)
  BY TopsApart DEF Apart
<1>2. idx = NumMsg
  BY <1>1, TopsApart DEF Ordered
<1>3. \A k \in Msg : k < idx
  BY <1>2, SortAssumption DEF Msg
<1>4. \A k \in Msg : order[k] # NoMsg /\ order[k] \in Msg
  BY <1>3 DEF Ordered
<1>5. \A m \in Msg : m \in All(Thread, toplevel, 1..Len(toplevel))
  BY TopsApart
<1>6. \A m \in Msg : \E k \in Msg : order[k] = m
  BY <1>1, <1>5 DEF Ordered
<1>7. \A k, l \in Msg : order[k] = order[l] => k = l
  BY <1>4 DEF Ordered
<1> QED
  BY <1>2, <1>4, <1>6, <1>7

LEMMA StepBuildRev ==
    ASSUME IInv, BuildRev
    PROVE  /\ rev' \in [Msg -> Msg]
           /\ thread = Len(toplevel) + 1
           /\ \A m \in Msg : rev'[m] \in Msg /\ order[rev'[m]] = m
           /\ \A k \in Msg : order[k] \in Msg /\ rev'[order[k]] = k
<1>1. Stored /\ Ordered(thread, idx, order, revtop)
  BY DEF IInv
<1>2. thread = Len(toplevel) + 1
  <2>1. Len(toplevel) \in Nat
    BY <1>1, TopsApart DEF Apart
  <2> QED
    BY <1>1, <2>1 DEF BuildRev, Ordered
<1>3. /\ \A k \in Msg : order[k] \in Msg
      /\ \A m \in Msg : \E k \in Msg : order[k] = m
      /\ \A k, l \in Msg : order[k] = order[l] => k = l
  BY <1>1, <1>2, AllOrdered
<1>4. rev' = [m \in Msg |-> CHOOSE k \in Msg : order[k] = m]
  BY DEF BuildRev
<1>5. \A m \in Msg : rev'[m] \in Msg /\ order[rev'[m]] = m
  BY <1>3, <1>4
<1>6. \A k \in Msg : rev'[order[k]] = k
  BY <1>3, <1>5
<1> QED
  BY <1>2, <1>3, <1>4, <1>5, <1>6

(* As long as conn and toplevel stay, so does everything said of them.     *)
LEMMA StoredStays ==
    ASSUME IInv, UNCHANGED <<conn, toplevel>>
    PROVE  /\ Stored'
           /\ Ordered(thread', idx', order', revtop') => Ordered(thread, idx, order, revtop)'
<1>1. conn' = conn /\ toplevel' = toplevel
  OBVIOUS
<1>2. Parent' = Parent
  BY <1>1 DEF Parent
<1>3. Thread' = Thread
  BY <1>2 DEF Thread
<1>4. Stored'
  BY <1>1, <1>2, <1>3 DEF IInv, Stored
<1>5. Ordered(thread', idx', order', revtop') => Ordered(thread, idx, order, revtop)'
  <2> SUFFICES ASSUME Ordered(thread', idx', order', revtop')
               PROVE  Ordered(thread, idx, order, revtop)'
    OBVIOUS
  <2>1. /\ thread' \in 1..(Len(toplevel') + 1)
        /\ order' \in [Msg -> Msg \cup {NoMsg}]
        /\ \A k \in Msg : k < idx' <=> order'[k] # NoMsg
        /\ \A k, l \in Msg : order'[k] = order'[l] /\ order'[k] # NoMsg => k = l
        /\ revtop' \in Seq(Msg) /\ Len(revtop') = thread' - 1
    BY <1>1 DEF Ordered
  <2>2. idx' = Cardinality(All(Thread', toplevel', 1..(thread' - 1)))
    BY <1>1, <1>3 DEF Ordered, UpTo
  <2>3. \A m \in Msg : m \in All(Thread', toplevel', 1..(thread' - 1)) <=> \E k \in Msg : order'[k] = m
    BY <1>1, <1>3 DEF Ordered
  <2>4. \A j \in 1..(thread' - 1) :
           /\ revtop'[j] = Cardinality(All(Thread', toplevel', 1..(j - 1)))
           /\ order'[revtop'[j]] = toplevel'[j]
    BY <1>1, <1>3 DEF Ordered, UpTo
  <2>5. ASSUME NEW k \in Msg, order'[k] # NoMsg, NEW j \in 1..Len(conn'[order'[k]].children)
        PROVE  LET c == k + 1 + Cardinality(All(Thread', conn'[order'[k]].children, 1..(j - 1)))
               IN  c \in Msg /\ order'[c] = conn'[order'[k]].children[j]
    <3>1. j \in 1..Len(conn[order'[k]].children)
      BY <1>1, <2>5
    <3>2. LET c == k + 1 + Cardinality(All(Thread, conn[order'[k]].children, 1..(j - 1)))
          IN  c \in Msg /\ order'[c] = conn[order'[k]].children[j]
      BY <2>5, <3>1 DEF Ordered, UpTo
    <3> QED
      BY <1>1, <1>3, <3>2
  <2> QED
    BY <2>1, <2>2, <2>3, <2>4, <2>5 DEF Ordered, UpTo
<1> QED
  BY <1>4, <1>5

(* A file is written: everything else stays.                               *)
LEMMA OneWritten ==
    ASSUME IInv, NEW name \in DOMAIN file, NEW contents, NEW next, Write(name, contents, next)
    PROVE  /\ UNCHANGED <<source, idx, thread, order, revtop, rev>>
           /\ phase = name /\ phase' = next
           /\ DOMAIN file' = DOMAIN Unwritten
           /\ file'[name] = contents
           /\ \A other \in DOMAIN file : other # name => file'[other] = file[other]
           /\ MovedConn' = MovedConn
<1>1. DOMAIN file = DOMAIN Unwritten
  BY DEF IInv, FilesInv
<1>2. file' = [file EXCEPT ![name] = contents]
  BY DEF Write
<1>3. /\ DOMAIN file' = DOMAIN Unwritten /\ file'[name] = contents
      /\ \A other \in DOMAIN file : other # name => file'[other] = file[other]
  <2> HIDE DEF IInv
  <2> QED
    BY <1>1, <1>2
<1>4. UNCHANGED <<source, idx, thread, order, revtop, rev>> /\ phase = name /\ phase' = next
  BY DEF Write
<1>5. MovedConn' = MovedConn
  <2>1. conn' = conn /\ order' = order /\ rev' = rev
    BY <1>4 DEF source
  <2> QED
    BY <2>1 DEF MovedConn
<1> QED
  BY <1>3, <1>4, <1>5

LEMMA StepWrite ==
    ASSUME IInv, SortNext,
           ~(\E top \in Msg : ExpandThread(top)), ~BuildRev
    PROVE  /\ UNCHANGED <<source, idx, thread, order, revtop, rev>>
           /\ phase \notin {"lexicon", "order"}
           /\ phase' \in {"toplevel", "conn", "midmeta", "midhash", "lexdata", "strmeta", "lexsort"}
           /\ FilesInv'
<1>1. /\ {"messages", "toplevel", "conn", "midmeta", "midhash", "lexdata", "strmeta"} = DOMAIN file
      /\ FilesInv
  BY DEF IInv, FilesInv, Unwritten
<1>2. Moved = order
  <2>1. order \in [Msg -> Msg \cup {NoMsg}]
    BY DEF IInv, Ordered
  <2> QED
    BY <2>1 DEF Moved
<1>3. CASE Write("messages", order, "toplevel")
  BY <1>1, <1>3, OneWritten DEF FilesInv, source
<1>4. CASE Write("toplevel", revtop, "conn")
  BY <1>1, <1>4, OneWritten DEF FilesInv, source
<1>5. CASE Write("conn", MovedConn, "midmeta")
  BY <1>1, <1>5, OneWritten DEF FilesInv, source
<1>6. CASE Write("midmeta", order, "midhash")
  BY <1>1, <1>6, OneWritten DEF FilesInv, source
<1>7. CASE Write("midhash", rev, "lexdata")
  BY <1>1, <1>7, OneWritten DEF FilesInv, source
<1>8. ASSUME NEW contents, Write("lexdata", contents, "strmeta")
      PROVE  /\ UNCHANGED <<source, idx, thread, order, revtop, rev>>
             /\ phase = "lexdata" /\ phase' = "strmeta" /\ FilesInv'
  BY <1>1, <1>8, OneWritten DEF FilesInv, source
<1>9. CASE Write("strmeta", order, "lexsort")
  BY <1>1, <1>9, OneWritten DEF FilesInv, source
<1>10. \/ Write("messages", order, "toplevel") \/ Write("toplevel", revtop, "conn")
       \/ Write("conn", MovedConn, "midmeta") \/ Write("midmeta", order, "midhash")
       \/ Write("midhash", rev, "lexdata") \/ (\E contents : Write("lexdata", contents, "strmeta"))
       \/ Write("strmeta", order, "lexsort")
  BY <1>2 DEF SortNext, WriteMessages, WriteToplevel, WriteConn, WriteMidmeta, WriteMidhash,
              RewriteLexdata, WriteStrmeta
<1> QED
  BY <1>3, <1>4, <1>5, <1>6, <1>7, <1>8, <1>9, <1>10
LEMMA NumbersStay ==
    ASSUME IInv, UNCHANGED <<conn, toplevel, idx, thread, order, revtop>>
    PROVE  Stored' /\ Ordered(thread, idx, order, revtop)'
<1>1. Ordered(thread', idx', order', revtop')
  <2>1. Ordered(thread, idx, order, revtop)
    BY DEF IInv
  <2>2. thread' = thread /\ idx' = idx /\ order' = order /\ revtop' = revtop
    OBVIOUS
  <2> QED
    BY <2>1, <2>2
<1>2. UNCHANGED <<conn, toplevel>>
  OBVIOUS
<1> QED
  BY <1>1, <1>2, StoredStays

LEMMA FilesStay ==
    ASSUME IInv, UNCHANGED <<conn, order, revtop, rev, file, phase>>
    PROVE  FilesInv'
<1>1. MovedConn' = MovedConn
  <2>1. conn' = conn /\ order' = order /\ rev' = rev
    OBVIOUS
  <2> QED
    BY <2>1 DEF MovedConn
<1> QED
  BY <1>1 DEF IInv, FilesInv

LEMMA StepIInv == IInv /\ [Next]_vars => IInv'
<1> SUFFICES ASSUME IInv, [Next]_vars PROVE IInv'
  OBVIOUS
<1> DEFINE Phases == {"order", "rev", "messages", "toplevel", "conn", "midmeta",
                      "midhash", "lexdata", "strmeta", "lexicon", "lexsort", "done"}
<1>a. rev \in [Msg -> Msg \cup {NoMsg}] /\ phase \in Phases /\ Renumbered /\ FilesInv
  BY DEF IInv
<1>1. ASSUME UNCHANGED <<conn, toplevel, sortVars, phase>> PROVE IInv'
  <2>1. Stored' /\ Ordered(thread, idx, order, revtop)'
    BY <1>1, NumbersStay DEF sortVars
  <2>2. FilesInv'
    BY <1>1, FilesStay DEF sortVars
  <2>3. rev' \in [Msg -> Msg \cup {NoMsg}] /\ phase' \in Phases
    BY <1>1, <1>a DEF sortVars
  <2>4. Renumbered'
    BY <1>1, <1>a DEF Renumbered, sortVars
  <2> QED
    BY <2>1, <2>2, <2>3, <2>4 DEF IInv
<1>2. CASE UNCHANGED vars
  BY <1>1, <1>2 DEF vars, source
<1>3. CASE IndexMessage
  BY <1>1, <1>3 DEF IndexMessage, source
<1>4. CASE SaveLexicon
  <2>1. /\ UNCHANGED <<conn, toplevel, idx, thread, order, revtop, rev, file>>
        /\ phase' = "order" /\ phase = "lexicon"
    BY <1>4 DEF SaveLexicon, sortVars
  <2>2. Stored' /\ Ordered(thread, idx, order, revtop)'
    BY <2>1, NumbersStay
  <2>3. FilesInv' /\ Renumbered' /\ rev' \in [Msg -> Msg \cup {NoMsg}] /\ phase' \in Phases
    BY <1>a, <2>1 DEF FilesInv, Renumbered
  <2> QED
    BY <2>2, <2>3 DEF IInv
<1>5. ASSUME NEW top \in Msg, ExpandThread(top) PROVE IInv'
  <2>1. /\ UNCHANGED <<conn, toplevel, rev, file, phase>> /\ phase = "order"
    BY <1>5 DEF ExpandThread, source
  <2>2. Stored' /\ Ordered(thread, idx, order, revtop)'
    BY <1>5, <2>1, StepExpand, StoredStays
  <2>3. FilesInv' /\ Renumbered' /\ rev' \in [Msg -> Msg \cup {NoMsg}] /\ phase' \in Phases
    BY <1>a, <2>1 DEF FilesInv, Renumbered
  <2> QED
    BY <2>2, <2>3 DEF IInv
<1>6. CASE BuildRev
  <2>1. /\ UNCHANGED <<conn, toplevel, idx, thread, order, revtop, file>>
        /\ phase' = "messages" /\ phase = "order"
    BY <1>6 DEF BuildRev, source
  <2>2. Stored' /\ Ordered(thread, idx, order, revtop)'
    BY <2>1, NumbersStay
  <2>3. Renumbered' /\ rev' \in [Msg -> Msg \cup {NoMsg}]
    <3>1. /\ rev' \in [Msg -> Msg]
          /\ thread = Len(toplevel) + 1
          /\ \A m \in Msg : rev'[m] \in Msg /\ order[rev'[m]] = m
          /\ \A k \in Msg : order[k] \in Msg /\ rev'[order[k]] = k
      BY <1>6, StepBuildRev
    <3>2. order' = order /\ thread' = thread /\ toplevel' = toplevel
      BY <2>1
    <3>3. rev' \in [Msg -> Msg \cup {NoMsg}]
      BY <3>1
    <3> QED
      BY <3>1, <3>2, <3>3 DEF Renumbered
  <2>4. FilesInv' /\ phase' \in Phases
    BY <1>a, <2>1 DEF FilesInv
  <2> QED
    BY <2>2, <2>3, <2>4 DEF IInv
<1>7. CASE SortNext /\ ~(\E top \in Msg : ExpandThread(top)) /\ ~BuildRev
  <2>1. /\ UNCHANGED <<conn, toplevel, idx, thread, order, revtop, rev>>
        /\ phase \notin {"lexicon", "order"}
        /\ phase' \in {"toplevel", "conn", "midmeta", "midhash", "lexdata", "strmeta", "lexsort"}
        /\ FilesInv'
    BY <1>7, StepWrite DEF source
  <2>2. Stored' /\ Ordered(thread, idx, order, revtop)'
    BY <2>1, NumbersStay
  <2>3. Renumbered' /\ rev' \in [Msg -> Msg \cup {NoMsg}] /\ phase' \in Phases
    BY <1>a, <2>1 DEF Renumbered
  <2> QED
    BY <2>1, <2>2, <2>3 DEF IInv
<1>8. CASE SortLexicon
  <2>1. /\ UNCHANGED <<conn, toplevel, idx, thread, order, revtop, rev>>
        /\ phase' = "done" /\ phase = "lexsort"
    BY <1>8 DEF SortLexicon, source
  <2>2. Stored' /\ Ordered(thread, idx, order, revtop)'
    BY <2>1, NumbersStay
  <2>3. Renumbered' /\ rev' \in [Msg -> Msg \cup {NoMsg}] /\ phase' \in Phases
    BY <1>a, <2>1 DEF Renumbered
  <2>4. DOMAIN file' = DOMAIN Unwritten
        /\ \A name \in DOMAIN file : name # "lexdata" => file'[name] = file[name]
    <3>1. DOMAIN file = DOMAIN Unwritten
      BY <1>a DEF FilesInv
    <3>2. DOMAIN file' = DOMAIN file
          /\ \A name \in DOMAIN file : name # "lexdata" => file'[name] = file[name]
      BY <1>8 DEF SortLexicon
    <3> QED
      BY <3>1, <3>2
  <2>5. {"messages", "toplevel", "conn", "midmeta", "midhash", "strmeta"} \subseteq DOMAIN file
    <3>1. DOMAIN file = DOMAIN Unwritten
      BY <1>a DEF FilesInv
    <3> QED
      BY <3>1 DEF Unwritten
  <2>6. MovedConn' = MovedConn
    <3>1. conn' = conn /\ order' = order /\ rev' = rev
      BY <2>1
    <3> QED
      BY <3>1 DEF MovedConn
  <2>7. FilesInv'
    BY <1>a, <2>1, <2>4, <2>5, <2>6 DEF FilesInv
  <2> QED
    BY <2>2, <2>3, <2>7 DEF IInv
<1> QED
  BY <1>2, <1>3, <1>4, <1>5, <1>6, <1>7, <1>8 DEF Next, SortNext

(* The inductive invariant, for any archive.                               *)
THEOREM Invariance == Spec => []IInv
<1>1. Init => IInv
  BY InitIInv
<1>2. IInv /\ [Next]_vars => IInv'
  BY StepIInv
<1> QED
  BY <1>1, <1>2, PTL DEF Spec

LEMMA TypesFollow == IInv => TypeOK
<1> SUFFICES ASSUME IInv PROVE TypeOK
  OBVIOUS
<1>1. Stored /\ Ordered(thread, idx, order, revtop)
  BY DEF IInv
<1>2. idx \in 0..NumMsg
  <2>1. Apart(toplevel) /\ UpTo(toplevel, Len(toplevel)) = NumMsg /\ Len(toplevel) \in Nat
    <3>1. Apart(toplevel) /\ UpTo(toplevel, Len(toplevel)) = NumMsg
      BY <1>1, TopsApart
    <3> QED
      BY <3>1 DEF Apart
  <2>2. thread - 1 \in 0..Len(toplevel) /\ Len(toplevel) \in 0..Len(toplevel)
        /\ thread - 1 <= Len(toplevel)
    BY <1>1, <2>1 DEF Ordered
  <2>3. UpTo(toplevel, thread - 1) \in Nat /\ UpTo(toplevel, thread - 1) <= UpTo(toplevel, Len(toplevel))
    BY <1>1, <2>1, <2>2, UpToAdds
  <2>4. idx = UpTo(toplevel, thread - 1)
    BY <1>1 DEF Ordered
  <2> QED
    BY <2>1, <2>3, <2>4, SortAssumption
<1>3. toplevel \in Seq(Msg) /\ conn \in [Msg -> Conn]
  BY <1>1 DEF Stored, List
<1>4. thread \in 1..(Len(toplevel) + 1) /\ order \in [Msg -> Msg \cup {NoMsg}] /\ revtop \in Seq(Msg)
  BY <1>1 DEF Ordered
<1>5. DOMAIN file = DOMAIN Unwritten
  BY DEF IInv, FilesInv
<1>6. rev \in [Msg -> Msg \cup {NoMsg}]
      /\ phase \in {"order", "rev", "messages", "toplevel", "conn", "midmeta",
                    "midhash", "lexdata", "strmeta", "lexicon", "lexsort", "done"}
  BY DEF IInv
<1> QED
  BY <1>2, <1>3, <1>4, <1>5, <1>6 DEF TypeOK

LEMMA SameFollows == IInv => SameArchive
<1> SUFFICES ASSUME IInv PROVE SameArchive
  OBVIOUS
<1>1. TypeOK
  BY TypesFollow
<1> SUFFICES ASSUME Sorted PROVE SameThreads /\ SameMessageEverywhere
  BY <1>1 DEF SameArchive
<1>2. Stored /\ Ordered(thread, idx, order, revtop) /\ NoParent \notin Msg
  BY MsgFinite DEF IInv
<1>3. phase \in {"lexsort", "done"}
  BY DEF Sorted
<1>4. /\ thread = Len(toplevel) + 1
      /\ \A m \in Msg : rev[m] \in Msg /\ order[rev[m]] = m
      /\ \A k \in Msg : order[k] \in Msg /\ rev[order[k]] = k
  BY <1>3 DEF IInv, Renumbered
<1>5. /\ file["messages"] = order /\ file["toplevel"] = revtop /\ file["conn"] = MovedConn
      /\ file["midmeta"] = order /\ file["midhash"] = rev /\ file["strmeta"] = order
  BY <1>3 DEF IInv, FilesInv
<1>6. SameMessageEverywhere
  BY <1>4, <1>5 DEF SameMessageEverywhere
<1>7. ASSUME NEW k \in Msg
      PROVE  /\ MovedConn[k].total = conn[order[k]].total
             /\ IF MovedConn[k].parent = NoParent THEN conn[order[k]].parent = NoParent
                ELSE order[MovedConn[k].parent] = conn[order[k]].parent
             /\ [j \in DOMAIN MovedConn[k].children |-> order[MovedConn[k].children[j]]]
                   = conn[order[k]].children
  <2> DEFINE src == conn[order[k]]
  <2>1. src \in Conn
    BY <1>2, <1>4 DEF Stored
  <2>2. src.parent \in Msg \cup {NoParent} /\ src.children \in Seq(Msg)
    BY <2>1 DEF Conn
  <2>3. /\ MovedConn[k].parent = IF src.parent = NoParent THEN NoParent ELSE rev[src.parent]
        /\ MovedConn[k].total = src.total
        /\ MovedConn[k].children = [j \in DOMAIN src.children |-> rev[src.children[j]]]
    BY DEF MovedConn
  <2> HIDE DEF src
  <2>4. IF MovedConn[k].parent = NoParent THEN src.parent = NoParent
        ELSE order[MovedConn[k].parent] = src.parent
    BY <1>2, <1>4, <2>2, <2>3
  <2>5. [j \in DOMAIN MovedConn[k].children |-> order[MovedConn[k].children[j]]] = src.children
    <3>1. DOMAIN MovedConn[k].children = DOMAIN src.children
      BY <2>3
    <3>2. \A j \in DOMAIN src.children : order[MovedConn[k].children[j]] = src.children[j]
      BY <1>4, <2>2, <2>3
    <3>3. src.children = [j \in DOMAIN src.children |-> src.children[j]]
      BY <2>2
    <3> QED
      BY <3>1, <3>2, <3>3
  <2> QED
    BY <2>3, <2>4, <2>5 DEF src
<1>8. [j \in DOMAIN revtop |-> order[revtop[j]]] = toplevel
  <2>1. /\ revtop \in Seq(Msg) /\ Len(revtop) = Len(toplevel)
        /\ \A j \in 1..Len(toplevel) : order[revtop[j]] = toplevel[j]
    BY <1>2, <1>4, TopsApart DEF Ordered, Apart
  <2>2. toplevel \in Seq(Msg)
    BY <1>2 DEF Stored, List
  <2>3. DOMAIN revtop = 1..Len(toplevel) /\ DOMAIN toplevel = 1..Len(toplevel)
    BY <2>1, <2>2
  <2>4. toplevel = [j \in 1..Len(toplevel) |-> toplevel[j]]
    BY <2>2
  <2> QED
    BY <2>1, <2>3, <2>4
<1>9. SameThreads
  BY <1>5, <1>7, <1>8 DEF SameThreads
<1> QED
  BY <1>6, <1>9

(* Whatever the archive and the order of its threads and children, what    *)
(* sort.cpp writes is the archive it read under new numbers, in every file *)
(* that has numbers of messages.                                           *)
THEOREM ArchiveStaysTheSame == Spec => []SameArchive
BY Invariance, SameFollows, PTL
-----------------------------------------------------------------------------
(* What uat-verify counts up: runs of numbers put one behind the other.    *)
Run(a, b) == [j \in 1..(b - a) |-> a + j - 1]

LEMMA RunsJoin ==
    ASSUME NEW a \in Int, NEW b \in Int, NEW c \in Int, a <= b, b <= c
    PROVE  Run(a, b) \o Run(b, c) = Run(a, c)
<1> DEFINE s == Run(a, b)
           t == Run(b, c)
<1>1. /\ s \in Seq(Int) /\ Len(s) = b - a /\ \A j \in 1..(b - a) : s[j] = a + j - 1
      /\ t \in Seq(Int) /\ Len(t) = c - b /\ \A j \in 1..(c - b) : t[j] = b + j - 1
  BY DEF Run
<1>2. /\ Run(a, c) \in Seq(Int) /\ Len(Run(a, c)) = c - a
      /\ \A j \in 1..(c - a) : Run(a, c)[j] = a + j - 1
  BY DEF Run
<1> HIDE DEF s, t
<1>3. s \o t \in Seq(Int) /\ Len(s \o t) = c - a
  <2>1. s \o t \in Seq(Int) /\ Len(s \o t) = Len(s) + Len(t)
    BY <1>1
  <2>2. Len(s) + Len(t) = c - a
    BY <1>1
  <2> QED
    BY <2>1, <2>2
<1>4. ASSUME NEW j \in 1..(c - a) PROVE (s \o t)[j] = a + j - 1
  <2>1. CASE j <= b - a
    <3>1. (s \o t)[j] = s[j] /\ j \in 1..(b - a)
      BY <1>1, <2>1
    <3> QED
      BY <1>1, <3>1
  <2>2. CASE ~(j <= b - a)
    <3>0. j - (b - a) \in 1..(c - b) /\ j \in Int /\ j > Len(s)
      BY <1>1, <2>2
    <3>1. (s \o t)[j] = t[j - Len(s)]
      <4>1. s \in Seq(Int) /\ t \in Seq(Int) /\ j \in (Len(s) + 1)..(Len(s) + Len(t))
        BY <1>1, <3>0
      <4> QED
        BY <4>1
    <3>2. t[j - Len(s)] = b + (j - (b - a)) - 1
      BY <1>1, <3>0
    <3> QED
      BY <3>0, <3>1, <3>2
  <2> QED
    BY <2>1, <2>2
<1>5. s \o t = Run(a, c)
  BY <1>2, <1>3, <1>4, SeqEqual
<1> QED
  BY <1>5 DEF s, t

Joined(f, base, seq) == FoldLeft(LAMBDA done, c : done \o f[c], base, seq)

Joins(h, f, base, seq) ==
    /\ Joined(f, base, seq) = h[1..Len(seq)]
    /\ h[{}] = base
    /\ \A n \in 1..Len(seq) : h[1..n] = h[1..(n - 1)] \o f[seq[n]]

(* The function FoldLeft is defined by exists, as it does on the subsets   *)
(* of any interval from 1.                                                 *)
LEMMA JoinedIs ==
    ASSUME NEW S, NEW seq \in Seq(S), NEW f, NEW base
    PROVE  \E h : Joins(h, f, base, seq)
<1> DEFINE D == 1..Len(seq)
           Eq(P, g) == g = [s \in P |-> IF s = {} THEN base
                                        ELSE g[s \ {Max(s)}] \o f[seq[Max(s)]]]
           h == CHOOSE g : Eq(SUBSET D, g)
           Bad == {n \in Nat : n <= Len(seq) /\ ~\E g : Eq(SUBSET (1..n), g)}
<1>1. Len(seq) \in Nat /\ DOMAIN seq = D
  OBVIOUS
<1>2. Joined(f, base, seq) = h[D]
  BY <1>1 DEF Joined, FoldLeft, MapThenFoldSet
<1>3. Bad = {}
  <2> SUFFICES ASSUME Bad # {} PROVE FALSE
    OBVIOUS
  <2>1. PICK n \in Bad : \A k \in Bad : ~(k < n)
    <3>1. Bad \in SUBSET Nat
      OBVIOUS
    <3> HIDE DEF Bad
    <3> QED
      BY <3>1, LeastNumber
  <2>2. n \in Nat /\ n <= Len(seq)
    OBVIOUS
  <2>3. CASE n = 0
    <3> DEFINE g == [s \in {{}} |-> base]
    <3>1. SUBSET (1..n) = {{}}
      BY <2>3
    <3>2. Eq({{}}, g)
      OBVIOUS
    <3> HIDE DEF g, Eq
    <3> QED
      BY <3>1, <3>2
  <2>4. CASE n # 0
    <3>1. n - 1 \in Nat /\ n - 1 <= Len(seq) /\ n - 1 < n
      BY <1>1, <2>2, <2>4
    <3>2. n - 1 \notin Bad
      <4> HIDE DEF Bad
      <4> QED
        BY <2>1, <3>1
    <3>3. PICK g : Eq(SUBSET (1..(n - 1)), g)
      BY <3>1, <3>2
    <3> DEFINE g2 == [s \in SUBSET (1..n) |-> IF s = {} THEN base
                                              ELSE g[s \ {Max(s)}] \o f[seq[Max(s)]]]
    <3>4. ASSUME NEW s \in SUBSET (1..n), s # {}
          PROVE  g2[s \ {Max(s)}] = g[s \ {Max(s)}]
      <4> DEFINE r == s \ {Max(s)}
      <4>1. Max(s) \in s /\ \A k \in s : k <= Max(s)
        BY <2>2, <3>4, MaxOfPlaces
      <4>2. \A k \in r : k \in 1..(n - 1)
        <5> SUFFICES ASSUME NEW k \in r PROVE k \in 1..(n - 1)
          OBVIOUS
        <5>1. k \in 1..n /\ Max(s) \in 1..n /\ k # Max(s) /\ k <= Max(s)
          BY <4>1
        <5> HIDE DEF r
        <5> QED
          BY <2>2, <5>1
      <4>3. r \in SUBSET (1..(n - 1)) /\ r \in SUBSET (1..n)
        BY <4>2
      <4> HIDE DEF r
      <4>4. g[r] = IF r = {} THEN base ELSE g[r \ {Max(r)}] \o f[seq[Max(r)]]
        BY <3>3, <4>3
      <4>5. g2[r] = IF r = {} THEN base ELSE g[r \ {Max(r)}] \o f[seq[Max(r)]]
        BY <4>3
      <4> QED
        BY <4>4, <4>5 DEF r
    <3>5. Eq(SUBSET (1..n), g2)
      <4>1. \A s \in SUBSET (1..n) :
               (IF s = {} THEN base ELSE g[s \ {Max(s)}] \o f[seq[Max(s)]])
                 = (IF s = {} THEN base ELSE g2[s \ {Max(s)}] \o f[seq[Max(s)]])
        <5> HIDE DEF g2
        <5> QED
          BY <3>4
      <4> QED
        BY <4>1
    <3> HIDE DEF g2, Eq
    <3> QED
      BY <3>5
  <2> QED
    BY <2>3, <2>4
<1>4. Eq(SUBSET D, h)
  <2>1. \E g : Eq(SUBSET D, g)
    <3>1. Len(seq) \notin Bad /\ Len(seq) <= Len(seq)
      <4> HIDE DEF Bad
      <4> QED
        BY <1>1, <1>3
    <3> HIDE DEF Eq
    <3> QED
      BY <1>1, <3>1
  <2> HIDE DEF Eq
  <2> QED
    BY <2>1
<1> HIDE DEF h
<1>5. h[{}] = base
  BY <1>4
<1>6. ASSUME NEW n \in 1..Len(seq) PROVE h[1..n] = h[1..(n - 1)] \o f[seq[n]]
  <2>1. n \in Nat \ {0} /\ 1..n \in SUBSET D /\ 1..n # {}
    BY <1>1
  <2>2. Max(1..n) = n
    BY <2>1, MaxOfInterval
  <2>3. (1..n) \ {n} = 1..(n - 1)
    BY <2>1
  <2>4. h[1..n] = h[(1..n) \ {Max(1..n)}] \o f[seq[Max(1..n)]]
    BY <1>4, <2>1
  <2> QED
    BY <2>2, <2>3, <2>4
<1> QED
  BY <1>2, <1>5, <1>6 DEF Joins

LEMMA RunsFold ==
    ASSUME NEW S, NEW seq \in Seq(S), NEW f, NEW a \in Int,
           NEW start \in [0..Len(seq) -> Int], a <= start[0],
           \A j \in 1..Len(seq) : /\ start[j - 1] <= start[j]
                                  /\ f[seq[j]] = Run(start[j - 1], start[j])
    PROVE  Joined(f, Run(a, start[0]), seq) = Run(a, start[Len(seq)])
<1>1. PICK h : Joins(h, f, Run(a, start[0]), seq)
  BY JoinedIs
<1>2. /\ Joined(f, Run(a, start[0]), seq) = h[1..Len(seq)]
      /\ h[{}] = Run(a, start[0])
      /\ \A n \in 1..Len(seq) : h[1..n] = h[1..(n - 1)] \o f[seq[n]]
  BY <1>1 DEF Joins
<1>a. Len(seq) \in Nat
  OBVIOUS
<1> DEFINE Right(n) == a <= start[n] /\ h[1..n] = Run(a, start[n])
           Bad == {n \in Nat : n <= Len(seq) /\ ~Right(n)}
<1>3. Bad = {}
  <2> SUFFICES ASSUME Bad # {} PROVE FALSE
    OBVIOUS
  <2>1. PICK n \in Bad : \A k \in Bad : ~(k < n)
    <3>1. Bad \in SUBSET Nat
      OBVIOUS
    <3> HIDE DEF Bad
    <3> QED
      BY <3>1, LeastNumber
  <2>2. n \in Nat /\ n <= Len(seq) /\ ~Right(n)
    OBVIOUS
  <2>3. n # 0
    <3>1. 1..0 = {}
      OBVIOUS
    <3> QED
      BY <1>2, <2>2, <3>1
  <2>4. n - 1 \in Nat /\ n - 1 <= Len(seq) /\ n - 1 < n /\ n \in 1..Len(seq)
    BY <1>a, <2>2, <2>3
  <2>5. n - 1 \notin Bad
    <3> HIDE DEF Bad
    <3> QED
      BY <2>1, <2>4
  <2>6. Right(n - 1)
    BY <2>4, <2>5
  <2>7. start[n - 1] \in Int /\ start[n] \in Int /\ start[n - 1] <= start[n]
    <3>1. n - 1 \in 0..Len(seq) /\ n \in 0..Len(seq)
      BY <1>a, <2>4
    <3>2. start[n - 1] <= start[n]
      BY <2>4
    <3> QED
      BY <3>1, <3>2
  <2>8. h[1..n] = Run(a, start[n - 1]) \o Run(start[n - 1], start[n])
    BY <1>2, <2>4, <2>6
  <2>9. h[1..n] = Run(a, start[n]) /\ a <= start[n]
    <3> DEFINE b == start[n - 1]
               c == start[n]
    <3>1. b \in Int /\ c \in Int /\ a <= b /\ b <= c /\ h[1..n] = Run(a, b) \o Run(b, c)
      BY <2>6, <2>7, <2>8
    <3> HIDE DEF b, c
    <3>2. Run(a, b) \o Run(b, c) = Run(a, c)
      BY <3>1, RunsJoin
    <3>3. a <= c
      BY <3>1
    <3> QED
      BY <3>1, <3>2, <3>3 DEF b, c
  <2> QED
    BY <2>2, <2>9
<1>4. Right(Len(seq))
  BY <1>a, <1>3
<1> QED
  BY <1>2, <1>4

(* Expanded, with the function it goes down by named.                      *)
Expansion == CHOOSE f : f = [m \in Msg |-> Joined(f, <<m>>, file["conn"][m].children)]

LEMMA ExpandedIs == Expanded = Joined(Expansion, <<>>, file["toplevel"])
BY Zenon DEF Expanded, Joined, Expansion

(* In the archive written, what is below message k has the numbers from k  *)
(* on, in the order Expanded goes through them.                            *)
LEMMA WalksInOrder ==
    ASSUME IInv, Sorted
    PROVE  Expanded = [k \in 1..NumMsg |-> k - 1]
<1>1. Stored /\ Ordered(thread, idx, order, revtop)
  BY DEF IInv
<1>2. /\ thread = Len(toplevel) + 1
      /\ \A m \in Msg : rev[m] \in Msg /\ order[rev[m]] = m
      /\ \A k \in Msg : order[k] \in Msg /\ rev[order[k]] = k
      /\ file["toplevel"] = revtop /\ file["conn"] = MovedConn
  BY DEF IInv, Renumbered, FilesInv, Sorted
<1> DEFINE Kids(k) == conn[order[k]].children
           list == [k \in Msg |-> file["conn"][k].children]
           total == [k \in Msg |-> conn[order[k]].total]
           E == [k \in Msg |-> Run(k, k + total[k])]
           Eq(f) == f = [k \in Msg |-> Joined(f, <<k>>, list[k])]
           e == CHOOSE f : Eq(f)
<1>3. Expanded = Joined(e, <<>>, revtop)
  <2>1. ASSUME NEW f
        PROVE  [m \in Msg |-> Joined(f, <<m>>, file["conn"][m].children)]
                 = [k \in Msg |-> Joined(f, <<k>>, list[k])]
    OBVIOUS
  <2> DEFINE Eq0(f) == f = [m \in Msg |-> Joined(f, <<m>>, file["conn"][m].children)]
  <2>2. Expansion = CHOOSE f : Eq0(f)
    BY Zenon DEF Expansion
  <2>3. \A f : Eq0(f) <=> Eq(f)
    BY <2>1
  <2> HIDE DEF Eq0, Eq
  <2>4. Expansion = e
    BY <2>2, <2>3, Zenon
  <2> QED
    BY <1>2, <2>4, ExpandedIs, Zenon
<1>4. ASSUME NEW k \in Msg
      PROVE  /\ list[k] \in Seq(Msg) /\ Len(list[k]) \in Nat /\ Len(list[k]) = Len(Kids(k))
             /\ \A j \in 1..Len(list[k]) :
                   /\ list[k][j] = k + 1 + UpTo(Kids(k), j - 1)
                   /\ total[list[k][j]] = conn[Kids(k)[j]].total
                   /\ list[k][j] \in Msg
             /\ Apart(Kids(k))
             /\ total[k] = 1 + UpTo(Kids(k), Len(Kids(k)))
  <2>1. order[k] \in Msg /\ order[k] # NoMsg
    BY <1>2, MsgFinite
  <2>2. Apart(Kids(k)) /\ conn[order[k]].total = 1 + UpTo(Kids(k), Len(Kids(k)))
    BY <1>1, <2>1, ChildrenApart
  <2>3. Kids(k) \in Seq(Msg) /\ Len(Kids(k)) \in Nat /\ DOMAIN Kids(k) = 1..Len(Kids(k))
    <3> DEFINE s == Kids(k)
    <3> HIDE DEF s
    <3>1. Apart(s)
      BY <2>2 DEF s
    <3>2. s \in Seq(Msg) /\ Len(s) \in Nat /\ DOMAIN s = 1..Len(s)
      BY <3>1 DEF Apart
    <3> QED
      BY <3>2 DEF s
  <2>4. list[k] = [j \in DOMAIN Kids(k) |-> rev[Kids(k)[j]]]
    BY <1>2 DEF MovedConn
  <2>5. ASSUME NEW j \in 1..Len(Kids(k))
        PROVE  /\ list[k][j] = k + 1 + UpTo(Kids(k), j - 1)
               /\ total[list[k][j]] = conn[Kids(k)[j]].total
               /\ list[k][j] \in Msg
    <3> DEFINE c == k + 1 + UpTo(Kids(k), j - 1)
               d == Kids(k)[j]
    <3>1. c \in Msg /\ order[c] = d
      BY <1>1, <2>1 DEF Ordered
    <3>2. list[k][j] = rev[d]
      BY <2>3, <2>4
    <3> HIDE DEF c, d, list
    <3>3. rev[d] = c
      BY <1>2, <3>1
    <3>4. total[c] = conn[d].total
      BY <3>1
    <3> QED
      BY <3>1, <3>2, <3>3, <3>4 DEF c, d
  <2>6. list[k] \in Seq(Msg) /\ Len(list[k]) = Len(Kids(k))
    <3> DEFINE s == Kids(k)
    <3> HIDE DEF s
    <3>1. s \in Seq(Msg) /\ Len(s) \in Nat /\ DOMAIN s = 1..Len(s)
      BY <2>3 DEF s
    <3>2. list[k] = [j \in 1..Len(s) |-> rev[s[j]]]
      BY <2>4, <3>1 DEF s
    <3> HIDE DEF list
    <3>3. list[k] \in Seq(Msg) /\ Len(list[k]) = Len(s)
      BY <1>2, <3>1, <3>2
    <3> QED
      BY <3>3 DEF s
  <2>7. total[k] = conn[order[k]].total
    OBVIOUS
  <2> HIDE DEF list, total
  <2> QED
    BY <2>2, <2>3, <2>5, <2>6, <2>7
<1> HIDE DEF list, total
<1>5. ASSUME NEW k \in Msg, NEW f, \A j \in 1..Len(list[k]) : f[list[k][j]] = E[list[k][j]]
      PROVE  Joined(f, <<k>>, list[k]) = E[k]
  <2> DEFINE s == Kids(k)
             seq == list[k]
             n == Len(seq)
             start == [j \in 0..n |-> k + 1 + UpTo(s, j)]
  <2>1. /\ seq \in Seq(Msg) /\ n \in Nat /\ n = Len(s) /\ Apart(s) /\ total[k] = 1 + UpTo(s, n)
        /\ \A j \in 1..n : /\ seq[j] = k + 1 + UpTo(s, j - 1)
                           /\ total[seq[j]] = conn[s[j]].total /\ seq[j] \in Msg
    BY <1>4
  <2> HIDE DEF s, seq
  <2>2. /\ UpTo(s, 0) = 0 /\ \A j \in 0..n : UpTo(s, j) \in Nat
        /\ \A j \in 1..n : UpTo(s, j) = UpTo(s, j - 1) + conn[s[j]].total
    BY <1>1, <2>1, UpToAdds
  <2>3. k \in Int
    BY SortAssumption DEF Msg
  <2>4. start \in [0..n -> Int] /\ \A j \in 0..n : start[j] = k + 1 + UpTo(s, j)
    BY <2>2, <2>3
  <2>5. start[0] = k + 1 /\ k <= start[0] /\ start[n] = k + total[k]
    BY <2>1, <2>2, <2>3, <2>4
  <2> HIDE DEF start
  <2>6. ASSUME NEW j \in 1..n
        PROVE  /\ start[j - 1] <= start[j]
               /\ f[seq[j]] = Run(start[j - 1], start[j])
    <3>1. j \in 0..n /\ j - 1 \in 0..n
      BY <2>1
    <3> DEFINE u == UpTo(s, j - 1)
               v == UpTo(s, j)
               t == conn[s[j]].total
    <3>2. u \in Nat /\ v \in Nat /\ v = u + t /\ start[j - 1] = k + 1 + u /\ start[j] = k + 1 + v
      BY <2>2, <2>4, <3>1
    <3>3. seq[j] = start[j - 1] /\ total[seq[j]] = t /\ seq[j] \in Msg
      BY <2>1, <3>2
    <3>4. t \in Nat
      <4>1. s[j] \in Msg
        BY <2>1 DEF Apart
      <4> QED
        BY <1>1, <4>1, ThreadTyped DEF Stored
    <3> HIDE DEF u, v, t
    <3>5. start[j - 1] <= start[j] /\ start[j] = start[j - 1] + t
      BY <2>3, <3>2, <3>4
    <3>6. f[seq[j]] = E[seq[j]]
      BY <1>5 DEF seq
    <3>7. E[seq[j]] = Run(seq[j], seq[j] + total[seq[j]])
      BY <3>3
    <3> QED
      BY <3>3, <3>5, <3>6, <3>7
  <2>7. Joined(f, Run(k, start[0]), seq) = Run(k, start[n])
    <3> HIDE DEF E
    <3> QED
      BY <2>1, <2>3, <2>4, <2>5, <2>6, RunsFold
  <2>8. Run(k, start[0]) = <<k>>
    <3>1. Run(k, k + 1) = [j \in 1..1 |-> k + j - 1]
      BY <2>3 DEF Run
    <3>2. [j \in 1..1 |-> k + j - 1] = <<k>>
      BY <2>3
    <3> QED
      BY <2>5, <3>1, <3>2
  <2>9. E[k] = Run(k, start[n])
    BY <2>5
  <2> QED
    BY <2>7, <2>8, <2>9 DEF seq
<1>6. Eq(E)
  <2>1. \A k \in Msg : E[k] = Joined(E, <<k>>, list[k])
    <3> HIDE DEF E
    <3> QED
      BY <1>5
  <2>2. E = [k \in Msg |-> E[k]]
    OBVIOUS
  <2> HIDE DEF E
  <2>3. [k \in Msg |-> E[k]] = [k \in Msg |-> Joined(E, <<k>>, list[k])]
    BY <2>1
  <2> QED
    BY <2>2, <2>3
<1>7. Eq(e)
  <2> HIDE DEF Eq, E
  <2> QED
    BY <1>6
<1>8. \A k \in Msg : e[k] = Joined(e, <<k>>, list[k])
  <2> HIDE DEF e
  <2> QED
    BY <1>7
<1> HIDE DEF e, E, Eq
<1>9. \A k \in Msg : e[k] = E[k]
  <2> DEFINE W == {NumMsg - k : k \in {k \in Msg : e[k] # E[k]}}
  <2> SUFFICES ASSUME W # {} PROVE FALSE
    OBVIOUS
  <2>1. PICK n \in W : \A i \in W : ~(i < n)
    <3>1. W \in SUBSET Nat
      BY SortAssumption DEF Msg
    <3> HIDE DEF W
    <3> QED
      BY <3>1, LeastNumber
  <2>2. PICK k \in Msg : n = NumMsg - k /\ e[k] # E[k]
    OBVIOUS
  <2>3. ASSUME NEW j \in 1..Len(list[k]) PROVE e[list[k][j]] = E[list[k][j]]
    <3> DEFINE c == list[k][j]
               s == Kids(k)
    <3>1. c \in Msg /\ c = k + 1 + UpTo(s, j - 1) /\ Apart(s) /\ Len(list[k]) = Len(s)
          /\ Len(list[k]) \in Nat
      BY <1>4
    <3> HIDE DEF s, c
    <3>2. UpTo(s, j - 1) \in Nat
      <4>1. j - 1 \in 0..Len(s)
        BY <3>1
      <4> QED
        BY <1>1, <3>1, <4>1, UpToAdds
    <3>3. NumMsg - c < n
      <4> DEFINE u == UpTo(s, j - 1)
      <4>1. k \in Int /\ NumMsg \in Int /\ u \in Nat /\ c = k + 1 + u /\ n = NumMsg - k
        BY <2>2, <3>1, <3>2, SortAssumption DEF Msg
      <4> HIDE DEF u
      <4> QED
        BY <4>1
    <3>4. NumMsg - c \notin W
      <4> HIDE DEF W
      <4> QED
        BY <2>1, <3>3
    <3>5. e[c] = E[c]
      BY <3>1, <3>4
    <3> QED
      BY <3>5 DEF c
  <2>4. e[k] = E[k]
    BY <1>5, <1>8, <2>3
  <2> QED
    BY <2>2, <2>4
<1>10. Joined(e, <<>>, revtop) = Run(0, NumMsg)
  <2> DEFINE n == Len(toplevel)
             start == [j \in 0..n |-> UpTo(toplevel, j)]
  <2>1. Apart(toplevel) /\ UpTo(toplevel, n) = NumMsg
    BY <1>1, TopsApart
  <2>2. n \in Nat /\ \A j \in 1..n : toplevel[j] \in Msg
    BY <2>1 DEF Apart
  <2>3. /\ revtop \in Seq(Msg) /\ Len(revtop) = n
        /\ \A j \in 1..n : revtop[j] = UpTo(toplevel, j - 1) /\ order[revtop[j]] = toplevel[j]
    BY <1>1, <1>2, <2>2 DEF Ordered
  <2> HIDE DEF n
  <2>4. /\ UpTo(toplevel, 0) = 0 /\ \A j \in 0..n : UpTo(toplevel, j) \in Nat
        /\ \A j \in 1..n : UpTo(toplevel, j) = UpTo(toplevel, j - 1) + conn[toplevel[j]].total
    BY <1>1, <2>1, UpToAdds DEF n
  <2>5. start \in [0..n -> Int] /\ \A j \in 0..n : start[j] = UpTo(toplevel, j)
    BY <2>4
  <2> HIDE DEF start
  <2>6. start[0] = 0 /\ start[n] = NumMsg
    BY <2>1, <2>2, <2>4, <2>5
  <2>7. ASSUME NEW j \in 1..n
        PROVE  start[j - 1] <= start[j] /\ e[revtop[j]] = Run(start[j - 1], start[j])
    <3>1. j \in 0..n /\ j - 1 \in 0..n
      BY <2>2
    <3> DEFINE u == UpTo(toplevel, j - 1)
               v == UpTo(toplevel, j)
               t == conn[toplevel[j]].total
    <3>2. u \in Nat /\ v \in Nat /\ v = u + t /\ start[j - 1] = u /\ start[j] = v
      BY <2>4, <2>5, <3>1
    <3>3. revtop[j] = u /\ revtop[j] \in Msg /\ order[revtop[j]] = toplevel[j]
      BY <2>3
    <3>4. total[revtop[j]] = t
      BY <3>3 DEF total
    <3>5. t \in Nat
      BY <1>1, <2>2, ThreadTyped DEF Stored
    <3> HIDE DEF u, v, t
    <3>6. start[j - 1] <= start[j] /\ start[j] = start[j - 1] + t
      BY <3>2, <3>5
    <3>7. e[revtop[j]] = Run(revtop[j], revtop[j] + total[revtop[j]])
      BY <1>9, <3>3 DEF E
    <3> QED
      BY <3>2, <3>3, <3>4, <3>6, <3>7
  <2>8. Joined(e, Run(0, start[0]), revtop) = Run(0, start[n])
    BY <2>3, <2>5, <2>6, <2>7, RunsFold
  <2>9. Run(0, 0) = <<>>
    BY DEF Run
  <2> QED
    BY <2>6, <2>8, <2>9
<1>11. Run(0, NumMsg) = [k \in 1..NumMsg |-> k - 1]
  <2>1. NumMsg \in Nat
    BY SortAssumption
  <2>2. \A k \in 1..NumMsg : 0 + k - 1 = k - 1
    BY <2>1
  <2>3. Run(0, NumMsg) = [k \in 1..(NumMsg - 0) |-> 0 + k - 1] /\ NumMsg - 0 = NumMsg
    BY <2>1 DEF Run
  <2> QED
    BY <2>2, <2>3
<1> QED
  BY <1>3, <1>10, <1>11

(* uat-verify finds every archive uat-sort has written sorted.             *)
THEOREM VerifyFindsItSorted == Spec => []VerifySorted
<1>1. IInv => VerifySorted
  BY WalksInOrder DEF VerifySorted
<1> QED
  BY <1>1, Invariance, PTL
-----------------------------------------------------------------------------
(* A total order of the places of a list, and a list with its elements in  *)
(* that order.                                                             *)
Total(K, before) ==
    /\ before \in [K -> SUBSET K]
    /\ \A k, l \in K : k \in before[l] => l \notin before[k]
    /\ \A k, l \in K : k # l => k \in before[l] \/ l \in before[k]
    /\ \A j, k, l \in K : j \in before[k] /\ k \in before[l] => j \in before[l]

Arranges(p, K, before) ==
    /\ p \in [1..Cardinality(K) -> K]
    /\ \A l \in K : \E k \in 1..Cardinality(K) : p[k] = l
    /\ \A j, k \in 1..Cardinality(K) : p[j] = p[k] => j = k
    /\ \A j, k \in 1..Cardinality(K) : j < k => p[j] \in before[p[k]]

LEMMA SizesGrow ==
    ASSUME NEW K, IsFiniteSet(K), NEW before, Total(K, before)
    PROVE  /\ \A l \in K : /\ Cardinality(before[l]) \in Nat
                           /\ Cardinality(before[l]) < Cardinality(K)
           /\ \A k, l \in K : k \in before[l] =>
                 Cardinality(before[k]) < Cardinality(before[l])
<1>1. ASSUME NEW S, NEW T, IsFiniteSet(T), NEW x \in T, S \subseteq T \ {x}
      PROVE  Cardinality(S) \in Nat /\ Cardinality(S) < Cardinality(T)
  <2>1. /\ IsFiniteSet(T \ {x}) /\ Cardinality(T \ {x}) = Cardinality(T) - 1
    BY <1>1, FS_RemoveElement
  <2>2. S \in SUBSET (T \ {x})
    BY <1>1
  <2>3. IsFiniteSet(S) /\ Cardinality(S) <= Cardinality(T \ {x})
    BY <2>1, <2>2, FS_Subset
  <2>4. Cardinality(S) \in Nat /\ Cardinality(T) \in Nat
    BY <1>1, <2>3, FS_CardinalityType
  <2> QED
    BY <2>1, <2>3, <2>4
<1>2. ASSUME NEW l \in K
      PROVE  /\ Cardinality(before[l]) \in Nat /\ Cardinality(before[l]) < Cardinality(K)
             /\ IsFiniteSet(before[l])
  <2>1. before[l] \subseteq K \ {l} /\ before[l] \in SUBSET K
    BY DEF Total
  <2> QED
    BY <1>1, <2>1, FS_Subset
<1>3. ASSUME NEW k \in K, NEW l \in K, k \in before[l]
      PROVE  Cardinality(before[k]) < Cardinality(before[l])
  <2>1. before[k] \subseteq before[l] \ {k}
    BY <1>3 DEF Total
  <2> QED
    BY <1>1, <1>2, <1>3, <2>1
<1> QED
  BY <1>2, <1>3

LEMMA ArrangedIs ==
    ASSUME NEW K, IsFiniteSet(K), NEW before, Total(K, before), NEW list
    PROVE  \E p : /\ Arranges(p, K, before)
                  /\ Arranged(list, before) = [k \in 1..Cardinality(K) |-> list[p[k]]]
<1> DEFINE c == Cardinality(K)
           size == [l \in K |-> Cardinality(before[l])]
           p == [k \in 1..c |-> CHOOSE l \in K : Cardinality(before[l]) = k - 1]
<1>1. IsFiniteSet(K) /\ c \in Nat
  BY FS_CardinalityType
<1>2. /\ DOMAIN before = K
      /\ \A l \in K : size[l] \in Nat /\ size[l] < c
      /\ \A k, l \in K : k \in before[l] => size[k] < size[l]
  <2>1. DOMAIN before = K
    BY DEF Total
  <2> QED
    BY <1>1, <2>1, SizesGrow
<1> HIDE DEF c
<1>3. \A k, l \in K : size[k] = size[l] => k = l
  <2> SUFFICES ASSUME NEW k \in K, NEW l \in K, size[k] = size[l], k # l PROVE FALSE
    OBVIOUS
  <2>1. k \in before[l] \/ l \in before[k]
    BY DEF Total
  <2>2. size[k] < size[l] \/ size[l] < size[k]
    BY <1>2, <2>1
  <2>3. size[k] \in Nat /\ size[l] \in Nat
    BY <1>2
  <2> QED
    BY <2>2, <2>3
<1> HIDE DEF size
<1>4. size \in Injection(K, 0..(c - 1))
  <2>1. size \in [K -> 0..(c - 1)]
    <3>1. size = [l \in K |-> size[l]]
      BY DEF size
    <3>2. \A l \in K : size[l] \in 0..(c - 1)
      BY <1>1, <1>2
    <3> QED
      BY <3>1, <3>2
  <2> QED
    BY <1>3, <2>1 DEF Injection, IsInjective
<1>5. IsFiniteSet(0..(c - 1)) /\ Cardinality(0..(c - 1)) = c
  <2>1. 0 \in Int /\ c - 1 \in Int
    BY <1>1
  <2>2. /\ IsFiniteSet(0..(c - 1))
        /\ Cardinality(0..(c - 1)) = IF 0 > c - 1 THEN 0 ELSE c - 1 - 0 + 1
    BY <2>1, FS_Interval
  <2> QED
    BY <1>1, <2>2
<1>6. size \in Surjection(K, 0..(c - 1))
  BY <1>4, <1>5, FS_Injection DEF c
<1>7. ASSUME NEW k \in 1..c PROVE p[k] \in K /\ size[p[k]] = k - 1
  <2>1. k - 1 \in 0..(c - 1)
    BY <1>1
  <2>2. \E l \in K : size[l] = k - 1
    BY <1>6, <2>1 DEF Surjection
  <2>3. \E l \in K : Cardinality(before[l]) = k - 1
    BY <2>2 DEF size
  <2> QED
    BY <2>3 DEF size
<1>8. p \in [1..c -> K]
  BY <1>7
<1>9. ASSUME NEW l \in K PROVE \E k \in 1..c : p[k] = l
  <2>1. size[l] + 1 \in 1..c /\ size[l] = (size[l] + 1) - 1
    BY <1>1, <1>2
  <2>2. p[size[l] + 1] \in K /\ size[p[size[l] + 1]] = size[l]
    BY <1>7, <2>1
  <2> QED
    BY <1>3, <2>1, <2>2
<1>10. ASSUME NEW j \in 1..c, NEW k \in 1..c, p[j] = p[k] PROVE j = k
  <2>1. j - 1 = k - 1
    BY <1>7, <1>10
  <2> QED
    BY <1>1, <2>1
<1>11. ASSUME NEW j \in 1..c, NEW k \in 1..c, j < k PROVE p[j] \in before[p[k]]
  <2>1. /\ p[j] \in K /\ p[k] \in K /\ size[p[j]] = j - 1 /\ size[p[k]] = k - 1
    BY <1>7
  <2>2. p[j] # p[k]
    BY <1>1, <1>10, <1>11
  <2>3. p[k] \notin before[p[j]]
    <3> SUFFICES ASSUME p[k] \in before[p[j]] PROVE FALSE
      OBVIOUS
    <3>1. k - 1 < j - 1
      BY <1>2, <2>1
    <3> QED
      BY <1>1, <1>11, <3>1
  <2> QED
    BY <2>1, <2>2, <2>3 DEF Total
<1>12. Arranges(p, K, before)
  <2> HIDE DEF p
  <2> QED
    BY <1>8, <1>9, <1>10, <1>11 DEF Arranges, c
<1>13. Arranged(list, before) = [k \in 1..c |-> list[p[k]]]
  BY <1>2 DEF Arranged, c
<1> HIDE DEF p
<1> QED
  BY <1>12, <1>13 DEF c

(* Sorted by a number, with the first of equal ones first.                 *)
LEMMA LowFirstTotal ==
    ASSUME NEW K \in SUBSET Nat, NEW num, \A k \in K : num[k] \in Int
    PROVE  Total(K, LowFirst(K, num))
<1>1. \A l \in K : LowFirst(K, num)[l] = {k \in K : num[k] < num[l] \/ (num[k] = num[l] /\ k < l)}
  BY DEF LowFirst
<1>2. LowFirst(K, num) \in [K -> SUBSET K]
  BY DEF LowFirst
<1>3. \A k \in K : k \in Int
  OBVIOUS
<1> QED
  BY <1>1, <1>2, <1>3 DEF Total

(* Fractions compared crosswise are in order.                              *)
LEMMA TimesKeeps ==
    ASSUME NEW x \in Int, NEW y \in Int, NEW z \in Nat \ {0}
    PROVE  /\ x * z \in Int
           /\ x <= y => x * z <= y * z
           /\ x < y => x * z < y * z
BY SMT

LEMMA Crosswise ==
    ASSUME NEW a \in Int, NEW c \in Int, NEW e \in Int,
           NEW b \in Nat \ {0}, NEW d \in Nat \ {0}, NEW f \in Nat \ {0},
           c * b <= a * d, e * d <= c * f
    PROVE  /\ e * b <= a * f
           /\ (c * b < a * d \/ e * d < c * f) => e * b < a * f
<1>1. /\ a * d \in Int /\ c * b \in Int /\ e * d \in Int /\ c * f \in Int
      /\ a * f \in Int /\ e * b \in Int
  OBVIOUS
<1>2. /\ (c * b) * f <= (a * d) * f /\ (c * b < a * d => (c * b) * f < (a * d) * f)
      /\ (c * b) * f \in Int /\ (a * d) * f \in Int
  BY <1>1, TimesKeeps
<1>3. /\ (e * d) * b <= (c * f) * b /\ (e * d < c * f => (e * d) * b < (c * f) * b)
      /\ (e * d) * b \in Int /\ (c * f) * b \in Int
  BY <1>1, TimesKeeps
<1>4. (c * f) * b = (c * b) * f /\ (e * d) * b = (e * b) * d /\ (a * d) * f = (a * f) * d
  BY SMT
<1>5. /\ (e * b) * d <= (a * f) * d
      /\ (c * b < a * d \/ e * d < c * f) => (e * b) * d < (a * f) * d
  <2> DEFINE u == (c * b) * f
             v == (e * b) * d
             w == (a * f) * d
  <2>1. /\ u \in Int /\ v \in Int /\ w \in Int /\ u <= w /\ v <= u
        /\ (c * b < a * d => u < w) /\ (e * d < c * f => v < u)
    BY <1>2, <1>3, <1>4
  <2> HIDE DEF u, v, w
  <2>2. v <= w /\ (u < w \/ v < u => v < w)
    BY <2>1
  <2>3. v <= w /\ ((c * b < a * d \/ e * d < c * f) => v < w)
    BY <2>1, <2>2
  <2> QED
    BY <2>3 DEF v, w
<1>6. /\ a * f < e * b => (a * f) * d < (e * b) * d
      /\ a * f <= e * b => (a * f) * d <= (e * b) * d
      /\ (a * f) * d \in Int /\ (e * b) * d \in Int
  BY <1>1, TimesKeeps
<1> DEFINE p == a * f
           q == e * b
           pd == p * d
           qd == q * d
           strict == c * b < a * d \/ e * d < c * f
<1>7. /\ p \in Int /\ q \in Int /\ pd \in Int /\ qd \in Int
      /\ qd <= pd /\ (strict => qd < pd)
      /\ (p < q => pd < qd) /\ (p <= q => pd <= qd)
  BY <1>1, <1>5, <1>6
<1> HIDE DEF p, q, pd, qd, strict
<1>8. q <= p /\ (strict => q < p)
  BY <1>7
<1> QED
  BY <1>8 DEF p, q, strict

Weight(hit) == LexiconWeights[hit.type] * (10 * MaxPos[hit.type] - 9 * hit.pos)

LEMMA HitTyped ==
    ASSUME NEW h \in Hit
    PROVE  /\ h.type \in Types /\ h.pos \in Nat /\ h.pos <= MaxPos[h.type]
           /\ h = [type |-> h.type, pos |-> h.pos]
           /\ MaxPos[h.type] \in Nat \ {0} /\ MaxPos[h.type] < Byte /\ MaxPos[h.type] <= 127
           /\ Byte \in Nat /\ Weight(h) \in Int
<1>1. h \in [type : Types, pos : 0..Byte] /\ h.pos <= MaxPos[h.type]
  BY DEF Hit
<1>2. /\ h.type \in Types /\ h.pos \in 0..Byte /\ h = [type |-> h.type, pos |-> h.pos]
  BY <1>1
<1>3. Byte \in Nat /\ MaxPos[h.type] \in 1..127 /\ MaxPos[h.type] < Byte
  BY <1>2, LexiconAssumption
<1>4. LexiconWeights[h.type] \in Nat
  BY <1>2 DEF Types, LexiconWeights
<1>5. 10 * MaxPos[h.type] - 9 * h.pos \in Int
  BY <1>2, <1>3
<1>6. Weight(h) \in Int
  <2> DEFINE u == LexiconWeights[h.type]
             v == 10 * MaxPos[h.type] - 9 * h.pos
  <2>1. u \in Int /\ v \in Int
    BY <1>4, <1>5
  <2> HIDE DEF u, v
  <2>2. u * v \in Int
    BY <2>1
  <2> QED
    BY <2>2 DEF u, v, Weight
<1> QED
  BY <1>1, <1>2, <1>3, <1>6

LEMMA RanksTotal ==
    ASSUME NEW hits \in Seq(Hit)
    PROVE  Total(DOMAIN hits, ByRank(hits))
<1> DEFINE K == DOMAIN hits
           d(k) == MaxPos[hits[k].type]
           n(k) == Weight(hits[k])
           R(k, l) == RanksAbove(hits[k], hits[l])
           B(k, l) == R(k, l) \/ (~R(l, k) /\ k < l)
<1>1. \A k \in K : hits[k] \in Hit /\ k \in Nat /\ d(k) \in Nat \ {0} /\ n(k) \in Int
  BY HitTyped
<1>2. \A k, l \in K : R(k, l) <=> n(l) * d(k) < n(k) * d(l)
  <2> SUFFICES ASSUME NEW k \in K, NEW l \in K PROVE R(k, l) <=> n(l) * d(k) < n(k) * d(l)
    OBVIOUS
  <2>1. R(k, l) <=> n(k) * d(l) > n(l) * d(k)
    BY DEF RanksAbove, Weight
  <2>2. n(k) * d(l) \in Int /\ n(l) * d(k) \in Int
    BY <1>1
  <2> QED
    BY <2>1, <2>2
<1>3. \A l \in K : ByRank(hits)[l] = {k \in K : B(k, l)}
  BY DEF ByRank
<1>4. ByRank(hits) \in [K -> SUBSET K]
  BY DEF ByRank
<1> HIDE DEF R, d, n
<1>5. ASSUME NEW k \in K, NEW l \in K
      PROVE  /\ ~(R(k, l) /\ R(l, k)) /\ (~R(k, l) <=> n(k) * d(l) <= n(l) * d(k))
             /\ (B(k, l) => ~B(l, k)) /\ (k # l => B(k, l) \/ B(l, k))
             /\ (B(k, l) => n(l) * d(k) <= n(k) * d(l))
  <2>1. n(k) * d(l) \in Int /\ n(l) * d(k) \in Int /\ k \in Nat /\ l \in Nat
    BY <1>1
  <2>2. (R(k, l) <=> n(l) * d(k) < n(k) * d(l)) /\ (R(l, k) <=> n(k) * d(l) < n(l) * d(k))
    BY <1>2
  <2> DEFINE x == n(l) * d(k)
             y == n(k) * d(l)
  <2>3. x \in Int /\ y \in Int /\ (R(k, l) <=> x < y) /\ (R(l, k) <=> y < x)
    BY <2>1, <2>2
  <2> HIDE DEF x, y
  <2>4. /\ ~(R(k, l) /\ R(l, k)) /\ (~R(k, l) <=> y <= x)
        /\ (B(k, l) => ~B(l, k)) /\ (k # l => B(k, l) \/ B(l, k))
        /\ (B(k, l) => x <= y)
    BY <2>1, <2>3
  <2> QED
    BY <2>4 DEF x, y
<1>6. ASSUME NEW j \in K, NEW k \in K, NEW l \in K, B(j, k), B(k, l)
      PROVE  B(j, l)
  <2>1. n(k) * d(j) <= n(j) * d(k) /\ n(l) * d(k) <= n(k) * d(l)
    BY <1>5, <1>6
  <2>2. /\ n(l) * d(j) <= n(j) * d(l)
        /\ (n(k) * d(j) < n(j) * d(k) \/ n(l) * d(k) < n(k) * d(l)) => n(l) * d(j) < n(j) * d(l)
    BY <1>1, <2>1, Crosswise
  <2>3. R(j, k) \/ R(k, l) => R(j, l)
    BY <1>2, <2>2
  <2>4. ~R(l, j)
    BY <1>5, <2>2
  <2>5. j < k /\ k < l => j < l
    BY <1>1
  <2> QED
    BY <1>6, <2>3, <2>4, <2>5
<1> HIDE DEF B
<1> QED
  BY <1>3, <1>4, <1>5, <1>6 DEF Total

(* Hits by rank: the same hits, none above the one before it.              *)
LEMMA HitsSorted ==
    ASSUME NEW hits \in Seq(Hit)
    PROVE  LET s == Arranged(hits, ByRank(hits))
           IN  /\ s \in Seq(Hit) /\ Len(s) = Len(hits) /\ Range(s) = Range(hits)
               /\ \A h \in 2..Len(s) : ~RanksAbove(s[h], s[h - 1])
<1> DEFINE n == Len(hits)
           s == Arranged(hits, ByRank(hits))
<1>1. /\ n \in Nat /\ DOMAIN hits = 1..n /\ \A k \in 1..n : hits[k] \in Hit
      /\ Cardinality(1..n) = n
  <2>1. n \in Nat /\ DOMAIN hits = 1..n /\ \A k \in 1..n : hits[k] \in Hit
    OBVIOUS
  <2> HIDE DEF n
  <2>2. Cardinality(1..n) = n
    BY <2>1, FS_Interval
  <2> QED
    BY <2>1, <2>2
<1>2. \E p : Arranges(p, 1..n, ByRank(hits)) /\ s = [k \in 1..n |-> hits[p[k]]]
  <2> DEFINE K == DOMAIN hits
             before == ByRank(hits)
  <2>1. Total(K, before) /\ K = 1..n
    BY <1>1, RanksTotal
  <2>f. IsFiniteSet(K)
    BY <1>1, <2>1, FS_Interval
  <2> HIDE DEF n, K, before
  <2>2. \E p : /\ Arranges(p, K, before)
               /\ Arranged(hits, before) = [k \in 1..Cardinality(K) |-> hits[p[k]]]
    BY <2>1, <2>f, ArrangedIs
  <2> QED
    BY <1>1, <2>1, <2>2 DEF before
<1> HIDE DEF n, s
<1>p. PICK p : Arranges(p, 1..n, ByRank(hits)) /\ s = [k \in 1..n |-> hits[p[k]]]
  BY <1>2
<1>3. /\ p \in [1..n -> 1..n] /\ \A l \in 1..n : \E k \in 1..n : p[k] = l
      /\ \A j, k \in 1..n : j < k => p[j] \in ByRank(hits)[p[k]]
  BY <1>1, <1>p DEF Arranges
<1>4. s \in Seq(Hit) /\ Len(s) = n /\ \A k \in 1..n : s[k] = hits[p[k]]
  <2>1. s \in [1..n -> Hit]
    BY <1>1, <1>p, <1>3
  <2> QED
    BY <1>1, <1>p, <2>1
<1>5. Range(s) = Range(hits)
  BY <1>1, <1>3, <1>4 DEF Range
<1>6. ASSUME NEW h \in 2..n PROVE ~RanksAbove(s[h], s[h - 1])
  <2>1. h \in 1..n /\ h - 1 \in 1..n /\ h - 1 < h
    BY <1>1
  <2>2. p[h - 1] \in ByRank(hits)[p[h]] /\ p[h] \in 1..n /\ p[h - 1] \in 1..n
    BY <1>3, <2>1
  <2>3. p[h] \notin ByRank(hits)[p[h - 1]]
    BY <1>1, <2>2, RanksTotal DEF Total
  <2>4. ~RanksAbove(hits[p[h]], hits[p[h - 1]])
    BY <1>1, <2>2, <2>3 DEF ByRank
  <2> QED
    BY <1>4, <2>1, <2>4
<1> QED
  BY <1>4, <1>5, <1>6 DEF n, s
-----------------------------------------------------------------------------
(* Loops: what holds at first and from one round to the next holds in all  *)
(* rounds, and a loop over 1..n has a result.                              *)
LEMMA Rounds ==
    ASSUME NEW n \in Nat, NEW S, 0 \in S, \A k \in 1..n : k - 1 \in S => k \in S
    PROVE  \A k \in 0..n : k \in S
<1> DEFINE T == {k \in Nat : k <= n /\ k \notin S}
<1> SUFFICES ASSUME T # {} PROVE FALSE
  OBVIOUS
<1>1. PICK k \in T : \A j \in T : ~(j < k)
  <2>1. T \in SUBSET Nat
    OBVIOUS
  <2> HIDE DEF T
  <2> QED
    BY <2>1, LeastNumber
<1>2. k # 0 /\ k \in 1..n /\ k - 1 \in Nat /\ k - 1 <= n /\ k - 1 < k
  OBVIOUS
<1>3. k - 1 \notin T
  <2> HIDE DEF T
  <2> QED
    BY <1>1, <1>2
<1> QED
  BY <1>2, <1>3

Loop(n, S, step)      == n \in Nat /\ step \in [1..n -> [S -> S]]
Runs(g, n, S, base, step) == /\ g \in [0..n -> S] /\ g[0] = base
                             /\ \A k \in 1..n : g[k] = step[k][g[k - 1]]

LEMMA LoopRuns ==
    ASSUME NEW n, NEW S, NEW base \in S, NEW step, Loop(n, S, step)
    PROVE  \E g : Runs(g, n, S, base, step)
<1>0. n \in Nat /\ step \in [1..n -> [S -> S]]
  BY DEF Loop
<1> DEFINE Ran(i, g) == g[0] = base /\ \A k \in 1..i : g[k] = step[k][g[k - 1]]
           T == {i \in 0..n : \E g \in [0..i -> S] : Ran(i, g)}
<1>1. 0 \in T
  <2>1. [k \in 0..0 |-> base] \in [0..0 -> S] /\ Ran(0, [k \in 0..0 |-> base])
    BY <1>0
  <2> HIDE DEF Ran
  <2> QED
    BY <1>0, <2>1
<1>2. ASSUME NEW i \in 1..n, i - 1 \in T PROVE i \in T
  <2>1. PICK g \in [0..(i - 1) -> S] : Ran(i - 1, g)
    BY <1>0, <1>2
  <2> DEFINE h == [k \in 0..i |-> IF k = i THEN step[i][g[i - 1]] ELSE g[k]]
  <2>2. i - 1 \in 0..(i - 1) /\ g[i - 1] \in S /\ step[i][g[i - 1]] \in S
    BY <1>0, <2>1
  <2>3. \A k \in 0..i : k # i => k \in 0..(i - 1)
    BY <1>0
  <2>4. h \in [0..i -> S]
    BY <2>2, <2>3
  <2>5. \A k \in 0..(i - 1) : h[k] = g[k]
    BY <1>0
  <2>6. h[i] = step[i][h[i - 1]]
    <3>1. h[i] = step[i][g[i - 1]]
      BY <1>0
    <3>2. h[i - 1] = g[i - 1]
      BY <2>2, <2>5
    <3> QED
      BY <3>1, <3>2
  <2>7. \A k \in 1..(i - 1) : h[k] = step[k][h[k - 1]]
    <3> HIDE DEF h
    <3>1. \A k \in 1..(i - 1) : k \in 0..(i - 1) /\ k - 1 \in 0..(i - 1)
      BY <1>0
    <3> QED
      BY <2>1, <2>5, <3>1
  <2>8. h[0] = base
    <3> HIDE DEF h
    <3>1. 0 \in 0..(i - 1)
      BY <1>0
    <3> QED
      BY <2>1, <2>5, <3>1
  <2> HIDE DEF h
  <2>9. \A k \in 1..i : k = i \/ k \in 1..(i - 1)
    BY <1>0
  <2>10. Ran(i, h)
    BY <2>6, <2>7, <2>8, <2>9
  <2> HIDE DEF Ran
  <2> QED
    BY <2>4, <2>10
<1>3. \A i \in 0..n : i \in T
  <2> HIDE DEF T
  <2> QED
    BY <1>0, <1>1, <1>2, Rounds
<1>4. n \in T
  <2> HIDE DEF T
  <2> QED
    BY <1>0, <1>3
<1> QED
  BY <1>4 DEF Runs

(* What uat-lexicon reads of a message, and keeps of all.                  *)
LineType == [type : Types, words : Seq(Word)]
HitMap   == UNION {[S -> Seq(Hit)] : S \in SUBSET Msg}
DataType == [Word -> HitMap]

LEMMA LinesTyped ==
    ASSUME NEW t \in Text
    PROVE  Lines(t) \in Seq(LineType)
<1>0. t.body \in Seq(Line)
  BY DEF Text
<1>b. Len(t.body) \in Nat /\ DOMAIN t.body = 1..Len(t.body) /\ \A k \in DOMAIN t.body : t.body[k] \in Line
  BY <1>0
<1> DEFINE head == <<[type |-> "From", words |-> t.from], [type |-> "Subject", words |-> t.subject]>>
           Type(k) == IF \E i \in 1..k : t.body[i].mark THEN "Signature"
                      ELSE IF k <= t.wrote THEN "Wrote"
                      ELSE LexiconTypeFromQuotLevel(t.body[k].level)
           body == [k \in DOMAIN t.body |-> [type |-> Type(k), words |-> t.body[k].words]]
<1>1. /\ t.from \in Seq(Word) /\ t.subject \in Seq(Word) /\ t.body \in Seq(Line)
  BY DEF Text
<1>2. head \in Seq(LineType)
  BY <1>1 DEF LineType, Types
<1>3. body \in Seq(LineType)
  <2>1. Len(t.body) \in Nat /\ DOMAIN t.body = 1..Len(t.body)
    BY <1>b
  <2>2. ASSUME NEW k \in DOMAIN t.body PROVE body[k] \in LineType
    <3>1. t.body[k] \in Line /\ t.body[k].words \in Seq(Word)
      BY <1>b DEF Line
    <3>2. Type(k) \in Types
      BY DEF Types, LexiconTypeFromQuotLevel
    <3> HIDE DEF Type
    <3> QED
      BY <3>1, <3>2 DEF LineType
  <2>3. body \in [1..Len(t.body) -> LineType]
    <3>1. body = [k \in 1..Len(t.body) |-> body[k]]
      BY <2>1
    <3>2. \A k \in 1..Len(t.body) : body[k] \in LineType
      BY <2>1, <2>2
    <3> HIDE DEF body
    <3> QED
      BY <3>1, <3>2
  <2> HIDE DEF body
  <2> QED
    BY <2>1, <2>3
<1>4. Lines(t) = head \o body
  BY DEF Lines
<1> HIDE DEF head, body
<1> QED
  BY <1>2, <1>3, <1>4

HitsIn(dat, m, w) == IF m \in DOMAIN dat[w] THEN dat[w][m] ELSE <<>>
At(type, pos) == [type |-> type, pos |-> pos]

LEMMA MaxTyped ==
    ASSUME NEW t \in Types
    PROVE  /\ MaxPos[t] \in Nat /\ 1 <= MaxPos[t] /\ MaxPos[t] <= 127 /\ MaxPos[t] < Byte
           /\ Byte \in Nat \ {0}
           /\ \A pos \in Nat : pos <= MaxPos[t] => At(t, pos) \in Hit
<1>1. Byte \in Nat /\ MaxPos[t] \in 1..127 /\ MaxPos[t] < Byte
  BY LexiconAssumption
<1>2. MaxPos[t] \in Nat /\ 1 <= MaxPos[t] /\ MaxPos[t] <= 127 /\ Byte \in Nat \ {0}
  BY <1>1
<1>3. ASSUME NEW pos \in Nat, pos <= MaxPos[t] PROVE At(t, pos) \in Hit
  <2>1. pos \in 0..Byte
    BY <1>1, <1>2, <1>3
  <2> QED
    BY <1>3, <2>1 DEF At, Hit
<1> QED
  BY <1>1, <1>2, <1>3

LEMMA DataTyped ==
    ASSUME NEW dat \in DataType, NEW w \in Word
    PROVE  /\ DOMAIN dat[w] \in SUBSET Msg /\ \A x \in DOMAIN dat[w] : dat[w][x] \in Seq(Hit)
           /\ dat[w] \in [DOMAIN dat[w] -> Seq(Hit)]
           /\ \A m : HitsIn(dat, m, w) \in Seq(Hit)
<1>1. dat[w] \in HitMap
  BY DEF DataType
<1>2. PICK S \in SUBSET Msg : dat[w] \in [S -> Seq(Hit)]
  BY <1>1 DEF HitMap
<1>3. <<>> \in Seq(Hit)
  OBVIOUS
<1> QED
  BY <1>2, <1>3 DEF HitsIn

SetHits(dat, m, word, h) ==
    [dat EXCEPT ![word] = [x \in DOMAIN dat[word] \cup {m} |-> IF x = m THEN h ELSE dat[word][x]]]

(* The hits of a word in a message are set: no other word's, and no other  *)
(* message's.                                                              *)
LEMMA HitsSet ==
    ASSUME NEW dat \in DataType, NEW m \in Msg, NEW word \in Word, NEW h \in Seq(Hit)
    PROVE  LET new == SetHits(dat, m, word, h)
           IN  /\ new \in DataType
               /\ \A w \in Word : w # word => new[w] = dat[w]
               /\ DOMAIN new[word] = DOMAIN dat[word] \cup {m}
               /\ \A x \in DOMAIN dat[word] : x # m => new[word][x] = dat[word][x]
               /\ HitsIn(new, m, word) = h
<1> DEFINE old == dat[word]
           S == DOMAIN old \cup {m}
           one == [x \in S |-> IF x = m THEN h ELSE old[x]]
           new == SetHits(dat, m, word, h)
<1>1. /\ DOMAIN old \in SUBSET Msg /\ \A x \in DOMAIN old : old[x] \in Seq(Hit)
  BY DataTyped
<1>2. one = [x \in S |-> IF x = m THEN h ELSE old[x]] /\ m \in S
  OBVIOUS
<1> HIDE DEF one, old
<1>3. one \in [S -> Seq(Hit)] /\ S \in SUBSET Msg
  BY <1>1, <1>2
<1>4. one \in HitMap
  BY <1>3 DEF HitMap
<1>5. new = [dat EXCEPT ![word] = one]
  BY DEF one, old, SetHits
<1>6. DOMAIN dat = Word
  BY DEF DataType
<1> HIDE DEF new, S
<1>7. new \in DataType /\ new[word] = one /\ \A w \in Word : w # word => new[w] = dat[w]
  BY <1>4, <1>5, <1>6 DEF DataType
<1>8. DOMAIN new[word] = DOMAIN old \cup {m} /\ \A x \in DOMAIN old : x # m => new[word][x] = old[x]
  BY <1>2, <1>7 DEF S
<1>9. HitsIn(new, m, word) = h
  BY <1>2, <1>7, <1>8 DEF S, HitsIn
<1> QED
  BY <1>7, <1>8, <1>9 DEF new, old

(* What the loop of Add does of one word.                                  *)
Added(dat, m, type, base, word, new, next) ==
    LET max  == MaxPos[type]
        hits == HitsIn(dat, m, word)
    IN  \/ DOMAIN dat[word] = {} /\ new = Append(hits, At(type, AtMost(max, base % Byte))) /\ next = base + 1
        \/ /\ DOMAIN dat[word] # {} /\ Len(hits) < MaxHits /\ base < max
           /\ new = Append(hits, At(type, base)) /\ next = base + 1
        \/ /\ DOMAIN dat[word] # {} /\ Len(hits) < MaxHits /\ ~(base < max)
           /\ ~Contains(hits, At(type, max)) /\ new = Append(hits, At(type, max)) /\ next = base
        \/ /\ DOMAIN dat[word] # {} /\ new = hits /\ next = base
           /\ \/ ~(Len(hits) < MaxHits)
              \/ ~(base < max) /\ Contains(hits, At(type, max))

State == [data : DataType, basePos : Nat]

LEMMA AddWordIs ==
    ASSUME NEW dat \in DataType, NEW m \in Msg, NEW type \in Types, NEW base \in Nat,
           NEW word \in Word
    PROVE  LET r == AddWord(dat, m, type, base, word)
           IN  /\ r \in State
               /\ \A w \in Word : w # word => r.data[w] = dat[w]
               /\ DOMAIN r.data[word] = DOMAIN dat[word] \cup {m}
               /\ \A x \in DOMAIN dat[word] : x # m => r.data[word][x] = dat[word][x]
               /\ Added(dat, m, type, base, word, HitsIn(r.data, m, word), r.basePos)
<1> DEFINE max  == MaxPos[type]
           hits == HitsIn(dat, m, word)
           first == At(type, AtMost(max, base % Byte))
           Set(h) == SetHits(dat, m, word, h)
           r == AddWord(dat, m, type, base, word)
           Goal == /\ r \in State
                   /\ \A w \in Word : w # word => r.data[w] = dat[w]
                   /\ DOMAIN r.data[word] = DOMAIN dat[word] \cup {m}
                   /\ \A x \in DOMAIN dat[word] : x # m => r.data[word][x] = dat[word][x]
                   /\ Added(dat, m, type, base, word, HitsIn(r.data, m, word), r.basePos)
<1>1. /\ hits \in Seq(Hit) /\ max \in Nat /\ Byte \in Nat \ {0}
      /\ first \in Hit /\ At(type, max) \in Hit /\ (base < max => At(type, base) \in Hit)
  <2>1. hits \in Seq(Hit)
    BY DataTyped
  <2>2. max \in Nat /\ Byte \in Nat \ {0} /\ \A pos \in Nat : pos <= max => At(type, pos) \in Hit
    BY MaxTyped
  <2>3. base % Byte \in Nat
    BY <2>2
  <2>4. AtMost(max, base % Byte) \in Nat /\ AtMost(max, base % Byte) <= max
    BY <2>2, <2>3 DEF AtMost
  <2> QED
    BY <2>1, <2>2, <2>4
<1>2. r = IF DOMAIN dat[word] = {}
          THEN [data |-> Set(Append(hits, first)), basePos |-> base + 1]
          ELSE IF Len(hits) < MaxHits /\ base < max
          THEN [data |-> Set(Append(hits, At(type, base))), basePos |-> base + 1]
          ELSE IF Len(hits) < MaxHits /\ ~Contains(hits, At(type, max))
          THEN [data |-> Set(Append(hits, At(type, max))), basePos |-> base]
          ELSE [data |-> Set(hits), basePos |-> base]
  BY DEF AddWord, HitsIn, At, SetHits
<1>3. ASSUME NEW h \in Seq(Hit), NEW next \in Nat, r = [data |-> Set(h), basePos |-> next],
             Added(dat, m, type, base, word, h, next)
      PROVE  Goal
  <2>1. /\ Set(h) \in DataType
        /\ \A w \in Word : w # word => Set(h)[w] = dat[w]
        /\ DOMAIN Set(h)[word] = DOMAIN dat[word] \cup {m}
        /\ \A x \in DOMAIN dat[word] : x # m => Set(h)[word][x] = dat[word][x]
        /\ HitsIn(Set(h), m, word) = h
    BY HitsSet
  <2>2. r.data = Set(h) /\ r.basePos = next
    BY <1>3
  <2> HIDE DEF Set, r
  <2>3. r \in State
    BY <1>3, <2>1 DEF State
  <2> QED
    BY <1>3, <2>1, <2>2, <2>3
<1>4. base + 1 \in Nat
  OBVIOUS
<1> HIDE DEF Goal, r, Set
<1>5. ASSUME DOMAIN dat[word] = {} PROVE Goal
  <2>1. Append(hits, first) \in Seq(Hit)
    BY <1>1
  <2>2. r = [data |-> Set(Append(hits, first)), basePos |-> base + 1]
    BY <1>2, <1>5
  <2>3. Added(dat, m, type, base, word, Append(hits, first), base + 1)
    BY <1>5 DEF Added
  <2> QED
    BY <1>3, <1>4, <2>1, <2>2, <2>3
<1>6. ASSUME DOMAIN dat[word] # {} /\ Len(hits) < MaxHits /\ base < max PROVE Goal
  <2>1. Append(hits, At(type, base)) \in Seq(Hit)
    BY <1>1, <1>6
  <2>2. r = [data |-> Set(Append(hits, At(type, base))), basePos |-> base + 1]
    BY <1>2, <1>6
  <2>3. Added(dat, m, type, base, word, Append(hits, At(type, base)), base + 1)
    BY <1>6 DEF Added
  <2> QED
    BY <1>3, <1>4, <2>1, <2>2, <2>3
<1>7. ASSUME /\ DOMAIN dat[word] # {} /\ Len(hits) < MaxHits /\ ~(base < max)
             /\ ~Contains(hits, At(type, max)) PROVE Goal
  <2>1. Append(hits, At(type, max)) \in Seq(Hit)
    BY <1>1
  <2>2. r = [data |-> Set(Append(hits, At(type, max))), basePos |-> base]
    BY <1>2, <1>7
  <2>3. Added(dat, m, type, base, word, Append(hits, At(type, max)), base)
    BY <1>7 DEF Added
  <2> QED
    BY <1>3, <2>1, <2>2, <2>3
<1>8. ASSUME /\ DOMAIN dat[word] # {}
             /\ ~(Len(hits) < MaxHits) \/ (~(base < max) /\ Contains(hits, At(type, max))) PROVE Goal
  <2>2. r = [data |-> Set(hits), basePos |-> base]
    BY <1>2, <1>8
  <2>3. Added(dat, m, type, base, word, hits, base)
    BY <1>8 DEF Added
  <2> QED
    BY <1>1, <1>3, <2>2, <2>3
<1>9. Goal
  BY <1>5, <1>6, <1>7, <1>8
<1> QED
  BY <1>9 DEF Goal, r

AddRuns(g, dat, m, type, base, words) ==
    /\ g \in [0..Len(words) -> State]
    /\ g[0] = [data |-> dat, basePos |-> base]
    /\ \A k \in 1..Len(words) : g[k] = AddWord(g[k - 1].data, m, type, g[k - 1].basePos, words[k])
    /\ AddWords(dat, m, type, base, words) = g[Len(words)].data

LEMMA AddWordsRuns ==
    ASSUME NEW dat \in DataType, NEW m \in Msg, NEW type \in Types, NEW base \in Nat,
           NEW words \in Seq(Word)
    PROVE  \E g : AddRuns(g, dat, m, type, base, words)
<1> DEFINE n == Len(words)
           start == [data |-> dat, basePos |-> base]
           Op(k, x) == AddWord(x.data, m, type, x.basePos, words[k])
           step == [k \in 1..n |-> [x \in State |-> Op(k, x)]]
           Eq(f) == f = [k \in 0..n |-> IF k = 0 THEN start ELSE Op(k, f[k - 1])]
           added == CHOOSE f : Eq(f)
<1>1. n \in Nat /\ start \in State /\ \A k \in 1..n : words[k] \in Word
  BY DEF State
<1>2. ASSUME NEW k \in 1..n, NEW x \in State PROVE Op(k, x) \in State
  <2>1. x.data \in DataType /\ x.basePos \in Nat
    BY DEF State
  <2> QED
    BY <1>1, <2>1, AddWordIs
<1>3. AddWords(dat, m, type, base, words) = added[n].data
  BY DEF AddWords
<1> HIDE DEF n, start, Op
<1>4. Loop(n, State, step)
  BY <1>1, <1>2 DEF Loop
<1>5. \A k \in 1..n : \A x \in State : step[k][x] = Op(k, x)
  OBVIOUS
<1> HIDE DEF step
<1>6. PICK g : Runs(g, n, State, start, step)
  BY <1>1, <1>4, LoopRuns
<1>r. g \in [0..n -> State] /\ g[0] = start /\ \A k \in 1..n : g[k] = step[k][g[k - 1]]
  BY <1>6 DEF Runs
<1>7. Eq(g)
  <2>1. ASSUME NEW k \in 0..n PROVE g[k] = IF k = 0 THEN start ELSE Op(k, g[k - 1])
    <3>1. CASE k = 0
      BY <1>r, <3>1
    <3>2. CASE k # 0
      <4>1. k \in 1..n /\ k - 1 \in 0..n
        BY <1>1, <3>2
      <4>2. g[k] = step[k][g[k - 1]] /\ g[k - 1] \in State
        BY <1>r, <4>1
      <4>3. g[k] = Op(k, g[k - 1])
        BY <1>5, <4>1, <4>2
      <4> QED
        BY <3>2, <4>3
    <3> QED
      BY <3>1, <3>2
  <2> QED
    BY <1>r, <2>1
<1>8. Eq(added)
  <2> HIDE DEF Eq
  <2> QED
    BY <1>7
<1> HIDE DEF added
<1>9. added[0] = start /\ \A k \in 1..n : added[k] = Op(k, added[k - 1])
  BY <1>1, <1>8
<1>10. \A k \in 0..n : added[k] \in State
  <2> DEFINE T == {k \in 0..n : added[k] \in State}
  <2>1. 0 \in T
    BY <1>1, <1>9
  <2>2. ASSUME NEW k \in 1..n, k - 1 \in T PROVE k \in T
    BY <1>1, <1>2, <1>9, <2>2
  <2> HIDE DEF T
  <2>3. \A k \in 0..n : k \in T
    BY <1>1, <2>1, <2>2, Rounds
  <2> QED
    BY <2>3 DEF T
<1>11. added \in [0..n -> State]
  BY <1>8, <1>10
<1>12. AddRuns(added, dat, m, type, base, words)
  BY <1>3, <1>9, <1>11 DEF n, start, Op, AddRuns
<1> QED
  BY <1>12

LEMMA TypesFinite == IsFiniteSet(Types)
<1> DEFINE f == <<"Content", "Quote1", "Quote2", "Quote3", "Signature", "Subject", "From", "Wrote">>
<1>1. f \in [1..8 -> Types] /\ \A t \in Types : \E k \in 1..8 : f[k] = t
  BY DEF Types
<1>2. IsFiniteSet(1..8)
  <2> DEFINE n == 8
  <2>1. 1 \in Int /\ n \in Int
    OBVIOUS
  <2> HIDE DEF n
  <2>2. IsFiniteSet(1..n)
    BY <2>1, FS_Interval
  <2> QED
    BY <2>2 DEF n
<1> HIDE DEF f
<1>3. f \in Surjection(1..8, Types)
  BY <1>1 DEF Surjection
<1> QED
  BY <1>2, <1>3, FS_Surjection

LEMMA HitFinite == IsFiniteSet(Hit) /\ Cardinality(Hit) \in Nat /\ Cardinality(Hit) <= 256
<1> DEFINE f == [h \in Hit |-> <<h.type, h.pos>>]
           T == Types \X (0..Byte)
<1>1. IsFiniteSet(T)
  <2>1. IsFiniteSet(0..Byte)
    BY FS_Interval, LexiconAssumption
  <2> QED
    BY <2>1, TypesFinite, FS_Product
<1>2. f \in [Hit -> T]
  <2>1. \A h \in Hit : h.type \in Types /\ h.pos \in 0..Byte
    BY DEF Hit
  <2> QED
    BY <2>1
<1>3. \A g, h \in Hit : f[g] = f[h] => g = h
  <2> SUFFICES ASSUME NEW g \in Hit, NEW h \in Hit, f[g] = f[h] PROVE g = h
    OBVIOUS
  <2>1. g.type = h.type /\ g.pos = h.pos
    OBVIOUS
  <2> HIDE DEF f
  <2> QED
    BY <2>1, HitTyped
<1> HIDE DEF f, T
<1>4. f \in Injection(Hit, T)
  BY <1>2, <1>3 DEF Injection, IsInjective
<1>5. IsFiniteSet(Hit)
  BY <1>1, <1>4, FS_Injection
<1> QED
  BY <1>5, FS_CardinalityType, LexiconAssumption DEF MaxHits

(* Hits that are all different are at most as many as there are.           *)
Apiece(hits) == /\ hits \in Seq(Hit)
                /\ \A i, j \in 1..Len(hits) : hits[i] = hits[j] => i = j

LEMMA FewHits ==
    ASSUME NEW hits, Apiece(hits)
    PROVE  /\ Range(hits) \subseteq Hit /\ IsFiniteSet(Range(hits))
           /\ Cardinality(Range(hits)) = Len(hits) /\ Len(hits) \in Nat
           /\ \A x, y \in Hit : x # y /\ x \notin Range(hits) /\ y \notin Range(hits) =>
                 Len(hits) < MaxHits
<1> DEFINE R == Range(hits)
           n == Len(hits)
<1>1. n \in Nat /\ hits \in [1..n -> Hit] /\ \A i, j \in 1..n : hits[i] = hits[j] => i = j
  BY DEF Apiece
<1>2. R \in SUBSET Hit /\ R = {hits[k] : k \in 1..n}
  BY <1>1 DEF Range
<1> HIDE DEF R, n
<1>3. hits \in Surjection(1..n, R) /\ hits \in Injection(1..n, R)
  BY <1>1, <1>2 DEF Surjection, Injection, IsInjective
<1>4. IsFiniteSet(1..n) /\ Cardinality(1..n) = n
  BY <1>1, FS_Interval
<1>5. IsFiniteSet(R) /\ Cardinality(R) = n
  BY <1>3, <1>4, FS_Surjection
<1>6. ASSUME NEW x \in Hit, NEW y \in Hit, x # y, x \notin R, y \notin R
      PROVE  n < MaxHits
  <2>1. IsFiniteSet(R \cup {x}) /\ Cardinality(R \cup {x}) = n + 1
    BY <1>5, <1>6, FS_AddElement
  <2>2. y \notin R \cup {x}
    BY <1>6
  <2>3. /\ IsFiniteSet((R \cup {x}) \cup {y}) /\ Cardinality((R \cup {x}) \cup {y}) = n + 1 + 1
    BY <2>1, <2>2, FS_AddElement
  <2>4. (R \cup {x}) \cup {y} \in SUBSET Hit
    BY <1>2
  <2>5. Cardinality((R \cup {x}) \cup {y}) <= Cardinality(Hit)
    BY <2>4, HitFinite, FS_Subset
  <2> QED
    BY <1>1, <2>3, <2>5, HitFinite DEF MaxHits
<1> QED
  BY <1>1, <1>2, <1>5, <1>6 DEF R, n

(* The hits of a word in a message that has stood at the places O so far:  *)
(* none twice; each of a place, or of a context with a place whose number  *)
(* takes more than a byte; a hit of each place, if no number does and      *)
(* there is room; and of each context.                                     *)
Cut(o) == At(o.type, AtMost(MaxPos[o.type], o.pos))
Spots == [type : Types, pos : Nat]

HitsInv(hits, O) ==
    /\ Apiece(hits)
    /\ \A h \in Range(hits) : \E o \in O : o.type = h.type /\ (Cut(o) = h \/ o.pos >= Byte)
    /\ \A o \in O : \/ Cut(o) \in Range(hits)
                    \/ \E x \in O : x.pos >= Byte
                    \/ Len(hits) >= MaxHits
    /\ \A o \in O : \E h \in Range(hits) : h.type = o.type

(* One place more.                                                         *)
Grown(hits, type, base, new, next) ==
    LET max == MaxPos[type]
    IN  \/ hits = <<>> /\ new = Append(hits, At(type, AtMost(max, base % Byte))) /\ next = base + 1
        \/ /\ Len(hits) < MaxHits /\ base < max
           /\ new = Append(hits, At(type, base)) /\ next = base + 1
        \/ /\ Len(hits) < MaxHits /\ ~(base < max) /\ ~Contains(hits, At(type, max))
           /\ new = Append(hits, At(type, max)) /\ next = base
        \/ /\ new = hits /\ next = base
           /\ ~(Len(hits) < MaxHits) \/ (~(base < max) /\ Contains(hits, At(type, max)))

LEMMA CutTyped ==
    ASSUME NEW o \in Spots
    PROVE  /\ o = At(o.type, o.pos) /\ o.type \in Types /\ o.pos \in Nat
           /\ Cut(o) \in Hit /\ Cut(o).type = o.type
           /\ Cut(o).pos = AtMost(MaxPos[o.type], o.pos)
<1>1. o = At(o.type, o.pos) /\ o.type \in Types /\ o.pos \in Nat
  BY DEF Spots, At
<1>2. /\ MaxPos[o.type] \in Nat /\ \A pos \in Nat : pos <= MaxPos[o.type] => At(o.type, pos) \in Hit
  BY <1>1, MaxTyped
<1>3. AtMost(MaxPos[o.type], o.pos) \in Nat /\ AtMost(MaxPos[o.type], o.pos) <= MaxPos[o.type]
  BY <1>1, <1>2 DEF AtMost
<1> QED
  BY <1>1, <1>2, <1>3 DEF Cut, At

LEMMA AppendHit ==
    ASSUME NEW hits, Apiece(hits), NEW h \in Hit, h \notin Range(hits)
    PROVE  /\ Apiece(Append(hits, h)) /\ Range(Append(hits, h)) = Range(hits) \cup {h}
           /\ Len(Append(hits, h)) = Len(hits) + 1
<1> DEFINE n == Len(hits)
           s == Append(hits, h)
<1>1. /\ n \in Nat /\ s \in Seq(Hit) /\ Len(s) = n + 1 /\ s[n + 1] = h
      /\ \A k \in 1..n : s[k] = hits[k]
      /\ DOMAIN hits = 1..n /\ DOMAIN s = 1..(n + 1)
  BY DEF Apiece
<1>2. \A k \in 1..n : hits[k] \in Range(hits)
  BY <1>1 DEF Range
<1> HIDE DEF n, s
<1>3. \A k \in 1..(n + 1) : k \in 1..n \/ k = n + 1
  BY <1>1
<1>4. Range(s) = Range(hits) \cup {h}
  <2>1. n + 1 \in 1..(n + 1) /\ \A k \in 1..n : k \in 1..(n + 1)
    BY <1>1
  <2> QED
    BY <1>1, <1>3, <2>1 DEF Range
<1>5. ASSUME NEW i \in 1..(n + 1), NEW j \in 1..(n + 1), s[i] = s[j] PROVE i = j
  <2>1. \A k, l \in 1..n : hits[k] = hits[l] => k = l
    BY DEF Apiece, n
  <2> QED
    BY <1>1, <1>2, <1>3, <1>5, <2>1
<1> QED
  BY <1>1, <1>4, <1>5 DEF Apiece, n, s

LEMMA HitsGrow ==
    ASSUME NEW hits, NEW O \in SUBSET Spots, HitsInv(hits, O),
           NEW type \in Types, NEW P \in Nat, NEW base \in Nat, base <= P,
           base < MaxPos[type] => base = P,
           \A o \in O : o.type = type => o.pos < P,
           NEW new, NEW next, Grown(hits, type, base, new, next)
    PROVE  /\ HitsInv(new, O \cup {At(type, P)})
           /\ next \in Nat /\ next <= P + 1 /\ (next < MaxPos[type] => next = P + 1)
<1> DEFINE max == MaxPos[type]
           p == At(type, P)
           O2 == O \cup {p}
<1>1. /\ max \in Nat /\ 1 <= max /\ max < Byte /\ Byte \in Nat \ {0}
      /\ \A pos \in Nat : pos <= max => At(type, pos) \in Hit
      /\ p \in Spots /\ p.type = type /\ p.pos = P /\ Cut(p) = At(type, AtMost(max, P))
  BY MaxTyped DEF At, Spots, Cut
<1>2. /\ Apiece(hits) /\ hits \in Seq(Hit) /\ Len(hits) \in Nat /\ Range(hits) \subseteq Hit
      /\ \A h : Contains(hits, h) <=> h \in Range(hits)
  <2>1. Apiece(hits) /\ hits \in Seq(Hit)
    BY DEF HitsInv, Apiece
  <2>2. \A h : Contains(hits, h) <=> h \in Range(hits)
    BY <2>1 DEF Contains, Range
  <2> QED
    BY <2>1, <2>2, FewHits
<1>3. \A h \in Range(hits) : h.type = type =>
         \E o \in O : o.type = type /\ o.pos \in Nat /\ o.pos < P /\
                      (h.pos = AtMost(max, o.pos) \/ o.pos >= Byte)
  <2> SUFFICES ASSUME NEW h \in Range(hits), h.type = type
               PROVE  \E o \in O : o.type = type /\ o.pos \in Nat /\ o.pos < P /\
                                   (h.pos = AtMost(max, o.pos) \/ o.pos >= Byte)
    OBVIOUS
  <2>1. PICK o \in O : o.type = h.type /\ (Cut(o) = h \/ o.pos >= Byte)
    BY DEF HitsInv
  <2>2. o.pos \in Nat /\ Cut(o).pos = AtMost(MaxPos[o.type], o.pos)
    BY CutTyped
  <2> QED
    BY <2>1, <2>2
<1>4. \A x \in Nat : At(type, x).type = type /\ At(type, x).pos = x
  BY DEF At
<1>5. base < max => /\ At(type, base) \notin Range(hits) /\ At(type, max) \notin Range(hits)
                    /\ Len(hits) < MaxHits
  <2> SUFFICES ASSUME base < max
               PROVE  /\ At(type, base) \notin Range(hits) /\ At(type, max) \notin Range(hits)
                      /\ Len(hits) < MaxHits
    OBVIOUS
  <2>1. base = P
    OBVIOUS
  <2>2. ASSUME NEW x \in Nat, x >= base, x <= max PROVE At(type, x) \notin Range(hits)
    <3> SUFFICES ASSUME At(type, x) \in Range(hits) PROVE FALSE
      OBVIOUS
    <3>1. PICK o \in O : o.pos \in Nat /\ o.pos < P /\ (x = AtMost(max, o.pos) \/ o.pos >= Byte)
      BY <1>3, <1>4
    <3> QED
      BY <1>1, <2>1, <2>2, <3>1 DEF AtMost
  <2>3. At(type, base) \notin Range(hits) /\ At(type, max) \notin Range(hits)
    BY <1>1, <2>2
  <2>4. At(type, base) \in Hit /\ At(type, max) \in Hit /\ At(type, base) # At(type, max)
    BY <1>1, <1>4
  <2>5. Len(hits) < MaxHits
    BY <1>2, <2>3, <2>4, FewHits
  <2> QED
    BY <2>3, <2>5
<1>6. O2 \in SUBSET Spots /\ p \in O2
  BY <1>1
<1>7. ASSUME NEW h \in Hit, h.type = type, h \notin Range(hits), Cut(p) = h \/ P >= Byte
      PROVE  HitsInv(Append(hits, h), O2)
  <2> DEFINE s == Append(hits, h)
  <2>1. Apiece(s) /\ Range(s) = Range(hits) \cup {h} /\ Len(s) = Len(hits) + 1
    BY <1>2, <1>7, AppendHit
  <2> HIDE DEF s
  <2>2. \A g \in Range(s) : \E o \in O2 : o.type = g.type /\ (Cut(o) = g \/ o.pos >= Byte)
    BY <1>1, <1>6, <1>7, <2>1 DEF HitsInv
  <2>3. \A o \in O2 : \/ Cut(o) \in Range(s)
                      \/ \E x \in O2 : x.pos >= Byte
                      \/ Len(s) >= MaxHits
    <3>1. Len(hits) >= MaxHits => Len(s) >= MaxHits
      BY <1>2, <2>1 DEF MaxHits
    <3>2. Cut(p) \in Range(s) \/ p.pos >= Byte
      BY <1>1, <1>7, <2>1
    <3> QED
      BY <1>6, <2>1, <3>1, <3>2 DEF HitsInv
  <2>4. \A o \in O2 : \E g \in Range(s) : g.type = o.type
    BY <1>1, <1>7, <2>1 DEF HitsInv
  <2> QED
    BY <2>1, <2>2, <2>3, <2>4 DEF HitsInv, s
<1>8. ASSUME Cut(p) \in Range(hits) \/ Len(hits) >= MaxHits
      PROVE  HitsInv(hits, O2)
  <2>1. \E h \in Range(hits) : h.type = type
    <3>1. CASE Cut(p) \in Range(hits)
      BY <1>1, <1>6, <3>1, CutTyped
    <3>2. CASE Len(hits) >= MaxHits
      <4>1. At(type, 0) \in Hit /\ At(type, 1) \in Hit /\ At(type, 0) # At(type, 1)
        BY <1>1, <1>4
      <4>2. ~(Len(hits) < MaxHits)
        BY <1>2, <3>2 DEF MaxHits
      <4>3. At(type, 0) \in Range(hits) \/ At(type, 1) \in Range(hits)
        BY <1>2, <4>1, <4>2, FewHits
      <4> QED
        BY <1>4, <4>3
    <3> QED
      BY <1>8, <3>1, <3>2
  <2>2. \A o \in O2 : \/ Cut(o) \in Range(hits)
                      \/ \E x \in O2 : x.pos >= Byte
                      \/ Len(hits) >= MaxHits
    BY <1>8 DEF HitsInv
  <2>3. \A o \in O2 : \E g \in Range(hits) : g.type = o.type
    BY <1>1, <2>1 DEF HitsInv
  <2>4. \A g \in Range(hits) : \E o \in O2 : o.type = g.type /\ (Cut(o) = g \/ o.pos >= Byte)
    BY DEF HitsInv
  <2> QED
    BY <1>2, <2>2, <2>3, <2>4 DEF HitsInv
<1> HIDE DEF O2, p, max
<1>9. CASE hits = <<>> /\ new = Append(hits, At(type, AtMost(max, base % Byte))) /\ next = base + 1
  <2>1. /\ base % Byte \in Nat /\ (base < Byte => base % Byte = base)
    BY <1>1
  <2> DEFINE x == base % Byte
  <2>2. AtMost(max, x) \in Nat /\ AtMost(max, x) <= max
    BY <1>1, <2>1 DEF AtMost
  <2>3. P < Byte => AtMost(max, x) = AtMost(max, P)
    BY <1>1, <2>1 DEF AtMost, max
  <2> HIDE DEF x
  <2>4. At(type, AtMost(max, x)) \in Hit /\ At(type, AtMost(max, x)).type = type
    BY <1>1, <1>4, <2>2
  <2>5. At(type, AtMost(max, x)) \notin Range(hits)
    BY <1>9 DEF Range
  <2>6. Cut(p) = At(type, AtMost(max, x)) \/ P >= Byte
    BY <1>1, <2>3
  <2>7. HitsInv(new, O2)
    BY <1>7, <1>9, <2>4, <2>5, <2>6 DEF x
  <2>8. next \in Nat /\ next <= P + 1 /\ (next < max => next = P + 1)
    BY <1>1, <1>9 DEF max
  <2> QED
    BY <2>7, <2>8 DEF max, p, O2
<1>10. CASE /\ Len(hits) < MaxHits /\ base < max
            /\ new = Append(hits, At(type, base)) /\ next = base + 1
  <2>1. base = P /\ AtMost(max, P) = P /\ At(type, base) \notin Range(hits)
    BY <1>5, <1>10 DEF max, AtMost
  <2>2. At(type, base) \in Hit /\ At(type, base).type = type /\ Cut(p) = At(type, base)
    BY <1>1, <1>4, <1>10, <2>1
  <2>3. HitsInv(new, O2)
    BY <1>7, <1>10, <2>1, <2>2
  <2> QED
    BY <1>10, <2>1, <2>3 DEF max, p, O2
<1>11. CASE /\ ~(base < max) /\ next = base
            /\ \/ ~Contains(hits, At(type, max)) /\ new = Append(hits, At(type, max))
               \/ new = hits /\ (~(Len(hits) < MaxHits) \/ Contains(hits, At(type, max)))
  <2>1. AtMost(max, P) = max
    BY <1>1, <1>11 DEF AtMost
  <2>2. At(type, max) \in Hit /\ At(type, max).type = type /\ Cut(p) = At(type, max)
    BY <1>1, <1>4, <2>1
  <2>3. ASSUME ~Contains(hits, At(type, max)) /\ new = Append(hits, At(type, max))
        PROVE  HitsInv(new, O2)
    BY <1>2, <1>7, <2>2, <2>3
  <2>4. ASSUME new = hits /\ (~(Len(hits) < MaxHits) \/ Contains(hits, At(type, max)))
        PROVE  HitsInv(new, O2)
    <3>1. Cut(p) \in Range(hits) \/ Len(hits) >= MaxHits
      BY <1>2, <2>2, <2>4 DEF MaxHits
    <3> QED
      BY <1>8, <2>4, <3>1
  <2>5. next \in Nat /\ next <= P + 1 /\ ~(next < max)
    BY <1>1, <1>11
  <2> QED
    BY <1>11, <2>3, <2>4, <2>5 DEF max, p, O2
<1>12. CASE base < max /\ ~(Len(hits) < MaxHits)
  BY <1>5, <1>12
<1> QED
  BY <1>9, <1>10, <1>11, <1>12 DEF Grown, max

(* The places of the words of a message, those of the first i - 1 lines    *)
(* and the first j words of the line after them, and where words stand.    *)
Done(lines, i, j) == {q \in Places(lines) : q[1] < i \/ (q[1] = i /\ q[2] <= j)}
OfType(lines, D, t) == {q \in D : lines[q[1]].type = t}
Count(lines, D, t) == Cardinality(OfType(lines, D, t))
Spot(lines, p) ==
    At(lines[p[1]].type, Count(lines, Done(lines, p[1], p[2] - 1), lines[p[1]].type))
Occ(lines, D, w) == {Spot(lines, p) : p \in {p \in D : lines[p[1]].words[p[2]] = w}}

LEMMA LineIs ==
    ASSUME NEW lines \in Seq(LineType), NEW i \in 1..Len(lines)
    PROVE  /\ lines[i].type \in Types /\ lines[i].words \in Seq(Word)
           /\ Len(lines[i].words) \in Nat /\ DOMAIN lines[i].words = 1..Len(lines[i].words)
           /\ \A j \in 1..Len(lines[i].words) : lines[i].words[j] \in Word
<1>1. lines[i] \in LineType
  OBVIOUS
<1>2. lines[i].type \in Types /\ lines[i].words \in Seq(Word)
  BY <1>1 DEF LineType
<1> QED
  BY <1>2

LEMMA PlacesAre ==
    ASSUME NEW lines \in Seq(LineType)
    PROVE  /\ IsFiniteSet(Places(lines))
           /\ \A i \in 1..Len(lines) : \A j \in 1..Len(lines[i].words) :
                 <<i, j>> \in Places(lines) /\ <<i, j>>[1] = i /\ <<i, j>>[2] = j
           /\ \A p \in Places(lines) :
                 /\ p = <<p[1], p[2]>> /\ p[1] \in 1..Len(lines) /\ p[1] \in Nat
                 /\ p[2] \in 1..Len(lines[p[1]].words) /\ p[2] \in Nat
<1> DEFINE n == Len(lines)
           Row(i) == {i} \X DOMAIN lines[i].words
           rows == {Row(i) : i \in 1..n}
           f == [i \in 1..n |-> Row(i)]
<1>1. n \in Nat /\ DOMAIN lines = 1..n
  OBVIOUS
<1>2. \A i \in 1..n : Len(lines[i].words) \in Nat /\ DOMAIN lines[i].words = 1..Len(lines[i].words)
  BY LineIs
<1>3. Places(lines) = UNION rows
  BY <1>1 DEF Places
<1>4. IsFiniteSet(rows)
  <2>1. f \in Surjection(1..n, rows)
    <3>1. f \in [1..n -> rows] /\ \A r \in rows : \E i \in 1..n : f[i] = r
      OBVIOUS
    <3> HIDE DEF f, rows, n
    <3> QED
      BY <3>1 DEF Surjection
  <2>2. IsFiniteSet(1..n)
    <3> HIDE DEF n
    <3> QED
      BY <1>1, FS_Interval
  <2> HIDE DEF f, rows, n
  <2> QED
    BY <2>1, <2>2, FS_Surjection
<1>5. \A T \in rows : IsFiniteSet(T)
  <2>1. ASSUME NEW i \in 1..n PROVE IsFiniteSet(Row(i))
    <3>1. IsFiniteSet({i})
      BY FS_Singleton
    <3> DEFINE k == Len(lines[i].words)
    <3>2. 1 \in Int /\ k \in Int /\ DOMAIN lines[i].words = 1..k
      BY <1>2
    <3> HIDE DEF k
    <3>3. IsFiniteSet(DOMAIN lines[i].words)
      BY <3>2, FS_Interval
    <3> QED
      BY <3>1, <3>3, FS_Product
  <2> HIDE DEF Row
  <2> QED
    BY <2>1
<1>6. IsFiniteSet(Places(lines))
  <2> HIDE DEF rows
  <2> QED
    BY <1>3, <1>4, <1>5, FS_UNION
<1>7. ASSUME NEW i \in 1..n, NEW j \in 1..Len(lines[i].words)
      PROVE  <<i, j>> \in Places(lines)
  BY <1>1, <1>2 DEF Places
<1>8. ASSUME NEW p \in Places(lines)
      PROVE  /\ p = <<p[1], p[2]>> /\ p[1] \in 1..n /\ p[1] \in Nat
             /\ p[2] \in 1..Len(lines[p[1]].words) /\ p[2] \in Nat
  <2>1. PICK i \in 1..n : p \in {i} \X DOMAIN lines[i].words
    BY <1>1 DEF Places
  <2> QED
    BY <1>2, <2>1
<1> QED
  BY <1>6, <1>7, <1>8

LEMMA DoneEnds ==
    ASSUME NEW lines \in Seq(LineType)
    PROVE  /\ Done(lines, 1, 0) = {} /\ Done(lines, Len(lines) + 1, 0) = Places(lines)
           /\ \A i \in 1..Len(lines) :
                 Done(lines, i, Len(lines[i].words)) = Done(lines, i + 1, 0)
<1>1. Len(lines) \in Nat
  OBVIOUS
<1>2. \A p \in Places(lines) : /\ p[1] \in 1..Len(lines) /\ p[1] \in Nat
                               /\ p[2] \in 1..Len(lines[p[1]].words) /\ p[2] \in Nat
  BY PlacesAre
<1>3. Done(lines, 1, 0) = {} /\ Done(lines, Len(lines) + 1, 0) = Places(lines)
  BY <1>1, <1>2 DEF Done
<1>4. ASSUME NEW i \in 1..Len(lines)
      PROVE  Done(lines, i, Len(lines[i].words)) = Done(lines, i + 1, 0)
  <2>1. i \in Nat /\ Len(lines[i].words) \in Nat
    BY LineIs
  <2>2. ASSUME NEW p \in Places(lines)
        PROVE  (p[1] < i \/ (p[1] = i /\ p[2] <= Len(lines[i].words)))
                 <=> (p[1] < i + 1 \/ (p[1] = i + 1 /\ p[2] <= 0))
    BY <1>2, <2>1
  <2> QED
    BY <2>2 DEF Done
<1> QED
  BY <1>3, <1>4

LEMMA CountTyped ==
    ASSUME NEW lines \in Seq(LineType), NEW i, NEW j, NEW t
    PROVE  /\ IsFiniteSet(OfType(lines, Done(lines, i, j), t))
           /\ Count(lines, Done(lines, i, j), t) \in Nat
<1>1. OfType(lines, Done(lines, i, j), t) \in SUBSET Places(lines)
  BY DEF Done, OfType
<1> QED
  BY <1>1, PlacesAre, FS_Subset, FS_CardinalityType DEF Count

LEMMA DoneAdds ==
    ASSUME NEW lines \in Seq(LineType), NEW i \in 1..Len(lines),
           NEW j \in 1..Len(lines[i].words)
    PROVE  LET D == Done(lines, i, j - 1)
               E == Done(lines, i, j)
               c == Count(lines, D, lines[i].type)
           IN  /\ \A t : Count(lines, E, t) =
                            IF t = lines[i].type THEN Count(lines, D, t) + 1 ELSE Count(lines, D, t)
               /\ \A w : Occ(lines, E, w) =
                            IF w = lines[i].words[j] THEN Occ(lines, D, w) \cup {At(lines[i].type, c)}
                            ELSE Occ(lines, D, w)
<1> DEFINE D == Done(lines, i, j - 1)
           E == Done(lines, i, j)
           p == <<i, j>>
           c == Count(lines, D, lines[i].type)
<1>1. /\ p \in Places(lines) /\ p[1] = i /\ p[2] = j
      /\ i \in Nat /\ j \in Nat
      /\ \A q \in Places(lines) : q = <<q[1], q[2]>> /\ q[1] \in Nat /\ q[2] \in Nat
  BY PlacesAre, LineIs
<1>2. E = D \cup {p} /\ p \notin D
  <2>1. p \notin D
    BY <1>1 DEF Done
  <2>2. ASSUME NEW q \in Places(lines)
        PROVE  (q[1] < i \/ (q[1] = i /\ q[2] <= j))
                 <=> (q[1] < i \/ (q[1] = i /\ q[2] <= j - 1)) \/ q = p
    BY <1>1
  <2>3. ASSUME NEW q \in E PROVE q \in D \cup {p}
    <3>1. q \in Places(lines) /\ (q[1] < i \/ (q[1] = i /\ q[2] <= j))
      BY DEF Done
    <3>2. (q[1] < i \/ (q[1] = i /\ q[2] <= j - 1)) \/ q = p
      BY <2>2, <3>1
    <3> HIDE DEF p
    <3> QED
      BY <3>1, <3>2 DEF Done
  <2>4. ASSUME NEW q \in D \cup {p} PROVE q \in E
    <3>1. q \in Places(lines) /\ ((q[1] < i \/ (q[1] = i /\ q[2] <= j - 1)) \/ q = p)
      BY <1>1 DEF Done
    <3>2. q[1] < i \/ (q[1] = i /\ q[2] <= j)
      BY <2>2, <3>1
    <3> QED
      BY <3>1, <3>2 DEF Done
  <2> HIDE DEF p, D, E
  <2> QED
    BY <2>1, <2>3, <2>4
<1>3. Spot(lines, p) = At(lines[i].type, c)
  BY <1>1 DEF Spot
<1> HIDE DEF D, E, p, c
<1>4. ASSUME NEW t
      PROVE  Count(lines, E, t) =
                IF t = lines[i].type THEN Count(lines, D, t) + 1 ELSE Count(lines, D, t)
  <2> DEFINE Dt == OfType(lines, D, t)
             Et == OfType(lines, E, t)
  <2>1. IsFiniteSet(Dt) /\ p \notin Dt
    <3>1. p \notin Dt
      BY <1>2 DEF OfType
    <3>2. IsFiniteSet(OfType(lines, Done(lines, i, j - 1), t))
      BY CountTyped
    <3> QED
      BY <3>1, <3>2 DEF D
  <2>2. CASE t = lines[i].type
    <3>1. Et = Dt \cup {p}
      BY <1>1, <1>2, <2>2 DEF OfType
    <3> HIDE DEF Dt, Et
    <3>2. Cardinality(Et) = Cardinality(Dt) + 1
      BY <2>1, <3>1, FS_AddElement
    <3> QED
      BY <2>2, <3>2 DEF Count, Dt, Et
  <2>3. CASE t # lines[i].type
    <3>1. Et = Dt
      BY <1>1, <1>2, <2>3 DEF OfType
    <3> QED
      BY <2>3, <3>1 DEF Count
  <2> QED
    BY <2>2, <2>3
<1>5. ASSUME NEW w
      PROVE  Occ(lines, E, w) = IF w = lines[i].words[j] THEN Occ(lines, D, w) \cup {At(lines[i].type, c)}
                                ELSE Occ(lines, D, w)
  BY <1>1, <1>2, <1>3 DEF Occ
<1> QED
  BY <1>4, <1>5 DEF D, E, c

LEMMA OccurrencesAre ==
    ASSUME NEW m, NEW w, Lines(text[m]) \in Seq(LineType)
    PROVE  Occurrences(m, w) = Occ(Lines(text[m]), Places(Lines(text[m])), w)
<1> DEFINE lines == Lines(text[m])
           before(p) == {q \in Places(lines) : /\ lines[q[1]].type = lines[p[1]].type
                                               /\ q[1] < p[1] \/ (q[1] = p[1] /\ q[2] < p[2])}
           Old(p) == [type |-> lines[p[1]].type, pos |-> Cardinality(before(p))]
           here == {p \in Places(lines) : lines[p[1]].words[p[2]] = w}
<1>1. Occurrences(m, w) = {Old(p) : p \in here}
  BY DEF Occurrences
<1> HIDE DEF lines
<1>2. lines \in Seq(LineType)
  BY DEF lines
<1>3. ASSUME NEW p \in Places(lines) PROVE Old(p) = Spot(lines, p)
  <2>1. /\ p[1] \in Nat /\ p[2] \in Nat
        /\ \A q \in Places(lines) : q[1] \in Nat /\ q[2] \in Nat
    BY <1>2, PlacesAre
  <2>2. \A q \in Places(lines) : q[2] < p[2] <=> q[2] <= p[2] - 1
    BY <2>1
  <2>3. before(p) = {q \in Done(lines, p[1], p[2] - 1) : lines[q[1]].type = lines[p[1]].type}
    BY <2>2 DEF Done
  <2> HIDE DEF before
  <2> QED
    BY <2>3 DEF Spot, Count, OfType, At
<1>4. {Old(p) : p \in here} = Occ(lines, Places(lines), w)
  <2> HIDE DEF Old
  <2> QED
    BY <1>3 DEF Occ
<1> QED
  BY <1>1, <1>4 DEF lines

(* What is kept of a message of which the words at the places D are read;  *)
(* dat0 is what was kept before it.                                        *)
MsgInv(dat, dat0, m, lines, D) ==
    /\ dat \in DataType
    /\ \A w \in Word :
          /\ Occ(lines, D, w) \in SUBSET Spots
          /\ \A o \in Occ(lines, D, w) : o.pos < Count(lines, D, o.type)
          /\ DOMAIN dat[w] = DOMAIN dat0[w] \cup (IF Occ(lines, D, w) = {} THEN {} ELSE {m})
          /\ \A x \in DOMAIN dat0[w] : dat[w][x] = dat0[w][x]
          /\ HitsInv(HitsIn(dat, m, w), Occ(lines, D, w))

New(dat0, m) == dat0 \in DataType /\ \A w \in Word : m \notin DOMAIN dat0[w]

(* The position counted: right as long as it is one that can be told.      *)
BaseInv(base, type, P) == base \in Nat /\ base <= P /\ (base < MaxPos[type] => base = P)

WordInv(x, dat0, m, lines, i, j) ==
    /\ x \in State
    /\ MsgInv(x.data, dat0, m, lines, Done(lines, i, j))
    /\ BaseInv(x.basePos, lines[i].type, Count(lines, Done(lines, i, j), lines[i].type))

LEMMA WordStep ==
    ASSUME NEW lines \in Seq(LineType), NEW i \in 1..Len(lines),
           NEW j \in 1..Len(lines[i].words), NEW m \in Msg, NEW dat0, New(dat0, m),
           NEW x, WordInv(x, dat0, m, lines, i, j - 1)
    PROVE  WordInv(AddWord(x.data, m, lines[i].type, x.basePos, lines[i].words[j]),
                   dat0, m, lines, i, j)
<1> DEFINE D == Done(lines, i, j - 1)
           E == Done(lines, i, j)
           type == lines[i].type
           word == lines[i].words[j]
           dat == x.data
           base == x.basePos
           P == Count(lines, D, type)
           r == AddWord(dat, m, type, base, word)
           p == At(type, P)
           hits == HitsIn(dat, m, word)
           new == HitsIn(r.data, m, word)
           O(w) == Occ(lines, D, w)
           O2(w) == Occ(lines, E, w)
<1>1. /\ MsgInv(dat, dat0, m, lines, D) /\ BaseInv(base, type, P) /\ dat \in DataType
      /\ type \in Types /\ word \in Word /\ P \in Nat
  <2>1. type \in Types /\ word \in Word
    BY LineIs
  <2>2. P \in Nat
    BY CountTyped
  <2> QED
    BY <2>1, <2>2 DEF WordInv, MsgInv
<1>2. /\ r \in State
      /\ \A w \in Word : w # word => r.data[w] = dat[w]
      /\ DOMAIN r.data[word] = DOMAIN dat[word] \cup {m}
      /\ \A y \in DOMAIN dat[word] : y # m => r.data[word][y] = dat[word][y]
      /\ Added(dat, m, type, base, word, new, r.basePos)
  <2>1. base \in Nat
    BY <1>1 DEF BaseInv
  <2> HIDE DEF type, word, dat, base
  <2> QED
    BY <1>1, <2>1, AddWordIs
<1>3. /\ \A t : Count(lines, E, t) =
                   IF t = type THEN Count(lines, D, t) + 1 ELSE Count(lines, D, t)
      /\ \A w : O2(w) = IF w = word THEN O(w) \cup {p} ELSE O(w)
  BY DoneAdds
<1>4. /\ p \in Spots /\ p.type = type /\ p.pos = P
  BY <1>1 DEF At, Spots
<1>5. /\ O(word) \in SUBSET Spots /\ HitsInv(hits, O(word))
      /\ \A o \in O(word) : o.type = type => o.pos < P
      /\ DOMAIN dat[word] = {} => hits = <<>>
  BY <1>1 DEF MsgInv, HitsIn
<1> HIDE DEF D, E, type, word, dat, base, P, r, p, hits, new, O, O2
<1>6. Grown(hits, type, base, new, r.basePos)
  BY <1>2, <1>5 DEF Added, Grown, hits
<1>7. /\ HitsInv(new, O2(word))
      /\ BaseInv(r.basePos, type, P + 1)
  <2>1. /\ HitsInv(new, O(word) \cup {At(type, P)})
        /\ r.basePos \in Nat /\ r.basePos <= P + 1 /\ (r.basePos < MaxPos[type] => r.basePos = P + 1)
    BY <1>1, <1>5, <1>6, HitsGrow DEF BaseInv
  <2> QED
    BY <1>3, <2>1 DEF BaseInv, p
<1>8. Count(lines, E, type) = P + 1
  BY <1>3 DEF P
<1>9. ASSUME NEW w \in Word
      PROVE  /\ O2(w) \in SUBSET Spots
             /\ \A o \in O2(w) : o.pos < Count(lines, E, o.type)
             /\ DOMAIN r.data[w] = DOMAIN dat0[w] \cup (IF O2(w) = {} THEN {} ELSE {m})
             /\ \A y \in DOMAIN dat0[w] : r.data[w][y] = dat0[w][y]
             /\ HitsInv(HitsIn(r.data, m, w), O2(w))
  <2>1. /\ O(w) \in SUBSET Spots
        /\ \A o \in O(w) : o.pos < Count(lines, D, o.type)
        /\ DOMAIN dat[w] = DOMAIN dat0[w] \cup (IF O(w) = {} THEN {} ELSE {m})
        /\ \A y \in DOMAIN dat0[w] : dat[w][y] = dat0[w][y] /\ y # m
        /\ HitsInv(HitsIn(dat, m, w), O(w))
    BY <1>1 DEF MsgInv, O, New
  <2>2. O2(w) \in SUBSET Spots
    BY <1>3, <1>4, <2>1
  <2>3. \A o \in O2(w) : o.pos < Count(lines, E, o.type)
    <3> SUFFICES ASSUME NEW o \in O2(w) PROVE o.pos < Count(lines, E, o.type)
      OBVIOUS
    <3>1. Count(lines, D, o.type) \in Nat
      BY CountTyped DEF D
    <3>2. Count(lines, D, o.type) <= Count(lines, E, o.type)
      BY <1>3, <3>1
    <3>3. o.pos \in Nat
      BY <2>2 DEF Spots
    <3>4. CASE o \in O(w)
      BY <2>1, <3>1, <3>2, <3>3, <3>4, <1>3
    <3>5. CASE o = p
      BY <1>1, <1>4, <1>8, <3>5
    <3> QED
      BY <1>3, <3>4, <3>5
  <2>4. CASE w = word
    <3>1. O2(w) # {} /\ O2(w) = O(w) \cup {p}
      BY <1>3, <2>4
    <3>2. DOMAIN r.data[w] = DOMAIN dat0[w] \cup {m}
      BY <1>2, <2>1, <2>4
    <3>3. \A y \in DOMAIN dat0[w] : r.data[w][y] = dat0[w][y]
      BY <1>2, <2>1, <2>4
    <3>4. HitsInv(HitsIn(r.data, m, w), O2(w))
      BY <1>7, <2>4 DEF new
    <3> QED
      BY <2>2, <2>3, <3>1, <3>2, <3>3, <3>4
  <2>5. CASE w # word
    <3>1. O2(w) = O(w) /\ r.data[w] = dat[w]
      BY <1>2, <1>3, <2>5
    <3>2. HitsIn(r.data, m, w) = HitsIn(dat, m, w)
      BY <3>1 DEF HitsIn
    <3> QED
      BY <2>1, <2>2, <2>3, <3>1, <3>2
  <2> QED
    BY <2>4, <2>5
<1>10. r.data \in DataType
  BY <1>2 DEF State
<1>11. MsgInv(r.data, dat0, m, lines, E)
  BY <1>9, <1>10 DEF MsgInv, O2
<1>12. WordInv(r, dat0, m, lines, i, j)
  BY <1>2, <1>7, <1>8, <1>11 DEF WordInv, E, type
<1> QED
  BY <1>12 DEF r, dat, type, base, word

(* A line.                                                                 *)
LEMMA LineCounts ==
    ASSUME NEW lines \in Seq(LineType), NEW i \in 1..Len(lines), NEW t
    PROVE  Count(lines, Done(lines, i + 1, 0), t) =
              IF t = lines[i].type THEN Count(lines, Done(lines, i, 0), t) + Len(lines[i].words)
              ELSE Count(lines, Done(lines, i, 0), t)
<1> DEFINE n == Len(lines[i].words)
           c(k) == Count(lines, Done(lines, i, k), t)
           T == {k \in 0..n : c(k) = IF t = lines[i].type THEN c(0) + k ELSE c(0)}
<1>1. n \in Nat /\ \A k \in 0..n : c(k) \in Nat
  BY LineIs, CountTyped
<1>2. \A k \in 1..n : c(k) = IF t = lines[i].type THEN c(k - 1) + 1 ELSE c(k - 1)
  BY DoneAdds
<1>3. c(n) = Count(lines, Done(lines, i + 1, 0), t)
  BY DoneEnds
<1> HIDE DEF n, c
<1>4. 0 \in T
  BY <1>1
<1>5. ASSUME NEW k \in 1..n, k - 1 \in T PROVE k \in T
  <2>1. k \in 0..n /\ k - 1 \in 0..n /\ k \in Nat /\ c(0) \in Nat
    BY <1>1
  <2>2. c(k - 1) = IF t = lines[i].type THEN c(0) + (k - 1) ELSE c(0)
    BY <1>5
  <2> QED
    BY <1>1, <1>2, <2>1, <2>2
<1>6. \A k \in 0..n : k \in T
  <2> HIDE DEF T
  <2> QED
    BY <1>1, <1>4, <1>5, Rounds
<1>7. n \in T
  <2>1. n \in 0..n
    BY <1>1
  <2> HIDE DEF T
  <2> QED
    BY <1>6, <2>1
<1> QED
  BY <1>3, <1>7 DEF c, n

LEMMA LineStep ==
    ASSUME NEW lines \in Seq(LineType), NEW i \in 1..Len(lines), NEW m \in Msg,
           NEW dat0, New(dat0, m), NEW dat, MsgInv(dat, dat0, m, lines, Done(lines, i, 0)),
           NEW base, base = Count(lines, Done(lines, i, 0), lines[i].type)
    PROVE  MsgInv(AddWords(dat, m, lines[i].type, base, lines[i].words),
                  dat0, m, lines, Done(lines, i + 1, 0))
<1> DEFINE words == lines[i].words
           type == lines[i].type
           n == Len(words)
<1>1. /\ type \in Types /\ words \in Seq(Word) /\ n \in Nat /\ base \in Nat /\ dat \in DataType
      /\ MaxPos[type] \in Nat
  BY LineIs, CountTyped, MaxTyped DEF MsgInv
<1>2. PICK g \in [0..n -> State] :
              /\ g[0] = [data |-> dat, basePos |-> base]
              /\ \A k \in 1..n : g[k] = AddWord(g[k - 1].data, m, type, g[k - 1].basePos, words[k])
              /\ AddWords(dat, m, type, base, words) = g[n].data
  <2>1. \E g : AddRuns(g, dat, m, type, base, words)
    <3> HIDE DEF words, type
    <3> QED
      BY <1>1, AddWordsRuns
  <2> QED
    BY <1>1, <2>1 DEF AddRuns
<1> DEFINE T == {k \in 0..n : WordInv(g[k], dat0, m, lines, i, k)}
<1>3. 0 \in T
  <2>1. 0 \in 0..n
    BY <1>1
  <2>2. g[0] \in State /\ g[0].data = dat /\ g[0].basePos = base
    BY <1>2, <2>1
  <2>3. BaseInv(base, type, Count(lines, Done(lines, i, 0), type))
    BY <1>1 DEF BaseInv
  <2> QED
    BY <2>1, <2>2, <2>3 DEF WordInv
<1>4. ASSUME NEW k \in 1..n, k - 1 \in T PROVE k \in T
  <2>1. k \in 0..n
    BY <1>1
  <2>2. WordInv(g[k - 1], dat0, m, lines, i, k - 1)
    BY <1>4
  <2>3. WordInv(AddWord(g[k - 1].data, m, type, g[k - 1].basePos, words[k]), dat0, m, lines, i, k)
    BY <2>2, WordStep
  <2> QED
    BY <1>2, <2>1, <2>3
<1>5. n \in T
  <2>1. n \in 0..n
    BY <1>1
  <2> HIDE DEF T, n
  <2>2. \A k \in 0..n : k \in T
    BY <1>1, <1>3, <1>4, Rounds
  <2> QED
    BY <2>1, <2>2
<1>6. MsgInv(g[n].data, dat0, m, lines, Done(lines, i, n))
  BY <1>5 DEF WordInv
<1>7. Done(lines, i, n) = Done(lines, i + 1, 0)
  BY DoneEnds
<1> HIDE DEF n
<1> QED
  BY <1>2, <1>6, <1>7

(* A message: positions are counted on from line to line of a type.        *)
Bases == [data : DataType, base : [Types -> Nat]]

LEMMA MessageStep ==
    ASSUME NEW dat0, NEW m \in Msg, New(dat0, m), NEW t \in Text
    PROVE  MsgInv(AddMessage(dat0, m, t), dat0, m, Lines(t), Places(Lines(t)))
<1> DEFINE lines == Lines(t)
           n == Len(lines)
           start == [data |-> dat0, base |-> [c \in Types |-> 0]]
           Words(k, x) == AddWords(x.data, m, lines[k].type, x.base[lines[k].type], lines[k].words)
           Base(k, x) == [x.base EXCEPT ![lines[k].type] = @ + Len(lines[k].words)]
           Op(k, x) == [data |-> Words(k, x), base |-> Base(k, x)]
           Eq(f) == f = [k \in 0..n |-> IF k = 0 THEN start ELSE Op(k, f[k - 1])]
           read == CHOOSE f : Eq(f)
           step == [k \in 1..n |-> [x \in Bases |-> Op(k, x)]]
<1>1. lines \in Seq(LineType)
  BY LinesTyped
<1>2. AddMessage(dat0, m, t) = read[n].data
  BY DEF AddMessage
<1> HIDE DEF lines
<1>3. n \in Nat /\ \A k \in 1..n : /\ lines[k].type \in Types /\ lines[k].words \in Seq(Word)
                                   /\ Len(lines[k].words) \in Nat
  BY <1>1, LineIs
<1>4. start \in Bases
  BY DEF Bases, New
<1>5. ASSUME NEW k \in 1..n, NEW x \in Bases PROVE Op(k, x) \in Bases
  <2> DEFINE type == lines[k].type
             words == lines[k].words
             base == x.base[type]
  <2>1. /\ x.data \in DataType /\ x.base \in [Types -> Nat]
        /\ type \in Types /\ words \in Seq(Word) /\ Len(words) \in Nat /\ base \in Nat
    BY <1>3 DEF Bases
  <2>2. PICK g : AddRuns(g, x.data, m, type, base, words)
    <3> HIDE DEF type, words, base
    <3> QED
      BY <2>1, AddWordsRuns
  <2>3. AddWords(x.data, m, type, base, words) \in DataType
    <3>1. Len(words) \in 0..Len(words)
      BY <2>1
    <3>2. g[Len(words)] \in State
      BY <2>2, <3>1 DEF AddRuns
    <3> QED
      BY <2>2, <3>2 DEF AddRuns, State
  <2>4. Base(k, x) \in [Types -> Nat]
    BY <2>1
  <2> QED
    BY <2>3, <2>4 DEF Bases
<1> HIDE DEF n, start, Op
<1>6. Loop(n, Bases, step)
  BY <1>3, <1>5 DEF Loop
<1>7. \A k \in 1..n : \A x \in Bases : step[k][x] = Op(k, x)
  OBVIOUS
<1> HIDE DEF step
<1>8. PICK g : Runs(g, n, Bases, start, step)
  BY <1>4, <1>6, LoopRuns
<1>r. g \in [0..n -> Bases] /\ g[0] = start /\ \A k \in 1..n : g[k] = step[k][g[k - 1]]
  BY <1>8 DEF Runs
<1>9. Eq(g)
  <2>1. ASSUME NEW k \in 0..n PROVE g[k] = IF k = 0 THEN start ELSE Op(k, g[k - 1])
    <3>1. CASE k = 0
      BY <1>r, <3>1
    <3>2. CASE k # 0
      <4>1. k \in 1..n /\ k - 1 \in 0..n
        BY <1>3, <3>2
      <4>2. g[k] = step[k][g[k - 1]] /\ g[k - 1] \in Bases
        BY <1>r, <4>1
      <4>3. g[k] = Op(k, g[k - 1])
        BY <1>7, <4>1, <4>2
      <4> QED
        BY <3>2, <4>3
    <3> QED
      BY <3>1, <3>2
  <2> QED
    BY <1>r, <2>1
<1>10. Eq(read)
  <2> HIDE DEF Eq
  <2> QED
    BY <1>9
<1> HIDE DEF read
<1>11. read[0] = start /\ \A k \in 1..n : read[k] = Op(k, read[k - 1])
  BY <1>3, <1>10
<1> DEFINE D(k) == Done(lines, k + 1, 0)
           T == {k \in 0..n : /\ MsgInv(read[k].data, dat0, m, lines, D(k))
                              /\ read[k].base = [c \in Types |-> Count(lines, D(k), c)]}
<1>12. 0 \in T
  <2>1. D(0) = {}
    BY <1>1, DoneEnds
  <2>2. \A c : Count(lines, {}, c) = 0
    BY FS_EmptySet DEF Count, OfType
  <2>3. read[0].data = dat0 /\ read[0].base = [c \in Types |-> 0]
    BY <1>11 DEF start
  <2>4. MsgInv(dat0, dat0, m, lines, {})
    <3>1. \A w \in Word : Occ(lines, {}, w) = {} /\ HitsIn(dat0, m, w) = <<>>
      BY DEF Occ, HitsIn, New
    <3>2. HitsInv(<<>>, {})
      BY DEF HitsInv, Apiece, Range
    <3> QED
      BY <3>1, <3>2 DEF MsgInv, New
  <2>5. 0 \in 0..n
    BY <1>3
  <2> HIDE DEF D
  <2> QED
    BY <2>1, <2>2, <2>3, <2>4, <2>5
<1>13. ASSUME NEW k \in 1..n, k - 1 \in T PROVE k \in T
  <2> DEFINE was == read[k - 1]
             type == lines[k].type
  <2>1. /\ k \in 0..n /\ D(k - 1) = Done(lines, k, 0) /\ type \in Types
        /\ Len(lines[k].words) \in Nat
    BY <1>3
  <2>2. /\ MsgInv(was.data, dat0, m, lines, Done(lines, k, 0))
        /\ was.base = [c \in Types |-> Count(lines, Done(lines, k, 0), c)]
    BY <1>13, <2>1
  <2>3. read[k].data = Words(k, was) /\ read[k].base = Base(k, was)
    <3>1. read[k] = Op(k, was)
      BY <1>11
    <3> HIDE DEF was, Words, Base
    <3> QED
      BY <3>1 DEF Op
  <2>4. was.base[type] = Count(lines, Done(lines, k, 0), type)
    BY <2>1, <2>2
  <2> HIDE DEF was
  <2>5. MsgInv(read[k].data, dat0, m, lines, D(k))
    <3>1. MsgInv(Words(k, was), dat0, m, lines, Done(lines, k + 1, 0))
      <4> DEFINE dat == was.data
                 base == was.base[type]
      <4>1. k \in 1..Len(lines) /\ MsgInv(dat, dat0, m, lines, Done(lines, k, 0))
            /\ base = Count(lines, Done(lines, k, 0), lines[k].type)
        BY <2>2, <2>4 DEF n
      <4> HIDE DEF dat, base
      <4>2. MsgInv(AddWords(dat, m, lines[k].type, base, lines[k].words),
                   dat0, m, lines, Done(lines, k + 1, 0))
        BY <1>1, <4>1, LineStep
      <4> QED
        BY <4>2 DEF dat, base
    <3> QED
      BY <2>3, <3>1
  <2>6. \A c \in Types : Base(k, was)[c] = Count(lines, D(k), c)
    <3>1. \A c \in Types : Count(lines, Done(lines, k + 1, 0), c) =
              IF c = type THEN Count(lines, Done(lines, k, 0), c) + Len(lines[k].words)
              ELSE Count(lines, Done(lines, k, 0), c)
      BY <1>1, LineCounts DEF n
    <3> QED
      BY <2>1, <2>2, <3>1
  <2>7. Base(k, was) = [c \in Types |-> Count(lines, D(k), c)]
    <3>1. DOMAIN was.base = Types
      BY <2>2
    <3>2. Base(k, was) = [c \in Types |-> Base(k, was)[c]]
      BY <3>1
    <3> HIDE DEF Base, D
    <3> QED
      BY <2>6, <3>2
  <2> QED
    BY <2>1, <2>3, <2>5, <2>7
<1>14. n \in T
  <2>1. n \in 0..n
    BY <1>3
  <2> HIDE DEF T
  <2>2. \A k \in 0..n : k \in T
    BY <1>3, <1>12, <1>13, Rounds
  <2> QED
    BY <2>1, <2>2
<1>15. D(n) = Places(lines)
  BY <1>1, DoneEnds DEF n
<1> QED
  BY <1>2, <1>14, <1>15 DEF lines

(* What the texts say: where words stand, in which messages, and the words *)
(* worth an entry.                                                         *)
Heard(txt, m, w) == Occ(Lines(txt[m]), Places(Lines(txt[m])), w)
Hearing(txt, w) == {m \in Msg : Heard(txt, m, w) # {}}
Worth(txt) == {w \in Word : Cardinality(Hearing(txt, w)) > 1}

LEMMA HeardIs ==
    ASSUME text \in [Msg -> Text]
    PROVE  /\ \A m \in Msg : \A w : Occurrences(m, w) = Heard(text, m, w)
           /\ \A w : Having(w) = Hearing(text, w)
           /\ {w \in Word : InLexicon(w)} = Worth(text)
<1>1. ASSUME NEW m \in Msg, NEW w PROVE Occurrences(m, w) = Heard(text, m, w)
  <2>1. text[m] \in Text
    OBVIOUS
  <2>2. Lines(text[m]) \in Seq(LineType)
    BY <2>1, LinesTyped
  <2> QED
    BY <2>2, OccurrencesAre DEF Heard
<1>2. \A w : Having(w) = Hearing(text, w)
  BY <1>1 DEF Having, Hearing
<1> QED
  BY <1>1, <1>2 DEF InLexicon, Worth

LEMMA HeardTyped ==
    ASSUME NEW txt \in [Msg -> Text], NEW m \in Msg, NEW w
    PROVE  Heard(txt, m, w) \in SUBSET Spots
<1> DEFINE lines == Lines(txt[m])
<1>1. lines \in Seq(LineType)
  <2>1. txt[m] \in Text
    OBVIOUS
  <2> QED
    BY <2>1, LinesTyped
<1> HIDE DEF lines
<1>2. ASSUME NEW p \in Places(lines) PROVE Spot(lines, p) \in Spots
  <2>1. p[1] \in 1..Len(lines)
    BY <1>1, PlacesAre
  <2>2. lines[p[1]].type \in Types
    BY <1>1, <2>1, LineIs
  <2>3. Count(lines, Done(lines, p[1], p[2] - 1), lines[p[1]].type) \in Nat
    BY <1>1, CountTyped
  <2> QED
    BY <2>2, <2>3 DEF Spot, At, Spots
<1> QED
  BY <1>2 DEF Heard, Occ, lines

(* A list of all entries of a word, one of each message that has it, where *)
(* old tells of a number in it which message that is.                      *)
Entry == [post : Msg, children : {LexiconTransformChildNum(n) : n \in Nat}, hits : Seq(Hit)]

ListRight(txt, list, w, old, total) ==
    /\ list \in Seq(Entry)
    /\ {old[list[k].post] : k \in DOMAIN list} = Hearing(txt, w)
    /\ \A k, l \in DOMAIN list : list[k].post = list[l].post => k = l
    /\ \A k \in DOMAIN list :
          /\ list[k].children = LexiconTransformChildNum(total[list[k].post] - 1)
          /\ HitsInv(list[k].hits, Heard(txt, old[list[k].post], w))

LexRight(txt, lex, old, total) ==
    /\ DOMAIN lex = Worth(txt)
    /\ \A w \in Worth(txt) : ListRight(txt, lex[w], w, old, total)

(* What uat-lexsort makes of an entry list.                                *)
Tidy(list) ==
    /\ \A j, k \in 1..Len(list) : j < k => list[j].post < list[k].post
    /\ \A k \in DOMAIN list :
          \A h \in 2..Len(list[k].hits) : ~RanksAbove(list[k].hits[h], list[k].hits[h - 1])

Indexed(txt, dat, n) ==
    /\ dat \in DataType
    /\ \A w \in Word :
          /\ DOMAIN dat[w] = {m \in Hearing(txt, w) : m < n}
          /\ \A m \in DOMAIN dat[w] : HitsInv(dat[w][m], Heard(txt, m, w))

OldTotal == [m \in Msg |-> conn[m].total]
NewTotal == [k \in Msg |-> conn[order[k]].total]
Same == [m \in Msg |-> m]

LexInv ==
    /\ text \in [Msg -> Text]
    /\ phase = "lexicon" => indexed \in 0..NumMsg /\ Indexed(text, data, indexed)
    /\ phase # "lexicon" => LexRight(text, lexdata, Same, OldTotal)
    /\ phase \in {"strmeta", "lexsort", "done"} =>
          LexRight(text, file["lexdata"], order, NewTotal)
    /\ phase = "done" => \A w \in Worth(text) : Tidy(file["lexdata"][w])

(* Hits in the order of their ranks are the same hits.                     *)
LEMMA SortedHitsStay ==
    ASSUME NEW hits, NEW O, HitsInv(hits, O)
    PROVE  HitsInv(Arranged(hits, ByRank(hits)), O)
<1> DEFINE s == Arranged(hits, ByRank(hits))
           n == Len(hits)
           R == Range(hits)
<1>1. hits \in Seq(Hit) /\ Apiece(hits)
  BY DEF HitsInv, Apiece
<1>2. s \in Seq(Hit) /\ Len(s) = n /\ Range(s) = R
  BY <1>1, HitsSorted
<1>3. n \in Nat /\ IsFiniteSet(R) /\ Cardinality(R) = n
  BY <1>1, FewHits
<1> HIDE DEF s, n, R
<1>4. s \in Surjection(1..n, R)
  <2>1. DOMAIN s = 1..n /\ s \in [1..n -> Hit]
    BY <1>2
  <2>2. R = {s[k] : k \in 1..n}
    BY <1>2, <2>1 DEF Range
  <2>3. s \in [1..n -> R]
    BY <2>1, <2>2
  <2> QED
    BY <2>2, <2>3 DEF Surjection
<1>5. IsFiniteSet(1..n) /\ Cardinality(1..n) = n
  BY <1>3, FS_Interval
<1>6. s \in Injection(1..n, R)
  BY <1>3, <1>4, <1>5, FS_SurjSameCardinalityImpliesInj
<1>7. Apiece(s)
  BY <1>2, <1>6 DEF Apiece, Injection, IsInjective
<1> QED
  BY <1>2, <1>7 DEF HitsInv, R, n, s

(* uat-lexicon reads a message.                                            *)
LEMMA IndexedGrows ==
    ASSUME NEW txt \in [Msg -> Text], NEW dat, NEW n \in Msg, Indexed(txt, dat, n)
    PROVE  Indexed(txt, AddMessage(dat, n, txt[n]), n + 1)
<1> DEFINE t == txt[n]
           new == AddMessage(dat, n, t)
           O(w) == Heard(txt, n, w)
<1>1. t \in Text /\ n \in Int /\ \A m \in Msg : m \in Int
  BY DEF Msg
<1>2. New(dat, n)
  BY <1>1 DEF New, Indexed
<1>3. MsgInv(new, dat, n, Lines(t), Places(Lines(t)))
  <2> HIDE DEF t
  <2> QED
    BY <1>1, <1>2, MessageStep
<1>4. new \in DataType
  BY <1>3 DEF MsgInv
<1> HIDE DEF new
<1>5. ASSUME NEW w \in Word
      PROVE  /\ DOMAIN new[w] = {m \in Hearing(txt, w) : m < n + 1}
             /\ \A m \in DOMAIN new[w] : HitsInv(new[w][m], Heard(txt, m, w))
  <2>1. /\ DOMAIN new[w] = DOMAIN dat[w] \cup (IF O(w) = {} THEN {} ELSE {n})
        /\ \A x \in DOMAIN dat[w] : new[w][x] = dat[w][x]
        /\ HitsInv(HitsIn(new, n, w), O(w))
    BY <1>3 DEF MsgInv, Heard
  <2>2. /\ DOMAIN dat[w] = {m \in Hearing(txt, w) : m < n}
        /\ \A m \in DOMAIN dat[w] : HitsInv(dat[w][m], Heard(txt, m, w))
    BY DEF Indexed
  <2>3. \A m \in Msg : m < n + 1 <=> m < n \/ m = n
    BY <1>1
  <2>4. n \in Hearing(txt, w) <=> O(w) # {}
    BY DEF Hearing
  <2>5. Hearing(txt, w) \in SUBSET Msg
    BY DEF Hearing
  <2> HIDE DEF O
  <2>6. DOMAIN new[w] = {m \in Hearing(txt, w) : m < n + 1}
    BY <2>1, <2>2, <2>3, <2>4, <2>5
  <2>7. n \in DOMAIN new[w] => HitsInv(new[w][n], O(w))
    BY <2>1 DEF HitsIn
  <2>8. ASSUME NEW m \in DOMAIN new[w] PROVE HitsInv(new[w][m], Heard(txt, m, w))
    <3>1. CASE m = n
      BY <2>7, <2>8, <3>1 DEF O
    <3>2. CASE m # n
      <4>1. m \in DOMAIN dat[w]
        BY <2>1, <2>8, <3>2
      <4> QED
        BY <2>1, <2>2, <4>1
    <3> QED
      BY <3>1, <3>2
  <2> QED
    BY <2>6, <2>8
<1> QED
  BY <1>4, <1>5 DEF Indexed, new

LEMMA IdsOrdered ==
    ASSUME NEW S \in SUBSET Msg, NEW key \in [Msg -> Nat]
    PROVE  InOrder(S, key) \in List(S) /\ Range(InOrder(S, key)) = S
<1> DEFINE t == [c \in S |-> key[c]]
<1>1. IsFiniteSet(S)
  BY MsgFinite, FS_Subset
<1>2. t \in [S -> Int] /\ \A c \in S : t[c] = key[c]
  OBVIOUS
<1> HIDE DEF t
<1>3. PICK s \in SetToSeqs(S) : \A k, l \in DOMAIN s : k < l => t[s[k]] <= t[s[l]]
  BY <1>1, <1>2, CanBeSorted
<1>4. s \in List(S) /\ Range(s) = S
  BY <1>1, <1>3, SortedList
<1>5. \A k \in DOMAIN s : s[k] \in S
  BY <1>4 DEF Range
<1>6. \A k, l \in DOMAIN s : k < l => key[s[k]] <= key[s[l]]
  BY <1>2, <1>3, <1>5
<1>7. InOrder(S, key) \in SetToSeqs(S)
  BY <1>6 DEF InOrder
<1> QED
  BY <1>1, <1>7, SortedList

(* The index saved has an entry of each message that has the word, for the *)
(* words of more than one.                                                 *)
LEMMA SavedRight ==
    ASSUME NEW txt \in [Msg -> Text], NEW dat, Indexed(txt, dat, NumMsg),
           NEW total \in [Msg -> Nat \ {0}], NEW key \in [Msg -> Nat]
    PROVE  LexRight(txt, WriteLexdata(dat, total, [w \in Word |-> InOrder(DOMAIN dat[w], key)]),
                    Same, total)
<1> DEFINE walk == [w \in Word |-> InOrder(DOMAIN dat[w], key)]
           lex == WriteLexdata(dat, total, walk)
           words == {w \in Word : Cardinality(DOMAIN dat[w]) \notin {0, 1}}
           Ent(w, m) == [post |-> m, children |-> LexiconTransformChildNum(total[m] - 1),
                         hits |-> dat[w][m]]
<1>1. \A w \in Word : DOMAIN dat[w] = Hearing(txt, w) /\ Hearing(txt, w) \in SUBSET Msg
  <2>1. \A m \in Msg : m < NumMsg
    BY SortAssumption DEF Msg
  <2> QED
    BY <2>1 DEF Indexed, Hearing
<1>2. words = Worth(txt)
  <2>1. ASSUME NEW w \in Word
        PROVE  Cardinality(DOMAIN dat[w]) \notin {0, 1} <=> Cardinality(Hearing(txt, w)) > 1
    <3>1. Cardinality(Hearing(txt, w)) \in Nat
      BY <1>1, MsgFinite, FS_Subset, FS_CardinalityType
    <3> QED
      BY <1>1, <3>1
  <2> QED
    BY <2>1 DEF Worth
<1>3. /\ DOMAIN lex = words
      /\ \A w \in words : lex[w] = [k \in DOMAIN walk[w] |-> Ent(w, walk[w][k])]
  BY DEF WriteLexdata
<1> HIDE DEF lex, words
<1>4. ASSUME NEW w \in Worth(txt)
      PROVE  ListRight(txt, lex[w], w, Same, total)
  <2> DEFINE S == DOMAIN dat[w]
             s == InOrder(S, key)
             list == [k \in DOMAIN s |-> Ent(w, s[k])]
             n == Len(s)
  <2>1. w \in Word /\ S = Hearing(txt, w) /\ S \in SUBSET Msg
    BY <1>1 DEF Worth
  <2>2. s \in List(S) /\ Range(s) = S
    <3> HIDE DEF S
    <3> QED
      BY <2>1, IdsOrdered
  <2>3. lex[w] = list /\ walk[w] = s
    <3>1. walk[w] = s
      BY <2>1
    <3>2. lex[w] = [k \in DOMAIN walk[w] |-> Ent(w, walk[w][k])]
      BY <1>2, <1>3
    <3> HIDE DEF s, walk, Ent
    <3> QED
      BY <3>1, <3>2
  <2>a. /\ \A m \in S : dat[w][m] \in Seq(Hit) /\ HitsInv(dat[w][m], Heard(txt, m, w))
    BY <2>1, DataTyped DEF Indexed
  <2> HIDE DEF s, S
  <2>4. /\ n \in Nat /\ DOMAIN s = 1..n /\ s \in [1..n -> S]
        /\ \A k, l \in 1..n : s[k] = s[l] => k = l
    BY <2>2 DEF List, IsInjective
  <2>5. ASSUME NEW m \in S PROVE Ent(w, m) \in Entry
    <3>1. m \in Msg /\ total[m] - 1 \in Nat /\ dat[w][m] \in Seq(Hit)
      BY <2>1, <2>a
    <3> QED
      BY <3>1 DEF Entry
  <2>6. \A m \in S : /\ Ent(w, m).post = m /\ Ent(w, m).hits = dat[w][m]
                     /\ Ent(w, m).children = LexiconTransformChildNum(total[m] - 1)
    OBVIOUS
  <2> HIDE DEF Ent
  <2>7. list \in Seq(Entry) /\ DOMAIN list = 1..n /\ \A k \in 1..n : list[k] = Ent(w, s[k])
    <3>1. list = [k \in 1..n |-> Ent(w, s[k])]
      BY <2>4
    <3>2. \A k \in 1..n : Ent(w, s[k]) \in Entry
      BY <2>4, <2>5
    <3>3. list \in [1..n -> Entry]
      BY <3>1, <3>2
    <3> HIDE DEF list, n
    <3> QED
      BY <2>4, <3>1, <3>3
  <2> HIDE DEF list, n
  <2>8. \A k \in 1..n : s[k] \in S /\ list[k].post = s[k] /\ Same[list[k].post] = s[k]
    BY <2>1, <2>4, <2>6, <2>7 DEF Same
  <2>9. {Same[list[k].post] : k \in DOMAIN list} = Hearing(txt, w)
    <3>1. S = {s[k] : k \in 1..n}
      BY <2>2, <2>4 DEF Range
    <3>2. {Same[list[k].post] : k \in 1..n} = {s[k] : k \in 1..n}
      BY <2>8
    <3>3. DOMAIN list = 1..n
      BY <2>7
    <3> QED
      BY <2>1, <3>1, <3>2, <3>3
  <2>10. \A k, l \in DOMAIN list : list[k].post = list[l].post => k = l
    BY <2>4, <2>7, <2>8
  <2>11. \A k \in DOMAIN list :
            /\ list[k].children = LexiconTransformChildNum(total[list[k].post] - 1)
            /\ HitsInv(list[k].hits, Heard(txt, Same[list[k].post], w))
    BY <2>a, <2>6, <2>7, <2>8
  <2> QED
    BY <2>3, <2>7, <2>9, <2>10, <2>11 DEF ListRight
<1> QED
  BY <1>2, <1>3, <1>4 DEF LexRight, lex

(* uat-sort gives the entries new numbers.                                 *)
Relinked(lex, num) ==
    [word \in DOMAIN lex |-> [k \in DOMAIN lex[word] |->
        [lex[word][k] EXCEPT !.post = num[@]]]]

LEMMA RelinkedRight ==
    ASSUME NEW txt, NEW lex, NEW total, NEW num, NEW old, NEW new,
           \A m \in Msg : num[m] \in Msg /\ old[num[m]] = m /\ new[num[m]] = total[m],
           LexRight(txt, lex, Same, total)
    PROVE  LexRight(txt, Relinked(lex, num), old, new)
<1> DEFINE lex2 == Relinked(lex, num)
<1>1. DOMAIN lex2 = Worth(txt)
  BY DEF LexRight, Relinked
<1>2. ASSUME NEW w \in Worth(txt)
      PROVE  ListRight(txt, lex2[w], w, old, new)
  <2> DEFINE one == lex[w]
             list == lex2[w]
             n == Len(one)
  <2>1. ListRight(txt, one, w, Same, total)
    BY DEF LexRight
  <2>2. one \in Seq(Entry) /\ n \in Nat /\ DOMAIN one = 1..n
    BY <2>1 DEF ListRight
  <2>3. list = [k \in 1..n |-> [one[k] EXCEPT !.post = num[@]]]
    <3>1. w \in DOMAIN lex
      BY DEF LexRight
    <3> QED
      BY <2>2, <3>1 DEF Relinked
  <2> HIDE DEF one, list, n
  <2>4. ASSUME NEW k \in 1..n
        PROVE  /\ one[k] \in Entry /\ one[k].post \in Msg
               /\ list[k] \in Entry /\ list[k].post = num[one[k].post]
               /\ list[k].children = one[k].children /\ list[k].hits = one[k].hits
               /\ old[list[k].post] = one[k].post /\ new[list[k].post] = total[one[k].post]
               /\ Same[one[k].post] = one[k].post
    <3>1. one[k] \in Entry
      BY <2>2
    <3>2. one[k].post \in Msg
      BY <3>1 DEF Entry
    <3>3. num[one[k].post] \in Msg
      BY <3>2
    <3>4. list[k] = [one[k] EXCEPT !.post = num[one[k].post]]
      BY <2>3
    <3> QED
      BY <3>1, <3>2, <3>3, <3>4 DEF Entry, Same
  <2>5. list \in Seq(Entry) /\ DOMAIN list = 1..n
    <3>1. list \in [1..n -> Entry]
      BY <2>3, <2>4
    <3> QED
      BY <2>2, <3>1
  <2>6. {old[list[k].post] : k \in DOMAIN list} = Hearing(txt, w)
    <3>1. Hearing(txt, w) = {Same[one[k].post] : k \in 1..n}
      BY <2>1, <2>2 DEF ListRight
    <3> QED
      BY <2>4, <2>5, <3>1
  <2>7. \A k, l \in DOMAIN list : list[k].post = list[l].post => k = l
    BY <2>1, <2>2, <2>4, <2>5 DEF ListRight
  <2>8. ASSUME NEW k \in DOMAIN list
        PROVE  /\ list[k].children = LexiconTransformChildNum(new[list[k].post] - 1)
               /\ HitsInv(list[k].hits, Heard(txt, old[list[k].post], w))
    <3>1. /\ one[k].children = LexiconTransformChildNum(total[one[k].post] - 1)
          /\ HitsInv(one[k].hits, Heard(txt, Same[one[k].post], w))
      BY <2>1, <2>2, <2>5 DEF ListRight
    <3> QED
      BY <2>4, <2>5, <3>1
  <2> QED
    BY <2>5, <2>6, <2>7, <2>8 DEF ListRight, list
<1> QED
  BY <1>1, <1>2 DEF LexRight

(* uat-lexsort puts them in order.                                         *)
LEMMA LexsortRight ==
    ASSUME NEW txt, NEW list, NEW w, NEW old, NEW total, ListRight(txt, list, w, old, total)
    PROVE  ListRight(txt, Lexsort(list), w, old, total) /\ Tidy(Lexsort(list))
<1> DEFINE n == Len(list)
           K == 1..n
           posts == [k \in DOMAIN list |-> list[k].post]
           before == LowFirst(DOMAIN list, posts)
           sorted == Arranged(list, before)
           new == Lexsort(list)
           Best(hits) == Arranged(hits, ByRank(hits))
<1>1. list \in Seq(Entry) /\ n \in Nat /\ DOMAIN list = K
  BY DEF ListRight
<1>2. \A k \in K : list[k] \in Entry /\ list[k].post \in Msg /\ list[k].post \in Int
  <2> SUFFICES ASSUME NEW k \in K
               PROVE  list[k] \in Entry /\ list[k].post \in Msg /\ list[k].post \in Int
    OBVIOUS
  <2>1. list[k] \in Entry
    <3> HIDE DEF n
    <3> QED
      BY <1>1
  <2>2. list[k].post \in Msg
    BY <2>1 DEF Entry
  <2> QED
    BY <2>1, <2>2 DEF Msg
<1>3. IsFiniteSet(K) /\ Cardinality(K) = n
  <2> HIDE DEF n
  <2> QED
    BY <1>1, FS_Interval
<1>4. Total(K, before)
  <2>1. K \in SUBSET Nat /\ \A k \in K : posts[k] \in Int
    BY <1>1, <1>2
  <2> HIDE DEF K, posts
  <2> QED
    BY <1>1, <2>1, LowFirstTotal
<1>5. PICK p : Arranges(p, K, before) /\ sorted = [k \in 1..Cardinality(K) |-> list[p[k]]]
  <2> HIDE DEF K, before
  <2> QED
    BY <1>3, <1>4, ArrangedIs
<1>6. /\ p \in [1..n -> K]
      /\ \A l \in K : \E k \in 1..n : p[k] = l
      /\ \A j, k \in 1..n : p[j] = p[k] => j = k
      /\ \A j, k \in 1..n : j < k => p[j] \in before[p[k]]
  BY <1>3, <1>5 DEF Arranges
<1>7. \A j, k \in 1..n : j < k => list[p[j]].post < list[p[k]].post
  <2> SUFFICES ASSUME NEW j \in 1..n, NEW k \in 1..n, j < k
               PROVE  list[p[j]].post < list[p[k]].post
    OBVIOUS
  <2>0. j # k
    <3>1. j \in Int /\ k \in Int
      OBVIOUS
    <3> QED
      BY <3>1
  <2> HIDE DEF n, K, before
  <2>1. p[j] \in K /\ p[k] \in K /\ p[j] \in before[p[k]] /\ p[j] # p[k] /\ j # k
    BY <1>6, <2>0
  <2>2. posts[p[j]] = list[p[j]].post /\ posts[p[k]] = list[p[k]].post
    BY <1>1, <2>1
  <2>3. posts[p[j]] <= posts[p[k]]
    <3>1. before[p[k]] = {l \in K : posts[l] < posts[p[k]] \/ (posts[l] = posts[p[k]] /\ l < p[k])}
      BY <1>1, <2>1 DEF LowFirst, before
    <3>2. posts[p[j]] \in Int /\ posts[p[k]] \in Int
      BY <1>2, <2>1, <2>2
    <3> HIDE DEF posts
    <3> QED
      BY <2>1, <3>1, <3>2
  <2>4. list[p[j]].post # list[p[k]].post
    BY <1>1, <2>1 DEF ListRight
  <2> QED
    BY <1>2, <2>1, <2>2, <2>3, <2>4
<1>8. new = [k \in 1..n |-> [list[p[k]] EXCEPT !.hits = Best(@)]]
  <2>1. sorted = [k \in 1..n |-> list[p[k]]]
    BY <1>3, <1>5
  <2>2. new = [k \in DOMAIN sorted |-> [sorted[k] EXCEPT !.hits = Best(@)]]
    BY DEF Lexsort
  <2> HIDE DEF sorted, Best
  <2> QED
    BY <2>1, <2>2
<1> HIDE DEF n, K, posts, before, sorted, new, Best
<1>9. ASSUME NEW k \in 1..n
      PROVE  /\ p[k] \in K /\ list[p[k]] \in Entry /\ new[k] \in Entry
             /\ new[k].post = list[p[k]].post /\ new[k].children = list[p[k]].children
             /\ new[k].hits = Best(list[p[k]].hits)
             /\ \A h \in 2..Len(new[k].hits) : ~RanksAbove(new[k].hits[h], new[k].hits[h - 1])
  <2>1. p[k] \in K /\ list[p[k]] \in Entry
    BY <1>2, <1>6
  <2>2. list[p[k]].hits \in Seq(Hit)
    BY <2>1 DEF Entry
  <2>3. /\ Best(list[p[k]].hits) \in Seq(Hit)
        /\ \A h \in 2..Len(Best(list[p[k]].hits)) :
              ~RanksAbove(Best(list[p[k]].hits)[h], Best(list[p[k]].hits)[h - 1])
    BY <2>2, HitsSorted DEF Best
  <2>4. new[k] = [list[p[k]] EXCEPT !.hits = Best(list[p[k]].hits)]
    BY <1>8
  <2>5. /\ new[k] \in Entry
        /\ new[k].post = list[p[k]].post /\ new[k].children = list[p[k]].children
        /\ new[k].hits = Best(list[p[k]].hits)
    BY <2>1, <2>3, <2>4 DEF Entry
  <2> QED
    BY <2>1, <2>3, <2>5
<1>10. new \in Seq(Entry) /\ DOMAIN new = 1..n /\ Len(new) = n
  <2>1. n \in Nat
    BY <1>1 DEF n
  <2>2. new \in [1..n -> Entry]
    BY <1>8, <1>9
  <2> QED
    BY <2>1, <2>2
<1>11. {old[new[k].post] : k \in DOMAIN new} = Hearing(txt, w)
  <2>1. Hearing(txt, w) = {old[list[k].post] : k \in K}
    BY <1>1 DEF ListRight
  <2>2. \A k \in 1..n : p[k] \in K /\ old[new[k].post] = old[list[p[k]].post]
    BY <1>9
  <2>3. \A l \in K : \E k \in 1..n : p[k] = l
    BY <1>6
  <2>4. ASSUME NEW k \in 1..n PROVE old[new[k].post] \in Hearing(txt, w)
    BY <2>1, <2>2
  <2>5. ASSUME NEW m \in Hearing(txt, w) PROVE \E k \in 1..n : old[new[k].post] = m
    <3>1. PICK l \in K : old[list[l].post] = m
      BY <2>1
    <3>2. PICK k \in 1..n : p[k] = l
      BY <2>3
    <3> QED
      BY <2>2, <3>1, <3>2
  <2>6. DOMAIN new = 1..n
    BY <1>10
  <2> HIDE DEF K
  <2> QED
    BY <2>4, <2>5, <2>6
<1>12. \A k, l \in DOMAIN new : new[k].post = new[l].post => k = l
  BY <1>1, <1>6, <1>9, <1>10 DEF ListRight
<1>13. ASSUME NEW k \in DOMAIN new
       PROVE  /\ new[k].children = LexiconTransformChildNum(total[new[k].post] - 1)
              /\ HitsInv(new[k].hits, Heard(txt, old[new[k].post], w))
  <2>1. k \in 1..n /\ p[k] \in DOMAIN list
    BY <1>1, <1>9, <1>10
  <2>2. /\ list[p[k]].children = LexiconTransformChildNum(total[list[p[k]].post] - 1)
        /\ HitsInv(list[p[k]].hits, Heard(txt, old[list[p[k]].post], w))
    BY <2>1 DEF ListRight
  <2>3. HitsInv(Best(list[p[k]].hits), Heard(txt, old[list[p[k]].post], w))
    BY <2>2, SortedHitsStay DEF Best
  <2> QED
    BY <1>9, <2>1, <2>2, <2>3
<1>14. ListRight(txt, new, w, old, total)
  BY <1>10, <1>11, <1>12, <1>13 DEF ListRight
<1>15. Tidy(new)
  <2>1. \A j, k \in 1..n : j < k => new[j].post < new[k].post
    BY <1>7, <1>9
  <2> QED
    BY <1>9, <1>10, <2>1 DEF Tidy
<1> QED
  BY <1>14, <1>15 DEF new

LEMMA InitLexInv == Init => LexInv
<1> SUFFICES ASSUME Init PROVE LexInv
  OBVIOUS
<1>1. text \in [Msg -> Text] /\ data = [w \in Word |-> <<>>] /\ indexed = 0 /\ phase = "lexicon"
  BY SearchIndexAssumption DEF Init
<1>2. indexed \in 0..NumMsg
  BY <1>1, SortAssumption
<1>3. data \in DataType
  <2>1. <<>> \in [{} -> Seq(Hit)]
    OBVIOUS
  <2>2. <<>> \in HitMap
    BY <2>1 DEF HitMap
  <2> QED
    BY <1>1, <2>2 DEF DataType
<1>4. \A w \in Word : DOMAIN data[w] = {} /\ {m \in Hearing(text, w) : m < indexed} = {}
  <2>1. \A m \in Msg : ~(m < 0)
    BY SortAssumption DEF Msg
  <2> QED
    BY <1>1, <2>1 DEF Hearing
<1>5. Indexed(text, data, indexed)
  BY <1>3, <1>4 DEF Indexed
<1> QED
  BY <1>1, <1>2, <1>5 DEF LexInv

(* While uat-sort works, the index it reads stays.                         *)
LEMMA SourceStays ==
    ASSUME LexInv, UNCHANGED <<text, lexdata, conn>>, phase # "lexicon", phase' # "lexicon",
           phase' \notin {"strmeta", "lexsort", "done"}
    PROVE  LexInv'
<1>1. OldTotal' = OldTotal /\ text' = text /\ lexdata' = lexdata
  BY DEF OldTotal
<1> QED
  BY <1>1 DEF LexInv

LEMMA StepLexInv == LexInv /\ IInv /\ [Next]_vars => LexInv'
<1> SUFFICES ASSUME LexInv, IInv, [Next]_vars PROVE LexInv'
  OBVIOUS
<1>0. /\ text \in [Msg -> Text]
      /\ phase = "lexicon" => indexed \in 0..NumMsg /\ Indexed(text, data, indexed)
      /\ phase # "lexicon" => LexRight(text, lexdata, Same, OldTotal)
      /\ phase \in {"strmeta", "lexsort", "done"} =>
            LexRight(text, file["lexdata"], order, NewTotal)
      /\ phase = "done" => \A w \in Worth(text) : Tidy(file["lexdata"][w])
  BY DEF LexInv
<1>k. /\ \A m \in Msg : conn[m].total \in Nat \ {0}
      /\ DOMAIN file = DOMAIN Unwritten
      /\ phase \notin {"lexicon", "order"} =>
            /\ \A m \in Msg : rev[m] \in Msg /\ order[rev[m]] = m
            /\ \A k \in Msg : order[k] \in Msg /\ rev[order[k]] = k
  <2>1. \A m \in Msg : conn[m].total \in Nat \ {0}
    <3>1. conn \in [Msg -> Conn]
      BY DEF IInv, Stored
    <3>2. NumMsg \in Nat
      BY SortAssumption
    <3> QED
      BY <3>1, <3>2 DEF Conn
  <2> QED
    BY <2>1 DEF IInv, FilesInv, Renumbered
<1>2. CASE UNCHANGED vars
  <2>1. /\ text' = text /\ phase' = phase /\ indexed' = indexed /\ data' = data
        /\ lexdata' = lexdata /\ conn' = conn /\ file' = file /\ order' = order
    BY <1>2 DEF vars, source, sortVars, lexiconVars
  <2>2. OldTotal' = OldTotal /\ NewTotal' = NewTotal
    BY <2>1 DEF OldTotal, NewTotal
  <2> QED
    BY <1>0, <2>1, <2>2 DEF LexInv
<1>3. CASE IndexMessage
  <2>1. /\ phase = "lexicon" /\ indexed < NumMsg /\ phase' = phase /\ text' = text
        /\ data' = AddMessage(data, indexed, text[indexed])
        /\ indexed' = indexed + 1
    BY <1>3 DEF IndexMessage
  <2>2. indexed \in Msg /\ indexed + 1 \in 0..NumMsg
    BY <1>0, <2>1, SortAssumption DEF Msg
  <2>3. Indexed(text', data', indexed')
    BY <1>0, <2>1, <2>2, IndexedGrows
  <2> QED
    BY <1>0, <2>1, <2>2, <2>3 DEF LexInv
<1>4. CASE SaveLexicon
  <2>1. /\ phase = "lexicon" /\ indexed = NumMsg /\ phase' = "order"
        /\ text' = text /\ conn' = conn
    BY <1>4 DEF SaveLexicon, lexiconVars
  <2>2. PICK key \in MapOrders :
           lexdata' = WriteLexdata(data, OldTotal, [w \in Word |-> InOrder(DOMAIN data[w], key)])
    BY <1>4 DEF SaveLexicon, OldTotal
  <2>3. key \in [Msg -> Nat] /\ OldTotal \in [Msg -> Nat \ {0}]
    BY <1>k, SearchIndexAssumption DEF OldTotal
  <2>4. Indexed(text, data, NumMsg)
    BY <1>0, <2>1
  <2>5. LexRight(text, lexdata', Same, OldTotal)
    BY <1>0, <2>2, <2>3, <2>4, SavedRight
  <2>6. OldTotal' = OldTotal
    BY <2>1 DEF OldTotal
  <2> QED
    BY <1>0, <2>1, <2>5, <2>6 DEF LexInv
<1>5. ASSUME NEW top \in Msg, ExpandThread(top), UNCHANGED lexiconVars PROVE LexInv'
  <2>1. /\ UNCHANGED <<text, lexdata, conn>>
        /\ phase = "order" /\ phase' = "order"
    BY <1>5 DEF ExpandThread, source, lexiconVars
  <2> QED
    BY <2>1, SourceStays
<1>6. CASE BuildRev /\ UNCHANGED lexiconVars
  <2>1. /\ UNCHANGED <<text, lexdata, conn>>
        /\ phase = "order" /\ phase' = "messages"
    BY <1>6 DEF BuildRev, source, lexiconVars
  <2> QED
    BY <2>1, SourceStays
<1>7. ASSUME NEW name, NEW contents, NEW next, Write(name, contents, next),
             UNCHANGED lexiconVars, name # "lexicon",
             next \in {"toplevel", "conn", "midmeta", "midhash", "lexdata"}
      PROVE  LexInv'
  <2>1. /\ UNCHANGED <<text, lexdata, conn>>
        /\ phase = name /\ phase' = next
    BY <1>7 DEF Write, source, lexiconVars
  <2> QED
    BY <1>7, <2>1, SourceStays
<1>8. CASE RewriteLexdata /\ UNCHANGED lexiconVars
  <2>1. /\ text' = text /\ lexdata' = lexdata /\ conn' = conn /\ order' = order
        /\ phase = "lexdata" /\ phase' = "strmeta"
        /\ file' = [file EXCEPT !["lexdata"] = Relinked(lexdata, rev)]
    BY <1>8 DEF RewriteLexdata, Write, source, lexiconVars, Relinked
  <2>2. file'["lexdata"] = Relinked(lexdata, rev)
    BY <1>k, <2>1 DEF Unwritten
  <2>3. \A m \in Msg : rev[m] \in Msg /\ order[rev[m]] = m /\ NewTotal[rev[m]] = OldTotal[m]
    BY <1>k, <2>1 DEF NewTotal, OldTotal
  <2>4. LexRight(text, lexdata, Same, OldTotal)
    BY <1>0, <2>1
  <2>5. LexRight(text, Relinked(lexdata, rev), order, NewTotal)
    BY <2>3, <2>4, RelinkedRight
  <2>6. OldTotal' = OldTotal /\ NewTotal' = NewTotal
    BY <2>1 DEF OldTotal, NewTotal
  <2> QED
    BY <1>0, <2>1, <2>2, <2>4, <2>5, <2>6 DEF LexInv
<1>9. CASE WriteStrmeta /\ UNCHANGED lexiconVars
  <2>1. /\ text' = text /\ lexdata' = lexdata /\ conn' = conn /\ order' = order
        /\ phase = "strmeta" /\ phase' = "lexsort"
        /\ file' = [file EXCEPT !["strmeta"] = Moved]
    BY <1>9 DEF WriteStrmeta, Write, source, lexiconVars
  <2>2. file'["lexdata"] = file["lexdata"]
    BY <1>k, <2>1 DEF Unwritten
  <2>3. OldTotal' = OldTotal /\ NewTotal' = NewTotal
    BY <2>1 DEF OldTotal, NewTotal
  <2> QED
    BY <1>0, <2>1, <2>2, <2>3 DEF LexInv
<1>10. CASE SortLexicon
  <2>1. /\ text' = text /\ lexdata' = lexdata /\ conn' = conn /\ order' = order
        /\ phase = "lexsort" /\ phase' = "done"
        /\ file' = [file EXCEPT !["lexdata"] = [word \in DOMAIN @ |-> Lexsort(@[word])]]
    BY <1>10 DEF SortLexicon, source, lexiconVars
  <2> DEFINE lex == file["lexdata"]
             new == file'["lexdata"]
  <2>2. new = [word \in DOMAIN lex |-> Lexsort(lex[word])]
    BY <1>k, <2>1 DEF Unwritten
  <2>3. LexRight(text, lex, order, NewTotal)
    BY <1>0, <2>1
  <2>4. DOMAIN new = Worth(text)
    BY <2>2, <2>3 DEF LexRight
  <2>5. ASSUME NEW w \in Worth(text)
        PROVE  ListRight(text, new[w], w, order, NewTotal) /\ Tidy(new[w])
    <3>1. new[w] = Lexsort(lex[w]) /\ ListRight(text, lex[w], w, order, NewTotal)
      BY <2>2, <2>3 DEF LexRight
    <3> HIDE DEF lex, new
    <3> QED
      BY <3>1, LexsortRight
  <2>6. LexRight(text, new, order, NewTotal)
    BY <2>4, <2>5 DEF LexRight
  <2>7. OldTotal' = OldTotal /\ NewTotal' = NewTotal
    BY <2>1 DEF OldTotal, NewTotal
  <2> QED
    BY <1>0, <2>1, <2>5, <2>6, <2>7 DEF LexInv
<1>11. CASE SortNext /\ UNCHANGED lexiconVars
  <2>1. CASE WriteMessages \/ WriteToplevel \/ WriteConn \/ WriteMidmeta \/ WriteMidhash
    BY <1>7, <1>11, <2>1 DEF WriteMessages, WriteToplevel, WriteConn, WriteMidmeta, WriteMidhash
  <2> QED
    BY <1>5, <1>6, <1>8, <1>9, <1>11, <2>1 DEF SortNext
<1> QED
  BY <1>2, <1>3, <1>4, <1>10, <1>11 DEF Next

(* The inductive invariant of the index.                                   *)
THEOREM LexInvariance == Spec => []LexInv
<1>1. Init => LexInv
  BY InitLexInv
<1>2. LexInv /\ IInv /\ [Next]_vars => LexInv'
  BY StepLexInv
<1> QED
  BY <1>1, <1>2, Invariance, PTL DEF Spec

(* Of a word that is not crowded, with no place beyond a byte, no hit is   *)
(* lost.                                                                   *)
LEMMA HitsAll ==
    ASSUME NEW hits, NEW O \in SUBSET Spots, HitsInv(hits, O),
           \A o \in O : ~(o.pos >= Byte),
           ~(Cardinality({Cut(o) : o \in O}) > MaxHits)
    PROVE  Range(hits) = {Cut(o) : o \in O}
<1> DEFINE R == Range(hits)
           C == {Cut(o) : o \in O}
<1>1. /\ Apiece(hits)
      /\ \A h \in R : \E o \in O : o.type = h.type /\ (Cut(o) = h \/ o.pos >= Byte)
      /\ \A o \in O : \/ Cut(o) \in R
                      \/ \E x \in O : x.pos >= Byte
                      \/ Len(hits) >= MaxHits
  BY DEF HitsInv
<1>2. IsFiniteSet(R) /\ Cardinality(R) = Len(hits) /\ Len(hits) \in Nat
  BY <1>1, FewHits
<1>3. R \subseteq C
  BY <1>1
<1>4. C \in SUBSET Hit
  BY CutTyped
<1>5. IsFiniteSet(C) /\ Cardinality(C) \in Nat
  <2> HIDE DEF C
  <2> QED
    BY <1>4, HitFinite, FS_Subset, FS_CardinalityType
<1>6. CASE Len(hits) >= MaxHits
  <2> HIDE DEF C, R
  <2>1. Cardinality(C) <= MaxHits
    BY <1>5 DEF C, MaxHits
  <2>2. Cardinality(R) <= Cardinality(C) /\ (Cardinality(R) = Cardinality(C) => R = C)
    BY <1>3, <1>5, FS_Subset
  <2> QED
    BY <1>2, <1>5, <1>6, <2>1, <2>2 DEF C, R, MaxHits
<1>7. CASE ~(Len(hits) >= MaxHits)
  BY <1>1, <1>3, <1>7
<1> QED
  BY <1>6, <1>7

LEMMA IndexFollows == IInv /\ LexInv => IndexRight
<1> SUFFICES ASSUME IInv, LexInv, phase = "done" PROVE IndexRight
  BY DEF IndexRight
<1> DEFINE lex == file["lexdata"]
           old(k) == file["messages"][k]
<1>1. /\ text \in [Msg -> Text]
      /\ LexRight(text, lex, order, NewTotal)
      /\ \A w \in Worth(text) : Tidy(lex[w])
  BY DEF LexInv
<1>2. /\ file["messages"] = order /\ file["conn"] = MovedConn
      /\ \A k \in Msg : order[k] \in Msg
  BY DEF IInv, FilesInv, Renumbered
<1>3. \A k \in Msg : file["conn"][k].total = NewTotal[k]
  <2>1. \A k \in Msg : MovedConn[k].total = conn[order[k]].total
    BY DEF MovedConn
  <2>2. \A k \in Msg : NewTotal[k] = conn[order[k]].total
    BY DEF NewTotal
  <2> QED
    BY <1>2, <2>1, <2>2
<1>4. /\ \A m \in Msg : \A w : Occurrences(m, w) = Heard(text, m, w)
      /\ \A w : Having(w) = Hearing(text, w)
      /\ {w \in Word : InLexicon(w)} = Worth(text)
  BY <1>1, HeardIs
<1>5. DOMAIN lex = {w \in Word : InLexicon(w)}
  BY <1>1, <1>4 DEF LexRight
<1>6. ASSUME NEW w \in DOMAIN lex
      PROVE  /\ {old(lex[w][k].post) : k \in DOMAIN lex[w]} = Having(w)
             /\ \A k \in 2..Len(lex[w]) : lex[w][k - 1].post < lex[w][k].post
             /\ \A k \in DOMAIN lex[w] :
                   LET e == lex[w][k]
                       m == old(e.post)
                   IN  /\ e.children = LexiconTransformChildNum(file["conn"][e.post].total - 1)
                       /\ \A h \in 2..Len(e.hits) : ~RanksAbove(e.hits[h], e.hits[h - 1])
                       /\ ~Wrapped(m, w) /\ ~Crowded(m, w) => Range(e.hits) = HitsOf(m, w)
  <2>1. w \in Worth(text) /\ ListRight(text, lex[w], w, order, NewTotal) /\ Tidy(lex[w])
    BY <1>1, <1>5, <1>4 DEF LexRight
  <2>2. {old(lex[w][k].post) : k \in DOMAIN lex[w]} = Having(w)
    BY <1>2, <1>4, <2>1 DEF ListRight
  <2>3. ASSUME NEW k \in DOMAIN lex[w]
        PROVE  LET e == lex[w][k]
                   m == old(e.post)
               IN  /\ e.children = LexiconTransformChildNum(file["conn"][e.post].total - 1)
                   /\ \A h \in 2..Len(e.hits) : ~RanksAbove(e.hits[h], e.hits[h - 1])
                   /\ ~Wrapped(m, w) /\ ~Crowded(m, w) => Range(e.hits) = HitsOf(m, w)
    <3> DEFINE e == lex[w][k]
               m == old(e.post)
               O == Heard(text, m, w)
    <3>1. e.post \in Msg
      <4>1. lex[w] \in Seq(Entry)
        BY <2>1 DEF ListRight
      <4>2. e \in Entry
        BY <4>1
      <4> QED
        BY <4>2 DEF Entry
    <3>2. m = order[e.post] /\ m \in Msg
      BY <1>2, <3>1
    <3>3. e.children = LexiconTransformChildNum(NewTotal[e.post] - 1) /\ HitsInv(e.hits, O)
      BY <2>1, <3>2 DEF ListRight
    <3>4. O \in SUBSET Spots /\ O = Occurrences(m, w)
      BY <1>1, <1>4, <3>2, HeardTyped
    <3>5. \A h \in 2..Len(e.hits) : ~RanksAbove(e.hits[h], e.hits[h - 1])
      BY <2>1 DEF Tidy
    <3> HIDE DEF e, m, O
    <3>6. HitsOf(m, w) = {Cut(o) : o \in O}
      <4>1. ASSUME NEW o \in O
            PROVE  [o EXCEPT !.pos = AtMost(MaxPos[o.type], @)] = Cut(o)
        <5>1. o \in [type : Types, pos : Nat]
          BY <3>4 DEF Spots
        <5> QED
          BY <5>1 DEF Cut, At
      <4> QED
        BY <3>4, <4>1 DEF HitsOf
    <3>7. ASSUME ~Wrapped(m, w), ~Crowded(m, w) PROVE Range(e.hits) = HitsOf(m, w)
      <4>1. \A o \in O : ~(o.pos >= Byte)
        BY <3>4, <3>7 DEF Wrapped
      <4>2. ~(Cardinality({Cut(o) : o \in O}) > MaxHits)
        BY <3>6, <3>7 DEF Crowded
      <4>3. Range(e.hits) = {Cut(o) : o \in O}
        BY <3>3, <3>4, <4>1, <4>2, HitsAll
      <4> QED
        BY <3>6, <4>3
    <3>8. e.children = LexiconTransformChildNum(file["conn"][e.post].total - 1)
      BY <1>3, <3>1, <3>3
    <3> QED
      BY <3>5, <3>7, <3>8 DEF e, m
  <2>4. \A k \in 2..Len(lex[w]) : lex[w][k - 1].post < lex[w][k].post
    <3> DEFINE n == Len(lex[w])
    <3>1. n \in Nat
      BY <2>1 DEF ListRight
    <3>2. \A k \in 2..n : k \in 1..n /\ k - 1 \in 1..n /\ k - 1 < k
      BY <3>1
    <3> QED
      BY <2>1, <3>2 DEF Tidy
  <2> QED
    BY <2>2, <2>3, <2>4
<1> QED
  BY <1>5, <1>6 DEF IndexRight

(* The index of the sorted archive leads from a word to the messages that  *)
(* have it and to no other, and in each to where it stands.                *)
THEOREM IndexIsRight == Spec => []IndexRight
BY Invariance, LexInvariance, IndexFollows, PTL
-----------------------------------------------------------------------------
(* Looking up a number in a list of entries in order.                      *)
Climbs(posts) ==
    /\ posts \in Seq(Entry)
    /\ \A j, k \in 1..Len(posts) : j < k => posts[j].post < posts[k].post

Within(posts) == {at \in (1..(Len(posts) + 1)) \X (0..Len(posts)) :
                     at[1] + at[2] <= Len(posts) + 1}

Halved(posts, post, b) ==
    [at \in Within(posts) |->
        IF at[2] = 0 THEN at[1]
        ELSE IF posts[at[1] + at[2] \div 2].post < post
        THEN b[<<at[1] + at[2] \div 2 + 1, at[2] - at[2] \div 2 - 1>>]
        ELSE b[<<at[1], at[2] \div 2>>]]

LEMMA ClimbsTyped ==
    ASSUME NEW posts, Climbs(posts)
    PROVE  /\ Len(posts) \in Nat /\ DOMAIN posts = 1..Len(posts)
           /\ \A k \in 1..Len(posts) : posts[k] \in Entry /\ posts[k].post \in Msg /\ posts[k].post \in Int
<1>1. posts \in Seq(Entry)
  BY DEF Climbs
<1>2. ASSUME NEW k \in 1..Len(posts) PROVE posts[k] \in Entry /\ posts[k].post \in Msg /\ posts[k].post \in Int
  <2>1. posts[k] \in Entry
    BY <1>1
  <2>2. posts[k].post \in Msg
    BY <2>1 DEF Entry
  <2> QED
    BY <2>1, <2>2 DEF Msg
<1> QED
  BY <1>1, <1>2

LEMMA FirstNotBelow ==
    ASSUME NEW posts, Climbs(posts), NEW post \in Int
    PROVE  \E l \in 1..(Len(posts) + 1) : \A k \in 1..Len(posts) : posts[k].post < post <=> k < l
<1> DEFINE n == Len(posts)
           T == {k \in Nat : 1 <= k /\ k <= n + 1 /\ (k = n + 1 \/ ~(posts[k].post < post))}
<1>1. n \in Nat /\ \A k \in 1..n : posts[k].post \in Int
  BY ClimbsTyped
<1>2. n + 1 \in T /\ T \in SUBSET Nat
  BY <1>1
<1>3. PICK l \in T : \A k \in T : ~(k < l)
  <2> HIDE DEF T
  <2> QED
    BY <1>2, LeastNumber
<1>4. l \in 1..(n + 1) /\ l \in Nat
  BY <1>1
<1>5. ASSUME NEW k \in 1..n PROVE posts[k].post < post <=> k < l
  <2>1. CASE k < l
    <3>1. k \notin T
      <4> HIDE DEF T
      <4> QED
        BY <1>3, <2>1
    <3> QED
      BY <1>1, <2>1, <3>1
  <2>2. CASE ~(k < l)
    <3>1. l \in 1..n /\ ~(posts[l].post < post)
      BY <1>1, <1>4, <2>2
    <3>2. l = k \/ posts[l].post < posts[k].post
      BY <1>4, <2>2, <3>1 DEF Climbs
    <3> QED
      BY <1>1, <2>2, <3>1, <3>2
  <2> QED
    BY <2>1, <2>2
<1> QED
  BY <1>4, <1>5

LEMMA LowerBoundIs ==
    ASSUME NEW posts, Climbs(posts), NEW post \in Int,
           NEW l \in 1..(Len(posts) + 1),
           \A k \in 1..Len(posts) : posts[k].post < post <=> k < l
    PROVE  LowerBound(posts, post) = l
<1> DEFINE n == Len(posts)
           S == Within(posts)
           Eq(b) == b = Halved(posts, post, b)
           bound == CHOOSE b : Eq(b)
           To(first, count) == IF l < first THEN first ELSE IF l > first + count THEN first + count ELSE l
           g == [at \in S |-> To(at[1], at[2])]
<1>1. n \in Nat /\ l \in Nat /\ 1 <= l /\ l <= n + 1
  BY ClimbsTyped
<1>2. LowerBound(posts, post) = bound[<<1, n>>]
  BY DEF LowerBound, Halved, Within
<1>3. ASSUME NEW at \in S
      PROVE  /\ at[1] \in Nat /\ at[2] \in Nat /\ 1 <= at[1] /\ at[1] + at[2] <= n + 1 /\ at = <<at[1], at[2]>>
  BY <1>1 DEF Within
<1>4. ASSUME NEW i \in Nat, NEW c \in Nat, 1 <= i, i + c <= n + 1
      PROVE  <<i, c>> \in S
  BY <1>1, <1>4 DEF Within
<1>5. ASSUME NEW at \in S, at[2] # 0
      PROVE  LET h == at[2] \div 2
             IN  /\ h \in Nat /\ at[1] + h \in 1..n
                 /\ at[2] - h - 1 \in Nat /\ at[2] - h - 1 < at[2] /\ h < at[2]
                 /\ <<at[1] + h + 1, at[2] - h - 1>> \in S /\ <<at[1], h>> \in S
  <2> DEFINE c == at[2]
             h == c \div 2
             i == at[1]
  <2>1. i \in Nat /\ c \in Nat /\ 1 <= i /\ i + c <= n + 1 /\ c # 0
    BY <1>3, <1>5
  <2> HIDE DEF c, i
  <2>2. h \in Nat /\ h < c
    BY <2>1
  <2> HIDE DEF h, S, n
  <2>3. i + h \in 1..n /\ c - h - 1 \in Nat /\ c - h - 1 < c /\ i + h + 1 \in Nat
    BY <1>1, <2>1, <2>2
  <2>4. <<i + h + 1, c - h - 1>> \in S
    <3> DEFINE i2 == i + h + 1
               c2 == c - h - 1
    <3>1. i2 \in Nat /\ c2 \in Nat /\ 1 <= i2 /\ i2 + c2 <= n + 1
      BY <1>1, <2>1, <2>2, <2>3
    <3> HIDE DEF i2, c2
    <3>2. <<i2, c2>> \in S
      BY <1>4, <3>1
    <3> QED
      BY <3>2 DEF i2, c2
  <2>5. <<i, h>> \in S
    <3>1. i + h <= n + 1
      BY <1>1, <2>1, <2>2
    <3> QED
      BY <1>4, <2>1, <2>2, <3>1
  <2> QED
    BY <2>2, <2>3, <2>4, <2>5 DEF c, h, i
<1> HIDE DEF S
<1>6. \A at \in S : g[at] = To(at[1], at[2])
  OBVIOUS
<1>7. ASSUME NEW at \in S
      PROVE  Halved(posts, post, g)[at] = g[at]
  <2> DEFINE h == at[2] \div 2
             H == Halved(posts, post, g)[at]
  <2>1. H = IF at[2] = 0 THEN at[1]
            ELSE IF posts[at[1] + h].post < post
            THEN g[<<at[1] + h + 1, at[2] - h - 1>>]
            ELSE g[<<at[1], h>>]
    BY DEF Halved, S
  <2>2. /\ at[1] \in Nat /\ at[2] \in Nat /\ 1 <= at[1] /\ at[1] + at[2] <= n + 1
        /\ g[at] = To(at[1], at[2])
    BY <1>3, <1>6
  <2>3. CASE at[2] = 0
    BY <1>1, <2>1, <2>2, <2>3
  <2>4. CASE at[2] # 0
    <3>1. /\ h \in Nat /\ at[1] + h \in 1..n /\ h < at[2]
          /\ <<at[1] + h + 1, at[2] - h - 1>> \in S /\ <<at[1], h>> \in S
      BY <1>5, <2>4
    <3>2. posts[at[1] + h].post < post <=> at[1] + h < l
      BY <3>1
    <3>3. /\ g[<<at[1] + h + 1, at[2] - h - 1>>] = To(at[1] + h + 1, at[2] - h - 1)
          /\ g[<<at[1], h>>] = To(at[1], h)
      BY <1>6, <3>1
    <3> HIDE DEF g, h, n
    <3>4. CASE at[1] + h < l
      <4>1. H = To(at[1] + h + 1, at[2] - h - 1)
        <5> HIDE DEF To
        <5> QED
          BY <2>1, <2>4, <3>2, <3>3, <3>4
      <4>2. To(at[1] + h + 1, at[2] - h - 1) = To(at[1], at[2])
        <5> DEFINE i == at[1]
                   c == at[2]
        <5>1. i \in Nat /\ c \in Nat /\ h \in Nat /\ h < c /\ i + h < l /\ l \in Nat
          BY <1>1, <2>2, <3>1, <3>4
        <5> HIDE DEF i, c
        <5>2. To(i + h + 1, c - h - 1) = To(i, c)
          BY <5>1
        <5> QED
          BY <5>2 DEF i, c
      <4> HIDE DEF To
      <4> QED
        BY <2>2, <4>1, <4>2
    <3>5. CASE ~(at[1] + h < l)
      <4>1. H = To(at[1], h)
        <5> HIDE DEF To
        <5> QED
          BY <2>1, <2>4, <3>2, <3>3, <3>5
      <4>2. To(at[1], h) = To(at[1], at[2])
        <5> DEFINE i == at[1]
                   c == at[2]
        <5>1. i \in Nat /\ c \in Nat /\ h \in Nat /\ h < c /\ ~(i + h < l) /\ l \in Nat
          BY <1>1, <2>2, <3>1, <3>5
        <5> HIDE DEF i, c
        <5>2. To(i, h) = To(i, c)
          BY <5>1
        <5> QED
          BY <5>2 DEF i, c
      <4> HIDE DEF To
      <4> QED
        BY <2>2, <4>1, <4>2
    <3> QED
      BY <3>4, <3>5
  <2> QED
    BY <2>3, <2>4
<1>8. Eq(g)
  <2>1. Halved(posts, post, g) = [at \in S |-> Halved(posts, post, g)[at]]
    BY DEF Halved, S
  <2>2. g = [at \in S |-> g[at]]
    OBVIOUS
  <2> HIDE DEF g
  <2> QED
    BY <1>7, <2>1, <2>2
<1>9. Eq(bound)
  <2> HIDE DEF Eq, g
  <2> QED
    BY <1>8
<1> HIDE DEF bound
<1>10. ASSUME NEW at \in S
       PROVE  bound[at] = IF at[2] = 0 THEN at[1]
                          ELSE IF posts[at[1] + at[2] \div 2].post < post
                          THEN bound[<<at[1] + at[2] \div 2 + 1, at[2] - at[2] \div 2 - 1>>]
                          ELSE bound[<<at[1], at[2] \div 2>>]
  <2>1. bound[at] = Halved(posts, post, bound)[at]
    BY <1>9
  <2> QED
    BY <2>1 DEF Halved, S
<1>11. ASSUME NEW at \in S
       PROVE  g[at] = IF at[2] = 0 THEN at[1]
                      ELSE IF posts[at[1] + at[2] \div 2].post < post
                      THEN g[<<at[1] + at[2] \div 2 + 1, at[2] - at[2] \div 2 - 1>>]
                      ELSE g[<<at[1], at[2] \div 2>>]
  <2>1. g[at] = Halved(posts, post, g)[at]
    BY <1>7
  <2> HIDE DEF g
  <2> QED
    BY <2>1 DEF Halved, S
<1> HIDE DEF g
<1> DEFINE T == {c \in Nat : \E at \in S : at[2] = c /\ bound[at] # g[at]}
<1>12. T = {}
  <2> SUFFICES ASSUME T # {} PROVE FALSE
    OBVIOUS
  <2>0. T \in SUBSET Nat
    OBVIOUS
  <2>1. PICK c \in T : \A d \in T : ~(d < c)
    <3> HIDE DEF T
    <3> QED
      BY <2>0, LeastNumber
  <2>2. PICK at \in S : at[2] = c /\ bound[at] # g[at]
    OBVIOUS
  <2>3. \A x \in S : x[2] < c => bound[x] = g[x]
    <3> SUFFICES ASSUME NEW x \in S, x[2] < c PROVE bound[x] = g[x]
      OBVIOUS
    <3>1. x[2] \notin T /\ x[2] \in Nat
      <4> HIDE DEF T
      <4> QED
        BY <1>3, <2>1
    <3> QED
      BY <3>1
  <2>4. CASE at[2] = 0
    BY <1>10, <1>11, <2>2, <2>4
  <2>5. CASE at[2] # 0
    <3> DEFINE h == at[2] \div 2
    <3>1. /\ at[2] - h - 1 < at[2] /\ h < at[2]
          /\ <<at[1] + h + 1, at[2] - h - 1>> \in S /\ <<at[1], h>> \in S
      BY <1>5, <2>5
    <3> HIDE DEF h
    <3>2. /\ bound[<<at[1] + h + 1, at[2] - h - 1>>] = g[<<at[1] + h + 1, at[2] - h - 1>>]
          /\ bound[<<at[1], h>>] = g[<<at[1], h>>]
      BY <2>2, <2>3, <3>1
    <3> QED
      BY <1>10, <1>11, <2>2, <2>5, <3>2 DEF h
  <2> QED
    BY <2>4, <2>5
<1>13. <<1, n>> \in S
  BY <1>1, <1>4
<1>14. bound[<<1, n>>] = g[<<1, n>>]
  <2>1. n \in Nat /\ n \notin T /\ <<1, n>>[2] = n
    BY <1>1, <1>12
  <2> QED
    BY <1>13, <2>1
<1>15. g[<<1, n>>] = To(1, n)
  BY <1>6, <1>13 DEF g
<1> QED
  BY <1>1, <1>2, <1>14, <1>15

LEMMA HoldsIs ==
    ASSUME NEW posts, Climbs(posts), NEW post \in Int
    PROVE  Holds(posts, post) <=> post \in Posts(posts)
<1> DEFINE n == Len(posts)
<1>1. PICK l \in 1..(n + 1) : \A k \in 1..n : posts[k].post < post <=> k < l
  BY FirstNotBelow
<1>2. LowerBound(posts, post) = l
  BY <1>1, LowerBoundIs
<1>3. n \in Nat /\ DOMAIN posts = 1..n /\ \A k \in 1..n : posts[k].post \in Int
  BY ClimbsTyped
<1>4. Holds(posts, post) <=> l \in 1..n /\ posts[l].post = post
  BY <1>2, <1>3 DEF Holds
<1>5. ASSUME NEW k \in 1..n, posts[k].post = post PROVE l = k
  <2>1. ~(k < l)
    BY <1>1, <1>3, <1>5
  <2>2. l \in 1..n
    BY <1>3, <2>1
  <2>3. ~(posts[l].post < post)
    BY <1>1, <2>2
  <2>4. l < k => posts[l].post < posts[k].post
    BY <2>2 DEF Climbs
  <2> QED
    BY <1>3, <1>5, <2>1, <2>2, <2>3, <2>4
<1> QED
  BY <1>3, <1>4, <1>5 DEF Posts

LEMMA ChosenPosts ==
    ASSUME NEW list, Climbs(list), NEW S \in SUBSET (1..Len(list))
    PROVE  LET r == Arranged(list, LowFirst(S, [k \in DOMAIN list |-> k]))
           IN  Climbs(r) /\ Posts(r) = {list[k].post : k \in S}
<1> DEFINE n == Len(list)
           num == [k \in DOMAIN list |-> k]
           before == LowFirst(S, num)
           r == Arranged(list, before)
           c == Cardinality(S)
<1>1. n \in Nat /\ DOMAIN list = 1..n /\ \A k \in 1..n : list[k] \in Entry /\ list[k].post \in Int
  BY ClimbsTyped
<1>2. IsFiniteSet(S) /\ c \in Nat
  <2>1. IsFiniteSet(1..n)
    <3> HIDE DEF n
    <3> QED
      BY <1>1, FS_Interval
  <2> QED
    BY <2>1, FS_Subset, FS_CardinalityType
<1>3. \A k \in S : k \in 1..n /\ k \in Nat /\ num[k] = k
  BY <1>1
<1>4. Total(S, before)
  <2>1. S \in SUBSET Nat /\ \A k \in S : num[k] \in Int
    BY <1>3
  <2> HIDE DEF num
  <2> QED
    BY <2>1, LowFirstTotal
<1>5. PICK p : Arranges(p, S, before) /\ r = [k \in 1..c |-> list[p[k]]]
  <2> HIDE DEF before
  <2> QED
    BY <1>2, <1>4, ArrangedIs
<1>6. /\ p \in [1..c -> S]
      /\ \A l \in S : \E k \in 1..c : p[k] = l
      /\ \A j, k \in 1..c : j < k => p[j] \in before[p[k]]
  BY <1>5 DEF Arranges
<1>7. ASSUME NEW k \in S, NEW l \in S, k \in before[l] PROVE k < l \/ k = l
  BY <1>3, <1>7 DEF LowFirst
<1>8. \A l \in S : l \notin before[l]
  BY <1>4 DEF Total
<1> HIDE DEF before, num, r, c
<1>9. r \in Seq(Entry) /\ Len(r) = c /\ DOMAIN r = 1..c /\ \A k \in 1..c : r[k] = list[p[k]]
  <2>1. r \in [1..c -> Entry]
    BY <1>1, <1>3, <1>5, <1>6
  <2> QED
    BY <1>2, <1>5, <2>1
<1>10. \A j, k \in 1..c : j < k => r[j].post < r[k].post
  <2> SUFFICES ASSUME NEW j \in 1..c, NEW k \in 1..c, j < k PROVE r[j].post < r[k].post
    OBVIOUS
  <2>1. p[j] \in S /\ p[k] \in S /\ p[j] < p[k]
    BY <1>6, <1>7, <1>8
  <2>2. list[p[j]].post < list[p[k]].post
    BY <1>3, <2>1 DEF Climbs
  <2> QED
    BY <1>9, <2>2
<1>11. Posts(r) = {list[k].post : k \in S}
  BY <1>6, <1>9 DEF Posts
<1> QED
  BY <1>9, <1>10, <1>11 DEF Climbs, r, before, num

(* A message is met by a word in a context.                                *)
Met(txt, m, w, filter, field) ==
    \E o \in Heard(txt, m, w) : IF filter # "All" THEN o.type = filter ELSE field \in {"Any", o.type}

Fits(hits, filter, field) ==
    IF filter # "All" THEN \E h \in Range(hits) : h.type = filter
    ELSE field = "Any" \/ \E h \in Range(hits) : h.type = field

(* An index as the archive sorted has it, and the posts of a word in it.   *)
Ready(txt, lex, old, total) ==
    /\ txt \in [Msg -> Text]
    /\ LexRight(txt, lex, old, total)
    /\ \A w \in Worth(txt) : Tidy(lex[w])
    /\ \A k \in Msg : old[k] \in Msg
    /\ \A k, l \in Msg : old[k] = old[l] => k = l

LEMMA PostsMet ==
    ASSUME NEW txt, NEW lex, NEW old, NEW total, Ready(txt, lex, old, total),
           NEW words, NEW k \in DOMAIN words, words[k].word \in Worth(txt), NEW filter
    PROVE  LET posts == GetPostsForWords(words, filter, lex)[k]
           IN  /\ Climbs(posts) /\ Posts(posts) \in SUBSET Msg
               /\ \A p \in Msg : p \in Posts(posts) <=>
                     Met(txt, old[p], words[k].word, filter, words[k].field)
<1> DEFINE w == words[k].word
           field == words[k].field
           list == lex[w]
           n == Len(list)
           S == {j \in DOMAIN list : Fits(list[j].hits, filter, field)}
           posts == GetPostsForWords(words, filter, lex)[k]
<1>1. posts = Arranged(list, LowFirst(S, [j \in DOMAIN list |-> j]))
  BY DEF GetPostsForWords, Fits
<1>2. /\ ListRight(txt, list, w, old, total) /\ Tidy(list)
      /\ \A j \in Msg : old[j] \in Msg /\ \A l \in Msg : old[j] = old[l] => j = l
  BY DEF Ready, LexRight
<1>3. Climbs(list)
  BY <1>2 DEF Climbs, ListRight, Tidy
<1> HIDE DEF list
<1>4. DOMAIN list = 1..n /\ \A j \in 1..n : list[j].post \in Msg
  BY <1>3, ClimbsTyped
<1>5. Climbs(posts) /\ Posts(posts) = {list[j].post : j \in S}
  <2>1. S \in SUBSET (1..n)
    BY <1>4
  <2> HIDE DEF S, posts
  <2> QED
    BY <1>1, <1>3, <2>1, ChosenPosts
<1>6. ASSUME NEW j \in 1..n
      PROVE  Fits(list[j].hits, filter, field) <=> Met(txt, old[list[j].post], w, filter, field)
  <2> DEFINE hits == list[j].hits
             O == Heard(txt, old[list[j].post], w)
  <2>1. HitsInv(hits, O)
    BY <1>2, <1>4 DEF ListRight
  <2>2. O # {}
    <3>1. old[list[j].post] \in Hearing(txt, w)
      BY <1>2, <1>4 DEF ListRight
    <3> QED
      BY <3>1 DEF Hearing
  <2> HIDE DEF hits, O
  <2>3. /\ \A h \in Range(hits) : \E o \in O : o.type = h.type
        /\ \A o \in O : \E h \in Range(hits) : h.type = o.type
    BY <2>1 DEF HitsInv
  <2>4. Fits(hits, filter, field) <=>
          \E o \in O : IF filter # "All" THEN o.type = filter ELSE field \in {"Any", o.type}
    BY <2>2, <2>3 DEF Fits
  <2> QED
    BY <2>4 DEF Met, hits, O
<1>7. ASSUME NEW p \in Msg
      PROVE  p \in Posts(posts) <=> Met(txt, old[p], w, filter, field)
  <2>1. ASSUME p \in Posts(posts) PROVE Met(txt, old[p], w, filter, field)
    <3>1. PICK j \in S : p = list[j].post
      BY <1>5, <2>1
    <3> QED
      BY <1>4, <1>6, <3>1
  <2>2. ASSUME Met(txt, old[p], w, filter, field) PROVE p \in Posts(posts)
    <3>1. old[p] \in Hearing(txt, w)
      BY <1>2, <2>2 DEF Met, Hearing
    <3>2. PICK j \in 1..n : old[list[j].post] = old[p]
      BY <1>2, <1>4, <3>1 DEF ListRight
    <3>3. list[j].post = p
      BY <1>2, <1>4, <3>2
    <3>4. j \in S
      BY <1>4, <1>6, <2>2, <3>3
    <3> QED
      BY <1>5, <3>3, <3>4
  <2> QED
    BY <2>1, <2>2
<1>8. Posts(posts) \in SUBSET Msg
  BY <1>4, <1>5
<1> QED
  BY <1>5, <1>7, <1>8

(* The words a query is looked up by: each once, each in the index.        *)
Signs  == {"none", "must", "cant"}
Fields == {"Any", "From", "Subject"}
Sought == [word : Word, sign : Signs, field : Fields, strict : BOOLEAN]
For(w, t, strict) == [word |-> w, sign |-> t.sign, field |-> t.field, strict |-> strict]

Listed(words, L) ==
    /\ words \in Seq(Sought)
    /\ \A k, l \in 1..Len(words) : words[k].word = words[l].word => k = l
    /\ Used(words) \subseteq L

LEMMA TakeOne ==
    ASSUME NEW L, NEW x, Listed(x, L), NEW r \in Sought, r.word \in L \ Used(x)
    PROVE  /\ Listed(Append(x, r), L)
           /\ Range(Append(x, r)) = Range(x) \cup {r}
           /\ Used(Append(x, r)) = Used(x) \cup {r.word}
<1> DEFINE n == Len(x)
           y == Append(x, r)
<1>1. /\ n \in Nat /\ DOMAIN x = 1..n /\ y \in Seq(Sought) /\ Len(y) = n + 1 /\ y[n + 1] = r
      /\ \A k \in 1..n : y[k] = x[k]
      /\ DOMAIN y = 1..(n + 1)
  BY DEF Listed
<1>2. \A k, l \in 1..n : x[k].word = x[l].word => k = l
  BY DEF Listed
<1>3. \A k \in 1..n : x[k].word \in Used(x) /\ x[k] \in Range(x)
  BY <1>1 DEF Used, Range
<1> HIDE DEF n, y
<1>4. \A k \in 1..(n + 1) : k \in 1..n \/ k = n + 1
  BY <1>1
<1>5. n + 1 \in 1..(n + 1) /\ \A k \in 1..n : k \in 1..(n + 1)
  BY <1>1
<1>6. Range(y) = Range(x) \cup {r}
  BY <1>1, <1>4, <1>5 DEF Range
<1>7. Used(y) = Used(x) \cup {r.word}
  BY <1>1, <1>4, <1>5 DEF Used
<1>8. ASSUME NEW i \in 1..(n + 1), NEW j \in 1..(n + 1), y[i].word = y[j].word PROVE i = j
  BY <1>1, <1>2, <1>3, <1>4, <1>8
<1> QED
  BY <1>1, <1>6, <1>7, <1>8 DEF Listed, y

LEMMA UsedIs ==
    ASSUME NEW x \in Seq(Sought)
    PROVE  Used(x) = {r.word : r \in Range(x)} /\ Range(x) \subseteq Sought
BY DEF Used, Range

(* What Take makes of a list of words.                                     *)
Takes(new, words, list, t, strict, L) ==
    /\ Listed(new, L)
    /\ Range(words) \subseteq Range(new)
    /\ \A r \in Range(new) : r \in Range(words) \/ \E w \in Range(list) \cap L : r = For(w, t, strict)
    /\ Range(list) \cap L \subseteq Used(new)

LEMMA TakeIs ==
    ASSUME NEW lex, DOMAIN lex \subseteq Word, NEW words, Listed(words, DOMAIN lex),
           NEW list \in Seq(Word), NEW t, t.sign \in Signs, t.field \in Fields,
           NEW strict \in BOOLEAN
    PROVE  Takes(Take(words, list, t, strict, lex), words, list, t, strict, DOMAIN lex)
<1> DEFINE n == Len(list)
           L == DOMAIN lex
           S == Seq(Sought)
           Op(k, x) == IF list[k] \in L \ Used(x) THEN Append(x, For(list[k], t, strict)) ELSE x
           Eq(f) == f = [k \in 0..n |-> IF k = 0 THEN words ELSE Op(k, f[k - 1])]
           taken == CHOOSE f : Eq(f)
           step == [k \in 1..n |-> [x \in S |-> Op(k, x)]]
<1>1. Take(words, list, t, strict, lex) = taken[n]
  BY DEF Take, For
<1>2. n \in Nat /\ DOMAIN list = 1..n /\ \A k \in 1..n : list[k] \in Word
  OBVIOUS
<1>3. \A w \in Word : For(w, t, strict) \in Sought /\ For(w, t, strict).word = w
  BY DEF For, Sought
<1>4. words \in S
  BY DEF Listed
<1>5. ASSUME NEW k \in 1..n, NEW x \in S PROVE Op(k, x) \in S
  <2>1. For(list[k], t, strict) \in Sought
    BY <1>2, <1>3
  <2> HIDE DEF L, n
  <2> QED
    BY <2>1
<1> HIDE DEF n, S, L, Op
<1>6. Loop(n, S, step)
  BY <1>2, <1>5 DEF Loop
<1>7. \A k \in 1..n : \A x \in S : step[k][x] = Op(k, x)
  OBVIOUS
<1> HIDE DEF step
<1>8. PICK g : Runs(g, n, S, words, step)
  BY <1>4, <1>6, LoopRuns
<1>r. g \in [0..n -> S] /\ g[0] = words /\ \A k \in 1..n : g[k] = step[k][g[k - 1]]
  BY <1>8 DEF Runs
<1>9. Eq(g)
  <2>1. ASSUME NEW k \in 0..n PROVE g[k] = IF k = 0 THEN words ELSE Op(k, g[k - 1])
    <3>1. CASE k = 0
      BY <1>r, <3>1
    <3>2. CASE k # 0
      <4>1. k \in 1..n /\ k - 1 \in 0..n
        BY <1>2, <3>2
      <4>2. g[k] = step[k][g[k - 1]] /\ g[k - 1] \in S
        BY <1>r, <4>1
      <4>3. g[k] = Op(k, g[k - 1])
        BY <1>7, <4>1, <4>2
      <4> QED
        BY <3>2, <4>3
    <3> QED
      BY <3>1, <3>2
  <2> QED
    BY <1>r, <2>1
<1>10. Eq(taken)
  <2> HIDE DEF Eq
  <2> QED
    BY <1>9
<1> HIDE DEF taken
<1>11. taken[0] = words /\ \A k \in 1..n : taken[k] = Op(k, taken[k - 1])
  BY <1>2, <1>10
<1> DEFINE Inv(x, k) == /\ Listed(x, L)
                        /\ Range(words) \subseteq Range(x)
                        /\ \A r \in Range(x) : \/ r \in Range(words)
                                               \/ \E w \in Range(list) \cap L : r = For(w, t, strict)
                        /\ \A i \in 1..k : list[i] \in L => list[i] \in Used(x)
           T == {k \in 0..n : Inv(taken[k], k)}
<1>12. 0 \in T
  BY <1>2, <1>11 DEF L
<1>13. ASSUME NEW k \in 1..n, k - 1 \in T PROVE k \in T
  <2> DEFINE x == taken[k - 1]
             y == taken[k]
             w == list[k]
             r == For(w, t, strict)
  <2>1. Inv(x, k - 1) /\ k \in 0..n
    BY <1>2, <1>13
  <2>2. w \in Word /\ w \in Range(list) /\ r \in Sought /\ r.word = w
    BY <1>2, <1>3 DEF Range
  <2>3. y = IF w \in L \ Used(x) THEN Append(x, r) ELSE x
    BY <1>11 DEF Op
  <2>4. \A i \in 1..k : i \in 1..(k - 1) \/ i = k
    BY <1>2
  <2> HIDE DEF x, y, w, r
  <2>5. CASE w \in L \ Used(x)
    <3>1. Listed(Append(x, r), L) /\ Range(Append(x, r)) = Range(x) \cup {r}
          /\ Used(Append(x, r)) = Used(x) \cup {r.word}
      BY <2>1, <2>2, <2>5, TakeOne
    <3>2. y = Append(x, r)
      BY <2>3, <2>5
    <3>3. \A i \in 1..k : list[i] \in L => list[i] \in Used(y)
      BY <2>1, <2>2, <2>4, <3>1, <3>2 DEF w
    <3>4. r = For(w, t, strict) /\ w \in Range(list) \cap L
      BY <2>2, <2>5 DEF r
    <3>5. Inv(y, k)
      BY <2>1, <3>1, <3>2, <3>3, <3>4
    <3> QED
      BY <2>1, <3>5 DEF y
  <2>6. CASE ~(w \in L \ Used(x))
    <3>1. y = x
      BY <2>3, <2>6
    <3>2. \A i \in 1..k : list[i] \in L => list[i] \in Used(y)
      BY <2>1, <2>4, <2>6, <3>1 DEF w
    <3>3. Inv(y, k)
      BY <2>1, <3>1, <3>2
    <3> QED
      BY <2>1, <3>3 DEF y
  <2> QED
    BY <2>5, <2>6
<1>14. Inv(taken[n], n)
  <2>1. n \in 0..n
    BY <1>2
  <2> HIDE DEF T
  <2>2. \A k \in 0..n : k \in T
    BY <1>2, <1>12, <1>13, Rounds
  <2>3. n \in T
    BY <2>1, <2>2
  <2> QED
    BY <2>3 DEF T
<1>15. Range(list) \cap L \subseteq Used(taken[n])
  BY <1>2, <1>14 DEF Range
<1> QED
  BY <1>1, <1>14, <1>15 DEF Takes, L

(* SetToSeq lists the elements of a finite set.                            *)
LEMMA SetListed ==
    ASSUME NEW S, IsFiniteSet(S)
    PROVE  /\ SetToSeq(S) \in Seq(S) /\ Range(SetToSeq(S)) = S
<1> DEFINE n == Cardinality(S)
           s == SetToSeq(S)
<1>1. n \in Nat /\ IsFiniteSet(1..n) /\ Cardinality(1..n) = n
  <2>1. n \in Nat
    BY FS_CardinalityType
  <2> HIDE DEF n
  <2> QED
    BY <2>1, FS_Interval
<1>2. ExistsBijection(1..n, S)
  BY <1>1, FS_SameCardinalityBij
<1>3. \E f \in [1..n -> S] : IsInjective(f)
  BY <1>2 DEF ExistsBijection, Bijection, Injection, IsInjective
<1>4. s \in [1..n -> S] /\ IsInjective(s)
  BY <1>3 DEF SetToSeq
<1> HIDE DEF n, s
<1>5. s \in Injection(1..n, S)
  BY <1>4 DEF Injection
<1>6. s \in Surjection(1..n, S)
  BY <1>1, <1>5, FS_Injection DEF n
<1>7. s \in Seq(S) /\ Range(s) = S
  BY <1>1, <1>4, <1>6 DEF Surjection, Range
<1> QED
  BY <1>7 DEF s

(* The texts have finitely many words.                                     *)
LEMMA WorthFinite ==
    ASSUME NEW txt \in [Msg -> Text]
    PROVE  IsFiniteSet(Worth(txt)) /\ Worth(txt) \subseteq Word
<1> DEFINE places(m) == Places(Lines(txt[m]))
           cells(m) == {m} \X places(m)
           all == {cells(m) : m \in Msg}
           c == [m \in Msg |-> cells(m)]
           P == UNION all
           word(x) == Lines(txt[x[1]])[x[2][1]].words[x[2][2]]
           f == [x \in P |-> word(x)]
           I == {word(x) : x \in P}
<1>1. ASSUME NEW m \in Msg PROVE IsFiniteSet(cells(m))
  <2>1. txt[m] \in Text
    OBVIOUS
  <2>2. IsFiniteSet(places(m)) /\ IsFiniteSet({m})
    BY <2>1, LinesTyped, PlacesAre, FS_Singleton
  <2> HIDE DEF places
  <2> QED
    BY <2>2, FS_Product
<1> HIDE DEF cells
<1>2. IsFiniteSet(all)
  <2>1. c \in [Msg -> all] /\ \A S \in all : \E m \in Msg : c[m] = S
    OBVIOUS
  <2> HIDE DEF c, all
  <2>2. c \in Surjection(Msg, all)
    BY <2>1 DEF Surjection
  <2> QED
    BY <2>2, MsgFinite, FS_Surjection
<1>3. \A S \in all : IsFiniteSet(S)
  BY <1>1
<1>4. IsFiniteSet(P)
  <2> HIDE DEF all
  <2> QED
    BY <1>2, <1>3, FS_UNION
<1>5. IsFiniteSet(I)
  <2>1. f \in [P -> I] /\ \A w \in I : \E x \in P : f[x] = w
    OBVIOUS
  <2> HIDE DEF P, I, f
  <2>2. f \in Surjection(P, I)
    BY <2>1 DEF Surjection
  <2> QED
    BY <1>4, <2>2, FS_Surjection
<1>6. ASSUME NEW w \in Worth(txt) PROVE w \in I
  <2>1. Hearing(txt, w) # {}
    BY FS_EmptySet DEF Worth
  <2>2. PICK m \in Msg : Heard(txt, m, w) # {}
    BY <2>1 DEF Hearing
  <2>3. PICK p \in places(m) : Lines(txt[m])[p[1]].words[p[2]] = w
    BY <2>2 DEF Heard, Occ
  <2>4. <<m, p>> \in cells(m) /\ <<m, p>>[1] = m /\ <<m, p>>[2] = p
    BY <2>3 DEF cells
  <2>5. <<m, p>> \in P /\ word(<<m, p>>) = w
    BY <2>3, <2>4
  <2> QED
    BY <2>5
<1>7. Worth(txt) \subseteq I
  BY <1>6
<1>8. IsFiniteSet(Worth(txt))
  <2> HIDE DEF I
  <2> QED
    BY <1>5, <1>7, FS_Subset
<1> QED
  BY <1>8 DEF Worth

(* The words a term brings of those in an index.                           *)
Straight(q, t) == IF (~q.logic /\ ~Plain(t)) \/ (t.star /\ t.sign # "none") THEN {}
                  ELSE IF t.star THEN Starting[t.word] ELSE {t.word}
Loose(q, t) == q.fuzzy /\ ~t.strict /\ t.sign = "none"
Bringing(q, t, W) ==
    (Straight(q, t) \cap W)
    \cup (IF Loose(q, t) THEN (UNION {Similar[w] : w \in Straight(q, t) \cap W}) \cap W ELSE {})

LEMMA BringsIs ==
    ASSUME text \in [Msg -> Text], NEW q, NEW t \in Term
    PROVE  Brings(q, t) = Bringing(q, t, Worth(text))
<1> DEFINE W == Worth(text)
           direct == Straight(q, t)
           fuzzy == IF Loose(q, t) THEN UNION {Similar[w] : w \in {w \in direct : InLexicon(w)}} ELSE {}
<1>1. Brings(q, t) = {w \in direct \cup fuzzy : InLexicon(w)}
  BY DEF Brings, Straight, Loose
<1>2. \A w \in Word : InLexicon(w) <=> w \in W
  <2>1. W = {w \in Word : InLexicon(w)}
    BY HeardIs
  <2> HIDE DEF W
  <2> QED
    BY <2>1
<1>3. /\ direct \subseteq Word
      /\ \A w \in Word : Similar[w] \subseteq Word
  BY SearchAssumption DEF Straight, Term
<1>w. W \subseteq Word
  BY DEF Worth
<1> HIDE DEF W, direct
<1>4. {w \in direct : InLexicon(w)} = direct \cap W
  BY <1>2, <1>3
<1>5. fuzzy = IF Loose(q, t) THEN UNION {Similar[w] : w \in direct \cap W} ELSE {}
  BY <1>4
<1>6. fuzzy \subseteq Word
  BY <1>3, <1>4
<1> HIDE DEF fuzzy
<1>7. Brings(q, t) = (direct \cap W) \cup (fuzzy \cap W)
  BY <1>1, <1>2, <1>3, <1>6
<1>8. fuzzy \cap W = IF Loose(q, t) THEN (UNION {Similar[w] : w \in direct \cap W}) \cap W ELSE {}
  BY <1>5
<1>9. Brings(q, t) = (direct \cap W)
        \cup (IF Loose(q, t) THEN (UNION {Similar[w] : w \in direct \cap W}) \cap W ELSE {})
  BY <1>7, <1>8
<1> QED
  BY <1>9 DEF Bringing, direct, W

LEMMA ProcessedIs ==
    ASSUME NEW txt \in [Msg -> Text], NEW lex, DOMAIN lex = Worth(txt),
           NEW q, q.logic \in BOOLEAN, NEW t \in Term
    PROVE  LET list == Processed(t, q.logic, lex)
           IN  list \in Seq(Word) /\ Range(list) \cap Worth(txt) = Straight(q, t) \cap Worth(txt)
<1> DEFINE W == Worth(txt)
           list == Processed(t, q.logic, lex)
           S == Starting[t.word] \cap W
<1>1. t.word \in Word /\ Starting[t.word] \subseteq Word /\ t.sign \in Signs
      /\ t.star \in BOOLEAN
  BY SearchAssumption DEF Term, Signs
<1>2. Range(<<t.word>>) = {t.word} /\ <<t.word>> \in Seq(Word)
  BY <1>1 DEF Range
<1>3. <<>> \in Seq(Word) /\ Range(<<>>) = {}
  BY DEF Range
<1>4. SetToSeq(S) \in Seq(Word) /\ Range(SetToSeq(S)) = S
  <2>1. IsFiniteSet(S)
    BY WorthFinite, FS_Subset
  <2>2. SetToSeq(S) \in Seq(S) /\ Range(SetToSeq(S)) = S
    <3> HIDE DEF S
    <3> QED
      BY <2>1, SetListed
  <2>3. S \subseteq Word
    BY <1>1
  <2> HIDE DEF S
  <2> QED
    BY <2>2, <2>3
<1> HIDE DEF W
<1>5. CASE ~q.logic
  <2>1. Plain(t) => ~t.star
    BY DEF Plain
  <2>2. CASE Plain(t)
    BY <1>2, <1>5, <2>1, <2>2 DEF Processed, Straight, W
  <2>3. CASE ~Plain(t)
    BY <1>3, <1>5, <2>3 DEF Processed, Straight, W
  <2> QED
    BY <2>2, <2>3
<1>6. CASE q.logic /\ ~t.star
  BY <1>2, <1>6 DEF Processed, Straight, W
<1>7. CASE q.logic /\ t.star /\ t.sign = "none"
  <2>1. list = SetToSeq(S) /\ Straight(q, t) = Starting[t.word]
    BY <1>7 DEF Processed, Straight, W
  <2> HIDE DEF list
  <2>2. Range(list) \cap W = Straight(q, t) \cap W
    BY <1>4, <2>1
  <2> QED
    BY <1>4, <2>1, <2>2 DEF list, W
<1>8. CASE q.logic /\ t.star /\ t.sign # "none"
  BY <1>3, <1>8 DEF Processed, Straight, W
<1> QED
  BY <1>5, <1>6, <1>7, <1>8

(* The words of all terms: each from a term that it is a word of.          *)
TermsTaken(words, q, n, W) ==
    /\ Listed(words, W)
    /\ \A r \in Range(words) : \E i \in 1..n :
          /\ r.word \in Straight(q, q.terms[i]) \cap W
          /\ r = For(r.word, q.terms[i], Strictly(q.terms[i]))
    /\ \A i \in 1..n : Straight(q, q.terms[i]) \cap W \subseteq Used(words)

LEMMA TermWordsIs ==
    ASSUME NEW txt \in [Msg -> Text], NEW lex, DOMAIN lex = Worth(txt),
           NEW q, q.logic \in BOOLEAN, q.terms \in Seq(Term)
    PROVE  TermsTaken(TermWords(q, lex), q, Len(q.terms), Worth(txt))
<1> DEFINE n == Len(q.terms)
           W == Worth(txt)
           S == {x \in Seq(Sought) : Listed(x, W)}
           t(k) == q.terms[k]
           list(k) == Processed(t(k), q.logic, lex)
           Op(k, x) == Take(x, list(k), t(k), Strictly(t(k)), lex)
           Eq(f) == f = [k \in 0..n |-> IF k = 0 THEN <<>> ELSE Op(k, f[k - 1])]
           words == CHOOSE f : Eq(f)
           step == [k \in 1..n |-> [x \in S |-> Op(k, x)]]
<1>1. TermWords(q, lex) = words[n]
  BY DEF TermWords
<1>2. n \in Nat /\ DOMAIN q.terms = 1..n /\ \A k \in 1..n : t(k) \in Term
  OBVIOUS
<1>3. W \subseteq Word /\ DOMAIN lex = W
  BY DEF Worth
<1>4. <<>> \in S /\ Range(<<>>) = {}
  BY DEF Listed, Used, Range
<1>5. ASSUME NEW k \in 1..n, NEW x, Listed(x, W)
      PROVE  /\ Takes(Op(k, x), x, list(k), t(k), Strictly(t(k)), W)
             /\ Range(list(k)) \cap W = Straight(q, t(k)) \cap W
  <2>1. t(k) \in Term
    BY <1>2
  <2>2. list(k) \in Seq(Word) /\ Range(list(k)) \cap W = Straight(q, t(k)) \cap W
    BY <2>1, ProcessedIs
  <2>3. t(k).sign \in Signs /\ t(k).field \in Fields /\ Strictly(t(k)) \in BOOLEAN
    BY <2>1 DEF Term, Signs, Fields, Strictly
  <2> HIDE DEF list, t, W
  <2> QED
    BY <1>3, <1>5, <2>2, <2>3, TakeIs
<1>6. ASSUME NEW k \in 1..n, NEW x \in S PROVE Op(k, x) \in S
  <2> HIDE DEF Op, list, t, W, n
  <2>1. Listed(x, W)
    OBVIOUS
  <2> QED
    BY <1>5, <2>1 DEF Takes, Listed
<1> HIDE DEF n, S, W, Op, list, t
<1>7. Loop(n, S, step)
  BY <1>2, <1>6 DEF Loop
<1>8. \A k \in 1..n : \A x \in S : step[k][x] = Op(k, x)
  OBVIOUS
<1> HIDE DEF step
<1>9. PICK g : Runs(g, n, S, <<>>, step)
  BY <1>4, <1>7, LoopRuns
<1>r. g \in [0..n -> S] /\ g[0] = <<>> /\ \A k \in 1..n : g[k] = step[k][g[k - 1]]
  BY <1>9 DEF Runs
<1>10. Eq(g)
  <2>1. ASSUME NEW k \in 0..n PROVE g[k] = IF k = 0 THEN <<>> ELSE Op(k, g[k - 1])
    <3>1. CASE k = 0
      BY <1>r, <3>1
    <3>2. CASE k # 0
      <4>1. k \in 1..n /\ k - 1 \in 0..n
        BY <1>2, <3>2
      <4>2. g[k] = step[k][g[k - 1]] /\ g[k - 1] \in S
        BY <1>r, <4>1
      <4>3. g[k] = Op(k, g[k - 1])
        BY <1>8, <4>1, <4>2
      <4> QED
        BY <3>2, <4>3
    <3> QED
      BY <3>1, <3>2
  <2> QED
    BY <1>r, <2>1
<1>11. Eq(words)
  <2> HIDE DEF Eq
  <2> QED
    BY <1>10
<1> HIDE DEF words
<1>12. words[0] = <<>> /\ \A k \in 1..n : words[k] = Op(k, words[k - 1])
  BY <1>2, <1>11
<1> DEFINE T == {k \in 0..n : TermsTaken(words[k], q, k, W)}
<1>13. 0 \in T
  BY <1>2, <1>4, <1>12 DEF TermsTaken, S
<1>14. ASSUME NEW k \in 1..n, k - 1 \in T PROVE k \in T
  <2> DEFINE x == words[k - 1]
             y == words[k]
  <2>1. TermsTaken(x, q, k - 1, W) /\ k \in 0..n
    BY <1>2, <1>14
  <2>2. y = Op(k, x)
    BY <1>12
  <2> HIDE DEF x, y
  <2>3. /\ Takes(y, x, list(k), t(k), Strictly(t(k)), W)
        /\ Range(list(k)) \cap W = Straight(q, t(k)) \cap W
    BY <1>5, <2>1, <2>2 DEF TermsTaken
  <2>4. Listed(y, W) /\ Range(x) \subseteq Range(y) /\ Listed(x, W)
        /\ Straight(q, t(k)) \cap W \subseteq Used(y)
    BY <2>1, <2>3 DEF Takes, TermsTaken
  <2>5. /\ \A i \in 1..k : i \in 1..(k - 1) \/ i = k
        /\ \A i \in 1..(k - 1) : i \in 1..k
        /\ k \in 1..k
    BY <1>2
  <2>6. Used(x) \subseteq Used(y)
    BY <2>4, UsedIs DEF Listed
  <2>7. ASSUME NEW i \in 1..k PROVE Straight(q, q.terms[i]) \cap W \subseteq Used(y)
    BY <2>1, <2>4, <2>5, <2>6 DEF TermsTaken, t
  <2>8. ASSUME NEW r \in Range(y)
        PROVE  \E i \in 1..k : /\ r.word \in Straight(q, q.terms[i]) \cap W
                               /\ r = For(r.word, q.terms[i], Strictly(q.terms[i]))
    <3>1. CASE r \in Range(x)
      BY <2>1, <2>5, <3>1 DEF TermsTaken
    <3>2. CASE r \notin Range(x)
      <4>1. PICK w \in Range(list(k)) \cap W : r = For(w, t(k), Strictly(t(k)))
        BY <2>3, <3>2 DEF Takes
      <4>2. r.word = w
        BY <4>1 DEF For
      <4> QED
        BY <2>3, <2>5, <4>1, <4>2 DEF t
    <3> QED
      BY <3>1, <3>2
  <2>9. TermsTaken(y, q, k, W)
    BY <2>4, <2>7, <2>8 DEF TermsTaken
  <2> QED
    BY <2>1, <2>9 DEF y
<1>15. n \in T
  <2>1. n \in 0..n
    BY <1>2
  <2> HIDE DEF T
  <2>2. \A k \in 0..n : k \in T
    BY <1>2, <1>13, <1>14, Rounds
  <2> QED
    BY <2>1, <2>2
<1> QED
  BY <1>1, <1>15 DEF n, W

(* Words like those of a query after them.                                 *)
SimilarTaken(all, words, n, W) ==
    /\ Listed(all, W)
    /\ Range(words) \subseteq Range(all)
    /\ \A r \in Range(all) :
          \/ r \in Range(words)
          \/ \E l \in 1..n : /\ ~Strictly(words[l])
                             /\ r.word \in Similar[words[l].word] \cap W
                             /\ r = For(r.word, words[l], FALSE)
    /\ \A l \in 1..n : ~Strictly(words[l]) => Similar[words[l].word] \cap W \subseteq Used(all)

LEMMA WithSimilarIs ==
    ASSUME NEW txt \in [Msg -> Text], NEW lex, DOMAIN lex = Worth(txt),
           NEW words, Listed(words, Worth(txt))
    PROVE  SimilarTaken(WithSimilar(words, lex), words, Len(words), Worth(txt))
<1> DEFINE n == Len(words)
           W == Worth(txt)
           S == {x \in Seq(Sought) : Listed(x, W)}
           t(k) == words[k]
           like(k) == Similar[t(k).word] \cap W
           list(k) == SetToSeq(like(k))
           Op(k, x) == IF Strictly(t(k)) THEN x ELSE Take(x, list(k), t(k), FALSE, lex)
           Eq(f) == f = [k \in 0..n |-> IF k = 0 THEN words ELSE Op(k, f[k - 1])]
           all == CHOOSE f : Eq(f)
           step == [k \in 1..n |-> [x \in S |-> Op(k, x)]]
<1>1. WithSimilar(words, lex) = all[n]
  BY DEF WithSimilar
<1>2. n \in Nat /\ DOMAIN words = 1..n /\ \A k \in 1..n : t(k) \in Sought
  BY DEF Listed
<1>3. W \subseteq Word /\ DOMAIN lex = W
  BY DEF Worth
<1>4. words \in S
  BY DEF Listed
<1>5. ASSUME NEW k \in 1..n, NEW x, Listed(x, W), ~Strictly(t(k))
      PROVE  /\ Takes(Op(k, x), x, list(k), t(k), FALSE, W)
             /\ Range(list(k)) = like(k)
  <2>1. t(k) \in Sought
    BY <1>2
  <2>2. IsFiniteSet(like(k)) /\ like(k) \subseteq W
    BY WorthFinite, FS_Subset
  <2>3. list(k) \in Seq(like(k)) /\ Range(list(k)) = like(k)
    <3> HIDE DEF like
    <3> QED
      BY <2>2, SetListed
  <2>4. t(k).sign \in Signs /\ t(k).field \in Fields
    BY <2>1 DEF Sought
  <2> HIDE DEF list, t, W, like
  <2>5. list(k) \in Seq(Word)
    BY <1>3, <2>2, <2>3
  <2>6. Op(k, x) = Take(x, list(k), t(k), FALSE, lex)
    BY <1>5
  <2>7. Takes(Take(x, list(k), t(k), FALSE, lex), x, list(k), t(k), FALSE, W)
    BY <1>3, <1>5, <2>4, <2>5, TakeIs
  <2> QED
    BY <2>3, <2>6, <2>7
<1>6. ASSUME NEW k \in 1..n, NEW x \in S PROVE Op(k, x) \in S
  <2>1. Listed(x, W)
    OBVIOUS
  <2>2. CASE Strictly(t(k))
    BY <2>2
  <2>3. CASE ~Strictly(t(k))
    <3> HIDE DEF Op, list, t, W, n
    <3> QED
      BY <1>5, <2>1, <2>3 DEF Takes, Listed
  <2> QED
    BY <2>2, <2>3
<1>7. \A k : \A x : Strictly(t(k)) => Op(k, x) = x
  OBVIOUS
<1> HIDE DEF n, S, W, Op, list, t, like
<1>8. Loop(n, S, step)
  BY <1>2, <1>6 DEF Loop
<1>9. \A k \in 1..n : \A x \in S : step[k][x] = Op(k, x)
  OBVIOUS
<1> HIDE DEF step
<1>10. PICK g : Runs(g, n, S, words, step)
  BY <1>4, <1>8, LoopRuns
<1>r. g \in [0..n -> S] /\ g[0] = words /\ \A k \in 1..n : g[k] = step[k][g[k - 1]]
  BY <1>10 DEF Runs
<1>11. Eq(g)
  <2>1. ASSUME NEW k \in 0..n PROVE g[k] = IF k = 0 THEN words ELSE Op(k, g[k - 1])
    <3>1. CASE k = 0
      BY <1>r, <3>1
    <3>2. CASE k # 0
      <4>1. k \in 1..n /\ k - 1 \in 0..n
        BY <1>2, <3>2
      <4>2. g[k] = step[k][g[k - 1]] /\ g[k - 1] \in S
        BY <1>r, <4>1
      <4>3. g[k] = Op(k, g[k - 1])
        BY <1>9, <4>1, <4>2
      <4> QED
        BY <3>2, <4>3
    <3> QED
      BY <3>1, <3>2
  <2> QED
    BY <1>r, <2>1
<1>12. Eq(all)
  <2> HIDE DEF Eq
  <2> QED
    BY <1>11
<1> HIDE DEF all
<1>13. all[0] = words /\ \A k \in 1..n : all[k] = Op(k, all[k - 1])
  BY <1>2, <1>12
<1> DEFINE T == {k \in 0..n : SimilarTaken(all[k], words, k, W)}
<1>14. 0 \in T
  <2>1. 0 \in 0..n /\ \A l \in 1..0 : FALSE
    BY <1>2
  <2>2. SimilarTaken(words, words, 0, W)
    BY <2>1 DEF SimilarTaken, W
  <2> QED
    BY <1>13, <2>1, <2>2
<1>15. ASSUME NEW k \in 1..n, k - 1 \in T PROVE k \in T
  <2> DEFINE x == all[k - 1]
             y == all[k]
  <2>1. SimilarTaken(x, words, k - 1, W) /\ k \in 0..n
    BY <1>2, <1>15
  <2>2. y = Op(k, x)
    BY <1>13
  <2>3. /\ \A i \in 1..k : i \in 1..(k - 1) \/ i = k
        /\ \A i \in 1..(k - 1) : i \in 1..k
        /\ k \in 1..k
    BY <1>2
  <2> HIDE DEF x, y
  <2>4. CASE Strictly(t(k))
    <3>1. y = x
      BY <1>7, <2>2, <2>4
    <3>2. SimilarTaken(y, words, k, W)
      BY <2>1, <2>3, <2>4, <3>1 DEF SimilarTaken, t
    <3> QED
      BY <2>1, <3>2 DEF y
  <2>5. CASE ~Strictly(t(k))
    <3>1. Takes(y, x, list(k), t(k), FALSE, W) /\ Range(list(k)) = like(k)
      BY <1>5, <2>1, <2>2, <2>5 DEF SimilarTaken
    <3>2. Listed(y, W) /\ Range(x) \subseteq Range(y) /\ Listed(x, W)
          /\ like(k) \cap W \subseteq Used(y) /\ Range(words) \subseteq Range(x)
      BY <2>1, <3>1 DEF Takes, SimilarTaken
    <3>3. Used(x) \subseteq Used(y)
      BY <3>2, UsedIs DEF Listed
    <3>4. ASSUME NEW l \in 1..k, ~Strictly(words[l])
          PROVE  Similar[words[l].word] \cap W \subseteq Used(y)
      BY <2>1, <2>3, <3>2, <3>3, <3>4 DEF SimilarTaken, like, t
    <3>5. ASSUME NEW r \in Range(y)
          PROVE  \/ r \in Range(words)
                 \/ \E l \in 1..k : /\ ~Strictly(words[l])
                                    /\ r.word \in Similar[words[l].word] \cap W
                                    /\ r = For(r.word, words[l], FALSE)
      <4>1. CASE r \in Range(x)
        BY <2>1, <2>3, <4>1 DEF SimilarTaken
      <4>2. CASE r \notin Range(x)
        <5>1. PICK w \in Range(list(k)) \cap W : r = For(w, t(k), FALSE)
          BY <3>1, <4>2 DEF Takes
        <5>2. r.word = w /\ w \in like(k)
          BY <3>1, <5>1 DEF For
        <5>3. ~Strictly(words[k]) /\ w \in Similar[words[k].word] \cap W /\ r = For(w, words[k], FALSE)
          BY <2>5, <5>1, <5>2 DEF t, like
        <5> QED
          BY <2>3, <5>2, <5>3
      <4> QED
        BY <4>1, <4>2
    <3>6. SimilarTaken(y, words, k, W)
      BY <3>2, <3>4, <3>5 DEF SimilarTaken
    <3> QED
      BY <2>1, <3>6 DEF y
  <2> QED
    BY <2>4, <2>5
<1>16. n \in T
  <2>1. n \in 0..n
    BY <1>2
  <2> HIDE DEF T
  <2>2. \A k \in 0..n : k \in T
    BY <1>2, <1>14, <1>15, Rounds
  <2> QED
    BY <2>1, <2>2
<1> QED
  BY <1>1, <1>16 DEF n, W

(* The words a query is looked up by, when each counts for one term.       *)
Alone(q, W) == \A i, j \in 1..Len(q.terms) :
                   i # j => Bringing(q, q.terms[i], W) \cap Bringing(q, q.terms[j], W) = {}
Stands(r, q, i, W) == /\ r.word \in Bringing(q, q.terms[i], W)
                      /\ r = For(r.word, q.terms[i], Strictly(q.terms[i]))

LEMMA ExtractedIs ==
    ASSUME NEW txt \in [Msg -> Text], NEW lex, DOMAIN lex = Worth(txt),
           NEW q, q.logic \in BOOLEAN, q.fuzzy \in BOOLEAN, q.terms \in Seq(Term),
           Alone(q, Worth(txt))
    PROVE  LET words == ExtractWords(q, lex)
           IN  /\ Listed(words, Worth(txt))
               /\ \A r : r \in Range(words) <=> \E i \in 1..Len(q.terms) : Stands(r, q, i, Worth(txt))
<1> DEFINE n == Len(q.terms)
           W == Worth(txt)
           words == TermWords(q, lex)
           all == WithSimilar(words, lex)
           m == Len(words)
           t(i) == q.terms[i]
           direct(i) == Straight(q, t(i)) \cap W
           brings(i) == Bringing(q, t(i), W)
           Is(r, i) == Stands(r, q, i, W)
<1>1. TermsTaken(words, q, n, W)
  BY TermWordsIs
<1>2. SimilarTaken(all, words, m, W)
  <2>1. Listed(words, W)
    BY <1>1 DEF TermsTaken
  <2> HIDE DEF words
  <2> QED
    BY <2>1, WithSimilarIs
<1>3. ExtractWords(q, lex) = IF q.fuzzy THEN all ELSE words
  BY DEF ExtractWords
<1> HIDE DEF words, all, m, n
<1>4. /\ Listed(words, W)
      /\ \A r \in Range(words) : \E i \in 1..n : r.word \in direct(i) /\ r = For(r.word, t(i), Strictly(t(i)))
      /\ \A i \in 1..n : direct(i) \subseteq Used(words)
  BY <1>1 DEF TermsTaken
<1>5. /\ Listed(all, W)
      /\ Range(words) \subseteq Range(all)
      /\ \A r \in Range(all) :
            \/ r \in Range(words)
            \/ \E l \in 1..m : /\ ~Strictly(words[l])
                               /\ r.word \in Similar[words[l].word] \cap W
                               /\ r = For(r.word, words[l], FALSE)
      /\ \A l \in 1..m : ~Strictly(words[l]) => Similar[words[l].word] \cap W \subseteq Used(all)
  BY <1>2 DEF SimilarTaken
<1>6. ASSUME NEW i \in 1..n
      PROVE  brings(i) = direct(i) \cup (IF Loose(q, t(i)) THEN (UNION {Similar[w] : w \in direct(i)}) \cap W ELSE {})
  BY DEF Bringing
<1>7. ASSUME NEW i \in 1..n PROVE Loose(q, t(i)) <=> q.fuzzy /\ ~Strictly(t(i))
  BY DEF Loose, Strictly
<1>8. ASSUME NEW i \in 1..n, NEW j \in 1..n, NEW w, w \in brings(i), w \in brings(j) PROVE i = j
  BY <1>8 DEF Alone, n
<1>9. ASSUME NEW r, NEW i, NEW j, NEW w, Is(r, i), i \in 1..n, j \in 1..n, r.word = w, w \in brings(j)
      PROVE  r = For(w, t(j), Strictly(t(j)))
  BY <1>8, <1>9 DEF Stands
<1>10. ASSUME NEW r \in Range(words) PROVE \E i \in 1..n : Is(r, i)
  BY <1>4, <1>6 DEF Stands
<1>11. Used(words) = {r.word : r \in Range(words)} /\ Used(all) = {r.word : r \in Range(all)}
  BY <1>4, <1>5, UsedIs DEF Listed
<1>12. DOMAIN words = 1..m /\ \A l \in 1..m : words[l] \in Range(words)
  BY <1>4 DEF Listed, Range, m
<1>13. ASSUME NEW w, NEW i, NEW s
       PROVE  /\ For(w, t(i), s).word = w /\ For(w, t(i), s).strict = s
              /\ For(w, t(i), s).sign = t(i).sign /\ For(w, t(i), s).field = t(i).field
  BY DEF For
<1>14. ASSUME NEW r, NEW i \in 1..n, r = For(r.word, t(i), Strictly(t(i)))
       PROVE  /\ Strictly(r) <=> Strictly(t(i))
              /\ \A w : For(w, r, FALSE) = For(w, t(i), FALSE)
  <2>1. PICK f : f = For(r.word, t(i), Strictly(t(i)))
    OBVIOUS
  <2>2. f.strict = Strictly(t(i)) /\ f.sign = t(i).sign /\ f.field = t(i).field
    BY <2>1 DEF For
  <2>3. r = f
    BY <1>14, <2>1
  <2>4. r.strict = Strictly(t(i)) /\ r.sign = t(i).sign /\ r.field = t(i).field
    BY <2>2, <2>3
  <2> QED
    BY <2>4 DEF Strictly, For
<1>15. CASE ~q.fuzzy
  <2>1. ExtractWords(q, lex) = words
    BY <1>3, <1>15
  <2>2. ASSUME NEW r, NEW i \in 1..n, Is(r, i) PROVE r \in Range(words)
    <3>1. r.word \in direct(i)
      BY <1>6, <1>7, <1>15, <2>2 DEF Stands
    <3>2. PICK x \in Range(words) : x.word = r.word
      BY <1>4, <1>11, <3>1
    <3>3. PICK j \in 1..n : Is(x, j)
      BY <1>10
    <3>4. x = For(r.word, t(i), Strictly(t(i)))
      BY <1>9, <2>2, <3>2, <3>3 DEF Stands
    <3>5. r = For(r.word, t(i), Strictly(t(i)))
      BY <2>2 DEF Stands
    <3> QED
      BY <3>4, <3>5
  <2> QED
    BY <1>4, <1>10, <2>1, <2>2 DEF n, W
<1>16. CASE q.fuzzy
  <2>1. ExtractWords(q, lex) = all
    BY <1>3, <1>16
  <2>2. ASSUME NEW r \in Range(all) PROVE \E i \in 1..n : Is(r, i)
    <3>1. CASE r \in Range(words)
      BY <1>10, <3>1
    <3>2. CASE r \notin Range(words)
      <4>1. PICK l \in 1..m : /\ ~Strictly(words[l])
                              /\ r.word \in Similar[words[l].word] \cap W
                              /\ r = For(r.word, words[l], FALSE)
        BY <1>5, <3>2
      <4>2. PICK i \in 1..n : words[l].word \in direct(i) /\ words[l] = For(words[l].word, t(i), Strictly(t(i)))
        BY <1>4, <1>12
      <4>3. ~Strictly(t(i)) /\ r = For(r.word, t(i), FALSE)
        BY <1>14, <4>1, <4>2
      <4>4. r.word \in brings(i)
        BY <1>6, <1>7, <1>16, <4>1, <4>2, <4>3
      <4>5. r = For(r.word, t(i), Strictly(t(i)))
        BY <4>3 DEF Strictly
      <4> QED
        BY <4>4, <4>5 DEF Stands
    <3> QED
      BY <3>1, <3>2
  <2>3. ASSUME NEW i \in 1..n, NEW w, w \in brings(i) PROVE w \in Used(all)
    <3>1. CASE w \in direct(i)
      BY <1>4, <1>5, <1>11, <3>1
    <3>2. CASE w \notin direct(i)
      <4>1. Loose(q, t(i)) /\ w \in W
        BY <1>6, <2>3, <3>2
      <4>2. PICK v \in direct(i) : w \in Similar[v]
        BY <1>6, <2>3, <3>2, <4>1
      <4>3. PICK l \in 1..m : words[l].word = v
        BY <1>4, <1>12 DEF Used
      <4>4. PICK j \in 1..n : Is(words[l], j)
        BY <1>10, <1>12
      <4>5. words[l] = For(v, t(i), Strictly(t(i)))
        <5>1. v \in brings(i)
          BY <1>6, <4>2
        <5>2. words[l].word = v /\ Is(words[l], j)
          BY <4>3, <4>4
        <5> HIDE DEF brings, Is
        <5> QED
          BY <1>9, <5>1, <5>2
      <4>6. ~Strictly(words[l])
        BY <1>7, <1>14, <4>1, <4>3, <4>5
      <4> QED
        BY <1>5, <4>1, <4>2, <4>3, <4>6
    <3> QED
      BY <3>1, <3>2
  <2>4. ASSUME NEW r, NEW i \in 1..n, Is(r, i) PROVE r \in Range(all)
    <3>1. r.word \in brings(i) /\ r = For(r.word, t(i), Strictly(t(i)))
      BY <2>4 DEF Stands
    <3>2. PICK x \in Range(all) : x.word = r.word
      BY <1>11, <2>3, <3>1
    <3>3. PICK j \in 1..n : Is(x, j)
      BY <2>2
    <3>4. x = For(r.word, t(i), Strictly(t(i)))
      BY <1>9, <3>1, <3>2, <3>3
    <3> QED
      BY <3>1, <3>4
  <2> QED
    BY <1>5, <2>1, <2>2, <2>4 DEF n, W
<1> QED
  BY <1>15, <1>16

(* What the words of a query ask for.                                      *)
Answers(p, words, wdata, all) ==
    /\ DOMAIN words # {}
    /\ IF all THEN \A k \in DOMAIN words : p \in Posts(wdata[k])
       ELSE /\ \E k \in DOMAIN words : words[k].sign # "cant" /\ p \in Posts(wdata[k])
            /\ \A k \in DOMAIN words : words[k].sign = "must" => p \in Posts(wdata[k])
            /\ \A k \in DOMAIN words : words[k].sign = "cant" => p \notin Posts(wdata[k])

Looked(words, wdata, n) ==
    /\ n \in Nat /\ DOMAIN words = 1..n /\ DOMAIN wdata = 1..n /\ Len(words) = n /\ Len(wdata) = n
    /\ \A k \in 1..n : /\ Climbs(wdata[k]) /\ Posts(wdata[k]) \in SUBSET Msg
                       /\ words[k].sign \in Signs

LEMMA AllWordsIs ==
    ASSUME NEW words, NEW wdata, NEW n, Looked(words, wdata, n), n # 0
    PROVE  GetAllWordResult(wdata) = {p \in Msg : Answers(p, words, wdata, TRUE)}
<1>1. n \in Nat /\ DOMAIN words = 1..n /\ Len(wdata) = n
      /\ \A k \in 1..n : Climbs(wdata[k]) /\ Posts(wdata[k]) \in SUBSET Msg
  BY DEF Looked
<1>2. 1 \in 1..n /\ (\A k \in 1..n : k = 1 \/ k \in 2..n) /\ \A k \in 2..n : k \in 1..n
  BY <1>1
<1>3. \A p \in Msg : p \in Int
  BY DEF Msg
<1>4. \A k \in 1..n : \A p \in Msg : Holds(wdata[k], p) <=> p \in Posts(wdata[k])
  BY <1>1, <1>3, HoldsIs
<1>5. GetAllWordResult(wdata) = {p \in Posts(wdata[1]) : \A k \in 2..n : Holds(wdata[k], p)}
  BY <1>1 DEF GetAllWordResult
<1>6. \A p \in Msg : Answers(p, words, wdata, TRUE) <=> \A k \in 1..n : p \in Posts(wdata[k])
  BY <1>1, <1>2 DEF Answers
<1>7. Posts(wdata[1]) \in SUBSET Msg
  BY <1>1, <1>2
<1> QED
  BY <1>2, <1>4, <1>5, <1>6, <1>7

LEMMA IncludeIs ==
    ASSUME NEW words, NEW wdata, NEW n, Looked(words, wdata, n), n # 0
    PROVE  Include(words, wdata) = {p \in Msg : Answers(p, words, wdata, FALSE)}
<1> DEFINE K == 1..n
           P(k) == Posts(wdata[k])
           must == {k \in K : words[k].sign = "must"}
           cant == {k \in K : words[k].sign = "cant"}
           found(S) == UNION {P(k) : k \in S}
           first == CHOOSE k \in must : \A l \in must : k <= l
           include == IF must = {} THEN found(K \ cant)
                      ELSE {p \in P(first) : \A k \in must \ {first} : Holds(wdata[k], p)}
           A(p) == Answers(p, words, wdata, FALSE)
<1>1. /\ n \in Nat /\ DOMAIN words = K
      /\ \A k \in K : Climbs(wdata[k]) /\ P(k) \in SUBSET Msg
  BY DEF Looked
<1>2. Include(words, wdata) = include \ found(cant)
  BY <1>1 DEF Include
<1>3. \A p \in Msg : p \in Int
  BY DEF Msg
<1>4. \A k \in K : \A p \in Msg : Holds(wdata[k], p) <=> p \in P(k)
  BY <1>1, <1>3, HoldsIs
<1>5. 1 \in K
  BY <1>1
<1>6. \A p \in Msg : A(p) <=> /\ \E k \in K : words[k].sign # "cant" /\ p \in P(k)
                              /\ \A k \in must : p \in P(k)
                              /\ \A k \in cant : p \notin P(k)
  BY <1>1, <1>5 DEF Answers
<1>7. must # {} => first \in must
  <2> SUFFICES ASSUME must # {} PROVE first \in must
    OBVIOUS
  <2>1. must \in SUBSET Nat
    BY <1>1
  <2>2. PICK k \in must : \A l \in must : ~(l < k)
    <3> HIDE DEF must
    <3> QED
      BY <2>1, LeastNumber
  <2>3. \A l \in must : k <= l
    BY <2>1, <2>2
  <2> QED
    BY <2>3
<1>8. must \in SUBSET K /\ cant \in SUBSET K /\ \A k \in must : words[k].sign # "cant"
  OBVIOUS
<1>9. \A k \in K : k \in K \ cant <=> words[k].sign # "cant"
  OBVIOUS
<1> HIDE DEF must, cant, first, P, K, A
<1>10. \A S, p : p \in found(S) <=> \E k \in S : p \in P(k)
  OBVIOUS
<1> HIDE DEF found
<1>11. ASSUME NEW p \in Msg PROVE p \in include \ found(cant) <=> A(p)
  <2>1. CASE must = {}
    BY <1>6, <1>8, <1>9, <1>10, <2>1
  <2>2. CASE must # {}
    BY <1>4, <1>6, <1>7, <1>8, <1>10, <2>2
  <2> QED
    BY <2>1, <2>2
<1>12. include \in SUBSET Msg
  <2>1. CASE must = {}
    BY <1>1, <1>10, <2>1
  <2>2. CASE must # {}
    BY <1>1, <1>7, <1>8, <2>2
  <2> QED
    BY <2>1, <2>2
<1> HIDE DEF include
<1>13. Include(words, wdata) = {p \in Msg : A(p)}
  BY <1>2, <1>11, <1>12
<1> QED
  BY <1>13 DEF A

LEMMA FullResultIs ==
    ASSUME NEW words, NEW wdata, NEW n, Looked(words, wdata, n), n # 0, n <= MaxWords,
           NEW logic \in BOOLEAN, ~logic => \A k \in 1..n : words[k].sign = "none"
    PROVE  GetFullResult(words, wdata, logic) = {p \in Msg : Answers(p, words, wdata, FALSE)}
<1> DEFINE K == 1..n
           P(k) == Posts(wdata[k])
           found == UNION {P(k) : k \in K}
           checked == logic /\ \E k \in K : words[k].sign # "none"
           A(p) == Answers(p, words, wdata, FALSE)
<1>1. /\ n \in Nat /\ DOMAIN words = K /\ Len(words) = n
      /\ \A k \in K : P(k) \in SUBSET Msg
  BY DEF Looked
<1>2. AtMost(MaxWords, n) = n
  BY <1>1, SearchAssumption DEF AtMost
<1>3. GetFullResult(words, wdata, logic) = IF checked THEN found \cap Include(words, wdata) ELSE found
  BY <1>1, <1>2 DEF GetFullResult
<1>4. Include(words, wdata) = {p \in Msg : A(p)}
  BY IncludeIs
<1>5. 1 \in K
  BY <1>1
<1>6. \A p \in Msg : A(p) <=> /\ \E k \in K : words[k].sign # "cant" /\ p \in P(k)
                              /\ \A k \in K : words[k].sign = "must" => p \in P(k)
                              /\ \A k \in K : words[k].sign = "cant" => p \notin P(k)
  BY <1>1, <1>5 DEF Answers
<1>7. found \in SUBSET Msg /\ \A p \in Msg : p \in found <=> \E k \in K : p \in P(k)
  BY <1>1
<1> HIDE DEF found, A, P, K
<1>8. CASE checked
  <2>1. \A p \in Msg : A(p) => p \in found
    BY <1>6, <1>7
  <2>2. found \cap Include(words, wdata) = {p \in Msg : A(p)}
    BY <1>4, <2>1
  <2> QED
    BY <1>3, <1>8, <2>2 DEF A
<1>9. CASE ~checked
  <2>1. \A k \in K : words[k].sign = "none"
    BY <1>9 DEF K
  <2>2. \A p \in Msg : A(p) <=> p \in found
    BY <1>6, <1>7, <2>1
  <2>3. found = {p \in Msg : A(p)}
    BY <1>7, <2>2
  <2> QED
    BY <1>3, <1>9, <2>3 DEF A
<1> QED
  BY <1>8, <1>9

LEMMA FixedUp ==
    ASSUME NEW query \in Query
    PROVE  LET q == FixupFlags(query)
           IN  /\ q.terms \in Seq(Term) /\ q.logic \in BOOLEAN /\ q.fuzzy \in BOOLEAN /\ q.all \in BOOLEAN
               /\ q.all => ~q.logic /\ ~q.fuzzy
<1> DEFINE q == FixupFlags(query)
           fuzzy == query.fuzzy /\ query.lexdist
           all == query.all /\ ~fuzzy
<1>1. query = [terms |-> query.terms, logic |-> query.logic, fuzzy |-> query.fuzzy,
               all |-> query.all, lexdist |-> query.lexdist, filter |-> query.filter]
      /\ query.terms \in Seq(Term) /\ query.logic \in BOOLEAN /\ query.fuzzy \in BOOLEAN
      /\ query.all \in BOOLEAN /\ query.lexdist \in BOOLEAN
  BY DEF Query
<1>2. q.terms = query.terms /\ q.logic = (query.logic /\ ~all) /\ q.fuzzy = fuzzy /\ q.all = all
  BY <1>1 DEF FixupFlags
<1> HIDE DEF q
<1>3. q.terms \in Seq(Term) /\ q.logic \in BOOLEAN /\ q.fuzzy \in BOOLEAN /\ q.all \in BOOLEAN
  BY <1>1, <1>2
<1>4. q.all => ~q.logic /\ ~q.fuzzy
  BY <1>2
<1> QED
  BY <1>3, <1>4 DEF q

(* A term brings one word at most when its sign says more of a message     *)
(* than that it has one of many words.                                     *)
LEMMA OneWord ==
    ASSUME NEW q, q.all => ~q.logic /\ ~q.fuzzy, NEW t, NEW W
    PROVE  /\ t.sign # "none" \/ q.all => Bringing(q, t, W) \subseteq {t.word}
           /\ ~q.logic /\ t.sign # "none" => Bringing(q, t, W) = {}
<1>1. Plain(t) => ~t.star /\ t.sign = "none"
  BY DEF Plain
<1>2. ASSUME t.sign # "none" \/ q.all PROVE ~Loose(q, t) /\ Straight(q, t) \subseteq {t.word}
  <2>1. ~Loose(q, t)
    BY <1>2 DEF Loose
  <2>2. CASE t.sign # "none"
    BY <2>1, <2>2 DEF Straight
  <2>3. CASE t.sign = "none"
    BY <1>1, <1>2, <2>1, <2>3 DEF Straight
  <2> QED
    BY <2>1, <2>2, <2>3
<1>3. ASSUME ~q.logic, t.sign # "none" PROVE ~Loose(q, t) /\ Straight(q, t) = {}
  BY <1>1, <1>3 DEF Straight, Loose
<1>4. ASSUME ~Loose(q, t) PROVE Bringing(q, t, W) = Straight(q, t) \cap W
  BY <1>4 DEF Bringing
<1> QED
  BY <1>2, <1>3, <1>4

(* What Search makes of a query in an index that is right.                 *)
WordsOf(query, lex) == ExtractWords(FixupFlags(query), lex)
PostsOf(query, lex) == GetPostsForWords(WordsOf(query, lex), FixupFlags(query).filter, lex)

Served(txt, lex, old, query) ==
    LET q == FixupFlags(query)
        words == WordsOf(query, lex)
        wdata == PostsOf(query, lex)
        W == Worth(txt)
    IN  /\ words \in Seq(Sought)
        /\ \A k, l \in 1..Len(words) : words[k].word = words[l].word => k = l
        /\ \A k \in 1..Len(words) : \E i \in 1..Len(q.terms) : Stands(words[k], q, i, W)
        /\ \A i \in 1..Len(q.terms) : \A w \in Bringing(q, q.terms[i], W) :
              \E k \in 1..Len(words) : words[k].word = w /\ Stands(words[k], q, i, W)
        /\ Looked(words, wdata, Len(words))
        /\ \A k \in 1..Len(words) : \A p \in Msg :
              p \in Posts(wdata[k]) <=> Met(txt, old[p], words[k].word, q.filter, words[k].field)

LEMMA ServedIs ==
    ASSUME NEW txt, NEW lex, NEW old, NEW total, Ready(txt, lex, old, total),
           NEW query \in Query, Alone(FixupFlags(query), Worth(txt))
    PROVE  Served(txt, lex, old, query)
<1> DEFINE q == FixupFlags(query)
           words == WordsOf(query, lex)
           wdata == PostsOf(query, lex)
           W == Worth(txt)
           n == Len(words)
           m == Len(q.terms)
<1>1. /\ q.terms \in Seq(Term) /\ q.logic \in BOOLEAN /\ q.fuzzy \in BOOLEAN
  BY FixedUp
<1>2. txt \in [Msg -> Text] /\ DOMAIN lex = W
  BY DEF Ready, LexRight
<1>3. /\ Listed(words, W)
      /\ \A r : r \in Range(words) <=> \E i \in 1..m : Stands(r, q, i, W)
  <2> HIDE DEF q
  <2> QED
    BY <1>1, <1>2, ExtractedIs DEF WordsOf, q
<1>4. wdata = GetPostsForWords(words, q.filter, lex)
  BY DEF PostsOf
<1> HIDE DEF q, words, wdata
<1>5. /\ words \in Seq(Sought) /\ n \in Nat /\ DOMAIN words = 1..n
      /\ \A k \in 1..n : words[k] \in Sought /\ words[k] \in Range(words) /\ words[k].word \in W
      /\ \A k, l \in 1..n : words[k].word = words[l].word => k = l
  BY <1>3 DEF Listed, Used, Range
<1>6. ASSUME NEW k \in 1..n
      PROVE  /\ Climbs(wdata[k]) /\ Posts(wdata[k]) \in SUBSET Msg
             /\ \A p \in Msg : p \in Posts(wdata[k]) <=> Met(txt, old[p], words[k].word, q.filter, words[k].field)
  <2>1. k \in DOMAIN words /\ words[k].word \in Worth(txt)
    BY <1>5
  <2> QED
    BY <1>4, <2>1, PostsMet
<1>7. DOMAIN wdata = 1..n /\ Len(wdata) = n
  <2>1. DOMAIN wdata = 1..n
    BY <1>4, <1>5 DEF GetPostsForWords
  <2>2. wdata \in [1..n -> {wdata[k] : k \in 1..n}]
    BY <1>4, <1>5, <2>1 DEF GetPostsForWords
  <2>3. wdata \in Seq({wdata[k] : k \in 1..n})
    BY <1>5, <2>2
  <2> QED
    BY <1>5, <2>1, <2>3
<1>8. Looked(words, wdata, n)
  <2>1. \A k \in 1..n : words[k].sign \in Signs
    BY <1>5 DEF Sought
  <2> QED
    BY <1>5, <1>6, <1>7, <2>1 DEF Looked
<1>9. ASSUME NEW i \in 1..m, NEW w \in Bringing(q, q.terms[i], W)
      PROVE  \E k \in 1..n : words[k].word = w /\ Stands(words[k], q, i, W)
  <2> DEFINE r == For(w, q.terms[i], Strictly(q.terms[i]))
  <2>1. r.word = w
    BY DEF For
  <2> HIDE DEF r
  <2>2. Stands(r, q, i, W)
    BY <2>1 DEF Stands, r
  <2>3. r \in Range(words)
    BY <1>3, <2>2
  <2>4. PICK k \in 1..n : words[k] = r
    BY <1>5, <2>3 DEF Range
  <2> QED
    BY <2>1, <2>2, <2>4
<1>10. \A k \in 1..n : \E i \in 1..m : Stands(words[k], q, i, W)
  BY <1>3, <1>5
<1> QED
  BY <1>5, <1>6, <1>8, <1>9, <1>10 DEF Served, q, words, wdata, W, n, m

LEMMA SearchIs ==
    ASSUME NEW txt, NEW lex, NEW old, NEW query \in Query, Served(txt, lex, old, query),
           Len(WordsOf(query, lex)) <= MaxWords
    PROVE  Search(query, lex) =
               {p \in Msg : Answers(p, WordsOf(query, lex), PostsOf(query, lex), FixupFlags(query).all)}
<1> DEFINE q == FixupFlags(query)
           words == WordsOf(query, lex)
           wdata == PostsOf(query, lex)
           n == Len(words)
           m == Len(q.terms)
           W == Worth(txt)
<1>1. q.logic \in BOOLEAN /\ q.all \in BOOLEAN /\ (q.all => ~q.logic /\ ~q.fuzzy)
  BY FixedUp
<1>2. Search(query, lex) =
         CASE words = <<>> -> {}
           [] Len(words) = 1 /\ words[1].sign = "cant" -> {}
           [] Len(words) = 1 /\ words[1].sign # "cant" -> Posts(wdata[1])
           [] Len(words) > 1 /\ q.all  -> GetAllWordResult(wdata)
           [] Len(words) > 1 /\ ~q.all -> GetFullResult(words, wdata, q.logic)
  BY DEF Search, WordsOf, PostsOf
<1>3. /\ Looked(words, wdata, n) /\ words \in Seq(Sought)
      /\ \A k \in 1..n : \E i \in 1..m : Stands(words[k], q, i, W)
  BY DEF Served
<1> HIDE DEF q, words, wdata, m, W
<1>4. /\ n \in Nat /\ DOMAIN words = 1..n
      /\ \A k \in 1..n : Posts(wdata[k]) \in SUBSET Msg /\ words[k].sign \in Signs
  BY <1>3 DEF Looked
<1>5. ASSUME ~q.logic, NEW k \in 1..n PROVE words[k].sign = "none"
  <2>1. PICK i \in 1..m : Stands(words[k], q, i, W)
    BY <1>3
  <2>2. Bringing(q, q.terms[i], W) # {} /\ words[k].sign = q.terms[i].sign
    BY <2>1 DEF Stands, For
  <2> QED
    BY <1>1, <1>5, <2>2, OneWord
<1>6. CASE n = 0
  <2>1. words = <<>> /\ Search(query, lex) = {}
    BY <1>2, <1>3, <1>6
  <2>2. DOMAIN words = {}
    BY <1>4, <1>6
  <2> QED
    BY <2>1, <2>2 DEF Answers, q, words, wdata
<1>7. CASE n = 1
  <2>1. words # <<>> /\ DOMAIN words = {1} /\ 1 \in 1..n
    <3>1. Len(words) = 1 /\ DOMAIN words = 1..1
      BY <1>4, <1>7
    <3>2. words # <<>>
      <4>1. Len(<<>>) = 0
        OBVIOUS
      <4> QED
        BY <3>1, <4>1
    <3>3. 1..1 = {1}
      OBVIOUS
    <3> QED
      BY <1>7, <3>1, <3>2, <3>3
  <2>2. words[1].sign \in Signs /\ Posts(wdata[1]) \in SUBSET Msg
    BY <1>4, <2>1
  <2>3. CASE words[1].sign = "cant"
    <3>1. Search(query, lex) = {}
      BY <1>2, <1>7, <2>1, <2>3
    <3>2. ~q.all
      BY <1>1, <1>5, <2>1, <2>3
    <3>3. \A p : ~Answers(p, words, wdata, q.all)
      BY <2>1, <2>3, <3>2 DEF Answers
    <3> QED
      BY <3>1, <3>3 DEF q, words, wdata
  <2>4. CASE words[1].sign # "cant"
    <3>1. Search(query, lex) = Posts(wdata[1])
      BY <1>2, <1>7, <2>1, <2>4
    <3>2. \A p : Answers(p, words, wdata, q.all) <=> p \in Posts(wdata[1])
      BY <2>1, <2>2, <2>4 DEF Answers
    <3> QED
      BY <2>2, <3>1, <3>2 DEF q, words, wdata
  <2> QED
    BY <2>3, <2>4
<1>8. CASE n > 1
  <2>1. words # <<>> /\ n # 0 /\ n # 1
    BY <1>4, <1>8
  <2>2. CASE q.all
    <3>1. Search(query, lex) = GetAllWordResult(wdata)
      BY <1>2, <1>8, <2>1, <2>2
    <3> QED
      BY <1>3, <2>1, <2>2, <3>1, AllWordsIs DEF q, words, wdata
  <2>3. CASE ~q.all
    <3>1. Search(query, lex) = GetFullResult(words, wdata, q.logic)
      BY <1>2, <1>8, <2>1, <2>3
    <3>2. n <= MaxWords
      BY DEF words
    <3>3. GetFullResult(words, wdata, q.logic) = {p \in Msg : Answers(p, words, wdata, FALSE)}
      BY <1>1, <1>3, <1>5, <2>1, <3>2, FullResultIs
    <3>4. q.all = FALSE
      BY <1>1, <2>3
    <3> QED
      BY <3>1, <3>3, <3>4 DEF q, words, wdata
  <2> QED
    BY <2>2, <2>3
<1> QED
  BY <1>4, <1>6, <1>7, <1>8

(* When every required term brings a word of the lexicon, the terms that   *)
(* bring none ask for nothing.                                             *)
AllKnown(q) == \A u \in Required(q) : Brings(q, u) # {}

LEMMA AskedOfKnown ==
    ASSUME NEW query, LET q == FixupFlags(query)
                      IN  /\ q.terms \in Seq(Term)
                          /\ q.all => ~q.logic /\ ~q.fuzzy
                          /\ AllKnown(q)
    PROVE  LET q     == FixupFlags(query)
               terms == {u \in Range(q.terms) : Brings(q, u) # {}}
           IN  Asked(query) =
                 IF terms = {} THEN {}
                 ELSE IF q.all THEN {x \in Msg : \A u \in terms : Matches(q, u, x)}
                 ELSE {x \in Msg : /\ \E u \in terms : u.sign # "cant" /\ Matches(q, u, x)
                                   /\ \A u \in terms : u.sign = "must" => Matches(q, u, x)
                                   /\ \A u \in terms : u.sign = "cant" => ~Matches(q, u, x)}
<1> DEFINE q == FixupFlags(query)
           terms == {u \in Range(q.terms) : Brings(q, u) # {}}
           M(u, x) == Matches(q, u, x)
<1>1. \A u, x : M(u, x) => Brings(q, u) # {}
  BY DEF Matches
<1>2. \A u : Brings(q, u) # {} /\ ~q.logic => u.sign = "none"
  BY DEF Brings, Plain
<1>3. Required(q) = {u \in Range(q.terms) : q.all \/ (q.logic /\ u.sign = "must")}
  BY DEF Required
<1>4. \A u \in Required(q) : u \in terms
  BY <1>3 DEF AllKnown
<1>5. \A x : x \in Asked(query) <=>
                 /\ x \in Msg
                 /\ \E u \in Range(q.terms) : u.sign # "cant" /\ M(u, x)
                 /\ \A u \in Required(q) : M(u, x)
                 /\ \A u \in Range(q.terms) : u.sign = "cant" => ~M(u, x)
  BY DEF Asked
<1>6. q.all => ~q.logic
  OBVIOUS
<1>7. terms \subseteq Range(q.terms) /\ \A u \in Range(q.terms) : Brings(q, u) # {} => u \in terms
  OBVIOUS
<1>8. \A u \in terms : Brings(q, u) # {}
  OBVIOUS
<1> HIDE DEF M, terms, q
<1> DEFINE Some(x) == \E u \in terms : u.sign # "cant" /\ M(u, x)
           None(x) == \A u \in terms : u.sign = "cant" => ~M(u, x)
           Must(x) == \A u \in terms : u.sign = "must" => M(u, x)
           Each(x) == \A u \in terms : M(u, x)
           Due(x)  == \A u \in Required(q) : M(u, x)
<1>9. ASSUME NEW x
      PROVE  x \in Asked(query) <=> x \in Msg /\ Some(x) /\ Due(x) /\ None(x)
  <2>1. (\E u \in Range(q.terms) : u.sign # "cant" /\ M(u, x)) <=> Some(x)
    BY <1>1, <1>7
  <2>2. (\A u \in Range(q.terms) : u.sign = "cant" => ~M(u, x)) <=> None(x)
    BY <1>1, <1>7
  <2>3. (\A u \in Required(q) : M(u, x)) <=> Due(x)
    OBVIOUS
  <2> HIDE DEF Some, None, Due
  <2> QED
    BY <1>5, <2>1, <2>2, <2>3
<1>10. CASE q.all
  <2>1. Required(q) = terms /\ \A u \in terms : u.sign = "none"
    BY <1>2, <1>3, <1>4, <1>6, <1>7, <1>8, <1>10
  <2>2. \A x : Some(x) /\ Due(x) /\ None(x) <=> terms # {} /\ Each(x)
    BY <2>1
  <2>3. Asked(query) = IF terms = {} THEN {} ELSE {x \in Msg : Each(x)}
    <3> HIDE DEF Some, None, Due, Each
    <3> QED
      BY <1>9, <2>2
  <2> QED
    BY <1>10, <2>3 DEF M, terms, q
<1>11. CASE ~q.all
  <2>1. \A u \in terms : u \in Required(q) <=> u.sign = "must"
    BY <1>2, <1>3, <1>7, <1>8, <1>11
  <2>2. \A x : Due(x) <=> Must(x)
    BY <1>4, <2>1
  <2>3. \A x : Some(x) => terms # {}
    OBVIOUS
  <2>4. Asked(query) = IF terms = {} THEN {} ELSE {x \in Msg : Some(x) /\ Must(x) /\ None(x)}
    <3> HIDE DEF Some, None, Due, Must
    <3> QED
      BY <1>9, <2>2, <2>3
  <2> QED
    BY <1>11, <2>4 DEF M, terms, q
<1> QED
  BY <1>10, <1>11

(* A query asks of a message what its words do.                            *)
LEMMA AskedIs ==
    ASSUME NEW lex, NEW old, NEW query \in Query, text \in [Msg -> Text],
           Served(text, lex, old, query), NEW p \in Msg, old[p] \in Msg,
           AllKnown(FixupFlags(query))
    PROVE  old[p] \in Asked(query) <=>
              Answers(p, WordsOf(query, lex), PostsOf(query, lex), FixupFlags(query).all)
<1> DEFINE q == FixupFlags(query)
           words == WordsOf(query, lex)
           wdata == PostsOf(query, lex)
           n == Len(words)
           m == Len(q.terms)
           W == Worth(text)
           t(i) == q.terms[i]
           terms == {u \in Range(q.terms) : Brings(q, u) # {}}
           St(k, i) == Stands(words[k], q, i, W)
           In(k) == p \in Posts(wdata[k])
           M(u) == Matches(q, u, old[p])
<1>1. /\ q.terms \in Seq(Term) /\ q.all \in BOOLEAN /\ (q.all => ~q.logic /\ ~q.fuzzy)
  BY FixedUp
<1>2. m \in Nat /\ DOMAIN q.terms = 1..m /\ \A i \in 1..m : t(i) \in Term
  BY <1>1
<1>3. /\ DOMAIN words = 1..n
      /\ \A k, l \in 1..n : words[k].word = words[l].word => k = l
      /\ \A k \in 1..n : \E i \in 1..m : St(k, i)
      /\ \A i \in 1..m : \A w \in Bringing(q, t(i), W) : \E k \in 1..n : words[k].word = w /\ St(k, i)
      /\ \A k \in 1..n : In(k) <=> Met(text, old[p], words[k].word, q.filter, words[k].field)
  BY DEF Served, Looked
<1>4. \A i \in 1..m : Brings(q, t(i)) = Bringing(q, t(i), W)
  <2>1. ASSUME NEW i \in 1..m PROVE Brings(q, t(i)) = Bringing(q, t(i), W)
    <3>1. t(i) \in Term
      BY <1>2
    <3> HIDE DEF t, q
    <3> QED
      BY <3>1, BringsIs
  <2> QED
    BY <2>1
<1>5. \A i, k : St(k, i) => /\ words[k].word \in Bringing(q, t(i), W)
                            /\ words[k].sign = t(i).sign /\ words[k].field = t(i).field
  BY DEF Stands, For
<1>6. \A w : Occurrences(old[p], w) = Heard(text, old[p], w)
  BY HeardIs
<1>7. Asked(query) =
        IF terms = {} THEN {}
        ELSE IF q.all THEN {x \in Msg : \A u \in terms : Matches(q, u, x)}
        ELSE {x \in Msg : /\ \E u \in terms : u.sign # "cant" /\ Matches(q, u, x)
                          /\ \A u \in terms : u.sign = "must" => Matches(q, u, x)
                          /\ \A u \in terms : u.sign = "cant" => ~Matches(q, u, x)}
  BY <1>1, AskedOfKnown DEF q, terms
<1> HIDE DEF q, words, wdata, n, m, W, St, In
<1>8. \A i \in 1..m : M(t(i)) <=> \E w \in Bringing(q, t(i), W) : Met(text, old[p], w, q.filter, t(i).field)
  BY <1>4, <1>6 DEF Matches, Met
<1>9. \A i \in 1..m : M(t(i)) <=> \E k \in 1..n : St(k, i) /\ In(k)
  <2>1. ASSUME NEW i \in 1..m, NEW k \in 1..n, St(k, i), In(k) PROVE M(t(i))
    <3>1. Met(text, old[p], words[k].word, q.filter, t(i).field)
      BY <1>3, <1>5, <2>1
    <3> HIDE DEF M
    <3> QED
      BY <1>5, <1>8, <2>1, <3>1
  <2>2. ASSUME NEW i \in 1..m, M(t(i)) PROVE \E k \in 1..n : St(k, i) /\ In(k)
    <3>1. PICK w \in Bringing(q, t(i), W) : Met(text, old[p], w, q.filter, t(i).field)
      BY <1>8, <2>2
    <3>2. PICK k \in 1..n : words[k].word = w /\ St(k, i)
      BY <1>3
    <3>3. In(k)
      BY <1>3, <1>5, <3>1, <3>2
    <3> QED
      BY <3>2, <3>3
  <2> HIDE DEF M
  <2> QED
    BY <2>1, <2>2
<1>10. ASSUME NEW i \in 1..m, t(i).sign # "none" \/ q.all,
              NEW k \in 1..n, NEW l \in 1..n, St(k, i), St(l, i)
       PROVE  k = l
  <2>1. Bringing(q, t(i), W) \subseteq {t(i).word}
    BY <1>1, <1>10, OneWord
  <2> QED
    BY <1>3, <1>5, <1>10, <2>1
<1>11. ASSUME NEW u PROVE u \in terms <=> \E i \in 1..m : u = t(i) /\ \E k \in 1..n : St(k, i)
  <2>1. u \in Range(q.terms) <=> \E i \in 1..m : u = t(i)
    BY <1>2 DEF Range
  <2>2. ASSUME NEW i \in 1..m PROVE Brings(q, t(i)) # {} <=> \E k \in 1..n : St(k, i)
    <3>1. ASSUME NEW k \in 1..n, St(k, i) PROVE Brings(q, t(i)) # {}
      BY <1>4, <1>5, <3>1
    <3>2. ASSUME NEW w \in Bringing(q, t(i), W) PROVE \E k \in 1..n : St(k, i)
      BY <1>3
    <3>3. Brings(q, t(i)) = Bringing(q, t(i), W)
      BY <1>4
    <3> QED
      BY <3>1, <3>2, <3>3
  <2> QED
    BY <2>1, <2>2
<1> HIDE DEF M, terms
<1>12. ASSUME NEW i \in 1..m, NEW k \in 1..n, St(k, i)
       PROVE  t(i) \in terms /\ words[k].sign = t(i).sign
  BY <1>5, <1>11, <1>12
<1>13. terms = {} <=> 1..n = {}
  BY <1>3, <1>11
<1>14. ASSUME NEW i \in 1..m, NEW k \in 1..n, St(k, i), t(i).sign # "none" \/ q.all
       PROVE  M(t(i)) <=> In(k)
  BY <1>9, <1>10, <1>14
<1>15. ASSUME NEW u \in terms PROVE \E i \in 1..m : u = t(i) /\ \E k \in 1..n : St(k, i)
  BY <1>11
<1>16. CASE terms = {}
  BY <1>3, <1>7, <1>13, <1>16 DEF Answers, q, words, wdata
<1>17. CASE terms # {} /\ q.all
  <2>1. old[p] \in Asked(query) <=> \A u \in terms : M(u)
    BY <1>7, <1>17 DEF M
  <2>2. Answers(p, words, wdata, q.all) <=> \A k \in 1..n : In(k)
    BY <1>3, <1>13, <1>17 DEF Answers, In
  <2>3. ASSUME \A u \in terms : M(u), NEW k \in 1..n PROVE In(k)
    BY <1>3, <1>12, <1>14, <1>17, <2>3
  <2>4. ASSUME \A k \in 1..n : In(k), NEW u \in terms PROVE M(u)
    BY <1>14, <1>15, <1>17, <2>4
  <2> QED
    BY <2>1, <2>2, <2>3, <2>4 DEF q, words, wdata
<1>18. CASE terms # {} /\ ~q.all
  <2>1. old[p] \in Asked(query) <=> /\ \E u \in terms : u.sign # "cant" /\ M(u)
                                    /\ \A u \in terms : u.sign = "must" => M(u)
                                    /\ \A u \in terms : u.sign = "cant" => ~M(u)
    BY <1>7, <1>18 DEF M
  <2>2. Answers(p, words, wdata, q.all) <=> /\ \E k \in 1..n : words[k].sign # "cant" /\ In(k)
                                            /\ \A k \in 1..n : words[k].sign = "must" => In(k)
                                            /\ \A k \in 1..n : words[k].sign = "cant" => ~In(k)
    BY <1>1, <1>3, <1>13, <1>18 DEF Answers, In
  <2>3. (\E u \in terms : u.sign # "cant" /\ M(u)) <=> \E k \in 1..n : words[k].sign # "cant" /\ In(k)
    <3>1. ASSUME NEW u \in terms, u.sign # "cant", M(u)
          PROVE  \E k \in 1..n : words[k].sign # "cant" /\ In(k)
      BY <1>9, <1>12, <1>15, <3>1
    <3>2. ASSUME NEW k \in 1..n, words[k].sign # "cant", In(k)
          PROVE  \E u \in terms : u.sign # "cant" /\ M(u)
      BY <1>3, <1>9, <1>12, <3>2
    <3> QED
      BY <3>1, <3>2
  <2>4. (\A u \in terms : u.sign = "must" => M(u)) <=> \A k \in 1..n : words[k].sign = "must" => In(k)
    <3>1. ASSUME \A u \in terms : u.sign = "must" => M(u), NEW k \in 1..n, words[k].sign = "must"
          PROVE  In(k)
      BY <1>3, <1>12, <1>14, <3>1
    <3>2. ASSUME \A k \in 1..n : words[k].sign = "must" => In(k), NEW u \in terms, u.sign = "must"
          PROVE  M(u)
      BY <1>12, <1>14, <1>15, <3>2
    <3> QED
      BY <3>1, <3>2
  <2>5. (\A u \in terms : u.sign = "cant" => ~M(u)) <=> \A k \in 1..n : words[k].sign = "cant" => ~In(k)
    <3>1. ASSUME \A u \in terms : u.sign = "cant" => ~M(u), NEW k \in 1..n, words[k].sign = "cant"
          PROVE  ~In(k)
      BY <1>3, <1>12, <1>14, <3>1
    <3>2. ASSUME \A k \in 1..n : words[k].sign = "cant" => ~In(k), NEW u \in terms, u.sign = "cant"
          PROVE  ~M(u)
      BY <1>12, <1>14, <1>15, <3>2
    <3> QED
      BY <3>1, <3>2
  <2> QED
    BY <2>1, <2>2, <2>3, <2>4, <2>5 DEF q, words, wdata
<1> QED
  BY <1>16, <1>17, <1>18

(* The words of a query are as many as its terms bring.                    *)
LEMMA WordsCounted ==
    ASSUME NEW lex, NEW old, NEW query \in Query, text \in [Msg -> Text],
           Served(text, lex, old, query)
    PROVE  LET q == FixupFlags(query)
           IN  Len(WordsOf(query, lex)) = Cardinality(UNION {Brings(q, q.terms[i]) : i \in 1..Len(q.terms)})
<1> DEFINE q == FixupFlags(query)
           words == WordsOf(query, lex)
           n == Len(words)
           m == Len(q.terms)
           W == Worth(text)
           U == UNION {Brings(q, q.terms[i]) : i \in 1..m}
           f == [k \in 1..n |-> words[k].word]
<1>1. q.terms \in Seq(Term)
  BY FixedUp
<1>2. \A i \in 1..m : q.terms[i] \in Term
  BY <1>1
<1>3. ASSUME NEW i \in 1..m PROVE Brings(q, q.terms[i]) = Bringing(q, q.terms[i], W)
  <2>1. q.terms[i] \in Term
    BY <1>2
  <2> HIDE DEF q
  <2> QED
    BY <2>1, BringsIs
<1>4. /\ n \in Nat
      /\ \A k, l \in 1..n : words[k].word = words[l].word => k = l
      /\ \A k \in 1..n : \E i \in 1..m : words[k].word \in Bringing(q, q.terms[i], W)
      /\ \A i \in 1..m : \A w \in Bringing(q, q.terms[i], W) : \E k \in 1..n : words[k].word = w
  BY DEF Served, Looked, Stands
<1> HIDE DEF q, words, n, m, W
<1>5. /\ \A k \in 1..n : f[k] \in U
      /\ \A w \in U : \E k \in 1..n : f[k] = w
      /\ \A k, l \in 1..n : f[k] = f[l] => k = l
  BY <1>3, <1>4
<1>6. f \in [1..n -> U]
  BY <1>5
<1>7. f \in Bijection(1..n, U)
  <2> HIDE DEF f, U
  <2> QED
    BY <1>5, <1>6 DEF Bijection, Injection, Surjection, IsInjective
<1>8. IsFiniteSet(1..n) /\ Cardinality(1..n) = n
  BY <1>4, FS_Interval
<1> HIDE DEF U, f
<1>9. Cardinality(U) = n
  BY <1>7, <1>8, FS_Bijection DEF ExistsBijection
<1> QED
  BY <1>9 DEF U, q, words, n, m

LEMMA SearchFollows == IInv /\ LexInv => SearchRight
<1> SUFFICES ASSUME IInv, LexInv, phase = "done", NEW query \in Queries, Clear(query)
             PROVE  {file["messages"][k] : k \in Search(query, file["lexdata"])} = Asked(query)
  BY DEF SearchRight
<1> DEFINE lex == file["lexdata"]
           q == FixupFlags(query)
           W == Worth(text)
           n == Len(q.terms)
<1>1. /\ text \in [Msg -> Text]
      /\ LexRight(text, lex, order, NewTotal)
      /\ \A w \in W : Tidy(lex[w])
  BY DEF LexInv
<1>2. /\ file["messages"] = order
      /\ \A k \in Msg : order[k] \in Msg /\ rev[order[k]] = k
      /\ \A m \in Msg : rev[m] \in Msg /\ order[rev[m]] = m
  BY DEF IInv, FilesInv, Renumbered
<1>3. Ready(text, lex, order, NewTotal)
  <2>1. \A k, l \in Msg : order[k] = order[l] => k = l
    BY <1>2
  <2> HIDE DEF lex
  <2> QED
    BY <1>1, <1>2, <2>1 DEF Ready
<1> HIDE DEF lex
<1>4. query \in Query
  BY SearchIndexAssumption
<1>5. Alone(q, W)
  <2>1. q.terms \in Seq(Term)
    BY <1>4, FixedUp
  <2>2. \A i, j \in 1..n : i # j => Brings(q, q.terms[i]) \cap Brings(q, q.terms[j]) = {}
    BY DEF Clear
  <2> HIDE DEF q
  <2>3. \A i \in 1..n : q.terms[i] \in Term
    BY <2>1
  <2>4. \A i \in 1..n : Brings(q, q.terms[i]) = Bringing(q, q.terms[i], W)
    BY <1>1, <2>3, BringsIs
  <2> QED
    BY <2>2, <2>4 DEF Alone
<1>6. Served(text, lex, order, query)
  BY <1>3, <1>4, <1>5, ServedIs
<1>7. Len(WordsOf(query, lex)) <= MaxWords
  <2>1. Len(WordsOf(query, lex)) = Cardinality(UNION {Brings(q, q.terms[i]) : i \in 1..n})
    BY <1>1, <1>4, <1>6, WordsCounted
  <2> QED
    BY <2>1 DEF Clear
<1>8. Search(query, lex) = {p \in Msg : Answers(p, WordsOf(query, lex), PostsOf(query, lex), q.all)}
  BY <1>4, <1>6, <1>7, SearchIs
<1>9. \A p \in Msg : order[p] \in Asked(query) <=> p \in Search(query, lex)
  <2>1. ASSUME NEW p \in Msg
        PROVE  order[p] \in Asked(query) <=> Answers(p, WordsOf(query, lex), PostsOf(query, lex), q.all)
    <3>1. AllKnown(q)
      BY DEF Clear, AllKnown
    <3> QED
      BY <1>1, <1>2, <1>4, <1>6, <3>1, AskedIs
  <2> QED
    BY <1>8, <2>1
<1>10. Asked(query) \subseteq Msg /\ Search(query, lex) \subseteq Msg
  BY <1>8 DEF Asked
<1>11. {order[k] : k \in Search(query, lex)} = Asked(query)
  BY <1>2, <1>9, <1>10
<1> QED
  BY <1>2, <1>11 DEF lex

(* A search of the sorted archive finds what the messages say.             *)
THEOREM SearchIsRight == Spec => []SearchRight
BY Invariance, LexInvariance, SearchFollows, PTL
-----------------------------------------------------------------------------
(* The least distance of two lists of places in order.                     *)
Rising(p) == /\ p \in Seq(Int)
             /\ \A j, k \in 1..Len(p) : j < k => p[j] <= p[k]

Gap(p, q, x, y) == IF p[x] < q[y] THEN q[y] - p[x] ELSE p[x] - q[y]

LeastGap(d, p, q, i, j) ==
    /\ d \in Nat /\ d <= FarAway
    /\ \A x \in i..Len(p) : \A y \in j..Len(q) : d <= Gap(p, q, x, y)
    /\ d = FarAway \/ \E x \in i..Len(p) : \E y \in j..Len(q) : d = Gap(p, q, x, y)

Cells(p, q) == (1..(Len(p) + 1)) \X (1..(Len(q) + 1))

Walked(p, q, b) ==
    [at \in Cells(p, q) |->
        IF at[1] > Len(p) \/ at[2] > Len(q) THEN FarAway
        ELSE AtMost(IF p[at[1]] < q[at[2]] THEN b[<<at[1] + 1, at[2]>>] ELSE b[<<at[1], at[2] + 1>>],
                    Gap(p, q, at[1], at[2]))]

LEMMA GapTyped ==
    ASSUME NEW p, Rising(p), NEW q, Rising(q), NEW x \in 1..Len(p), NEW y \in 1..Len(q)
    PROVE  Gap(p, q, x, y) \in Nat
<1>1. p[x] \in Int /\ q[y] \in Int
  BY DEF Rising
<1> QED
  BY <1>1 DEF Gap

LEMMA LeastGapExists ==
    ASSUME NEW p, Rising(p), NEW q, Rising(q), NEW i \in Nat \ {0}, NEW j \in Nat \ {0}
    PROVE  \E d : LeastGap(d, p, q, i, j)
<1> DEFINE T == {d \in Nat : \/ d = FarAway
                             \/ \E x \in i..Len(p) : \E y \in j..Len(q) : d = Gap(p, q, x, y)}
<1>1. FarAway \in T /\ T \in SUBSET Nat
  BY DEF FarAway
<1>2. PICK d \in T : \A e \in T : ~(e < d)
  <2> HIDE DEF T
  <2> QED
    BY <1>1, LeastNumber
<1>3. d <= FarAway
  BY <1>1, <1>2
<1>4. ASSUME NEW x \in i..Len(p), NEW y \in j..Len(q) PROVE d <= Gap(p, q, x, y)
  <2>1. x \in 1..Len(p) /\ y \in 1..Len(q)
    BY DEF Rising
  <2>2. Gap(p, q, x, y) \in Nat
    BY <2>1, GapTyped
  <2>3. Gap(p, q, x, y) \in T
    BY <2>2
  <2> QED
    BY <1>1, <1>2, <2>2, <2>3
<1> QED
  BY <1>2, <1>3, <1>4 DEF LeastGap

LEMMA LeastGapOnly ==
    ASSUME NEW p, Rising(p), NEW q, Rising(q), NEW i \in Nat \ {0}, NEW j \in Nat \ {0},
           NEW d, LeastGap(d, p, q, i, j), NEW e, LeastGap(e, p, q, i, j)
    PROVE  d = e
<1>1. d \in Nat /\ e \in Nat
  BY DEF LeastGap
<1>2. d <= e
  BY <1>1 DEF LeastGap
<1>3. e <= d
  BY <1>1 DEF LeastGap
<1> QED
  BY <1>1, <1>2, <1>3

(* Beyond the place behind no other is nearer to it than the one ahead.    *)
LEMMA GapStep ==
    ASSUME NEW p, Rising(p), NEW q, Rising(q), NEW i \in 1..Len(p), NEW j \in 1..Len(q),
           NEW d,
           p[i] < q[j] => LeastGap(d, p, q, i + 1, j),
           ~(p[i] < q[j]) => LeastGap(d, p, q, i, j + 1)
    PROVE  LeastGap(AtMost(d, Gap(p, q, i, j)), p, q, i, j)
<1> DEFINE m == Len(p)
           n == Len(q)
           g(x, y) == Gap(p, q, x, y)
           e == AtMost(d, g(i, j))
<1>1. /\ m \in Nat /\ n \in Nat
      /\ \A x \in 1..m : p[x] \in Int
      /\ \A y \in 1..n : q[y] \in Int
  BY DEF Rising
<1>2. g(i, j) \in Nat
  BY GapTyped
<1>3. d \in Nat /\ d <= FarAway
  BY DEF LeastGap
<1>4. e \in Nat /\ e <= d /\ e <= g(i, j) /\ (e = d \/ e = g(i, j)) /\ e <= FarAway
  BY <1>2, <1>3 DEF AtMost, FarAway
<1> HIDE DEF e
<1>5. i \in i..m /\ j \in j..n
  BY <1>1
<1>6. CASE p[i] < q[j]
  <2>1. LeastGap(d, p, q, i + 1, j)
    BY <1>6
  <2>2. \A x \in i..m : x = i \/ x \in (i + 1)..m
    BY <1>1
  <2>3. ASSUME NEW y \in j..n PROVE g(i, j) <= g(i, y)
    <3>1. q[j] <= q[y] /\ y \in 1..n
      BY <1>1 DEF Rising
    <3> QED
      BY <1>1, <1>6, <3>1 DEF Gap
  <2>4. ASSUME NEW x \in i..m, NEW y \in j..n PROVE e <= g(x, y)
    <3>0. g(x, y) \in Nat
      <4>1. x \in 1..m /\ y \in 1..n
        BY <1>1
      <4> QED
        BY <4>1, GapTyped
    <3>1. CASE x = i
      <4> HIDE DEF g
      <4> QED
        BY <1>2, <1>4, <2>3, <3>0, <3>1
    <3>2. CASE x \in (i + 1)..m
      <4>1. d <= g(x, y)
        BY <2>1, <3>2 DEF LeastGap
      <4> HIDE DEF g
      <4> QED
        BY <1>3, <1>4, <3>0, <4>1
    <3> QED
      BY <2>2, <3>1, <3>2
  <2>5. d = FarAway \/ \E x \in i..m : \E y \in j..n : d = g(x, y)
    <3>1. \A x \in (i + 1)..m : x \in i..m
      BY <1>1
    <3> QED
      BY <2>1, <3>1 DEF LeastGap
  <2> QED
    BY <1>4, <1>5, <2>4, <2>5 DEF LeastGap, e
<1>7. CASE ~(p[i] < q[j])
  <2>1. LeastGap(d, p, q, i, j + 1)
    BY <1>7
  <2>2. \A y \in j..n : y = j \/ y \in (j + 1)..n
    BY <1>1
  <2>3. ASSUME NEW x \in i..m PROVE g(i, j) <= g(x, j)
    <3>1. p[i] <= p[x] /\ x \in 1..m
      BY <1>1 DEF Rising
    <3> QED
      BY <1>1, <1>7, <3>1 DEF Gap
  <2>4. ASSUME NEW x \in i..m, NEW y \in j..n PROVE e <= g(x, y)
    <3>0. g(x, y) \in Nat
      <4>1. x \in 1..m /\ y \in 1..n
        BY <1>1
      <4> QED
        BY <4>1, GapTyped
    <3>1. CASE y = j
      <4> HIDE DEF g
      <4> QED
        BY <1>2, <1>4, <2>3, <3>0, <3>1
    <3>2. CASE y \in (j + 1)..n
      <4>1. d <= g(x, y)
        BY <2>1, <3>2 DEF LeastGap
      <4> HIDE DEF g
      <4> QED
        BY <1>3, <1>4, <3>0, <4>1
    <3> QED
      BY <2>2, <3>1, <3>2
  <2>5. d = FarAway \/ \E x \in i..m : \E y \in j..n : d = g(x, y)
    <3>1. \A y \in (j + 1)..n : y \in j..n
      BY <1>1
    <3> QED
      BY <2>1, <3>1 DEF LeastGap
  <2> QED
    BY <1>4, <1>5, <2>4, <2>5 DEF LeastGap, e
<1> QED
  BY <1>6, <1>7

LEMMA ClosestIs ==
    ASSUME NEW p, Rising(p), NEW q, Rising(q)
    PROVE  LeastGap(Closest(p, q), p, q, 1, 1)
<1> DEFINE m == Len(p)
           n == Len(q)
           S == Cells(p, q)
           Eq(b) == b = Walked(p, q, b)
           walk == CHOOSE b : Eq(b)
           Right(d, at) == LeastGap(d, p, q, at[1], at[2])
           g == [at \in S |-> CHOOSE d : Right(d, at)]
           next(at) == IF p[at[1]] < q[at[2]] THEN <<at[1] + 1, at[2]>> ELSE <<at[1], at[2] + 1>>
           left(at) == (m + 1 - at[1]) + (n + 1 - at[2])
<1>1. m \in Nat /\ n \in Nat
  BY DEF Rising
<1>2. Closest(p, q) = walk[<<1, 1>>]
  BY DEF Closest, Walked, Cells, Gap
<1>3. ASSUME NEW at \in S
      PROVE  at[1] \in 1..(m + 1) /\ at[2] \in 1..(n + 1) /\ at[1] \in Nat \ {0} /\ at[2] \in Nat \ {0}
             /\ left(at) \in Nat
  BY <1>1 DEF Cells
<1>4. ASSUME NEW at \in S, ~(at[1] > m \/ at[2] > n)
      PROVE  next(at) \in S /\ left(next(at)) < left(at) /\ at[1] \in 1..m /\ at[2] \in 1..n
  <2>1. at[1] \in 1..m /\ at[2] \in 1..n
    BY <1>1, <1>3, <1>4
  <2> DEFINE i == at[1]
             j == at[2]
  <2>2. /\ <<i + 1, j>> \in S /\ <<i, j + 1>> \in S
        /\ <<i + 1, j>>[1] = i + 1 /\ <<i + 1, j>>[2] = j
        /\ <<i, j + 1>>[1] = i /\ <<i, j + 1>>[2] = j + 1
    BY <1>1, <2>1 DEF Cells
  <2>3. /\ left(<<i + 1, j>>) = (m + 1 - (i + 1)) + (n + 1 - j)
        /\ left(<<i, j + 1>>) = (m + 1 - i) + (n + 1 - (j + 1))
        /\ left(at) = (m + 1 - i) + (n + 1 - j)
    BY <2>2
  <2>4. next(at) = <<i + 1, j>> \/ next(at) = <<i, j + 1>>
    OBVIOUS
  <2> HIDE DEF left, next
  <2>5. left(<<i + 1, j>>) < left(at) /\ left(<<i, j + 1>>) < left(at)
    <3>1. i \in Int /\ j \in Int
      BY <2>1
    <3> HIDE DEF i, j
    <3> QED
      BY <1>1, <2>3, <3>1
  <2> QED
    BY <2>1, <2>2, <2>4, <2>5
<1> HIDE DEF S
<1>5. ASSUME NEW at \in S PROVE Right(g[at], at)
  <2>1. \E d : Right(d, at)
    BY <1>3, LeastGapExists
  <2> HIDE DEF Right
  <2> QED
    BY <2>1
<1> HIDE DEF left, next, Right
<1>6. ASSUME NEW at \in S, NEW b
      PROVE  Walked(p, q, b)[at] = IF at[1] > m \/ at[2] > n THEN FarAway
                                   ELSE AtMost(b[next(at)], Gap(p, q, at[1], at[2]))
  BY DEF Walked, S, next
<1>7. ASSUME NEW at \in S PROVE Walked(p, q, g)[at] = g[at]
  <2> HIDE DEF g
  <2>1. CASE at[1] > m \/ at[2] > n
    <3>1. (at[1])..m = {} \/ (at[2])..n = {}
      BY <1>1, <1>3, <2>1
    <3>2. Right(FarAway, at)
      BY <3>1 DEF Right, LeastGap, FarAway
    <3>3. g[at] = FarAway
      BY <1>3, <1>5, <3>2, LeastGapOnly DEF Right
    <3> QED
      BY <1>6, <2>1, <3>3
  <2>2. CASE ~(at[1] > m \/ at[2] > n)
    <3> DEFINE i == at[1]
               j == at[2]
               d == g[next(at)]
    <3>1. next(at) \in S /\ i \in 1..m /\ j \in 1..n
      BY <1>4, <2>2
    <3>2. Right(d, next(at))
      BY <1>5, <3>1
    <3>3. /\ p[i] < q[j] => LeastGap(d, p, q, i + 1, j)
          /\ ~(p[i] < q[j]) => LeastGap(d, p, q, i, j + 1)
      BY <3>2 DEF Right, next
    <3> HIDE DEF i, j, d
    <3>4. LeastGap(AtMost(d, Gap(p, q, i, j)), p, q, i, j)
      BY <3>1, <3>3, GapStep
    <3>5. Right(AtMost(d, Gap(p, q, i, j)), at)
      BY <3>4 DEF Right, i, j
    <3>6. g[at] = AtMost(d, Gap(p, q, i, j))
      BY <1>3, <1>5, <3>5, LeastGapOnly DEF Right
    <3> QED
      BY <1>6, <2>2, <3>6 DEF i, j, d
  <2> QED
    BY <2>1, <2>2
<1>8. Eq(g)
  <2>1. Walked(p, q, g) = [at \in S |-> Walked(p, q, g)[at]]
    BY DEF Walked, S
  <2>2. g = [at \in S |-> g[at]]
    OBVIOUS
  <2> HIDE DEF g
  <2> QED
    BY <1>7, <2>1, <2>2
<1>9. Eq(walk)
  <2> HIDE DEF Eq, g
  <2> QED
    BY <1>8
<1> HIDE DEF walk, g
<1>10. \A at \in S : walk[at] = Walked(p, q, walk)[at] /\ g[at] = Walked(p, q, g)[at]
  BY <1>7, <1>9
<1> DEFINE T == {c \in Nat : \E at \in S : left(at) = c /\ walk[at] # g[at]}
<1>11. T = {}
  <2> SUFFICES ASSUME T # {} PROVE FALSE
    OBVIOUS
  <2>0. T \in SUBSET Nat
    OBVIOUS
  <2>1. PICK c \in T : \A d \in T : ~(d < c)
    <3> HIDE DEF T
    <3> QED
      BY <2>0, LeastNumber
  <2>2. PICK at \in S : left(at) = c /\ walk[at] # g[at]
    OBVIOUS
  <2>3. \A x \in S : left(x) < c => walk[x] = g[x]
    <3> SUFFICES ASSUME NEW x \in S, left(x) < c PROVE walk[x] = g[x]
      OBVIOUS
    <3>1. left(x) \notin T /\ left(x) \in Nat
      <4> HIDE DEF T
      <4> QED
        BY <1>3, <2>1
    <3> QED
      BY <3>1
  <2>4. CASE at[1] > m \/ at[2] > n
    BY <1>6, <1>10, <2>2, <2>4
  <2>5. CASE ~(at[1] > m \/ at[2] > n)
    <3>1. next(at) \in S /\ left(next(at)) < left(at)
      BY <1>4, <2>5
    <3>2. walk[next(at)] = g[next(at)]
      BY <2>2, <2>3, <3>1
    <3> QED
      BY <1>6, <1>10, <2>2, <2>5, <3>2
  <2> QED
    BY <2>4, <2>5
<1>12. <<1, 1>> \in S /\ <<1, 1>>[1] = 1 /\ <<1, 1>>[2] = 1
  BY <1>1 DEF S, Cells
<1>13. walk[<<1, 1>>] = g[<<1, 1>>]
  <2>1. left(<<1, 1>>) \in Nat
    BY <1>3, <1>12
  <2> QED
    BY <1>11, <1>12, <2>1
<1>14. Right(g[<<1, 1>>], <<1, 1>>)
  BY <1>5, <1>12
<1> QED
  BY <1>2, <1>12, <1>13, <1>14 DEF Right

LEMMA Small ==
    ASSUME NEW m \in 1..127, NEW x \in Nat, x < m
    PROVE  x \in 0..126 /\ x \in 0..127
OBVIOUS

LEMMA Equal ==
    ASSUME NEW a \in 0..127, NEW b \in 0..127, a <= b, ~(b > a)
    PROVE  a = b
OBVIOUS

LEMMA NatOf ==
    ASSUME NEW b \in Nat, NEW x \in 0..b
    PROVE  x \in Nat
OBVIOUS

Between(a, b) == IF a < b THEN b - a ELSE a - b

LEMMA BetweenSmall ==
    ASSUME NEW a \in 0..126, NEW b \in 0..126
    PROVE  Between(a, b) \in Nat /\ Between(a, b) < FarAway
BY DEF Between, FarAway

(* Places as differences and back, when there are two at most.             *)
HopOn(had, place) == IF had = <<>> THEN <<place>>
                     ELSE IF place > Last(had) THEN Append(had, place - Last(had))
                     ELSE had
HopsOf(at) ==
    LET hops[k \in 0..Len(at)] ==
            IF k = 0 THEN <<>>
            ELSE LET had == hops[k - 1]
                 IN  IF had = <<>> THEN <<at[k]>>
                     ELSE IF at[k] > Last(had) THEN Append(had, at[k] - Last(had))
                     ELSE had
    IN  hops[Len(at)]

LEMMA HopsOfIs ==
    ASSUME NEW at \in Seq(Int)
    PROVE  \E hops : /\ HopsOf(at) = hops[Len(at)] /\ hops[0] = <<>>
                     /\ \A k \in 1..Len(at) : hops[k] = HopOn(hops[k - 1], at[k])
<1> DEFINE n == Len(at)
           S == Seq(Int)
           Op(k, x) == HopOn(x, at[k])
           Eq(f) == f = [k \in 0..n |-> IF k = 0 THEN <<>> ELSE Op(k, f[k - 1])]
           hops == CHOOSE f : Eq(f)
           step == [k \in 1..n |-> [x \in S |-> Op(k, x)]]
<1>1. HopsOf(at) = hops[n]
  BY DEF HopsOf, HopOn
<1>2. n \in Nat /\ <<>> \in S /\ \A k \in 1..n : at[k] \in Int
  OBVIOUS
<1>3. ASSUME NEW k \in 1..n, NEW x \in S PROVE Op(k, x) \in S
  <2>1. CASE x = <<>>
    BY <1>2, <2>1 DEF HopOn
  <2>2. CASE x # <<>>
    <3>1. Len(x) \in 1..Len(x) /\ Last(x) \in Int
      BY <2>2 DEF Last
    <3> QED
      BY <1>2, <2>2, <3>1 DEF HopOn
  <2> QED
    BY <2>1, <2>2
<1> HIDE DEF n, S, Op
<1>4. Loop(n, S, step)
  BY <1>2, <1>3 DEF Loop
<1>5. \A k \in 1..n : \A x \in S : step[k][x] = Op(k, x)
  OBVIOUS
<1> HIDE DEF step
<1>6. PICK g : Runs(g, n, S, <<>>, step)
  BY <1>2, <1>4, LoopRuns
<1>r. g \in [0..n -> S] /\ g[0] = <<>> /\ \A k \in 1..n : g[k] = step[k][g[k - 1]]
  BY <1>6 DEF Runs
<1>7. Eq(g)
  <2>1. ASSUME NEW k \in 0..n PROVE g[k] = IF k = 0 THEN <<>> ELSE Op(k, g[k - 1])
    <3>1. CASE k = 0
      BY <1>r, <3>1
    <3>2. CASE k # 0
      <4>1. k \in 1..n /\ k - 1 \in 0..n
        BY <1>2, <3>2
      <4>2. g[k] = step[k][g[k - 1]] /\ g[k - 1] \in S
        BY <1>r, <4>1
      <4>3. g[k] = Op(k, g[k - 1])
        BY <1>5, <4>1, <4>2
      <4> QED
        BY <3>2, <4>3
    <3> QED
      BY <3>1, <3>2
  <2> QED
    BY <1>r, <2>1
<1>8. Eq(hops)
  <2> HIDE DEF Eq
  <2> QED
    BY <1>7
<1> HIDE DEF hops
<1>9. hops[0] = <<>> /\ \A k \in 1..n : hops[k] = Op(k, hops[k - 1])
  BY <1>2, <1>8
<1> QED
  BY <1>1, <1>9 DEF n, Op

LEMMA ReachedIs ==
    ASSUME NEW hops \in Seq(Int)
    PROVE  \E sum : /\ Reached(hops) = [k \in DOMAIN hops |-> Signed(sum[k])]
                    /\ sum[0] = 0 /\ \A k \in 1..Len(hops) : sum[k] = sum[k - 1] + hops[k]
<1> DEFINE n == Len(hops)
           Op(k, x) == x + hops[k]
           Eq(f) == f = [k \in 0..n |-> IF k = 0 THEN 0 ELSE Op(k, f[k - 1])]
           sum == CHOOSE f : Eq(f)
           step == [k \in 1..n |-> [x \in Int |-> Op(k, x)]]
<1>1. Reached(hops) = [k \in DOMAIN hops |-> Signed(sum[k])]
  BY DEF Reached
<1>2. n \in Nat /\ 0 \in Int /\ \A k \in 1..n : hops[k] \in Int
  OBVIOUS
<1>3. ASSUME NEW k \in 1..n, NEW x \in Int PROVE Op(k, x) \in Int
  BY <1>2
<1> HIDE DEF n, Op
<1>4. Loop(n, Int, step)
  BY <1>2, <1>3 DEF Loop
<1>5. \A k \in 1..n : \A x \in Int : step[k][x] = Op(k, x)
  OBVIOUS
<1> HIDE DEF step
<1>6. PICK g : Runs(g, n, Int, 0, step)
  BY <1>2, <1>4, LoopRuns
<1>r. g \in [0..n -> Int] /\ g[0] = 0 /\ \A k \in 1..n : g[k] = step[k][g[k - 1]]
  BY <1>6 DEF Runs
<1>7. Eq(g)
  <2>1. ASSUME NEW k \in 0..n PROVE g[k] = IF k = 0 THEN 0 ELSE Op(k, g[k - 1])
    <3>1. CASE k = 0
      BY <1>r, <3>1
    <3>2. CASE k # 0
      <4>1. k \in 1..n /\ k - 1 \in 0..n
        BY <1>2, <3>2
      <4>2. g[k] = step[k][g[k - 1]] /\ g[k - 1] \in Int
        BY <1>r, <4>1
      <4>3. g[k] = Op(k, g[k - 1])
        BY <1>5, <4>1, <4>2
      <4> QED
        BY <3>2, <4>3
    <3> QED
      BY <3>1, <3>2
  <2> QED
    BY <1>r, <2>1
<1>8. Eq(sum)
  <2> HIDE DEF Eq
  <2> QED
    BY <1>7
<1> HIDE DEF sum
<1>9. sum[0] = 0 /\ \A k \in 1..n : sum[k] = Op(k, sum[k - 1])
  BY <1>2, <1>8
<1> QED
  BY <1>1, <1>9 DEF n, Op

LEMMA SignedIs ==
    ASSUME NEW n \in 0..127
    PROVE  Signed(n) = n
BY DEF Signed

LEMMA OnlyOne ==
    ASSUME NEW a
    PROVE  <<a>> # <<>> /\ Last(<<a>>) = a
<1>1. Len(<<a>>) = 1 /\ <<a>>[1] = a
  OBVIOUS
<1>2. Len(<<>>) = 0
  OBVIOUS
<1>3. Last(<<a>>) = a
  BY <1>1 DEF Last
<1>4. <<a>> # <<>>
  BY <1>1, <1>2
<1> QED
  BY <1>3, <1>4

LEMMA ListOf ==
    ASSUME NEW n \in Nat, NEW S, NEW r \in [1..n -> S]
    PROVE  r \in Seq(S) /\ Len(r) = n
OBVIOUS

LEMMA PairRises ==
    ASSUME NEW a \in 0..127, NEW b \in 0..127, a < b,
           NEW r \in Seq(Int), Len(r) = 2, r[1] = a, r[2] = b
    PROVE  Rising(r) /\ {r[k] : k \in 1..Len(r)} = {a, b}
<1>1. \A k \in 1..2 : k = 1 \/ k = 2
  OBVIOUS
<1>2. {r[k] : k \in 1..Len(r)} = {a, b}
  BY <1>1
<1>3. ASSUME NEW j \in 1..2, NEW k \in 1..2, j < k PROVE r[j] <= r[k]
  BY <1>1, <1>3
<1> QED
  BY <1>2, <1>3 DEF Rising

LEMMA TwoReached ==
    ASSUME NEW at \in Seq(Int), Len(at) <= 2, \A k \in 1..Len(at) : at[k] \in 0..127,
           Len(at) = 2 => at[1] <= at[2]
    PROVE  LET r == Reached(HopsOf(at))
           IN  /\ Rising(r)
               /\ {r[k] : k \in 1..Len(r)} = {at[k] : k \in 1..Len(at)}
<1> DEFINE n == Len(at)
           r == Reached(HopsOf(at))
<1>1. n \in Nat /\ (n = 0 \/ n = 1 \/ n = 2)
  <2>1. n \in Nat /\ n <= 2
    OBVIOUS
  <2> HIDE DEF n
  <2> QED
    BY <2>1
<1>2. PICK hops : /\ HopsOf(at) = hops[n] /\ hops[0] = <<>>
                  /\ \A k \in 1..n : hops[k] = HopOn(hops[k - 1], at[k])
  BY <1>1, HopsOfIs
<1>3. ASSUME n # 0
      PROVE  1 \in 1..n /\ at[1] \in 0..127 /\ hops[1] = <<at[1]>>
  <2>1. 1 \in 1..n /\ at[1] \in 0..127
    BY <1>1, <1>3
  <2>2. hops[1] = HopOn(<<>>, at[1])
    BY <1>2, <2>1
  <2> QED
    BY <2>1, <2>2 DEF HopOn
<1>4. ASSUME n = 2
      PROVE  /\ at[2] \in 0..127 /\ at[1] <= at[2]
             /\ hops[2] = IF at[2] > at[1] THEN Append(<<at[1]>>, at[2] - at[1]) ELSE <<at[1]>>
  <2>1. 2 \in 1..n /\ at[2] \in 0..127
    BY <1>4
  <2>2. hops[2] = HopOn(hops[1], at[2])
    BY <1>2, <2>1
  <2>3. hops[1] = <<at[1]>> /\ at[1] \in 0..127
    BY <1>3, <1>4
  <2>4. <<at[1]>> # <<>> /\ Last(<<at[1]>>) = at[1]
    BY OnlyOne
  <2> QED
    BY <1>4, <2>1, <2>2, <2>3, <2>4 DEF HopOn
<1>5. CASE n = 0
  <2>1. HopsOf(at) = <<>> /\ <<>> \in Seq(Int) /\ DOMAIN <<>> = {}
    BY <1>2, <1>5
  <2>2. PICK sum : Reached(<<>>) = [k \in DOMAIN <<>> |-> Signed(sum[k])]
    BY <2>1, ReachedIs
  <2>3. r = <<>>
    BY <2>1, <2>2
  <2> QED
    BY <1>5, <2>3 DEF Rising
<1>6. ASSUME NEW a \in 0..127, HopsOf(at) = <<a>>
      PROVE  Rising(r) /\ {r[k] : k \in 1..Len(r)} = {a}
  <2>1. <<a>> \in Seq(Int) /\ Len(<<a>>) = 1 /\ DOMAIN <<a>> = 1..1 /\ <<a>>[1] = a
    OBVIOUS
  <2>2. PICK sum : /\ Reached(<<a>>) = [k \in DOMAIN <<a>> |-> Signed(sum[k])]
                   /\ sum[0] = 0 /\ \A k \in 1..Len(<<a>>) : sum[k] = sum[k - 1] + <<a>>[k]
    BY <2>1, ReachedIs
  <2>3. sum[1] = a
    BY <2>1, <2>2
  <2>4. r = [k \in 1..1 |-> Signed(sum[k])] /\ Signed(a) = a
    BY <1>6, <2>1, <2>2, SignedIs
  <2> HIDE DEF r
  <2>5. r \in Seq(Int) /\ Len(r) = 1 /\ r[1] = a
    <3>1. \A k \in 1..1 : k = 1
      OBVIOUS
    <3>2. r \in [1..1 -> Int] /\ r[1] = a
      BY <2>3, <2>4, <3>1
    <3> QED
      BY <3>2, ListOf
  <2> QED
    BY <2>5 DEF Rising
<1>7. ASSUME NEW a \in 0..127, NEW b \in 0..127, a < b, HopsOf(at) = Append(<<a>>, b - a)
      PROVE  Rising(r) /\ {r[k] : k \in 1..Len(r)} = {a, b}
  <2> DEFINE h == Append(<<a>>, b - a)
  <2>1. h \in Seq(Int) /\ Len(h) = 2 /\ DOMAIN h = 1..2 /\ h[1] = a /\ h[2] = b - a
    OBVIOUS
  <2> HIDE DEF h
  <2>2. PICK sum : /\ Reached(h) = [k \in DOMAIN h |-> Signed(sum[k])]
                   /\ sum[0] = 0 /\ \A k \in 1..Len(h) : sum[k] = sum[k - 1] + h[k]
    BY <2>1, ReachedIs
  <2>3. sum[1] = a /\ sum[2] = b
    <3>1. 1 \in 1..2 /\ 2 \in 1..2
      OBVIOUS
    <3>2. sum[1] = sum[1 - 1] + h[1] /\ sum[2] = sum[2 - 1] + h[2]
      BY <2>1, <2>2, <3>1
    <3> QED
      BY <2>1, <2>2, <3>2
  <2>4. r = [k \in 1..2 |-> Signed(sum[k])] /\ Signed(a) = a /\ Signed(b) = b
    BY <1>7, <2>1, <2>2, SignedIs DEF h
  <2> HIDE DEF r
  <2>5. r \in Seq(Int) /\ Len(r) = 2 /\ r[1] = a /\ r[2] = b
    <3>1. \A k \in 1..2 : k = 1 \/ k = 2
      OBVIOUS
    <3>2. r \in [1..2 -> Int] /\ r[1] = a /\ r[2] = b
      BY <2>3, <2>4, <3>1
    <3> QED
      BY <3>2, ListOf
  <2> QED
    BY <1>7, <2>5, PairRises
<1> HIDE DEF r
<1>8. CASE n = 1
  <2>0. HopsOf(at) = <<at[1]>> /\ at[1] \in 0..127
    <3> HIDE DEF n
    <3> QED
      BY <1>2, <1>3, <1>8
  <2>1. Rising(r) /\ {r[k] : k \in 1..Len(r)} = {at[1]}
    BY <1>6, <2>0
  <2>2. {at[k] : k \in 1..1} = {at[1]}
    OBVIOUS
  <2> QED
    BY <1>8, <2>1, <2>2 DEF r
<1>9. CASE n = 2
  <2>1. \A k \in 1..2 : k = 1 \/ k = 2
    OBVIOUS
  <2>2. {at[k] : k \in 1..2} = {at[1], at[2]}
    BY <2>1
  <2>3. CASE at[2] > at[1]
    <3>1. HopsOf(at) = Append(<<at[1]>>, at[2] - at[1]) /\ at[1] \in 0..127 /\ at[2] \in 0..127 /\ at[1] < at[2]
      BY <1>2, <1>3, <1>4, <1>9, <2>3
    <3>2. Rising(r) /\ {r[k] : k \in 1..Len(r)} = {at[1], at[2]}
      BY <1>7, <3>1
    <3> QED
      BY <1>9, <2>2, <3>2 DEF r
  <2>4. CASE ~(at[2] > at[1])
    <3>0. at[1] \in 0..127 /\ at[2] \in 0..127 /\ at[1] <= at[2] /\ HopsOf(at) = hops[2]
          /\ hops[2] = <<at[1]>>
      <4> HIDE DEF n
      <4> QED
        BY <1>2, <1>3, <1>4, <1>9, <2>4
    <3>1. HopsOf(at) = <<at[1]>> /\ at[1] = at[2]
      <4>1. HopsOf(at) = <<at[1]>>
        BY <3>0
      <4>2. at[1] = at[2]
        BY <2>4, <3>0, Equal
      <4> QED
        BY <4>1, <4>2
    <3>2. Rising(r) /\ {r[k] : k \in 1..Len(r)} = {at[1]}
      BY <1>6, <3>0, <3>1
    <3> QED
      BY <1>9, <2>2, <3>1, <3>2 DEF r
  <2> QED
    BY <2>3, <2>4
<1> QED
  BY <1>1, <1>5, <1>8, <1>9

(* The places of a word in a context, as the lists of its hits have them.  *)
LEMMA PlacesReached ==
    ASSUME NEW hits \in Seq(Hit), NEW type \in Types, Cardinality(Near(hits, type)) <= 2
    PROVE  LET r == Reached(Hops(hits, type))
           IN  /\ Rising(r)
               /\ {r[k] : k \in 1..Len(r)} = {hits[k].pos : k \in Near(hits, type)}
<1> DEFINE N == Near(hits, type)
           pos == [k \in DOMAIN hits |-> hits[k].pos]
           before == LowFirst(N, pos)
           at == Arranged(pos, before)
           c == Cardinality(N)
<1>1. Hops(hits, type) = HopsOf(at)
  BY DEF Hops, HopsOf
<1>2. /\ Len(hits) \in Nat /\ DOMAIN hits = 1..Len(hits)
      /\ \A k \in 1..Len(hits) : hits[k] \in Hit
  OBVIOUS
<1>3. ASSUME NEW k \in N
      PROVE  k \in 1..Len(hits) /\ k \in Nat /\ pos[k] = hits[k].pos /\ pos[k] \in 0..127 /\ pos[k] \in Int
  <2>1. k \in 1..Len(hits) /\ hits[k].pos < MaxPos[type]
    BY <1>2 DEF Near
  <2>2. hits[k].pos \in 0..Byte /\ MaxPos[type] \in 1..127 /\ Byte \in Nat
    BY <1>2, <2>1, LexiconAssumption DEF Hit
  <2>3. hits[k].pos \in Nat
    BY <2>2, NatOf
  <2>4. hits[k].pos \in 0..127
    <3> DEFINE x == hits[k].pos
               max == MaxPos[type]
    <3>1. x \in Nat /\ max \in 1..127 /\ x < max
      BY <2>1, <2>2, <2>3
    <3> HIDE DEF x, max
    <3>2. x \in 0..127
      BY <3>1, Small
    <3> QED
      BY <3>2 DEF x
  <2>5. pos[k] = hits[k].pos /\ k \in Nat
    BY <1>2, <2>1
  <2> QED
    BY <2>1, <2>3, <2>4, <2>5
<1>4. IsFiniteSet(N) /\ c \in Nat
  <2> DEFINE n == Len(hits)
  <2>1. n \in Nat /\ N \subseteq 1..n
    BY <1>2, <1>3
  <2> HIDE DEF n, N
  <2>2. IsFiniteSet(1..n)
    BY <2>1, FS_Interval
  <2>3. IsFiniteSet(N)
    BY <2>1, <2>2, FS_Subset
  <2> QED
    BY <2>3, FS_CardinalityType
<1>5. Total(N, before)
  <2>1. N \in SUBSET Nat /\ \A k \in N : pos[k] \in Int
    <3> HIDE DEF N, pos
    <3> QED
      BY <1>3
  <2> HIDE DEF pos, N
  <2> QED
    BY <2>1, LowFirstTotal
<1>6. PICK p : Arranges(p, N, before) /\ at = [k \in 1..c |-> pos[p[k]]]
  <2> HIDE DEF before, N, pos
  <2> QED
    BY <1>4, <1>5, ArrangedIs
<1>7. /\ p \in [1..c -> N]
      /\ \A l \in N : \E k \in 1..c : p[k] = l
      /\ \A j, k \in 1..c : j < k => p[j] \in before[p[k]]
  BY <1>6 DEF Arranges
<1>8. ASSUME NEW k \in N, NEW l \in N, k \in before[l] PROVE pos[k] <= pos[l]
  <2> HIDE DEF N, pos
  <2>1. pos[k] \in Int /\ pos[l] \in Int
    BY <1>3
  <2>2. pos[k] < pos[l] \/ pos[k] = pos[l]
    BY <1>8 DEF LowFirst, before
  <2> QED
    BY <2>1, <2>2
<1>9. c <= 2
  OBVIOUS
<1> HIDE DEF before, at, c, N, pos
<1>10. /\ at \in Seq(Int) /\ Len(at) = c /\ \A k \in 1..c : at[k] = pos[p[k]] /\ p[k] \in N
       /\ \A k \in 1..c : at[k] \in 0..127
  <2>1. \A k \in 1..c : p[k] \in N /\ pos[p[k]] \in 0..127 /\ pos[p[k]] \in Int
    BY <1>3, <1>7
  <2>2. at \in [1..c -> Int]
    BY <1>6, <2>1
  <2> QED
    BY <1>4, <1>6, <2>1, <2>2, ListOf
<1>11. c = 2 => at[1] <= at[2]
  <2> SUFFICES ASSUME c = 2 PROVE at[1] <= at[2]
    OBVIOUS
  <2>1. 1 \in 1..c /\ 2 \in 1..c
    OBVIOUS
  <2>2. p[1] \in before[p[2]] /\ p[1] \in N /\ p[2] \in N
    BY <1>7, <2>1
  <2> QED
    BY <1>8, <1>10, <2>1, <2>2
<1>12. {at[k] : k \in 1..c} = {hits[k].pos : k \in N}
  <2>1. ASSUME NEW l \in N PROVE \E k \in 1..c : at[k] = hits[l].pos
    <3>1. PICK k \in 1..c : p[k] = l
      BY <1>7
    <3>2. at[k] = pos[l] /\ pos[l] = hits[l].pos
      BY <1>3, <1>10, <3>1
    <3> QED
      BY <3>2
  <2>2. ASSUME NEW k \in 1..c PROVE \E l \in N : at[k] = hits[l].pos
    BY <1>3, <1>10
  <2> QED
    BY <2>1, <2>2
<1> DEFINE r == Reached(HopsOf(at))
<1>13. Rising(r) /\ {r[k] : k \in 1..Len(r)} = {at[k] : k \in 1..Len(at)}
  BY <1>9, <1>10, <1>11, TwoReached
<1> HIDE DEF r
<1>14. Reached(Hops(hits, type)) = r
  BY <1>1 DEF r
<1>15. Rising(r) /\ {r[k] : k \in 1..Len(r)} = {hits[k].pos : k \in N}
  BY <1>10, <1>12, <1>13
<1> QED
  BY <1>14, <1>15 DEF N

Nearest(d, l1, l2, type) ==
    /\ d \in Nat /\ d <= FarAway
    /\ \A i \in Near(l1, type) : \A j \in Near(l2, type) : d <= Between(l1[i].pos, l2[j].pos)
    /\ \/ d = FarAway
       \/ \E i \in Near(l1, type) : \E j \in Near(l2, type) : d = Between(l1[i].pos, l2[j].pos)

LEMMA NearestIs ==
    ASSUME NEW l1 \in Seq(Hit), NEW l2 \in Seq(Hit), NEW type \in Types,
           Cardinality(Near(l1, type)) <= 2, Cardinality(Near(l2, type)) <= 2
    PROVE  Nearest(Closest(Reached(Hops(l1, type)), Reached(Hops(l2, type))), l1, l2, type)
<1> DEFINE p == Reached(Hops(l1, type))
           q == Reached(Hops(l2, type))
           d == Closest(p, q)
<1>1. /\ Rising(p) /\ {p[k] : k \in 1..Len(p)} = {l1[k].pos : k \in Near(l1, type)}
      /\ Rising(q) /\ {q[k] : k \in 1..Len(q)} = {l2[k].pos : k \in Near(l2, type)}
  BY PlacesReached
<1> HIDE DEF p, q
<1>2. LeastGap(d, p, q, 1, 1)
  BY <1>1, ClosestIs
<1> HIDE DEF d
<1>3. /\ \A i \in Near(l1, type) : \E k \in 1..Len(p) : p[k] = l1[i].pos
      /\ \A j \in Near(l2, type) : \E k \in 1..Len(q) : q[k] = l2[j].pos
      /\ \A k \in 1..Len(p) : \E i \in Near(l1, type) : p[k] = l1[i].pos
      /\ \A k \in 1..Len(q) : \E j \in Near(l2, type) : q[k] = l2[j].pos
  BY <1>1
<1>4. \A x, y : Gap(p, q, x, y) = Between(p[x], q[y])
  BY DEF Gap, Between
<1>5. ASSUME NEW i \in Near(l1, type), NEW j \in Near(l2, type) PROVE d <= Between(l1[i].pos, l2[j].pos)
  BY <1>2, <1>3, <1>4 DEF LeastGap
<1>6. d = FarAway \/ \E i \in Near(l1, type) : \E j \in Near(l2, type) : d = Between(l1[i].pos, l2[j].pos)
  BY <1>2, <1>3, <1>4 DEF LeastGap
<1>7. Nearest(d, l1, l2, type)
  BY <1>2, <1>5, <1>6 DEF LeastGap, Nearest
<1> QED
  BY <1>7 DEF d, p, q

LEMMA NearTyped ==
    ASSUME NEW l \in Seq(Hit), NEW type \in Types, NEW k \in Near(l, type)
    PROVE  l[k].pos \in 0..126 /\ l[k].type = type
<1>1. k \in DOMAIN l /\ l[k].type = type /\ l[k].pos < MaxPos[type]
  BY DEF Near
<1>2. l[k].pos \in 0..Byte /\ MaxPos[type] \in 1..127 /\ Byte \in Nat
  BY <1>1, LexiconAssumption DEF Hit
<1>3. l[k].pos \in Nat
  BY <1>2, NatOf
<1>4. l[k].pos \in 0..126
  <2> DEFINE x == l[k].pos
             max == MaxPos[type]
  <2>1. x \in Nat /\ max \in 1..127 /\ x < max
    BY <1>1, <1>2, <1>3
  <2> HIDE DEF x, max
  <2>2. x \in 0..126
    BY <2>1, Small
  <2> QED
    BY <2>2 DEF x
<1> QED
  BY <1>1, <1>4

(* The hits of a group are those of its words.                             *)
LEMMA Flattened ==
    ASSUME NEW S, NEW list \in Seq(Seq(S))
    PROVE  /\ FlattenSeq(list) \in Seq(S)
           /\ Range(FlattenSeq(list)) = UNION {Range(list[k]) : k \in DOMAIN list}
<1> DEFINE n == Len(list)
           Q == Seq(S)
           Op(k, x) == IF k = 1 THEN list[k] ELSE x \o list[k]
           Eq(f) == f = [k \in 1..n |-> IF k = 1 THEN list[k] ELSE f[k - 1] \o list[k]]
           flat == CHOOSE f : Eq(f)
           step == [k \in 1..n |-> [x \in Q |-> Op(k, x)]]
           Upto(k) == UNION {Range(list[i]) : i \in 1..k}
<1>1. n \in Nat /\ <<>> \in Q /\ DOMAIN list = 1..n /\ \A k \in 1..n : list[k] \in Q
  OBVIOUS
<1>2. CASE n = 0
  <2>1. list = <<>> /\ FlattenSeq(list) = <<>> /\ DOMAIN list = {}
    BY <1>2 DEF FlattenSeq
  <2>2. <<>> \in Seq(S) /\ Range(<<>>) = {}
    BY DEF Range
  <2>3. UNION {Range(list[k]) : k \in DOMAIN list} = {}
    BY <2>1
  <2> QED
    BY <2>1, <2>2, <2>3
<1>3. CASE n # 0
  <2>1. FlattenSeq(list) = flat[n]
    BY <1>3 DEF FlattenSeq
  <2>2. ASSUME NEW k \in 1..n, NEW x \in Q PROVE Op(k, x) \in Q
    BY <1>1, ConcatProperties
  <2>3. Loop(n, Q, step)
    <3> HIDE DEF n, Q, Op
    <3> QED
      BY <1>1, <2>2 DEF Loop
  <2>4. \A k \in 1..n : \A x \in Q : step[k][x] = Op(k, x)
    OBVIOUS
  <2> HIDE DEF step
  <2>5. PICK g : Runs(g, n, Q, <<>>, step)
    BY <1>1, <2>3, LoopRuns
  <2>6. /\ \A k \in 0..n : g[k] \in Q
        /\ \A k \in 1..n : g[k] = step[k][g[k - 1]]
    BY <2>5 DEF Runs
  <2>7. ASSUME NEW k \in 1..n PROVE g[k] = IF k = 1 THEN list[k] ELSE g[k - 1] \o list[k]
    <3>1. g[k - 1] \in Q
      BY <1>1, <2>6
    <3> QED
      BY <2>4, <2>6, <3>1
  <2> DEFINE h == [k \in 1..n |-> g[k]]
  <2> HIDE DEF Q, Op
  <2>8. Eq(h)
    <3>1. ASSUME NEW k \in 1..n PROVE h[k] = IF k = 1 THEN list[k] ELSE h[k - 1] \o list[k]
      <4>1. k # 1 => k - 1 \in 1..n
        BY <1>1
      <4> QED
        BY <2>7, <4>1
    <3> HIDE DEF n
    <3> QED
      BY <3>1
  <2>9. Eq(flat)
    <3> HIDE DEF Eq, h
    <3> QED
      BY <2>8
  <2> HIDE DEF flat, h, n
  <2>10. \A k \in 1..n : flat[k] = IF k = 1 THEN list[k] ELSE flat[k - 1] \o list[k]
    BY <2>9
  <2> DEFINE Bad == {k \in 1..n : ~(flat[k] \in Q /\ Range(flat[k]) = Upto(k))}
  <2>11. Bad = {}
    <3> SUFFICES ASSUME Bad # {} PROVE FALSE
      OBVIOUS
    <3>1. Bad \in SUBSET Nat
      BY <1>1
    <3>2. PICK k \in Bad : \A l \in Bad : ~(l < k)
      <4> HIDE DEF Bad
      <4> QED
        BY <3>1, LeastNumber
    <3>3. k \in 1..n /\ list[k] \in Q
      BY <1>1
    <3>4. CASE k = 1
      <4>1. flat[k] = list[k]
        BY <2>10, <3>3, <3>4
      <4>2. Upto(k) = Range(list[k])
        <5>1. \A i \in 1..1 : i = 1
          OBVIOUS
        <5> QED
          BY <3>4, <5>1
      <4> QED
        BY <3>2, <3>3, <4>1, <4>2
    <3>5. CASE k # 1
      <4>1. k - 1 \in 1..n /\ k - 1 < k
        BY <1>1, <3>3, <3>5
      <4>2. k - 1 \notin Bad
        <5> HIDE DEF Bad
        <5> QED
          BY <3>2, <4>1
      <4>3. flat[k - 1] \in Q /\ Range(flat[k - 1]) = Upto(k - 1)
        BY <4>1, <4>2
      <4>4. flat[k] = flat[k - 1] \o list[k]
        BY <2>10, <3>3, <3>5
      <4>5. flat[k] \in Q /\ Range(flat[k]) = Range(flat[k - 1]) \cup Range(list[k])
        BY <3>3, <4>3, <4>4, ConcatProperties, RangeConcatenation DEF Q
      <4>6. Upto(k) = Upto(k - 1) \cup Range(list[k])
        <5>1. \A i \in 1..k : i = k \/ i \in 1..(k - 1)
          BY <1>1, <3>3
        <5>2. k \in 1..k /\ \A i \in 1..(k - 1) : i \in 1..k
          BY <1>1, <3>3
        <5> QED
          BY <5>1, <5>2
      <4> HIDE DEF Upto
      <4> QED
        BY <3>2, <3>3, <4>3, <4>5, <4>6
    <3> QED
      BY <3>4, <3>5
  <2>12. n \in 1..n
    BY <1>1, <1>3
  <2>13. flat[n] \in Q /\ Range(flat[n]) = Upto(n)
    BY <2>11, <2>12
  <2> QED
    BY <1>1, <2>1, <2>13 DEF Q
<1> QED
  BY <1>2, <1>3

(* The hits of a group that count, by context.                             *)
LEMMA NearHitsAre ==
    ASSUME NEW list \in Seq(Seq(Hit))
    PROVE  LET hits == FlattenSeq(list)
           IN  /\ \A t \in Types : \A k \in Near(hits, t) : hits[k] \in NearHits(list) /\ hits[k].type = t
               /\ \A h \in NearHits(list) :
                     h.type \in Types /\ \E k \in Near(hits, h.type) : hits[k] = h
<1> DEFINE hits == FlattenSeq(list)
<1>1. hits \in Seq(Hit) /\ Range(hits) = UNION {Range(list[k]) : k \in DOMAIN list}
  BY Flattened
<1> HIDE DEF hits
<1>2. \A h : h \in NearHits(list) <=> h \in Range(hits) /\ h.pos < MaxPos[h.type]
  BY <1>1 DEF NearHits
<1>3. ASSUME NEW t \in Types, NEW k \in Near(hits, t) PROVE hits[k] \in NearHits(list) /\ hits[k].type = t
  <2>1. k \in DOMAIN hits /\ hits[k].type = t /\ hits[k].pos < MaxPos[t]
    BY DEF Near
  <2>2. hits[k] \in Range(hits)
    BY <2>1 DEF Range
  <2> QED
    BY <1>2, <2>1, <2>2
<1>4. ASSUME NEW h \in NearHits(list) PROVE h.type \in Types /\ \E k \in Near(hits, h.type) : hits[k] = h
  <2>1. PICK k \in DOMAIN hits : hits[k] = h
    BY <1>2 DEF Range
  <2>2. h \in Hit
    BY <1>1, <2>1
  <2>3. k \in Near(hits, h.type)
    BY <1>2, <2>1 DEF Near
  <2> QED
    BY <2>1, <2>2, <2>3 DEF Hit
<1> QED
  BY <1>3, <1>4 DEF hits

LEMMA DistanceIs ==
    ASSUME NEW list1 \in Seq(Seq(Hit)), NEW list2 \in Seq(Seq(Hit)), Few(list1), Few(list2)
    PROVE  GetWordDistance(list1, list2) = LeastApart(list1, list2)
<1> DEFINE l1 == FlattenSeq(list1)
           l2 == FlattenSeq(list2)
           D(t) == Closest(Reached(Hops(l1, t)), Reached(Hops(l2, t)))
           all == {D(t) : t \in Types}
           least == CHOOSE d \in all : \A t \in Types : d <= D(t)
           pairs == {p \in NearHits(list1) \X NearHits(list2) : p[1].type = p[2].type}
           apart == {Between(p[1].pos, p[2].pos) : p \in pairs}
<1>1. GetWordDistance(list1, list2) = IF least < 2 THEN 1 ELSE least
  BY DEF GetWordDistance
<1>2. LeastApart(list1, list2) =
        IF apart = {} THEN FarAway ELSE IF Min(apart) < 2 THEN 1 ELSE Min(apart)
  BY DEF LeastApart, Between
<1>a. /\ l1 \in Seq(Hit) /\ \A t \in Types : Cardinality(Near(l1, t)) <= 2
      /\ l2 \in Seq(Hit) /\ \A t \in Types : Cardinality(Near(l2, t)) <= 2
  BY Flattened DEF Few
<1>b. /\ \A t \in Types : \A k \in Near(l1, t) : l1[k] \in NearHits(list1) /\ l1[k].type = t
      /\ \A t \in Types : \A k \in Near(l2, t) : l2[k] \in NearHits(list2) /\ l2[k].type = t
      /\ \A h \in NearHits(list1) : h.type \in Types /\ \E k \in Near(l1, h.type) : l1[k] = h
      /\ \A h \in NearHits(list2) : h.type \in Types /\ \E k \in Near(l2, h.type) : l2[k] = h
  BY NearHitsAre
<1> HIDE DEF l1, l2
<1>3. \A t \in Types : Nearest(D(t), l1, l2, t)
  BY <1>a, NearestIs
<1>4. ASSUME NEW t \in Types, NEW i \in Near(l1, t), NEW j \in Near(l2, t)
      PROVE  Between(l1[i].pos, l2[j].pos) \in apart
  <2> DEFINE p == <<l1[i], l2[j]>>
  <2>1. p \in pairs /\ p[1] = l1[i] /\ p[2] = l2[j]
    BY <1>b
  <2> QED
    BY <2>1
<1>5. ASSUME NEW x \in apart
      PROVE  \E t \in Types : \E i \in Near(l1, t) : \E j \in Near(l2, t) : x = Between(l1[i].pos, l2[j].pos)
  <2>1. PICK p \in pairs : x = Between(p[1].pos, p[2].pos)
    OBVIOUS
  <2>2. p[1] \in NearHits(list1) /\ p[2] \in NearHits(list2) /\ p[1].type = p[2].type
    OBVIOUS
  <2>3. PICK i \in Near(l1, p[1].type) : l1[i] = p[1]
    BY <1>b, <2>2
  <2>4. PICK j \in Near(l2, p[1].type) : l2[j] = p[2]
    BY <1>b, <2>2
  <2> QED
    BY <1>b, <2>1, <2>2, <2>3, <2>4
<1>6. ASSUME NEW x \in apart PROVE x \in Nat /\ x < FarAway
  <2>1. PICK t \in Types : \E i \in Near(l1, t) : \E j \in Near(l2, t) : x = Between(l1[i].pos, l2[j].pos)
    BY <1>5
  <2>2. PICK i \in Near(l1, t), j \in Near(l2, t) : x = Between(l1[i].pos, l2[j].pos)
    BY <2>1
  <2>3. l1[i].pos \in 0..126 /\ l2[j].pos \in 0..126
    BY <1>a, NearTyped
  <2> QED
    BY <2>2, <2>3, BetweenSmall
<1> HIDE DEF D, apart, pairs
<1>7. all # {} /\ all \in SUBSET Nat
  <2>1. "Content" \in Types
    BY DEF Types
  <2> QED
    BY <1>3, <2>1 DEF Nearest
<1>8. least \in all /\ \A t \in Types : least <= D(t)
  <2>1. PICK d \in all : \A e \in all : ~(e < d)
    <3> HIDE DEF all
    <3> QED
      BY <1>7, LeastNumber
  <2>2. \A t \in Types : d <= D(t)
    <3>1. \A t \in Types : D(t) \in all
      OBVIOUS
    <3> HIDE DEF all
    <3>2. \A e \in all : e \in Nat /\ d \in Nat /\ d <= e
      BY <1>7, <2>1
    <3> QED
      BY <3>1, <3>2
  <2> HIDE DEF all
  <2> QED
    BY <2>1, <2>2
<1> HIDE DEF least
<1>9. PICK s \in Types : least = D(s)
  BY <1>8
<1> HIDE DEF all
<1>10. least \in Nat /\ (least = FarAway \/ least \in apart)
  BY <1>3, <1>4, <1>9 DEF Nearest
<1>11. ASSUME NEW x \in apart PROVE least <= x
  <2>1. PICK t \in Types : \E i \in Near(l1, t) : \E j \in Near(l2, t) : x = Between(l1[i].pos, l2[j].pos)
    BY <1>5
  <2>2. D(t) <= x /\ D(t) \in Nat
    BY <1>3, <2>1 DEF Nearest
  <2> QED
    BY <1>6, <1>8, <1>10, <2>2
<1>12. CASE apart = {}
  BY <1>1, <1>2, <1>10, <1>12 DEF FarAway
<1>13. CASE apart # {}
  <2>1. least \in apart
    <3>1. PICK x \in apart : TRUE
      BY <1>13
    <3>2. x \in Nat /\ x < FarAway /\ least <= x
      BY <1>6, <1>11, <3>1
    <3> QED
      BY <1>10, <3>2 DEF FarAway
  <2>2. Min(apart) = least
    <3>1. \A x \in apart : least <= x
      BY <1>11
    <3>2. Min(apart) \in apart /\ \A x \in apart : Min(apart) <= x
      BY <2>1, <3>1 DEF Min
    <3>3. Min(apart) <= least /\ least <= Min(apart) /\ Min(apart) \in Nat
      BY <1>6, <2>1, <3>1, <3>2
    <3> QED
      BY <1>10, <3>3
  <2> QED
    BY <1>1, <1>2, <1>13, <2>2
<1> QED
  BY <1>12, <1>13

LEMMA DistanceFollows == IInv /\ LexInv => DistanceRight
<1> SUFFICES ASSUME IInv, LexInv, phase = "done" PROVE DistanceRight
  BY DEF DistanceRight
<1> DEFINE lex == file["lexdata"]
           entries == UNION {Range(lex[w]) : w \in DOMAIN lex}
           In(k) == {e \in entries : e.post = k}
           Groups(E) == {<<e.hits>> : e \in E} \cup {<<d.hits, e.hits>> : d, e \in E}
<1>1. ASSUME NEW groups \in SUBSET Seq(Seq(Hit)) PROVE Measured(groups)
  BY DistanceIs DEF Measured
<1>2. AnyMeasured
  BY <1>1, SearchIndexAssumption DEF AnyMeasured
<1>3. LexRight(text, lex, order, NewTotal)
  BY DEF LexInv
<1> HIDE DEF lex
<1>4. ASSUME NEW e \in entries PROVE e.hits \in Seq(Hit)
  <2>1. PICK w \in DOMAIN lex : e \in Range(lex[w])
    OBVIOUS
  <2>2. lex[w] \in Seq(Entry)
    BY <1>3, <2>1 DEF LexRight, ListRight
  <2>3. e \in Entry
    BY <2>1, <2>2 DEF Range
  <2> QED
    BY <2>3 DEF Entry
<1>5. \A k \in Msg : Measured(Groups(In(k)))
  <2>1. \A k \in Msg : \A e \in In(k) : e.hits \in Seq(Hit)
    BY <1>4
  <2>2. \A x, y \in Seq(Hit) : <<x>> \in Seq(Seq(Hit)) /\ <<x, y>> \in Seq(Seq(Hit))
    OBVIOUS
  <2> HIDE DEF entries, In
  <2>3. ASSUME NEW k \in Msg PROVE Groups(In(k)) \in SUBSET Seq(Seq(Hit))
    <3>1. ASSUME NEW g \in Groups(In(k)) PROVE g \in Seq(Seq(Hit))
      <4>1. CASE \E e \in In(k) : g = <<e.hits>>
        BY <2>1, <2>2, <4>1
      <4>2. CASE \E d, e \in In(k) : g = <<d.hits, e.hits>>
        BY <2>1, <2>2, <4>2
      <4> QED
        BY <4>1, <4>2
    <3> HIDE DEF Groups
    <3> QED
      BY <3>1
  <2> HIDE DEF Groups
  <2> QED
    BY <1>1, <2>3
<1> QED
  BY <1>2, <1>5 DEF DistanceRight, lex

(* Words with at most two hits in a context are as far apart as they are.  *)
THEOREM DistanceIsRight == Spec => []DistanceRight
BY Invariance, LexInvariance, DistanceFollows, PTL
=============================================================================
