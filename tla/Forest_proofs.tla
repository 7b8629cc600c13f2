---------------------------- MODULE Forest_proofs ----------------------------
(***************************************************************************)
(* Lemmas about threads: the messages above one, loops, and what linking   *)
(* one thread below another and cutting one do to them; and about the      *)
(* lists of children.  Above is a least set, so that none of them takes    *)
(* induction: what is above m lies in any set that holds m and is closed.  *)
(***************************************************************************)
EXTENDS Forest, FiniteSetTheorems, SequenceTheorems, WellFoundedInduction, TLAPS

Parents(S) == [S -> S \cup {NoParent}]

Closed(parent, S) == \A x \in S : parent[x] # NoParent => parent[x] \in S

LEMMA AboveSelf ==
    ASSUME NEW M, NEW parent \in Parents(M), NEW m \in M
    PROVE  m \in Above(parent, m) /\ Above(parent, m) \subseteq M
BY DEF Above, Parents

LEMMA AboveClosed ==
    ASSUME NEW M, NEW parent \in Parents(M), NoParent \notin M, NEW m \in M
    PROVE  Closed(parent, Above(parent, m))
BY DEF Above, Closed, Parents

LEMMA AboveLeast ==
    ASSUME NEW M, NEW parent \in Parents(M), NEW m \in M,
           NEW S \in SUBSET M, m \in S, Closed(parent, S)
    PROVE  Above(parent, m) \subseteq S
BY DEF Above, Closed, Parents

LEMMA AboveTrans ==
    ASSUME NEW M, NEW parent \in Parents(M), NoParent \notin M, NEW m \in M,
           NEW x \in Above(parent, m)
    PROVE  x \in M /\ Above(parent, x) \subseteq Above(parent, m)
BY AboveSelf, AboveClosed, AboveLeast

LEMMA AboveStep ==
    ASSUME NEW M, NEW parent \in Parents(M), NoParent \notin M, NEW m \in M
    PROVE  /\ parent[m] = NoParent => Above(parent, m) = {m}
           /\ parent[m] # NoParent => Above(parent, m) = {m} \cup Above(parent, parent[m])
<1>1. CASE parent[m] = NoParent
  <2>1. {m} \in SUBSET M /\ Closed(parent, {m})
    BY <1>1 DEF Closed
  <2>2. Above(parent, m) \subseteq {m}
    BY <2>1, AboveLeast
  <2> QED
    BY <1>1, <2>2, AboveSelf
<1>2. CASE parent[m] # NoParent
  <2>1. parent[m] \in M
    BY <1>2 DEF Parents
  <2>2. Closed(parent, {m} \cup Above(parent, parent[m]))
    BY <2>1, AboveSelf, AboveClosed DEF Closed
  <2>3. Above(parent, m) \subseteq {m} \cup Above(parent, parent[m])
    BY <2>1, <2>2, AboveSelf, AboveLeast
  <2>4. parent[m] \in Above(parent, m)
    BY <1>2, AboveSelf, AboveClosed DEF Closed
  <2> QED
    BY <1>2, <2>3, <2>4, AboveSelf, AboveTrans
<1> QED
  BY <1>1, <1>2

(* Whoever is above a message is above or below the top of its thread, so  *)
(* that a thread has one top.                                              *)
LEMMA TopIsAbove ==
    ASSUME NEW M, NEW parent \in Parents(M), NoParent \notin M, NEW m \in M,
           NEW top \in Above(parent, m), parent[top] = NoParent,
           NEW x \in Above(parent, m)
    PROVE  /\ top \in Above(parent, x)
           /\ parent[x] = NoParent => x = top
<1> DEFINE S == {y \in Above(parent, m) : top \in Above(parent, y)}
<1>1. m \in S /\ S \in SUBSET M
  BY AboveSelf
<1>2. Closed(parent, S)
  <2> SUFFICES ASSUME NEW y \in S, parent[y] # NoParent PROVE parent[y] \in S
    BY DEF Closed
  <2>1. y \in M /\ y # top /\ parent[y] \in Above(parent, m)
    BY AboveSelf, AboveClosed DEF Closed
  <2>2. top \in Above(parent, parent[y])
    BY <2>1, AboveStep
  <2> QED
    BY <2>1, <2>2
<1>3. top \in Above(parent, x)
  BY <1>1, <1>2, AboveLeast
<1>4. x \in M
  BY AboveSelf
<1> QED
  BY <1>3, <1>4, AboveStep

(* Whoever is above a message of a loop is on that loop.                   *)
LEMMA LoopIsRound ==
    ASSUME NEW M, NEW parent \in Parents(M), NoParent \notin M, NEW x \in M,
           parent[x] # NoParent, x \in Above(parent, parent[x]), NEW y \in Above(parent, x)
    PROVE  y \in M /\ x \in Above(parent, y)
<1> DEFINE L == {z \in Above(parent, x) : x \in Above(parent, z)}
<1>1. x \in L /\ L \in SUBSET M
  BY AboveSelf
<1>2. Closed(parent, L)
  <2> SUFFICES ASSUME NEW z \in L, parent[z] # NoParent PROVE parent[z] \in L
    BY DEF Closed
  <2>1. z \in M /\ parent[z] \in Above(parent, x)
    BY <1>1, AboveClosed DEF Closed
  <2>2. x \in Above(parent, parent[z])
    BY <2>1, AboveStep
  <2> QED
    BY <2>1, <2>2
<1> QED
  BY <1>1, <1>2, AboveLeast

(* Nothing above a message of a loop is a top.                             *)
LEMMA LoopHasNoTop ==
    ASSUME NEW M, NEW parent \in Parents(M), NoParent \notin M, NEW x \in M,
           parent[x] # NoParent, x \in Above(parent, parent[x]), NEW top \in Above(parent, x)
    PROVE  parent[top] # NoParent
<1> SUFFICES ASSUME parent[top] = NoParent PROVE FALSE
  OBVIOUS
<1>1. top \in M /\ x \in Above(parent, top)
  BY LoopIsRound
<1>2. x = top
  BY <1>1, AboveStep
<1> QED
  BY <1>2

(* A graph that lacks some of the edges of another one.                    *)
Subgraph(M, parent, whole) ==
    \A m \in M : parent[m] = whole[m] \/ parent[m] = NoParent

LEMMA SubgraphAbove ==
    ASSUME NEW M, NEW parent \in Parents(M), NEW whole \in Parents(M), NoParent \notin M,
           Subgraph(M, parent, whole), NEW m \in M
    PROVE  Above(parent, m) \subseteq Above(whole, m)
<1>1. Above(whole, m) \in SUBSET M /\ m \in Above(whole, m)
  BY AboveSelf
<1>2. Closed(parent, Above(whole, m))
  BY <1>1, AboveClosed DEF Closed, Subgraph
<1> QED
  BY <1>1, <1>2, AboveLeast

(* A loop that is left was left whole.                                     *)
LEMMA LoopWasWhole ==
    ASSUME NEW M, NEW parent \in Parents(M), NEW whole \in Parents(M), NoParent \notin M,
           Subgraph(M, parent, whole), NEW x \in M,
           parent[x] # NoParent, x \in Above(parent, parent[x])
    PROVE  /\ whole[x] = parent[x] /\ x \in Above(whole, whole[x])
           /\ \A y \in Above(whole, x) : parent[y] # NoParent
<1>1. whole[x] = parent[x] /\ parent[x] \in M
  BY DEF Subgraph, Parents
<1>2. x \in Above(whole, whole[x])
  BY <1>1, SubgraphAbove
<1>3. \A y \in Above(parent, x) : parent[y] # NoParent
  BY LoopHasNoTop
<1>4. Above(parent, x) \in SUBSET M /\ x \in Above(parent, x)
  BY AboveSelf
<1>5. Closed(whole, Above(parent, x))
  BY <1>3, <1>4, AboveClosed DEF Closed, Subgraph
<1>6. Above(whole, x) \subseteq Above(parent, x)
  BY <1>4, <1>5, AboveLeast
<1> QED
  BY <1>1, <1>2, <1>3, <1>6

Topped(parent, m) == \E top \in Above(parent, m) : parent[top] = NoParent

LEMMA ToppedIsAcyclic ==
    ASSUME NEW M, NEW parent \in Parents(M), NoParent \notin M,
           \A m \in M : Topped(parent, m)
    PROVE  Acyclic(parent)
<1> SUFFICES ASSUME NEW m \in M, parent[m] # NoParent, m \in Above(parent, parent[m])
             PROVE  FALSE
  BY DEF Acyclic, Parents
<1> QED
  BY LoopHasNoTop DEF Topped

(* A message cut off becomes the top of what was below it, and all tops    *)
(* remain.                                                                 *)
LEMMA CutKeepsTops ==
    ASSUME NEW M, NEW parent \in Parents(M), NoParent \notin M, NEW c \in M, NEW m \in M,
           Topped(parent, m) \/ c \in Above(parent, m)
    PROVE  /\ [parent EXCEPT ![c] = NoParent] \in Parents(M)
           /\ Topped([parent EXCEPT ![c] = NoParent], m)
<1> DEFINE cut == [parent EXCEPT ![c] = NoParent]
<1>1. cut \in Parents(M) /\ \A x \in M : cut[x] = IF x = c THEN NoParent ELSE parent[x]
  BY DEF Parents
<1> HIDE DEF cut
<1> DEFINE S == Above(cut, m)
<1>2. m \in S /\ S \subseteq M /\ Closed(cut, S)
  BY <1>1, AboveSelf, AboveClosed
<1>3. c \in S => Topped(cut, m)
  BY <1>1 DEF Topped
<1>4. ASSUME c \notin S PROVE Topped(cut, m)
  <2>1. Closed(parent, S)
    BY <1>1, <1>2, <1>4 DEF Closed
  <2>2. Above(parent, m) \subseteq S
    BY <1>2, <2>1, AboveLeast
  <2>3. PICK top \in Above(parent, m) : parent[top] = NoParent
    BY <1>4, <2>2 DEF Topped
  <2>4. top \in S /\ top \in M /\ top # c
    BY <1>2, <1>4, <2>2
  <2>5. cut[top] = NoParent
    BY <1>1, <2>3, <2>4
  <2> QED
    BY <2>4, <2>5 DEF Topped
<1> QED
  BY <1>1, <1>3, <1>4 DEF cut

(* Two messages above a third are above one another.                       *)
LEMMA AboveIsChain ==
    ASSUME NEW M, NEW parent \in Parents(M), NoParent \notin M, NEW m \in M,
           NEW x \in Above(parent, m), NEW y \in Above(parent, m)
    PROVE  x \in Above(parent, y) \/ y \in Above(parent, x)
<1> DEFINE S == {z \in Above(parent, m) : x \in Above(parent, z) \/ z \in Above(parent, x)}
<1>1. m \in S /\ S \in SUBSET M
  BY AboveSelf
<1>2. Closed(parent, S)
  <2> SUFFICES ASSUME NEW z \in S, parent[z] # NoParent PROVE parent[z] \in S
    BY DEF Closed
  <2>1. z \in M /\ x \in M /\ parent[z] \in M /\ parent[z] \in Above(parent, m)
    BY <1>1, AboveSelf, AboveClosed DEF Closed, Parents
  <2>2. CASE x \in Above(parent, z)
    <3>1. x = z \/ x \in Above(parent, parent[z])
      BY <2>1, <2>2, AboveStep
    <3>2. parent[z] \in Above(parent, z)
      BY <2>1, AboveSelf, AboveClosed DEF Closed
    <3> QED
      BY <2>1, <3>1, <3>2
  <2>3. CASE z \in Above(parent, x)
    BY <2>1, <2>3, AboveClosed DEF Closed
  <2> QED
    BY <2>2, <2>3
<1> QED
  BY <1>1, <1>2, AboveLeast

(* A thread is its top and the threads of its children, which share        *)
(* nothing.                                                                *)
LEMMA BelowSplit ==
    ASSUME NEW M, NEW parent \in Parents(M), NoParent \notin M, NEW m \in M
    PROVE  Below(parent, m) =
              {m} \cup UNION {Below(parent, c) : c \in {c \in M : parent[c] = m}}
<1>1. \A x \in M : Below(parent, x) = {d \in M : x \in Above(parent, d)}
  BY DEF Below, Parents
<1>2. ASSUME NEW d \in M, m \in Above(parent, d), d # m
      PROVE  \E c \in M : parent[c] = m /\ c \in Above(parent, d)
  <2> DEFINE T == {x \in Above(parent, d) : x # m}
  <2> SUFFICES ASSUME \A c \in Above(parent, d) : parent[c] # m PROVE FALSE
    BY AboveSelf
  <2>1. T \in SUBSET M /\ d \in T
    BY <1>2, AboveSelf
  <2>2. Closed(parent, T)
    BY <2>1, AboveClosed DEF Closed
  <2> QED
    BY <1>2, <2>1, <2>2, AboveLeast
<1>3. ASSUME NEW c \in M, parent[c] = m, NEW d \in M, c \in Above(parent, d)
      PROVE  m \in Above(parent, d)
  BY <1>3, AboveClosed DEF Closed
<1> QED
  BY <1>1, <1>2, <1>3, AboveSelf

LEMMA BelowApart ==
    ASSUME NEW M, NEW parent \in Parents(M), NoParent \notin M, Acyclic(parent),
           NEW m \in M, NEW c \in M, parent[c] = m
    PROVE  /\ m \notin Below(parent, c)
           /\ \A d \in M : parent[d] = m /\ d # c => Below(parent, c) \cap Below(parent, d) = {}
<1>1. \A x \in M : Below(parent, x) = {d \in M : x \in Above(parent, d)}
  BY DEF Below, Parents
<1>2. \A x \in M : parent[x] = m => x \notin Above(parent, m)
  BY DEF Acyclic, Parents
<1>3. ASSUME NEW x \in M, NEW y \in M, x # y, parent[x] = m, parent[y] = m
      PROVE  x \notin Above(parent, y)
  <2>1. Above(parent, y) = {y} \cup Above(parent, m)
    BY <1>3, AboveStep
  <2> QED
    BY <1>2, <1>3, <2>1
<1>4. ASSUME NEW d \in M, parent[d] = m, d # c, NEW x \in Below(parent, c), x \in Below(parent, d)
      PROVE  FALSE
  <2>1. x \in M /\ c \in Above(parent, x) /\ d \in Above(parent, x)
    BY <1>1, <1>4
  <2>2. c \in Above(parent, d) \/ d \in Above(parent, c)
    BY <2>1, AboveIsChain
  <2> QED
    BY <1>3, <1>4, <2>2
<1> QED
  BY <1>1, <1>2, <1>4

(* The thread of the top c is put below n, which is not in it.             *)
Attached(M, parent, linked, c, n) ==
    /\ linked \in Parents(M)
    /\ c \in M /\ n \in M /\ parent[c] = NoParent /\ c \notin Above(parent, n)
    /\ \A x \in M : linked[x] = IF x = c THEN n ELSE parent[x]

LEMMA AttachLeaves ==
    ASSUME NEW M, NEW parent \in Parents(M), NoParent \notin M, NEW linked, NEW c, NEW n,
           Attached(M, parent, linked, c, n), NEW m \in M, c \notin Above(parent, m)
    PROVE  Above(linked, m) = Above(parent, m)
<1>1. linked \in Parents(M) /\ \A x \in M : linked[x] = IF x = c THEN n ELSE parent[x]
  BY DEF Attached
<1>2. Above(linked, m) \subseteq Above(parent, m)
  <2>1. Closed(linked, Above(parent, m))
    BY <1>1, AboveSelf, AboveClosed DEF Closed
  <2> QED
    BY <1>1, <2>1, AboveSelf, AboveLeast
<1>3. Closed(parent, Above(linked, m))
  <2>1. Closed(linked, Above(linked, m)) /\ Above(linked, m) \subseteq M
    BY <1>1, AboveSelf, AboveClosed
  <2> QED
    BY <1>1, <1>2, <2>1 DEF Closed
<1>4. m \in Above(linked, m) /\ Above(linked, m) \subseteq M
  BY <1>1, AboveSelf
<1> QED
  BY <1>2, <1>3, <1>4, AboveLeast

LEMMA AttachExtends ==
    ASSUME NEW M, NEW parent \in Parents(M), NoParent \notin M, NEW linked, NEW c, NEW n,
           Attached(M, parent, linked, c, n), NEW m \in M, c \in Above(parent, m)
    PROVE  Above(linked, m) = Above(parent, m) \cup Above(parent, n)
<1>1. /\ linked \in Parents(M) /\ c \in M /\ n \in M /\ c \notin Above(parent, n)
      /\ \A x \in M : linked[x] = IF x = c THEN n ELSE parent[x]
  BY DEF Attached
<1>2. Above(linked, n) = Above(parent, n)
  BY <1>1, AttachLeaves
<1> DEFINE U == Above(parent, m) \cup Above(parent, n)
           S == Above(linked, m)
<1>3. U \subseteq M /\ m \in U /\ n \in U
  BY <1>1, AboveSelf
<1>4. Closed(linked, U)
  BY <1>1, <1>3, AboveClosed DEF Closed
<1>5. S \subseteq U
  BY <1>1, <1>3, <1>4, AboveLeast
<1>6. S \subseteq M /\ m \in S /\ Closed(linked, S)
  BY <1>1, AboveSelf, AboveClosed
<1>7. Closed(parent, S)
  <2> SUFFICES ASSUME NEW x \in S, parent[x] # NoParent PROVE parent[x] \in S
    BY DEF Closed
  <2>1. parent[c] = NoParent
    BY DEF Attached
  <2> QED
    BY <1>1, <1>6, <2>1 DEF Closed
<1>8. Above(parent, m) \subseteq S
  BY <1>6, <1>7, AboveLeast
<1>9. n \in S
  BY <1>1, <1>6, <1>8 DEF Closed
<1>10. Above(linked, n) \subseteq S
  BY <1>1, <1>9, AboveTrans
<1> QED
  BY <1>2, <1>5, <1>8, <1>10

LEMMA AttachKeepsAcyclic ==
    ASSUME NEW M, NEW parent \in Parents(M), NoParent \notin M, Acyclic(parent), NEW linked,
           NEW c, NEW n, Attached(M, parent, linked, c, n)
    PROVE  Acyclic(linked)
<1>1. /\ linked \in Parents(M) /\ c \in M /\ n \in M /\ c \notin Above(parent, n)
      /\ \A x \in M : linked[x] = IF x = c THEN n ELSE parent[x]
  BY DEF Attached
<1>2. SUFFICES ASSUME NEW m \in M, linked[m] # NoParent, m \in Above(linked, linked[m])
               PROVE  FALSE
  BY <1>1 DEF Acyclic, Parents
<1>3. CASE m = c
  BY <1>1, <1>2, <1>3, AttachLeaves
<1>4. CASE m # c
  <2>1. parent[m] \in M /\ linked[m] = parent[m] /\ m \notin Above(parent, parent[m])
    BY <1>1, <1>2, <1>4 DEF Acyclic, Parents
  <2>2. c \in Above(parent, parent[m])
    BY <1>2, <2>1, AttachLeaves
  <2>3. m \in Above(parent, n)
    BY <1>2, <2>1, <2>2, AttachExtends
  <2>4. c \in Above(parent, m)
    BY <2>1, <2>2, AboveStep
  <2> QED
    BY <1>1, <2>3, <2>4, AboveTrans
<1> QED
  BY <1>3, <1>4

(* The new parent and all above it gain the thread of c, no other does.    *)
LEMMA AttachCounts ==
    ASSUME NEW M, IsFiniteSet(M), NEW parent \in Parents(M), NoParent \notin M, NEW linked,
           NEW c, NEW n, Attached(M, parent, linked, c, n), NEW m \in M
    PROVE  Cardinality(Below(linked, m)) =
              IF m \in Above(parent, n)
              THEN Cardinality(Below(parent, m)) + Cardinality(Below(parent, c))
              ELSE Cardinality(Below(parent, m))
<1>1. /\ linked \in Parents(M) /\ c \in M /\ n \in M /\ parent[c] = NoParent
      /\ c \notin Above(parent, n)
  BY DEF Attached
<1>2. \A d \in M : c \notin Above(parent, d) => Above(linked, d) = Above(parent, d)
  BY AttachLeaves
<1>3. \A d \in M : c \in Above(parent, d) =>
                      Above(linked, d) = Above(parent, d) \cup Above(parent, n)
  BY AttachExtends
<1>4. /\ Below(linked, m) = {d \in M : m \in Above(linked, d)}
      /\ \A x \in M : Below(parent, x) = {d \in M : x \in Above(parent, d)}
  BY <1>1 DEF Below, Parents
<1>5. CASE m \notin Above(parent, n)
  <2>1. Below(linked, m) = Below(parent, m)
    BY <1>2, <1>3, <1>4, <1>5
  <2> QED
    BY <1>5, <2>1
<1>6. CASE m \in Above(parent, n)
  <2>1. Below(linked, m) = Below(parent, m) \cup Below(parent, c)
    BY <1>1, <1>2, <1>3, <1>4, <1>6
  <2>2. ASSUME NEW d \in Below(parent, m), d \in Below(parent, c) PROVE FALSE
    <3>1. d \in M /\ m \in Above(parent, d) /\ c \in Above(parent, d)
      BY <1>1, <1>4, <2>2
    <3>2. c \in Above(parent, m)
      BY <1>1, <3>1, TopIsAbove
    <3> QED
      BY <1>1, <1>6, <3>2, AboveTrans
  <2>3. Below(parent, m) \cap Below(parent, c) = {}
    BY <2>2
  <2>4. IsFiniteSet(Below(parent, m)) /\ IsFiniteSet(Below(parent, c))
    BY <1>1, <1>4, FS_Subset
  <2>5. Cardinality(Below(linked, m)) =
           Cardinality(Below(parent, m)) + Cardinality(Below(parent, c)) - Cardinality({})
    BY <2>1, <2>3, <2>4, FS_Union
  <2>6. Cardinality({}) = 0
    BY FS_EmptySet
  <2>7. Cardinality(Below(parent, m)) \in Nat /\ Cardinality(Below(parent, c)) \in Nat
    BY <2>4, FS_CardinalityType
  <2>8. Cardinality(Below(linked, m)) = Cardinality(Below(parent, m)) + Cardinality(Below(parent, c))
    BY <2>5, <2>6, <2>7
  <2> QED
    BY <1>6, <2>8
<1> QED
  BY <1>5, <1>6
-----------------------------------------------------------------------------
(* Lists without repetition.                                               *)
List(S) == {s \in Seq(S) : IsInjective(s)}

LEMMA ListOfMore ==
    ASSUME NEW S, NEW T, S \subseteq T, NEW s \in List(S)
    PROVE  s \in List(T)
BY DEF List

LEMMA AppendList ==
    ASSUME NEW S, NEW s \in List(S), NEW x \in S, x \notin Range(s)
    PROVE  Append(s, x) \in List(S) /\ Range(Append(s, x)) = Range(s) \cup {x}
<1>1. s \in Seq(S) /\ Len(s) \in Nat /\ DOMAIN s = 1..Len(s)
  BY DEF List
<1>2. /\ Append(s, x) \in Seq(S) /\ DOMAIN Append(s, x) = 1..(Len(s) + 1)
      /\ \A k \in 1..Len(s) : Append(s, x)[k] = s[k]
      /\ Append(s, x)[Len(s) + 1] = x
  BY <1>1
<1>3. \A k \in 1..Len(s) : s[k] # x
  BY <1>1 DEF Range
<1>4. IsInjective(Append(s, x))
  BY <1>1, <1>2, <1>3 DEF IsInjective, List
<1>5. Range(Append(s, x)) = Range(s) \cup {x}
  BY <1>1, <1>2 DEF Range
<1> QED
  BY <1>2, <1>4, <1>5 DEF List

(* The parts of a list around its j-th place.                              *)
LEMMA Parts ==
    ASSUME NEW S, NEW s \in Seq(S), NEW j \in 1..Len(s)
    PROVE  LET p == SubSeq(s, 1, j - 1)
               q == SubSeq(s, j + 1, Len(s))
           IN  /\ p \in Seq(S) /\ Len(p) = j - 1 /\ \A k \in 1..(j - 1) : p[k] = s[k]
               /\ q \in Seq(S) /\ Len(q) = Len(s) - j
               /\ \A k \in 1..(Len(s) - j) : q[k] = s[k + j]
<1>1. Len(s) \in Nat /\ j \in Int /\ 1 <= j /\ j <= Len(s)
  BY LenProperties
<1>2. \A k \in 1..Len(s) : s[k] \in S
  BY ElementOfSeq
<1>3. \A k \in 1..(j - 1) : s[k] \in S
  BY <1>1, <1>2
<1>4. \A k \in (j + 1)..Len(s) : s[k] \in S
  BY <1>1, <1>2
<1>5. /\ SubSeq(s, 1, j - 1) \in Seq(S) /\ Len(SubSeq(s, 1, j - 1)) = j - 1
      /\ \A k \in 1..(j - 1) : SubSeq(s, 1, j - 1)[k] = s[k]
  <2>1. j - 1 + 1 = j /\ 1 + j - 1 - 1 = j - 1
    BY <1>1
  <2> QED
    BY <1>1, <1>3, SubSeqProperties
<1>6. /\ SubSeq(s, j + 1, Len(s)) \in Seq(S) /\ Len(SubSeq(s, j + 1, Len(s))) = Len(s) - j
      /\ \A k \in 1..(Len(s) - j) : SubSeq(s, j + 1, Len(s))[k] = s[k + j]
  BY <1>1, <1>4, SubSeqProperties
<1> QED
  BY <1>5, <1>6

LEMMA WithoutPlace ==
    ASSUME NEW S, NEW s \in Seq(S), NEW j \in 1..Len(s)
    PROVE  LET r == SubSeq(s, 1, j - 1) \o SubSeq(s, j + 1, Len(s))
           IN  /\ r \in Seq(S) /\ DOMAIN r = 1..(Len(s) - 1)
               /\ \A k \in 1..(Len(s) - 1) : r[k] = IF k < j THEN s[k] ELSE s[k + 1]
<1> DEFINE p == SubSeq(s, 1, j - 1)
           q == SubSeq(s, j + 1, Len(s))
<1>1. /\ p \in Seq(S) /\ Len(p) = j - 1 /\ \A k \in 1..(j - 1) : p[k] = s[k]
      /\ q \in Seq(S) /\ Len(q) = Len(s) - j
      /\ \A k \in 1..(Len(s) - j) : q[k] = s[k + j]
  BY Parts
<1> HIDE DEF p, q
<1> DEFINE r == p \o q
<1>2. /\ r \in Seq(S) /\ Len(r) = Len(p) + Len(q)
      /\ \A k \in 1..Len(p) + Len(q) : r[k] = IF k <= Len(p) THEN p[k] ELSE q[k - Len(p)]
  BY <1>1, ConcatProperties
<1> HIDE DEF r
<1>3. Len(s) \in Nat /\ Len(p) + Len(q) = Len(s) - 1
  BY <1>1, LenProperties
<1>4. DOMAIN r = 1..(Len(s) - 1)
  BY <1>2, <1>3, LenProperties
<1>5. ASSUME NEW k \in 1..(Len(s) - 1) PROVE r[k] = IF k < j THEN s[k] ELSE s[k + 1]
  <2>1. CASE k < j
    <3>1. k \in 1..(j - 1) /\ k <= Len(p)
      BY <1>1, <1>3, <2>1
    <3> QED
      BY <1>1, <1>2, <1>3, <2>1, <3>1
  <2>2. CASE ~(k < j)
    <3>1. k - (j - 1) \in 1..(Len(s) - j) /\ ~(k <= Len(p)) /\ k - (j - 1) + j = k + 1
      BY <1>1, <1>3, <2>2
    <3>2. r[k] = q[k - (j - 1)]
      BY <1>1, <1>2, <1>3, <3>1
    <3> QED
      BY <1>1, <2>2, <3>1, <3>2
  <2> QED
    BY <2>1, <2>2
<1>6. /\ r \in Seq(S) /\ DOMAIN r = 1..(Len(s) - 1)
      /\ \A k \in 1..(Len(s) - 1) : r[k] = IF k < j THEN s[k] ELSE s[k + 1]
  BY <1>2, <1>4, <1>5
<1> QED
  BY ONLY <1>6, Zenon DEF r, p, q

LEMMA RemovedPlace ==
    ASSUME NEW S, NEW s \in List(S), NEW x \in Range(s)
    PROVE  \E j \in 1..Len(s) :
              /\ s[j] = x /\ RemoveFirst(s, x) \in Seq(S)
              /\ DOMAIN RemoveFirst(s, x) = 1..(Len(s) - 1)
              /\ \A k \in 1..(Len(s) - 1) :
                    RemoveFirst(s, x)[k] = IF k < j THEN s[k] ELSE s[k + 1]
<1>1. s \in Seq(S) /\ Len(s) \in Nat /\ DOMAIN s = 1..Len(s)
  BY DEF List
<1>2. PICK j \in 1..Len(s) : s[j] = x
  BY <1>1 DEF Range
<1>3. \A k, l \in 1..Len(s) : s[k] = s[l] => k = l
  BY <1>1 DEF List, IsInjective
<1> DEFINE r == SubSeq(s, 1, j - 1) \o SubSeq(s, j + 1, Len(s))
<1>4. RemoveFirst(s, x) = r
  <2>1. {i \in 1..Len(s) : s[i] = x} = {j}
    BY <1>2, <1>3
  <2>2. SelectInSeq(s, LAMBDA v : v = x) = j
    <3>1. Min({j}) = j
      BY <1>2 DEF Min
    <3> QED
      BY <2>1, <3>1 DEF SelectInSeq
  <2> QED
    BY <1>2, <2>2 DEF RemoveFirst, RemoveAt
<1>5. /\ r \in Seq(S) /\ DOMAIN r = 1..(Len(s) - 1)
      /\ \A k \in 1..(Len(s) - 1) : r[k] = IF k < j THEN s[k] ELSE s[k + 1]
  BY <1>1, WithoutPlace, Zenon
<1> HIDE DEF r
<1> QED
  BY <1>2, <1>4, <1>5

LEMMA RemoveList ==
    ASSUME NEW S, NEW s \in List(S), NEW x \in Range(s)
    PROVE  RemoveFirst(s, x) \in List(S) /\ Range(RemoveFirst(s, x)) = Range(s) \ {x}
<1>1. s \in Seq(S) /\ Len(s) \in Nat /\ DOMAIN s = 1..Len(s)
  BY DEF List
<1>3. \A k, l \in 1..Len(s) : s[k] = s[l] => k = l
  BY <1>1 DEF List, IsInjective
<1> DEFINE r == RemoveFirst(s, x)
<1>2. PICK j \in 1..Len(s) :
         /\ s[j] = x /\ r \in Seq(S) /\ DOMAIN r = 1..(Len(s) - 1)
         /\ \A k \in 1..(Len(s) - 1) : r[k] = IF k < j THEN s[k] ELSE s[k + 1]
  BY RemovedPlace
<1>5. /\ r \in Seq(S) /\ DOMAIN r = 1..(Len(s) - 1)
      /\ \A k \in 1..(Len(s) - 1) : r[k] = IF k < j THEN s[k] ELSE s[k + 1]
  BY <1>2
<1> HIDE DEF r
<1>6. \A k, l \in DOMAIN r : r[k] = r[l] => k = l
  <2> SUFFICES ASSUME NEW k \in DOMAIN r, NEW l \in DOMAIN r, r[k] = r[l] PROVE k = l
    OBVIOUS
  <2>1. k \in 1..Len(s) /\ k + 1 \in 1..Len(s) /\ l \in 1..Len(s) /\ l + 1 \in 1..Len(s)
    BY <1>1, <1>5
  <2>2. CASE k < j /\ l < j
    BY <1>3, <1>5, <2>1, <2>2
  <2>3. CASE k < j /\ ~(l < j)
    BY <1>1, <1>3, <1>5, <2>1, <2>3
  <2>4. CASE ~(k < j) /\ l < j
    BY <1>1, <1>3, <1>5, <2>1, <2>4
  <2>5. CASE ~(k < j) /\ ~(l < j)
    BY <1>1, <1>3, <1>5, <2>1, <2>5
  <2> QED
    BY <2>2, <2>3, <2>4, <2>5
<1>7. Range(r) = Range(s) \ {x}
  <2>1. ASSUME NEW k \in DOMAIN r PROVE \E l \in DOMAIN s : l # j /\ s[l] = r[k]
    <3>1. k \in 1..Len(s) /\ k + 1 \in 1..Len(s) /\ k \in Int
      BY <1>1, <1>5
    <3>2. CASE k < j
      BY <1>1, <1>5, <3>1, <3>2
    <3>3. CASE ~(k < j)
      <4>1. k + 1 # j /\ s[k + 1] = r[k]
        BY <1>1, <1>5, <3>1, <3>3
      <4> QED
        BY <1>1, <3>1, <4>1
    <3> QED
      BY <3>2, <3>3
  <2>2. ASSUME NEW k \in DOMAIN s, s[k] # x PROVE \E l \in DOMAIN r : r[l] = s[k]
    <3>1. CASE k < j
      <4>1. k \in 1..(Len(s) - 1)
        BY <1>1, <3>1
      <4> QED
        BY <1>5, <3>1, <4>1
    <3>2. CASE k > j
      <4>1. k - 1 \in 1..(Len(s) - 1) /\ ~(k - 1 < j) /\ k - 1 + 1 = k
        BY <1>1, <3>2
      <4>2. r[k - 1] = s[k]
        BY <1>5, <4>1
      <4> QED
        BY <1>5, <4>1, <4>2
    <3>3. k # j
      BY <1>2, <2>2
    <3> QED
      BY <1>1, <3>1, <3>2, <3>3
  <2>3. \A k \in DOMAIN r : r[k] \in Range(s) \ {x}
    BY <1>1, <1>2, <1>3, <2>1 DEF Range
  <2> QED
    BY <2>2, <2>3 DEF Range
<1> QED
  BY <1>5, <1>6, <1>7 DEF List, IsInjective, r

LEMMA RemoveKeepsOrder ==
    ASSUME NEW S, NEW s \in List(S), NEW x \in Range(s), NEW t \in [S -> Int],
           Chronological(s, t)
    PROVE  Chronological(RemoveFirst(s, x), t)
<1> DEFINE r == RemoveFirst(s, x)
<1>1. s \in Seq(S) /\ Len(s) \in Nat /\ \A k \in 1..Len(s) : s[k] \in S /\ t[s[k]] \in Int
  BY DEF List
<1>2. PICK j \in 1..Len(s) :
         /\ s[j] = x /\ r \in Seq(S) /\ DOMAIN r = 1..(Len(s) - 1)
         /\ \A k \in 1..(Len(s) - 1) : r[k] = IF k < j THEN s[k] ELSE s[k + 1]
  BY RemovedPlace
<1> HIDE DEF r
<1>3. Len(r) = Len(s) - 1
  BY <1>1, <1>2
<1>4. \A k \in 1..(Len(s) - 1) : t[s[k]] <= t[s[k + 1]]
  BY DEF Chronological
<1>5. ASSUME NEW k \in 1..(Len(r) - 1) PROVE t[r[k]] <= t[r[k + 1]]
  <2>1. /\ k \in 1..(Len(s) - 1) /\ k + 1 \in 1..(Len(s) - 1)
        /\ k \in 1..Len(s) /\ k + 1 \in 1..Len(s) /\ k + 2 \in 1..Len(s) /\ k + 1 + 1 = k + 2
    BY <1>1, <1>3
  <2>2. /\ t[s[k]] <= t[s[k + 1]] /\ t[s[k + 1]] <= t[s[k + 2]]
        /\ t[s[k]] \in Int /\ t[s[k + 1]] \in Int /\ t[s[k + 2]] \in Int
    BY <1>1, <1>4, <2>1
  <2>3. t[s[k]] <= t[s[k + 2]]
    BY <2>2
  <2>4. r[k] \in {s[k], s[k + 1]} /\ r[k + 1] \in {s[k + 1], s[k + 2]} /\ (r[k] = s[k] \/ r[k + 1] = s[k + 2])
    <3>1. /\ r[k] = IF k < j THEN s[k] ELSE s[k + 1]
          /\ r[k + 1] = IF k + 1 < j THEN s[k + 1] ELSE s[k + 2]
      BY <1>2, <2>1
    <3> QED
      BY <2>1, <3>1
  <2> QED
    BY <2>2, <2>3, <2>4
<1> QED
  BY <1>5 DEF Chronological, r

LEMMA SortedList ==
    ASSUME NEW S, IsFiniteSet(S), NEW s \in SetToSeqs(S)
    PROVE  s \in List(S) /\ Range(s) = S
<1> DEFINE n == Cardinality(S)
<1>1. n \in Nat
  BY FS_CardinalityType
<1>2. s \in [1..n -> S] /\ \A i, j \in 1..n : i # j => s[i] # s[j]
  BY DEF SetToSeqs
<1>3. s \in Seq(S) /\ IsInjective(s)
  BY <1>1, <1>2 DEF IsInjective
<1>4. IsFiniteSet(1..n) /\ Cardinality(1..n) = n
  BY <1>1, FS_Interval
<1>5. s \in Surjection(1..n, S)
  BY <1>2, <1>3, <1>4, FS_Injection DEF Injection, IsInjective
<1> QED
  BY <1>2, <1>3, <1>5 DEF List, Range, Surjection
LEMMA ListFits ==
    ASSUME NEW S, IsFiniteSet(S), NEW s \in List(S)
    PROVE  Len(s) \in Nat /\ Len(s) <= Cardinality(S)
<1>1. Len(s) \in Nat /\ s \in [1..Len(s) -> S] /\ \A k, l \in 1..Len(s) : s[k] = s[l] => k = l
  BY DEF List, IsInjective
<1>2. s \in Injection(1..Len(s), S)
  BY <1>1 DEF Injection, IsInjective
<1>3. Cardinality(1..Len(s)) <= Cardinality(S)
  BY <1>2, FS_Injection
<1>4. Cardinality(1..Len(s)) = Len(s)
  BY <1>1, FS_Interval
<1> QED
  BY <1>1, <1>3, <1>4

-----------------------------------------------------------------------------
(* The least of some numbers, in place of induction: what holds for a      *)
(* number when it holds for all below it has no least exception.           *)
LEMMA LeastNumber ==
    ASSUME NEW T \in SUBSET Nat, T # {}
    PROVE  \E n \in T : \A m \in T : ~(m < n)
<1>1. IsWellFoundedOn(OpToRel(<, Nat), Nat)
  BY NatLessThanWellFounded
<1>2. \E n \in T : \A m \in T : ~(<<m, n>> \in OpToRel(<, Nat))
  BY <1>1, WFMin
<1> QED
  BY <1>2 DEF OpToRel

(* A finite set has a greatest element, and can be sorted.                 *)
LEMMA HasGreatest ==
    ASSUME NEW S, IsFiniteSet(S), NEW t \in [S -> Int], S # {}
    PROVE  \E x \in S : \A y \in S : t[y] <= t[x]
<1> DEFINE Greatest(R) == \E x \in R : \A y \in R : t[y] <= t[x]
           T == {n \in Nat : \E R \in SUBSET S : R # {} /\ ~Greatest(R) /\ n = Cardinality(R)}
<1> SUFFICES ASSUME ~Greatest(S) PROVE FALSE
  OBVIOUS
<1>1. Cardinality(S) \in T
  BY FS_CardinalityType
<1>2. PICK n \in T : \A m \in T : ~(m < n)
  BY <1>1, LeastNumber
<1>3. PICK R \in SUBSET S : R # {} /\ ~Greatest(R) /\ n = Cardinality(R)
  BY <1>2
<1>4. PICK z \in R : TRUE
  BY <1>3
<1>5. IsFiniteSet(R) /\ IsFiniteSet(R \ {z})
  BY FS_Subset
<1>6. Cardinality(R \ {z}) = Cardinality(R) - 1 /\ Cardinality(R \ {z}) \in Nat
  BY <1>4, <1>5, FS_RemoveElement, FS_CardinalityType
<1>7. Cardinality(R \ {z}) \notin T
  <2>1. n \in Nat /\ Cardinality(R \ {z}) < n
    BY <1>3, <1>6, <1>2
  <2> HIDE DEF T
  <2> QED
    BY <1>2, <2>1
<1>8. CASE R \ {z} = {}
  <2>1. R = {z} /\ t[z] \in Int
    BY <1>4, <1>8
  <2> QED
    BY <1>3, <2>1
<1>9. CASE R \ {z} # {}
  <2>1. R \ {z} \in SUBSET S
    BY <1>3
  <2>2. Greatest(R \ {z})
    BY <1>6, <1>7, <1>9, <2>1
  <2>3. PICK x \in R \ {z} : \A y \in R \ {z} : t[y] <= t[x]
    BY <2>2
  <2>4. t[z] \in Int /\ t[x] \in Int /\ \A y \in R : t[y] \in Int
    BY <1>4
  <2>5. CASE t[z] <= t[x]
    <3>1. \A y \in R : t[y] <= t[x]
      BY <2>3, <2>5
    <3> QED
      BY <1>3, <3>1
  <2>6. CASE ~(t[z] <= t[x])
    <3>1. \A y \in R : t[y] <= t[z]
      BY <2>3, <2>4, <2>6
    <3> QED
      BY <1>3, <1>4, <3>1
  <2> QED
    BY <2>5, <2>6
<1> QED
  BY <1>8, <1>9

LEMMA CanBeSorted ==
    ASSUME NEW S, IsFiniteSet(S), NEW t \in [S -> Int]
    PROVE  \E s \in SetToSeqs(S) : \A k, l \in DOMAIN s : k < l => t[s[k]] <= t[s[l]]
<1> DEFINE Sorts(s) == \A k, l \in DOMAIN s : k < l => t[s[k]] <= t[s[l]]
           T == {n \in Nat : \E R \in SUBSET S : /\ n = Cardinality(R)
                                                 /\ \A s \in SetToSeqs(R) : ~Sorts(s)}
<1> SUFFICES ASSUME \A s \in SetToSeqs(S) : ~Sorts(s) PROVE FALSE
  OBVIOUS
<1>1. Cardinality(S) \in T
  BY FS_CardinalityType
<1>2. PICK n \in T : \A m \in T : ~(m < n)
  BY <1>1, LeastNumber
<1>3. PICK R \in SUBSET S : n = Cardinality(R) /\ \A s \in SetToSeqs(R) : ~Sorts(s)
  BY <1>2
<1>4. IsFiniteSet(R)
  BY FS_Subset
<1>5. CASE R = {}
  <2>1. Cardinality(R) = 0
    BY <1>5, FS_EmptySet
  <2>2. <<>> \in SetToSeqs(R)
    BY <1>5, <2>1 DEF SetToSeqs
  <2>3. Sorts(<<>>)
    OBVIOUS
  <2> QED
    BY <1>3, <2>2, <2>3
<1>6. CASE R # {}
  <2>1. PICK x \in R : \A y \in R : t[y] <= t[x]
    <3> DEFINE u == [y \in R |-> t[y]]
    <3>1. u \in [R -> Int]
      OBVIOUS
    <3>2. \A y \in R : u[y] = t[y]
      OBVIOUS
    <3> HIDE DEF u
    <3>3. \E x \in R : \A y \in R : u[y] <= u[x]
      BY <1>4, <1>6, <3>1, HasGreatest
    <3> QED
      BY <3>2, <3>3
  <2>2. /\ Cardinality(R \ {x}) = n - 1 /\ Cardinality(R \ {x}) \in Nat
        /\ IsFiniteSet(R \ {x}) /\ R \ {x} \in SUBSET S /\ n \in Nat
    BY <1>3, <1>4, FS_RemoveElement, FS_CardinalityType
  <2>3. Cardinality(R \ {x}) \notin T
    <3>1. Cardinality(R \ {x}) < n
      BY <2>2
    <3> HIDE DEF T
    <3> QED
      BY <1>2, <3>1
  <2>4. PICK s \in SetToSeqs(R \ {x}) : Sorts(s)
    BY <2>2, <2>3
  <2>5. s \in [1..(n - 1) -> R \ {x}] /\ \A i, j \in 1..(n - 1) : i # j => s[i] # s[j]
    BY <2>2 DEF SetToSeqs
  <2> DEFINE r == [k \in 1..n |-> IF k = n THEN x ELSE s[k]]
  <2>6. n - 1 \in Nat /\ \A k \in 1..n : k # n => k \in 1..(n - 1)
    BY <2>2
  <2>7. /\ DOMAIN r = 1..n /\ DOMAIN s = 1..(n - 1) /\ n \in 1..n
        /\ \A k \in 1..n : k # n => r[k] = s[k] /\ s[k] \in R \ {x}
        /\ r[n] = x
    BY <2>5, <2>6
  <2>8. r \in SetToSeqs(R)
    <3>1. r \in [1..n -> R]
      BY <2>7
    <3> HIDE DEF r
    <3>2. \A i, j \in 1..n : i # j => r[i] # r[j]
      BY <2>5, <2>6, <2>7
    <3> QED
      BY <1>3, <3>1, <3>2 DEF SetToSeqs
  <2>9. Sorts(r)
    <3> SUFFICES ASSUME NEW k \in 1..n, NEW l \in 1..n, k < l PROVE t[r[k]] <= t[r[l]]
      BY <2>7
    <3> HIDE DEF r
    <3>1. k # n /\ k \in 1..(n - 1) /\ r[k] = s[k] /\ s[k] \in R
      BY <2>2, <2>6, <2>7
    <3>2. CASE l = n
      BY <2>1, <2>7, <3>1, <3>2
    <3>3. CASE l # n
      BY <2>4, <2>6, <2>7, <3>1, <3>3
    <3> QED
      BY <3>2, <3>3
  <2> QED
    BY <1>3, <2>8, <2>9
<1> QED
  BY <1>5, <1>6

LEMMA MaxOfPlaces ==
    ASSUME NEW n \in Nat, NEW s \in SUBSET (1..n), s # {}
    PROVE  Max(s) \in s /\ \A k \in s : k <= Max(s)
<1> DEFINE T == {d \in Nat : n - d \in s}
<1>1. PICK k \in s : TRUE
  OBVIOUS
<1>2. n - k \in T
  OBVIOUS
<1>3. PICK d \in T : \A e \in T : ~(e < d)
  BY <1>2, LeastNumber
<1>4. ASSUME NEW j \in s PROVE n - d >= j
  <2>1. n - j \in T
    OBVIOUS
  <2>2. ~(n - j < d)
    BY <1>3, <2>1
  <2> QED
    BY <2>2
<1> DEFINE P(x) == \A y \in s : x >= y
<1>5. \E x \in s : P(x)
  BY <1>4
<1>6. Max(s) = CHOOSE x \in s : P(x)
  BY DEF Max
<1> HIDE DEF P
<1>7. Max(s) \in s /\ P(Max(s))
  BY <1>5, <1>6
<1> QED
  BY <1>7 DEF P

LEMMA MaxOfInterval ==
    ASSUME NEW k \in Nat \ {0}
    PROVE  Max(1..k) = k
<1> DEFINE s == 1..k
<1>1. s \in SUBSET (1..k) /\ k \in s
  OBVIOUS
<1>2. \A j \in s : j \in Int /\ j <= k
  OBVIOUS
<1> HIDE DEF s
<1>3. Max(s) \in s /\ \A j \in s : j <= Max(s)
  BY <1>1, MaxOfPlaces
<1>4. Max(s) \in Int /\ Max(s) <= k
  BY <1>2, <1>3
<1>5. k <= Max(s)
  BY <1>1, <1>3
<1>6. Max(s) = k
  BY <1>4, <1>5
<1> QED
  BY <1>6 DEF s

(* Among the messages without a top one has the fewest above it, and its   *)
(* parent has none either, with fewer still.                               *)
LEMMA AcyclicIsTopped ==
    ASSUME NEW M, IsFiniteSet(M), NEW parent \in Parents(M), NoParent \notin M,
           Acyclic(parent), NEW m \in M
    PROVE  Topped(parent, m)
<1> DEFINE size(x) == Cardinality(Above(parent, x))
           T == {size(x) : x \in {x \in M : ~Topped(parent, x)}}
<1> SUFFICES ASSUME ~Topped(parent, m) PROVE FALSE
  OBVIOUS
<1>1. \A x \in M : x \in Above(parent, x) /\ IsFiniteSet(Above(parent, x)) /\ size(x) \in Nat
  <2> SUFFICES ASSUME NEW x \in M
               PROVE  x \in Above(parent, x) /\ IsFiniteSet(Above(parent, x)) /\ size(x) \in Nat
    OBVIOUS
  <2>1. x \in Above(parent, x) /\ Above(parent, x) \subseteq M
    BY AboveSelf
  <2> QED
    BY <2>1, FS_Subset, FS_CardinalityType
<1>2. T \in SUBSET Nat /\ T # {}
  BY <1>1
<1>3. PICK n \in T : \A k \in T : ~(k < n)
  BY <1>2, LeastNumber
<1>4. PICK x \in M : ~Topped(parent, x) /\ n = size(x)
  BY <1>3
<1>5. parent[x] # NoParent
  BY <1>1, <1>4 DEF Topped
<1>6. /\ parent[x] \in M /\ Above(parent, x) = {x} \cup Above(parent, parent[x])
      /\ x \notin Above(parent, parent[x])
  BY <1>5, AboveStep DEF Acyclic, Parents
<1>7. ~Topped(parent, parent[x])
  BY <1>4, <1>6 DEF Topped
<1>8. size(x) = size(parent[x]) + 1
  <2>1. {x} \cup Above(parent, parent[x]) = Above(parent, parent[x]) \cup {x}
    OBVIOUS
  <2> QED
    BY <1>1, <1>6, <2>1, FS_AddElement
<1>9. size(parent[x]) < n
  BY <1>1, <1>4, <1>6, <1>8
<1> QED
  BY <1>3, <1>6, <1>7, <1>9

(* FoldLeft, as the totals use it: sizes of sets that share nothing add up *)
(* to the size of their union.                                             *)
SumOf(f, base, seq) == FoldLeft(LAMBDA cnt, child : cnt + f[child], base, seq)
All(B, seq, s)      == UNION {B[seq[k]] : k \in s}

LEMMA AllFinite ==
    ASSUME NEW M, NEW seq \in Seq(M), NEW U, IsFiniteSet(U), NEW B \in [M -> SUBSET U],
           NEW s \in SUBSET (1..Len(seq))
    PROVE  All(B, seq, s) \in SUBSET U /\ IsFiniteSet(All(B, seq, s))
<1>1. All(B, seq, s) \in SUBSET U
  BY DEF All
<1> QED
  BY <1>1, FS_Subset

LEMMA AllAdd ==
    ASSUME NEW M, NEW seq \in Seq(M), NEW U, IsFiniteSet(U), NEW B \in [M -> SUBSET U],
           \A k, l \in 1..Len(seq) : k # l => B[seq[k]] \cap B[seq[l]] = {},
           NEW s \in SUBSET (1..Len(seq)), NEW x \in s
    PROVE  Cardinality(All(B, seq, s))
              = Cardinality(All(B, seq, s \ {x})) + Cardinality(B[seq[x]])
<1> DEFINE A == All(B, seq, s \ {x})
           C == B[seq[x]]
<1>1. All(B, seq, s) = A \cup C
  BY DEF All
<1>2. A \cap C = {}
  BY DEF All
<1>3. IsFiniteSet(A)
  BY AllFinite
<1>4. C \in SUBSET U
  OBVIOUS
<1>5. IsFiniteSet(C)
  BY <1>4, FS_Subset
<1> HIDE DEF A, C
<1>6. Cardinality(A \cup C) = Cardinality(A) + Cardinality(C) - Cardinality({})
  BY <1>2, <1>3, <1>5, FS_Union
<1>7. Cardinality(A) \in Nat /\ Cardinality(C) \in Nat /\ Cardinality({}) = 0
  BY <1>3, <1>5, FS_CardinalityType, FS_EmptySet
<1>8. Cardinality(A \cup C) = Cardinality(A) + Cardinality(C)
  BY <1>6, <1>7
<1> QED
  BY <1>1, <1>8 DEF A, C

LEMMA FoldSizes ==
    ASSUME NEW M, NEW seq \in Seq(M), NEW U, IsFiniteSet(U), NEW B \in [M -> SUBSET U],
           NEW f, NEW base \in Nat,
           \A k \in 1..Len(seq) : f[seq[k]] = Cardinality(B[seq[k]]),
           \A k, l \in 1..Len(seq) : k # l => B[seq[k]] \cap B[seq[l]] = {}
    PROVE  SumOf(f, base, seq)
              = base + Cardinality(All(B, seq, 1..Len(seq)))
<1> DEFINE D == 1..Len(seq)
           Eq(g) == g = [s \in SUBSET D |-> IF s = {} THEN base
                                            ELSE g[s \ {Max(s)}] + f[seq[Max(s)]]]
           h == CHOOSE g : Eq(g)
           size == [s \in SUBSET D |-> base + Cardinality(All(B, seq, s))]
<1>1. SumOf(f, base, seq) = h[D]
  <2>1. DOMAIN seq = D
    OBVIOUS
  <2> QED
    BY <2>1 DEF SumOf, FoldLeft, MapThenFoldSet
<1>a. Len(seq) \in Nat
  OBVIOUS
<1>2. Cardinality(All(B, seq, {})) = 0
  <2>1. All(B, seq, {}) = {}
    BY DEF All
  <2> QED
    BY <2>1, FS_EmptySet
<1>3. ASSUME NEW s \in SUBSET D, s # {}
      PROVE  /\ s \ {Max(s)} \in SUBSET D /\ Max(s) \in D
             /\ base + Cardinality(All(B, seq, s))
                  = base + Cardinality(All(B, seq, s \ {Max(s)})) + f[seq[Max(s)]]
  <2>1. Max(s) \in s /\ Max(s) \in D
    BY <1>3, <1>a, MaxOfPlaces
  <2>2. Cardinality(All(B, seq, s)) = Cardinality(All(B, seq, s \ {Max(s)})) + Cardinality(B[seq[Max(s)]])
    BY <2>1, AllAdd
  <2>3. f[seq[Max(s)]] = Cardinality(B[seq[Max(s)]])
    BY <2>1
  <2>4. s \ {Max(s)} \in SUBSET D
    OBVIOUS
  <2>5. IsFiniteSet(All(B, seq, s \ {Max(s)}))
    BY <2>4, AllFinite
  <2>6. B[seq[Max(s)]] \in SUBSET U
    BY <2>1
  <2>7. IsFiniteSet(B[seq[Max(s)]])
    BY <2>6, FS_Subset
  <2>8. Cardinality(All(B, seq, s \ {Max(s)})) \in Nat /\ Cardinality(B[seq[Max(s)]]) \in Nat
    BY <2>5, <2>7, FS_CardinalityType
  <2> QED
    BY <2>1, <2>2, <2>3, <2>4, <2>8
<1>4. Eq(size)
  <2> SUFFICES ASSUME NEW s \in SUBSET D
               PROVE  size[s] = IF s = {} THEN base ELSE size[s \ {Max(s)}] + f[seq[Max(s)]]
    OBVIOUS
  <2>1. CASE s = {}
    BY <1>2, <2>1
  <2>2. CASE s # {}
    BY <1>3, <2>2
  <2> QED
    BY <2>1, <2>2
<1>5. Eq(h)
  <2> HIDE DEF Eq
  <2> QED
    BY <1>4
<1> HIDE DEF h, size
(* No first place up to which h differs.                                   *)
<1>6. ASSUME NEW n \in 0..Len(seq), h[1..n] # base + Cardinality(All(B, seq, 1..n)) PROVE FALSE
  <2> DEFINE T == {k \in 0..Len(seq) : h[1..k] # base + Cardinality(All(B, seq, 1..k))}
  <2>1. T \in SUBSET Nat /\ n \in T
    BY <1>6, <1>a
  <2>2. PICK k \in T : \A j \in T : ~(j < k)
    BY <2>1, LeastNumber
  <2>3. CASE k = 0
    <3>1. 1..k = {}
      BY <2>3
    <3>2. h[{}] = base
      BY <1>5
    <3> QED
      BY <1>2, <2>2, <3>1, <3>2
  <2>4. CASE k # 0
    <3> DEFINE s == 1..k
    <3>1. k \in 1..Len(seq) /\ k - 1 \in 0..Len(seq)
      BY <2>2, <2>4
    <3>2. s \in SUBSET D /\ k \in s /\ s # {} /\ \A j \in s : j <= k
      BY <3>1
    <3>3. Max(s) = k
      BY <3>1, MaxOfInterval
    <3>4. s \ {k} = 1..(k - 1)
      BY <3>1
    <3>5. h[s] = h[s \ {k}] + f[seq[k]]
      BY <1>5, <3>2, <3>3
    <3>6. base + Cardinality(All(B, seq, s)) = base + Cardinality(All(B, seq, s \ {k})) + f[seq[k]]
      BY <1>3, <3>2, <3>3
    <3>7. h[1..(k - 1)] = base + Cardinality(All(B, seq, 1..(k - 1)))
      <4>1. k - 1 \notin T
        BY <2>2, <3>1
      <4> QED
        BY <3>1, <4>1
    <3> QED
      BY <2>2, <3>4, <3>5, <3>6, <3>7
  <2> QED
    BY <2>3, <2>4
<1>7. h[D] = base + Cardinality(All(B, seq, D))
  <2>1. Len(seq) \in 0..Len(seq)
    BY <1>a
  <2> QED
    BY <1>6, <2>1
<1> QED
  BY <1>1, <1>7
=============================================================================
