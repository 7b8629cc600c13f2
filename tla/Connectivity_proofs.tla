------------------------- MODULE Connectivity_proofs -------------------------
(***************************************************************************)
(* The threads connectivity saves are threads: for any number of messages, *)
(* any References headers and any dates.  What it takes is that the walk   *)
(* from message i stays above i, so that the cut gives i a top, and that a *)
(* cut takes no top away from the messages before i.  Each cut opens a     *)
(* loop that had all its edges; totals are the sizes of the threads below; *)
(* and a stamp all others disagree with never leads the largest group.     *)
(***************************************************************************)
EXTENDS Connectivity, Forest_proofs

Typed == /\ parent \in Parents(Msg)
         /\ children \in [Msg -> List(Msg)]
         /\ toplevel \in List(Msg)
         /\ i \in Nat
         /\ phase \in Phase

ChildrenAgree == \A m \in Msg : Range(children[m]) = {c \in Msg : parent[c] = m}

(* While the graph is built, messages from i on have no part in it.        *)
TopAgrees == Range(toplevel) =
    {m \in Msg : parent[m] = NoParent /\ (phase = "build" => m < i)}
BuiltInOrder == phase = "build" => \A m \in Msg : m >= i => parent[m] = NoParent

(* Each message whose loops were looked for has a top.                     *)
ToppedBefore ==
    /\ phase \in {"loops", "walk"} => \A m \in Msg : m < i => Topped(parent, m)
    /\ LoopsFixed => \A m \in Msg : Topped(parent, m)
WalksAbove == phase = "walk" => i \in Msg /\ idx \in Above(parent, i)

IInv == Typed /\ ChildrenAgree /\ TopAgrees /\ BuiltInOrder /\ ToppedBefore /\ WalksAbove
-----------------------------------------------------------------------------
LEMMA MsgNumbers ==
    /\ NumMsg \in Nat
    /\ NoParent \notin Msg
    /\ \A m \in Msg : m \in Nat /\ m < NumMsg
    /\ \A m \in Nat : m < NumMsg => m \in Msg
BY ConnectivityAssumption DEF Msg, NoParent

LEMMA ReferencesParent ==
    ASSUME NEW list
    PROVE  LET p == GetParentFromReferences(list)
           IN  p \in Msg \cup {NoParent, Broken} /\ (p < 0 <=> p \notin Msg)
<1> DEFINE p == GetParentFromReferences(list)
           found == {k \in DOMAIN list : list[k] # Missing}
           last  == {list[k] : k \in {k \in found : \A l \in found : l <= k}}
<1>1. CASE list = <<>>
  <2>1. p = NoParent
    BY <1>1 DEF GetParentFromReferences
  <2> QED
    BY <2>1, MsgNumbers DEF NoParent
<1>2. CASE list # <<>> /\ last \cap Msg = {}
  <2>1. p = Broken
    BY <1>2 DEF GetParentFromReferences
  <2>2. Broken \notin Msg
    BY ConnectivityAssumption DEF Msg, Broken
  <2> QED
    BY <2>1, <2>2 DEF Broken
<1>3. CASE list # <<>> /\ last \cap Msg # {}
  <2>1. p = CHOOSE q \in last : q \in Msg
    BY <1>3 DEF GetParentFromReferences
  <2> HIDE DEF p, last
  <2>2. \E q \in last : q \in Msg
    BY <1>3
  <2>3. p \in Msg
    BY <2>1, <2>2
  <2>4. p \in Nat
    BY <2>3, MsgNumbers
  <2>5. ~(p < 0)
    BY <2>4
  <2> QED
    BY <2>3, <2>5 DEF p
<1> QED
  BY <1>1, <1>2, <1>3

LEMMA FiniteMsg == \A S \in SUBSET Msg : IsFiniteSet(S)
<1>1. NumMsg - 1 \in Int
  BY MsgNumbers
<1>2. IsFiniteSet(Msg)
  BY <1>1, FS_Interval DEF Msg
<1> QED
  BY <1>2, FS_Subset

(* What the outer loops do to i and phase.                                 *)
LEMMA Iteration ==
    ASSUME NEW p, NEW q, i \in Msg, Iterate(p, q)
    PROVE  \/ i' = i + 1 /\ i' \in Nat /\ i + 1 < NumMsg /\ phase' = p
           \/ i' = 0 /\ ~(i + 1 < NumMsg) /\ phase' = q
BY MsgNumbers DEF Iterate

LEMMA InitKeeps == Init => IInv
<1> SUFFICES ASSUME Init PROVE IInv
  OBVIOUS
<1>1. <<>> \in List(Msg) /\ Range(<<>>) = {}
  BY DEF List, IsInjective, Range
<1>2. Typed
  BY <1>1 DEF Init, Typed, Parents, Phase
<1>3. ChildrenAgree
  BY <1>1, MsgNumbers DEF Init, ChildrenAgree
<1>4. TopAgrees
  BY <1>1, MsgNumbers DEF Init, TopAgrees
<1> QED
  BY <1>2, <1>3, <1>4 DEF Init, IInv, BuiltInOrder, ToppedBefore, WalksAbove, LoopsFixed

LEMMA BuildKeeps ==
    ASSUME IInv, NEW m \in Msg, Build(m)
    PROVE  IInv'
<1> DEFINE p == GetParentFromReferences(refs[m])
<1>1. p \in Msg \cup {NoParent, Broken} /\ (p < 0 <=> p \notin Msg)
  BY ReferencesParent
<1> HIDE DEF p
<1>2. /\ phase = "build" /\ m = i
      /\ Typed /\ ChildrenAgree /\ TopAgrees /\ BuiltInOrder
  BY DEF IInv, Build
<1>3. /\ p < 0 => toplevel' = Append(toplevel, m) /\ UNCHANGED <<parent, children>>
      /\ ~(p < 0) => /\ parent' = [parent EXCEPT ![m] = p]
                     /\ children' = [children EXCEPT ![p] = Append(@, m)]
                     /\ UNCHANGED toplevel
  BY DEF Build, p
<1>4. \/ i' = i + 1 /\ i' \in Nat /\ i + 1 < NumMsg /\ phase' = "build"
      \/ i' = 0 /\ ~(i + 1 < NumMsg) /\ phase' = "dates"
  BY <1>2, Iteration DEF Build
<1>5. /\ m \notin Range(toplevel)
      /\ parent[m] = NoParent
      /\ \A n \in Msg : m \notin Range(children[n])
  BY <1>2, MsgNumbers DEF TopAgrees, BuiltInOrder, ChildrenAgree
<1>6. parent' \in Parents(Msg) /\ \A n \in Msg : parent'[n] = IF n = m /\ p \in Msg THEN p ELSE parent[n]
  BY <1>1, <1>2, <1>3, <1>5 DEF Typed, Parents
<1>7. toplevel' \in List(Msg) /\ Range(toplevel') = IF p \in Msg THEN Range(toplevel) ELSE Range(toplevel) \cup {m}
  <2>1. toplevel \in List(Msg)
    BY <1>2 DEF Typed
  <2>2. Append(toplevel, m) \in List(Msg) /\ Range(Append(toplevel, m)) = Range(toplevel) \cup {m}
    BY <1>5, <2>1, AppendList
  <2> QED
    BY <1>1, <1>3, <2>1, <2>2
<1>8. children' \in [Msg -> List(Msg)] /\ ChildrenAgree'
  <2>1. CASE p \notin Msg
    BY <1>1, <1>2, <1>3, <2>1 DEF Typed, ChildrenAgree
  <2>2. CASE p \in Msg
    <3>1. children[p] \in List(Msg) /\ m \notin Range(children[p])
      BY <1>2, <1>5, <2>2 DEF Typed
    <3>2. Append(children[p], m) \in List(Msg) /\ Range(Append(children[p], m)) = Range(children[p]) \cup {m}
      BY <3>1, AppendList
    <3>3. children' \in [Msg -> List(Msg)]
      BY <1>1, <1>2, <1>3, <2>2, <3>2 DEF Typed
    <3>4. ASSUME NEW n \in Msg PROVE Range(children'[n]) = {c \in Msg : parent'[c] = n}
      <4>1. Range(children'[n]) = IF n = p THEN Range(children[n]) \cup {m} ELSE Range(children[n])
        BY <1>1, <1>2, <1>3, <2>2, <3>2 DEF Typed
      <4>2. {c \in Msg : parent'[c] = n} = IF n = p THEN {c \in Msg : parent[c] = n} \cup {m}
                                           ELSE {c \in Msg : parent[c] = n}
        BY <1>5, <1>6, <2>2, MsgNumbers
      <4> QED
        BY <1>2, <4>1, <4>2 DEF ChildrenAgree
    <3> QED
      BY <3>3, <3>4 DEF ChildrenAgree
  <2> QED
    BY <2>1, <2>2
<1>9. TopAgrees'
  <2>1. Range(toplevel) = {n \in Msg : parent[n] = NoParent /\ n < i}
    BY <1>2 DEF TopAgrees
  <2>2. \A n \in Msg : (phase' = "build" => n < i') <=> n < i \/ n = m
    BY <1>2, <1>4, MsgNumbers
  <2>3. Range(toplevel') = {n \in Msg : parent'[n] = NoParent /\ (n < i \/ n = m)}
    BY <1>5, <1>6, <1>7, <2>1, MsgNumbers
  <2> QED
    BY <2>2, <2>3 DEF TopAgrees
<1>10. BuiltInOrder'
  BY <1>2, <1>4, <1>6, MsgNumbers DEF BuiltInOrder
<1>11. Typed'
  BY <1>4, <1>6, <1>7, <1>8 DEF Typed, Phase
<1> QED
  BY <1>4, <1>8, <1>9, <1>10, <1>11 DEF IInv, ToppedBefore, WalksAbove, LoopsFixed

(* Steps that leave the graph alone.                                       *)
LEMMA ReadDateKeeps ==
    ASSUME IInv, NEW m \in Msg, ReadDate(m)
    PROVE  IInv'
<1>1. phase = "dates" /\ i \in Msg /\ UNCHANGED graph
  BY DEF ReadDate
<1>2. \/ i' = i + 1 /\ i' \in Nat /\ i + 1 < NumMsg /\ phase' = "dates"
      \/ i' = 0 /\ ~(i + 1 < NumMsg) /\ phase' = "loops"
  BY <1>1, Iteration DEF ReadDate
<1>3. \A n \in Msg : ~(n < 0)
  BY MsgNumbers
<1> QED
  BY <1>1, <1>2, <1>3 DEF IInv, Typed, ChildrenAgree, TopAgrees, BuiltInOrder, ToppedBefore,
        WalksAbove, LoopsFixed, graph, Phase

LEMMA StartWalkKeeps ==
    ASSUME IInv, NEW m \in Msg, StartWalk(m)
    PROVE  IInv'
<1>1. /\ phase = "loops" /\ phase' = "walk" /\ i = m /\ idx' = m
      /\ UNCHANGED graph /\ UNCHANGED i
  BY DEF StartWalk
<1>2. m \in Above(parent, m)
  BY AboveSelf DEF IInv, Typed
<1> QED
  BY <1>1, <1>2 DEF IInv, Typed, ChildrenAgree, TopAgrees, BuiltInOrder, ToppedBefore,
        WalksAbove, LoopsFixed, graph, Phase

LEMMA WalkUpKeeps ==
    ASSUME IInv, WalkUp
    PROVE  IInv'
<1>1. /\ phase = "walk" /\ phase' = "walk" /\ parent[idx] # NoParent /\ idx' = parent[idx]
      /\ UNCHANGED graph /\ UNCHANGED i
  BY DEF WalkUp
<1>2. i \in Msg /\ idx \in Above(parent, i) /\ parent \in Parents(Msg)
  BY <1>1 DEF IInv, WalksAbove, Typed
<1>3. parent[idx] \in Above(parent, i)
  BY <1>1, <1>2, MsgNumbers, AboveClosed DEF Closed
<1> QED
  BY <1>1, <1>2, <1>3 DEF IInv, Typed, ChildrenAgree, TopAgrees, BuiltInOrder, ToppedBefore,
        WalksAbove, LoopsFixed, graph, Phase

(* The loop over i goes on with message i topped, and none of those before *)
(* has lost its top.                                                       *)
LEMMA WalkEnds ==
    ASSUME i \in Msg, Iterate("loops", "sortTop"),
           \A m \in Msg : m <= i => Topped(parent', m)
    PROVE  /\ phase' \in {"loops", "sortTop"} /\ i' \in Nat
           /\ ToppedBefore' /\ WalksAbove' /\ BuiltInOrder'
<1>1. \/ i' = i + 1 /\ i' \in Nat /\ i + 1 < NumMsg /\ phase' = "loops"
      \/ i' = 0 /\ ~(i + 1 < NumMsg) /\ phase' = "sortTop"
  BY Iteration
<1>2. CASE i' = i + 1 /\ phase' = "loops"
  <2>1. \A m \in Msg : m < i' => m <= i
    BY <1>2, MsgNumbers
  <2> QED
    BY <1>1, <1>2, <2>1 DEF ToppedBefore, WalksAbove, BuiltInOrder, LoopsFixed
<1>3. CASE ~(i + 1 < NumMsg) /\ i' = 0 /\ phase' = "sortTop"
  <2>1. \A m \in Msg : m <= i
    BY <1>3, MsgNumbers
  <2> QED
    BY <1>3, <2>1 DEF ToppedBefore, WalksAbove, BuiltInOrder, LoopsFixed
<1> QED
  BY <1>1, <1>2, <1>3

LEMMA AtTopKeeps ==
    ASSUME IInv, AtTop
    PROVE  IInv'
<1>1. /\ phase = "walk" /\ parent[idx] = NoParent
      /\ UNCHANGED graph /\ Iterate("loops", "sortTop")
  BY DEF AtTop
<1>2. i \in Msg /\ idx \in Above(parent, i)
  BY <1>1 DEF IInv, WalksAbove
<1>3. \A m \in Msg : m < i \/ m = i => Topped(parent, m)
  BY <1>1, <1>2 DEF IInv, ToppedBefore, Topped
<1>4. \A m \in Msg : m <= i => Topped(parent', m)
  BY <1>1, <1>2, <1>3, MsgNumbers DEF graph
<1>5. /\ phase' \in {"loops", "sortTop"} /\ i' \in Nat
      /\ ToppedBefore' /\ WalksAbove' /\ BuiltInOrder'
  BY <1>1, <1>2, <1>4, WalkEnds
<1> QED
  BY <1>1, <1>5 DEF IInv, Typed, ChildrenAgree, TopAgrees, graph, Phase

LEMMA CutLoopKeeps ==
    ASSUME IInv, CutLoop
    PROVE  IInv'
<1>1. /\ phase = "walk" /\ parent[idx] # NoParent
      /\ parent' = [parent EXCEPT ![idx] = NoParent]
      /\ children' = [children EXCEPT ![parent[idx]] = RemoveFirst(@, idx)]
      /\ toplevel' = Append(toplevel, idx)
      /\ Iterate("loops", "sortTop")
  BY DEF CutLoop
<1>2. /\ i \in Msg /\ idx \in Above(parent, i)
      /\ Typed /\ ChildrenAgree /\ TopAgrees
      /\ \A m \in Msg : m < i => Topped(parent, m)
  BY <1>1 DEF IInv, WalksAbove, ToppedBefore
<1>3. idx \in Msg /\ parent \in Parents(Msg) /\ parent[idx] \in Msg
  BY <1>1, <1>2, AboveSelf DEF Typed, Parents
<1>4. ASSUME NEW m \in Msg, m <= i PROVE Topped(parent', m)
  <2>1. Topped(parent, m) \/ idx \in Above(parent, m)
    BY <1>2, <1>4, MsgNumbers
  <2> QED
    BY <1>1, <1>3, <2>1, MsgNumbers, CutKeepsTops
<1>5. /\ phase' \in {"loops", "sortTop"} /\ i' \in Nat
      /\ ToppedBefore' /\ WalksAbove' /\ BuiltInOrder'
  BY <1>1, <1>2, <1>4, WalkEnds
<1>6. parent' \in Parents(Msg) /\ \A m \in Msg : parent'[m] = IF m = idx THEN NoParent ELSE parent[m]
  BY <1>1, <1>3 DEF Parents
<1>7. toplevel' \in List(Msg) /\ TopAgrees'
  <2>1. Range(toplevel) = {m \in Msg : parent[m] = NoParent}
    BY <1>1, <1>2 DEF TopAgrees
  <2>2. idx \notin Range(toplevel) /\ toplevel \in List(Msg)
    BY <1>1, <1>2, <2>1 DEF Typed
  <2>3. toplevel' \in List(Msg) /\ Range(toplevel') = Range(toplevel) \cup {idx}
    BY <1>1, <1>3, <2>2, AppendList
  <2> QED
    BY <1>3, <1>5, <1>6, <2>1, <2>3 DEF TopAgrees
<1>8. children' \in [Msg -> List(Msg)] /\ ChildrenAgree'
  <2>1. children[parent[idx]] \in List(Msg) /\ idx \in Range(children[parent[idx]])
    BY <1>2, <1>3 DEF Typed, ChildrenAgree
  <2> DEFINE rest == RemoveFirst(children[parent[idx]], idx)
  <2>2. rest \in List(Msg) /\ Range(rest) = Range(children[parent[idx]]) \ {idx}
    BY <2>1, RemoveList
  <2>3. \A m \in Msg : children'[m] = IF m = parent[idx] THEN rest ELSE children[m]
    BY <1>1, <1>2, <1>3 DEF Typed
  <2>4. children' \in [Msg -> List(Msg)]
    BY <1>1, <1>2, <1>3, <2>2 DEF Typed
  <2> HIDE DEF rest
  <2>5. ASSUME NEW m \in Msg PROVE Range(children'[m]) = {c \in Msg : parent'[c] = m}
    <3>1. Range(children[m]) = {c \in Msg : parent[c] = m}
      BY <1>2 DEF ChildrenAgree
    <3>2. {c \in Msg : parent'[c] = m} = {c \in Msg : parent[c] = m} \ {idx}
      BY <1>6, MsgNumbers
    <3>3. m # parent[idx] => idx \notin {c \in Msg : parent[c] = m}
      OBVIOUS
    <3> QED
      BY <2>2, <2>3, <3>1, <3>2, <3>3
  <2> QED
    BY <2>4, <2>5 DEF ChildrenAgree
<1> QED
  BY <1>5, <1>6, <1>7, <1>8 DEF IInv, Typed, Phase

LEMMA SortTopKeeps ==
    ASSUME IInv, SortTop
    PROVE  IInv'
<1>1. /\ phase = "sortTop" /\ phase' = "sort" /\ UNCHANGED <<parent, children, i>>
      /\ toplevel' \in SetToSeqs(Range(toplevel))
  BY DEF SortTop, SortedByEpoch
<1>2. Range(toplevel) \in SUBSET Msg
  BY <1>1 DEF IInv, TopAgrees
<1>3. toplevel' \in List(Range(toplevel)) /\ Range(toplevel') = Range(toplevel)
  BY <1>1, <1>2, FiniteMsg, SortedList
<1>4. toplevel' \in List(Msg)
  BY <1>2, <1>3, ListOfMore
<1> QED
  BY <1>1, <1>3, <1>4 DEF IInv, Typed, ChildrenAgree, TopAgrees, BuiltInOrder, ToppedBefore,
        WalksAbove, LoopsFixed, Phase

LEMMA SortChildrenKeeps ==
    ASSUME IInv, NEW m \in Msg, SortChildren(m)
    PROVE  IInv'
<1>1. /\ phase = "sort" /\ i \in Msg /\ UNCHANGED <<parent, toplevel>>
      /\ Iterate("sort", "count")
  BY DEF SortChildren
<1>2. PICK sorted \in SetToSeqs(Range(children[m])) : children' = [children EXCEPT ![m] = sorted]
  BY DEF SortChildren, SortedByEpoch
<1>3. Range(children[m]) \in SUBSET Msg /\ children \in [Msg -> List(Msg)]
  BY DEF IInv, ChildrenAgree, Typed
<1>4. sorted \in List(Range(children[m])) /\ Range(sorted) = Range(children[m])
  BY <1>3, FiniteMsg, SortedList
<1>5. sorted \in List(Msg)
  BY <1>3, <1>4, ListOfMore
<1>6. children' \in [Msg -> List(Msg)] /\ \A n \in Msg : Range(children'[n]) = Range(children[n])
  BY <1>2, <1>3, <1>4, <1>5
<1>7. /\ i' \in Nat /\ phase' \in {"sort", "count"}
  BY <1>1, Iteration
<1>8. ChildrenAgree'
  BY <1>1, <1>6 DEF IInv, ChildrenAgree
<1> QED
  BY <1>1, <1>6, <1>7, <1>8 DEF IInv, Typed, TopAgrees, BuiltInOrder, ToppedBefore,
        WalksAbove, LoopsFixed, Phase

LEMMA CountKeeps ==
    ASSUME IInv, NEW m \in Msg, Count(m)
    PROVE  IInv'
<1>1. phase = "count" /\ i \in Msg /\ UNCHANGED graph /\ Iterate("count", "saved")
  BY DEF Count
<1>2. i' \in Nat /\ phase' \in {"count", "saved"}
  BY <1>1, Iteration
<1> QED
  BY <1>1, <1>2 DEF IInv, Typed, ChildrenAgree, TopAgrees, BuiltInOrder, ToppedBefore,
        WalksAbove, LoopsFixed, graph, Phase
-----------------------------------------------------------------------------
LEMMA StepKeeps == IInv /\ [Next]_vars => IInv'
<1> SUFFICES ASSUME IInv, [Next]_vars PROVE IInv'
  OBVIOUS
<1>1. ASSUME NEW m \in Msg, Build(m) PROVE IInv'
  BY <1>1, BuildKeeps
<1>2. ASSUME NEW m \in Msg, ReadDate(m) PROVE IInv'
  BY <1>2, ReadDateKeeps
<1>3. ASSUME NEW m \in Msg, StartWalk(m) PROVE IInv'
  BY <1>3, StartWalkKeeps
<1>4. CASE AtTop
  BY <1>4, AtTopKeeps
<1>5. CASE WalkUp
  BY <1>5, WalkUpKeeps
<1>6. CASE CutLoop
  BY <1>6, CutLoopKeeps
<1>7. CASE SortTop
  BY <1>7, SortTopKeeps
<1>8. ASSUME NEW m \in Msg, SortChildren(m) PROVE IInv'
  BY <1>8, SortChildrenKeeps
<1>9. ASSUME NEW m \in Msg, Count(m) PROVE IInv'
  BY <1>9, CountKeeps
<1>10. CASE UNCHANGED vars
  BY <1>10 DEF vars, graph, walk, IInv, Typed, ChildrenAgree, TopAgrees, BuiltInOrder,
        ToppedBefore, WalksAbove, LoopsFixed
<1> QED
  BY <1>1, <1>2, <1>3, <1>4, <1>5, <1>6, <1>7, <1>8, <1>9, <1>10 DEF Next

(* Invariance of the state of the threads through all phases.              *)
THEOREM Invariance == Spec => []IInv
  BY InitKeeps, StepKeeps, PTL DEF Spec

(* From the end of "Building graph" on, parents, lists of children and the *)
(* list of threads say the same, through every cut and every sort.         *)
THEOREM RecordsAlwaysAgree == Spec => []RecordsAgree
<1>1. IInv => RecordsAgree
  <2> SUFFICES ASSUME IInv, phase # "build" PROVE Agree(parent, children, toplevel)
    BY DEF RecordsAgree
  <2>1. DOMAIN parent = Msg
    BY DEF IInv, Typed, Parents
  <2>2. IsInjective(toplevel) /\ Range(toplevel) = {m \in Msg : parent[m] = NoParent}
    BY DEF IInv, Typed, TopAgrees, List
  <2>3. \A m \in Msg : IsInjective(children[m]) /\ Range(children[m]) = {c \in Msg : parent[c] = m}
    BY DEF IInv, Typed, ChildrenAgree, List
  <2> QED
    BY <2>1, <2>2, <2>3 DEF Agree
<1> QED
  BY <1>1, Invariance, PTL

(* When "Fixing loops" is done no message is above itself, and each is in  *)
(* exactly one thread, whatever loops the References headers formed.       *)
THEOREM EveryMessageIsReachable == Spec => []EveryMessageReachable
<1>1. IInv => EveryMessageReachable
  <2> SUFFICES ASSUME IInv, LoopsFixed
               PROVE  /\ Acyclic(parent)
                      /\ \A m \in Msg : Cardinality(Above(parent, m) \cap Range(toplevel)) = 1
    BY DEF EveryMessageReachable
  <2>1. /\ parent \in Parents(Msg) /\ \A m \in Msg : Topped(parent, m)
        /\ Range(toplevel) = {m \in Msg : parent[m] = NoParent}
    BY DEF IInv, Typed, ToppedBefore, TopAgrees, LoopsFixed
  <2>2. Acyclic(parent)
    BY <2>1, MsgNumbers, ToppedIsAcyclic
  <2>3. ASSUME NEW m \in Msg PROVE Cardinality(Above(parent, m) \cap Range(toplevel)) = 1
    <3>1. PICK top \in Above(parent, m) : parent[top] = NoParent
      BY <2>1 DEF Topped
    <3>2. Above(parent, m) \subseteq Msg
      BY <2>1, AboveSelf
    <3>3. Above(parent, m) \cap Range(toplevel) = {top}
      BY <2>1, <3>1, <3>2, MsgNumbers, TopIsAbove
    <3> QED
      BY <3>3, FS_Singleton
  <2> QED
    BY <2>2, <2>3
<1> QED
  BY <1>1, Invariance, PTL
-----------------------------------------------------------------------------
(* The cuts: each is of a loop the headers ask for, and no other message   *)
(* of that loop was cut.  Walking up, every message visited is below idx.  *)
Cut == {m \in Msg : (phase = "build" => m < i) /\ parent[m] # Requested[m]}

CutsInv ==
    /\ \A m \in Cut : parent[m] = NoParent /\ m \in OnLoop(Requested)
    /\ \A m, n \in Cut : n \in Above(Requested, m) => m = n
    /\ loopcnt = Cardinality(Cut)
    /\ phase = "walk" => visited \subseteq Msg /\ \A v \in visited : idx \in Above(parent, v)

LEMMA RequestedIsGraph ==
    /\ Requested \in Parents(Msg)
    /\ \A m \in Msg : LET p == GetParentFromReferences(refs[m])
                      IN  Requested[m] = IF p < 0 THEN NoParent ELSE p
<1>1. ASSUME NEW m \in Msg
      PROVE  (IF GetParentFromReferences(refs[m]) < 0 THEN NoParent
              ELSE GetParentFromReferences(refs[m])) \in Msg \cup {NoParent}
  BY ReferencesParent
<1> QED
  BY <1>1 DEF Requested, Parents

LEMMA InitCuts == Init => CutsInv
<1> SUFFICES ASSUME Init PROVE CutsInv
  OBVIOUS
<1>1. Cut = {}
  BY MsgNumbers DEF Init, Cut
<1> QED
  BY <1>1, FS_EmptySet DEF Init, CutsInv

(* A step that neither cuts nor walks.                                     *)
LEMMA SameCuts ==
    ASSUME IInv, CutsInv, Cut' = Cut, Requested' = Requested, loopcnt' = loopcnt,
           \A m \in Cut : parent'[m] = parent[m],
           phase' = "walk" => /\ visited' \subseteq Msg
                              /\ \A v \in visited' : idx' \in Above(parent', v)
    PROVE  CutsInv'
  BY DEF CutsInv

LEMMA BuildCuts ==
    ASSUME IInv, CutsInv, NEW m \in Msg, Build(m)
    PROVE  CutsInv'
<1> DEFINE p == GetParentFromReferences(refs[m])
<1>1. p \in Msg \cup {NoParent, Broken} /\ (p < 0 <=> p \notin Msg)
  BY ReferencesParent
<1>2. Requested[m] = IF p < 0 THEN NoParent ELSE p
  BY RequestedIsGraph
<1> HIDE DEF p
<1>3. /\ phase = "build" /\ m = i /\ parent \in Parents(Msg) /\ parent[m] = NoParent
      /\ Requested' = Requested /\ loopcnt' = loopcnt
      /\ p < 0 => UNCHANGED parent
      /\ ~(p < 0) => parent' = [parent EXCEPT ![m] = p]
  BY MsgNumbers DEF IInv, Typed, BuiltInOrder, Build, p, input, Requested
<1>4. \/ i' = i + 1 /\ phase' = "build"
      \/ ~(i + 1 < NumMsg) /\ phase' = "dates"
  BY <1>3, Iteration DEF Build
<1>5. parent'[m] = Requested[m] /\ \A n \in Msg : n # m => parent'[n] = parent[n]
  BY <1>2, <1>3 DEF Parents
<1>6. \A n \in Msg : (phase' = "build" => n < i') <=> n < i \/ n = m
  BY <1>3, <1>4, MsgNumbers
<1>7. m \notin Cut
  BY <1>3, MsgNumbers DEF Cut
<1>8. Cut' = Cut
  BY <1>3, <1>5, <1>6, <1>7 DEF Cut
<1>9. \A n \in Cut : parent'[n] = parent[n]
  BY <1>5, <1>7 DEF Cut
<1>10. phase' # "walk"
  BY <1>4
<1> QED
  BY <1>3, <1>8, <1>9, <1>10, SameCuts

LEMMA WalkUpCuts ==
    ASSUME IInv, CutsInv, WalkUp
    PROVE  CutsInv'
<1>1. /\ phase = "walk" /\ phase' = "walk" /\ parent[idx] # NoParent /\ idx' = parent[idx]
      /\ visited' = visited \cup {parent[idx]}
      /\ UNCHANGED graph /\ UNCHANGED refs /\ loopcnt' = loopcnt
  BY DEF WalkUp, input, counts
<1>2. parent \in Parents(Msg) /\ idx \in Msg /\ NoParent \notin Msg
  BY <1>1, AboveSelf, MsgNumbers DEF IInv, WalksAbove, Typed
<1>3. parent[idx] \in Msg /\ parent[idx] \in Above(parent, parent[idx])
  BY <1>1, <1>2, AboveSelf DEF Parents
<1>4. ASSUME NEW v \in visited PROVE v \in Msg /\ parent[idx] \in Above(parent, v)
  <2>1. v \in Msg /\ idx \in Above(parent, v)
    BY <1>1 DEF CutsInv
  <2> QED
    BY <1>1, <1>2, <2>1, AboveClosed DEF Closed
<1>5. parent' = parent /\ Cut' = Cut /\ Requested' = Requested
  BY <1>1 DEF graph, Cut, Requested
<1> QED
  BY <1>1, <1>3, <1>4, <1>5, SameCuts

(* The edge cut is of a loop that had all its edges.                       *)
LEMMA CutLoopCuts ==
    ASSUME IInv, CutsInv, CutLoop
    PROVE  CutsInv'
<1>1. /\ phase = "walk" /\ parent[idx] # NoParent /\ parent[idx] \in visited
      /\ parent' = [parent EXCEPT ![idx] = NoParent]
      /\ loopcnt' = loopcnt + 1 /\ UNCHANGED refs
      /\ Iterate("loops", "sortTop")
  BY DEF CutLoop, input
<1>2. parent \in Parents(Msg) /\ i \in Msg /\ idx \in Msg /\ NoParent \notin Msg
  BY <1>1, AboveSelf, MsgNumbers DEF IInv, WalksAbove, Typed
<1>3. phase' \in {"loops", "sortTop"}
  BY <1>1, <1>2, Iteration
<1>4. idx \in Above(parent, parent[idx])
  BY <1>1 DEF CutsInv
<1>5. Requested \in Parents(Msg) /\ Requested' = Requested
  BY <1>1, RequestedIsGraph DEF Requested
<1>6. Cut = {m \in Msg : parent[m] # Requested[m]}
  BY <1>1 DEF Cut
<1>7. Subgraph(Msg, parent, Requested)
  BY <1>6 DEF CutsInv, Subgraph
<1>8. /\ Requested[idx] = parent[idx] /\ idx \in Above(Requested, Requested[idx])
      /\ \A y \in Above(Requested, idx) : parent[y] # NoParent
  BY <1>1, <1>2, <1>4, <1>5, <1>7, LoopWasWhole
<1>9. idx \notin Cut /\ Cut' = Cut \cup {idx}
  BY <1>1, <1>2, <1>3, <1>5, <1>6, <1>8 DEF Cut, Parents
<1>10. idx \in OnLoop(Requested)
  BY <1>1, <1>2, <1>5, <1>8 DEF OnLoop, Parents
<1>11. \A m \in Cut : m \notin Above(Requested, idx)
  BY <1>8 DEF CutsInv
<1>12. ASSUME NEW m \in Cut PROVE idx \notin Above(Requested, m)
  <2>1. m \in Msg /\ Requested[m] # NoParent /\ m \in Above(Requested, Requested[m])
    BY DEF CutsInv, OnLoop, Cut
  <2> QED
    BY <1>2, <1>5, <1>11, <2>1, LoopIsRound
<1>13. \A m \in Cut' : parent'[m] = NoParent /\ m \in OnLoop(Requested)
  BY <1>1, <1>2, <1>9, <1>10 DEF CutsInv, Parents, Cut
<1>14. \A m, n \in Cut' : n \in Above(Requested, m) => m = n
  BY <1>9, <1>11, <1>12 DEF CutsInv
<1>15. loopcnt' = Cardinality(Cut')
  <2>1. IsFiniteSet(Cut)
    BY FiniteMsg DEF Cut
  <2> QED
    BY <1>1, <1>9, <2>1, FS_AddElement DEF CutsInv
<1> QED
  BY <1>3, <1>5, <1>13, <1>14, <1>15 DEF CutsInv

(* The other steps leave the parents alone.                                *)
LEMMA OtherCuts ==
    ASSUME IInv, CutsInv,
           UNCHANGED <<refs, parent, loopcnt>>,
           phase # "build" /\ phase' # "build",
           phase' = "walk" => visited' = {}
    PROVE  CutsInv'
<1>1. Cut' = Cut /\ Requested' = Requested
  BY DEF Cut, Requested
<1> QED
  BY <1>1, SameCuts

LEMMA StepCuts == IInv /\ CutsInv /\ [Next]_vars => CutsInv'
<1> SUFFICES ASSUME IInv, CutsInv, [Next]_vars PROVE CutsInv'
  OBVIOUS
<1> USE DEF input, graph, counts, walk
<1>1. ASSUME NEW m \in Msg, Build(m) PROVE CutsInv'
  BY <1>1, BuildCuts
<1>2. ASSUME NEW m \in Msg, ReadDate(m) PROVE CutsInv'
  BY <1>2, Iteration, OtherCuts DEF ReadDate
<1>3. ASSUME NEW m \in Msg, StartWalk(m) PROVE CutsInv'
  BY <1>3, OtherCuts DEF StartWalk
<1>4. CASE AtTop
  <2>1. i \in Msg
    BY <1>4 DEF AtTop, IInv, WalksAbove
  <2> QED
    BY <1>4, <2>1, Iteration, OtherCuts DEF AtTop
<1>5. CASE WalkUp
  BY <1>5, WalkUpCuts
<1>6. CASE CutLoop
  BY <1>6, CutLoopCuts
<1>7. CASE SortTop
  BY <1>7, OtherCuts DEF SortTop
<1>8. ASSUME NEW m \in Msg, SortChildren(m) PROVE CutsInv'
  BY <1>8, Iteration, OtherCuts DEF SortChildren
<1>9. ASSUME NEW m \in Msg, Count(m) PROVE CutsInv'
  BY <1>9, Iteration, OtherCuts DEF Count
<1>10. CASE UNCHANGED vars
  BY <1>10 DEF vars, CutsInv, Cut, Requested
<1> QED
  BY <1>1, <1>2, <1>3, <1>4, <1>5, <1>6, <1>7, <1>8, <1>9, <1>10 DEF Next

(* Each loop of the References headers loses exactly one edge, every       *)
(* message outside of loops keeps its parent, and loopcnt counts the cuts. *)
THEOREM LoopsAreCutOnce == Spec => []LoopsCutOnce
<1>1. IInv /\ CutsInv => LoopsCutOnce
  <2> SUFFICES ASSUME IInv, CutsInv, LoopsFixed
               PROVE  /\ \A m \in Msg \ OnLoop(Requested) : parent[m] = Requested[m]
                      /\ \A m \in OnLoop(Requested) :
                            Cardinality({c \in Above(Requested, m) : parent[c] # Requested[c]}) = 1
                      /\ loopcnt = Cardinality({c \in Msg : parent[c] # Requested[c]})
    BY DEF LoopsCutOnce
  <2>1. Cut = {c \in Msg : parent[c] # Requested[c]}
    BY DEF Cut, LoopsFixed
  <2>2. /\ Requested \in Parents(Msg) /\ parent \in Parents(Msg) /\ NoParent \notin Msg
        /\ \A m \in Msg : Topped(parent, m)
    BY RequestedIsGraph, MsgNumbers DEF IInv, Typed, ToppedBefore
  <2>3. ASSUME NEW m \in OnLoop(Requested)
        PROVE  Cardinality({c \in Above(Requested, m) : parent[c] # Requested[c]}) = 1
    <3> DEFINE loop == Above(Requested, m)
    <3>1. /\ m \in Msg /\ Requested[m] # NoParent /\ m \in Above(Requested, Requested[m])
          /\ loop \in SUBSET Msg /\ m \in loop
      BY <2>2, AboveSelf DEF OnLoop, Parents
    <3>2. \E c \in loop : parent[c] # Requested[c]
      <4> SUFFICES ASSUME \A c \in loop : parent[c] = Requested[c] PROVE FALSE
        OBVIOUS
      <4>1. Closed(parent, loop)
        BY <2>2, <3>1, AboveClosed DEF Closed
      <4>2. PICK top \in Above(parent, m) : parent[top] = NoParent
        BY <2>2, <3>1 DEF Topped
      <4>3. top \in loop
        BY <2>2, <3>1, <4>1, AboveLeast
      <4> QED
        BY <2>2, <3>1, <4>2, <4>3, LoopHasNoTop
    <3>3. PICK c \in loop : parent[c] # Requested[c]
      BY <3>2
    <3>4. ASSUME NEW d \in loop, parent[d] # Requested[d] PROVE d = c
      <4>1. m \in Above(Requested, c)
        BY <2>2, <3>1, LoopIsRound
      <4>2. d \in Above(Requested, c)
        BY <2>2, <3>1, <4>1, AboveTrans
      <4> QED
        BY <2>1, <3>1, <3>3, <3>4, <4>2 DEF CutsInv
    <3>5. {d \in loop : parent[d] # Requested[d]} = {c}
      BY <3>3, <3>4
    <3> QED
      BY <3>5, FS_Singleton
  <2> QED
    BY <2>1, <2>3 DEF CutsInv
<1>2. Init => IInv /\ CutsInv
  BY InitKeeps, InitCuts
<1>3. IInv /\ CutsInv /\ [Next]_vars => (IInv /\ CutsInv)'
  BY StepKeeps, StepCuts
<1> QED
  BY <1>1, <1>2, <1>3, PTL DEF Spec
-----------------------------------------------------------------------------
(* What Count computes: Total is the size of each thread, given that the   *)
(* totals set so far are.                                                  *)
Threads == /\ IInv /\ LoopsFixed
           /\ \A m \in Msg : childTotal[m] \in {Unset, Cardinality(Below(parent, m))}

LEMMA CardinalityOfMsg == NumMsg \in Nat /\ Cardinality(Msg) = NumMsg
<1>1. 0 \in Int /\ NumMsg - 1 \in Int /\ NumMsg \in Nat
  BY MsgNumbers
<1>2. Cardinality(0..(NumMsg - 1)) = IF 0 > NumMsg - 1 THEN 0 ELSE (NumMsg - 1) - 0 + 1
  BY <1>1, FS_Interval
<1> QED
  BY <1>1, <1>2 DEF Msg

LEMMA BelowFinite ==
    ASSUME IInv, NEW m \in Msg
    PROVE  /\ Below(parent, m) \in SUBSET Msg /\ m \in Below(parent, m)
           /\ Cardinality(Below(parent, m)) \in 1..NumMsg
<1>1. parent \in Parents(Msg)
  BY DEF IInv, Typed
<1>2. Below(parent, m) \in SUBSET Msg /\ m \in Below(parent, m)
  BY <1>1, AboveSelf DEF Below, Parents
<1>3. IsFiniteSet(Below(parent, m)) /\ IsFiniteSet(Msg)
  BY <1>2, FiniteMsg
<1>4. Cardinality(Below(parent, m)) <= Cardinality(Msg)
  BY <1>2, <1>3, FS_Subset
<1>5. Cardinality(Msg) = NumMsg
  BY CardinalityOfMsg
<1>6. Cardinality(Below(parent, m)) \in Nat /\ Cardinality(Below(parent, m)) # 0
  BY <1>2, <1>3, FS_CardinalityType, FS_EmptySet
<1> QED
  BY <1>2, <1>4, <1>5, <1>6, MsgNumbers

LEMMA ChildrenSum ==
    ASSUME Threads, NEW m \in Msg, NEW f,
           \A c \in Msg : parent[c] = m => f[c] = Cardinality(Below(parent, c))
    PROVE  SumOf(f, 1, children[m])
              = Cardinality(Below(parent, m))
<1> DEFINE B == [c \in Msg |-> Below(parent, c)]
           seq == children[m]
           D == 1..Len(seq)
<1>1. parent \in Parents(Msg) /\ NoParent \notin Msg /\ Acyclic(parent)
  BY MsgNumbers, ToppedIsAcyclic DEF Threads, IInv, Typed, ToppedBefore
<1>2. /\ seq \in Seq(Msg) /\ Len(seq) \in Nat /\ DOMAIN seq = D
      /\ \A k, l \in D : seq[k] = seq[l] => k = l
      /\ {seq[k] : k \in D} = {c \in Msg : parent[c] = m}
  <2>1. seq \in Seq(Msg) /\ IsInjective(seq) /\ Range(seq) = {c \in Msg : parent[c] = m}
    BY DEF Threads, IInv, Typed, ChildrenAgree, List
  <2>2. Len(seq) \in Nat /\ DOMAIN seq = D
    BY <2>1
  <2> QED
    BY <2>1, <2>2 DEF IsInjective, Range
<1>3. B \in [Msg -> SUBSET Msg] /\ \A c \in Msg : B[c] = Below(parent, c)
  BY BelowFinite DEF Threads
<1> HIDE DEF B, seq
<1>4. \A k \in D : seq[k] \in Msg /\ parent[seq[k]] = m
  BY <1>2
<1>5. \A k \in D : f[seq[k]] = Cardinality(B[seq[k]])
  BY <1>3, <1>4
<1>6. \A k, l \in D : k # l => B[seq[k]] \cap B[seq[l]] = {}
  BY <1>1, <1>2, <1>3, <1>4, BelowApart
<1>7. IsFiniteSet(Msg)
  BY FiniteMsg
<1>8. SumOf(f, 1, seq) = 1 + Cardinality(All(B, seq, D))
  BY <1>2, <1>3, <1>5, <1>6, <1>7, FoldSizes
<1>9. All(B, seq, D) = UNION {Below(parent, c) : c \in {c \in Msg : parent[c] = m}}
  BY <1>2, <1>3, <1>4 DEF All
<1>10. Below(parent, m) = {m} \cup All(B, seq, D)
  BY <1>1, <1>9, BelowSplit
<1>11. m \notin All(B, seq, D)
  BY <1>1, <1>9, BelowApart
<1>12. Cardinality({m} \cup All(B, seq, D)) = Cardinality(All(B, seq, D)) + 1
  <2>1. All(B, seq, D) \in SUBSET Msg
    BY <1>3, <1>4 DEF All
  <2>2. IsFiniteSet(All(B, seq, D))
    BY <1>7, <2>1, FS_Subset
  <2>3. {m} \cup All(B, seq, D) = All(B, seq, D) \cup {m}
    OBVIOUS
  <2> QED
    BY <1>11, <2>2, <2>3, FS_AddElement
<1>13. Cardinality(All(B, seq, D)) \in Nat
  <2>1. All(B, seq, D) \in SUBSET Msg
    BY <1>3, <1>4 DEF All
  <2> QED
    BY <1>7, <2>1, FS_Subset, FS_CardinalityType
<1>14. 1 + Cardinality(All(B, seq, D)) = Cardinality(Below(parent, m))
  BY <1>10, <1>12, <1>13
<1>15. SumOf(f, 1, seq) = Cardinality(Below(parent, m))
  BY <1>8, <1>14
<1> QED
  BY <1>15 DEF seq

LEMMA TotalIsSize ==
    ASSUME Threads
    PROVE  \A m \in Msg : Total[m] = Cardinality(Below(parent, m))
<1> DEFINE Eq(f) == f = [m \in Msg |->
                            IF childTotal[m] # Unset THEN childTotal[m]
                            ELSE SumOf(f, 1, children[m])]
           size == [m \in Msg |-> Cardinality(Below(parent, m))]
<1>1. Total = CHOOSE f : Eq(f)
  BY DEF Total, SumOf
<1>2. Eq(size)
  <2> SUFFICES ASSUME NEW m \in Msg, childTotal[m] = Unset
               PROVE  SumOf(size, 1, children[m])
                         = Cardinality(Below(parent, m))
    BY DEF Threads
  <2>1. \A c \in Msg : parent[c] = m => size[c] = Cardinality(Below(parent, c))
    OBVIOUS
  <2> HIDE DEF size
  <2> QED
    BY <2>1, ChildrenSum
<1>3. Eq(Total)
  <2> HIDE DEF Eq
  <2> QED
    BY <1>1, <1>2
(* No message with a smallest thread has another total.                    *)
<1>4. ASSUME NEW m \in Msg, Total[m] # Cardinality(Below(parent, m)) PROVE FALSE
  <2> DEFINE Wrong(c) == Total[c] # Cardinality(Below(parent, c))
             T == {Cardinality(Below(parent, c)) : c \in {c \in Msg : Wrong(c)}}
  <2>1. T \in SUBSET Nat /\ Cardinality(Below(parent, m)) \in T
    <3>1. \A c \in Msg : Cardinality(Below(parent, c)) \in Nat
      BY BelowFinite DEF Threads
    <3> QED
      BY <1>4, <3>1
  <2>2. PICK n \in T : \A k \in T : ~(k < n)
    BY <2>1, LeastNumber
  <2>3. PICK c \in Msg : Wrong(c) /\ n = Cardinality(Below(parent, c))
    BY <2>2
  <2>4. ASSUME NEW d \in Msg, parent[d] = c
        PROVE  Total[d] = Cardinality(Below(parent, d))
    <3>1. Below(parent, d) \in SUBSET Below(parent, c) /\ c \notin Below(parent, d)
      <4>1. parent \in Parents(Msg) /\ NoParent \notin Msg /\ Acyclic(parent)
        BY MsgNumbers, ToppedIsAcyclic DEF Threads, IInv, Typed, ToppedBefore
      <4> QED
        BY <2>4, <4>1, BelowSplit, BelowApart
    <3>2. /\ IsFiniteSet(Below(parent, c)) /\ c \in Below(parent, c)
          /\ Cardinality(Below(parent, d)) \in Nat /\ Cardinality(Below(parent, c)) \in Nat
      BY BelowFinite, FiniteMsg DEF Threads
    <3>3. Cardinality(Below(parent, d)) < Cardinality(Below(parent, c))
      <4>1. Below(parent, d) # Below(parent, c)
        BY <3>1, <3>2
      <4> QED
        BY <3>1, <3>2, <4>1, FS_Subset
    <3> QED
      BY <2>2, <2>3, <3>3
  <2>5. SumOf(Total, 1, children[c])
           = Cardinality(Below(parent, c))
    BY <2>4, ChildrenSum
  <2>6. Total[c] = IF childTotal[c] # Unset THEN childTotal[c]
                   ELSE SumOf(Total, 1, children[c])
    BY <1>3
  <2> QED
    BY <2>3, <2>5, <2>6 DEF Threads
<1> QED
  BY <1>4
-----------------------------------------------------------------------------
(* The groups of sorted stamps.                                            *)
Starts(ts, n, g) ==
    \A k \in 1..n :
        /\ g[k] \in 1..k
        /\ g[k] = IF k = 1 \/ ts[k] - ts[g[k - 1]] > TimeTravelLimit THEN k ELSE g[k - 1]

LEMMA StartsExist ==
    ASSUME NEW ts \in Seq(Int), NEW n \in 0..Len(ts)
    PROVE  \E g : Starts(ts, n, g)
<1> DEFINE T == {m \in 0..Len(ts) : \A g : ~Starts(ts, m, g)}
<1> SUFFICES ASSUME n \in T PROVE FALSE
  OBVIOUS
<1>1. Len(ts) \in Nat /\ T \in SUBSET Nat
  OBVIOUS
<1>2. PICK m \in T : \A k \in T : ~(k < m)
  BY <1>1, LeastNumber
<1>3. m # 0
  BY DEF Starts
<1>4. m \in Nat /\ m - 1 \in 0..Len(ts) /\ m - 1 < m
  BY <1>1, <1>3
<1>5. m - 1 \notin T
  BY <1>2, <1>4
<1>6. PICK g : Starts(ts, m - 1, g)
  BY <1>4, <1>5
<1> DEFINE last == IF m = 1 \/ ts[m] - ts[g[m - 1]] > TimeTravelLimit THEN m ELSE g[m - 1]
           h == [k \in 1..m |-> IF k = m THEN last ELSE g[k]]
<1>7. last \in 1..m
  <2>1. CASE m = 1
    BY <2>1
  <2>2. CASE m # 1
    <3>1. m - 1 \in 1..(m - 1)
      BY <1>3, <1>4, <2>2
    <3>2. g[m - 1] \in 1..(m - 1)
      BY <1>6, <3>1 DEF Starts
    <3> QED
      BY <1>3, <1>4, <3>2
  <2> QED
    BY <2>1, <2>2
<1> HIDE DEF last
<1>8. ASSUME NEW k \in 1..m
      PROVE  /\ h[k] \in 1..k
             /\ h[k] = IF k = 1 \/ ts[k] - ts[h[k - 1]] > TimeTravelLimit THEN k ELSE h[k - 1]
  <2>1. k # 1 => k - 1 \in 1..m /\ k - 1 # m /\ h[k - 1] = g[k - 1]
    BY <1>4
  <2>2. CASE k = m
    BY <1>7, <2>1, <2>2 DEF last
  <2>3. CASE k # m
    <3>1. k \in 1..(m - 1) /\ h[k] = g[k]
      BY <1>4, <2>3
    <3> QED
      BY <1>6, <2>1, <3>1 DEF Starts
  <2> QED
    BY <2>2, <2>3
<1>9. Starts(ts, m, h)
  <2> HIDE DEF h
  <2> QED
    BY <1>8 DEF Starts
<1> QED
  BY <1>2, <1>9

LEMMA GroupStarts ==
    ASSUME NEW ts \in Seq(Int)
    PROVE  /\ DOMAIN GroupStart(ts) = DOMAIN ts
           /\ \A k \in DOMAIN ts :
                 GroupStart(ts)[k] =
                    IF k = 1 \/ ts[k] - ts[GroupStart(ts)[k - 1]] > TimeTravelLimit THEN k
                    ELSE GroupStart(ts)[k - 1]
<1> DEFINE Eq(g) == g = [k \in DOMAIN ts |->
                            IF k = 1 \/ ts[k] - ts[g[k - 1]] > TimeTravelLimit THEN k
                            ELSE g[k - 1]]
<1>1. Len(ts) \in Nat /\ DOMAIN ts = 1..Len(ts) /\ Len(ts) \in 0..Len(ts)
  OBVIOUS
<1>2. PICK g : Starts(ts, Len(ts), g)
  BY <1>1, StartsExist
<1> DEFINE h == [k \in DOMAIN ts |-> g[k]]
<1>3. \A k \in DOMAIN ts : k # 1 => k - 1 \in DOMAIN ts
  BY <1>1
<1>4. Eq(h)
  <2>1. ASSUME NEW k \in DOMAIN ts
        PROVE  h[k] = IF k = 1 \/ ts[k] - ts[h[k - 1]] > TimeTravelLimit THEN k ELSE h[k - 1]
    BY <1>1, <1>2, <1>3 DEF Starts
  <2> QED
    BY <2>1
<1>5. GroupStart(ts) = CHOOSE f : Eq(f)
  BY DEF GroupStart
<1> HIDE DEF Eq
<1>6. Eq(GroupStart(ts))
  BY <1>4, <1>5
<1> QED
  BY <1>6 DEF Eq

(* A group starts with a member of its own, and is at most a week long.    *)
InGroup(ts, k) ==
    LET g == GroupStart(ts)[k]
    IN  /\ g \in 1..k /\ GroupStart(ts)[g] = g
        /\ ts[k] - ts[g] <= TimeTravelLimit

LEMMA GroupsHold ==
    ASSUME NEW ts \in Seq(Int), NEW n \in DOMAIN ts
    PROVE  InGroup(ts, n)
<1> DEFINE T == {k \in DOMAIN ts : ~InGroup(ts, k)}
<1> SUFFICES ASSUME n \in T PROVE FALSE
  OBVIOUS
<1>1. Len(ts) \in Nat /\ DOMAIN ts = 1..Len(ts) /\ T \in SUBSET Nat
  OBVIOUS
<1>2. PICK m \in T : \A k \in T : ~(k < m)
  BY <1>1, LeastNumber
<1>3. m \in 1..Len(ts) /\ ~InGroup(ts, m)
  BY <1>1
<1>4. CASE GroupStart(ts)[m] = m
  <2>1. ts[m] \in Int
    BY <1>1, <1>3
  <2> QED
    BY <1>3, <1>4, <2>1, DateAssumption DEF InGroup
<1>5. CASE GroupStart(ts)[m] # m
  <2>1. /\ m # 1 /\ GroupStart(ts)[m] = GroupStart(ts)[m - 1]
        /\ ~(ts[m] - ts[GroupStart(ts)[m - 1]] > TimeTravelLimit)
    BY <1>1, <1>3, <1>5, GroupStarts
  <2>2. m - 1 \in 1..Len(ts) /\ m - 1 < m
    BY <1>1, <1>3, <2>1
  <2>3. InGroup(ts, m - 1)
    BY <1>1, <1>2, <2>2
  <2>4. GroupStart(ts)[m - 1] \in 1..(m - 1) /\ GroupStart(ts)[m - 1] \in DOMAIN ts
    BY <1>1, <1>3, <2>2, <2>3 DEF InGroup
  <2>5. ts[m] \in Int /\ ts[GroupStart(ts)[m - 1]] \in Int
    BY <1>1, <1>3, <2>4
  <2> QED
    BY <1>3, <2>1, <2>2, <2>3, <2>4, <2>5, DateAssumption DEF InGroup
<1> QED
  BY <1>4, <1>5
-----------------------------------------------------------------------------
Members(ts, g) == {k \in DOMAIN ts : GroupStart(ts)[k] = g}

LEMMA Largest ==
    ASSUME NEW ts \in Seq(Int), ts # <<>>
    PROVE  \E b \in DOMAIN ts :
              /\ LargestGroup(ts) = ts[b] /\ GroupStart(ts)[b] = b
              /\ \A k \in DOMAIN ts :
                    Cardinality(Members(ts, GroupStart(ts)[k])) <= Cardinality(Members(ts, b))
<1> DEFINE start == GroupStart(ts)
           G == Range(start)
           size == [g \in DOMAIN ts |-> Cardinality(Members(ts, g))]
           Best(g) == \A h \in G : Cardinality(Members(ts, h)) < Cardinality(Members(ts, g))
                                  \/ (Cardinality(Members(ts, h)) = Cardinality(Members(ts, g))
                                      /\ g <= h)
           best == CHOOSE g \in G : Best(g)
<1>1. LargestGroup(ts) = ts[best]
  BY DEF LargestGroup, Members
<1>2. /\ Len(ts) \in Nat /\ DOMAIN ts = 1..Len(ts) /\ 1 \in DOMAIN ts
      /\ IsFiniteSet(DOMAIN ts)
  <2>1. Len(ts) \in Nat /\ DOMAIN ts = 1..Len(ts) /\ Len(ts) # 0
    OBVIOUS
  <2> QED
    BY <2>1, FS_Interval
<1>3. \A k \in DOMAIN ts : start[k] \in DOMAIN ts /\ start[start[k]] = start[k]
  <2> SUFFICES ASSUME NEW k \in DOMAIN ts
               PROVE  start[k] \in DOMAIN ts /\ start[start[k]] = start[k]
    OBVIOUS
  <2>1. InGroup(ts, k)
    BY GroupsHold
  <2> QED
    BY <1>2, <2>1 DEF InGroup
<1>4. G = {start[k] : k \in DOMAIN ts} /\ G \in SUBSET DOMAIN ts /\ G # {}
  <2>1. DOMAIN start = DOMAIN ts
    BY GroupStarts
  <2> HIDE DEF start
  <2> QED
    BY <1>2, <1>3, <2>1 DEF Range
<1>5. \A g \in DOMAIN ts : Cardinality(Members(ts, g)) \in Nat
  <2> SUFFICES ASSUME NEW g \in DOMAIN ts PROVE Cardinality(Members(ts, g)) \in Nat
    OBVIOUS
  <2>1. Members(ts, g) \in SUBSET DOMAIN ts
    BY DEF Members
  <2> QED
    BY <1>2, <2>1, FS_Subset, FS_CardinalityType
<1> HIDE DEF start, G
<1>6. \E g \in G : Best(g)
  <2> DEFINE u == [g \in G |-> Cardinality(Members(ts, g))]
  <2>1. u \in [G -> Int] /\ IsFiniteSet(G) /\ \A g \in G : u[g] = Cardinality(Members(ts, g))
    <3>1. \A g \in G : Cardinality(Members(ts, g)) \in Int
      BY <1>4, <1>5
    <3>2. IsFiniteSet(G)
      BY <1>2, <1>4, FS_Subset
    <3> QED
      BY <3>1, <3>2
  <2> HIDE DEF u
  <2>2. PICK x \in G : \A y \in G : u[y] <= u[x]
    BY <1>4, <2>1, HasGreatest
  <2> DEFINE T == {g \in G : u[g] = u[x]}
  <2>3. T \in SUBSET Nat /\ T # {} /\ G \in SUBSET Nat
    <3>1. G \in SUBSET Nat
      BY <1>2, <1>4
    <3> QED
      BY <3>1
  <2>4. PICK g \in T : \A h \in T : ~(h < g)
    BY <2>3, LeastNumber
  <2>5. ASSUME NEW h \in G PROVE u[h] < u[g] \/ (u[h] = u[g] /\ g <= h)
    <3>1. u[h] \in Int /\ u[x] \in Int /\ g \in Nat /\ h \in Nat
      BY <2>1, <2>3
    <3>2. CASE h \in T
      <4>1. ~(h < g)
        BY <2>4, <3>2
      <4> QED
        BY <3>1, <3>2, <4>1
    <3>3. CASE h \notin T
      <4>1. u[h] # u[x] /\ u[h] <= u[x] /\ u[g] = u[x]
        BY <2>2, <3>3
      <4> QED
        BY <3>1, <4>1
    <3> QED
      BY <3>2, <3>3
  <2> QED
    BY <2>1, <2>5
<1> HIDE DEF Best
<1>7. best \in G /\ Best(best)
  BY <1>6
<1> HIDE DEF best
<1>8. best \in DOMAIN ts /\ start[best] = best
  BY <1>3, <1>4, <1>7
<1>9. \A k \in DOMAIN ts :
         Cardinality(Members(ts, start[k])) <= Cardinality(Members(ts, best))
  <2> SUFFICES ASSUME NEW k \in DOMAIN ts
               PROVE  Cardinality(Members(ts, start[k])) <= Cardinality(Members(ts, best))
    OBVIOUS
  <2>1. start[k] \in G /\ start[k] \in DOMAIN ts
    BY <1>3, <1>4
  <2>2. /\ Cardinality(Members(ts, start[k])) \in Nat
        /\ Cardinality(Members(ts, best)) \in Nat
    BY <1>5, <1>8, <2>1
  <2> QED
    BY <1>7, <2>1, <2>2 DEF Best
<1> QED
  BY <1>1, <1>8, <1>9 DEF start

(* A stamp far from all others, of which two or more agree, never starts   *)
(* the largest group.                                                      *)
LEMMA OutlierNotLargest ==
    ASSUME NEW ts \in Seq(Int), \A k, l \in DOMAIN ts : k < l => ts[k] <= ts[l],
           NEW o \in DOMAIN ts, NEW p \in DOMAIN ts, NEW q \in DOMAIN ts,
           o # p, o # q, p < q,
           \A k \in DOMAIN ts : k # o => TooFar(ts[o], ts[k]),
           ~TooFar(ts[p], ts[q])
    PROVE  \E b \in DOMAIN ts : b # o /\ LargestGroup(ts) = ts[b]
<1>1. PICK b \in DOMAIN ts :
         /\ LargestGroup(ts) = ts[b] /\ GroupStart(ts)[b] = b
         /\ \A k \in DOMAIN ts :
               Cardinality(Members(ts, GroupStart(ts)[k])) <= Cardinality(Members(ts, b))
  <2>1. ts # <<>>
    OBVIOUS
  <2> QED
    BY <2>1, Largest
<1> SUFFICES ASSUME b = o PROVE FALSE
  BY <1>1
<1>2. Len(ts) \in Nat /\ DOMAIN ts = 1..Len(ts) /\ \A k \in DOMAIN ts : ts[k] \in Int
  OBVIOUS
<1>3. \A k \in DOMAIN ts :
         /\ GroupStart(ts)[k] \in 1..k /\ GroupStart(ts)[k] \in DOMAIN ts
         /\ GroupStart(ts)[GroupStart(ts)[k]] = GroupStart(ts)[k]
         /\ ts[k] - ts[GroupStart(ts)[k]] <= TimeTravelLimit
  <2> SUFFICES ASSUME NEW k \in DOMAIN ts
               PROVE  /\ GroupStart(ts)[k] \in 1..k /\ GroupStart(ts)[k] \in DOMAIN ts
                      /\ GroupStart(ts)[GroupStart(ts)[k]] = GroupStart(ts)[k]
                      /\ ts[k] - ts[GroupStart(ts)[k]] <= TimeTravelLimit
    OBVIOUS
  <2>1. InGroup(ts, k)
    BY GroupsHold
  <2> QED
    BY <1>2, <2>1 DEF InGroup
<1>4. Members(ts, b) = {b}
  <2> SUFFICES ASSUME NEW k \in DOMAIN ts, GroupStart(ts)[k] = b, k # b PROVE FALSE
    BY <1>1 DEF Members
  <2>1. b < k /\ ts[k] - ts[b] <= TimeTravelLimit
    BY <1>2, <1>3
  <2>2. ts[b] <= ts[k] /\ ts[b] \in Int /\ ts[k] \in Int
    BY <1>2, <2>1
  <2>3. TooFar(ts[b], ts[k])
    OBVIOUS
  <2> QED
    BY <2>1, <2>2, <2>3, DateAssumption DEF TooFar
<1>5. ASSUME NEW k \in DOMAIN ts PROVE GroupStart(ts)[k] = k
  <2> DEFINE g == GroupStart(ts)[k]
             S == Members(ts, g)
  <2>1. g \in DOMAIN ts /\ k \in S /\ g \in S
    BY <1>3 DEF Members
  <2>2. IsFiniteSet(S)
    <3>1. IsFiniteSet(DOMAIN ts) /\ S \in SUBSET DOMAIN ts
      BY <1>2, FS_Interval DEF Members
    <3> QED
      BY <3>1, FS_Subset
  <2>3. Cardinality(S) <= 1 /\ Cardinality(S) \in Nat
    BY <1>1, <1>4, <2>2, FS_Singleton, FS_CardinalityType
  <2> HIDE DEF S
  <2>4. Cardinality(S \ {k}) = Cardinality(S) - 1 /\ Cardinality(S \ {k}) \in Nat
    BY <2>1, <2>2, FS_RemoveElement, FS_CardinalityType
  <2>5. Cardinality(S \ {k}) = 0
    BY <2>3, <2>4
  <2>6. S \ {k} = {}
    BY <2>2, <2>5, FS_RemoveElement, FS_EmptySet
  <2> QED
    BY <2>1, <2>6
<1>6. q # 1 /\ q - 1 \in DOMAIN ts /\ p <= q - 1
  BY <1>2
<1>7. ts[q] - ts[q - 1] > TimeTravelLimit
  <2>1. GroupStart(ts)[q] # q - 1 /\ GroupStart(ts)[q - 1] = q - 1
    BY <1>2, <1>5, <1>6
  <2> QED
    BY <1>6, <2>1, GroupStarts
<1>8. ts[p] <= ts[q - 1]
  <2>1. CASE p = q - 1
    BY <1>2, <2>1
  <2>2. CASE p # q - 1
    BY <1>2, <1>6, <2>2
  <2> QED
    BY <2>1, <2>2
<1>9. ts[p] \in Int /\ ts[q] \in Int /\ ts[q - 1] \in Int
  BY <1>2, <1>6
<1> QED
  BY <1>7, <1>8, <1>9, DateAssumption DEF TooFar
-----------------------------------------------------------------------------
LEMMA Wrapped ==
    /\ \A t \in Int : Wrap(t) \in 0..(Word - 1)
    /\ \A t \in 0..(Word - 1) : Wrap(t) = t
BY DateAssumption DEF Wrap

(* A sorted sequence of the stamps and the places its members came from.   *)
Sorting(received, s, ts) ==
    /\ s \in List(Parsing(received)) /\ Range(s) = Parsing(received)
    /\ DOMAIN ts = DOMAIN s /\ \A k \in DOMAIN s : ts[k] = Wrap(received[s[k]])

LEMMA ParsingPlaces ==
    ASSUME NEW received \in Seq(Int)
    PROVE  /\ IsFiniteSet(Parsing(received))
           /\ \A k \in Parsing(received) : k \in DOMAIN received /\ received[k] \in Int
<1>1. Len(received) \in Nat /\ DOMAIN received = 1..Len(received)
  OBVIOUS
<1>2. Parsing(received) \in SUBSET (1..Len(received))
  BY <1>1 DEF Parsing
<1>3. IsFiniteSet(Parsing(received))
  <2>1. IsFiniteSet(1..Len(received))
    BY <1>1, FS_Interval
  <2> QED
    BY <1>2, <2>1, FS_Subset
<1>4. \A k \in Parsing(received) : k \in DOMAIN received
  BY DEF Parsing
<1> QED
  BY <1>3, <1>4

LEMMA ParsedSorting ==
    ASSUME NEW received \in Seq(Int), NEW ts \in Parsed(received)
    PROVE  /\ ts \in Seq(Int)
           /\ \A k \in DOMAIN ts : ts[k] \in 0..(Word - 1)
           /\ \A k, l \in DOMAIN ts : k < l => ts[k] <= ts[l]
           /\ \E s : Sorting(received, s, ts)
<1>1. PICK s \in SetToSeqs(Parsing(received)) : ts = [k \in DOMAIN s |-> Wrap(received[s[k]])]
  BY DEF Parsed
<1>2. s \in List(Parsing(received)) /\ Range(s) = Parsing(received)
  BY ParsingPlaces, SortedList
<1>3. s \in Seq(Parsing(received)) /\ Len(s) \in Nat /\ DOMAIN s = 1..Len(s)
  BY <1>2 DEF List
<1>4. \A k \in DOMAIN s : Wrap(received[s[k]]) \in 0..(Word - 1)
  <2> SUFFICES ASSUME NEW k \in DOMAIN s PROVE Wrap(received[s[k]]) \in 0..(Word - 1)
    OBVIOUS
  <2>1. s[k] \in Parsing(received)
    BY <1>3
  <2>2. received[s[k]] \in Int
    BY <2>1, ParsingPlaces
  <2> QED
    BY <2>2, Wrapped
<1>5. ts \in [1..Len(s) -> Int]
  <2>1. \A k \in DOMAIN s : Wrap(received[s[k]]) \in Int
    BY <1>4
  <2> QED
    BY <1>1, <1>3, <2>1
<1>6. \A k, l \in DOMAIN ts : k < l => ts[k] <= ts[l]
  BY DEF Parsed
<1>7. Sorting(received, s, ts)
  BY <1>1, <1>2 DEF Sorting
<1>8. ts \in Seq(Int)
  <2> QED
    BY <1>3, <1>5
<1>9. \A k \in DOMAIN ts : ts[k] \in 0..(Word - 1)
  BY <1>1, <1>4
<1> QED
  BY <1>6, <1>7, <1>8, <1>9

LEMMA SomeParsed ==
    ASSUME NEW received \in Seq(Int)
    PROVE  Parsed(received) # {}
<1> DEFINE time == [k \in Parsing(received) |-> Wrap(received[k])]
<1>1. time \in [Parsing(received) -> Int]
  <2>1. ASSUME NEW k \in Parsing(received) PROVE Wrap(received[k]) \in Int
    <3>1. received[k] \in Int
      BY ParsingPlaces
    <3>2. Wrap(received[k]) \in 0..(Word - 1)
      BY <3>1, Wrapped
    <3> QED
      BY <3>2
  <2> QED
    BY <2>1
<1>2. \A k \in Parsing(received) : time[k] = Wrap(received[k])
  OBVIOUS
<1> HIDE DEF time
<1>3. PICK s \in SetToSeqs(Parsing(received)) :
          \A k, l \in DOMAIN s : k < l => time[s[k]] <= time[s[l]]
  BY <1>1, ParsingPlaces, CanBeSorted
<1>4. \A k \in DOMAIN s : s[k] \in Parsing(received)
  BY ParsingPlaces, SortedList DEF Range
<1> DEFINE ts == [k \in DOMAIN s |-> Wrap(received[s[k]])]
<1>5. \A k, l \in DOMAIN ts : k < l => ts[k] <= ts[l]
  BY <1>2, <1>3, <1>4
<1>6. ts \in Parsed(received)
  BY <1>5 DEF Parsed
<1> QED
  BY <1>6

(* The stamp the servers agree on.                                         *)
LEMMA ReceivedIsLargest ==
    ASSUME NEW received \in Seq(Int), Len(received) # 1, Parsing(received) # {}
    PROVE  \E ts \in Parsed(received) : ReceivedDate(received) = LargestGroup(ts)
<1> DEFINE L == {LargestGroup(ts) : ts \in Parsed(received)}
<1>1. ReceivedDate(received) = CHOOSE t \in L : TRUE
  BY DEF ReceivedDate
<1>2. L # {}
  BY SomeParsed
<1> HIDE DEF L
<1>3. ReceivedDate(received) \in L
  BY <1>1, <1>2
<1> QED
  BY <1>3 DEF L

LEMMA ReceivedIsStamp ==
    ASSUME NEW received \in Seq(Int)
    PROVE  \/ ReceivedDate(received) = NoTime /\ Parsing(received) = {}
           \/ \E k \in Parsing(received) :
                 ReceivedDate(received) \in {received[k], Wrap(received[k])}
<1>1. CASE Len(received) = 1
  <2>1. ReceivedDate(received) = received[1]
    BY <1>1 DEF ReceivedDate
  <2>2. DOMAIN received = {1}
    <3>1. DOMAIN received = 1..Len(received)
      OBVIOUS
    <3>2. 1..1 = {1}
      OBVIOUS
    <3> QED
      BY <1>1, <3>1, <3>2
  <2> QED
    BY <2>1, <2>2 DEF Parsing
<1>2. CASE Len(received) # 1 /\ Parsing(received) = {}
  BY <1>2 DEF ReceivedDate
<1>3. CASE Len(received) # 1 /\ Parsing(received) # {}
  <2>1. PICK ts \in Parsed(received) : ReceivedDate(received) = LargestGroup(ts)
    BY <1>3, ReceivedIsLargest
  <2>2. ts \in Seq(Int)
    BY ParsedSorting
  <2>3. PICK s : Sorting(received, s, ts)
    BY ParsedSorting
  <2>4. ts # <<>>
    <3> SUFFICES ASSUME DOMAIN ts = {} PROVE FALSE
      OBVIOUS
    <3>1. Range(s) = {}
      BY <2>3 DEF Sorting, Range
    <3> QED
      BY <1>3, <2>3, <3>1 DEF Sorting
  <2>5. PICK b \in DOMAIN ts : LargestGroup(ts) = ts[b]
    BY <2>2, <2>4, Largest
  <2>6. s[b] \in Parsing(received) /\ ts[b] = Wrap(received[s[b]])
    BY <2>3 DEF Sorting, Range
  <2> QED
    BY <2>1, <2>5, <2>6
<1> QED
  BY <1>1, <1>2, <1>3

LEMMA DateIsInteger ==
    ASSUME NEW h \in [received : Seq(Int), date : Int, slashed : Int]
    PROVE  MessageDate(h) \in Int /\ Epoch(h) \in 0..(Word - 1)
<1>1. h.received \in Seq(Int) /\ h.date \in Int /\ h.slashed \in Int
  OBVIOUS
<1>2. ReceivedDate(h.received) \in Int
  <2>1. CASE ReceivedDate(h.received) = NoTime
    BY <2>1 DEF NoTime
  <2>2. CASE ReceivedDate(h.received) # NoTime
    <3>1. PICK k \in Parsing(h.received) :
              ReceivedDate(h.received) \in {h.received[k], Wrap(h.received[k])}
      BY <1>1, <2>2, ReceivedIsStamp
    <3>2. h.received[k] \in Int
      BY <1>1, ParsingPlaces
    <3>3. Wrap(h.received[k]) \in 0..(Word - 1)
      BY <3>2, Wrapped
    <3> QED
      BY <3>1, <3>2, <3>3
  <2> QED
    BY <2>1, <2>2
<1>3. MessageDate(h) \in Int
  BY <1>1, <1>2 DEF MessageDate
<1> QED
  BY <1>3, Wrapped DEF Epoch

(* A message with stamps is dated within a week of what they agree on.     *)
LEMMA DatedByReceived ==
    ASSUME NEW h \in [received : Seq(Int), date : Int, slashed : Int],
           ReceivedDate(h.received) # NoTime
    PROVE  ~TooFar(MessageDate(h), ReceivedDate(h.received))
<1>1. h.received \in Seq(Int) /\ h.date \in Int
  OBVIOUS
<1>2. ReceivedDate(h.received) \in Int
  <2>1. PICK k \in Parsing(h.received) :
            ReceivedDate(h.received) \in {h.received[k], Wrap(h.received[k])}
    BY <1>1, ReceivedIsStamp
  <2>2. h.received[k] \in Int
    BY <1>1, ParsingPlaces
  <2>3. Wrap(h.received[k]) \in 0..(Word - 1)
    BY <2>2, Wrapped
  <2> QED
    BY <2>1, <2>2, <2>3
<1>3. MessageDate(h) = ReceivedDate(h.received) \/ ~TooFar(MessageDate(h), ReceivedDate(h.received))
  BY DEF MessageDate
<1> QED
  BY <1>2, <1>3, DateAssumption DEF TooFar
-----------------------------------------------------------------------------
(* The dates: epoch is what the headers say, for the messages dated so far.*)
DatesInv ==
    /\ [refs |-> refs, headers |-> headers] \in Archives
    /\ epoch \in [Msg -> 0..(Word - 1)]
    /\ phase = "dates" => \A m \in Msg : m < i => epoch[m] = Epoch(headers[m])
    /\ phase \notin {"build", "dates"} => \A m \in Msg : epoch[m] = Epoch(headers[m])

LEMMA HeadersTyped ==
    ASSUME DatesInv, NEW m \in Msg
    PROVE  /\ headers[m] \in [received : Seq(Int), date : Int, slashed : Int]
           /\ Epoch(headers[m]) \in 0..(Word - 1)
<1>1. headers \in [Msg -> [received : Seq(Int), date : Int, slashed : Int]]
  <2>1. [refs |-> refs, headers |-> headers] \in
          [refs    : [Msg -> Seq(Msg \cup {Missing, Malformed})],
           headers : [Msg -> [received : Seq(Int), date : Int, slashed : Int]]]
    BY ConnectivityAssumption DEF DatesInv
  <2> QED
    BY <2>1
<1>2. headers[m] \in [received : Seq(Int), date : Int, slashed : Int]
  BY <1>1
<1> QED
  BY <1>2, DateIsInteger

LEMMA InitDates == Init => DatesInv
<1> SUFFICES ASSUME Init PROVE DatesInv
  OBVIOUS
<1>1. PICK a \in Archives : refs = a.refs /\ headers = a.headers
  BY DEF Init
<1>2. a = [refs |-> refs, headers |-> headers]
  BY <1>1, ConnectivityAssumption
<1>3. epoch \in [Msg -> 0..(Word - 1)]
  BY DateAssumption DEF Init
<1> QED
  BY <1>1, <1>2, <1>3 DEF Init, DatesInv

LEMMA StepDates == IInv /\ DatesInv /\ [Next]_vars => DatesInv'
<1> SUFFICES ASSUME IInv, DatesInv, [Next]_vars PROVE DatesInv'
  OBVIOUS
<1> USE DEF input, graph, counts, walk
<1>1. ASSUME NEW m \in Msg, Build(m) PROVE DatesInv'
  BY <1>1, Iteration, MsgNumbers DEF Build, DatesInv
<1>2. ASSUME NEW m \in Msg, ReadDate(m) PROVE DatesInv'
  <2>1. /\ phase = "dates" /\ m = i /\ UNCHANGED <<refs, headers>>
        /\ epoch' = [epoch EXCEPT ![m] = Epoch(headers[m])]
        /\ Iterate("dates", "loops")
    BY <1>2 DEF ReadDate
  <2>2. Epoch(headers[m]) \in 0..(Word - 1)
    BY HeadersTyped
  <2>3. /\ epoch' \in [Msg -> 0..(Word - 1)] /\ epoch'[m] = Epoch(headers[m])
        /\ \A n \in Msg : n # m => epoch'[n] = epoch[n]
    BY <2>1, <2>2 DEF DatesInv
  <2>4. \/ i' = i + 1 /\ phase' = "dates"
        \/ i' = 0 /\ ~(i + 1 < NumMsg) /\ phase' = "loops"
    BY <2>1, Iteration
  <2>5. \A n \in Msg : n < i + 1 => epoch'[n] = Epoch(headers[n])
    BY <2>1, <2>3, MsgNumbers DEF DatesInv
  <2>6. ~(i + 1 < NumMsg) => \A n \in Msg : n < i + 1
    BY <2>1, MsgNumbers
  <2> QED
    BY <2>1, <2>3, <2>4, <2>5, <2>6 DEF DatesInv
<1>3. ASSUME NEW m \in Msg, StartWalk(m) PROVE DatesInv'
  BY <1>3 DEF StartWalk, DatesInv
<1>4. CASE AtTop
  <2>1. i \in Msg
    BY <1>4 DEF AtTop, IInv, WalksAbove
  <2> QED
    BY <1>4, <2>1, Iteration DEF AtTop, DatesInv
<1>5. CASE WalkUp
  BY <1>5 DEF WalkUp, DatesInv
<1>6. CASE CutLoop
  <2>1. i \in Msg
    BY <1>6 DEF CutLoop, IInv, WalksAbove
  <2> QED
    BY <1>6, <2>1, Iteration DEF CutLoop, DatesInv
<1>7. CASE SortTop
  BY <1>7 DEF SortTop, DatesInv
<1>8. ASSUME NEW m \in Msg, SortChildren(m) PROVE DatesInv'
  BY <1>8, Iteration DEF SortChildren, DatesInv
<1>9. ASSUME NEW m \in Msg, Count(m) PROVE DatesInv'
  BY <1>9, Iteration DEF Count, DatesInv
<1>10. CASE UNCHANGED vars
  BY <1>10 DEF vars, DatesInv
<1> QED
  BY <1>1, <1>2, <1>3, <1>4, <1>5, <1>6, <1>7, <1>8, <1>9, <1>10 DEF Next

(* Dates follow the servers, and most of them: the date saved is within a  *)
(* week of a stamp, and of a stamp other than one all others disagree with.*)
THEOREM DatesFollowServers == Spec => []DatesRight
<1>1. IInv /\ DatesInv => DatesRight
  <2> SUFFICES ASSUME IInv, DatesInv, NEW m \in Dated PROVE
         /\ Stamps(m) # {} => \E k \in Stamps(m) : Within(epoch[m], headers[m].received[k])
         /\ \A odd \in Stamps(m) :
                LET rest == Stamps(m) \ {odd}
                    t == headers[m].received
                IN  /\ Cardinality(rest) >= 2
                    /\ \A k, l \in rest : Within(t[k], t[l])
                    /\ \A k \in rest : TooFar(t[odd], t[k])
                    => \E k \in rest : Within(epoch[m], t[k])
    BY DEF DatesRight, DatedNearAStamp, OutlierIgnored
  <2> DEFINE h == headers[m]
             t == h.received
  <2>1. /\ m \in Msg /\ phase = "saved" /\ MessageDate(h) \in 0..(Word - 1)
        /\ \A k \in Stamps(m) : t[k] \in 0..(Word - 1)
    BY DEF Dated
  <2>2. /\ h \in [received : Seq(Int), date : Int, slashed : Int] /\ t \in Seq(Int)
    BY <2>1, HeadersTyped
  <2>3. epoch[m] = MessageDate(h)
    BY <2>1, Wrapped DEF DatesInv, Epoch
  <2>4. Stamps(m) = Parsing(t) /\ \A k \in Stamps(m) : Wrap(t[k]) = t[k] /\ t[k] # NoTime
    BY <2>1, Wrapped DEF Stamps, Parsing
  <2> HIDE DEF h
  <2>5. ASSUME Stamps(m) # {} PROVE \E k \in Stamps(m) : Within(epoch[m], t[k])
    <3>1. \/ ReceivedDate(t) = NoTime /\ Parsing(t) = {}
          \/ \E k \in Parsing(t) : ReceivedDate(t) \in {t[k], Wrap(t[k])}
      BY <2>2, ReceivedIsStamp
    <3>2. PICK k \in Stamps(m) : ReceivedDate(t) = t[k]
      BY <2>4, <2>5, <3>1
    <3>3. ~TooFar(MessageDate(h), ReceivedDate(t))
      BY <2>2, <2>4, <3>2, DatedByReceived
    <3> QED
      BY <2>3, <3>2, <3>3 DEF Within
  <2>6. ASSUME NEW odd \in Stamps(m),
               Cardinality(Stamps(m) \ {odd}) >= 2,
               \A k, l \in Stamps(m) \ {odd} : Within(t[k], t[l]),
               \A k \in Stamps(m) \ {odd} : TooFar(t[odd], t[k])
        PROVE  \E k \in Stamps(m) \ {odd} : Within(epoch[m], t[k])
    <3> DEFINE rest == Stamps(m) \ {odd}
    <3>1. IsFiniteSet(rest) /\ IsFiniteSet(Stamps(m))
      <4>1. IsFiniteSet(Stamps(m))
        BY <2>2, <2>4, ParsingPlaces
      <4> QED
        BY <4>1, FS_RemoveElement
    <3>2. PICK x \in rest, y \in rest : x # y
      <4>1. PICK x \in rest : TRUE
        <5>1. rest # {}
          BY <2>6, FS_EmptySet
        <5> QED
          BY <5>1
      <4>2. Cardinality(rest \ {x}) = Cardinality(rest) - 1 /\ Cardinality(rest) \in Nat
        BY <3>1, <4>1, FS_RemoveElement, FS_CardinalityType
      <4> HIDE DEF rest
      <4>3. rest \ {x} # {}
        <5> SUFFICES ASSUME rest \ {x} = {} PROVE FALSE
          OBVIOUS
        <5>1. Cardinality(rest \ {x}) = 0
          BY FS_EmptySet
        <5> QED
          BY <2>6, <4>2, <5>1 DEF rest
      <4> QED
        BY <4>1, <4>3
    <3>3. Len(t) # 1 /\ Parsing(t) # {}
      <4>1. DOMAIN t = 1..Len(t) /\ x \in DOMAIN t /\ y \in DOMAIN t
        BY <2>2, <2>4 DEF Parsing
      <4>2. Len(t) = 1 => DOMAIN t = {1}
        BY <4>1
      <4> QED
        BY <2>4, <3>2, <4>1, <4>2
    <3>4. PICK ts \in Parsed(t) : ReceivedDate(t) = LargestGroup(ts)
      BY <2>2, <3>3, ReceivedIsLargest
    <3>5. ts \in Seq(Int) /\ \A k, l \in DOMAIN ts : k < l => ts[k] <= ts[l]
      BY <2>2, ParsedSorting
    <3>6. PICK s : Sorting(t, s, ts)
      BY <2>2, ParsedSorting
    <3>7. /\ s \in List(Stamps(m)) /\ Range(s) = Stamps(m) /\ DOMAIN ts = DOMAIN s
          /\ \A k \in DOMAIN ts : s[k] \in Stamps(m) /\ ts[k] = t[s[k]]
      BY <2>4, <3>6 DEF Sorting, Range
    <3>8. PICK o \in DOMAIN ts, p \in DOMAIN ts, q \in DOMAIN ts : s[o] = odd /\ s[p] = x /\ s[q] = y
      BY <3>7 DEF Range
    <3>9. \A k \in DOMAIN ts : k # o => s[k] # odd
      BY <3>7, <3>8 DEF List, IsInjective
    <3>10. \A k \in DOMAIN ts : k # o => TooFar(ts[o], ts[k])
      BY <2>6, <3>7, <3>8, <3>9
    <3>11. /\ o # p /\ o # q /\ p # q /\ p \in Nat /\ q \in Nat
           /\ ~TooFar(ts[p], ts[q]) /\ ~TooFar(ts[q], ts[p])
      <4>1. DOMAIN ts = 1..Len(ts)
        BY <3>5
      <4> QED
        BY <2>6, <3>2, <3>7, <3>8, <4>1 DEF Within
    <3>12. PICK b \in DOMAIN ts : b # o /\ LargestGroup(ts) = ts[b]
      <4>1. CASE p < q
        BY <3>5, <3>10, <3>11, <4>1, OutlierNotLargest
      <4>2. CASE q < p
        BY <3>5, <3>10, <3>11, <4>2, OutlierNotLargest
      <4> QED
        BY <3>11, <4>1, <4>2
    <3>13. s[b] \in rest /\ ReceivedDate(t) = t[s[b]]
      BY <3>4, <3>7, <3>9, <3>12
    <3>14. ~TooFar(MessageDate(h), ReceivedDate(t))
      BY <2>2, <2>4, <3>13, DatedByReceived
    <3> QED
      BY <2>3, <3>13, <3>14 DEF Within
  <2> QED
    BY <2>5, <2>6 DEF h
<1>2. Init => IInv /\ DatesInv
  BY InitKeeps, InitDates
<1>3. IInv /\ DatesInv /\ [Next]_vars => (IInv /\ DatesInv)'
  BY StepKeeps, StepDates
<1> QED
  BY <1>1, <1>2, <1>3, PTL DEF Spec
-----------------------------------------------------------------------------
(* Numbers within bounds.                                                  *)
Bounds ==
    /\ i <= NumMsg
    /\ idx \in Msg \cup {Unset}
    /\ visited \subseteq Msg
    /\ broken \in Nat /\ broken <= NumMsg
    /\ phase = "build" => broken <= i

LEMMA InitBounds == Init => Bounds
BY MsgNumbers DEF Init, Bounds

LEMMA StepBounds == IInv /\ Bounds /\ [Next]_vars => Bounds'
<1> SUFFICES ASSUME IInv, Bounds, [Next]_vars PROVE Bounds'
  OBVIOUS
<1> USE DEF input, graph, counts, walk
<1>1. ASSUME NEW m \in Msg, Build(m) PROVE Bounds'
  <2>1. /\ phase = "build" /\ m = i /\ m \in Nat /\ m < NumMsg /\ NumMsg \in Nat
        /\ broken' \in {broken, broken + 1} /\ UNCHANGED walk
    BY <1>1, MsgNumbers DEF Build
  <2>2. \/ i' = i + 1 /\ i + 1 < NumMsg
        \/ i' = 0 /\ phase' = "dates"
    BY <1>1, <2>1, Iteration DEF Build
  <2> QED
    BY <2>1, <2>2 DEF Bounds
<1>2. ASSUME NEW m \in Msg, ReadDate(m) PROVE Bounds'
  BY <1>2, Iteration, MsgNumbers DEF ReadDate, Bounds
<1>3. ASSUME NEW m \in Msg, StartWalk(m) PROVE Bounds'
  BY <1>3, MsgNumbers DEF StartWalk, Bounds
<1>4. CASE AtTop
  <2>1. i \in Msg
    BY <1>4 DEF AtTop, IInv, WalksAbove
  <2> QED
    BY <1>4, <2>1, Iteration, MsgNumbers DEF AtTop, Bounds
<1>5. CASE WalkUp
  <2>1. phase = "walk" /\ parent[idx] # NoParent /\ idx' = parent[idx] /\ visited' = visited \cup {parent[idx]}
        /\ UNCHANGED <<i, broken, phase>>
    BY <1>5 DEF WalkUp
  <2>2. parent \in Parents(Msg) /\ idx \in Msg
    BY <2>1, AboveSelf DEF IInv, WalksAbove, Typed
  <2>3. parent[idx] \in Msg
    BY <2>1, <2>2 DEF Parents
  <2> QED
    BY <2>1, <2>3 DEF Bounds
<1>6. CASE CutLoop
  <2>1. i \in Msg
    BY <1>6 DEF CutLoop, IInv, WalksAbove
  <2> QED
    BY <1>6, <2>1, Iteration, MsgNumbers DEF CutLoop, Bounds
<1>7. CASE SortTop
  BY <1>7 DEF SortTop, Bounds
<1>8. ASSUME NEW m \in Msg, SortChildren(m) PROVE Bounds'
  BY <1>8, Iteration, MsgNumbers DEF SortChildren, Bounds
<1>9. ASSUME NEW m \in Msg, Count(m) PROVE Bounds'
  BY <1>9, Iteration, MsgNumbers DEF Count, Bounds
<1>10. CASE UNCHANGED vars
  BY <1>10 DEF vars, Bounds
<1> QED
  BY <1>1, <1>2, <1>3, <1>4, <1>5, <1>6, <1>7, <1>8, <1>9, <1>10 DEF Next
-----------------------------------------------------------------------------
(* The totals set are right, and one more message has one after each Count.*)
TotalsInv ==
    /\ childTotal = [m \in Msg |-> childTotal[m]]
    /\ phase \notin {"count", "saved"} => \A m \in Msg : childTotal[m] = Unset
    /\ LoopsFixed => \A m \in Msg : childTotal[m] \in {Unset, Cardinality(Below(parent, m))}
    /\ phase = "count" => \A m \in Msg : m < i => childTotal[m] # Unset
    /\ phase = "saved" => \A m \in Msg : childTotal[m] # Unset

LEMMA InitTotals == Init => TotalsInv
BY DEF Init, TotalsInv, LoopsFixed

LEMMA UntouchedTotals ==
    ASSUME TotalsInv, childTotal' = childTotal,
           phase \notin {"count", "saved"}, phase' \notin {"count", "saved"}
    PROVE  TotalsInv'
BY DEF TotalsInv

LEMMA CountTotals ==
    ASSUME IInv, TotalsInv, NEW m \in Msg, Count(m)
    PROVE  TotalsInv'
<1>1. /\ phase = "count" /\ m = i /\ parent' = parent
      /\ childTotal' = [d \in Msg |-> IF d \in Below(parent, m) THEN Total[d] ELSE childTotal[d]]
      /\ Iterate("count", "saved")
  BY DEF Count, graph
<1>2. Threads
  BY <1>1 DEF Threads, TotalsInv, LoopsFixed
<1>3. \A d \in Msg : Total[d] = Cardinality(Below(parent, d))
  BY <1>2, TotalIsSize
<1>4. m \in Below(parent, m) /\ \A d \in Msg : Cardinality(Below(parent, d)) # Unset
  <2>1. \A d \in Msg : Cardinality(Below(parent, d)) \in 1..NumMsg
    BY BelowFinite
  <2> QED
    BY <2>1, BelowFinite DEF Unset
<1>5. /\ childTotal' = [d \in Msg |-> childTotal'[d]]
      /\ \A d \in Msg : childTotal'[d] \in {childTotal[d], Cardinality(Below(parent, d))}
      /\ childTotal'[m] = Cardinality(Below(parent, m))
  BY <1>1, <1>3, <1>4
<1>6. \A d \in Msg : childTotal'[d] \in {Unset, Cardinality(Below(parent, d))}
  BY <1>2, <1>5 DEF Threads
<1>7. \A d \in Msg : d < i + 1 => childTotal'[d] # Unset
  <2> SUFFICES ASSUME NEW d \in Msg, d < i + 1 PROVE childTotal'[d] # Unset
    OBVIOUS
  <2>1. d < i \/ d = m
    BY <1>1, MsgNumbers
  <2> QED
    BY <1>1, <1>4, <1>5, <2>1 DEF TotalsInv
<1>8. \/ i' = i + 1 /\ phase' = "count"
      \/ ~(i + 1 < NumMsg) /\ phase' = "saved"
  BY <1>1, Iteration
<1>9. ~(i + 1 < NumMsg) => \A d \in Msg : d < i + 1
  BY <1>1, MsgNumbers
<1> QED
  BY <1>1, <1>5, <1>6, <1>7, <1>8, <1>9 DEF TotalsInv

LEMMA StepTotals == IInv /\ TotalsInv /\ [Next]_vars => TotalsInv'
<1> SUFFICES ASSUME IInv, TotalsInv, [Next]_vars PROVE TotalsInv'
  OBVIOUS
<1> USE DEF input, graph, counts, walk
<1>1. ASSUME NEW m \in Msg, Build(m) PROVE TotalsInv'
  BY <1>1, Iteration, UntouchedTotals DEF Build
<1>2. ASSUME NEW m \in Msg, ReadDate(m) PROVE TotalsInv'
  BY <1>2, Iteration, UntouchedTotals DEF ReadDate
<1>3. ASSUME NEW m \in Msg, StartWalk(m) PROVE TotalsInv'
  BY <1>3, UntouchedTotals DEF StartWalk
<1>4. CASE AtTop
  <2>1. i \in Msg
    BY <1>4 DEF AtTop, IInv, WalksAbove
  <2>2. phase' \in {"loops", "sortTop"}
    BY <1>4, <2>1, Iteration DEF AtTop
  <2> QED
    BY <1>4, <2>2, UntouchedTotals DEF AtTop
<1>5. CASE WalkUp
  BY <1>5, UntouchedTotals DEF WalkUp
<1>6. CASE CutLoop
  <2>1. i \in Msg
    BY <1>6 DEF CutLoop, IInv, WalksAbove
  <2>2. phase' \in {"loops", "sortTop"}
    BY <1>6, <2>1, Iteration DEF CutLoop
  <2> QED
    BY <1>6, <2>2, UntouchedTotals DEF CutLoop
<1>7. CASE SortTop
  BY <1>7, UntouchedTotals DEF SortTop
<1>8. ASSUME NEW m \in Msg, SortChildren(m) PROVE TotalsInv'
  <2>1. phase = "sort" /\ m = i /\ UNCHANGED <<childTotal, parent>> /\ Iterate("sort", "count")
    BY <1>8 DEF SortChildren
  <2>2. phase' = "sort" \/ (i' = 0 /\ phase' = "count")
    BY <2>1, Iteration
  <2>3. \A n \in Msg : ~(n < 0)
    BY MsgNumbers
  <2> QED
    BY <2>1, <2>2, <2>3 DEF TotalsInv, LoopsFixed
<1>9. ASSUME NEW m \in Msg, Count(m) PROVE TotalsInv'
  BY <1>9, CountTotals
<1>10. CASE UNCHANGED vars
  BY <1>10 DEF vars, TotalsInv, LoopsFixed
<1> QED
  BY <1>1, <1>2, <1>3, <1>4, <1>5, <1>6, <1>7, <1>8, <1>9, <1>10 DEF Next
-----------------------------------------------------------------------------
(* The lists sorted so far are in order.                                   *)
OrderInv ==
    /\ phase = "sortTop" => i = 0
    /\ phase \in {"sort", "count", "saved"} => Chronological(toplevel, epoch)
    /\ phase = "sort" => \A m \in Msg : m < i => Chronological(children[m], epoch)
    /\ phase \in {"count", "saved"} => \A m \in Msg : Chronological(children[m], epoch)

LEMMA StepOrder == IInv /\ OrderInv /\ [Next]_vars => OrderInv'
<1> SUFFICES ASSUME IInv, OrderInv, [Next]_vars PROVE OrderInv'
  OBVIOUS
<1> USE DEF input, graph, counts, walk
<1>1. ASSUME NEW m \in Msg, Build(m) PROVE OrderInv'
  BY <1>1, Iteration DEF Build, OrderInv
<1>2. ASSUME NEW m \in Msg, ReadDate(m) PROVE OrderInv'
  BY <1>2, Iteration DEF ReadDate, OrderInv
<1>3. ASSUME NEW m \in Msg, StartWalk(m) PROVE OrderInv'
  BY <1>3 DEF StartWalk, OrderInv
<1>4. CASE AtTop
  <2>1. i \in Msg
    BY <1>4 DEF AtTop, IInv, WalksAbove
  <2>2. phase' = "loops" \/ (i' = 0 /\ phase' = "sortTop")
    BY <1>4, <2>1, Iteration DEF AtTop
  <2> QED
    BY <2>2 DEF OrderInv
<1>5. CASE WalkUp
  BY <1>5 DEF WalkUp, OrderInv
<1>6. CASE CutLoop
  <2>1. i \in Msg
    BY <1>6 DEF CutLoop, IInv, WalksAbove
  <2>2. phase' = "loops" \/ (i' = 0 /\ phase' = "sortTop")
    BY <1>6, <2>1, Iteration DEF CutLoop
  <2> QED
    BY <2>2 DEF OrderInv
<1>7. CASE SortTop
  <2>1. /\ phase' = "sort" /\ i' = i /\ epoch' = epoch /\ children' = children
        /\ Chronological(toplevel', epoch)
    BY <1>7 DEF SortTop, SortedByEpoch
  <2>2. i = 0
    BY <1>7 DEF SortTop, OrderInv
  <2>3. \A m \in Msg : ~(m < 0)
    BY MsgNumbers
  <2> QED
    BY <2>1, <2>2, <2>3 DEF OrderInv
<1>8. ASSUME NEW m \in Msg, SortChildren(m) PROVE OrderInv'
  <2>1. /\ phase = "sort" /\ m = i /\ UNCHANGED <<epoch, toplevel>> /\ Iterate("sort", "count")
    BY <1>8 DEF SortChildren
  <2>2. PICK sorted : Chronological(sorted, epoch) /\ children' = [children EXCEPT ![m] = sorted]
    BY <1>8 DEF SortChildren, SortedByEpoch
  <2>3. /\ children'[m] = sorted /\ \A n \in Msg : n # m => children'[n] = children[n]
    BY <2>2 DEF IInv, Typed
  <2>4. \/ i' = i + 1 /\ phase' = "sort"
        \/ ~(i + 1 < NumMsg) /\ phase' = "count"
    BY <2>1, Iteration
  <2>5. \A n \in Msg : n < i + 1 => n < i \/ n = m
    BY <2>1, MsgNumbers
  <2>6. ~(i + 1 < NumMsg) => \A n \in Msg : n < i + 1
    BY <2>1, MsgNumbers
  <2>7. \A n \in Msg : n < i + 1 => Chronological(children'[n], epoch)
    BY <2>1, <2>2, <2>3, <2>5 DEF OrderInv
  <2> QED
    BY <2>1, <2>4, <2>6, <2>7 DEF OrderInv
<1>9. ASSUME NEW m \in Msg, Count(m) PROVE OrderInv'
  BY <1>9, Iteration DEF Count, OrderInv
<1>10. CASE UNCHANGED vars
  BY <1>10 DEF vars, OrderInv
<1> QED
  BY <1>1, <1>2, <1>3, <1>4, <1>5, <1>6, <1>7, <1>8, <1>9, <1>10 DEF Next
-----------------------------------------------------------------------------
SInv == IInv /\ CutsInv /\ DatesInv /\ Bounds /\ TotalsInv /\ OrderInv

LEMMA CutsCounted ==
    ASSUME CutsInv
    PROVE  loopcnt \in 0..NumMsg
<1>1. Cut \in SUBSET Msg
  BY DEF Cut
<1>2. IsFiniteSet(Cut) /\ Cardinality(Cut) <= Cardinality(Msg)
  BY <1>1, FiniteMsg, FS_Subset
<1>3. Cardinality(Cut) \in Nat
  BY <1>2, FS_CardinalityType
<1>4. Cardinality(Msg) = NumMsg /\ NumMsg \in Nat
  BY CardinalityOfMsg
<1> QED
  BY <1>2, <1>3, <1>4 DEF CutsInv

LEMMA TypesHold == SInv => TypeOK
<1> SUFFICES ASSUME SInv PROVE TypeOK
  OBVIOUS
<1>1. /\ parent \in [Msg -> Msg \cup {NoParent}]
      /\ children \in [Msg -> Seq(Msg)] /\ toplevel \in Seq(Msg)
      /\ phase \in Phase
  <2>1. List(Msg) \in SUBSET Seq(Msg)
    BY DEF List
  <2> QED
    BY <2>1 DEF SInv, IInv, Typed, Parents
<1>2. /\ [refs |-> refs, headers |-> headers] \in Archives
      /\ epoch \in [Msg -> 0..(Word - 1)]
  BY DEF SInv, DatesInv
<1>3. childTotal \in [Msg -> 1..NumMsg \cup {Unset}]
  <2>1. \A m \in Msg : childTotal[m] \in {Unset, Cardinality(Below(parent, m))}
    <3>1. LoopsFixed \/ phase \notin {"count", "saved"}
      BY DEF LoopsFixed
    <3> QED
      BY <3>1 DEF SInv, TotalsInv
  <2>2. \A m \in Msg : Cardinality(Below(parent, m)) \in 1..NumMsg
    BY BelowFinite DEF SInv
  <2>3. \A m \in Msg : childTotal[m] \in 1..NumMsg \cup {Unset}
    BY <2>1, <2>2
  <2>4. childTotal = [m \in Msg |-> childTotal[m]]
    BY DEF SInv, TotalsInv
  <2> QED
    BY <2>3, <2>4
<1>4. broken \in 0..NumMsg /\ loopcnt \in 0..NumMsg /\ i \in 0..NumMsg
  BY CutsCounted, MsgNumbers DEF SInv, Bounds, IInv, Typed
<1>5. idx \in Msg \cup {Unset} /\ visited \subseteq Msg
  BY DEF SInv, Bounds
<1> QED
  BY <1>1, <1>2, <1>3, <1>4, <1>5 DEF TypeOK

(* What is saved: every message with the size of its thread, and all lists *)
(* in order of dates.                                                      *)
THEOREM ThreadsAreSaved == Spec => []SavedThreads
<1>1. SInv => SavedThreads
  <2> SUFFICES ASSUME SInv, phase = "saved"
               PROVE  /\ Chronological(toplevel, epoch)
                      /\ \A m \in Msg : Chronological(children[m], epoch)
                      /\ \A m \in Msg : childTotal[m] = Cardinality(Below(parent, m))
    BY TypesHold DEF SavedThreads
  <2>1. \A m \in Msg : childTotal[m] = Cardinality(Below(parent, m))
    BY DEF SInv, TotalsInv, LoopsFixed
  <2> QED
    BY <2>1 DEF SInv, OrderInv
<1>2. Init => SInv
  <2>1. Init => OrderInv
    BY DEF Init, OrderInv
  <2> QED
    BY <2>1, InitKeeps, InitCuts, InitDates, InitBounds, InitTotals DEF SInv
<1>3. SInv /\ [Next]_vars => SInv'
  BY StepKeeps, StepCuts, StepDates, StepBounds, StepTotals, StepOrder DEF SInv
<1> QED
  BY <1>1, <1>2, <1>3, PTL DEF Spec
=============================================================================
