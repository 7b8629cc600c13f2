-------------------------- MODULE Threadify_proofs --------------------------
(***************************************************************************)
(* Applying links keeps a forest, with exact totals: for any archive, any  *)
(* number of workers and whatever the search finds.  A link waiting to be  *)
(* applied has a top as its child, no other link has the same child, and   *)
(* the child is not above the new parent unless it is in bad.              *)
(***************************************************************************)
EXTENDS Threadify, Forest_proofs

Typed == /\ parent \in Parents(Msg)
         /\ children \in [Msg -> List(Msg)]
         /\ toplevel \in List(Msg)
         /\ item \in [Workers -> Msg \cup {Idle, Finished}]
         /\ groups \in [Group -> SUBSET Msg]
         /\ cnt \in Nat /\ pos \in Nat
         /\ found \in List(Msg \X Msg)
         /\ phase \in {"match", "group", "pairs", "apply", "saved"}

ChildrenAgree == \A m \in Msg : Range(children[m]) = {c \in Msg : parent[c] = m}
TopAgrees     == Range(toplevel) = {m \in Msg : parent[m] = NoParent}
TotalsAgree   == \A m \in Msg : childTotal[m] = Cardinality(Below(parent, m))
BitsAgree     == phase # "apply" \/ found = <<>> =>
                    \A m \in Msg : bits[m] = LexiconTransformChildNum(childTotal[m] - 1)

First(n) == {toplevel[k] : k \in {k \in DOMAIN toplevel : k <= n}}

(* Match mode: one root for a thread, and a top is taken by one worker, and *)
(* linked once.                                                            *)
OneRoot == phase = "match" => \A x \in Msg : \A y \in Above(parent, x) : root[y] = root[x]
TakenOnce ==
    phase = "match" =>
        /\ pos = 0
        /\ \A w \in Workers : item[w] \in Msg => item[w] \in First(cnt)
        /\ \A v, w \in Workers : item[v] \in Msg /\ item[v] = item[w] => v = w
        /\ \A e \in Range(found) : /\ e[1] \in First(cnt)
                                   /\ \A w \in Workers : item[w] # e[1]

(* Group mode: groups are of tops, and share none.                         *)
GroupsApart ==
    phase \in {"group", "pairs"} =>
        /\ \A g, h \in Group : g # h => groups[g] \cap groups[h] = {}
        /\ \A g \in Group : groups[g] \subseteq (IF phase = "group" THEN First(pos)
                                                 ELSE Range(toplevel))
        /\ phase = "group" => found = <<>>
        /\ phase = "pairs" => \A e \in Range(found) : \E g \in Group : g < pos /\ e[1] \in groups[g]

Fits(e) == /\ parent[e[1]] = NoParent
           /\ e[1] \notin bad => e[1] \notin Above(parent, e[2])
ChildOnce == \A e, f \in Range(found) : e[1] = f[1] => e = f
LinksFit == CASE phase \in {"match", "group", "pairs"} -> \A e \in Range(found) : Fits(e)
              [] phase = "apply" -> \A k \in DOMAIN found : k > pos => Fits(found[k])
              [] phase = "saved" -> TRUE

ThreadsInv == Acyclic(parent) /\ ChildrenAgree /\ TopAgrees /\ TotalsAgree
LinksInv   == ChildOnce /\ LinksFit
TasksInv   == OneRoot /\ TakenOnce /\ GroupsApart

IInv == Typed /\ ThreadsInv /\ BitsAgree /\ LinksInv /\ TasksInv
-----------------------------------------------------------------------------
LEMMA MsgNumbers == /\ NoParent \notin Msg /\ Idle \notin Msg /\ Finished \notin Msg
                    /\ Gone \notin Group
BY DEF Msg, Group, NoParent, Idle, Finished, Gone

LEMMA FiniteMsg == /\ IsFiniteSet(Msg) /\ IsFiniteSet(Msg \X Msg)
                   /\ \A S \in SUBSET Msg : IsFiniteSet(S)
<1>1. NumMsg - 1 \in Int
  BY ThreadifyAssumption
<1>2. IsFiniteSet(Msg)
  BY <1>1, FS_Interval DEF Msg
<1> QED
  BY <1>2, FS_Subset, FS_Product

LEMMA EmptyList == \A S : <<>> \in List(S) /\ Range(<<>>) = {}
BY DEF List, IsInjective, Range

LEMMA ListPlaces ==
    ASSUME NEW S, NEW s \in List(S)
    PROVE  /\ s \in Seq(S) /\ Len(s) \in Nat /\ DOMAIN s = 1..Len(s)
           /\ \A k \in 1..Len(s) : s[k] \in S /\ s[k] \in Range(s)
           /\ \A k, l \in 1..Len(s) : s[k] = s[l] => k = l
           /\ \A x \in Range(s) : x \in S /\ \E k \in 1..Len(s) : s[k] = x
BY LenProperties DEF List, IsInjective, Range

(* The next of the messages taken one after the other.                     *)
LEMMA FirstGrows ==
    ASSUME NEW n \in Nat, toplevel \in List(Msg)
    PROVE  /\ First(n) \subseteq First(n + 1) /\ First(n + 1) \subseteq Range(toplevel)
           /\ n < Len(toplevel) => /\ toplevel[n + 1] \in First(n + 1) \ First(n)
                                   /\ toplevel[n + 1] \in Msg
<1>1. /\ Len(toplevel) \in Nat /\ DOMAIN toplevel = 1..Len(toplevel)
      /\ \A k \in 1..Len(toplevel) : toplevel[k] \in Msg /\ toplevel[k] \in Range(toplevel)
      /\ \A k, l \in 1..Len(toplevel) : toplevel[k] = toplevel[l] => k = l
  BY ListPlaces
<1>2. First(n) \subseteq First(n + 1)
  BY <1>1 DEF First
<1>3. First(n + 1) \subseteq Range(toplevel)
  BY <1>1 DEF First
<1>4. ASSUME n < Len(toplevel)
      PROVE  toplevel[n + 1] \in First(n + 1) \ First(n) /\ toplevel[n + 1] \in Msg
  <2>1. n + 1 \in 1..Len(toplevel)
    BY <1>1, <1>4
  <2>2. \A k \in 1..Len(toplevel) : k <= n => toplevel[k] # toplevel[n + 1]
    BY <1>1, <2>1
  <2> QED
    BY <1>1, <2>1, <2>2 DEF First
<1> QED
  BY <1>2, <1>3, <1>4

(* The archive is read as lists that agree, in order.                      *)
LEMMA ListsRead ==
    ASSUME Init
    PROVE  /\ toplevel \in List(Msg) /\ TopAgrees /\ Chronological(toplevel, epoch)
           /\ children \in [Msg -> List(Msg)] /\ ChildrenAgree
           /\ \A m \in Msg : Chronological(children[m], epoch)
<1> DEFINE Orders(m) == SortedByEpoch({c \in Msg : parent[c] = m}, epoch)
<1>1. ASSUME NEW S \in SUBSET Msg, NEW s \in SortedByEpoch(S, epoch)
      PROVE  s \in List(Msg) /\ Range(s) = S /\ Chronological(s, epoch)
  <2>1. s \in SetToSeqs(S) /\ Chronological(s, epoch)
    BY DEF SortedByEpoch
  <2>2. s \in List(S) /\ Range(s) = S
    BY <2>1, FiniteMsg, SortedList
  <2> QED
    BY <2>1, <2>2, ListOfMore
<1>2. /\ toplevel \in SortedByEpoch({m \in Msg : parent[m] = NoParent}, epoch)
      /\ children \in [Msg -> UNION {Orders(m) : m \in Msg}]
      /\ \A m \in Msg : children[m] \in Orders(m)
  BY DEF Init, ListsOf
<1>3. \A m \in Msg : /\ children[m] \in List(Msg) /\ Range(children[m]) = {c \in Msg : parent[c] = m}
                     /\ Chronological(children[m], epoch)
  <2> SUFFICES ASSUME NEW m \in Msg
               PROVE  /\ children[m] \in List(Msg) /\ Range(children[m]) = {c \in Msg : parent[c] = m}
                      /\ Chronological(children[m], epoch)
    OBVIOUS
  <2> QED
    BY <1>1, <1>2
<1>4. children \in [Msg -> List(Msg)]
  BY <1>2, <1>3
<1>5. toplevel \in List(Msg) /\ TopAgrees /\ Chronological(toplevel, epoch)
  BY <1>1, <1>2 DEF TopAgrees
<1> QED
  BY <1>3, <1>4, <1>5 DEF ChildrenAgree

LEMMA InitKeeps == Init => IInv
<1> SUFFICES ASSUME Init PROVE IInv
  OBVIOUS
<1>1. /\ parent \in Parents(Msg) /\ Acyclic(parent)
      /\ children \in [Msg -> List(Msg)] /\ toplevel \in List(Msg)
      /\ ChildrenAgree /\ TopAgrees
      /\ childTotal = [m \in Msg |-> Cardinality(Below(parent, m))]
      /\ root = [m \in Msg |-> CHOOSE r \in Above(parent, m) : parent[r] = NoParent]
      /\ cnt = 0 /\ item = [w \in Workers |-> Idle]
      /\ groups = [g \in Group |-> {}] /\ found = <<>> /\ pos = 0
      /\ bits = [m \in Msg |-> LexiconTransformChildNum(childTotal[m] - 1)]
      /\ phase \in {"group", "match"}
  BY ListsRead DEF Init, Parents
<1>3. Typed
  BY <1>1, EmptyList DEF Typed
<1>4. ThreadsInv
  BY <1>1 DEF ThreadsInv, TotalsAgree
<1>5. BitsAgree
  BY <1>1 DEF BitsAgree
<1>6. LinksInv
  BY <1>1, EmptyList DEF LinksInv, ChildOnce, LinksFit
<1>7. OneRoot
  <2> SUFFICES ASSUME NEW x \in Msg, NEW y \in Above(parent, x) PROVE root[y] = root[x]
    BY DEF OneRoot
  <2>1. y \in Msg
    BY <1>1, AboveSelf
  <2>2. \A r : (r \in Above(parent, x) /\ parent[r] = NoParent)
               <=> (r \in Above(parent, y) /\ parent[r] = NoParent)
    BY <1>1, <2>1, MsgNumbers, TopIsAbove, AboveTrans
  <2>3. (CHOOSE r \in Above(parent, x) : parent[r] = NoParent)
          = (CHOOSE r \in Above(parent, y) : parent[r] = NoParent)
    BY <2>2, Zenon
  <2> QED
    BY <1>1, <2>1, <2>3
<1>8. TakenOnce /\ GroupsApart
  BY <1>1, EmptyList, MsgNumbers DEF TakenOnce, GroupsApart
<1> QED
  BY <1>3, <1>4, <1>5, <1>6, <1>7, <1>8 DEF IInv, TasksInv
-----------------------------------------------------------------------------
LEMMA FetchKeeps ==
    ASSUME IInv, NEW w \in Workers, Fetch(w)
    PROVE  IInv'
<1>1. /\ phase = "match" /\ item[w] = Idle /\ cnt' = cnt + 1
      /\ item' = [item EXCEPT ![w] = IF cnt < Len(toplevel) THEN toplevel[cnt + 1] ELSE Finished]
      /\ UNCHANGED <<input, threads, root, grouping, found, pos, bad, bits, phase>>
  BY DEF Fetch
<1>2. Typed /\ TakenOnce
  BY DEF IInv, TasksInv
<1> DEFINE next == IF cnt < Len(toplevel) THEN toplevel[cnt + 1] ELSE Finished
<1>3. /\ First(cnt) \subseteq First(cnt + 1)
      /\ next \in Msg => next \in First(cnt + 1) \ First(cnt)
      /\ next \in Msg \cup {Finished}
  BY <1>2, FirstGrows, MsgNumbers DEF Typed
<1> HIDE DEF next
<1>4. item' \in [Workers -> Msg \cup {Idle, Finished}]
      /\ \A v \in Workers : item'[v] = IF v = w THEN next ELSE item[v]
  BY <1>1, <1>2, <1>3 DEF Typed, next
<1>5. Typed'
  BY <1>1, <1>2, <1>4 DEF Typed, threads, grouping
<1>6. First(cnt + 1) = First(cnt)'
  BY <1>1 DEF First, threads
<1>7. TakenOnce'
  <2>1. /\ pos' = 0
        /\ \A v \in Workers : item'[v] \in Msg => item'[v] \in First(cnt)'
    BY <1>1, <1>2, <1>3, <1>4, <1>6 DEF TakenOnce
  <2>2. \A u, v \in Workers : item'[u] \in Msg /\ item'[u] = item'[v] => u = v
    BY <1>1, <1>2, <1>3, <1>4 DEF TakenOnce
  <2>3. \A e \in Range(found') : e[1] \in First(cnt)' /\ \A v \in Workers : item'[v] # e[1]
    <3>1. \A e \in Range(found) : e[1] \in First(cnt) /\ e[1] \in Msg
      BY <1>1, <1>2, ListPlaces DEF TakenOnce, Typed
    <3> QED
      BY <1>1, <1>2, <1>3, <1>4, <1>6, <3>1 DEF TakenOnce
  <2> QED
    BY <2>1, <2>2, <2>3 DEF TakenOnce
<1>8. ThreadsInv' /\ BitsAgree' /\ LinksInv' /\ OneRoot' /\ GroupsApart'
  BY <1>1 DEF IInv, ThreadsInv, ChildrenAgree, TopAgrees, TotalsAgree, BitsAgree, LinksInv, ChildOnce,
        LinksFit, Fits, TasksInv, OneRoot, GroupsApart, threads, grouping
<1> QED
  BY <1>5, <1>7, <1>8 DEF IInv, TasksInv

LEMMA NoLinkKeeps ==
    ASSUME IInv, NEW w \in Workers, NoLink(w)
    PROVE  IInv'
<1>1. /\ phase = "match" /\ item' = [item EXCEPT ![w] = Idle]
      /\ UNCHANGED <<input, threads, root, cnt, grouping, found, pos, bad, bits, phase>>
  BY DEF NoLink
<1>2. Typed /\ TakenOnce
  BY DEF IInv, TasksInv
<1>3. item' \in [Workers -> Msg \cup {Idle, Finished}]
      /\ \A v \in Workers : item'[v] = IF v = w THEN Idle ELSE item[v]
  BY <1>1, <1>2 DEF Typed
<1>4. Typed'
  BY <1>1, <1>2, <1>3 DEF Typed, threads, grouping
<1>5. TakenOnce'
  <2>1. \A e \in Range(found) : e[1] \in Msg
    BY <1>2, ListPlaces DEF Typed
  <2> QED
    BY <1>1, <1>2, <1>3, <2>1, MsgNumbers DEF TakenOnce, First, threads
<1>6. ThreadsInv' /\ BitsAgree' /\ LinksInv' /\ OneRoot' /\ GroupsApart'
  BY <1>1 DEF IInv, ThreadsInv, ChildrenAgree, TopAgrees, TotalsAgree, BitsAgree, LinksInv, ChildOnce,
        LinksFit, Fits, TasksInv, OneRoot, GroupsApart, threads, grouping
<1> QED
  BY <1>4, <1>5, <1>6 DEF IInv, TasksInv

(* A worker's child is a top, and no other link has it.                    *)
LEMMA LinkKeeps ==
    ASSUME IInv, NEW w \in Workers, NEW best \in Msg, Link(w, best)
    PROVE  IInv'
<1> DEFINE child == item[w]
           link  == <<child, best>>
<1>1. /\ phase = "match" /\ child \in Msg /\ root[child] # root[best]
      /\ found' = Append(found, link)
      /\ root' = [d \in Msg |-> IF d \in Below(parent, child) THEN root[best] ELSE root[d]]
      /\ item' = [item EXCEPT ![w] = Idle]
      /\ UNCHANGED <<input, threads, cnt, grouping, pos, bad, bits, phase>>
  BY DEF Link, SetRootTo
<1>2. Typed /\ TakenOnce /\ OneRoot /\ TopAgrees /\ LinksInv
  BY DEF IInv, TasksInv, ThreadsInv
<1>3. child \in First(cnt) /\ First(cnt) \subseteq Range(toplevel)
  BY <1>1, <1>2, FirstGrows DEF TakenOnce, Typed
<1>4. parent[child] = NoParent
  BY <1>2, <1>3 DEF TopAgrees
<1>5. child \notin Above(parent, best)
  BY <1>1, <1>2 DEF OneRoot
<1>6. \A e \in Range(found) : e[1] # child /\ e[1] \in Msg /\ e[1] \in First(cnt)
  BY <1>1, <1>2, ListPlaces DEF TakenOnce, Typed
<1>7. link \in Msg \X Msg /\ link[1] = child /\ link[2] = best
  BY <1>1
<1>8. link \notin Range(found)
  BY <1>6, <1>7
<1> HIDE DEF link
<1>9. found' \in List(Msg \X Msg) /\ Range(found') = Range(found) \cup {link}
  BY <1>1, <1>2, <1>7, <1>8, AppendList DEF Typed
<1>10. item' \in [Workers -> Msg \cup {Idle, Finished}]
       /\ \A v \in Workers : item'[v] = IF v = w THEN Idle ELSE item[v]
  BY <1>1, <1>2 DEF Typed
<1>11. Typed'
  BY <1>1, <1>2, <1>9, <1>10 DEF Typed, threads, grouping
<1>12. LinksInv'
  <2>1. ChildOnce'
    BY <1>2, <1>6, <1>7, <1>9 DEF LinksInv, ChildOnce
  <2>2. \A e \in Range(found) : Fits(e)
    BY <1>1, <1>2 DEF LinksInv, LinksFit
  <2>3. Fits(link)
    BY <1>4, <1>5, <1>7 DEF Fits
  <2>4. LinksFit'
    BY <1>1, <1>9, <2>2, <2>3 DEF LinksFit, Fits, threads
  <2> QED
    BY <2>1, <2>4 DEF LinksInv
<1>13. OneRoot'
  <2> SUFFICES ASSUME NEW x \in Msg, NEW y \in Above(parent, x) PROVE root'[y] = root'[x]
    BY <1>1 DEF OneRoot, threads
  <2>1. y \in Msg /\ root[y] = root[x]
    BY <1>1, <1>2, AboveSelf DEF OneRoot, Typed
  <2>2. child \in Above(parent, x) <=> child \in Above(parent, y)
    BY <1>2, <1>4, <2>1, MsgNumbers, TopIsAbove, AboveTrans DEF Typed
  <2>3. x \in Below(parent, child) <=> y \in Below(parent, child)
    BY <1>2, <2>1, <2>2 DEF Below, Typed, Parents
  <2> QED
    BY <1>1, <2>1, <2>3
<1>14. TakenOnce'
  <2>1. First(cnt)' = First(cnt)
    BY <1>1 DEF First, threads
  <2>2. /\ pos' = 0
        /\ \A v \in Workers : item'[v] \in Msg => item'[v] \in First(cnt)'
        /\ \A u, v \in Workers : item'[u] \in Msg /\ item'[u] = item'[v] => u = v
    BY <1>1, <1>2, <1>10, <2>1, MsgNumbers DEF TakenOnce
  <2>3. ASSUME NEW e \in Range(found'), NEW v \in Workers PROVE e[1] \in First(cnt)' /\ item'[v] # e[1]
    <3>1. e[1] \in Msg /\ e[1] \in First(cnt)
      BY <1>1, <1>3, <1>6, <1>7, <1>9
    <3>2. v # w => item[v] # e[1]
      BY <1>1, <1>2, <1>7, <1>9 DEF TakenOnce
    <3> QED
      BY <1>10, <2>1, <3>1, <3>2, MsgNumbers
  <2>4. \A e \in Range(found') : e[1] \in First(cnt)'
    BY <1>3, <1>6, <1>7, <1>9, <2>1
  <2> QED
    BY <2>2, <2>3, <2>4 DEF TakenOnce
<1>15. ThreadsInv' /\ BitsAgree' /\ GroupsApart'
  BY <1>1 DEF IInv, ThreadsInv, ChildrenAgree, TopAgrees, TotalsAgree, BitsAgree,
        TasksInv, GroupsApart, threads, grouping
<1> QED
  BY <1>11, <1>12, <1>13, <1>14, <1>15 DEF IInv, TasksInv

LEMMA EndMatchKeeps ==
    ASSUME IInv, EndMatch
    PROVE  IInv'
<1>1. /\ phase = "match" /\ phase' = "apply"
      /\ found' \in SetToSeqs(Range(found))
      /\ UNCHANGED <<input, threads, matching, grouping, pos, bad, bits>>
  BY DEF EndMatch
<1>2. Typed /\ pos = 0 /\ ChildOnce /\ \A e \in Range(found) : Fits(e)
  BY <1>1 DEF IInv, TasksInv, TakenOnce, LinksInv, LinksFit
<1>3. Range(found) \subseteq Msg \X Msg
  BY <1>2, ListPlaces DEF Typed
<1>4. IsFiniteSet(Range(found))
  BY <1>3, FiniteMsg, FS_Subset
<1>5. found' \in List(Range(found)) /\ Range(found') = Range(found)
  BY <1>1, <1>4, SortedList
<1>6. found' \in List(Msg \X Msg)
  BY <1>3, <1>5, ListOfMore
<1>7. found' = <<>> => found = <<>>
  <2> SUFFICES ASSUME found' = <<>> PROVE found = <<>>
    OBVIOUS
  <2>1. Range(found) = {}
    BY <1>5, EmptyList
  <2>2. Len(found) \in Nat /\ \A k \in 1..Len(found) : found[k] \in Range(found)
    BY <1>2, ListPlaces DEF Typed
  <2>3. Len(found) = 0
    BY <2>1, <2>2
  <2> QED
    BY <1>2, <2>3, EmptySeq DEF Typed, List
<1>8. LinksInv'
  <2>1. \A k \in DOMAIN found' : Fits(found'[k])
    BY <1>2, <1>5 DEF Range
  <2>2. \A k \in DOMAIN found' : Fits(found[k])' <=> Fits(found'[k])
    BY <1>1 DEF Fits, threads
  <2>3. LinksFit'
    BY <1>1, <2>1, <2>2 DEF LinksFit
  <2> QED
    BY <1>2, <1>5, <2>3 DEF LinksInv, ChildOnce
<1>9. Typed' /\ ThreadsInv'
  BY <1>1, <1>6 DEF IInv, Typed, ThreadsInv, ChildrenAgree, TopAgrees, TotalsAgree,
        threads, matching, grouping
<1>10. BitsAgree'
  BY <1>1 DEF IInv, BitsAgree, threads
<1> QED
  BY <1>1, <1>8, <1>9, <1>10 DEF IInv, TasksInv, OneRoot, TakenOnce, GroupsApart
-----------------------------------------------------------------------------
(* A group gets a message none has, or takes over another one.             *)
LEMMA GroupKeeps ==
    ASSUME IInv, NEW m \in Msg, GroupStep(m),
           groups' \in [Group -> SUBSET Msg],
           \A g, h \in Group : g # h => groups'[g] \cap groups'[h] = {},
           \A g \in Group : \A x \in groups'[g] : x = m \/ \E h \in Group : x \in groups[h]
    PROVE  IInv'
<1>1. /\ phase = "group" /\ pos < Len(toplevel) /\ m = toplevel[pos + 1] /\ pos' = pos + 1
      /\ UNCHANGED <<input, threads, matching, found, bad, bits, phase>>
  BY DEF GroupStep
<1>2. Typed /\ GroupsApart
  BY DEF IInv, TasksInv
<1>3. m \in First(pos + 1) /\ First(pos) \subseteq First(pos + 1)
  BY <1>1, <1>2, FirstGrows DEF Typed
<1>4. First(pos)' = First(pos + 1)
  BY <1>1 DEF First, threads
<1>5. GroupsApart'
  <2>1. \A g \in Group : groups'[g] \subseteq First(pos)'
    BY <1>1, <1>2, <1>3, <1>4 DEF GroupsApart
  <2> QED
    BY <1>1, <1>2, <2>1 DEF GroupsApart
<1>6. Typed'
  BY <1>1, <1>2 DEF Typed, threads, matching
<1>7. ThreadsInv' /\ BitsAgree' /\ LinksInv' /\ OneRoot' /\ TakenOnce'
  BY <1>1 DEF IInv, ThreadsInv, ChildrenAgree, TopAgrees, TotalsAgree, BitsAgree, LinksInv, ChildOnce,
        LinksFit, Fits, TasksInv, OneRoot, TakenOnce, threads, matching
<1> QED
  BY <1>5, <1>6, <1>7 DEF IInv, TasksInv

LEMMA GroupStepsKeep ==
    ASSUME IInv, NEW m \in Msg, NoReferences(m) \/ NewGroup(m) \/ JoinGroup(m) \/ MergeGroups(m)
    PROVE  IInv'
<1>1. GroupStep(m)
  BY DEF NoReferences, NewGroup, JoinGroup, MergeGroups
<1>2. /\ phase = "group" /\ pos < Len(toplevel) /\ m = toplevel[pos + 1]
      /\ Typed /\ GroupsApart
  BY <1>1 DEF GroupStep, IInv, TasksInv
<1>3. m \notin First(pos)
  BY <1>2, FirstGrows DEF Typed
<1>4. \A g \in Group : m \notin groups[g] /\ groups[g] \in SUBSET Msg
  BY <1>2, <1>3 DEF GroupsApart, Typed
<1>5. \A g, h \in Group : g # h => groups[g] \cap groups[h] = {}
  BY <1>2 DEF GroupsApart
<1>6. CASE NoReferences(m)
  <2>1. groups' = groups
    BY <1>6 DEF NoReferences, grouping
  <2> QED
    BY <1>1, <1>2, <1>5, <2>1, GroupKeeps DEF Typed
<1>7. CASE NewGroup(m)
  <2>1. groups' = [groups EXCEPT ![curgroup] = {m}]
    BY <1>7 DEF NewGroup
  <2>2. groups' \in [Group -> SUBSET Msg]
        /\ \A g \in Group : groups'[g] = IF g = curgroup THEN {m} ELSE groups[g]
    BY <1>2, <2>1 DEF Typed
  <2>3. \A g, h \in Group : g # h => groups'[g] \cap groups'[h] = {}
    BY <1>4, <1>5, <2>2
  <2>4. \A g \in Group : \A x \in groups'[g] : x = m \/ \E h \in Group : x \in groups[h]
    BY <2>2
  <2> QED
    BY <1>1, <2>2, <2>3, <2>4, GroupKeeps
<1>8. CASE JoinGroup(m)
  <2>1. PICK g \in Group : groups' = [groups EXCEPT ![g] = @ \cup {m}]
    BY <1>8 DEF JoinGroup
  <2>2. groups' \in [Group -> SUBSET Msg]
        /\ \A h \in Group : groups'[h] = IF h = g THEN groups[h] \cup {m} ELSE groups[h]
    BY <1>2, <2>1 DEF Typed
  <2>3. \A h, k \in Group : h # k => groups'[h] \cap groups'[k] = {}
    BY <1>4, <1>5, <2>2
  <2>4. \A h \in Group : \A x \in groups'[h] : x = m \/ \E k \in Group : x \in groups[k]
    BY <2>2
  <2> QED
    BY <1>1, <2>2, <2>3, <2>4, GroupKeeps
<1>9. CASE MergeGroups(m)
  <2>1. PICK g \in Group, h \in Group :
           /\ g < h
           /\ \E slot \in AfterErase(g, {x \in Group \ {h} : groups[x] # {}}) :
                groups' = [x \in Group |->
                    CASE x = g -> groups[g] \cup groups[h] \cup (IF slot = g THEN {m} ELSE {})
                      [] x = h -> {}
                      [] OTHER -> groups[x] \cup (IF slot = x THEN {m} ELSE {})]
    BY <1>9 DEF MergeGroups
  <2>2. PICK slot \in AfterErase(g, {x \in Group \ {h} : groups[x] # {}}) :
                groups' = [x \in Group |->
                    CASE x = g -> groups[g] \cup groups[h] \cup (IF slot = g THEN {m} ELSE {})
                      [] x = h -> {}
                      [] OTHER -> groups[x] \cup (IF slot = x THEN {m} ELSE {})]
    BY <2>1
  <2>3. g # h
    BY <2>1 DEF Group
  <2> DEFINE Added(x) == IF slot = x THEN {m} ELSE {}
  <2>4. \A x \in Group : groups'[x] = IF x = g THEN groups[g] \cup groups[h] \cup Added(g)
                                      ELSE IF x = h THEN {} ELSE groups[x] \cup Added(x)
    BY <2>2, <2>3
  <2>5. \A x \in Group : groups'[x] \subseteq Msg
    BY <1>4, <2>4
  <2>6. groups' \in [Group -> SUBSET Msg]
    BY <2>2, <2>5
  <2>7. \A x, y \in Group : x # y => groups'[x] \cap groups'[y] = {}
    <3> SUFFICES ASSUME NEW x \in Group, NEW y \in Group, x # y, x # h, y # h
                 PROVE  groups'[x] \cap groups'[y] = {}
      BY <2>3, <2>4
    <3>1. Added(x) \cap Added(y) = {}
      OBVIOUS
    <3>2. \A k \in Group : Added(x) \cap groups[k] = {} /\ Added(y) \cap groups[k] = {}
      BY <1>4
    <3>3. groups[x] \cap groups[y] = {} /\ groups[x] \cap groups[h] = {} /\ groups[y] \cap groups[h] = {}
      BY <1>5
    <3> HIDE DEF Added
    <3>4. CASE x = g
      BY <2>4, <3>1, <3>2, <3>3, <3>4
    <3>5. CASE y = g
      BY <2>4, <3>1, <3>2, <3>3, <3>5
    <3>6. CASE x # g /\ y # g
      BY <2>4, <3>1, <3>2, <3>3, <3>6
    <3> QED
      BY <3>4, <3>5, <3>6
  <2>8. \A x \in Group : \A k \in groups'[x] : k = m \/ \E l \in Group : k \in groups[l]
    BY <2>4
  <2> QED
    BY <1>1, <2>6, <2>7, <2>8, GroupKeeps
<1> QED
  BY <1>6, <1>7, <1>8, <1>9

LEMMA EndGroupsKeeps ==
    ASSUME IInv, EndGroups
    PROVE  IInv'
<1>1. /\ phase = "group" /\ phase' = "pairs" /\ pos' = 0 /\ pos \in Nat
      /\ UNCHANGED <<input, threads, matching, grouping, found, bad, bits>>
  BY DEF EndGroups, IInv, Typed
<1>2. Typed /\ GroupsApart
  BY DEF IInv, TasksInv
<1>3. First(pos) \subseteq Range(toplevel)
  BY <1>1, <1>2, FirstGrows DEF Typed
<1>4. GroupsApart'
  <2>1. \A e \in Range(found) : FALSE
    BY <1>1, <1>2, EmptyList DEF GroupsApart
  <2>2. \A g \in Group : groups[g] \subseteq Range(toplevel)
    BY <1>1, <1>2, <1>3 DEF GroupsApart
  <2> QED
    BY <1>1, <1>2, <2>1, <2>2 DEF GroupsApart, threads, grouping
<1>5. Typed' /\ ThreadsInv' /\ BitsAgree' /\ LinksInv' /\ OneRoot' /\ TakenOnce'
  BY <1>1 DEF IInv, Typed, ThreadsInv, ChildrenAgree, TopAgrees, TotalsAgree, BitsAgree, LinksInv,
        ChildOnce, LinksFit, Fits, TasksInv, OneRoot, TakenOnce, threads, matching, grouping
<1> QED
  BY <1>4, <1>5 DEF IInv, TasksInv

(* The links of a group, each message but the first below the first.       *)
Joins(links, names) == \A e \in Range(links) : \E x, y \in names : e = <<x, y>> /\ x # y
Once(links)         == \A e, f \in Range(links) : e[1] = f[1] => e = f

LEMMA PairList ==
    ASSUME NEW S, NEW msg \in List(S), NEW n \in Nat, n = 0 \/ n + 1 = Len(msg),
           NEW links \in Seq(S \X S), DOMAIN links = 1..n,
           \A k \in 1..n : links[k] = <<msg[k + 1], msg[1]>>
    PROVE  links \in List(S \X S) /\ Joins(links, Range(msg)) /\ Once(links)
<1>1. /\ Len(msg) \in Nat
      /\ \A k \in 1..Len(msg) : msg[k] \in Range(msg)
      /\ \A k, l \in 1..Len(msg) : msg[k] = msg[l] => k = l
  BY ListPlaces
<1>2. \A k \in 1..n : k + 1 \in 1..Len(msg) /\ 1 \in 1..Len(msg) /\ k + 1 # 1
  BY <1>1
<1>3. \A k \in 1..n : /\ msg[k + 1] # msg[1]
                      /\ msg[k + 1] \in Range(msg) /\ msg[1] \in Range(msg)
  BY <1>1, <1>2
<1>4. \A k, l \in 1..n : msg[k + 1] = msg[l + 1] => k = l
  <2> SUFFICES ASSUME NEW k \in 1..n, NEW l \in 1..n, msg[k + 1] = msg[l + 1] PROVE k = l
    OBVIOUS
  <2>1. k + 1 = l + 1
    BY <1>1, <1>2
  <2> QED
    BY <2>1
<1>5. \A k \in 1..n : links[k][1] = msg[k + 1]
  OBVIOUS
<1>6. IsInjective(links)
  <2> SUFFICES ASSUME NEW k \in 1..n, NEW l \in 1..n, links[k] = links[l] PROVE k = l
    BY DEF IsInjective
  <2>1. links[k][1] = msg[k + 1] /\ links[l][1] = msg[l + 1]
    BY <1>5
  <2> QED
    BY <1>4, <2>1
<1>7. \A e \in Range(links) : \E k \in 1..n : e = links[k]
  BY DEF Range
<1>8. Joins(links, Range(msg))
  <2> SUFFICES ASSUME NEW e \in Range(links)
               PROVE  \E x, y \in Range(msg) : e = <<x, y>> /\ x # y
    BY DEF Joins
  <2>1. PICK k \in 1..n : e = links[k]
    BY <1>7
  <2>2. e = <<msg[k + 1], msg[1]>>
    BY <2>1
  <2> QED
    BY <1>3, <2>2
<1>9. Once(links)
  <2> SUFFICES ASSUME NEW e \in Range(links), NEW f \in Range(links), e[1] = f[1] PROVE e = f
    BY DEF Once
  <2>1. PICK k \in 1..n, l \in 1..n : e = links[k] /\ f = links[l]
    BY <1>7
  <2>2. msg[k + 1] = msg[l + 1]
    BY <1>5, <2>1
  <2> QED
    BY <1>4, <2>1, <2>2
<1> QED
  BY <1>6, <1>8, <1>9 DEF List

LEMMA ConcatList ==
    ASSUME NEW S, NEW s \in List(S), NEW t \in List(S), Range(s) \cap Range(t) = {}
    PROVE  s \o t \in List(S) /\ Range(s \o t) = Range(s) \cup Range(t)
<1>1. /\ s \in Seq(S) /\ Len(s) \in Nat /\ DOMAIN s = 1..Len(s)
      /\ \A k \in 1..Len(s) : s[k] \in Range(s)
      /\ \A k, l \in 1..Len(s) : s[k] = s[l] => k = l
  BY ListPlaces
<1>2. /\ t \in Seq(S) /\ Len(t) \in Nat /\ DOMAIN t = 1..Len(t)
      /\ \A k \in 1..Len(t) : t[k] \in Range(t)
      /\ \A k, l \in 1..Len(t) : t[k] = t[l] => k = l
  BY ListPlaces
<1> DEFINE r == s \o t
<1>3. /\ r \in Seq(S) /\ Len(r) = Len(s) + Len(t)
      /\ \A k \in 1..Len(s) + Len(t) : r[k] = IF k <= Len(s) THEN s[k] ELSE t[k - Len(s)]
  BY <1>1, <1>2, ConcatProperties
<1> HIDE DEF r
<1>4. DOMAIN r = 1..(Len(s) + Len(t))
  BY <1>3, LenProperties
<1>5. \A k \in DOMAIN r : /\ k <= Len(s) => k \in 1..Len(s) /\ r[k] = s[k]
                          /\ ~(k <= Len(s)) => k - Len(s) \in 1..Len(t) /\ r[k] = t[k - Len(s)]
  BY <1>1, <1>2, <1>3, <1>4
<1>6. ASSUME NEW k \in DOMAIN r, NEW l \in DOMAIN r, r[k] = r[l] PROVE k = l
  <2>1. CASE k <= Len(s) /\ l <= Len(s)
    BY <1>1, <1>5, <1>6, <2>1
  <2>2. CASE ~(k <= Len(s)) /\ ~(l <= Len(s))
    <3>1. k - Len(s) = l - Len(s)
      BY <1>2, <1>5, <1>6, <2>2
    <3> QED
      BY <1>1, <1>2, <1>4, <3>1
  <2>3. CASE k <= Len(s) /\ ~(l <= Len(s))
    <3>1. r[k] \in Range(s) /\ r[l] \in Range(t)
      BY <1>1, <1>2, <1>5, <2>3
    <3> QED
      BY <1>6, <3>1
  <2>4. CASE ~(k <= Len(s)) /\ l <= Len(s)
    <3>1. r[k] \in Range(t) /\ r[l] \in Range(s)
      BY <1>1, <1>2, <1>5, <2>4
    <3> QED
      BY <1>6, <3>1
  <2> QED
    BY <2>1, <2>2, <2>3, <2>4
<1>7. \A k \in DOMAIN r : r[k] \in Range(s) \cup Range(t)
  BY <1>1, <1>2, <1>5
<1>8. \A k \in 1..Len(s) : k \in DOMAIN r /\ r[k] = s[k]
  BY <1>1, <1>2, <1>3, <1>4
<1>9. ASSUME NEW k \in 1..Len(t) PROVE Len(s) + k \in DOMAIN r /\ r[Len(s) + k] = t[k]
  <2>1. Len(s) + k \in 1..(Len(s) + Len(t)) /\ ~(Len(s) + k <= Len(s)) /\ Len(s) + k - Len(s) = k
    BY <1>1, <1>2
  <2> QED
    BY <1>3, <1>4, <2>1
<1>10. Range(r) = Range(s) \cup Range(t)
  BY <1>1, <1>2, <1>7, <1>8, <1>9 DEF Range
<1> QED
  BY <1>3, <1>6, <1>10 DEF r, List, IsInjective

LEMMA PairsKeeps ==
    ASSUME IInv, NEW g \in Group, Pairs(g)
    PROVE  IInv'
<1>1. /\ phase = "pairs" /\ g = pos
      /\ \/ pos' = pos + 1 /\ phase' = "pairs"
         \/ pos' = 0 /\ phase' = "apply"
      /\ UNCHANGED <<input, threads, matching, grouping, bad, bits>>
  BY DEF Pairs
<1> DEFINE Size(msg) == IF msg = <<>> THEN 0 ELSE Len(msg) - 1
<1>2. PICK msg \in SetToSeqs(groups[g]) :
         found' = found \o [k \in 1..Size(msg) |-> <<msg[k + 1], msg[1]>>]
  BY DEF Pairs, SortedByEpoch
<1> DEFINE n == Size(msg)
           links == [k \in 1..n |-> <<msg[k + 1], msg[1]>>]
<1>3. Typed /\ GroupsApart /\ TopAgrees /\ ChildOnce /\ \A e \in Range(found) : Fits(e)
  BY <1>1 DEF IInv, TasksInv, ThreadsInv, LinksInv, LinksFit
<1>4. groups[g] \in SUBSET Msg /\ groups[g] \subseteq Range(toplevel)
  BY <1>1, <1>3 DEF Typed, GroupsApart
<1>5. msg \in List(groups[g]) /\ Range(msg) = groups[g]
  BY <1>4, FiniteMsg, SortedList
<1>6. n \in Nat /\ (n = 0 \/ n + 1 = Len(msg))
  <2>1. msg \in Seq(groups[g]) /\ Len(msg) \in Nat
    BY <1>5, ListPlaces
  <2>2. msg # <<>> => Len(msg) \in Nat \ {0}
    BY <2>1, EmptySeq
  <2> QED
    BY <2>1, <2>2
<1>7. msg \in List(Msg)
  BY <1>4, <1>5, ListOfMore
<1> HIDE DEF n
<1>8. /\ links \in List(Msg \X Msg)
      /\ \A e \in Range(links) : \E x, y \in groups[g] : e = <<x, y>> /\ x # y
      /\ \A e, f \in Range(links) : e[1] = f[1] => e = f
  <2>1. links \in List(Msg \X Msg) /\ Joins(links, Range(msg)) /\ Once(links)
    <3>1. \A k \in 1..n : k + 1 \in 1..Len(msg) /\ 1 \in 1..Len(msg)
      <4>1. Len(msg) \in Nat
        BY <1>7, ListPlaces
      <4> QED
        BY <1>6, <4>1
    <3>2. \A k \in 1..n : msg[k + 1] \in Msg /\ msg[1] \in Msg
      BY <1>7, <3>1, ListPlaces
    <3>3. /\ links \in Seq(Msg \X Msg) /\ DOMAIN links = 1..n
          /\ \A k \in 1..n : links[k] = <<msg[k + 1], msg[1]>>
      BY <1>6, <3>2
    <3> HIDE DEF links, n
    <3> QED
      BY <1>6, <1>7, <3>3, PairList
  <2> QED
    BY <1>5, <2>1 DEF Joins, Once
<1>9. found' = found \o links
  BY <1>2 DEF n
<1> HIDE DEF links
<1>10. \A e \in Range(found), f \in Range(links) : e[1] # f[1]
  <2> SUFFICES ASSUME NEW e \in Range(found), NEW f \in Range(links) PROVE e[1] # f[1]
    OBVIOUS
  <2>1. PICK h \in Group : h < pos /\ e[1] \in groups[h]
    BY <1>1, <1>3 DEF GroupsApart
  <2>2. h # g
    BY <1>1, <1>3, <2>1 DEF Typed, Group
  <2>3. f[1] \in groups[g]
    BY <1>8
  <2> QED
    BY <1>1, <1>3, <2>1, <2>2, <2>3 DEF GroupsApart
<1>11. Range(found) \cap Range(links) = {}
  BY <1>10
<1>12. found' \in List(Msg \X Msg) /\ Range(found') = Range(found) \cup Range(links)
  <2>1. found \in List(Msg \X Msg) /\ links \in List(Msg \X Msg)
    BY <1>3, <1>8 DEF Typed
  <2>2. /\ found \o links \in List(Msg \X Msg)
        /\ Range(found \o links) = Range(found) \cup Range(links)
    BY <1>11, <2>1, ConcatList
  <2> QED
    BY <1>9, <2>2
<1>13. ChildOnce'
  BY <1>3, <1>8, <1>10, <1>12 DEF ChildOnce
<1>14. ASSUME NEW f \in Range(links) PROVE Fits(f)
  <2>1. PICK x \in groups[g], y \in groups[g] : f = <<x, y>> /\ x # y
    BY <1>8
  <2>2. /\ x \in Msg /\ y \in Msg /\ f[1] = x /\ f[2] = y
        /\ parent[x] = NoParent /\ parent[y] = NoParent
    BY <1>3, <1>4, <2>1 DEF TopAgrees
  <2>3. x \notin Above(parent, y)
    BY <1>3, <2>1, <2>2, MsgNumbers, AboveStep DEF Typed
  <2> QED
    BY <2>2, <2>3 DEF Fits
<1>15. \A e \in Range(found') : Fits(e)
  BY <1>3, <1>12, <1>14
<1>16. LinksFit'
  <2>1. \A e : Fits(e)' <=> parent[e[1]'] = NoParent /\ (e[1]' \notin bad => e[1]' \notin Above(parent, e[2]'))
    BY <1>1 DEF Fits, threads
  <2>2. \A e \in Range(found') : Fits(e)'
    BY <1>1, <1>15 DEF Fits, threads
  <2>3. \A k \in DOMAIN found' : Fits(found[k])'
    BY <1>1, <1>15 DEF Fits, threads, Range
  <2> QED
    BY <1>1, <2>2, <2>3 DEF LinksFit
<1>17. Typed'
  BY <1>1, <1>3, <1>12 DEF Typed, threads, matching, grouping
<1>18. ThreadsInv' /\ BitsAgree'
  <2>1. ThreadsInv'
    BY <1>1 DEF IInv, ThreadsInv, ChildrenAgree, TopAgrees, TotalsAgree, threads
  <2>2. BitsAgree'
    BY <1>1 DEF IInv, BitsAgree, threads
  <2> QED
    BY <2>1, <2>2
<1>19. TasksInv'
  <2>1. OneRoot' /\ TakenOnce'
    BY <1>1 DEF OneRoot, TakenOnce
  <2>2. GroupsApart'
    <3>1. ASSUME NEW e \in Range(found'), phase' = "pairs"
          PROVE  \E h \in Group : h < pos' /\ e[1] \in groups[h]
      <4>1. CASE e \in Range(found)
        <5>1. PICK h \in Group : h < pos /\ e[1] \in groups[h]
          BY <1>1, <1>3, <4>1 DEF GroupsApart
        <5>2. h < pos'
          BY <1>1, <1>3, <3>1, <5>1 DEF Typed, Group
        <5> QED
          BY <5>1, <5>2
      <4>2. CASE e \in Range(links)
        <5>1. e[1] \in groups[g] /\ g < pos'
          BY <1>1, <1>3, <1>8, <3>1, <4>2 DEF Typed
        <5> QED
          BY <5>1
      <4> QED
        BY <1>12, <4>1, <4>2
    <3> QED
      BY <1>1, <1>3, <3>1 DEF GroupsApart, threads, grouping
  <2> QED
    BY <2>1, <2>2 DEF TasksInv
<1> QED
  BY <1>13, <1>16, <1>17, <1>18, <1>19 DEF IInv, LinksInv
-----------------------------------------------------------------------------
LEMMA SkipBadKeeps ==
    ASSUME IInv, SkipBad
    PROVE  IInv'
<1>1. /\ phase = "apply" /\ pos' = pos + 1 /\ pos < Len(found)
      /\ UNCHANGED <<input, matching, grouping, found, bits, phase, threads, bad>>
  BY DEF SkipBad, NextLink
<1>2. Typed /\ ChildOnce /\ \A k \in DOMAIN found : k > pos => Fits(found[k])
  BY <1>1 DEF IInv, LinksInv, LinksFit
<1>3. DOMAIN found \subseteq Nat
  BY <1>2, ListPlaces DEF Typed
<1>4. LinksFit'
  <2>1. \A k \in DOMAIN found : k > pos + 1 => k > pos
    BY <1>2, <1>3 DEF Typed
  <2>2. \A k \in DOMAIN found : Fits(found[k])' <=> Fits(found[k])
    BY <1>1 DEF Fits, threads
  <2> QED
    BY <1>1, <1>2, <2>1, <2>2 DEF LinksFit
<1>5. Typed' /\ ThreadsInv' /\ BitsAgree' /\ ChildOnce'
  BY <1>1, <1>2 DEF IInv, Typed, ThreadsInv, ChildrenAgree, TopAgrees, TotalsAgree, BitsAgree,
        ChildOnce, threads, matching, grouping
<1>6. TasksInv'
  BY <1>1 DEF TasksInv, OneRoot, TakenOnce, GroupsApart
<1> QED
  BY <1>4, <1>5, <1>6 DEF IInv, LinksInv

LEMMA SaveKeeps ==
    ASSUME IInv, Save
    PROVE  IInv'
<1>1. /\ phase = "apply" /\ phase' = "saved"
      /\ bits' = IF found = <<>> THEN bits
                 ELSE [m \in Msg |-> LexiconTransformChildNum(childTotal[m] - 1)]
      /\ UNCHANGED <<input, threads, matching, grouping, found, pos, bad>>
  BY DEF Save
<1>2. BitsAgree'
  BY <1>1 DEF IInv, BitsAgree, threads
<1>3. Typed' /\ ThreadsInv' /\ LinksInv'
  BY <1>1 DEF IInv, Typed, ThreadsInv, ChildrenAgree, TopAgrees, TotalsAgree,
        LinksInv, ChildOnce, LinksFit, threads, matching, grouping
<1>4. TasksInv'
  BY <1>1 DEF TasksInv, OneRoot, TakenOnce, GroupsApart
<1> QED
  BY <1>2, <1>3, <1>4 DEF IInv

(* A link that is applied joins a thread to a message of another one.      *)
LEMMA Linked ==
    ASSUME IInv, Apply
    PROVE  \E c, n \in Msg :
              /\ phase = "apply" /\ pos + 1 \in DOMAIN found /\ found[pos + 1] = <<c, n>>
              /\ parent[c] = NoParent /\ c \notin Above(parent, n)
              /\ parent' = [parent EXCEPT ![c] = n]
              /\ bad' = bad \cup {m \in Above(parent, n) : parent'[m] = NoParent}
              /\ toplevel' = RemoveFirst(toplevel, c)
              /\ childTotal' = [m \in Msg |-> IF m \in Above(parent, n)
                                              THEN childTotal[m] + childTotal[c] ELSE childTotal[m]]
              /\ \E list \in SetToSeqs(Range(children[n]) \cup {c}) \cup {Append(children[n], c)} :
                    /\ children' = [children EXCEPT ![n] = list]
                    /\ ~groupMode => Chronological(list, epoch)
              /\ pos' = pos + 1
              /\ UNCHANGED <<input, matching, grouping, found, bits, phase>>
<1> DEFINE c == found[pos + 1][1]
           n == found[pos + 1][2]
<1>1. /\ phase = "apply" /\ pos < Len(found) /\ pos' = pos + 1
      /\ UNCHANGED <<input, matching, grouping, found, bits, phase>>
      /\ c \notin bad /\ AttachTo(c, n) /\ Counted(c, Above(parent', n)) /\ Listed(c, n, ~groupMode)
  BY DEF Apply, NextLink
<1>2. Typed /\ \A k \in DOMAIN found : k > pos => Fits(found[k])
  BY <1>1 DEF IInv, LinksInv, LinksFit
<1>3. pos + 1 \in DOMAIN found /\ found[pos + 1] \in Msg \X Msg
  <2>1. Len(found) \in Nat /\ DOMAIN found = 1..Len(found) /\ \A k \in 1..Len(found) : found[k] \in Msg \X Msg
    BY <1>2, ListPlaces DEF Typed
  <2>2. pos + 1 \in 1..Len(found)
    BY <1>1, <1>2, <2>1 DEF Typed
  <2> QED
    BY <2>1, <2>2
<1>4. c \in Msg /\ n \in Msg /\ found[pos + 1] = <<c, n>>
  BY <1>3
<1>5. Fits(found[pos + 1])
  BY <1>2, <1>3 DEF Typed
<1> HIDE DEF c, n
<1>6. parent[c] = NoParent /\ c \notin Above(parent, n)
  BY <1>1, <1>5 DEF Fits, c, n
<1>7. /\ parent' = [parent EXCEPT ![c] = n]
      /\ bad' = bad \cup {m \in Above(parent', n) : parent'[m] = NoParent}
      /\ toplevel' = RemoveFirst(toplevel, c)
  BY <1>1 DEF AttachTo
<1>8. Above(parent', n) = Above(parent, n)
  <2>1. parent \in Parents(Msg) /\ NoParent \notin Msg
    BY <1>2, MsgNumbers DEF Typed
  <2>2. Attached(Msg, parent, parent', c, n)
    BY <1>4, <1>6, <1>7, <2>1 DEF Attached, Parents
  <2> QED
    BY <1>4, <1>6, <2>1, <2>2, AttachLeaves
<1>9. childTotal' = [m \in Msg |-> IF m \in Above(parent, n)
                                   THEN childTotal[m] + childTotal[c] ELSE childTotal[m]]
  BY <1>1, <1>8 DEF Counted
<1>10. \E list \in SetToSeqs(Range(children[n]) \cup {c}) \cup {Append(children[n], c)} :
          /\ children' = [children EXCEPT ![n] = list]
          /\ ~groupMode => Chronological(list, epoch)
  <2>1. \A list \in SortedByEpoch(Range(children[n]) \cup {c}, epoch) :
           list \in SetToSeqs(Range(children[n]) \cup {c}) /\ Chronological(list, epoch)
    BY DEF SortedByEpoch
  <2> QED
    BY <1>1, <2>1 DEF Listed
<1>11. bad' = bad \cup {m \in Above(parent, n) : parent'[m] = NoParent}
  BY <1>7, <1>8
<1> QED
  BY <1>1, <1>3, <1>4, <1>6, <1>7, <1>9, <1>10, <1>11

LEMMA ApplyKeeps ==
    ASSUME IInv, Apply
    PROVE  IInv'
<1>1. PICK c \in Msg, n \in Msg :
              /\ phase = "apply" /\ pos + 1 \in DOMAIN found /\ found[pos + 1] = <<c, n>>
              /\ parent[c] = NoParent /\ c \notin Above(parent, n)
              /\ parent' = [parent EXCEPT ![c] = n]
              /\ bad' = bad \cup {m \in Above(parent, n) : parent'[m] = NoParent}
              /\ toplevel' = RemoveFirst(toplevel, c)
              /\ childTotal' = [m \in Msg |-> IF m \in Above(parent, n)
                                              THEN childTotal[m] + childTotal[c] ELSE childTotal[m]]
              /\ \E list \in SetToSeqs(Range(children[n]) \cup {c}) \cup {Append(children[n], c)} :
                    /\ children' = [children EXCEPT ![n] = list]
                    /\ ~groupMode => Chronological(list, epoch)
              /\ pos' = pos + 1
              /\ UNCHANGED <<input, matching, grouping, found, bits, phase>>
  BY Linked
<1>2. Typed /\ Acyclic(parent) /\ ChildrenAgree /\ TopAgrees /\ TotalsAgree /\ ChildOnce
      /\ \A k \in DOMAIN found : k > pos => Fits(found[k])
  BY <1>1 DEF IInv, ThreadsInv, LinksInv, LinksFit
<1>3. parent \in Parents(Msg) /\ NoParent \notin Msg /\ n # NoParent
  BY <1>2, MsgNumbers DEF Typed
<1>4. parent' \in Parents(Msg) /\ \A m \in Msg : parent'[m] = IF m = c THEN n ELSE parent[m]
  BY <1>1, <1>3 DEF Parents
<1>5. Attached(Msg, parent, parent', c, n)
  BY <1>1, <1>4 DEF Attached
<1>6. Acyclic(parent')
  BY <1>2, <1>3, <1>5, AttachKeepsAcyclic
<1>7. TotalsAgree'
  <2> SUFFICES ASSUME NEW m \in Msg PROVE childTotal'[m] = Cardinality(Below(parent', m))
    BY DEF TotalsAgree
  <2>1. Cardinality(Below(parent', m)) =
           IF m \in Above(parent, n)
           THEN Cardinality(Below(parent, m)) + Cardinality(Below(parent, c))
           ELSE Cardinality(Below(parent, m))
    BY <1>3, <1>5, FiniteMsg, AttachCounts
  <2> QED
    BY <1>1, <1>2, <2>1 DEF TotalsAgree
<1>8. toplevel' \in List(Msg) /\ TopAgrees'
  <2>1. toplevel \in List(Msg) /\ Range(toplevel) = {m \in Msg : parent[m] = NoParent}
    BY <1>2 DEF Typed, TopAgrees
  <2>2. c \in Range(toplevel)
    BY <1>1, <2>1
  <2>3. toplevel' \in List(Msg) /\ Range(toplevel') = Range(toplevel) \ {c}
    BY <1>1, <2>1, <2>2, RemoveList
  <2> QED
    BY <1>3, <1>4, <2>1, <2>3 DEF TopAgrees
<1>9. children' \in [Msg -> List(Msg)] /\ ChildrenAgree'
  <2>1. PICK list \in SetToSeqs(Range(children[n]) \cup {c}) \cup {Append(children[n], c)} :
           children' = [children EXCEPT ![n] = list]
    BY <1>1
  <2>2. /\ children \in [Msg -> List(Msg)] /\ children[n] \in List(Msg)
        /\ \A m \in Msg : Range(children[m]) = {d \in Msg : parent[d] = m}
    BY <1>2 DEF Typed, ChildrenAgree
  <2>3. c \notin Range(children[n]) /\ Range(children[n]) \cup {c} \in SUBSET Msg
    BY <1>1, <1>3, <2>2
  <2>4. list \in List(Msg) /\ Range(list) = Range(children[n]) \cup {c}
    <3>1. CASE list = Append(children[n], c)
      BY <2>2, <2>3, <3>1, AppendList
    <3>2. CASE list \in SetToSeqs(Range(children[n]) \cup {c})
      <4>1. /\ list \in List(Range(children[n]) \cup {c})
            /\ Range(list) = Range(children[n]) \cup {c}
        BY <2>3, <3>2, FiniteMsg, SortedList
      <4> QED
        BY <2>3, <4>1, ListOfMore
    <3> QED
      BY <2>1, <3>1, <3>2
  <2>5. /\ children' \in [Msg -> List(Msg)]
        /\ \A m \in Msg : children'[m] = IF m = n THEN list ELSE children[m]
    BY <2>1, <2>2, <2>4
  <2>6. ASSUME NEW m \in Msg PROVE Range(children'[m]) = {d \in Msg : parent'[d] = m}
    <3>1. {d \in Msg : parent'[d] = m} = IF m = n THEN {d \in Msg : parent[d] = m} \cup {c}
                                         ELSE {d \in Msg : parent[d] = m}
      BY <1>1, <1>3, <1>4
    <3> QED
      BY <2>2, <2>4, <2>5, <3>1
  <2> QED
    BY <2>5, <2>6 DEF ChildrenAgree
<1>10. LinksFit'
  <2> SUFFICES ASSUME NEW k \in DOMAIN found, k > pos + 1 PROVE Fits(found[k])'
    BY <1>1 DEF LinksFit
  <2>1. /\ DOMAIN found = 1..Len(found) /\ Len(found) \in Nat /\ pos \in Nat
        /\ \A l \in 1..Len(found) : found[l] \in Msg \X Msg /\ found[l] \in Range(found)
        /\ \A i, j \in 1..Len(found) : found[i] = found[j] => i = j
    BY <1>2, ListPlaces DEF Typed
  <2>2. k \in 1..Len(found) /\ k # pos + 1 /\ k > pos /\ pos + 1 \in 1..Len(found)
    BY <1>1, <2>1
  <2>3. /\ found[k] \in Msg \X Msg /\ found[k] \in Range(found)
        /\ found[pos + 1] \in Range(found) /\ found[k] # found[pos + 1]
    BY <2>1, <2>2
  <2> DEFINE d == found[k][1]
             e == found[k][2]
  <2>4. found[k][1] # found[pos + 1][1]
    BY <1>2, <2>3 DEF ChildOnce
  <2>5. found[pos + 1][1] = c
    BY <1>1
  <2>6. d \in Msg /\ e \in Msg /\ d # c
    BY <2>3, <2>4, <2>5
  <2>7. Fits(found[k])
    BY <1>2, <2>1, <2>2
  <2>8. parent[d] = NoParent /\ (d \notin bad => d \notin Above(parent, e))
    BY <2>7 DEF Fits
  <2> HIDE DEF d, e
  <2>9. parent'[d] = NoParent
    BY <1>4, <2>6, <2>8
  <2>10. ASSUME d \notin bad' PROVE d \notin Above(parent', e)
    <3>1. d \notin Above(parent, e) /\ d \notin Above(parent, n)
      BY <1>1, <2>8, <2>9, <2>10
    <3>2. Above(parent', e) \subseteq Above(parent, e) \cup Above(parent, n)
      BY <1>3, <1>5, <2>6, AttachLeaves, AttachExtends
    <3> QED
      BY <3>1, <3>2
  <2> QED
    BY <1>1, <2>9, <2>10 DEF Fits, d, e
<1>11. found # <<>>
  BY <1>1
<1>12. BitsAgree'
  BY <1>1, <1>11 DEF BitsAgree
<1>13. Typed'
  BY <1>1, <1>2, <1>4, <1>8, <1>9 DEF Typed, matching, grouping
<1>14. ChildOnce' /\ TasksInv'
  BY <1>1, <1>2 DEF ChildOnce, TasksInv, OneRoot, TakenOnce, GroupsApart
<1> QED
  BY <1>6, <1>7, <1>8, <1>9, <1>10, <1>12, <1>13, <1>14 DEF IInv, ThreadsInv, LinksInv
-----------------------------------------------------------------------------
LEMMA StepKeeps == IInv /\ [Next]_vars => IInv'
<1> SUFFICES ASSUME IInv, [Next]_vars PROVE IInv'
  OBVIOUS
<1>1. ASSUME NEW w \in Workers, Fetch(w) PROVE IInv'
  BY <1>1, FetchKeeps
<1>2. ASSUME NEW w \in Workers, NoLink(w) PROVE IInv'
  BY <1>2, NoLinkKeeps
<1>3. ASSUME NEW w \in Workers, NEW best \in Msg, Link(w, best) PROVE IInv'
  BY <1>3, LinkKeeps
<1>4. CASE EndMatch
  BY <1>4, EndMatchKeeps
<1>5. ASSUME NEW m \in Msg, NoReferences(m) \/ NewGroup(m) \/ JoinGroup(m) \/ MergeGroups(m)
      PROVE  IInv'
  BY <1>5, GroupStepsKeep
<1>6. CASE EndGroups
  BY <1>6, EndGroupsKeeps
<1>7. ASSUME NEW g \in Group, Pairs(g) PROVE IInv'
  BY <1>7, PairsKeeps
<1>8. CASE SkipBad
  BY <1>8, SkipBadKeeps
<1>9. CASE Apply
  BY <1>9, ApplyKeeps
<1>10. CASE Save
  BY <1>10, SaveKeeps
<1>11. CASE UNCHANGED vars
  <2>1. Typed' /\ ThreadsInv' /\ BitsAgree'
    BY <1>11 DEF vars, threads, matching, grouping, IInv, Typed, ThreadsInv, ChildrenAgree,
          TopAgrees, TotalsAgree, BitsAgree
  <2>2. LinksInv'
    BY <1>11 DEF vars, threads, matching, grouping, IInv, LinksInv, ChildOnce, LinksFit, Fits
  <2>3. TasksInv'
    BY <1>11 DEF vars, threads, matching, grouping, IInv, TasksInv, OneRoot, TakenOnce,
          GroupsApart, First
  <2> QED
    BY <2>1, <2>2, <2>3 DEF IInv, ThreadsInv
<1> QED
  BY <1>1, <1>2, <1>3, <1>4, <1>5, <1>6, <1>7, <1>8, <1>9, <1>10, <1>11 DEF Next

(* Threads, links and tasks hang together through both modes.              *)
THEOREM Invariance == Spec => []IInv
  BY InitKeeps, StepKeeps, PTL DEF Spec

(* Whatever links the tasks found, in whatever order, applying them closes *)
(* no loop, and parents, children and the list of threads agree after each.*)
THEOREM ForestAlwaysKept == Spec => []ForestKept
<1>1. IInv => ForestKept
  <2> SUFFICES ASSUME IInv PROVE Acyclic(parent) /\ Agree(parent, children, toplevel)
    BY DEF ForestKept
  <2>1. DOMAIN parent = Msg
    BY DEF IInv, Typed, Parents
  <2>2. IsInjective(toplevel) /\ Range(toplevel) = {m \in Msg : parent[m] = NoParent}
    BY DEF IInv, Typed, ThreadsInv, TopAgrees, List
  <2>3. \A m \in Msg : IsInjective(children[m]) /\ Range(children[m]) = {c \in Msg : parent[c] = m}
    BY DEF IInv, Typed, ThreadsInv, ChildrenAgree, List
  <2> QED
    BY <2>1, <2>2, <2>3 DEF Agree, IInv, ThreadsInv
<1> QED
  BY <1>1, Invariance, PTL

(* The total of a message is the size of its thread after every link, and  *)
(* what is written into the lexicon agrees with it.                        *)
THEOREM TotalsAlwaysKept == Spec => []TotalsKept
<1>1. IInv => TotalsKept
  BY DEF IInv, ThreadsInv, TotalsAgree, BitsAgree, TotalsKept
<1> QED
  BY <1>1, Invariance, PTL

(* A link moves a whole thread: a message with a parent keeps it, and its  *)
(* thread never shrinks.                                                   *)
THEOREM OnlyTopsAreMoved == Spec => OnlyTopsMove
<1> DEFINE Kept == \A m \in Msg : parent[m] # NoParent =>
                      parent'[m] = parent[m] /\ childTotal'[m] >= childTotal[m]
<1>1. IInv => \A m \in Msg : childTotal[m] \in Nat
  <2> SUFFICES ASSUME IInv, NEW m \in Msg PROVE childTotal[m] \in Nat
    OBVIOUS
  <2>1. IsFiniteSet(Below(parent, m))
    BY FiniteMsg DEF IInv, Typed, Parents, Below
  <2> QED
    BY <2>1, FS_CardinalityType DEF IInv, ThreadsInv, TotalsAgree
<1>2. IInv /\ UNCHANGED threads => Kept
  BY <1>1 DEF threads
<1>3. IInv /\ Apply => Kept
  <2> SUFFICES ASSUME IInv, Apply, NEW m \in Msg, parent[m] # NoParent
               PROVE  parent'[m] = parent[m] /\ childTotal'[m] >= childTotal[m]
    OBVIOUS
  <2>1. PICK c \in Msg, n \in Msg :
           /\ parent[c] = NoParent
           /\ parent' = [parent EXCEPT ![c] = n]
           /\ childTotal' = [d \in Msg |-> IF d \in Above(parent, n)
                                           THEN childTotal[d] + childTotal[c] ELSE childTotal[d]]
    BY Linked
  <2>2. parent'[m] = parent[m]
    BY <2>1 DEF IInv, Typed, Parents
  <2>3. childTotal'[m] >= childTotal[m]
    BY <1>1, <2>1
  <2> QED
    BY <2>2, <2>3
<1>4. IInv /\ [Next]_vars => [Kept]_vars
  <2> SUFFICES ASSUME IInv, [Next]_vars PROVE Kept \/ UNCHANGED vars
    OBVIOUS
  <2>1. Next => Apply \/ UNCHANGED threads
    BY DEF Next, Fetch, NoLink, Link, EndMatch, NoReferences, NewGroup, JoinGroup, MergeGroups,
          GroupStep, EndGroups, Pairs, SkipBad, Save
  <2> HIDE DEF Kept
  <2> QED
    BY <1>2, <1>3, <2>1
<1> QED
  BY <1>4, Invariance, PTL DEF OnlyTopsMove, Spec
-----------------------------------------------------------------------------
(* What the variables hold besides, and the order of the threads.          *)
MoreTyped == /\ groupMode \in BOOLEAN
             /\ epoch \in DateTables /\ refs \in [Msg -> SUBSET Ref]
             /\ childTotal = [m \in Msg |-> childTotal[m]]
             /\ root \in [Msg -> Msg]
             /\ refgroup \in [Ref -> Group \cup {Gone}]
             /\ curgroup \in Nat /\ curgroup <= NumMsg /\ pos <= NumMsg
             /\ phase = "group" => curgroup <= pos
             /\ bad \subseteq Msg
             /\ bits \in [Msg -> 0..ChildMax]

InOrder == ~groupMode => /\ Chronological(toplevel, epoch)
                         /\ \A m \in Msg : Chronological(children[m], epoch)

LEMMA Multiples ==
    ASSUME NEW a \in Nat, NEW u \in Nat \ {0}, NEW q \in Int, q > a
    PROVE  q * u >= a * u + u
<1> DEFINE d == q - a - 1
<1>1. d \in Nat
  OBVIOUS
<1>2. q = a + 1 + d
  OBVIOUS
<1> HIDE DEF d
<1>3. d * u \in Nat /\ a * u \in Nat
  BY <1>1
<1>4. q * u = a * u + u + d * u
  BY <1>1, <1>2
<1> QED
  BY <1>3, <1>4

LEMMA Quotient ==
    ASSUME NEW a \in Nat, NEW u \in Nat \ {0}, NEW x \in Nat, x <= a * u
    PROVE  x \div u \in 0..a
<1> DEFINE q == x \div u
<1>1. q \in Int /\ 0 <= q /\ q * u <= x
  OBVIOUS
<1>2. ~(q > a)
  <2> HIDE DEF q
  <2> SUFFICES ASSUME q > a PROVE FALSE
    OBVIOUS
  <2>1. q * u >= a * u + u
    BY <1>1, Multiples
  <2>2. q * u \in Int /\ a * u \in Int
    BY <1>1
  <2> QED
    BY <1>1, <2>1, <2>2
<1> QED
  BY <1>1, <1>2

LEMMA ChildBits ==
    ASSUME NEW n \in Nat
    PROVE  LexiconTransformChildNum(n) \in 0..ChildMax
<1> DEFINE x == IF n < ChildMax * ChildUnit THEN n ELSE ChildMax * ChildUnit
<1>1. ChildMax \in Nat /\ ChildUnit \in Nat \ {0}
  BY LexiconTypesAssumption
<1>2. ChildMax * ChildUnit \in Nat
  BY <1>1
<1>3. x \in Nat /\ x <= ChildMax * ChildUnit
  BY <1>2
<1> HIDE DEF x
<1>4. x \div ChildUnit \in 0..ChildMax
  BY <1>1, <1>3, Quotient
<1> QED
  BY <1>4 DEF LexiconTransformChildNum, x

LEMMA NumberOfMsg == NumMsg \in Nat /\ Cardinality(Msg) = NumMsg
<1>1. NumMsg \in Nat
  BY ThreadifyAssumption
<1>2. Cardinality(Msg) = (NumMsg - 1) - 0 + 1
  BY <1>1, FS_Interval DEF Msg
<1> QED
  BY <1>1, <1>2

(* A total counts the message itself, and no more than all.                *)
LEMMA TotalsFit ==
    ASSUME parent \in Parents(Msg), TotalsAgree, NEW m \in Msg
    PROVE  childTotal[m] \in 1..NumMsg
<1>1. m \in Below(parent, m) /\ Below(parent, m) \in SUBSET Msg
  BY AboveSelf DEF Below, Parents
<1>2. IsFiniteSet(Below(parent, m)) /\ IsFiniteSet(Msg)
  BY <1>1, FiniteMsg
<1>3. Cardinality(Below(parent, m)) \in Nat /\ Cardinality(Below(parent, m)) <= NumMsg
  BY <1>1, <1>2, FS_Subset, FS_CardinalityType, NumberOfMsg
<1>4. Cardinality(Below(parent, m)) # 0
  BY <1>1, <1>2, FS_EmptySet
<1> QED
  BY <1>3, <1>4, NumberOfMsg DEF TotalsAgree

(* There is at most one link for each message.                             *)
LEMMA LengthsFit ==
    ASSUME Typed, ChildOnce
    PROVE  /\ Len(toplevel) \in Nat /\ Len(toplevel) <= NumMsg
           /\ Len(found) \in Nat /\ Len(found) <= NumMsg
<1>1. IsFiniteSet(Msg) /\ Cardinality(Msg) = NumMsg /\ NumMsg \in Nat
  BY FiniteMsg, NumberOfMsg
<1>2. Len(toplevel) \in Nat /\ Len(toplevel) <= NumMsg
  BY <1>1, ListFits DEF Typed
<1>3. /\ Len(found) \in Nat
      /\ \A k \in 1..Len(found) : found[k] \in Msg \X Msg /\ found[k] \in Range(found)
      /\ \A k, l \in 1..Len(found) : found[k] = found[l] => k = l
  BY ListPlaces DEF Typed
<1> DEFINE c == [k \in 1..Len(found) |-> found[k][1]]
<1>4. c \in [1..Len(found) -> Msg]
  BY <1>3
<1>5. \A k, l \in 1..Len(found) : c[k] = c[l] => k = l
  BY <1>3 DEF ChildOnce
<1>6. c \in Injection(1..Len(found), Msg)
  BY <1>4, <1>5 DEF Injection, IsInjective
<1>7. Cardinality(1..Len(found)) <= Cardinality(Msg)
  BY <1>1, <1>6, FS_Injection
<1>8. Len(found) \in Nat
  BY <1>3
<1>9. Cardinality(1..Len(found)) = Len(found)
  BY <1>8, FS_Interval
<1> QED
  BY <1>1, <1>2, <1>7, <1>8, <1>9

LEMMA BitsFit ==
    ASSUME Typed, TotalsAgree, NEW m \in Msg
    PROVE  LexiconTransformChildNum(childTotal[m] - 1) \in 0..ChildMax
<1>1. childTotal[m] - 1 \in Nat
  BY TotalsFit, NumberOfMsg DEF Typed
<1> QED
  BY <1>1, ChildBits

LEMMA InitIsTyped == Init => MoreTyped /\ InOrder
<1> SUFFICES ASSUME Init PROVE MoreTyped /\ InOrder
  OBVIOUS
<1>1. /\ groupMode \in BOOLEAN /\ epoch \in DateTables
      /\ refs \in IF groupMode THEN RefTables ELSE {[m \in Msg |-> {}]}
      /\ Acyclic(parent)
      /\ childTotal = [m \in Msg |-> Cardinality(Below(parent, m))]
      /\ root = [m \in Msg |-> CHOOSE r \in Above(parent, m) : parent[r] = NoParent]
      /\ refgroup = [r \in Ref |-> Gone] /\ curgroup = 0 /\ pos = 0 /\ bad = {}
      /\ bits = [m \in Msg |-> LexiconTransformChildNum(childTotal[m] - 1)]
  BY DEF Init
<1>2. Typed /\ TotalsAgree
  BY InitKeeps DEF IInv, ThreadsInv
<1>3. refs \in [Msg -> SUBSET Ref]
  BY <1>1, ThreadifyAssumption
<1>4. root \in [Msg -> Msg]
  <2> SUFFICES ASSUME NEW m \in Msg
               PROVE  (CHOOSE r \in Above(parent, m) : parent[r] = NoParent) \in Msg
    BY <1>1
  <2>1. \E r \in Above(parent, m) : parent[r] = NoParent
    BY <1>1, <1>2, FiniteMsg, MsgNumbers, AcyclicIsTopped DEF Topped, Typed
  <2>2. Above(parent, m) \subseteq Msg
    BY <1>2, AboveSelf DEF Typed
  <2> QED
    BY <2>1, <2>2
<1>5. bits \in [Msg -> 0..ChildMax]
  BY <1>1, <1>2, BitsFit
<1>6. MoreTyped
  BY <1>1, <1>3, <1>4, <1>5, NumberOfMsg DEF MoreTyped
<1> QED
  BY <1>6, ListsRead DEF InOrder

(* A link takes a thread out of the list of threads, and in match mode the *)
(* list of its new parent is sorted.                                       *)
LEMMA ApplyIsTyped ==
    ASSUME IInv, MoreTyped, InOrder, Apply
    PROVE  MoreTyped' /\ InOrder'
<1>1. PICK c \in Msg, n \in Msg :
              /\ phase = "apply" /\ pos + 1 \in DOMAIN found
              /\ parent[c] = NoParent
              /\ bad' = bad \cup {m \in Above(parent, n) : parent'[m] = NoParent}
              /\ toplevel' = RemoveFirst(toplevel, c)
              /\ childTotal' = [m \in Msg |-> IF m \in Above(parent, n)
                                              THEN childTotal[m] + childTotal[c] ELSE childTotal[m]]
              /\ ~groupMode => \E list : /\ Chronological(list, epoch)
                                         /\ children' = [children EXCEPT ![n] = list]
              /\ pos' = pos + 1
              /\ UNCHANGED <<input, matching, grouping, found, bits, phase>>
  BY Linked
<1>2. Typed /\ ChildOnce /\ TopAgrees
  BY DEF IInv, LinksInv, ThreadsInv
<1>3. pos' <= NumMsg
  <2>1. DOMAIN found = 1..Len(found)
    BY <1>2, ListPlaces DEF Typed
  <2> QED
    BY <1>1, <1>2, <2>1, LengthsFit, NumberOfMsg
<1>4. bad' \subseteq Msg
  <2>1. Above(parent, n) \subseteq Msg
    BY <1>2, AboveSelf DEF Typed
  <2> QED
    BY <1>1, <2>1 DEF MoreTyped
<1>5. childTotal' = [m \in Msg |-> childTotal'[m]]
  BY <1>1
<1>6. MoreTyped'
  BY <1>1, <1>3, <1>4, <1>5 DEF MoreTyped, input, matching, grouping
<1>7. ASSUME ~groupMode PROVE Chronological(toplevel', epoch)
  <2>1. epoch \in [Msg -> Int]
    BY ThreadifyAssumption DEF MoreTyped
  <2>2. toplevel \in List(Msg) /\ c \in Range(toplevel)
    BY <1>1, <1>2 DEF Typed, TopAgrees
  <2>3. Chronological(toplevel, epoch)
    BY <1>7 DEF InOrder
  <2> QED
    BY <1>1, <2>1, <2>2, <2>3, RemoveKeepsOrder
<1>8. ASSUME ~groupMode, NEW m \in Msg PROVE Chronological(children'[m], epoch)
  <2>1. PICK list : Chronological(list, epoch) /\ children' = [children EXCEPT ![n] = list]
    BY <1>1, <1>8
  <2>2. children'[m] = IF m = n THEN list ELSE children[m]
    BY <1>2, <2>1 DEF Typed
  <2> QED
    BY <1>8, <2>1, <2>2 DEF InOrder
<1> QED
  BY <1>1, <1>6, <1>7, <1>8 DEF InOrder, input

LEMMA GroupIsTyped ==
    ASSUME IInv, MoreTyped, NEW m \in Msg, NoReferences(m) \/ NewGroup(m) \/ JoinGroup(m) \/ MergeGroups(m)
    PROVE  MoreTyped'
<1>1. /\ phase = "group" /\ pos < Len(toplevel) /\ pos' = pos + 1
      /\ UNCHANGED <<input, threads, matching, found, bad, bits, phase>>
  BY DEF NoReferences, NewGroup, JoinGroup, MergeGroups, GroupStep
<1>2. Typed /\ ChildOnce
  BY DEF IInv, LinksInv
<1>3. /\ pos \in Nat /\ NumMsg \in Nat /\ pos + 1 <= NumMsg
      /\ curgroup \in Nat /\ curgroup <= pos
  BY <1>1, <1>2, LengthsFit, NumberOfMsg DEF Typed, MoreTyped
<1>4. curgroup \in Group
  BY <1>3 DEF Group
<1>5. /\ refgroup' \in [Ref -> Group \cup {Gone}]
      /\ curgroup' \in {curgroup, curgroup + 1}
  <2>1. CASE NoReferences(m)
    BY <2>1 DEF NoReferences, MoreTyped, grouping
  <2>2. CASE NewGroup(m)
    BY <1>4, <2>2 DEF NewGroup, MoreTyped
  <2>3. CASE JoinGroup(m)
    BY <2>3 DEF JoinGroup, MoreTyped
  <2>4. CASE MergeGroups(m)
    BY <2>4 DEF MergeGroups, MoreTyped
  <2> QED
    BY <2>1, <2>2, <2>3, <2>4
<1>6. curgroup' \in Nat /\ curgroup' <= NumMsg /\ pos' <= NumMsg /\ curgroup' <= pos'
  BY <1>1, <1>3, <1>5
<1> QED
  BY <1>1, <1>5, <1>6 DEF MoreTyped, input, threads, matching

LEMMA StepIsTyped == IInv /\ MoreTyped /\ InOrder /\ [Next]_vars => MoreTyped' /\ InOrder'
<1> SUFFICES ASSUME IInv, MoreTyped, InOrder, [Next]_vars PROVE MoreTyped' /\ InOrder'
  OBVIOUS
<1>1. CASE UNCHANGED <<input, threads>>
  <2>1. InOrder'
    BY <1>1 DEF InOrder, input, threads
  <2>2. ASSUME NEW w \in Workers, Fetch(w) \/ NoLink(w) PROVE MoreTyped'
    BY <2>2 DEF Fetch, NoLink, MoreTyped, input, threads, grouping
  <2>3. ASSUME NEW w \in Workers, NEW best \in Msg, Link(w, best) PROVE MoreTyped'
    <3>1. root' \in [Msg -> Msg]
      BY <2>3 DEF Link, SetRootTo, MoreTyped
    <3> QED
      BY <2>3, <3>1 DEF Link, MoreTyped, input, threads, grouping
  <2>4. CASE EndMatch
    BY <2>1, <2>4 DEF EndMatch, MoreTyped, input, threads, matching, grouping
  <2>5. ASSUME NEW m \in Msg, NoReferences(m) \/ NewGroup(m) \/ JoinGroup(m) \/ MergeGroups(m)
        PROVE  MoreTyped'
    BY <2>5, GroupIsTyped
  <2>6. CASE EndGroups
    BY <2>1, <2>6, NumberOfMsg DEF EndGroups, MoreTyped, input, threads, matching, grouping
  <2>7. ASSUME NEW g \in Group, Pairs(g) PROVE MoreTyped'
    <3>1. pos' <= NumMsg
      BY <2>7, NumberOfMsg DEF Pairs, IInv, Typed
    <3>2. phase' # "group" /\ UNCHANGED <<input, threads, matching, grouping, bad, bits>>
      BY <2>7 DEF Pairs
    <3> QED
      BY <3>1, <3>2 DEF MoreTyped, input, threads, matching, grouping
  <2>8. CASE SkipBad
    <3>1. /\ phase = "apply" /\ pos < Len(found) /\ pos' = pos + 1
          /\ UNCHANGED <<input, threads, matching, grouping, bad, bits, phase>>
      BY <2>8 DEF SkipBad, NextLink
    <3>2. pos' <= NumMsg
      BY <3>1, LengthsFit, NumberOfMsg DEF IInv, LinksInv, Typed
    <3> QED
      BY <2>1, <3>1, <3>2 DEF MoreTyped, input, threads, matching, grouping
  <2>9. CASE Apply
    BY <2>9, ApplyIsTyped
  <2>10. CASE Save
    <3>1. bits' \in [Msg -> 0..ChildMax]
      BY <2>10, BitsFit DEF Save, MoreTyped, IInv, ThreadsInv
    <3> QED
      BY <2>1, <2>10, <3>1 DEF Save, MoreTyped, input, threads, matching, grouping
  <2>11. CASE UNCHANGED vars
    BY <2>1, <2>11 DEF vars, MoreTyped, input, threads, matching, grouping
  <2> QED
    BY <2>1, <2>2, <2>3, <2>4, <2>5, <2>6, <2>7, <2>8, <2>9, <2>10, <2>11 DEF Next
<1>2. CASE Apply
  BY <1>2, ApplyIsTyped
<1>3. Next => Apply \/ UNCHANGED <<input, threads>>
  BY DEF Next, Fetch, NoLink, Link, EndMatch, NoReferences, NewGroup, JoinGroup, MergeGroups,
        GroupStep, EndGroups, Pairs, SkipBad, NextLink, Save
<1>4. UNCHANGED vars => UNCHANGED <<input, threads>>
  BY DEF vars
<1> QED
  BY <1>1, <1>2, <1>3, <1>4

(* In match mode the threads and the children of each message stay sorted  *)
(* by date, whatever is linked: and all variables keep to their types.     *)
THEOREM MatchAlwaysKeepsOrder == Spec => []MatchKeepsOrder
<1>1. Init => MoreTyped /\ InOrder
  BY InitIsTyped
<1>2. IInv /\ (MoreTyped /\ InOrder) /\ [Next]_vars => (MoreTyped /\ InOrder)'
  BY StepIsTyped
<1>3. Spec => [](MoreTyped /\ InOrder)
  BY <1>1, <1>2, Invariance, PTL DEF Spec
<1>4. IInv /\ MoreTyped /\ InOrder => MatchKeepsOrder
  <2> SUFFICES ASSUME IInv, MoreTyped, InOrder PROVE MatchKeepsOrder
    OBVIOUS
  <2>1. Typed /\ TotalsAgree
    BY DEF IInv, ThreadsInv
  <2>2. childTotal \in [Msg -> 1..NumMsg]
    BY <2>1, TotalsFit DEF Typed, MoreTyped
  <2>3. toplevel \in Seq(Msg) /\ found \in Seq(Msg \X Msg) /\ children \in [Msg -> Seq(Msg)]
    BY <2>1 DEF Typed, List
  <2>4. curgroup \in 0..NumMsg /\ pos \in 0..NumMsg
    BY <2>1, NumberOfMsg DEF Typed, MoreTyped
  <2>5. TypeOK
    BY <2>1, <2>2, <2>3, <2>4 DEF TypeOK, Typed, MoreTyped, Parents
  <2> QED
    BY <2>5 DEF MatchKeepsOrder, InOrder
<1> QED
  BY <1>3, <1>4, Invariance, PTL
=============================================================================
