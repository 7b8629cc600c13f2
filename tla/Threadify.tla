----------------------------- MODULE Threadify -----------------------------
(***************************************************************************)
(* uat-threadify: it links threads of an archive uat-connectivity has      *)
(* processed below messages of other threads.  In match mode the Workers   *)
(* of a pool take top level messages one after the other and look for the  *)
(* message they quote; in group mode (-g) threads whose headers refer to   *)
(* the same message, which the archive lacks, are put together.  Either    *)
(* way the result is a list of links, applied when all are known.          *)
(*                                                                         *)
(* What the search engine finds and whether subjects match is left open:   *)
(* any message may be the best hit, and any hit may be refused.            *)
(***************************************************************************)
EXTENDS Forest, LexiconTypes

CONSTANTS NumMsg,       \* messages in the archive
          Workers,      \* tasks of the pool in match mode
          DateTables,   \* the dates of all messages that occur
          Ref,          \* messages the archive lacks
          RefTables,    \* what GetAllReferences finds that occurs in group mode
          Year, Month   \* how much a child may be younger or older than its parent

Msg == 0..(NumMsg - 1)

ASSUME ThreadifyAssumption ==
    /\ NumMsg \in Nat
    /\ DateTables \subseteq [Msg -> Nat]
    /\ \A refs \in RefTables : /\ refs \in [Msg -> SUBSET Ref]
                               /\ \A m \in Msg : Cardinality(refs[m]) <= 2
    /\ Year \in Nat /\ Month \in Nat

Idle     == -1  \* a worker between two messages
Finished == -2  \* a worker that found no more
Gone     == -1  \* storage of the group table that holds no group

VARIABLES groupMode, epoch, refs,                  \* input
          parent, children, childTotal, toplevel,  \* msgdata and toplevel
          root, cnt, item,                         \* match mode
          groups, refgroup, curgroup,              \* group mode
          found,  \* the links, pairs of a child and its parent
          pos,    \* the link Applying changes has reached
          bad,
          bits,   \* lexdata: what the entries of a message say of its thread
          phase

input    == <<groupMode, epoch, refs>>
threads  == <<parent, children, childTotal, toplevel>>
matching == <<root, cnt, item>>
grouping == <<groups, refgroup, curgroup>>
vars     == <<input, threads, matching, grouping, found, pos, bad, bits, phase>>

Group == 0..(NumMsg - 1)

TypeOK == /\ groupMode \in BOOLEAN
          /\ epoch \in DateTables /\ refs \in [Msg -> SUBSET Ref]
          /\ parent \in [Msg -> Msg \cup {NoParent}]
          /\ children \in [Msg -> Seq(Msg)]
          /\ childTotal \in [Msg -> 1..NumMsg]
          /\ toplevel \in Seq(Msg)
          /\ root \in [Msg -> Msg]
          /\ cnt \in Nat
          /\ item \in [Workers -> Msg \cup {Idle, Finished}]
          /\ groups \in [Group -> SUBSET Msg]
          /\ refgroup \in [Ref -> Group \cup {Gone}]
          /\ curgroup \in 0..NumMsg
          /\ found \in Seq(Msg \X Msg)
          /\ pos \in 0..NumMsg
          /\ bad \subseteq Msg
          /\ bits \in [Msg -> 0..ChildMax]
          /\ phase \in {"match", "group", "pairs", "apply", "saved"}

(* The archive is what uat-connectivity saves (Connectivity!RecordsAgree,  *)
(* SavedThreads): lists in order of dates, equal dates in any order.       *)
ListsOf(p) ==
    LET Orders(m) == SortedByEpoch({c \in Msg : p[c] = m}, epoch)
    IN  {lists \in [Msg -> UNION {Orders(m) : m \in Msg}] : \A m \in Msg : lists[m] \in Orders(m)}

Init == /\ groupMode \in BOOLEAN
        /\ epoch \in DateTables
        /\ refs \in IF groupMode THEN RefTables ELSE {[m \in Msg |-> {}]}
        /\ parent \in {p \in [Msg -> Msg \cup {NoParent}] : Acyclic(p)}
        /\ children \in ListsOf(parent)
        /\ toplevel \in SortedByEpoch({m \in Msg : parent[m] = NoParent}, epoch)
        /\ childTotal = [m \in Msg |-> Cardinality(Below(parent, m))]
        /\ root = [m \in Msg |-> CHOOSE r \in Above(parent, m) : parent[r] = NoParent]
        /\ cnt = 0 /\ item = [w \in Workers |-> Idle]
        /\ groups = [g \in Group |-> {}]
        /\ refgroup = [r \in Ref |-> Gone]
        /\ curgroup = 0
        /\ found = <<>> /\ pos = 0 /\ bad = {}
        /\ bits = [m \in Msg |-> LexiconTransformChildNum(childTotal[m] - 1)]
        /\ phase = IF groupMode THEN "group" ELSE "match"
-----------------------------------------------------------------------------
(* Match mode, the task of worker w.                                       *)

(* Variant: all messages are taken, top level or not.                      *)
FetchAny(w) ==
    /\ phase = "match" /\ item[w] = Idle
    /\ cnt' = cnt + 1
    /\ item' = [item EXCEPT ![w] = IF cnt < NumMsg THEN cnt ELSE Finished]
    /\ UNCHANGED <<input, threads, root, grouping, found, pos, bad, bits, phase>>

Fetch(w) ==
    /\ phase = "match" /\ item[w] = Idle
    /\ cnt' = cnt + 1
    /\ item' = [item EXCEPT ![w] = IF cnt < Len(toplevel) THEN toplevel[cnt + 1]
                                   ELSE Finished]
    /\ UNCHANGED <<input, threads, root, grouping, found, pos, bad, bits, phase>>

Plausible(child, best) ==
    epoch[child] <= epoch[best] + Year /\ epoch[child] >= epoch[best] - Month

(* SetRootTo goes down the children the archive has, not the links found.  *)
SetRootTo(m, val) ==
    [d \in Msg |-> IF d \in Below(parent, m) THEN val ELSE root[d]]

(* The critical section of resLock when best is taken as the parent.       *)
Link(w, best) ==
    /\ phase = "match" /\ item[w] \in Msg
    /\ root[item[w]] # root[best]
    /\ Plausible(item[w], best)
    /\ found' = Append(found, <<item[w], best>>)
    /\ root' = SetRootTo(item[w], root[best])
    /\ item' = [item EXCEPT ![w] = Idle]
    /\ UNCHANGED <<input, threads, cnt, grouping, pos, bad, bits, phase>>

(* No hits, or the best one refused.                                       *)
NoLink(w) ==
    /\ phase = "match" /\ item[w] \in Msg
    /\ item' = [item EXCEPT ![w] = Idle]
    /\ UNCHANGED <<input, threads, root, cnt, grouping, found, pos, bad, bits, phase>>

(* Sync() has returned; found is sorted by the child of each link.         *)
EndMatch ==
    /\ phase = "match" /\ \A w \in Workers : item[w] = Finished
    /\ found' \in {s \in SetToSeqs(Range(found)) : \A k \in 2..Len(s) : s[k - 1][1] <= s[k][1]}
    /\ phase' = "apply"
    /\ UNCHANGED <<input, threads, matching, grouping, pos, bad, bits>>
-----------------------------------------------------------------------------
(* Group mode, top level message m.  pos counts the ones done.             *)

Merge(m) == {refgroup[r] : r \in refs[m]} \ {Gone}

GroupStep(m) ==
    /\ phase = "group" /\ pos < Len(toplevel) /\ m = toplevel[pos + 1]
    /\ pos' = pos + 1
    /\ UNCHANGED <<input, threads, matching, found, bad, bits, phase>>

NoReferences(m) ==
    /\ GroupStep(m)
    /\ refs[m] = {}
    /\ UNCHANGED grouping

NewGroup(m) ==
    /\ GroupStep(m)
    /\ refs[m] # {} /\ Merge(m) = {}
    /\ groups' = [groups EXCEPT ![curgroup] = {m}]
    /\ refgroup' = [r \in Ref |-> IF r \in refs[m] THEN curgroup ELSE refgroup[r]]
    /\ curgroup' = curgroup + 1

JoinGroup(m) ==
    /\ GroupStep(m)
    /\ \E g \in Group :
          /\ Merge(m) = {g}
          /\ groups' = [groups EXCEPT ![g] = @ \cup {m}]
          /\ refgroup' = [r \in Ref |-> IF r \in refs[m] THEN g ELSE refgroup[r]]
    /\ UNCHANGED curgroup

(* What the reference g denotes once another element of the flat hash map  *)
(* was erased, which moves the elements behind it by one slot: what it     *)
(* did, another group, or no group.                                        *)
AfterErase(g, left) == {g, Gone} \cup left

(* The second group is added to the first and erased, then m is added      *)
(* through the reference to the first that was taken before.               *)
MergeGroups(m) ==
    /\ GroupStep(m)
    /\ \E g, h \in Group :
          /\ Merge(m) = {g, h} /\ g < h
          /\ \E slot \in AfterErase(g, {x \in Group \ {h} : groups[x] # {}}) :
                groups' = [x \in Group |->
                    CASE x = g -> groups[g] \cup groups[h] \cup (IF slot = g THEN {m} ELSE {})
                      [] x = h -> {}
                      [] OTHER -> groups[x] \cup (IF slot = x THEN {m} ELSE {})]
          /\ refgroup' = [r \in Ref |-> IF r \in refs[m] \/ refgroup[r] = h THEN g
                                        ELSE refgroup[r]]
    /\ UNCHANGED curgroup

EndGroups ==
    /\ phase = "group" /\ pos = Len(toplevel)
    /\ pos' = 0
    /\ phase' = "pairs"
    /\ UNCHANGED <<input, threads, matching, grouping, found, bad, bits>>

(* The earliest message of a group becomes the parent of the others; pos   *)
(* counts the groups done.                                                 *)
Pairs(g) ==
    /\ phase = "pairs" /\ g = pos
    /\ \E msg \in SortedByEpoch(groups[g], epoch) :
          found' = found \o [k \in 1..(IF msg = <<>> THEN 0 ELSE Len(msg) - 1) |->
                                <<msg[k + 1], msg[1]>>]
    /\ IF pos + 1 < NumMsg THEN pos' = pos + 1 /\ UNCHANGED phase
       ELSE pos' = 0 /\ phase' = "apply"
    /\ UNCHANGED <<input, threads, matching, grouping, bad, bits>>
-----------------------------------------------------------------------------
(* Applying changes.                                                       *)

NextLink == /\ phase = "apply" /\ pos < Len(found)
            /\ pos' = pos + 1
            /\ UNCHANGED <<input, matching, grouping, found, bits, phase>>

SkipBad ==
    /\ NextLink
    /\ found[pos + 1][1] \in bad
    /\ UNCHANGED <<threads, bad>>

(* The parts of a link: the tree, the totals and the list of children.    *)
AttachTo(child, new) ==
    /\ parent' = [parent EXCEPT ![child] = new]
    /\ bad' = bad \cup {m \in Above(parent', new) : parent'[m] = NoParent}
    /\ toplevel' = RemoveFirst(toplevel, child)

Counted(child, these) ==
    childTotal' = [m \in Msg |-> IF m \in these THEN childTotal[m] + childTotal[child]
                                 ELSE childTotal[m]]

Listed(child, new, sorted) ==
    \E list \in IF sorted THEN SortedByEpoch(Range(children[new]) \cup {child}, epoch)
                ELSE {Append(children[new], child)} :
        children' = [children EXCEPT ![new] = list]

(* Variants: bad is not looked at, only the new parent counts, the list   *)
(* is not sorted again.                                                    *)
ApplyUnchecked ==
    /\ NextLink
    /\ LET child == found[pos + 1][1]
           new   == found[pos + 1][2]
       IN  /\ AttachTo(child, new)
           /\ Counted(child, Above(parent', new))
           /\ Listed(child, new, ~groupMode)

ApplyParentOnly ==
    /\ NextLink
    /\ LET child == found[pos + 1][1]
           new   == found[pos + 1][2]
       IN  /\ child \notin bad
           /\ AttachTo(child, new)
           /\ Counted(child, {new})
           /\ Listed(child, new, ~groupMode)

ApplyUnsorted ==
    /\ NextLink
    /\ LET child == found[pos + 1][1]
           new   == found[pos + 1][2]
       IN  /\ child \notin bad
           /\ AttachTo(child, new)
           /\ Counted(child, Above(parent', new))
           /\ Listed(child, new, FALSE)

(* The new parent and all above it count what the child brings; the top    *)
(* of the thread is not moved from now on.                                 *)
Apply ==
    /\ NextLink
    /\ LET child == found[pos + 1][1]
           new   == found[pos + 1][2]
       IN  /\ child \notin bad
           /\ AttachTo(child, new)
           /\ Counted(child, Above(parent', new))
           /\ Listed(child, new, ~groupMode)

(* Nothing is written unless there are links.                              *)
Save ==
    /\ phase = "apply" /\ pos = Len(found)
    /\ bits' = IF found = <<>> THEN bits
               ELSE [m \in Msg |-> LexiconTransformChildNum(childTotal[m] - 1)]
    /\ phase' = "saved"
    /\ UNCHANGED <<input, threads, matching, grouping, found, pos, bad>>

Next == \/ \E w \in Workers : Fetch(w) \/ NoLink(w) \/ \E best \in Msg : Link(w, best)
        \/ EndMatch
        \/ \E m \in Msg : NoReferences(m) \/ NewGroup(m) \/ JoinGroup(m) \/ MergeGroups(m)
        \/ EndGroups \/ \E g \in Group : Pairs(g)
        \/ SkipBad \/ Apply \/ Save

Spec == Init /\ [][Next]_vars
-----------------------------------------------------------------------------
(* Whatever links the workers found, in whatever order, applying them      *)
(* never closes a loop, and the three records of the threads agree after   *)
(* each.  The roots the workers compare go stale (SetRootTo), so the links *)
(* alone may form loops; only the set bad keeps them out.                  *)
ForestKept == Acyclic(parent) /\ Agree(parent, children, toplevel)

(* Totals stay the size of each thread, link by link, which uat-verify     *)
(* checks of the result, and the index of words agrees with what is saved. *)
TotalsKept ==
    \A m \in Msg :
        LET below == Cardinality(Below(parent, m))
        IN  /\ childTotal[m] = below
            /\ phase = "saved" => bits[m] = LexiconTransformChildNum(below - 1)

(* Threads only grow: a link moves whole threads, so messages that were    *)
(* in one thread stay in one, below the same parent.                       *)
OnlyTopsMove ==
    [][\A m \in Msg : parent[m] # NoParent =>
          parent'[m] = parent[m] /\ childTotal'[m] >= childTotal[m]]_vars

(* In match mode threads stay in order of dates.                           *)
MatchKeepsOrder == TypeOK /\
    (~groupMode => /\ Chronological(toplevel, epoch)
                   /\ \A m \in Msg : Chronological(children[m], epoch))

(* uat-threadify(1): grouping merges threads that have a common, but       *)
(* missing parent message.  Threads below one message at the end are       *)
(* connected by references in common.                                      *)
Related(m) ==
    LET Closed(S) == m \in S /\ \A x \in S, y \in Msg : refs[x] \cap refs[y] # {} => y \in S
    IN  {y \in Msg : \A S \in SUBSET Msg : Closed(S) => y \in S}
GroupedHaveCommonParent ==
    groupMode => \A k \in DOMAIN found : found[k][1] \in Related(found[k][2])
=============================================================================
