---------------------------- MODULE Connectivity ----------------------------
(***************************************************************************)
(* uat-connectivity: it links every message to the last message of its     *)
(* References header the archive has, cuts the loops such headers can      *)
(* form, orders threads by date and counts them.                           *)
(*                                                                         *)
(* The References header is the sequence of what GetParentFromReferences   *)
(* finds in it: a message of the archive, Missing for a well-formed id     *)
(* the archive does not have, Malformed for text that is no id.            *)
(***************************************************************************)
EXTENDS Forest, MessageDate

CONSTANTS NumMsg,     \* messages in the archive
          Archives,   \* the archives that occur: References and dates of all messages
          Missing, Malformed

Msg == 0..(NumMsg - 1)

ASSUME ConnectivityAssumption ==
    /\ NumMsg \in Nat
    /\ Missing \notin Msg /\ Malformed \notin Msg
    /\ Archives \subseteq
          [refs    : [Msg -> Seq(Msg \cup {Missing, Malformed})],
           headers : [Msg -> [received : Seq(Int), date : Int, slashed : Int]]]

Unset  == -1
Broken == -2
-----------------------------------------------------------------------------
VARIABLES refs,       \* input: the References header of each message
          headers,    \* input: its headers with dates (module MessageDate)
          parent, children, epoch, childTotal, \* data[]
          toplevel,
          broken, loopcnt,
          i,          \* the message the outer loop has reached
          idx,        \* where the walk upwards of "Fixing loops" is
          visited,
          phase

input  == <<refs, headers>>
graph  == <<parent, children, toplevel>>
counts == <<broken, loopcnt>>
walk   == <<idx, visited>>
vars   == <<input, graph, epoch, childTotal, counts, i, walk, phase>>

Phase == {"build", "dates", "loops", "walk", "sortTop", "sort", "count", "saved"}

TypeOK == /\ [refs |-> refs, headers |-> headers] \in Archives
          /\ parent \in [Msg -> Msg \cup {NoParent}]
          /\ children \in [Msg -> Seq(Msg)]
          /\ toplevel \in Seq(Msg)
          /\ epoch \in [Msg -> 0..(Word - 1)]
          /\ childTotal \in [Msg -> 1..NumMsg \cup {Unset}]
          /\ broken \in 0..NumMsg /\ loopcnt \in 0..NumMsg
          /\ i \in 0..NumMsg /\ idx \in Msg \cup {Unset}
          /\ visited \subseteq Msg
          /\ phase \in Phase

Init == /\ \E a \in Archives : refs = a.refs /\ headers = a.headers
        /\ parent = [m \in Msg |-> NoParent]
        /\ children = [m \in Msg |-> <<>>]
        /\ toplevel = <<>>
        /\ epoch = [m \in Msg |-> 0]
        /\ childTotal = [m \in Msg |-> Unset]
        /\ broken = 0 /\ loopcnt = 0
        /\ i = 0 /\ idx = Unset /\ visited = {}
        /\ phase = "build"

(* for( i=0; i<size; i++ ), entered in phase p and followed by phase q.    *)
Iterate(p, q) ==
    IF i + 1 < NumMsg THEN i' = i + 1 /\ phase' = p ELSE i' = 0 /\ phase' = q
-----------------------------------------------------------------------------
(* From the last reference to the first: the first one that is a message   *)
(* of the archive, unless malformed text comes before it.                  *)
GetParentFromReferences(list) ==
    LET found == {k \in DOMAIN list : list[k] # Missing}
        last  == {list[k] : k \in {k \in found : \A l \in found : l <= k}}
    IN  IF list = <<>> THEN NoParent
        ELSE IF last \cap Msg = {} THEN Broken
        ELSE CHOOSE p \in last : p \in Msg

Build(m) ==
    /\ phase = "build" /\ m = i
    /\ LET p == GetParentFromReferences(refs[m])
       IN  /\ broken' = IF p = Broken THEN broken + 1 ELSE broken
           /\ IF p < 0
              THEN /\ toplevel' = Append(toplevel, m)
                   /\ UNCHANGED <<parent, children>>
              ELSE /\ parent' = [parent EXCEPT ![m] = p]
                   /\ children' = [children EXCEPT ![p] = Append(@, m)]
                   /\ UNCHANGED toplevel
    /\ Iterate("build", "dates")
    /\ UNCHANGED <<input, epoch, childTotal, loopcnt, walk>>

ReadDate(m) ==
    /\ phase = "dates" /\ m = i
    /\ epoch' = [epoch EXCEPT ![m] = Epoch(headers[m])]
    /\ Iterate("dates", "loops")
    /\ UNCHANGED <<input, graph, childTotal, counts, walk>>
-----------------------------------------------------------------------------
(* Variants of the next steps: visited is not cleared, not filled, and the *)
(* message cut off stays a child or does not become a thread.              *)
StartWalkUncleared(m) ==
    /\ phase = "loops" /\ m = i
    /\ idx' = m
    /\ phase' = "walk"
    /\ UNCHANGED <<input, graph, epoch, childTotal, counts, i, visited>>

WalkUpUnmarked ==
    /\ phase = "walk"
    /\ parent[idx] # NoParent /\ parent[idx] \notin visited
    /\ idx' = parent[idx]
    /\ UNCHANGED <<input, graph, epoch, childTotal, counts, i, visited, phase>>

CutLoopKeepsChild ==
    /\ phase = "walk"
    /\ parent[idx] # NoParent /\ parent[idx] \in visited
    /\ loopcnt' = loopcnt + 1
    /\ parent' = [parent EXCEPT ![idx] = NoParent]
    /\ toplevel' = Append(toplevel, idx)
    /\ Iterate("loops", "sortTop")
    /\ UNCHANGED <<input, children, epoch, childTotal, broken, walk>>

CutLoopUnlisted ==
    /\ phase = "walk"
    /\ parent[idx] # NoParent /\ parent[idx] \in visited
    /\ loopcnt' = loopcnt + 1
    /\ parent' = [parent EXCEPT ![idx] = NoParent]
    /\ children' = [children EXCEPT ![parent[idx]] = RemoveFirst(@, idx)]
    /\ Iterate("loops", "sortTop")
    /\ UNCHANGED <<input, toplevel, epoch, childTotal, broken, walk>>

(* Fixing loops: from each message upwards until the top or a message      *)
(* that was already passed.                                                *)
StartWalk(m) ==
    /\ phase = "loops" /\ m = i
    /\ visited' = {} /\ idx' = m
    /\ phase' = "walk"
    /\ UNCHANGED <<input, graph, epoch, childTotal, counts, i>>

AtTop ==
    /\ phase = "walk"
    /\ parent[idx] = NoParent
    /\ Iterate("loops", "sortTop")
    /\ UNCHANGED <<input, graph, epoch, childTotal, counts, walk>>

WalkUp ==
    /\ phase = "walk"
    /\ parent[idx] # NoParent /\ parent[idx] \notin visited
    /\ idx' = parent[idx]
    /\ visited' = visited \cup {idx'}
    /\ UNCHANGED <<input, graph, epoch, childTotal, counts, i, phase>>

CutLoop ==
    /\ phase = "walk"
    /\ parent[idx] # NoParent /\ parent[idx] \in visited
    /\ loopcnt' = loopcnt + 1
    /\ parent' = [parent EXCEPT ![idx] = NoParent]
    /\ children' = [children EXCEPT ![parent[idx]] = RemoveFirst(@, idx)]
    /\ toplevel' = Append(toplevel, idx)
    /\ Iterate("loops", "sortTop")
    /\ UNCHANGED <<input, epoch, childTotal, broken, walk>>
-----------------------------------------------------------------------------
SortTop ==
    /\ phase = "sortTop"
    /\ toplevel' \in SortedByEpoch(Range(toplevel), epoch)
    /\ phase' = "sort"
    /\ UNCHANGED <<input, parent, children, epoch, childTotal, counts, i, walk>>

SortChildren(m) ==
    /\ phase = "sort" /\ m = i
    /\ \E sorted \in SortedByEpoch(Range(children[m]), epoch) :
           children' = [children EXCEPT ![m] = sorted]
    /\ Iterate("sort", "count")
    /\ UNCHANGED <<input, parent, toplevel, epoch, childTotal, counts, walk>>

(* Variant: a message does not count itself.                               *)
TotalBelow ==
    LET total[m \in Msg] ==
            IF childTotal[m] # Unset THEN childTotal[m]
            ELSE FoldLeft(LAMBDA cnt, child : cnt + 1 + total[child], 0, children[m])
    IN  total

(* Count( m ): the totals of m and of what is below it, those set by an    *)
(* earlier call taken as they are.                                         *)
Total ==
    LET total[m \in Msg] ==
            IF childTotal[m] # Unset THEN childTotal[m]
            ELSE FoldLeft(LAMBDA cnt, child : cnt + total[child], 1, children[m])
    IN  total

Count(m) ==
    /\ phase = "count" /\ m = i
    /\ childTotal' = [d \in Msg |-> IF d \in Below(parent, m) THEN Total[d]
                                    ELSE childTotal[d]]
    /\ Iterate("count", "saved")
    /\ UNCHANGED <<input, graph, epoch, counts, walk>>

Next == \/ \E m \in Msg : \/ Build(m) \/ ReadDate(m) \/ StartWalk(m)
                          \/ SortChildren(m) \/ Count(m)
        \/ AtTop \/ WalkUp \/ CutLoop \/ SortTop

Spec == Init /\ [][Next]_vars

FairSpec == Spec /\ WF_vars(Next)
-----------------------------------------------------------------------------
(* The graph the headers ask for.                                          *)
Requested == [m \in Msg |-> LET p == GetParentFromReferences(refs[m])
                            IN  IF p < 0 THEN NoParent ELSE p]

LoopsFixed == phase \in {"sortTop", "sort", "count", "saved"}

(* Once built, the three records of the threads agree through every cut    *)
(* and sort: what lists a message as child is its parent, and the list of  *)
(* threads has exactly the messages without one.                           *)
RecordsAgree == phase # "build" => Agree(parent, children, toplevel)

(* No thread is left that comes back to itself, so every message hangs     *)
(* below exactly one top level message: uat-verify and the recursions of   *)
(* Count, sort and the browsers rely on it.                                *)
EveryMessageReachable ==
    LoopsFixed =>
        /\ Acyclic(parent)
        /\ \A m \in Msg : Cardinality(Above(parent, m) \cap Range(toplevel)) = 1

(* Cutting is minimal: each loop of references loses exactly one edge,     *)
(* and no message outside of the loops loses its parent.                   *)
LoopsCutOnce ==
    LoopsFixed =>
        /\ \A m \in Msg \ OnLoop(Requested) : parent[m] = Requested[m]
        /\ \A m \in OnLoop(Requested) :
              LET loop == Above(Requested, m)
              IN  Cardinality({c \in loop : parent[c] # Requested[c]}) = 1
        /\ loopcnt = Cardinality({c \in Msg : parent[c] # Requested[c]})

(* What is saved: lists in order of dates, each message with the number    *)
(* of messages of its thread.                                              *)
SavedThreads == TypeOK /\
    (phase = "saved" =>
        /\ Chronological(toplevel, epoch)
        /\ \A m \in Msg : Chronological(children[m], epoch)
        /\ \A m \in Msg : childTotal[m] = Cardinality(Below(parent, m)))

(* Fixing loops ends, whatever the headers say.                            *)
Terminates == <>(phase = "saved")

(* The stamps of m that parse.  The properties of dates are about times an *)
(* unsigned word can hold: hours before 1970 wrap to its end.              *)
Stamps(m) == Parsing(headers[m].received)

Dated == IF phase = "saved"
         THEN {m \in Msg : MessageDate(headers[m]) \in 0..(Word - 1)
                           /\ \A k \in Stamps(m) : headers[m].received[k] \in 0..(Word - 1)}
         ELSE {}

Within(t, u) == ~TooFar(t, u)

(* A message is never dated more than a week from every server that        *)
(* stamped it, whatever its own Date header says.                          *)
DatedNearAStamp ==
    \A m \in Dated : Stamps(m) # {} =>
        \E k \in Stamps(m) : Within(epoch[m], headers[m].received[k])

(* One server with a wrong clock cannot outvote the others: a stamp more   *)
(* than a week from all others, two or more that agree within a week, has  *)
(* no say in the date of the message.                                      *)
OutlierIgnored ==
    \A m \in Dated : \A odd \in Stamps(m) :
        LET rest == Stamps(m) \ {odd}
            t == headers[m].received
        IN  /\ Cardinality(rest) >= 2
            /\ \A k, l \in rest : Within(t[k], t[l])
            /\ \A k \in rest : TooFar(t[odd], t[k])
            => \E k \in rest : Within(epoch[m], t[k])

(* Dates follow the servers, and most of them.                             *)
DatesRight == DatedNearAStamp /\ OutlierIgnored
=============================================================================
