------------------------------- MODULE Forest -------------------------------
(***************************************************************************)
(* Threads of messages as every utility stores them: struct Message of     *)
(* connectivity.cpp and threadify.cpp, conndata and toplevel on disk.      *)
(* The children of a message and the messages without a parent are kept    *)
(* in order; a parent of -1 means none.                                    *)
(***************************************************************************)
EXTENDS Integers, Sequences, FiniteSets, SequencesExt

NoParent == -1

(* The messages on the way from m to the top of its thread, m included:    *)
(* the least set that holds m and the parents of its members.              *)
Above(parent, m) ==
    LET Closed(S) == m \in S /\ \A x \in S : parent[x] # NoParent => parent[x] \in S
    IN  {a \in DOMAIN parent : \A S \in SUBSET DOMAIN parent : Closed(S) => a \in S}

(* The thread that starts at m, m included.                                *)
Below(parent, m) == {d \in DOMAIN parent : m \in Above(parent, d)}

Acyclic(parent) ==
    \A m \in DOMAIN parent :
        parent[m] # NoParent => m \notin Above(parent, parent[m])

(* The messages of the loops of a graph.                                   *)
OnLoop(parent) ==
    {m \in DOMAIN parent : parent[m] # NoParent /\ m \in Above(parent, parent[m])}

(* parent, children and toplevel say the same, and say it once.            *)
Agree(parent, children, toplevel) ==
    /\ IsInjective(toplevel)
    /\ Range(toplevel) = {m \in DOMAIN parent : parent[m] = NoParent}
    /\ \A m \in DOMAIN parent :
           /\ IsInjective(children[m])
           /\ Range(children[m]) = {c \in DOMAIN parent : parent[c] = m}

Chronological(list, epoch) ==
    \A k \in 1..(Len(list) - 1) : epoch[list[k]] <= epoch[list[k + 1]]

(* Sort() of both utilities.  std::sort is not stable: messages of equal   *)
(* dates may come out in any order.                                        *)
SortedByEpoch(messages, epoch) ==
    {s \in SetToSeqs(messages) : Chronological(s, epoch)}
=============================================================================
