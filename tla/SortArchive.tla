---------------------------- MODULE SortArchive ----------------------------
(***************************************************************************)
(* uat-sort: it gives the messages of an archive new numbers, thread by    *)
(* thread, each message before its children, and writes every file that    *)
(* refers to messages by number again; and what uat-verify checks of the   *)
(* result.                                                                 *)
(*                                                                         *)
(* A message stands for its own text, id and strings.  The files with one  *)
(* entry per message (zmeta or meta, midmeta, strmeta) tell the message    *)
(* each entry was made for.  midhash leads from an id to the number        *)
(* HashSearch returns for it (module MsgIdHash), lexdata from a word to    *)
(* its entries, each with the number of a message that has it.             *)
(***************************************************************************)
EXTENDS Forest, FiniteSetsExt

CONSTANTS NumMsg,      \* messages in the archive
          ChildOrders  \* orders in which children are stored, as keys to sort them by

Msg == 0..(NumMsg - 1)

ASSUME SortAssumption == /\ NumMsg \in Nat
                         /\ ChildOrders \subseteq [Msg -> Nat]

NoMsg == -1

VARIABLES conn,     \* source: parent, total and children of each message
          toplevel, \* source
          lexdata,  \* source: the entries of each word (module Lexicon)
          idx,      \* the next free number
          thread,   \* the top level message the outer loop has reached
          order, revtop, rev,
          file,     \* what the destination has of each file
          phase

source == <<conn, toplevel, lexdata>>
sortVars == <<idx, thread, order, revtop, rev, file>>

Conn == [parent : Msg \cup {NoParent}, total : 1..NumMsg, children : Seq(Msg)]

Unwritten == [messages |-> <<>>, toplevel |-> <<>>, conn |-> <<>>, midmeta |-> <<>>,
              midhash |-> <<>>, lexdata |-> <<>>, strmeta |-> <<>>]

TypeOK == /\ conn \in [Msg -> Conn]
          /\ toplevel \in Seq(Msg)
          /\ idx \in 0..NumMsg
          /\ thread \in 1..(Len(toplevel) + 1)
          /\ order \in [Msg -> Msg \cup {NoMsg}]
          /\ revtop \in Seq(Msg)
          /\ rev \in [Msg -> Msg \cup {NoMsg}]
          /\ DOMAIN file = DOMAIN Unwritten
          /\ phase \in {"order", "rev", "messages", "toplevel", "conn", "midmeta",
                        "midhash", "lexdata", "strmeta", "lexicon", "lexsort", "done"}

(* The messages as a list in the order of their keys.                      *)
InOrder(messages, key) ==
    CHOOSE list \in SetToSeqs(messages) :
        \A k, l \in DOMAIN list : k < l => key[list[k]] <= key[list[l]]

(* The archives uat-connectivity and uat-threadify leave: the second does  *)
(* not always sort by date, so threads come in any order.                  *)
SortInit ==
        /\ \E parent \in {p \in [Msg -> Msg \cup {NoParent}] : Acyclic(p)}, key \in ChildOrders :
              /\ conn = [m \in Msg |->
                    [parent   |-> parent[m],
                     total    |-> Cardinality(Below(parent, m)),
                     children |-> InOrder({c \in Msg : parent[c] = m}, key)]]
              /\ toplevel \in SetToSeqs({m \in Msg : parent[m] = NoParent})
        /\ idx = 0 /\ thread = 1
        /\ order = [k \in Msg |-> NoMsg]
        /\ revtop = <<>>
        /\ rev = [m \in Msg |-> NoMsg]
        /\ file = Unwritten
-----------------------------------------------------------------------------
InThread(top) == Below([m \in Msg |-> conn[m].parent], top)

(* The messages of the threads of the earlier siblings of m, as the totals *)
(* stored count them.                                                      *)
Skip(m) == LET list   == conn[conn[m].parent].children
               before == {k \in DOMAIN list : \E l \in DOMAIN list : list[l] = m /\ k < l}
           IN  MapThenSumSet(LAMBDA k : conn[list[k]].total, before)

(* Where Expand puts the messages below top when top is at number at: a    *)
(* child follows its parent and the threads of its earlier siblings.       *)
Position(top, at) ==
    LET position[m \in InThread(top)] ==
            IF m = top THEN at ELSE position[conn[m].parent] + 1 + Skip(m)
    IN  position

ExpandThread(top) ==
    /\ phase = "order" /\ thread <= Len(toplevel) /\ top = toplevel[thread]
    /\ revtop' = Append(revtop, idx)
    /\ LET at == Position(top, idx)
       IN  order' = [k \in Msg |-> IF \E m \in InThread(top) : at[m] = k
                                   THEN CHOOSE m \in InThread(top) : at[m] = k
                                   ELSE order[k]]
    /\ idx' = idx + conn[top].total
    /\ thread' = thread + 1
    /\ UNCHANGED <<source, rev, file, phase>>

BuildRev ==
    /\ phase = "order" /\ thread > Len(toplevel)
    /\ rev' = [m \in Msg |-> CHOOSE k \in Msg : order[k] = m]
    /\ phase' = "messages"
    /\ UNCHANGED <<source, idx, thread, order, revtop, file>>
-----------------------------------------------------------------------------
(* The files, one after the other.  An entry per message is copied from    *)
(* its old place, a number of a message inside an entry goes through rev.  *)
Write(name, contents, next) ==
    /\ phase = name
    /\ file' = [file EXCEPT ![name] = contents]
    /\ phase' = next
    /\ UNCHANGED <<source, idx, thread, order, revtop, rev>>

Moved == [k \in Msg |-> order[k]]

(* Variant: parents keep their old numbers.                                *)
MovedConnOldParent ==
    [k \in Msg |->
        LET src == conn[order[k]]
        IN  [parent   |-> src.parent,
             total    |-> src.total,
             children |-> [j \in DOMAIN src.children |-> rev[src.children[j]]]]]

MovedConn ==
    [k \in Msg |->
        LET src == conn[order[k]]
        IN  [parent   |-> IF src.parent = NoParent THEN NoParent ELSE rev[src.parent],
             total    |-> src.total,
             children |-> [j \in DOMAIN src.children |-> rev[src.children[j]]]]]

(* Variant: toplevel copied as it is.                                      *)
WriteToplevelAsIs == Write("toplevel", toplevel, "conn")

WriteMessages == Write("messages", Moved, "toplevel")
WriteToplevel == Write("toplevel", revtop, "conn")
WriteConn     == Write("conn", MovedConn, "midmeta")
WriteMidmeta  == Write("midmeta", Moved, "midhash")
WriteMidhash  == Write("midhash", rev, "lexdata")

(* Only the number changes in an entry; the bits of children stay.         *)
RewriteLexdata ==
    Write("lexdata",
          [word \in DOMAIN lexdata |-> [k \in DOMAIN lexdata[word] |->
              [lexdata[word][k] EXCEPT !.post = rev[@]]]],
          "strmeta")
WriteStrmeta  == Write("strmeta", Moved, "lexsort")

SortNext ==
        \/ \E top \in Msg : ExpandThread(top)
        \/ BuildRev
        \/ WriteMessages \/ WriteToplevel \/ WriteConn \/ WriteMidmeta
        \/ WriteMidhash \/ RewriteLexdata \/ WriteStrmeta
-----------------------------------------------------------------------------
(* The numbers uat-verify counts up: the messages below m, m first, each   *)
(* followed by its children in the order they are stored.                  *)
Expanded ==
    LET expand[m \in Msg] ==
            FoldLeft(LAMBDA done, c : done \o expand[c], <<m>>, file["conn"][m].children)
    IN  FoldLeft(LAMBDA done, top : done \o expand[top], <<>>, file["toplevel"])

Sorted == phase \in {"lexsort", "done"}

(* uat-verify finds the result sorted, and all messages reachable in it.   *)
VerifySorted == Sorted => Expanded = [k \in 1..NumMsg |-> k - 1]

(* The threads are the ones of the source under new numbers: every link,   *)
(* every list of children and every total, and the threads in their order. *)
SameThreads ==
    LET new == file["conn"]
        old(k) == file["messages"][k]
    IN  /\ \A k \in Msg :
              /\ new[k].total = conn[old(k)].total
              /\ IF new[k].parent = NoParent THEN conn[old(k)].parent = NoParent
                 ELSE old(new[k].parent) = conn[old(k)].parent
              /\ [j \in DOMAIN new[k].children |-> old(new[k].children[j])]
                    = conn[old(k)].children
        /\ [j \in DOMAIN file["toplevel"] |-> old(file["toplevel"][j])] = toplevel

(* Whichever way a number is reached, all files give it the same message:  *)
(* its text, its id, its strings, and the search for its id.               *)
SameMessageEverywhere ==
    \A k \in Msg : /\ file["midmeta"][k] = file["messages"][k]
                   /\ file["strmeta"][k] = file["messages"][k]
                   /\ file["midhash"][file["midmeta"][k]] = k

(* What uat-sort writes is the archive it read under new numbers, in every *)
(* file that has numbers of messages, but for the index of words, which    *)
(* SearchIndex!IndexRight is about.                                        *)
SameArchive == TypeOK /\ (Sorted => SameThreads /\ SameMessageEverywhere)
=============================================================================
