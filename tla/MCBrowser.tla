----------------------------- MODULE MCBrowser -----------------------------
(***************************************************************************)
(* Two archives, a thread with a deeper one inside and two threads, whose  *)
(* history files are missing, name their last messages, or are from when   *)
(* they had more messages, first or last.                                  *)
(***************************************************************************)
EXTENDS Browser

(* An archive from the parents of its messages, in order.                  *)
ArchiveOf(parents) ==
    LET msg   == 0..(Len(parents) - 1)
        above == [m \in msg |->
                     LET over[k \in msg] == IF parents[k + 1] = NoParent THEN {}
                                            ELSE {parents[k + 1]} \cup over[parents[k + 1]]
                     IN  over[m]]
    IN  [parent |-> [m \in msg |-> parents[m + 1]],
         total  |-> [m \in msg |-> 1 + Cardinality({d \in msg : m \in above[d]})],
         above  |-> above]

MCArchives == {ArchiveOf(<<-1, 0, 1, 0>>), ArchiveOf(<<-1, 0, -1>>)}
MCSaved == [a \in MCArchives |-> {<<>>, <<Count(a) - 1>>, <<Count(a), 0>>, <<0, Count(a) + 1>>}]
=============================================================================
