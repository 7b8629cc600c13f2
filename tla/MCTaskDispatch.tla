--------------------------- MODULE MCTaskDispatch ---------------------------
(***************************************************************************)
(* Three tasks queued in two batches; the first queues a task, which       *)
(* queues another.                                                         *)
(***************************************************************************)
EXTENDS TaskDispatch, TLC

CONSTANTS a, b, c, a1, a2, w1, w2, w3

MCTask == {a, b, c, a1, a2}
MCBatches == <<<<a, b>>, <<c>>>>
MCSpawn == [t \in MCTask |-> CASE t = a  -> <<a1>>
                               [] t = a1 -> <<a2>>
                               [] OTHER  -> <<>>]
MCFlat == [t \in MCTask |-> <<>>]
=============================================================================
