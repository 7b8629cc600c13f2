--------------------------- MODULE MCConnectivity ---------------------------
(***************************************************************************)
(* Four messages.  Either each of them may refer to any message, itself    *)
(* included, which gives every graph of references, with few dates so that *)
(* ties occur; or the references are fixed and the headers with dates are  *)
(* any with up to four stamps, of which two agree or all are different.    *)
(***************************************************************************)
EXTENDS Connectivity

CONSTANT MaxTime

RefLists == {<<>>, <<0, Missing>>, <<Malformed, 1>>, <<3, 2>>, <<3>>, <<2, Malformed>>, <<Missing>>}

Plain(t) == [received |-> <<>>, date |-> t, slashed |-> 0]

DateTables == {[m \in Msg |-> Plain(3 - m \div 2)], [m \in Msg |-> Plain((m % 2) + 1)]}

Time == {NoTime} \cup 0..MaxTime

(* The four messages of a table differ in the first of their stamps.       *)
StampTables ==
    {[m \in Msg |-> [received |-> SubSeq(<<<<NoTime, 0, 2, 5>>[m + 1], t, u, v>>, 1, n),
                     date |-> d, slashed |-> 2]] :
        t \in Time, u \in Time, v \in Time, n \in {0, 1, 3, 4}, d \in {NoTime, -2, 4}}

MCArchives ==
    [refs : [Msg -> RefLists], headers : DateTables]
    \cup [refs : {[m \in Msg |-> <<(m + 1) % NumMsg>>]}, headers : StampTables]
=============================================================================
