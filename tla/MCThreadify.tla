---------------------------- MODULE MCThreadify ----------------------------
EXTENDS Threadify

MCDateTables == {[m \in Msg |-> 3 - m \div 2], [m \in Msg |-> m]}

MCRefTables ==
    LET r == CHOOSE r \in [1..3 -> Ref] : IsInjective(r)
        Table(a, b, c, d) == [m \in Msg |-> {r[k] : k \in
                                 CASE m = 0 -> a [] m = 1 -> b [] m = 2 -> c [] OTHER -> d}]
    IN  {Table({1}, {2}, {3}, {1, 2}), Table({1}, {1}, {2}, {}),
         Table({1}, {2, 1}, {3, 2}, {3}), Table({1}, {2}, {1, 2}, {2}),
         Table({1}, {2}, {1, 2}, {3})}
=============================================================================
