--------------------------- MODULE MCSearchIndex ---------------------------
(***************************************************************************)
(* Every forest of four messages, with threads in every order and children *)
(* in the order of the archive or against it.  The texts have every kind   *)
(* of context, a word only one message has, words beyond the last position *)
(* and one that comes up first where positions wrap.                       *)
(***************************************************************************)
EXTENDS SearchIndex

CONSTANTS a, b, c, d

MCChildOrders == {[m \in Msg |-> m], [m \in Msg |-> NumMsg - m]}
MCMapOrders   == {[m \in Msg |-> m]}

MCMaxPos == [t \in Types |-> CASE t = "Content" -> 6
                               [] t \in {"Quote1", "Quote2", "Quote3"} -> 4
                               [] OTHER -> 2]

Body(level, words) == [mark |-> FALSE, level |-> level, words |-> words]
Mark == [mark |-> TRUE, level |-> 0, words |-> <<>>]

MCTexts ==
    {[m \in Msg |->
        CASE m = 0 -> [from |-> <<a>>, subject |-> <<b, a>>, wrote |-> 0,
                       body |-> <<Body(0, <<a, b, a, b, a, b, a, b>>), Body(0, <<c, a>>)>>]
          [] m = 1 -> [from |-> <<b>>, subject |-> <<b, a>>, wrote |-> 1,
                       body |-> <<Body(0, <<a>>), Body(1, <<c, b>>), Body(2, <<c>>), Body(0, <<>>)>>]
          [] m = 2 -> [from |-> <<a>>, subject |-> <<d>>, wrote |-> 0,
                       body |-> <<Body(1, <<a, a>>), Body(3, <<c, c, c, c, c, c>>), Body(0, <<b>>)>>]
          [] OTHER -> [from |-> <<c>>, subject |-> <<>>, wrote |-> 0,
                       body |-> <<Body(0, <<b>>), Mark, Body(0, <<c, c, a>>)>>]],
     [m \in Msg |->
        CASE m = 0 -> [from |-> <<a>>, subject |-> <<>>, wrote |-> 0, body |-> <<Body(0, <<b>>)>>]
          [] m = 1 -> [from |-> <<b>>, subject |-> <<c>>, wrote |-> 0, body |-> <<Body(0, <<d, c>>)>>]
          [] m = 2 -> [from |-> <<c>>, subject |-> <<a>>, wrote |-> 0, body |-> <<Body(0, <<a, d>>)>>]
          [] OTHER -> [from |-> <<a>>, subject |-> <<>>, wrote |-> 0, body |-> <<Body(0, <<>>)>>]]}

MCStarting == (a :> {a, b, d}) @@ (b :> {b}) @@ (c :> {c, d}) @@ (d :> {d})
MCSimilar  == (a :> {c}) @@ (b :> {}) @@ (c :> {a, d}) @@ (d :> {c})

Plainly(w) == [sign |-> "none", field |-> "Any", strict |-> FALSE, star |-> FALSE, word |-> w]

Signed3(w) == {[Plainly(w) EXCEPT !.sign = s, !.field = f] :
                  s \in {"none", "must", "cant"}, f \in {"Any", "From", "Subject"}}

Ask(terms) == [terms |-> terms, logic |-> TRUE, fuzzy |-> FALSE, all |-> FALSE,
               lexdist |-> TRUE, filter |-> "All"]

(* Set logic in one, two and three terms, with stars and quotes, similar   *)
(* words with and without lexdist, and threadify's search for all words in *)
(* a context.                                                              *)
MCQueries ==
    {Ask(<<s>>) : s \in Signed3(a) \cup Signed3(d)}
    \cup {Ask(<<s, t>>) : s \in Signed3(a), t \in Signed3(b)}
    \cup {Ask(<<[Plainly(a) EXCEPT !.sign = g], [Plainly(b) EXCEPT !.sign = h], Plainly(c)>>) :
             g, h \in {"must", "cant"}}
    \cup {Ask(<<[Plainly(a) EXCEPT !.star = TRUE], Plainly(c)>>),
          Ask(<<[Plainly(a) EXCEPT !.star = TRUE], [Plainly(c) EXCEPT !.sign = "cant"]>>),
          Ask(<<[Plainly(a) EXCEPT !.sign = "must"], [Plainly(d) EXCEPT !.sign = "must"]>>),
          Ask(<<Plainly(a), [Plainly(a) EXCEPT !.sign = "cant"]>>)}
    \cup {[Ask(<<t, Plainly(b)>>) EXCEPT !.fuzzy = TRUE, !.lexdist = l] :
             t \in {Plainly(a), [Plainly(a) EXCEPT !.strict = TRUE]}, l \in BOOLEAN}
    \cup {[Ask(terms) EXCEPT !.logic = FALSE, !.all = TRUE, !.filter = f] :
             terms \in {<<Plainly(a), Plainly(b)>>, <<Plainly(c), Plainly(b), Plainly(a)>>,
                        <<Plainly(d), Plainly(b)>>},
             f \in {"All", "Content", "Quote1"}}

(* Words with up to two places in a context, one with three, and groups of *)
(* two words.                                                              *)
At(type, places) == [k \in DOMAIN places |-> [type |-> type, pos |-> places[k]]]

MCHitLists ==
    {<<At("Content", p) \o At("Quote1", q)>> :
        p \in {<<>>, <<2, 3, 5>>} \cup {<<x>> : x \in 0..6} \cup {<<x, y>> : x, y \in 0..6},
        q \in {<<>>, <<1>>, <<3, 0>>}}
    \cup {<<At("Content", <<x>>), At("Quote1", <<2>>) \o At("Content", <<y>>)>> :
             x, y \in {0, 2, 5, 6}}
=============================================================================
