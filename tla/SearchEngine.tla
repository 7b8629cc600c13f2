---------------------------- MODULE SearchEngine ----------------------------
(***************************************************************************)
(* SearchEngine of libuat: the messages a query finds in the index.  The   *)
(* text of a query is parsed already: a term has a sign (+, - or none), a  *)
(* field (from:, subject: or any), whether it is quoted, and whether it    *)
(* ends in a star, when its word stands for all words that start with it.  *)
(*                                                                         *)
(* Ranks decide the order of results, not which messages are found, and    *)
(* are left out, but for the distance of words, which has an algorithm of  *)
(* its own.                                                                *)
(***************************************************************************)
EXTENDS Lexicon

CONSTANTS Starting,  \* the words that start with a given one
          Similar,   \* lexdist: the words of the archive close to a given one
          MaxWords   \* words of a query looked at: 1024

ASSUME SearchAssumption == /\ Starting \in [Word -> SUBSET Word]
                           /\ Similar \in [Word -> SUBSET Word]
                           /\ MaxWords \in Nat

Term == [sign : {"none", "must", "cant"}, field : {"Any", "From", "Subject"},
         strict : BOOLEAN, star : BOOLEAN, word : Word]

(* logic, fuzzy and all are SF_SetLogic, SF_FuzzySearch, SF_RequireAllWords*)
(* lexdist tells whether the archive has distances of words, and filter is *)
(* a type of context or T_All.                                             *)
Query == [terms : Seq(Term), logic : BOOLEAN, fuzzy : BOOLEAN, all : BOOLEAN,
          lexdist : BOOLEAN, filter : Types \cup {"All"}]

FixupFlags(q) ==
    LET fuzzy == q.fuzzy /\ q.lexdist
        all   == q.all /\ ~fuzzy
    IN  [q EXCEPT !.fuzzy = fuzzy, !.all = all, !.logic = @ /\ ~all]

(* A sign, a field, quotes or a star mean something to SF_SetLogic only,   *)
(* and a star nothing after a sign: such words are in no lexicon.          *)
Plain(t) == t.sign = "none" /\ t.field = "Any" /\ ~t.strict /\ ~t.star

Processed(t, logic, lexdata) ==
    IF ~logic THEN IF Plain(t) THEN <<t.word>> ELSE <<>>
    ELSE IF ~t.star THEN <<t.word>>
    ELSE IF t.sign = "none" THEN SetToSeq(Starting[t.word] \cap DOMAIN lexdata)
    ELSE <<>>

Used(words) == {words[k].word : k \in DOMAIN words}

(* A word is taken once, for the first term that brings it.                *)
Take(words, list, t, strict, lexdata) ==
    LET taken[k \in 0..Len(list)] ==
            IF k = 0 THEN words
            ELSE LET had == taken[k - 1]
                 IN  IF list[k] \in DOMAIN lexdata \ Used(had)
                     THEN Append(had, [word |-> list[k], sign |-> t.sign, field |-> t.field,
                                       strict |-> strict])
                     ELSE had
    IN  taken[Len(list)]

Strictly(t) == t.strict \/ t.sign # "none"

TermWords(q, lexdata) ==
    LET words[k \in 0..Len(q.terms)] ==
            IF k = 0 THEN <<>>
            ELSE LET t == q.terms[k]
                 IN  Take(words[k - 1], Processed(t, q.logic, lexdata), t, Strictly(t), lexdata)
    IN  words[Len(q.terms)]

WithSimilar(words, lexdata) ==
    LET all[k \in 0..Len(words)] ==
            IF k = 0 THEN words
            ELSE LET w == words[k]
                 IN  IF Strictly(w) THEN all[k - 1]
                     ELSE Take(all[k - 1], SetToSeq(Similar[w.word] \cap DOMAIN lexdata), w,
                               FALSE, lexdata)
    IN  all[Len(words)]

(* Similar words come after the words of all terms.                        *)
ExtractWords(q, lexdata) ==
    LET words == TermWords(q, lexdata)
    IN  IF q.fuzzy THEN WithSimilar(words, lexdata) ELSE words

GetPostsForWords(words, filter, lexdata) ==
    LET Has(entry, type) == \E h \in Range(entry.hits) : h.type = type
        Kept(entry, w) == IF filter # "All" THEN Has(entry, filter)
                          ELSE w.field = "Any" \/ Has(entry, w.field)
        Chosen(list, w) == {k \in DOMAIN list : Kept(list[k], w)}
        Post(list, w) == Arranged(list, LowFirst(Chosen(list, w), [k \in DOMAIN list |-> k]))
    IN  [k \in DOMAIN words |-> Post(lexdata[words[k].word], words[k])]

(* std::lower_bound: halving an interval that is taken to be in order.     *)
LowerBound(posts, post) ==
    LET Within == {at \in (1..(Len(posts) + 1)) \X (0..Len(posts)) :
                      at[1] + at[2] <= Len(posts) + 1}
        bound[at \in Within] ==
            LET first == at[1]
                count == at[2]
                half  == count \div 2
            IN  IF count = 0 THEN first
                ELSE IF posts[first + half].post < post
                THEN bound[<<first + half + 1, count - half - 1>>]
                ELSE bound[<<first, half>>]
    IN  bound[<<1, Len(posts)>>]

Holds(posts, post) == LET k == LowerBound(posts, post)
                      IN  k \in DOMAIN posts /\ posts[k].post = post

Posts(posts) == {posts[k].post : k \in DOMAIN posts}

GetAllWordResult(wdata) ==
    {post \in Posts(wdata[1]) : \A k \in 2..Len(wdata) : Holds(wdata[k], post)}

(* Variant: one required word is enough.                                   *)
IncludeAnyRequired(words, wdata) ==
    LET must == {k \in DOMAIN words : words[k].sign = "must"}
        cant == {k \in DOMAIN words : words[k].sign = "cant"}
        found(S) == UNION {Posts(wdata[k]) : k \in S}
        include == IF must = {} THEN found(DOMAIN words \ cant) ELSE found(must)
    IN  include \ found(cant)

(* Of required words the first gives the candidates, the others are looked *)
(* up; without any, the words not excluded do.                             *)
Include(words, wdata) ==
    LET must == {k \in DOMAIN words : words[k].sign = "must"}
        cant == {k \in DOMAIN words : words[k].sign = "cant"}
        found(S) == UNION {Posts(wdata[k]) : k \in S}
        first    == CHOOSE k \in must : \A l \in must : k <= l
        include  == IF must = {} THEN found(DOMAIN words \ cant)
                    ELSE {p \in Posts(wdata[first]) :
                             \A k \in must \ {first} : Holds(wdata[k], p)}
    IN  include \ found(cant)

GetFullResult(words, wdata, logic) ==
    LET wsize   == AtMost(MaxWords, Len(words))
        found   == UNION {Posts(wdata[k]) : k \in 1..wsize}
        checked == logic /\ \E k \in DOMAIN words : words[k].sign # "none"
    IN  IF checked THEN found \cap Include(words, wdata) ELSE found

Search(query, lexdata) ==
    LET q     == FixupFlags(query)
        words == ExtractWords(q, lexdata)
        wdata == GetPostsForWords(words, q.filter, lexdata)
    IN  CASE words = <<>> -> {}
          [] Len(words) = 1 /\ words[1].sign = "cant" -> {}
          [] Len(words) = 1 /\ words[1].sign # "cant" -> Posts(wdata[1])
          [] Len(words) > 1 /\ q.all  -> GetAllWordResult(wdata)
          [] Len(words) > 1 /\ ~q.all -> GetFullResult(words, wdata, q.logic)
-----------------------------------------------------------------------------
(* The distance of two groups of words in a message: for each context the  *)
(* positions of the hits, without those at the last one, as a start and a  *)
(* list of differences.  Each is taken from the difference before it, not  *)
(* from the position before it.                                            *)
FarAway == 127

Near(hits, type) == {k \in DOMAIN hits : hits[k].type = type /\ hits[k].pos < MaxPos[type]}

Hops(hits, type) ==
    LET pos == [k \in DOMAIN hits |-> hits[k].pos]
        at  == Arranged(pos, LowFirst(Near(hits, type), pos))
        hops[k \in 0..Len(at)] ==
            IF k = 0 THEN <<>>
            ELSE LET had == hops[k - 1]
                 IN  IF had = <<>> THEN <<at[k]>>
                     ELSE IF at[k] > Last(had) THEN Append(had, at[k] - Last(had))
                     ELSE had
    IN  hops[Len(at)]

(* An int8_t.                                                              *)
Signed(n) == ((n + 128) % 256) - 128

Reached(hops) ==
    LET sum[k \in 0..Len(hops)] == IF k = 0 THEN 0 ELSE sum[k - 1] + hops[k]
    IN  [k \in DOMAIN hops |-> Signed(sum[k])]

(* Variant: the walk goes on with the list that is ahead.                  *)
ClosestAhead(p, q) ==
    LET walk[at \in (1..(Len(p) + 1)) \X (1..(Len(q) + 1))] ==
            LET i == at[1]
                j == at[2]
            IN  IF i > Len(p) \/ j > Len(q) THEN FarAway
                ELSE LET rest == IF p[i] < q[j] THEN walk[<<i, j + 1>>] ELSE walk[<<i + 1, j>>]
                     IN  AtMost(rest, IF p[i] < q[j] THEN q[j] - p[i] ELSE p[i] - q[j])
    IN  walk[<<1, 1>>]

(* Both lists walked at a time, going on with the one that is behind.      *)
Closest(p, q) ==
    LET walk[at \in (1..(Len(p) + 1)) \X (1..(Len(q) + 1))] ==
            LET i == at[1]
                j == at[2]
            IN  IF i > Len(p) \/ j > Len(q) THEN FarAway
                ELSE LET rest == IF p[i] < q[j] THEN walk[<<i + 1, j>>] ELSE walk[<<i, j + 1>>]
                     IN  AtMost(rest, IF p[i] < q[j] THEN q[j] - p[i] ELSE p[i] - q[j])
    IN  walk[<<1, 1>>]

(* A group is the words one term brings, each with its hits in the message,*)
(* and all of these hits are one list.                                     *)
GetWordDistance(list1, list2) ==
    LET hits1 == FlattenSeq(list1)
        hits2 == FlattenSeq(list2)
        Distance(type) == Closest(Reached(Hops(hits1, type)), Reached(Hops(hits2, type)))
        least == CHOOSE d \in {Distance(t) : t \in Types} :
                     \A t \in Types : d <= Distance(t)
    IN  IF least < 2 THEN 1 ELSE least
=============================================================================
