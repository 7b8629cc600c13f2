---------------------------- MODULE SearchIndex ----------------------------
(***************************************************************************)
(* The way of the index of words through three utilities: uat-lexicon      *)
(* makes it, uat-sort gives the messages in it new numbers, uat-lexsort    *)
(* puts it in the order SearchEngine relies on.                            *)
(***************************************************************************)
EXTENDS SortArchive, SearchEngine

CONSTANTS Texts,      \* texts of all messages of an archive that occur
          MapOrders,  \* orders in which a hash map is walked, as keys to sort by
          Queries,
          HitLists   \* the hits the words of a group have in a message

Line == [mark : BOOLEAN, level : 0..3, words : Seq(Word)]
Text == [from : Seq(Word), subject : Seq(Word), wrote : Nat, body : Seq(Line)]

ASSUME SearchIndexAssumption == /\ Texts \subseteq [Msg -> Text]
                                /\ MapOrders \subseteq [Msg -> Nat]
                                /\ Queries \subseteq Query
                                /\ HitLists \subseteq Seq(Seq(Hit))

VARIABLES text,    \* what the messages say
          data,    \* uat-lexicon's map: the hits of words in messages
          indexed  \* the next message it reads

lexiconVars == <<text, data, indexed>>
vars == <<source, sortVars, phase, lexiconVars>>

Init == /\ SortInit
        /\ lexdata = <<>>
        /\ text \in Texts
        /\ data = [w \in Word |-> <<>>]
        /\ indexed = 0
        /\ phase = "lexicon"

IndexMessage ==
    /\ phase = "lexicon" /\ indexed < NumMsg
    /\ data' = AddMessage(data, indexed, text[indexed])
    /\ indexed' = indexed + 1
    /\ UNCHANGED <<source, sortVars, phase, text>>

SaveLexicon ==
    /\ phase = "lexicon" /\ indexed = NumMsg
    /\ \E key \in MapOrders :
           lexdata' = WriteLexdata(data, [m \in Msg |-> conn[m].total],
                                   [w \in Word |-> InOrder(DOMAIN data[w], key)])
    /\ phase' = "order"
    /\ UNCHANGED <<conn, toplevel, sortVars, lexiconVars>>

SortLexicon ==
    /\ phase = "lexsort"
    /\ file' = [file EXCEPT !["lexdata"] = [word \in DOMAIN @ |-> Lexsort(@[word])]]
    /\ phase' = "done"
    /\ UNCHANGED <<source, idx, thread, order, revtop, rev, lexiconVars>>

Next == \/ IndexMessage \/ SaveLexicon
        \/ SortNext /\ UNCHANGED lexiconVars
        \/ SortLexicon

Spec == Init /\ [][Next]_vars
-----------------------------------------------------------------------------
(* Where words stand in a message: a context, and a place in it, the       *)
(* number of words the context has before.                                 *)
Places(lines) == UNION {{i} \X DOMAIN lines[i].words : i \in DOMAIN lines}

Occurrences(m, word) ==
    LET lines == Lines(text[m])
        before(p) == {q \in Places(lines) : /\ lines[q[1]].type = lines[p[1]].type
                                            /\ q[1] < p[1] \/ (q[1] = p[1] /\ q[2] < p[2])}
    IN  {[type |-> lines[p[1]].type, pos |-> Cardinality(before(p))] :
            p \in {p \in Places(lines) : lines[p[1]].words[p[2]] = word}}

Having(word) == {m \in Msg : Occurrences(m, word) # {}}

(* The words worth an entry: a word of one message only is not in it.      *)
InLexicon(word) == Cardinality(Having(word)) > 1

(* The hits of a word: a place beyond the last position is taken for it.   *)
HitsOf(m, word) == {[o EXCEPT !.pos = AtMost(MaxPos[o.type], @)] : o \in Occurrences(m, word)}

(* A word new to the archive has its position cut to a byte: beyond the    *)
(* 256th place of a context it may be taken for one of the first.          *)
Wrapped(m, word) == \E o \in Occurrences(m, word) : o.pos >= Byte

(* A word has at most 255 hits in a message: of one that has all 256 there *)
(* can be, one is lost.                                                    *)
Crowded(m, word) == Cardinality(HitsOf(m, word)) > MaxHits

(* The index of the sorted archive: a word leads to the messages that have *)
(* it and to no other, in the order of their numbers, with the size of     *)
(* what is below each; and in each to where it stands, best place first.   *)
IndexRight ==
    phase = "done" =>
        LET lex == file["lexdata"]
            old(k) == file["messages"][k]
        IN  /\ DOMAIN lex = {w \in Word : InLexicon(w)}
            /\ \A w \in DOMAIN lex :
                  /\ {old(lex[w][k].post) : k \in DOMAIN lex[w]} = Having(w)
                  /\ \A k \in 2..Len(lex[w]) : lex[w][k - 1].post < lex[w][k].post
                  /\ \A k \in DOMAIN lex[w] :
                        LET e == lex[w][k]
                            m == old(e.post)
                        IN  /\ e.children =
                                  LexiconTransformChildNum(file["conn"][e.post].total - 1)
                            /\ \A h \in 2..Len(e.hits) : ~RanksAbove(e.hits[h], e.hits[h - 1])
                            /\ ~Wrapped(m, w) /\ ~Crowded(m, w) => Range(e.hits) = HitsOf(m, w)

(* The words a term of a query stands for.                                 *)
Brings(q, t) ==
    LET direct == IF (~q.logic /\ ~Plain(t)) \/ (t.star /\ t.sign # "none") THEN {}
                  ELSE IF t.star THEN Starting[t.word] ELSE {t.word}
        fuzzy  == IF q.fuzzy /\ ~t.strict /\ t.sign = "none"
                  THEN UNION {Similar[w] : w \in {w \in direct : InLexicon(w)}} ELSE {}
    IN  {w \in direct \cup fuzzy : InLexicon(w)}

Matches(q, t, m) ==
    \E w \in Brings(q, t) : \E o \in Occurrences(m, w) :
        IF q.filter # "All" THEN o.type = q.filter ELSE t.field \in {"Any", o.type}

(* The terms that must be met: those with a plus (Help.cpp, "Prepend word *)
(* with + to require this word"), or all of them (SF_RequireAllWords).     *)
Required(q) == {t \in Range(q.terms) : q.all \/ (q.logic /\ t.sign = "must")}

(* What a query asks for: any of the words without a minus, all of those   *)
(* that are required and none of those with a minus, in the author or the  *)
(* subject where it says so.  A term the archive has no word for is met by *)
(* no message.                                                             *)
Asked(query) ==
    LET q     == FixupFlags(query)
        terms == Range(q.terms)
    IN  {m \in Msg : /\ \E t \in terms : t.sign # "cant" /\ Matches(q, t, m)
                     /\ \A t \in Required(q) : Matches(q, t, m)
                     /\ \A t \in terms : t.sign = "cant" => ~Matches(q, t, m)}

(* Queries in which each word counts for one term, not too many, and with  *)
(* a word of the lexicon for each required term.  Of two terms that bring  *)
(* the same word the second is ignored, words beyond the limit find        *)
(* nothing, and a required term that brings no word is passed over.        *)
Clear(query) ==
    LET q == FixupFlags(query)
        n == Len(q.terms)
    IN  /\ \A t \in Required(q) : Brings(q, t) # {}
        /\ \A i, j \in 1..n : i # j => Brings(q, q.terms[i]) \cap Brings(q, q.terms[j]) = {}
        /\ Cardinality(UNION {Brings(q, q.terms[i]) : i \in 1..n}) <= MaxWords

(* What a user finds in the sorted archive is what the messages say.       *)
SearchRight ==
    phase = "done" =>
        \A q \in Queries : Clear(q) =>
            {file["messages"][k] : k \in Search(q, file["lexdata"])} = Asked(q)

(* Hits at the last position may be anywhere and do not count.             *)
NearHits(list) ==
    {h \in UNION {Range(list[k]) : k \in DOMAIN list} : h.pos < MaxPos[h.type]}

(* What the distance of two groups of words should be: the least there is  *)
(* between a place of one and a place of the other in the same context.    *)
LeastApart(list1, list2) ==
    LET pairs == {p \in NearHits(list1) \X NearHits(list2) : p[1].type = p[2].type}
        Apart(i, j) == IF i < j THEN j - i ELSE i - j
        apart == {Apart(p[1].pos, p[2].pos) : p \in pairs}
    IN  IF apart = {} THEN FarAway ELSE IF Min(apart) < 2 THEN 1 ELSE Min(apart)

Few(list) == \A t \in Types : Cardinality(Near(FlattenSeq(list), t)) <= 2
Measured(groups) == \A g1, g2 \in groups : Few(g1) /\ Few(g2) =>
                        GetWordDistance(g1, g2) = LeastApart(g1, g2)

(* Groups of words with at most two hits in each context are as far apart  *)
(* as they are: for any hits, and for those the index has of one or two    *)
(* words of a message.  With a third hit the places are no longer the ones *)
(* in the message.                                                         *)
AnyMeasured == Measured(HitLists)
DistanceRight ==
    phase = "done" =>
        LET lex == file["lexdata"]
            In(k) == {e \in UNION {Range(lex[w]) : w \in DOMAIN lex} : e.post = k}
            Groups(E) == {<<e.hits>> : e \in E} \cup {<<d.hits, e.hits>> : d, e \in E}
        IN  AnyMeasured /\ \A k \in Msg : Measured(Groups(In(k)))
=============================================================================
