------------------------------ MODULE Lexicon ------------------------------
(***************************************************************************)
(* The index of words: what uat-lexicon finds in the text of a message,    *)
(* and what uat-lexsort makes of the entries of a word.                    *)
(*                                                                         *)
(* A text is what SplitLine leaves of a message: the words of its From and *)
(* Subject headers, how many lines introduce a quote (DetectWrote), and of *)
(* each line of the body that is not empty its words, its level of         *)
(* quotation, and whether it opens the signature.                          *)
(***************************************************************************)
EXTENDS LexiconTypes, Sequences, FiniteSets, SequencesExt, Functions

CONSTANTS Word,
          MaxPos,  \* LexiconHitPosMask: the last position of each type, for all beyond it too
          Byte     \* what positions of words new to the archive wrap at: 256

MaxHits == 255

(* A hit is a type and, in the bits left of a byte, a position.            *)
Hit == {hit \in [type : Types, pos : 0..Byte] : hit.pos <= MaxPos[hit.type]}

ASSUME LexiconAssumption == /\ Byte \in Nat
                            /\ MaxPos \in [Types -> 1..127]
                            /\ \A t \in Types : MaxPos[t] < Byte
                            /\ Cardinality(Hit) <= MaxHits + 1

AtMost(max, n) == IF n < max THEN n ELSE max

(* std::sort: the elements of a list at the places before knows, each      *)
(* after those at the places that come before its own.                     *)
Arranged(list, before) ==
    [k \in 1..Cardinality(DOMAIN before) |->
        list[CHOOSE l \in DOMAIN before : Cardinality(before[l]) = k - 1]]

LowFirst(places, num) ==
    [l \in places |-> {k \in places : num[k] < num[l] \/ (num[k] = num[l] /\ k < l)}]

(* The context of each line, a record of its type and its words: after the *)
(* signature mark all is signature, and the first lines may name authors.  *)
Lines(text) ==
    LET Type(k) == IF \E i \in 1..k : text.body[i].mark THEN "Signature"
                   ELSE IF k <= text.wrote THEN "Wrote"
                   ELSE LexiconTypeFromQuotLevel(text.body[k].level)
    IN  <<[type |-> "From", words |-> text.from], [type |-> "Subject", words |-> text.subject]>>
            \o [k \in DOMAIN text.body |-> [type |-> Type(k), words |-> text.body[k].words]]

(* The loop of Add.  data has the hits of each word in each message that   *)
(* has it; basePos is the position of the next word, not counted on once   *)
(* a word known to the archive stands beyond the last one.                 *)
AddWord(data, m, type, basePos, word) ==
    LET max  == MaxPos[type]
        hits == IF m \in DOMAIN data[word] THEN data[word][m] ELSE <<>>
        Set(list) == [data EXCEPT ![word] = [x \in DOMAIN data[word] \cup {m} |->
                                                IF x = m THEN list ELSE data[word][x]]]
        With(pos) == Set(Append(hits, [type |-> type, pos |-> pos]))
    IN  IF DOMAIN data[word] = {}
        THEN [data |-> With(AtMost(max, basePos % Byte)), basePos |-> basePos + 1]
        ELSE IF Len(hits) < MaxHits /\ basePos < max
        THEN [data |-> With(basePos), basePos |-> basePos + 1]
        ELSE IF Len(hits) < MaxHits /\ ~Contains(hits, [type |-> type, pos |-> max])
        THEN [data |-> With(max), basePos |-> basePos]
        ELSE [data |-> Set(hits), basePos |-> basePos]

AddWords(data, m, type, base, words) ==
    LET added[k \in 0..Len(words)] ==
            IF k = 0 THEN [data |-> data, basePos |-> base]
            ELSE LET at == added[k - 1]
                 IN  AddWord(at.data, m, type, at.basePos, words[k])
    IN  added[Len(words)].data

(* A message: the body counts positions on from line to line of a type.    *)
AddMessage(data, m, text) ==
    LET lines == Lines(text)
        read[k \in 0..Len(lines)] ==
            IF k = 0 THEN [data |-> data, base |-> [t \in Types |-> 0]]
            ELSE LET at == read[k - 1]
                     line == lines[k]
                 IN  [data |-> AddWords(at.data, m, line.type, at.base[line.type], line.words),
                      base |-> [at.base EXCEPT ![line.type] = @ + Len(line.words)]]
    IN  read[Len(lines)].data

(* Words of one message only are dropped.  The entries of a word come in   *)
(* the order its hash map is walked in.                                    *)
WriteLexdata(data, total, walk) ==
    LET Entry(word, m) == [post     |-> m,
                           children |-> LexiconTransformChildNum(total[m] - 1),
                           hits     |-> data[word][m]]
        words == {w \in Word : Cardinality(DOMAIN data[w]) \notin {0, 1}}
    IN  [word \in words |-> [k \in DOMAIN walk[word] |-> Entry(word, walk[word][k])]]

(* LexiconHitRank: a word at the last position has a tenth of the weight   *)
(* of one at the first.  Ranks are fractions, compared crosswise.          *)
RanksAbove(l, r) ==
    LET Numerator(hit) == LexiconWeights[hit.type] * (10 * MaxPos[hit.type] - 9 * hit.pos)
    IN  Numerator(l) * MaxPos[r.type] > Numerator(r) * MaxPos[l.type]

(* Hits of one rank may come in any order; here they stay in theirs.       *)
ByRank(hits) ==
    LET Above(k, l) == RanksAbove(hits[k], hits[l]) \/ (~RanksAbove(hits[l], hits[k]) /\ k < l)
    IN  [l \in DOMAIN hits |-> {k \in DOMAIN hits : Above(k, l)}]

(* Variant: entries stay in the order sort left them in.                   *)
LexsortHitsOnly(entries) ==
    [k \in DOMAIN entries |->
        [entries[k] EXCEPT !.hits = Arranged(@, ByRank(@))]]

(* uat-lexsort: entries by number of message, hits by rank.                *)
Lexsort(entries) ==
    LET posts  == [k \in DOMAIN entries |-> entries[k].post]
        Sorted == Arranged(entries, LowFirst(DOMAIN entries, posts))
    IN  [k \in DOMAIN Sorted |-> [Sorted[k] EXCEPT !.hits = Arranged(@, ByRank(@))]]
=============================================================================
