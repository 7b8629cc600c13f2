---------------------------- MODULE MessageSets ----------------------------
(***************************************************************************)
(* What the utilities promise, with an archive as the set of the messages  *)
(* in it: not their order, not where they lie, not which version.  A       *)
(* message is known by its id; one without a valid id is only itself.      *)
(***************************************************************************)
EXTENDS Naturals, Sequences

CONSTANTS Identity, \* ids, and messages without one
          MsgId,    \* the ids
          Wanted,   \* what a filter always keeps
          Unwanted  \* what it never keeps

VARIABLES fetched, \* downloaded and not yet imported
          held     \* held[a]: what archive a has, and what it was made from

setVars == <<fetched, held>>

Init == /\ fetched = {}
        /\ held \in Seq([from : {<<>>}, kind : {"old"}, has : SUBSET Identity])

Download == /\ fetched' \in SUBSET Identity /\ fetched \subseteq fetched'
            /\ UNCHANGED held

Make(kind, from, has) == held' = Append(held, [kind |-> kind, from |-> from, has |-> has])

Import == /\ Make("import", <<>>, fetched)
          /\ fetched' = {}

(* Removing duplicates loses nothing.                                      *)
Copy == \E a \in DOMAIN held : Make("copy", <<a>>, held[a].has)

Filter == \E a \in DOMAIN held : \E kept \in SUBSET held[a].has :
              /\ held[a].has \cap Wanted \subseteq kept
              /\ kept \cap Unwanted = {}
              /\ Make("filter", <<a>>, kept)

(* Merging, of two or more archives, and updating one with another.        *)
Union == LET A == DOMAIN held
         IN  \E from \in (A \X A) \cup (A \X A \X A) :
                 Make("union", from, UNION {held[from[k]].has : k \in DOMAIN from})

Complement == \E a, b \in DOMAIN held :
                  Make("complement", <<a, b>>, held[a].has \ (held[b].has \cap MsgId))

Next == \/ Download \/ Import
        \/ (Copy \/ Filter \/ Union \/ Complement) /\ UNCHANGED fetched

Spec == Init /\ [][Next]_setVars
=============================================================================
