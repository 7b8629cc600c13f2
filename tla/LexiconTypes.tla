---------------------------- MODULE LexiconTypes ----------------------------
(***************************************************************************)
(* What lexicon entries are packed of (LexiconTypes.hpp): where in a       *)
(* message a word occurs, and in five bits how many messages hang below    *)
(* the one that has it.                                                    *)
(***************************************************************************)
EXTENDS Integers

CONSTANTS ChildMax,  \* LexiconChildMax, the largest number in the bits
          ChildUnit  \* messages a step of it stands for

ASSUME LexiconTypesAssumption == ChildMax \in Nat /\ ChildUnit \in Nat \ {0}

Types == {"Content", "Quote1", "Quote2", "Quote3", "Signature", "Subject", "From", "Wrote"}

LexiconTypeFromQuotLevel(level) ==
    CASE level = 0 -> "Content" [] level = 1 -> "Quote1"
      [] level = 2 -> "Quote2" [] OTHER -> "Quote3"

(* LexiconWeights, in twentieths.                                          *)
LexiconWeights == [Content |-> 20000, Quote1 |-> 3000, Quote2 |-> 500, Quote3 |-> 80,
                   Signature |-> 10, Subject |-> 20, From |-> 2, Wrote |-> 1]

LexiconTransformChildNum(children) ==
    (IF children < ChildMax * ChildUnit THEN children ELSE ChildMax * ChildUnit) \div ChildUnit
=============================================================================
