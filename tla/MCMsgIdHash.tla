---------------------------- MODULE MCMsgIdHash ----------------------------
(***************************************************************************)
(* Five messages with at most three different ids in the table the code    *)
(* sizes for them, for every assignment of ids to messages and every hash  *)
(* function, with distances that overflow at 3 instead of 255: four of one *)
(* id lose a message, and with a neighbour an element already stored is    *)
(* taken out again by one that overflowed.                                 *)
(***************************************************************************)
EXTENDS MsgIdHash, HashSizing

MCHashSize == MsgIdHashSize(MsgIdHashBits(NumMsg, LoadFactor))

CONSTANT MaxSize

(* The few initial states in which all ids are one and hash to slot 0.     *)
Simplest == /\ phase = "next" /\ next = 0
            /\ home = [s \in Str |-> 0]
            /\ \A m, n \in Msg : str[m] = str[n]

(* The table never fills beyond the load factor it was sized for, so the   *)
(* insertion loop always meets a free slot; and the sizes the code         *)
(* computes are right for every archive up to MaxSize messages and around  *)
(* the powers of two where the shifts of MsgIdHashBits start, which no     *)
(* state depends on, so the simplest ones evaluate it.                     *)
SizingLeavesRoom ==
    /\ Cardinality({s \in Slot : distance[s] # Empty}) * 100 <= LoadFactor * HashSize
    /\ Simplest => \A n \in 0..MaxSize \cup UNION {(2^k - 2)..(2^k + 2) : k \in 1..24} :
                      SizedForLoad(n)
=============================================================================
