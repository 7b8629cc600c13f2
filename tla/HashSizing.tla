----------------------------- MODULE HashSizing -----------------------------
(***************************************************************************)
(* MsgIdHash.hpp: the size of a hash table for a given load factor in      *)
(* 1/100.  The masks of the code find the highest bit of s by halving the  *)
(* word; for s below 2^32 each mask is not zero exactly when s has reached *)
(* the power of two it starts at.  The size is an int: 1 << 31 is negative *)
(* and 1 << 32 undefined, so from s = 2^30 on there is no size, and the    *)
(* allocation of the table fails.                                          *)
(***************************************************************************)
EXTENDS Integers

(* Variant with the comparison off by one.                                 *)
HighBitsAbove(s, b) == IF s > 2^b THEN b ELSE 0

(* The shift one mask asks for: b when s has a bit at or above b.          *)
HighBits(s, b) == IF s >= 2^b THEN b ELSE 0

MsgIdHashBits(size, load) ==
    LET s0 == (size * 100) \div load
        r0 == HighBits(s0, 16)   s1 == s0 \div 2^r0
        r1 == HighBits(s1, 8)    s2 == s1 \div 2^r1
        r2 == HighBits(s2, 4)    s3 == s2 \div 2^r2
        r3 == HighBits(s3, 2)    s4 == s3 \div 2^r3
        r4 == HighBits(s4, 1)
    IN  r0 + r1 + r2 + r3 + r4 + 1

NoSize == -1

MsgIdHashSize(bits) == IF bits < 31 THEN 2^bits ELSE NoSize

LoadFactor == 90
-----------------------------------------------------------------------------
(* The size chosen for n elements leaves a free slot, without which the    *)
(* insertion loop would have no end, keeps to the load factor, and is the  *)
(* smallest power of two above n / load.                                   *)
SizedForLoad(n) ==
    LET size == MsgIdHashSize(MsgIdHashBits(n, LoadFactor))
        wanted == (n * 100) \div LoadFactor
    IN  n < size /\ wanted < size /\ (size > 2 => size \div 2 <= wanted)
=============================================================================
