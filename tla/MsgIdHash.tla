----------------------------- MODULE MsgIdHash -----------------------------
(***************************************************************************)
(* The hash tables of an archive: how extract-msgid builds midhash,        *)
(* midhashdata, middata and midmeta, and how HashSearch::Search reads      *)
(* them.  lexicon.cpp and galaxy-util.cpp hold copies of the same loops    *)
(* for their own tables.                                                   *)
(*                                                                         *)
(* It is a Robin Hood table with linear probing: an element that has been  *)
(* carried further from its home slot than the one it meets takes that     *)
(* slot and the other one is carried on.  distmax, the longest distance,   *)
(* is stored beside the table and ends unsuccessful searches.              *)
(*                                                                         *)
(* The assertions of the loops, that a distance stays below the mark of a  *)
(* free slot and that every message was written, are not in the release    *)
(* build (release.mk defines NDEBUG).  A distance that reaches the mark is *)
(* stored like any other: its slot then looks free, and the message in it  *)
(* is lost.                                                                *)
(*                                                                         *)
(* Message ids are members of Str; two messages may have the same one.     *)
(* XXH32 is an arbitrary function home from strings to slots.  An offset   *)
(* into middata is the ordinal of the string that starts there; the zero   *)
(* byte the file starts with makes 0 an offset of no string.               *)
(***************************************************************************)
EXTENDS Integers, Sequences, FiniteSets

CONSTANTS NumMsg,    \* messages in the archive ("size" in the code)
          HashSize,  \* slots of the table
          Str,       \* message ids
          Empty      \* the distance that marks a free slot, 0xFF in the code,
                     \* and the greatest its type holds

Msg  == 0..(NumMsg - 1)
Slot == 0..(HashSize - 1)

ASSUME HashAssumption == /\ NumMsg \in Nat
                         /\ HashSize \in Nat \ {0}
                         /\ Empty \in Nat \ {0}

-----------------------------------------------------------------------------
VARIABLES str,       \* input: the id of each message
          home,      \* input: the hash of each id, masked to the table
          distance,  \* how far the element of each slot is from its home
          hashdata,  \* the message in each slot
          distmax,
          next,      \* the message the outer loop has reached
          carry,     \* the inner loop's hash, dist and idx
          phase,
          slot,      \* the slot the write-out loop has reached
          middata,   \* the strings written, in order
          midhash,   \* the file written: offset and message for each slot
          midmeta    \* the offset written for each message

input   == <<str, home>>
table   == <<distance, hashdata, distmax>>
files   == <<slot, middata, midhash, midmeta>>
vars    == <<input, table, next, carry, phase, files>>

Phase == {"next", "probe", "write", "done"}

(* msgidoffset is not cleared before it is filled.                         *)
Unset == -1

TypeOK == /\ str \in [Msg -> Str]
          /\ home \in [Str -> Slot]
          /\ distance \in [Slot -> 0..Empty]
          /\ hashdata \in [Slot -> Msg \cup {-1}]
          /\ distmax \in 0..Empty
          /\ next \in 0..NumMsg
          /\ carry \in [hash : Slot, dist : 0..Empty, idx : Msg \cup {-1}]
          /\ phase \in Phase
          /\ slot \in 0..HashSize
          /\ middata \in Seq(Str)
          /\ midhash \in [Slot -> [offset : Nat, idx : Msg \cup {-1, 0}]]
          /\ midmeta \in [Msg -> Nat \cup {Unset}]

Init == /\ str \in [Msg -> Str]
        /\ home \in [Str -> Slot]
        /\ distance = [s \in Slot |-> Empty]
        /\ hashdata = [s \in Slot |-> -1]
        /\ distmax = 0
        /\ next = 0
        /\ carry = [hash |-> 0, dist |-> 0, idx |-> -1]
        /\ phase = "next"
        /\ slot = 0
        /\ middata = <<>>
        /\ midhash = [s \in Slot |-> [offset |-> 0, idx |-> -1]]
        /\ midmeta = [m \in Msg |-> Unset]

HashStart(m) ==
    /\ phase = "next" /\ m = next /\ next < NumMsg
    /\ carry' = [hash |-> home[str[m]], dist |-> 0, idx |-> m]
    /\ phase' = "probe"
    /\ UNCHANGED <<input, table, next, files>>

(* Variant: the distance of the last element placed, not the longest.      *)
LastOf(d) == d

LongerOf(d) == IF distmax < d THEN d ELSE distmax

Place ==
    /\ phase = "probe"
    /\ distance[carry.hash] = Empty
    /\ distmax' = LongerOf(carry.dist)
    /\ distance' = [distance EXCEPT ![carry.hash] = carry.dist]
    /\ hashdata' = [hashdata EXCEPT ![carry.hash] = carry.idx]
    /\ next' = next + 1
    /\ phase' = "next"
    /\ UNCHANGED <<input, carry, files>>

(* Variant: the mask forgotten.                                            *)
NextSlotUnmasked(h) == h + 1

NextSlot(h) == (h + 1) % HashSize

(* The end of an iteration that goes on: with d carried to idx, dist++ in  *)
(* its width and hash+1.                                                   *)
Advance(d, idx) ==
    /\ carry' = [hash |-> NextSlot(carry.hash), dist |-> (d + 1) % (Empty + 1), idx |-> idx]
    /\ phase' = "probe"

Displace ==
    /\ phase = "probe"
    /\ distance[carry.hash] # Empty /\ distance[carry.hash] < carry.dist
    /\ distmax' = LongerOf(carry.dist)
    /\ distance' = [distance EXCEPT ![carry.hash] = carry.dist]
    /\ hashdata' = [hashdata EXCEPT ![carry.hash] = carry.idx]
    /\ Advance(distance[carry.hash], hashdata[carry.hash])
    /\ UNCHANGED <<input, next, files>>

Pass ==
    /\ phase = "probe"
    /\ distance[carry.hash] # Empty /\ distance[carry.hash] >= carry.dist
    /\ Advance(carry.dist, carry.idx)
    /\ UNCHANGED <<input, table, next, files>>

EndInsert ==
    /\ phase = "next" /\ next = NumMsg
    /\ phase' = "write"
    /\ UNCHANGED <<input, table, next, carry, files>>

WriteEmpty ==
    /\ phase = "write" /\ slot < HashSize /\ distance[slot] = Empty
    /\ slot' = slot + 1
    /\ midhash' = [midhash EXCEPT ![slot] = [offset |-> 0, idx |-> 0]]
    /\ UNCHANGED <<input, table, next, carry, phase, middata, midmeta>>

(* Variant: the offset does not count the zero byte in front.              *)
WriteElementShifted ==
    /\ phase = "write" /\ slot < HashSize /\ distance[slot] # Empty
    /\ slot' = slot + 1
    /\ LET m == hashdata[slot]
           stroffset == Len(middata)
       IN  /\ midhash' = [midhash EXCEPT ![slot] = [offset |-> stroffset, idx |-> m]]
           /\ midmeta' = [midmeta EXCEPT ![m] = stroffset]
           /\ middata' = Append(middata, str[m])
    /\ UNCHANGED <<input, table, next, carry, phase>>

WriteElement ==
    /\ phase = "write" /\ slot < HashSize /\ distance[slot] # Empty
    /\ slot' = slot + 1
    /\ LET m == hashdata[slot]
           stroffset == Len(middata) + 1
       IN  /\ midhash' = [midhash EXCEPT ![slot] = [offset |-> stroffset, idx |-> m]]
           /\ midmeta' = [midmeta EXCEPT ![m] = stroffset]
           /\ middata' = Append(middata, str[m])
    /\ UNCHANGED <<input, table, next, carry, phase>>

EndWrite ==
    /\ phase = "write" /\ slot = HashSize
    /\ phase' = "done"
    /\ UNCHANGED <<input, table, next, carry, files>>

Next == \/ \E m \in Msg : HashStart(m)
        \/ Place \/ Displace \/ Pass \/ EndInsert
        \/ WriteEmpty \/ WriteElement \/ EndWrite

Spec == Init /\ [][Next]_vars
-----------------------------------------------------------------------------
(***************************************************************************)
(* HashSearch::Search on the files: the probe for s at distance k is       *)
(* ProbeSlot(s, k).  The loop ends at the first k whose slot is free or    *)
(* holds s, and gives up after distmax.  Search returns message r when     *)
(* that end is a match with index r.                                       *)
(***************************************************************************)
ProbeSlot(s, k) == (home[s] + k) % HashSize

Vacant(h)     == midhash[h].offset = 0
Matches(h, s) == ~Vacant(h) /\ middata[midhash[h].offset] = s

SearchReturns(s, r) ==
    \E k \in 0..distmax :
        /\ Matches(ProbeSlot(s, k), s)
        /\ midhash[ProbeSlot(s, k)].idx = r
        /\ \A j \in 0..(k - 1) : ~Vacant(ProbeSlot(s, j)) /\ ~Matches(ProbeSlot(s, j), s)
-----------------------------------------------------------------------------
(* What cnt == size would assert: every message got a place of its own.    *)
AllWritten == Len(middata) = NumMsg

(* What was stored is found: unless a distance overflowed and a message    *)
(* was lost, the search for the id of every message of the archive         *)
(* succeeds, however the table was shuffled by later insertions; and lost  *)
(* or not, a message that a search returns has the very id searched for.   *)
LookupComplete ==
    phase = "done" =>
        /\ AllWritten => \A m \in Msg : \E r \in Msg : SearchReturns(str[m], r)
        /\ \A s \in Str, r \in Msg : SearchReturns(s, r) => str[r] = s

(* The two ways from a message to its id agree: midmeta leads to a string  *)
(* of middata equal to the id, and no two messages share an offset; only   *)
(* a message that was lost has no offset, and its loss would have been     *)
(* seen in the number of strings written.                                  *)
MetaConsistent ==
    phase = "done" =>
        /\ AllWritten => \A m \in Msg : midmeta[m] # Unset
        /\ \A m \in Msg : midmeta[m] # Unset =>
              /\ midmeta[m] \in DOMAIN middata
              /\ middata[midmeta[m]] = str[m]
              /\ \A n \in Msg : midmeta[n] = midmeta[m] => n = m

=============================================================================
