---------------------------- MODULE MessageDate ----------------------------
(***************************************************************************)
(* How connectivity.cpp dates a message.  Its headers hold one Date and    *)
(* any number of stamps of servers that passed it on (Received,            *)
(* NNTP-Posting-Date, Injection-Date); any of them may be unparsable, and  *)
(* the Date may be years off.  The stamps are split in groups of one week, *)
(* the largest group says when the message was received, and a Date more   *)
(* than a week away from that is replaced by it.                           *)
(*                                                                         *)
(* A header is abstracted to the time parsedate_rfc5322_lax makes of it,   *)
(* NoTime when it fails.  Times are integers: a zone offset takes the      *)
(* first hours of 1970 below zero.  Stamps and the result are stored in    *)
(* unsigned words of Word values.                                          *)
(***************************************************************************)
EXTENDS Integers, Sequences, FiniteSets, SequencesExt

CONSTANTS TimeTravelLimit, \* one week
          Word             \* 2^32 in the code

ASSUME DateAssumption == TimeTravelLimit \in Nat /\ Word \in Nat \ {0}

NoTime == -1

Wrap(t) == t % Word

Parsing(received) == {k \in DOMAIN received : received[k] # NoTime}

(* The stamps that parse, in unsigned words, as a sort can leave them.     *)
Parsed(received) ==
    {ts \in {[k \in DOMAIN s |-> Wrap(received[s[k]])] : s \in SetToSeqs(Parsing(received))} :
        \A k, l \in DOMAIN ts : k < l => ts[k] <= ts[l]}

(* The positions of the sorted stamps ts at which a group starts: a group  *)
(* extends over a week from the first stamp in it.                         *)
GroupStart(ts) ==
    LET start[k \in DOMAIN ts] ==
            IF k = 1 \/ ts[k] - ts[start[k - 1]] > TimeTravelLimit THEN k ELSE start[k - 1]
    IN  start

(* Variant: the first group, large or not.                                 *)
FirstGroup(ts) == ts[1]

(* The first stamp of the largest group, of the earliest one if several.   *)
LargestGroup(ts) ==
    LET start == GroupStart(ts)
        Count(g) == Cardinality({k \in DOMAIN ts : start[k] = g})
        best == CHOOSE g \in Range(start) :
                    \A h \in Range(start) :
                        Count(h) < Count(g) \/ (Count(h) = Count(g) /\ g <= h)
    IN  ts[best]

ReceivedDate(received) ==
    IF Len(received) = 1 THEN received[1]
    ELSE IF Parsing(received) = {} THEN NoTime
    ELSE CHOOSE t \in {LargestGroup(ts) : ts \in Parsed(received)} : TRUE

TooFar(t, u) == t - u > TimeTravelLimit \/ u - t > TimeTravelLimit

(* Of a message's headers h, h.received are the stamps, h.date is what the *)
(* Date header parses to and h.slashed what its yyyy/mm/dd form gives, 0   *)
(* when it has no such form or one out of range.                           *)
MessageDate(h) ==
    LET recvdate == ReceivedDate(h.received)
    IN  IF recvdate = NoTime
        THEN IF h.date = NoTime THEN h.slashed ELSE h.date
        ELSE IF h.date = NoTime \/ TooFar(h.date, recvdate) THEN recvdate ELSE h.date

Epoch(h) == Wrap(MessageDate(h))
=============================================================================
