---------------------------- MODULE VisitedStore ----------------------------
(***************************************************************************)
(* The list of visited messages (libuat/PersistentStorage.cpp), a file all *)
(* running browsers share.  Each of them keeps a copy in memory, reads the *)
(* file again when its modification time has advanced, and appends what it *)
(* marks; a POSIX semaphore named after the file (LockedFile, named_mutex) *)
(* keeps others out meanwhile.  For Grace after it has looked at the file  *)
(* a browser answers from memory alone.                                    *)
(*                                                                         *)
(* A browser starts with Preload, on a thread WaitPreload joins, and then  *)
(* calls WasVisited and MarkVisited from one thread.  It may die anywhere; *)
(* the semaphore stays as it is then.                                      *)
(*                                                                         *)
(* Time passes in ticks; stat tells the second of the last append.         *)
(***************************************************************************)
EXTENDS Integers, FiniteSets

CONSTANTS Proc,     \* browsers
          MsgId, NoMsgId,
          Grace,    \* 500 ms, in ticks
          Second,   \* 1 s, in ticks
          MaxClock, \* bound: ticks in a behaviour
          MaxFaults \* bound: how often browsers end or are interrupted

ASSUME VisitedAssumption ==
    /\ Grace \in Nat \ {0} /\ Second \in Nat \ {0}
    /\ MaxClock \in Nat /\ MaxFaults \in Nat
    /\ NoMsgId \notin MsgId

Never  == -1 \* a message nobody has written
NoFile == 0  \* the modification time of a file that does not exist

VARIABLES clock,
          written,    \* the file: when each message first got into it
          mtime,      \* its modification time, in seconds
          sem,        \* the value of the semaphore
          pc, op,     \* where each browser is, in which call
          arg,        \* the message MarkVisited was called with
          visited,    \* m_visited
          timestamp,  \* m_visitedTimestamp
          lastVerify, \* m_visitedLastVerify
          sameSecond, \* history: the browsers that had looked at the file in
                      \* the very second a message was written, before it was
          faults,
          lost,       \* history: a browser died with the semaphore taken
          interrupted \* history: a signal ended somebody's sem_wait

shared == <<written, mtime, sem>>
local == <<pc, op, arg, visited, timestamp, lastVerify>>
visitedVars == <<clock, shared, local, sameSecond, faults, lost, interrupted>>

InFile == {m \in MsgId : written[m] # Never}

Inside == {"stat", "read", "append", "restat", "unlock"}

VisitedTypeOK ==
    /\ clock \in 0..MaxClock
    /\ written \in [MsgId -> 0..MaxClock \cup {Never}]
    /\ mtime \in 0..(MaxClock + 1)
    /\ sem \in IF interrupted THEN Nat ELSE 0..1
    /\ pc \in [Proc -> {"lock", "idle"} \cup Inside]
    /\ op \in [Proc -> {"preload", "was", "mark", "none"}]
    /\ arg \in [Proc -> MsgId \cup {NoMsgId}]
    /\ visited \in [Proc -> SUBSET MsgId]
    /\ timestamp \in [Proc -> 0..(MaxClock + 1)]
    /\ lastVerify \in [Proc -> (-Grace)..MaxClock]
    /\ sameSecond \subseteq Proc \X MsgId
    /\ faults \in 0..MaxFaults
    /\ lost \in BOOLEAN /\ interrupted \in BOOLEAN

VisitedInit ==
    /\ clock = 0
    /\ written = [m \in MsgId |-> Never]
    /\ mtime = NoFile
    /\ sem = 1
    /\ pc = [p \in Proc |-> "lock"]
    /\ op = [p \in Proc |-> "preload"]
    /\ arg = [p \in Proc |-> NoMsgId]
    /\ visited = [p \in Proc |-> {}]
    /\ timestamp = [p \in Proc |-> 0]
    /\ lastVerify = [p \in Proc |-> -Grace]
    /\ sameSecond = {}
    /\ faults = 0
    /\ lost = FALSE /\ interrupted = FALSE

Goto(p, where) == pc' = [pc EXCEPT ![p] = where]

SecondOf(t) == 1 + t \div Second
-----------------------------------------------------------------------------
Tick ==
    /\ clock < MaxClock
    /\ clock' = clock + 1
    /\ UNCHANGED <<shared, local, sameSecond, faults, lost, interrupted>>

(* Variant: one tick too long.                                             *)
InGraceLong(p) == clock - lastVerify[p] <= Grace

InGrace(p) == clock - lastVerify[p] < Grace

(* WasVisited beyond the grace time; within it, or when m is known, the    *)
(* call answers from memory and changes nothing.                           *)
WasVisited(p, m) ==
    /\ pc[p] = "idle"
    /\ ~InGrace(p) /\ m \notin visited[p]
    /\ op' = [op EXCEPT ![p] = "was"]
    /\ Goto(p, "lock")
    /\ UNCHANGED <<clock, shared, arg, visited, timestamp, lastVerify, sameSecond, faults, lost, interrupted>>

MarkVisited(p, m) ==
    /\ pc[p] = "idle"
    /\ m \notin visited[p]
    /\ op' = [op EXCEPT ![p] = "mark"]
    /\ arg' = [arg EXCEPT ![p] = m]
    /\ Goto(p, "lock")
    /\ UNCHANGED <<clock, shared, visited, timestamp, lastVerify, sameSecond, faults, lost, interrupted>>

(* Variant: what is marked is appended without a look at the file.         *)
LockToAppend(p) ==
    /\ pc[p] = "lock"
    /\ sem > 0 /\ sem' = sem - 1
    /\ Goto(p, IF op[p] = "mark" THEN "append" ELSE "stat")
    /\ UNCHANGED <<clock, written, mtime, op, arg, visited, timestamp, lastVerify, sameSecond, faults, lost, interrupted>>

Lock(p) ==
    /\ pc[p] = "lock"
    /\ sem > 0 /\ sem' = sem - 1
    /\ Goto(p, "stat")
    /\ UNCHANGED <<clock, written, mtime, op, arg, visited, timestamp, lastVerify, sameSecond, faults, lost, interrupted>>

(* named_mutex ignores what sem_wait returns: a signal (ncurses does not    *)
(* restart calls after the one for a resized terminal) lets a waiting      *)
(* browser in, and it posts the semaphore on its way out all the same.     *)
LockInterrupted(p) ==
    /\ pc[p] = "lock" /\ sem = 0
    /\ faults < MaxFaults
    /\ faults' = faults + 1
    /\ interrupted' = TRUE
    /\ Goto(p, "stat")
    /\ UNCHANGED <<clock, shared, op, arg, visited, timestamp, lastVerify, sameSecond, lost>>

AfterVerify(p) == IF op[p] = "mark" THEN "append" ELSE "unlock"

(* VerifyVisitedAreValid: a file that does not exist is not looked at.     *)
NothingToStat(p) ==
    /\ pc[p] = "stat" /\ mtime = NoFile
    /\ Goto(p, AfterVerify(p))
    /\ UNCHANGED <<clock, shared, op, arg, visited, timestamp, lastVerify, sameSecond, faults, lost, interrupted>>

StatNewer(p) ==
    /\ pc[p] = "stat" /\ mtime > timestamp[p]
    /\ timestamp' = [timestamp EXCEPT ![p] = mtime]
    /\ Goto(p, "read")
    /\ UNCHANGED <<clock, shared, op, arg, visited, lastVerify, sameSecond, faults, lost, interrupted>>

StatSame(p) ==
    /\ pc[p] = "stat" /\ mtime # NoFile /\ mtime <= timestamp[p]
    /\ lastVerify' = [lastVerify EXCEPT ![p] = clock]
    /\ Goto(p, AfterVerify(p))
    /\ UNCHANGED <<clock, shared, op, arg, visited, timestamp, sameSecond, faults, lost, interrupted>>

Read(p) ==
    /\ pc[p] = "read"
    /\ visited' = [visited EXCEPT ![p] = @ \cup InFile]
    /\ lastVerify' = [lastVerify EXCEPT ![p] = clock]
    /\ Goto(p, AfterVerify(p))
    /\ UNCHANGED <<clock, shared, op, arg, timestamp, sameSecond, faults, lost, interrupted>>

(* The rest of MarkVisited.  An id may get into the file twice.            *)
AppendVisited(p) ==
    /\ pc[p] = "append"
    /\ visited' = [visited EXCEPT ![p] = @ \cup {arg[p]}]
    /\ written' = [written EXCEPT ![arg[p]] = IF @ = Never THEN clock ELSE @]
    /\ mtime' = SecondOf(clock)
    /\ sameSecond' = IF arg[p] \in InFile THEN sameSecond
                     ELSE sameSecond \cup
                          {<<q, arg[p]>> : q \in {q \in Proc : timestamp[q] = SecondOf(clock)}}
    /\ Goto(p, "restat")
    /\ UNCHANGED <<clock, sem, op, arg, timestamp, lastVerify, faults, lost, interrupted>>

(* fopen failed: the message is marked in memory alone.                    *)
CannotAppend(p) ==
    /\ pc[p] = "append"
    /\ visited' = [visited EXCEPT ![p] = @ \cup {arg[p]}]
    /\ Goto(p, "unlock")
    /\ UNCHANGED <<clock, shared, op, arg, timestamp, lastVerify, sameSecond, faults, lost, interrupted>>

Restat(p) ==
    /\ pc[p] = "restat"
    /\ timestamp' = [timestamp EXCEPT ![p] = mtime]
    /\ Goto(p, "unlock")
    /\ UNCHANGED <<clock, shared, op, arg, visited, lastVerify, sameSecond, faults, lost, interrupted>>

EndCall(p) == /\ op' = [op EXCEPT ![p] = "none"]
              /\ arg' = [arg EXCEPT ![p] = NoMsgId]

(* Variant: the semaphore is not posted.                                   *)
UnlockForgets(p) ==
    /\ pc[p] = "unlock"
    /\ EndCall(p)
    /\ Goto(p, "idle")
    /\ UNCHANGED <<clock, shared, visited, timestamp, lastVerify, sameSecond, faults, lost, interrupted>>

Unlock(p) ==
    /\ pc[p] = "unlock"
    /\ sem' = sem + 1
    /\ EndCall(p)
    /\ Goto(p, "idle")
    /\ UNCHANGED <<clock, written, mtime, visited, timestamp, lastVerify, sameSecond, faults, lost, interrupted>>

(* The browser ends, by its user or not, and is started again.             *)
Die(p) ==
    /\ faults < MaxFaults
    /\ faults' = faults + 1
    /\ lost' = (lost \/ pc[p] \in Inside)
    /\ visited' = [visited EXCEPT ![p] = {}]
    /\ timestamp' = [timestamp EXCEPT ![p] = 0]
    /\ lastVerify' = [lastVerify EXCEPT ![p] = -Grace]
    /\ op' = [op EXCEPT ![p] = "preload"]
    /\ arg' = [arg EXCEPT ![p] = NoMsgId]
    /\ sameSecond' = {s \in sameSecond : s[1] # p}
    /\ Goto(p, "lock")
    /\ UNCHANGED <<clock, shared, interrupted>>

Step(p) == \/ Lock(p) \/ NothingToStat(p) \/ StatNewer(p) \/ StatSame(p) \/ Read(p)
           \/ AppendVisited(p) \/ CannotAppend(p) \/ Restat(p) \/ Unlock(p)

VisitedNext ==
    \/ Tick
    \/ \E p \in Proc : \/ Step(p) \/ LockInterrupted(p) \/ Die(p)
                       \/ \E m \in MsgId : WasVisited(p, m) \/ MarkVisited(p, m)

VisitedSpec == VisitedInit /\ [][VisitedNext]_visitedVars

(* A browser goes on with a call it has begun, and sem_wait does not pass  *)
(* over a caller for ever: the others return to their users in between.    *)
FairSpec == /\ VisitedSpec
            /\ \A p \in Proc : WF_visitedVars(Step(p)) /\ SF_visitedVars(Lock(p))
-----------------------------------------------------------------------------
(* When p can answer "not visited": from memory, or having looked.         *)
CanAnswer(p) == \/ pc[p] = "idle" /\ InGrace(p)
                \/ pc[p] = "unlock" /\ op[p] = "was"

(* What a browser has missed it gets when it next looks at the file, which *)
(* is newer then than what it knows.  The one exception are messages       *)
(* written in a second in which it had already looked at the file: those   *)
(* it may miss as long as nobody else writes.  It takes the semaphore to   *)
(* hold, which it no longer does once a signal has interrupted a wait.     *)
MissedOnlySameSecond == VisitedTypeOK /\
    \A p \in Proc : pc[p] \notin {"read", "restat"} /\ ~interrupted =>
        \A m \in InFile \ visited[p] :
            timestamp[p] < mtime \/ <<p, m>> \in sameSecond

(* A browser that was not looking in that second is never more than Grace  *)
(* behind the others.                                                      *)
StaleAtMostGrace ==
    \A p \in Proc : CanAnswer(p) /\ ~interrupted =>
        \A m \in InFile \ visited[p] :
            clock - written[m] < Grace \/ <<p, m>> \in sameSecond

(* A call waits for ever only if a browser died with the semaphore taken.  *)
CallsReturn == \A p \in Proc : pc[p] # "idle" ~> (pc[p] = "idle" \/ lost)

(* NEWS: the list is not checked for external changes on every query, half *)
(* a second of grace time excepted.                                        *)
HalfSecondGrace ==
    \A p \in Proc : CanAnswer(p) =>
        \A m \in InFile \ visited[p] : clock - written[m] < Grace
=============================================================================
