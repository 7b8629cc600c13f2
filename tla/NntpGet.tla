------------------------------ MODULE NntpGet ------------------------------
(***************************************************************************)
(* uat-nntp-get: sessions with a news server.  A session asks for the      *)
(* article after the last one the user has, then goes on with NEXT, and    *)
(* names the files it writes by counting, not by the numbers the server    *)
(* gives.  Between any two commands the server may receive an article or   *)
(* expire one.  After a session the user writes the number it printed into *)
(* the input file (man page: "the last message which you have").           *)
(***************************************************************************)
EXTENDS Integers, FiniteSets, FiniteSetsExt

CONSTANTS MaxArticle,  \* bound: article numbers the server gives out
          MaxSessions  \* bound: sessions

ASSUME NewsAssumption == MaxArticle \in Nat \ {0} /\ MaxSessions \in Nat

VARIABLES server,   \* the numbers of the articles the server has
          newest,   \* the last number it has given out
          current,  \* its current article number
          session,  \* where the session is: "no", "first", "next" or "article"
          article,  \* the number in the name of the file to write next
          last,     \* lastarticle in the input file
          file,     \* the files written: file[name] is the number of the article in it
          sessions  \* sessions so far, at most MaxSessions

newsVars == <<server, newest, current, session, article, last, file, sessions>>

Article == 1..MaxArticle

NewsTypeOK ==
    /\ server \subseteq 1..newest /\ newest \in 0..MaxArticle
    /\ current \in 0..MaxArticle
    /\ session \in {"no", "first", "next", "article"}
    /\ article \in 0..(MaxArticle + 1) /\ last \in 0..MaxArticle
    /\ DOMAIN file \subseteq Article /\ \A name \in DOMAIN file : file[name] \in Article
    /\ sessions \in 0..MaxSessions

NewsInit ==
    /\ newest \in {0, MaxArticle - 1} /\ server = 1..newest
    /\ current = 0 /\ session = "no" /\ article = 0
    /\ last = 0 /\ file = << >>
    /\ sessions = 0

(* The server's own steps.                                                 *)
Arrive == /\ newest < MaxArticle
          /\ newest' = newest + 1
          /\ server' = server \cup {newest + 1}
          /\ UNCHANGED <<current, session, article, last, file, sessions>>

Expire == /\ \E n \in server : server' = server \ {n}
          /\ UNCHANGED <<newest, current, session, article, last, file, sessions>>

(* GROUP is answered with 211, the article after the last one is asked for.*)
StartSession ==
    /\ session = "no" /\ sessions < MaxSessions
    /\ session' = "first" /\ sessions' = sessions + 1
    /\ article' = last + 1
    /\ UNCHANGED <<server, newest, current, last, file>>

(* ReceiveMessage: the file is written under the number counted.           *)
Receive(n) ==
    /\ file' = [k \in DOMAIN file \cup {article} |-> IF k = article THEN n ELSE file[k]]
    /\ current' = n
    /\ session' = "next"
    /\ UNCHANGED <<server, newest, last, sessions>>

(* The session is over; the user notes down what it printed.               *)
EndSession(printed) ==
    /\ session' = "no"
    /\ last' = printed
    /\ UNCHANGED <<server, newest, current, article, file, sessions>>

FirstArticle ==
    /\ session = "first"
    /\ IF article \in server
       THEN Receive(article) /\ article' = article + 1
       ELSE EndSession(last)   \* "no new messages"

(* Variant: what is printed is the number of the next file.                *)
NextArticlePrintsMore ==
    /\ session = "next"
    /\ LET later == {n \in server : n > current}
       IN  IF later = {}
           THEN EndSession(article)
           ELSE /\ current' = Min(later)
                /\ session' = "article"
                /\ UNCHANGED <<server, newest, article, last, file, sessions>>

(* NEXT, which goes to the next article the group still has.               *)
NextArticle ==
    /\ session = "next"
    /\ LET later == {n \in server : n > current}
       IN  IF later = {}
           THEN EndSession(article - 1)
           ELSE /\ current' = Min(later)
                /\ session' = "article"
                /\ UNCHANGED <<server, newest, article, last, file, sessions>>

GetArticle ==
    /\ session = "article"
    /\ IF current \in server
       THEN Receive(current) /\ article' = article + 1
       ELSE EndSession(article - 1)

SessionStep == FirstArticle \/ NextArticle \/ GetArticle
NewsNext == Arrive \/ Expire \/ StartSession \/ SessionStep
-----------------------------------------------------------------------------
(* What the user has on record as fetched was fetched: an article up to    *)
(* lastarticle that the server still has is in a file, and so is one the   *)
(* running session went past.  No file is ever written over by another     *)
(* article, though names fall behind the numbers of the server whenever an *)
(* article is missing from its group.                                      *)
NothingSkipped ==
    /\ \A n \in server :
          n <= last \/ (session \in {"next", "article"} /\ n < current)
             => \E name \in DOMAIN file : file[name] = n
    /\ \A name \in DOMAIN file : name <= file[name]
    /\ \A name \in DOMAIN file : name < article
=============================================================================
