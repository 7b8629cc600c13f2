----------------------------- MODULE ThreadRows -----------------------------
(***************************************************************************)
(* The list of messages of uat-tbrowser: which messages have a row         *)
(* (ThreadTree.cpp), and the window that moves over the rows               *)
(* (ThreadView.cpp).                                                       *)
(*                                                                         *)
(* Messages have the numbers uat-sort gives them: the thread below m is    *)
(* m .. m + total[m] - 1.  A message has a row when everything above it is *)
(* expanded.  The window shows the rows from top up to the one before      *)
(* bottom; the cursor is a message.                                        *)
(***************************************************************************)
EXTENDS Integers, Sequences, SequencesExt, FiniteSetsExt

CONSTANTS CondensedDepthThreshold, CondensedStep, CondensedMax  \* ThreadData.hpp

ASSUME CondensedAssumption == /\ CondensedDepthThreshold \in Nat \ {0}
                              /\ CondensedStep \in Nat \ {0}
                              /\ CondensedMax \in Nat \ {0}

NoParent == -1

(* Where GetNext and GetPrev go when their assertions fail.                *)
Fault == -1

(* An archive: parent and total as conndata has them, and above, the       *)
(* messages GetParent leads to from each.                                  *)
Msg(archive) == DOMAIN archive.parent
Count(archive) == Cardinality(Msg(archive))

Thread(archive, m) == m..(m + archive.total[m] - 1)
Children(archive, m) == {c \in Msg(archive) : archive.parent[c] = m}

IsArchive(archive) ==
    /\ Msg(archive) = 0..(Count(archive) - 1) /\ Count(archive) \in Nat \ {0}
    /\ \A m \in Msg(archive) :
           /\ archive.total[m] \in Nat \ {0} /\ Thread(archive, m) \subseteq Msg(archive)
           /\ \A p \in archive.above[m] : Thread(archive, m) \subseteq Thread(archive, p)
           /\ archive.above[m] = {p \in Msg(archive) : p # m /\ m \in Thread(archive, p)}
           /\ archive.parent[m] = IF archive.above[m] = {} THEN NoParent ELSE Max(archive.above[m])

GetRoot(archive, m) == Min({m} \cup archive.above[m])
CanExpand(archive, m) == archive.total[m] > 1
-----------------------------------------------------------------------------
(* ThreadTree: per message, whether its children have rows, whether its    *)
(* tree lines are prepared, the lines left of it from the outermost level  *)
(* inwards (TRUE when the line goes on below), and how densely a deep      *)
(* thread is drawn.                                                        *)
NewTree(archive) ==
    [expanded  |-> [m \in Msg(archive) |-> FALSE],
     valid     |-> [m \in Msg(archive) |-> FALSE],
     line      |-> [m \in Msg(archive) |-> <<>>],
     condensed |-> [m \in Msg(archive) |-> 0]]

(* One line per message of on, TRUE where a later sibling follows.         *)
Lines(archive, on) ==
    LET level(j) == CHOOSE m \in on : Cardinality({k \in on : k < m}) = j - 1
    IN  [j \in 1..Cardinality(on) |->
            \E s \in Children(archive, archive.parent[level(j)]) : s > level(j)]

(* Levels of the thread below m.                                           *)
Depth(archive, m) ==
    1 + Max({Cardinality(archive.above[d]) : d \in Thread(archive, m)})
      - Cardinality(archive.above[m])

CondensedValue(depth) ==
    Min({CondensedMax,
         (depth - CondensedDepthThreshold + CondensedStep - 1) \div CondensedStep})

Condense(archive, tree, m, depth) ==
    IF depth > CondensedDepthThreshold /\ tree.condensed[m] = 0
    THEN [tree EXCEPT !.condensed = [k \in Msg(archive) |->
             IF k \in Thread(archive, m) THEN CondensedValue(depth) ELSE @[k]]]
    ELSE tree

(* Variant: the lines of children are added each time a message is         *)
(* expanded.                                                               *)
ExpandImplAgain(archive, tree, m, recursive) ==
    LET opened == IF recursive THEN Thread(archive, m) ELSE {m}
        fresh  == {c \in Msg(archive) : archive.parent[c] \in opened}
        added(k) == Lines(archive, fresh \cap ({k} \cup archive.above[k]))
    IN  [tree EXCEPT
            !.expanded = [k \in Msg(archive) |-> @[k] \/ k \in opened],
            !.valid    = [k \in Msg(archive) |-> @[k] \/ k \in opened \cup fresh],
            !.line     = [k \in Msg(archive) |-> @[k] \o added(k)]]

(* A child is given its line, and everything below it with it, when its    *)
(* parent is expanded for the first time; outer levels come first.         *)
ExpandImpl(archive, tree, m, recursive) ==
    LET opened == IF recursive THEN Thread(archive, m) ELSE {m}
        fresh  == {c \in Msg(archive) : archive.parent[c] \in opened /\ ~tree.valid[c]}
        added(k) == Lines(archive, fresh \cap ({k} \cup archive.above[k]))
    IN  [tree EXCEPT
            !.expanded = [k \in Msg(archive) |-> @[k] \/ k \in opened],
            !.valid    = [k \in Msg(archive) |-> @[k] \/ k \in opened \cup fresh],
            !.line     = [k \in Msg(archive) |-> @[k] \o added(k)]]

Expand(archive, tree, m, recursive) ==
    Condense(archive, ExpandImpl(archive, tree, m, recursive), m,
             IF recursive THEN Depth(archive, m) ELSE 1)

Collapse(tree, m) == [tree EXCEPT !.expanded[m] = FALSE]
-----------------------------------------------------------------------------
(* ThreadView.  v is its top, bottom and cursor; e tells the expanded      *)
(* messages, rows the lines of the window for messages.                    *)
HasRow(archive, e, m) == \A p \in archive.above[m] : e[p]

GetNext(archive, e, i) ==
    IF i \notin Msg(archive) THEN Fault
    ELSE IF e[i] THEN i + 1 ELSE i + archive.total[i]

GetPrev(archive, e, i) ==
    IF i - 1 \notin Msg(archive) THEN Fault
    ELSE LET collapsed == {p \in archive.above[i - 1] : ~e[p]}
         IN  IF collapsed = {} THEN i - 1 ELSE Min(collapsed)

(* Where the rows of a window that starts at top end.                      *)
RowsEnd(archive, e, rows, top) ==
    LET row[k \in 0..rows] ==
            IF k = 0 THEN top
            ELSE LET last == row[k - 1]
                 IN  IF k > 1 /\ last >= Count(archive) THEN last
                     ELSE GetNext(archive, e, last)
    IN  row[rows]

Draw(archive, e, rows, v) == [top    |-> v.top,
                              bottom |-> RowsEnd(archive, e, rows, v.top),
                              cursor |-> v.cursor]

ScrollDown(archive, e, v) == [v EXCEPT !.top    = GetNext(archive, e, @),
                                       !.bottom = GetNext(archive, e, @)]

(* Variant: the window may stay above the cursor.                          *)
ResizeUnscrolled(archive, e, rows, v) == Draw(archive, e, rows, v)

Resize(archive, e, rows, v) ==
    LET scroll[k \in 0..Count(archive)] ==
            IF k = 0 THEN Draw(archive, e, rows, v)
            ELSE LET w == scroll[k - 1]
                 IN  IF w.cursor >= w.bottom THEN ScrollDown(archive, e, w) ELSE w
    IN  Draw(archive, e, rows, scroll[Count(archive)])

(* SetCursor, then FocusOn.  The window is scrolled by one row when the    *)
(* cursor is in its last row and there are more.                           *)
FocusOn(archive, e, rows, v, m) ==
    LET top    == IF m < v.top \/ m >= v.bottom THEN m ELSE v.top
        bottom == RowsEnd(archive, e, rows, top)
        there  == [top |-> top, bottom |-> bottom, cursor |-> m]
    IN  Draw(archive, e, rows,
             IF bottom # Count(archive) /\ m = GetPrev(archive, e, bottom)
             THEN ScrollDown(archive, e, there)
             ELSE there)

MoveCursorDown(archive, e, rows, v) ==
    LET next == GetNext(archive, e, v.cursor)
        on   == [v EXCEPT !.cursor = next]
    IN  Draw(archive, e, rows,
             IF next = Count(archive) THEN v
             ELSE IF next = v.bottom THEN ScrollDown(archive, e, on)
             ELSE on)

MoveCursorUp(archive, e, rows, v) ==
    LET up == GetPrev(archive, e, v.top)
    IN  Draw(archive, e, rows,
             IF v.cursor = 0 THEN v
             ELSE IF v.cursor = v.top
                  THEN [top |-> up, bottom |-> GetPrev(archive, e, v.bottom), cursor |-> up]
             ELSE [v EXCEPT !.cursor = GetPrev(archive, e, @)])

(* Variant: the page goes on past the end of the archive.                  *)
PageForwardPast(archive, e, rows, v) ==
    LET page[k \in 0..(rows - 1)] ==
            IF k = 0 THEN v
            ELSE LET w == page[k - 1]
                 IN  [top    |-> GetNext(archive, e, w.top),
                      bottom |-> GetNext(archive, e, w.bottom),
                      cursor |-> GetNext(archive, e, w.cursor)]
    IN  Draw(archive, e, rows, page[rows - 1])

(* All three go together, row by row, until the window meets an end of the *)
(* archive.                                                                *)
PageForward(archive, e, rows, v) ==
    LET page[k \in 0..(rows - 1)] ==
            IF k = 0 THEN v
            ELSE LET w == page[k - 1]
                 IN  IF w.bottom >= Count(archive) THEN w
                     ELSE [top    |-> GetNext(archive, e, w.top),
                           bottom |-> GetNext(archive, e, w.bottom),
                           cursor |-> GetNext(archive, e, w.cursor)]
    IN  Draw(archive, e, rows, page[rows - 1])

PageBackward(archive, e, rows, v) ==
    LET page[k \in 0..(rows - 1)] ==
            IF k = 0 THEN v
            ELSE LET w == page[k - 1]
                 IN  IF w.top <= 0 THEN w
                     ELSE [top    |-> GetPrev(archive, e, w.top),
                           bottom |-> GetPrev(archive, e, w.bottom),
                           cursor |-> GetPrev(archive, e, w.cursor)]
    IN  Draw(archive, e, rows, page[rows - 1])

MoveCursorTop(archive, e, rows, v) == Draw(archive, e, rows, [v EXCEPT !.cursor = v.top])
MoveCursorBottom(archive, e, rows, v) ==
    Draw(archive, e, rows, [v EXCEPT !.cursor = GetPrev(archive, e, v.bottom)])

(* The first row below the cursor that has not been read, or the last row. *)
GoNextUnread(archive, e, rows, v, visited) ==
    LET land[i \in 0..Count(archive)] ==
            IF i = Count(archive) \/ i \notin visited THEN i
            ELSE land[GetNext(archive, e, i)]
        at == land[GetNext(archive, e, v.cursor)]
        to == IF at = Count(archive) THEN GetPrev(archive, e, at) ELSE at
    IN  FocusOn(archive, e, rows, v, to)
=============================================================================
