------------------------------ MODULE Browser ------------------------------
(***************************************************************************)
(* uat-tbrowser: the keys of Browser::Entry, what each does to the list of *)
(* messages, the message shown and the history of articles, and opening    *)
(* another archive or starting again.                                      *)
(*                                                                         *)
(* Of the message shown, only which it is and whether it has a window; of  *)
(* the windows, the rows the list has.  Dialogs and the views of search,   *)
(* galaxy, charts and text come down to what they call when they end.      *)
(***************************************************************************)
EXTENDS ThreadRows

CONSTANTS Archives,     \* the archives that can be opened
          Saved,        \* per archive, what its history file may hold (<<>>: no file);
                        \* it may be from when the archive had more messages
          HistorySize,  \* capacity of the history
          FullRows,     \* rows of the list when it has the height of the screen
          SplitRows     \* rows of the list above the message

ASSUME BrowserAssumption ==
    /\ \A a \in Archives : IsArchive(a)
    /\ \A a \in Archives : \A saved \in Saved[a] :
           /\ saved \in Seq(Nat) /\ Len(saved) <= HistorySize
           /\ \A i \in 1..(Len(saved) - 1) : saved[i] # saved[i + 1]
    /\ HistorySize \in Nat \ {0}
    /\ FullRows \subseteq Nat \ {0} /\ SplitRows \subseteq Nat \ {0}

NotShown == -1

VARIABLES archive,
          tree,        \* m_tree of ThreadView
          view,        \* top, bottom and cursor of ThreadView
          rows,        \* lines of its window that hold messages
          mview,       \* MessageView: the message and whether the view is active
          history,     \* m_articleHistory
          historyIdx   \* m_historyIdx, counted from 0

list == <<tree, view, rows>>
past == <<history, historyIdx>>
vars == <<archive, list, mview, past>>

TypeOK ==
    /\ archive \in Archives
    /\ DOMAIN tree.expanded = Msg(archive)
    /\ view.top \in Int /\ view.bottom \in Int /\ view.cursor \in Int
    /\ rows \in FullRows \cup SplitRows
    /\ mview \in [shown : Msg(archive) \cup {NotShown}, active : BOOLEAN]
    /\ history \in Seq(Nat) /\ Len(history) <= HistorySize
    /\ historyIdx \in -1..(HistorySize - 1)

(* The heights Resize may give the list: beside the message it keeps the   *)
(* height of the screen.                                                   *)
RowsOf(active) == IF active THEN FullRows \cup SplitRows ELSE FullRows

(* Outside of this, assertions of GetNext and GetPrev fail, or the archive *)
(* is read beyond its tables: nothing more is said of the program.         *)
InRange == /\ view.top \in Msg(archive) /\ view.cursor \in Msg(archive)
           /\ view.bottom \in 1..Count(archive)
-----------------------------------------------------------------------------
(* ring_buffer::push_back: a full buffer loses its first element.          *)
PushBack(seq, m) == IF Len(seq) = HistorySize THEN Append(Tail(seq), m) ELSE Append(seq, m)

(* Browser::SwitchToMessage, with the tree and view it leaves.             *)
SwitchToMessage(a, t, n, v, m) ==
    LET root == GetRoot(a, m)
        t1   == IF m \in Msg(a) /\ m # root /\ CanExpand(a, root) /\ ~t.expanded[root]
                THEN Expand(a, t, root, TRUE)
                ELSE t
    IN  [tree |-> t1, view |-> FocusOn(a, t1.expanded, n, v, m)]

Redraw(t) == view' = Draw(archive, t.expanded, rows, view)

(* The list when an archive is opened: reset, then on the message the      *)
(* history ends with.                                                      *)
Reopen(a, saved, n, bottom) ==
    LET fresh == [top |-> 0, bottom |-> bottom, cursor |-> 0]
    IN  IF saved = <<>> THEN [tree |-> NewTree(a), view |-> fresh]
        ELSE SwitchToMessage(a, NewTree(a), n, fresh,
                             Min({Count(a) - 1, saved[Len(saved)]}))

(* The constructor of Browser fills the window first, SwitchArchive does   *)
(* not.                                                                    *)
Start(a, saved, n) == Reopen(a, saved, n, RowsEnd(a, NewTree(a).expanded, n, 0))
Switch(a, saved, n) == Reopen(a, saved, n, 0)

(* Variant: the position is left where it was in the other history.        *)
RememberUnplaced(saved) == history' = saved /\ UNCHANGED historyIdx

Remember(saved) == history' = saved /\ historyIdx' = Len(saved) - 1

Init == /\ archive \in Archives
        /\ history \in Saved[archive] /\ historyIdx = Len(history) - 1
        /\ rows \in FullRows
        /\ tree = Start(archive, history, rows).tree
        /\ view = Start(archive, history, rows).view
        /\ mview = [shown |-> NotShown, active |-> FALSE]
-----------------------------------------------------------------------------
(* Browser::MoveOrEnterAction, from the tree t and the view v: the message *)
(* under the cursor is shown, which marks it read; its thread is opened    *)
(* and it goes into the history.  A message already shown only scrolls.    *)
MoveOrEnter(t, v) ==
    LET c   == v.cursor
        new == mview.shown # c
        t1  == IF /\ new
                  /\ CanExpand(archive, c) /\ ~t.expanded[c]
                  /\ archive.parent[c] = NoParent
               THEN Expand(archive, t, c, TRUE)
               ELSE t
    IN  /\ mview' = [shown |-> c, active |-> TRUE]
        /\ rows' \in IF mview.active THEN {rows} ELSE RowsOf(TRUE)
        /\ tree' = t1
        /\ LET v1 == IF mview.active THEN v ELSE Resize(archive, t.expanded, rows', v)
           IN  view' = IF new THEN FocusOn(archive, t1.expanded, rows', v1, c) ELSE v1
        /\ IF new /\ (history = <<>> \/ history[Len(history)] # c)
           THEN /\ history' = PushBack(history, c)
                /\ historyIdx' = Len(history') - 1
           ELSE UNCHANGED past
        /\ UNCHANGED archive

Enter == MoveOrEnter(tree, view)

(* Space at the end of the message: on to the next one.                    *)
EnterNext ==
    /\ mview.active /\ mview.shown = view.cursor
    /\ MoveOrEnter(tree, MoveCursorDown(archive, tree.expanded, rows, view))

(* OpenMessage: from a query for a message id, and from a search.          *)
OpenMessage(m) ==
    LET to == SwitchToMessage(archive, tree, rows, view, m)
    IN  MoveOrEnter(to.tree, to.view)

(* MessageView::Close and the Resize that follows it.                      *)
CloseMessage ==
    /\ mview.active
    /\ mview' = [mview EXCEPT !.active = FALSE]
    /\ rows' \in RowsOf(FALSE)
    /\ view' = Resize(archive, tree.expanded, rows', view)
    /\ UNCHANGED <<archive, tree, past>>

(* 'e': the message is closed and the whole thread collapsed.              *)
CollapseThread ==
    LET root == GetRoot(archive, view.cursor)
    IN  /\ mview' = [mview EXCEPT !.active = FALSE]
        /\ rows' \in IF mview.active THEN RowsOf(FALSE) ELSE {rows}
        /\ tree' = Collapse(tree, root)
        /\ LET v == IF mview.active THEN Resize(archive, tree.expanded, rows', view) ELSE view
           IN  view' = FocusOn(archive, tree'.expanded, rows', v, root)
        /\ UNCHANGED <<archive, past>>

(* ^L, a resized terminal, another way to split the screen.                *)
ResizeTerminal ==
    /\ rows' \in RowsOf(mview.active)
    /\ view' = Resize(archive, tree.expanded, rows', view)
    /\ UNCHANGED <<archive, tree, mview, past>>
-----------------------------------------------------------------------------
Moves(v) == /\ view' = v
            /\ UNCHANGED <<archive, tree, rows, mview, past>>

CursorUp   == Moves(MoveCursorUp(archive, tree.expanded, rows, view))
CursorDown == Moves(MoveCursorDown(archive, tree.expanded, rows, view))
PageUp     == Moves(PageBackward(archive, tree.expanded, rows, view))
PageDown   == Moves(PageForward(archive, tree.expanded, rows, view))
Home       == Moves(MoveCursorTop(archive, tree.expanded, rows, view))
End        == Moves(MoveCursorBottom(archive, tree.expanded, rows, view))

(* 'd': the message is marked read; which others are is anything.          *)
NextUnread ==
    \E visited \in SUBSET Msg(archive) :
        /\ view.cursor \in visited
        /\ Moves(GoNextUnread(archive, tree.expanded, rows, view, visited))

Parent ==
    /\ archive.parent[view.cursor] # NoParent
    /\ Moves(FocusOn(archive, tree.expanded, rows, view, archive.parent[view.cursor]))

(* 'x', also on a message without children.                                *)
Toggle ==
    LET c == view.cursor
    IN  /\ tree' = IF tree.expanded[c] THEN Collapse(tree, c)
                   ELSE Expand(archive, tree, c, archive.parent[c] = NoParent)
        /\ Redraw(tree')
        /\ UNCHANGED <<archive, rows, mview, past>>

(* The left and right arrows, where they are not Parent or CursorDown.     *)
Left ==
    LET c == view.cursor
    IN  IF CanExpand(archive, c) /\ tree.expanded[c]
        THEN /\ tree' = Collapse(tree, c)
             /\ Redraw(tree')
             /\ UNCHANGED <<archive, rows, mview, past>>
        ELSE Parent

Right ==
    LET c == view.cursor
    IN  IF CanExpand(archive, c) /\ ~tree.expanded[c]
        THEN /\ tree' = Expand(archive, tree, c, archive.parent[c] = NoParent)
             /\ Redraw(tree')
             /\ UNCHANGED <<archive, rows, mview, past>>
        ELSE CursorDown

Jump(m) ==
    LET to == SwitchToMessage(archive, tree, rows, view, m)
    IN  /\ tree' = to.tree /\ view' = to.view
        /\ UNCHANGED <<archive, rows, mview>>

(* '#': the number asked for is cut to the archive.                        *)
GoToIndex(m) == Jump(m) /\ UNCHANGED past

(* The history keys go to the message as the history has it, which the     *)
(* archive may not have: only the last one is cut, by Reopen.              *)
HistoryBack ==
    /\ history # <<>> /\ historyIdx > 0
    /\ historyIdx' = historyIdx - 1
    /\ Jump(history[historyIdx' + 1])
    /\ UNCHANGED history

HistoryForward ==
    /\ history # <<>> /\ historyIdx < Len(history) - 1
    /\ historyIdx' = historyIdx + 1
    /\ Jump(history[historyIdx' + 1])
    /\ UNCHANGED history
-----------------------------------------------------------------------------
(* SwitchArchive, from the dialogs that open archives.  The history is     *)
(* written under the name of the archive left, and read for the new one.   *)
OpenArchive(a) ==
    \E saved \in IF a = archive THEN {history} ELSE Saved[a] :
        LET at == Switch(a, saved, rows)
        IN  /\ archive' = a
            /\ tree' = at.tree
            /\ rows' \in RowsOf(FALSE)
            /\ view' = Resize(a, at.tree.expanded, rows', at.view)
            /\ mview' = [shown |-> NotShown, active |-> FALSE]
            /\ Remember(saved)

(* The same followed by SwitchToMessage: a message of another archive, from*)
(* the galaxy.                                                             *)
Warp(a, m) ==
    \E saved \in IF a = archive THEN {history} ELSE Saved[a] :
        LET at == Switch(a, saved, rows)
        IN  /\ archive' = a
            /\ rows' \in RowsOf(FALSE)
            /\ LET to == SwitchToMessage(a, at.tree, rows',
                                         Resize(a, at.tree.expanded, rows', at.view), m)
               IN  tree' = to.tree /\ view' = to.view
            /\ mview' = [shown |-> NotShown, active |-> FALSE]
            /\ Remember(saved)

(* The user quits and starts again with the archive last open.             *)
Restart ==
    /\ ~mview.active
    /\ rows' \in FullRows
    /\ LET at == Start(archive, history, rows')
       IN  tree' = at.tree /\ view' = at.view
    /\ mview' = [shown |-> NotShown, active |-> FALSE]
    /\ Remember(history)
    /\ UNCHANGED archive

Next ==
    /\ InRange
    /\ \/ Enter \/ EnterNext \/ CloseMessage \/ CollapseThread \/ ResizeTerminal
       \/ CursorUp \/ CursorDown \/ PageUp \/ PageDown \/ Home \/ End
       \/ NextUnread \/ Parent \/ Toggle \/ Left \/ Right
       \/ HistoryBack \/ HistoryForward \/ Restart
       \/ \E m \in Msg(archive) : GoToIndex(m) \/ OpenMessage(m)
       \/ \E a \in Archives : OpenArchive(a) \/ \E m \in Msg(a) : Warp(a, m)

Spec == Init /\ [][Next]_vars
-----------------------------------------------------------------------------
(* The cursor is on a row of the window, and the window starts on a row.   *)
OnScreen == /\ view.cursor \in view.top..(view.bottom - 1)
            /\ HasRow(archive, tree.expanded, view.cursor)
            /\ HasRow(archive, tree.expanded, view.top)

Jumps == \/ HistoryBack \/ HistoryForward
         \/ \E m \in Msg(archive) : GoToIndex(m) \/ OpenMessage(m)

(* A history key leads to a message the archive does not have.             *)
JumpsPast == (HistoryBack \/ HistoryForward) /\ history[historyIdx' + 1] \notin Msg(archive)

(* A message is gone to after its thread was expanded, when FocusOn still  *)
(* goes by the bottom from before, or it is below a collapsed one.         *)
LosesCursor == \/ Restart
               \/ \E a \in Archives : \E m \in Msg(a) : Warp(a, m)
               \/ JumpsPast
               \/ /\ Jumps
                  /\ tree' # tree \/ ~HasRow(archive, tree'.expanded, view'.cursor)

(* In a window of two rows or more no key takes the cursor off the screen, *)
(* whatever it expands, collapses, resizes or scrolls, but these jumps.    *)
StaysOnScreen == [][OnScreen /\ rows > 1 /\ rows' > 1 => OnScreen' \/ LosesCursor]_vars

(* The list leaves the archive (reads beyond its tables, assertions that   *)
(* fail) only when the cursor was off the screen before, or a history key  *)
(* leads to a message the archive does not have.                           *)
LostOffScreenOnly == [][~InRange' => ~OnScreen \/ JumpsPast]_vars

(* However threads were expanded and collapsed, a message of a thread that *)
(* was ever opened has one line per level, each going on exactly where a   *)
(* sibling follows, and the whole thread is drawn equally densely.         *)
TreeRight == TypeOK /\
    \A m \in Msg(archive) :
        LET root   == GetRoot(archive, m)
            levels == {k \in {m} \cup archive.above[m] : archive.parent[k] # NoParent}
        IN  IF ~tree.valid[root] THEN tree.line[m] = <<>> /\ tree.condensed[m] = 0
            ELSE /\ tree.line[m] = Lines(archive, levels)
                 /\ tree.condensed[m] = IF Depth(archive, root) > CondensedDepthThreshold
                                        THEN CondensedValue(Depth(archive, root))
                                        ELSE 0

(* What is left of a history file of the archive, then messages opened     *)
(* since, which the archive has.                                           *)
ReadThenOpened ==
    \E saved \in Saved[archive] : \E kept \in 0..Len(history) :
        /\ kept <= Len(saved)
        /\ \A i \in 1..kept : history[i] = saved[Len(saved) - kept + i]
        /\ \A i \in (kept + 1)..Len(history) : history[i] \in Msg(archive)

(* The history is of the archive that is open: messages it does not have   *)
(* are only what a history file had at the end.  No message is in it twice *)
(* in a row, it ends with the message shown, and its position is one of    *)
(* it: also after the oldest was dropped, another archive opened, or a     *)
(* restart.                                                                *)
HistoryRight ==
    /\ ReadThenOpened
    /\ \A i \in 1..(Len(history) - 1) : history[i] # history[i + 1]
    /\ mview.shown # NotShown => history # <<>> /\ Last(history) = mview.shown
    /\ historyIdx \in (IF history = <<>> THEN {-1} ELSE 0..(Len(history) - 1))

=============================================================================
