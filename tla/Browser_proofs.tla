--------------------------- MODULE Browser_proofs ---------------------------
(***************************************************************************)
(* uat-tbrowser, for any archives, windows and capacity: the history of    *)
(* articles (HistoryAlwaysRight), the lines of the tree of threads         *)
(* (TreeAlwaysRight), and what the keys do to a cursor that is on the      *)
(* screen (CursorStaysOnScreen, ListLostOffScreenOnly).  And the list of   *)
(* messages visited, which all running browsers share, for any number of   *)
(* them (NextLookFindsIt, AnswersWithinGrace).                             *)
(***************************************************************************)
EXTENDS Browser, VisitedStore, FiniteSetTheorems, SequenceTheorems, WellFoundedInduction, TLAPS

(* What the program makes of a history.                                    *)
Written(h) == /\ h \in Seq(Nat) /\ Len(h) <= HistorySize
              /\ \A i \in 1..(Len(h) - 1) : h[i] # h[i + 1]

(* ReadThenOpened, of any archive and history.                             *)
ReadThen(a, h) ==
    \E saved \in Saved[a] : \E kept \in 0..Len(h) :
        /\ kept <= Len(saved)
        /\ \A i \in 1..kept : h[i] = saved[Len(saved) - kept + i]
        /\ \A i \in (kept + 1)..Len(h) : h[i] \in Msg(a)

Fits(a, h) == Written(h) /\ ReadThen(a, h)

IsView(v) == \E top, bottom, cursor : v = [top |-> top, bottom |-> bottom, cursor |-> cursor]

Placed(h, at) == at \in (IF h = <<>> THEN {-1} ELSE 0..(Len(h) - 1))

EndsShown == mview.shown # NotShown => history # <<>> /\ history[Len(history)] = mview.shown

(* HistoryRight, and what is under the cursor is a field of a record.      *)
IInv == /\ archive \in Archives
        /\ IsView(view)
        /\ mview \in [shown : Msg(archive) \cup {NotShown}, active : BOOLEAN]
        /\ Fits(archive, history) /\ Placed(history, historyIdx)
        /\ EndsShown
-----------------------------------------------------------------------------
(* Whatever moves the list ends with a record of its three numbers.        *)
LEMMA DrawView ==
    ASSUME NEW a, NEW e, NEW n, NEW v
    PROVE  IsView(Draw(a, e, n, v)) /\ Draw(a, e, n, v).cursor = v.cursor
BY DEF Draw, IsView

LEMMA FocusView ==
    ASSUME NEW a, NEW e, NEW n, NEW v, NEW m
    PROVE  IsView(FocusOn(a, e, n, v, m)) /\ FocusOn(a, e, n, v, m).cursor = m
<1> DEFINE top    == IF m < v.top \/ m >= v.bottom THEN m ELSE v.top
           bottom == RowsEnd(a, e, n, top)
           there  == [top |-> top, bottom |-> bottom, cursor |-> m]
           last   == IF bottom # Count(a) /\ m = GetPrev(a, e, bottom)
                     THEN ScrollDown(a, e, there) ELSE there
<1>1. FocusOn(a, e, n, v, m) = Draw(a, e, n, last)
  BY DEF FocusOn
<1> HIDE DEF top, bottom
<1>2. ScrollDown(a, e, there).cursor = m
  BY DEF ScrollDown
<1>3. last.cursor = m
  BY <1>2
<1> HIDE DEF last
<1> QED
  BY <1>1, <1>3, DrawView

LEMMA ResizeView ==
    ASSUME NEW a, NEW e, NEW n, NEW v PROVE IsView(Resize(a, e, n, v))
BY DrawView DEF Resize

LEMMA SwitchView ==
    ASSUME NEW a, NEW t, NEW n, NEW v, NEW m
    PROVE  /\ IsView(SwitchToMessage(a, t, n, v, m).view)
           /\ SwitchToMessage(a, t, n, v, m).view.cursor = m
<1> DEFINE t1 == IF m \in Msg(a) /\ m # GetRoot(a, m) /\ CanExpand(a, GetRoot(a, m))
                       /\ ~t.expanded[GetRoot(a, m)]
                 THEN Expand(a, t, GetRoot(a, m), TRUE) ELSE t
<1>1. SwitchToMessage(a, t, n, v, m) = [tree |-> t1, view |-> FocusOn(a, t1.expanded, n, v, m)]
  BY DEF SwitchToMessage
<1> HIDE DEF t1
<1> QED
  BY <1>1, FocusView

LEMMA ReopenView ==
    ASSUME NEW a, NEW saved, NEW n, NEW bottom PROVE IsView(Reopen(a, saved, n, bottom).view)
<1> DEFINE fresh == [top |-> 0, bottom |-> bottom, cursor |-> 0]
           m     == Min({Count(a) - 1, saved[Len(saved)]})
<1>1. Reopen(a, saved, n, bottom) = IF saved = <<>> THEN [tree |-> NewTree(a), view |-> fresh]
                                    ELSE SwitchToMessage(a, NewTree(a), n, fresh, m)
  BY DEF Reopen
<1>2. IsView(fresh)
  BY DEF IsView
<1> HIDE DEF fresh, m
<1> QED
  BY <1>1, <1>2, SwitchView

(* One row down from a message of the archive is a message, or stays.      *)
LEMMA DownInArchive ==
    ASSUME NEW a, IsArchive(a), NEW e, NEW n, NEW v, IsView(v), v.cursor \in Msg(a)
    PROVE  /\ IsView(MoveCursorDown(a, e, n, v))
           /\ MoveCursorDown(a, e, n, v).cursor \in Msg(a)
<1> DEFINE next == GetNext(a, e, v.cursor)
           on   == [v EXCEPT !.cursor = next]
           to   == IF next = Count(a) THEN v
                   ELSE IF next = v.bottom THEN ScrollDown(a, e, on) ELSE on
<1>1. MoveCursorDown(a, e, n, v) = Draw(a, e, n, to)
  BY DEF MoveCursorDown
<1>2. next # Count(a) => next \in Msg(a)
  <2>1. /\ Msg(a) = 0..(Count(a) - 1) /\ a.total[v.cursor] \in Nat \ {0}
        /\ v.cursor..(v.cursor + a.total[v.cursor] - 1) \subseteq Msg(a)
    BY DEF IsArchive, Thread
  <2>2. v.cursor \in Int
    BY <2>1
  <2>3. Count(a) \in Int
    BY DEF IsArchive
  <2> QED
    BY <2>1, <2>2, <2>3 DEF GetNext
<1>3. on = [top |-> v.top, bottom |-> v.bottom, cursor |-> next]
  <2> HIDE DEF next
  <2> PICK x, y, z : v = [top |-> x, bottom |-> y, cursor |-> z]
    BY DEF IsView
  <2> QED
    OBVIOUS
<1>4. ScrollDown(a, e, on).cursor = next
  BY <1>3 DEF ScrollDown
<1>5. to.cursor \in Msg(a)
  BY <1>2, <1>3, <1>4
<1> HIDE DEF to
<1> QED
  BY <1>1, <1>5, DrawView
-----------------------------------------------------------------------------
(* The ring buffer: a message other than the last one is put at the end.   *)
LEMMA PushWritten ==
    ASSUME NEW h, Written(h), NEW m \in Nat, h = <<>> \/ h[Len(h)] # m
    PROVE  /\ Written(PushBack(h, m)) /\ PushBack(h, m) # <<>>
           /\ PushBack(h, m)[Len(PushBack(h, m))] = m
           /\ Len(PushBack(h, m)) \in Nat \ {0}
<1>1. /\ h \in Seq(Nat) /\ Len(h) \in Nat /\ Len(h) <= HistorySize
      /\ \A i \in 1..(Len(h) - 1) : h[i] # h[i + 1]
  BY DEF Written
<1>2. HistorySize \in Nat /\ HistorySize >= 1
  BY BrowserAssumption
<1>3. CASE Len(h) # HistorySize
  <2> DEFINE g == Append(h, m)
  <2>1. /\ g \in Seq(Nat) /\ Len(g) = Len(h) + 1
        /\ \A i \in 1..Len(h) : g[i] = h[i]
        /\ g[Len(h) + 1] = m
    BY <1>1
  <2>2. PushBack(h, m) = g
    BY <1>3 DEF PushBack
  <2> HIDE DEF g
  <2>3. ASSUME NEW i \in 1..(Len(g) - 1) PROVE g[i] # g[i + 1]
    <3>1. CASE i = Len(h)
      <4>1. h # <<>> /\ g[i] = h[Len(h)] /\ g[i + 1] = m
        BY <1>1, <2>1, <3>1
      <4> QED
        BY <4>1
    <3>2. CASE i # Len(h)
      <4>1. i \in 1..(Len(h) - 1) /\ i \in 1..Len(h) /\ i + 1 \in 1..Len(h)
        BY <1>1, <2>1, <3>2
      <4>2. g[i] = h[i] /\ g[i + 1] = h[i + 1]
        BY <2>1, <4>1
      <4> QED
        BY <1>1, <4>1, <4>2
    <3> QED
      BY <3>1, <3>2
  <2>4. Len(g) <= HistorySize /\ g # <<>>
    BY <1>1, <1>2, <1>3, <2>1
  <2> QED
    BY <1>1, <2>1, <2>2, <2>3, <2>4 DEF Written
<1>4. CASE Len(h) = HistorySize
  <2> DEFINE f == Tail(h)
             g == Append(f, m)
  <2>1. h # <<>>
    BY <1>1, <1>2, <1>4
  <2>2. /\ f \in Seq(Nat) /\ Len(f) = Len(h) - 1
        /\ \A i \in 1..Len(f) : f[i] = h[i + 1]
    BY <1>1, <2>1
  <2> HIDE DEF f
  <2>3. /\ g \in Seq(Nat) /\ Len(g) = Len(h)
        /\ \A i \in 1..Len(f) : g[i] = f[i]
        /\ g[Len(h)] = m
    BY <1>1, <2>2
  <2>4. PushBack(h, m) = g
    BY <1>4 DEF PushBack, f
  <2> HIDE DEF g
  <2>5. ASSUME NEW i \in 1..(Len(g) - 1) PROVE g[i] # g[i + 1]
    <3>1. g[i] = h[i + 1]
      BY <1>1, <2>2, <2>3
    <3>2. CASE i + 1 = Len(h)
      BY <2>1, <2>3, <3>1, <3>2
    <3>3. CASE i + 1 # Len(h)
      <4>1. i + 1 \in 1..(Len(h) - 1) /\ i + 1 \in 1..Len(f)
        BY <1>1, <2>2, <2>3, <3>3
      <4>2. g[i + 1] = f[i + 1] /\ f[i + 1] = h[(i + 1) + 1]
        BY <2>2, <2>3, <4>1
      <4>3. h[i + 1] # h[(i + 1) + 1]
        BY <1>1, <4>1
      <4> QED
        BY <3>1, <4>2, <4>3
    <3> QED
      BY <3>2, <3>3
  <2>6. Len(g) \in Nat \ {0} /\ g # <<>>
    BY <1>1, <1>2, <1>4, <2>3
  <2> QED
    BY <1>1, <2>3, <2>4, <2>5, <2>6 DEF Written
<1> QED
  BY <1>3, <1>4

(* It takes the place of the oldest when the buffer is full.               *)
LEMMA PushRead ==
    ASSUME NEW a \in Archives, NEW h, Written(h), ReadThen(a, h), NEW m \in Msg(a)
    PROVE  ReadThen(a, PushBack(h, m))
<1>1. h \in Seq(Nat) /\ Len(h) \in Nat /\ HistorySize \in Nat /\ HistorySize >= 1
  BY BrowserAssumption DEF Written
<1>2. PICK saved \in Saved[a], kept \in 0..Len(h) :
          /\ kept <= Len(saved)
          /\ \A i \in 1..kept : h[i] = saved[Len(saved) - kept + i]
          /\ \A i \in (kept + 1)..Len(h) : h[i] \in Msg(a)
  BY DEF ReadThen
<1>len. Len(saved) \in Nat
  BY BrowserAssumption
<1> DEFINE g == PushBack(h, m)
<1>3. CASE Len(h) # HistorySize
  <2>1. g = Append(h, m)
    BY <1>3 DEF PushBack
  <2> HIDE DEF g
  <2>2. Len(g) = Len(h) + 1 /\ g[Len(h) + 1] = m /\ \A i \in 1..Len(h) : g[i] = h[i]
    BY <1>1, <2>1
  <2>3. \A i \in 1..kept : g[i] = saved[Len(saved) - kept + i]
    BY <1>1, <1>2, <2>2
  <2>4. \A i \in (kept + 1)..Len(g) : g[i] \in Msg(a)
    BY <1>1, <1>2, <2>2
  <2>5. kept \in 0..Len(g)
    BY <1>1, <2>2
  <2>6. ReadThen(a, g)
    BY <1>2, <2>3, <2>4, <2>5 DEF ReadThen
  <2> QED
    BY <2>6 DEF g
<1>4. CASE Len(h) = HistorySize
  <2> DEFINE f == Tail(h)
  <2>1. h # <<>>
    BY <1>1, <1>4
  <2>2. /\ f \in Seq(Nat) /\ Len(f) = Len(h) - 1
        /\ \A i \in 1..Len(f) : f[i] = h[i + 1]
    BY <1>1, <2>1
  <2>3. g = Append(f, m)
    BY <1>4 DEF PushBack
  <2> HIDE DEF f, g
  <2>4. Len(g) = Len(h) /\ g[Len(h)] = m /\ \A i \in 1..(Len(h) - 1) : g[i] = h[i + 1]
    BY <1>1, <2>2, <2>3
  <2>5. CASE kept = 0
    <3>1. \A i \in 1..Len(g) : g[i] \in Msg(a)
      BY <1>1, <1>2, <2>4, <2>5
    <3> QED
      BY <1>1, <1>2, <2>4, <2>5, <3>1 DEF ReadThen, g
  <2>6. CASE kept # 0
    <3> DEFINE left == kept - 1
    <3>1. left \in 0..Len(g) /\ left <= Len(saved)
      <4>1. kept \in Int /\ kept >= 1 /\ kept <= Len(h)
        BY <1>1, <2>6
      <4>2. left \in 0..Len(g) /\ left < kept
        BY <1>1, <2>4, <4>1
      <4> QED
        BY <1>len, <1>2, <4>1, <4>2
    <3>2. ASSUME NEW i \in 1..left PROVE g[i] = saved[Len(saved) - left + i]
      <4>1. i + 1 \in 1..kept /\ i \in 1..(Len(h) - 1)
        BY <1>1, <2>6
      <4>2. g[i] = saved[Len(saved) - kept + (i + 1)]
        BY <1>2, <2>4, <4>1
      <4> QED
        BY <1>len, <4>2
    <3>3. ASSUME NEW i \in (left + 1)..Len(g) PROVE g[i] \in Msg(a)
      <4>1. CASE i = Len(h)
        BY <2>4, <4>1
      <4>2. CASE i # Len(h)
        <5>1. i + 1 \in (kept + 1)..Len(h) /\ i \in 1..(Len(h) - 1)
          BY <1>1, <2>4, <2>6, <4>2
        <5> QED
          BY <1>2, <2>4, <5>1
      <4> QED
        BY <4>1, <4>2
    <3> HIDE DEF left
    <3> QED
      BY <1>2, <3>1, <3>2, <3>3 DEF ReadThen, g
  <2> QED
    BY <2>5, <2>6
<1> QED
  BY <1>3, <1>4

LEMMA PushFits ==
    ASSUME NEW a \in Archives, NEW h, Fits(a, h), NEW m \in Msg(a), h = <<>> \/ h[Len(h)] # m
    PROVE  /\ Fits(a, PushBack(h, m)) /\ PushBack(h, m) # <<>>
           /\ PushBack(h, m)[Len(PushBack(h, m))] = m
           /\ Len(PushBack(h, m)) \in Nat \ {0}
<1>1. m \in Nat
  BY BrowserAssumption DEF IsArchive
<1> QED
  BY <1>1, PushWritten, PushRead DEF Fits

(* A history as it was read.                                               *)
LEMMA SavedFits == ASSUME NEW a \in Archives, NEW saved \in Saved[a] PROVE Fits(a, saved)
<1>1. Written(saved) /\ Len(saved) \in Nat
  BY BrowserAssumption DEF Written
<1>2. \A i \in 1..Len(saved) : saved[i] = saved[Len(saved) - Len(saved) + i]
  BY <1>1
<1>3. \A i \in (Len(saved) + 1)..Len(saved) : saved[i] \in Msg(a)
  BY <1>1
<1>4. Len(saved) \in 0..Len(saved) /\ Len(saved) <= Len(saved)
  BY <1>1
<1>5. ReadThen(a, saved)
  BY <1>2, <1>3, <1>4 DEF ReadThen
<1> QED
  BY <1>1, <1>5 DEF Fits

(* MoveOrEnterAction on a message of the archive.                          *)
LEMMA EnterKeeps ==
    ASSUME IInv, NEW t, NEW v, IsView(v), v.cursor \in Msg(archive), MoveOrEnter(t, v)
    PROVE  IInv'
<1>1. /\ mview' = [shown |-> v.cursor, active |-> TRUE]
      /\ archive' = archive
      /\ IsView(view')
  BY FocusView, ResizeView DEF MoveOrEnter
<1>2. mview' \in [shown : Msg(archive) \cup {NotShown}, active : BOOLEAN]
  BY <1>1
<1>3. CASE mview.shown # v.cursor /\ (history = <<>> \/ history[Len(history)] # v.cursor)
  <2>1. history' = PushBack(history, v.cursor) /\ historyIdx' = Len(history') - 1
    BY <1>3 DEF MoveOrEnter
  <2>2. /\ Fits(archive, history') /\ history' # <<>> /\ Len(history') \in Nat \ {0}
        /\ history'[Len(history')] = v.cursor
    BY <1>3, <2>1, PushFits DEF IInv
  <2>3. Placed(history', historyIdx')
    BY <2>1, <2>2 DEF Placed
  <2> QED
    BY <1>1, <1>2, <2>2, <2>3 DEF IInv, EndsShown, IsView, Fits, Written, ReadThen, Placed
<1>4. CASE ~(mview.shown # v.cursor /\ (history = <<>> \/ history[Len(history)] # v.cursor))
  <2>1. UNCHANGED <<history, historyIdx>>
    BY <1>4 DEF MoveOrEnter, past
  <2>2. v.cursor # NotShown
    <3>1. IsArchive(archive)
      BY BrowserAssumption DEF IInv
    <3> QED
      BY <3>1 DEF IsArchive, NotShown
  <2>3. history # <<>> /\ history[Len(history)] = v.cursor
    BY <1>4, <2>2 DEF IInv, EndsShown
  <2> QED
    BY <1>1, <1>2, <2>1, <2>3 DEF IInv, EndsShown, IsView, Fits, Written, ReadThen, Placed
<1> QED
  BY <1>3, <1>4

(* Keys that leave the article and the history alone.                      *)
LEMMA ListKeeps ==
    ASSUME IInv, IsView(view'), UNCHANGED <<archive, history>>, mview'.shown = mview.shown,
           mview' \in [shown : Msg(archive) \cup {NotShown}, active : BOOLEAN],
           Placed(history, historyIdx')
    PROVE  IInv'
BY DEF IInv, IsView, Fits, Written, ReadThen, Placed, EndsShown

(* Another archive, or the same again.                                     *)
LEMMA RememberKeeps ==
    ASSUME archive' \in Archives, IsView(view'),
           mview' = [shown |-> NotShown, active |-> FALSE],
           NEW saved, Fits(archive', saved), Remember(saved)
    PROVE  IInv'
<1>1. history' = saved /\ historyIdx' = Len(saved) - 1
  BY DEF Remember
<1>2. Placed(saved, Len(saved) - 1)
  BY DEF Fits, Written, Placed
<1>3. Fits(archive, history)'
  BY <1>1 DEF Fits, Written, ReadThen
<1>4. Placed(history, historyIdx)' /\ EndsShown'
  BY <1>1, <1>2 DEF Placed, EndsShown
<1> QED
  BY <1>3, <1>4 DEF IInv, IsView

(* One step, whatever key it is.                                           *)
LEMMA NextKeeps == ASSUME IInv, [Next]_vars PROVE IInv'
<1> DEFINE MView == [shown : Msg(archive) \cup {NotShown}, active : BOOLEAN]
<1>0. /\ IsView(view) /\ archive \in Archives /\ IsArchive(archive)
      /\ mview \in MView /\ Placed(history, historyIdx)
      /\ [mview EXCEPT !.active = FALSE] \in MView
      /\ [mview EXCEPT !.active = FALSE].shown = mview.shown
  BY BrowserAssumption DEF IInv
<1>1. ASSUME InRange, Enter \/ EnterNext PROVE IInv'
  <2>1. view.cursor \in Msg(archive)
    BY <1>1 DEF InRange
  <2> QED
    BY <1>0, <1>1, <2>1, EnterKeeps, DownInArchive DEF Enter, EnterNext
<1>2. ASSUME NEW m \in Msg(archive), OpenMessage(m) PROVE IInv'
  BY <1>0, <1>2, EnterKeeps, SwitchView DEF OpenMessage
<1>3. ASSUME CloseMessage \/ ResizeTerminal PROVE IInv'
  BY <1>0, <1>3, ListKeeps, ResizeView DEF CloseMessage, ResizeTerminal, past
<1>4. ASSUME CollapseThread PROVE IInv'
  BY <1>0, <1>4, ListKeeps, FocusView DEF CollapseThread, past
<1>5. ASSUME NEW v, IsView(v), Moves(v) PROVE IInv'
  BY <1>0, <1>5, ListKeeps DEF Moves, past
<1>6. ASSUME CursorUp \/ CursorDown \/ PageUp \/ PageDown \/ Home \/ End \/ NextUnread \/ Parent
      PROVE  IInv'
  <2>1. CASE CursorUp
    BY <1>5, <2>1, DrawView DEF CursorUp, MoveCursorUp
  <2>2. CASE CursorDown
    BY <1>5, <2>2, DrawView DEF CursorDown, MoveCursorDown
  <2>3. CASE PageUp
    BY <1>5, <2>3, DrawView DEF PageUp, PageBackward
  <2>4. CASE PageDown
    BY <1>5, <2>4, DrawView DEF PageDown, PageForward
  <2>5. CASE Home \/ End
    BY <1>5, <2>5, DrawView DEF Home, End, MoveCursorTop, MoveCursorBottom
  <2>6. CASE NextUnread
    BY <1>5, <2>6, FocusView DEF NextUnread, GoNextUnread
  <2>7. CASE Parent
    BY <1>5, <2>7, FocusView DEF Parent
  <2> QED
    BY <1>6, <2>1, <2>2, <2>3, <2>4, <2>5, <2>6, <2>7
<1>7. ASSUME Toggle \/ Left \/ Right PROVE IInv'
  <2>1. CASE /\ \E t : Redraw(t)
             /\ UNCHANGED <<archive, rows, mview, past>>
    BY <1>0, <2>1, ListKeeps, DrawView DEF Redraw, past
  <2>2. CASE Parent \/ CursorDown
    BY <1>6, <2>2
  <2> QED
    BY <1>7, <2>1, <2>2 DEF Toggle, Left, Right
<1>8. ASSUME NEW m, Jump(m), UNCHANGED history, Placed(history, historyIdx') PROVE IInv'
  BY <1>0, <1>8, ListKeeps, SwitchView DEF Jump
<1>9. ASSUME NEW m \in Msg(archive), GoToIndex(m) PROVE IInv'
  BY <1>0, <1>8, <1>9 DEF GoToIndex, past
<1>10. ASSUME HistoryBack \/ HistoryForward PROVE IInv'
  <2>1. historyIdx \in 0..(Len(history) - 1) /\ Len(history) \in Nat
    BY <1>0, <1>10 DEF HistoryBack, HistoryForward, Placed, IInv, Fits, Written
  <2>2. Placed(history, historyIdx')
    BY <1>10, <2>1 DEF HistoryBack, HistoryForward, Placed
  <2> QED
    BY <1>8, <1>10, <2>2 DEF HistoryBack, HistoryForward
<1>11. Fits(archive, history)
  BY DEF IInv
<1>12. ASSUME NEW a \in Archives, OpenArchive(a) PROVE IInv'
  <2>1. PICK saved \in (IF a = archive THEN {history} ELSE Saved[a]) :
             /\ archive' = a /\ IsView(view')
             /\ mview' = [shown |-> NotShown, active |-> FALSE]
             /\ Remember(saved)
    BY <1>12, ResizeView DEF OpenArchive
  <2> QED
    BY <1>11, <2>1, SavedFits, RememberKeeps
<1>13. ASSUME NEW a \in Archives, NEW m, Warp(a, m) PROVE IInv'
  <2>1. PICK saved \in (IF a = archive THEN {history} ELSE Saved[a]) :
             /\ archive' = a /\ IsView(view')
             /\ mview' = [shown |-> NotShown, active |-> FALSE]
             /\ Remember(saved)
    BY <1>13, SwitchView DEF Warp
  <2> QED
    BY <1>11, <2>1, SavedFits, RememberKeeps
<1>14. ASSUME Restart PROVE IInv'
  BY <1>0, <1>11, <1>14, RememberKeeps, ReopenView DEF Restart, Start
<1>15. ASSUME UNCHANGED vars PROVE IInv'
  BY <1>0, <1>15, ListKeeps DEF vars, list, past
<1> QED
  BY <1>1, <1>2, <1>3, <1>4, <1>6, <1>7, <1>9, <1>10, <1>12, <1>13, <1>14, <1>15 DEF Next

LEMMA InitKeeps == ASSUME Init PROVE IInv
<1>1. /\ archive \in Archives /\ history \in Saved[archive] /\ historyIdx = Len(history) - 1
      /\ IsView(view) /\ mview = [shown |-> NotShown, active |-> FALSE]
  BY ReopenView DEF Init, Start
<1>2. Fits(archive, history)
  BY <1>1, SavedFits
<1>3. Placed(history, historyIdx) /\ EndsShown
  BY <1>1, <1>2 DEF Placed, Fits, Written, EndsShown
<1> QED
  BY <1>1, <1>2, <1>3 DEF IInv

(* The history is of the archive that is open, has no message twice in a   *)
(* row, ends with the message shown, and its position is one of it         *)
(* (Browser::MoveOrEnterAction, SwitchArchive, the history keys); messages *)
(* the archive does not have are only what its history file had at the end.*)
THEOREM HistoryAlwaysRight == Spec => []HistoryRight
<1>1. Init => IInv
  BY InitKeeps
<1>2. IInv /\ [Next]_vars => IInv'
  BY NextKeeps
<1>3. IInv => HistoryRight
  BY DEF IInv, Fits, Written, ReadThen, Placed, EndsShown, HistoryRight, ReadThenOpened, Last
<1> QED
  BY <1>1, <1>2, <1>3, PTL DEF Spec
-----------------------------------------------------------------------------
(* Archives: the least and greatest of numbers, and the threads of nested  *)
(* messages.                                                               *)

LEMMA LeastNumber ==
    ASSUME NEW T \in SUBSET Nat, T # {}
    PROVE  \E n \in T : \A m \in T : ~(m < n)
<1>1. IsWellFoundedOn(OpToRel(<, Nat), Nat)
  BY NatLessThanWellFounded
<1>2. \E n \in T : \A m \in T : ~(<<m, n>> \in OpToRel(<, Nat))
  BY <1>1, WFMin
<1> QED
  BY <1>2 DEF OpToRel

LEMMA LeastOf ==
    ASSUME NEW S \in SUBSET Nat, S # {}
    PROVE  Min(S) \in S /\ \A k \in S : Min(S) <= k
<1>1. PICK k \in S : \A j \in S : ~(j < k)
  BY LeastNumber
<1>2. \A j \in S : k <= j
  BY <1>1
<1> QED
  BY <1>2 DEF Min

LEMMA GreatestOf ==
    ASSUME NEW n \in Nat, NEW S \in SUBSET (0..n), S # {}
    PROVE  Max(S) \in S /\ \A k \in S : k <= Max(S)
<1> DEFINE T == {m \in Nat : \A k \in S : k <= m}
<1>1. n \in T
  OBVIOUS
<1>2. PICK m \in T : \A l \in T : ~(l < m)
  BY <1>1, LeastNumber
<1>3. m \in S
  <2> SUFFICES ASSUME m \notin S PROVE FALSE
    OBVIOUS
  <2>1. PICK k \in S : TRUE
    OBVIOUS
  <2>2. \A j \in S : j <= m - 1
    BY <1>2
  <2>3. m - 1 \in T
    BY <2>1, <2>2
  <2> QED
    BY <1>2, <2>3
<1>4. \E x \in S : \A y \in S : x >= y
  BY <1>2, <1>3
<1> QED
  BY <1>4 DEF Max
-----------------------------------------------------------------------------
(* Archives: the threads are intervals, within or apart.                   *)
LEMMA ArchiveParts ==
    ASSUME NEW a, IsArchive(a)
    PROVE  /\ Count(a) \in Nat \ {0} /\ Msg(a) = 0..(Count(a) - 1)
           /\ Msg(a) \subseteq Nat /\ NoParent \notin Msg(a) /\ 0 \in Msg(a)
           /\ \A m \in Msg(a) :
                 /\ a.total[m] \in Nat \ {0} /\ m + a.total[m] <= Count(a)
                 /\ a.above[m] = {p \in Msg(a) : p # m /\ p <= m /\ m < p + a.total[p]}
                 /\ a.parent[m] = IF a.above[m] = {} THEN NoParent ELSE Max(a.above[m])
                 /\ \A p \in a.above[m] : m + a.total[m] <= p + a.total[p]
<1>1. Count(a) \in Nat \ {0} /\ Msg(a) = 0..(Count(a) - 1)
  BY DEF IsArchive
<1>2. Msg(a) \subseteq Nat /\ NoParent \notin Msg(a) /\ 0 \in Msg(a)
  BY <1>1 DEF NoParent
<1> SUFFICES ASSUME NEW m \in Msg(a)
             PROVE  /\ a.total[m] \in Nat \ {0} /\ m + a.total[m] <= Count(a)
                    /\ a.above[m] = {p \in Msg(a) : p # m /\ p <= m /\ m < p + a.total[p]}
                    /\ a.parent[m] = IF a.above[m] = {} THEN NoParent ELSE Max(a.above[m])
                    /\ \A p \in a.above[m] : m + a.total[m] <= p + a.total[p]
  BY <1>1, <1>2
<1>3. \A k \in Msg(a) : a.total[k] \in Nat \ {0} /\ k..(k + a.total[k] - 1) \subseteq Msg(a)
  BY DEF IsArchive, Thread
<1>4. ASSUME NEW k \in Msg(a) PROVE k + a.total[k] - 1 \in Thread(a, k) /\ k + a.total[k] - 1 \in k..(k + a.total[k] - 1)
  BY <1>2, <1>3 DEF Thread
<1>5. m + a.total[m] <= Count(a)
  <2>1. m + a.total[m] - 1 \in 0..(Count(a) - 1)
    BY <1>1, <1>3, <1>4
  <2> QED
    BY <1>1, <1>2, <1>3, <2>1
<1>6. a.above[m] = {p \in Msg(a) : p # m /\ m \in Thread(a, p)}
  BY DEF IsArchive
<1>7. \A p \in Msg(a) : m \in Thread(a, p) <=> p <= m /\ m < p + a.total[p]
  BY <1>2, <1>3 DEF Thread
<1>8. ASSUME NEW p \in a.above[m] PROVE m + a.total[m] <= p + a.total[p]
  <2>1. p \in Msg(a) /\ Thread(a, m) \subseteq Thread(a, p)
    BY <1>6 DEF IsArchive
  <2>2. m + a.total[m] - 1 \in Thread(a, p)
    BY <1>4, <2>1
  <2> QED
    BY <1>2, <1>3, <2>1, <2>2 DEF Thread
<1>9. a.parent[m] = IF a.above[m] = {} THEN NoParent ELSE Max(a.above[m])
  BY DEF IsArchive
<1> QED
  BY <1>3, <1>5, <1>6, <1>7, <1>8, <1>9

(* The top of a thread is above everything in it, and has nothing above.   *)
LEMMA RootIsTop ==
    ASSUME NEW a, IsArchive(a), NEW m \in Msg(a)
    PROVE  /\ GetRoot(a, m) \in Msg(a) /\ GetRoot(a, m) <= m
           /\ m < GetRoot(a, m) + a.total[GetRoot(a, m)]
           /\ a.above[GetRoot(a, m)] = {} /\ a.parent[GetRoot(a, m)] = NoParent
<1> DEFINE S == {m} \cup a.above[m]
           r == GetRoot(a, m)
<1>1. S \subseteq Msg(a) /\ S \subseteq Nat
  BY ArchiveParts
<1>2. r \in S /\ \A k \in S : r <= k
  BY <1>1, LeastOf DEF GetRoot
<1>3. r \in Msg(a) /\ r <= m /\ m < r + a.total[r]
  BY <1>1, <1>2, ArchiveParts
<1>4. ASSUME NEW p \in a.above[r] PROVE FALSE
  <2>1. p \in Msg(a) /\ p # r /\ p <= r /\ r + a.total[r] <= p + a.total[p]
    BY <1>3, ArchiveParts
  <2>2. p \in Nat /\ r \in Nat /\ m \in Nat /\ a.total[p] \in Nat /\ a.total[r] \in Nat
    BY <1>3, <2>1, ArchiveParts
  <2>3. p # m /\ p <= m /\ m < p + a.total[p]
    BY <1>3, <2>1, <2>2
  <2>4. p \in S
    BY <2>1, <2>3, ArchiveParts
  <2> QED
    BY <1>2, <2>1, <2>2, <2>4
<1> QED
  BY <1>3, <1>4, ArchiveParts

(* The threads are apart: whatever is below a top message has it as its    *)
(* root.                                                                   *)
LEMMA RootOf ==
    ASSUME NEW a, IsArchive(a), NEW r \in Msg(a), a.above[r] = {},
           NEW m \in Msg(a), r <= m, m < r + a.total[r]
    PROVE  GetRoot(a, m) = r
<1> DEFINE q == GetRoot(a, m)
<1>1. /\ q \in Msg(a) /\ q <= m /\ m < q + a.total[q] /\ a.above[q] = {}
  BY RootIsTop
<1> HIDE DEF q
<1>2. /\ q \in Nat /\ r \in Nat /\ m \in Nat /\ a.total[q] \in Nat /\ a.total[r] \in Nat
  BY <1>1, ArchiveParts
<1>3. ~(q < r)
  <2> SUFFICES ASSUME q < r PROVE FALSE
    OBVIOUS
  <2>1. q # r /\ q <= r /\ r < q + a.total[q]
    BY <1>1, <1>2
  <2> QED
    BY <1>1, <2>1, ArchiveParts
<1>4. ~(r < q)
  <2> SUFFICES ASSUME r < q PROVE FALSE
    OBVIOUS
  <2>1. r # q /\ r <= q /\ q < r + a.total[r]
    BY <1>1, <1>2
  <2> QED
    BY <1>1, <2>1, ArchiveParts
<1>5. q = r
  BY <1>2, <1>3, <1>4
<1> QED
  BY <1>5 DEF q

LEMMA RootThread ==
    ASSUME NEW a, IsArchive(a), NEW r \in Msg(a), a.above[r] = {}
    PROVE  Thread(a, r) = {m \in Msg(a) : GetRoot(a, m) = r}
<1>1. r \in Nat /\ a.total[r] \in Nat /\ r + a.total[r] <= Count(a) /\ Count(a) \in Nat
      /\ Msg(a) = 0..(Count(a) - 1)
  BY ArchiveParts
<1>2. \A m : m \in Thread(a, r) <=> m \in Msg(a) /\ r <= m /\ m < r + a.total[r]
  BY <1>1 DEF Thread
<1> QED
  BY <1>2, RootOf, RootIsTop

LEMMA AboveRoot ==
    ASSUME NEW a, IsArchive(a), NEW m \in Msg(a), NEW p \in a.above[m]
    PROVE  p \in Msg(a) /\ GetRoot(a, p) = GetRoot(a, m)
<1> DEFINE r == GetRoot(a, p)
<1>1. p \in Msg(a) /\ p <= m /\ m < p + a.total[p]
  BY ArchiveParts
<1>2. r \in Msg(a) /\ r <= p /\ a.above[r] = {} /\ p < r + a.total[r]
  BY <1>1, RootIsTop
<1> HIDE DEF r
<1>3. p + a.total[p] <= r + a.total[r]
  <2>1. CASE p = r
    BY <1>1, <1>2, <2>1, ArchiveParts
  <2>2. CASE p # r
    <3>1. r \in a.above[p]
      BY <1>1, <1>2, <2>2, ArchiveParts
    <3> QED
      BY <1>1, <3>1, ArchiveParts
  <2> QED
    BY <2>1, <2>2
<1>4. r <= m /\ m < r + a.total[r]
  <2>1. r \in Nat /\ p \in Nat /\ m \in Nat /\ a.total[p] \in Nat /\ a.total[r] \in Nat
    BY <1>1, <1>2, ArchiveParts
  <2> QED
    BY <1>1, <1>2, <1>3, <2>1
<1>5. GetRoot(a, m) = r
  BY <1>2, <1>4, RootOf
<1> QED
  BY <1>1, <1>5 DEF r

(* A message without parent is the top of its thread.                      *)
LEMMA ParentIs ==
    ASSUME NEW a, IsArchive(a), NEW m \in Msg(a)
    PROVE  /\ a.parent[m] = NoParent <=> GetRoot(a, m) = m
           /\ a.parent[m] = NoParent <=> a.above[m] = {}
           /\ a.parent[m] # NoParent => /\ a.parent[m] \in a.above[m]
                                        /\ \A p \in a.above[m] : p <= a.parent[m]
<1>1. a.above[m] \subseteq 0..(Count(a) - 1) /\ Count(a) - 1 \in Nat
  BY ArchiveParts
<1>2. a.above[m] # {} => Max(a.above[m]) \in a.above[m] /\ \A p \in a.above[m] : p <= Max(a.above[m])
  BY <1>1, GreatestOf
<1>3. Max(a.above[m]) \in a.above[m] => Max(a.above[m]) # NoParent
  BY <1>1, ArchiveParts
<1>4. a.parent[m] = NoParent <=> a.above[m] = {}
  BY <1>2, <1>3, ArchiveParts
<1>5. a.above[m] = {} => GetRoot(a, m) = m
  <2> SUFFICES ASSUME a.above[m] = {} PROVE GetRoot(a, m) = m
    OBVIOUS
  <2>1. GetRoot(a, m) = Min({m}) /\ m \in Nat
    BY ArchiveParts DEF GetRoot
  <2> QED
    BY <2>1, LeastOf
<1>6. GetRoot(a, m) = m => a.above[m] = {}
  BY RootIsTop
<1> QED
  BY <1>2, <1>4, <1>5, <1>6, ArchiveParts
-----------------------------------------------------------------------------
(* The tree: lines and density of the threads that were ever opened, under *)
(* Expand and Collapse (ThreadTree.cpp).                                   *)

(* The rows of a thread are prepared all at once.                          *)
Lifted(a, m) == {k \in {m} \cup a.above[m] : a.parent[k] # NoParent}

CondensedTo(a, root) == IF Depth(a, root) > CondensedDepthThreshold
                        THEN CondensedValue(Depth(a, root)) ELSE 0

(* A function of messages, of whatever values.                             *)
OfMsgs(a, f) == f = [m \in Msg(a) |-> f[m]]

(* A tree of the messages of an archive, and what it has for each: nothing, *)
(* or the lines and the density of the whole thread.                       *)
TreeForm(a, t) ==
    /\ t = [expanded |-> t.expanded, valid |-> t.valid, line |-> t.line, condensed |-> t.condensed]
    /\ t.expanded \in [Msg(a) -> BOOLEAN] /\ t.valid \in [Msg(a) -> BOOLEAN]
    /\ t.line \in [Msg(a) -> Seq(BOOLEAN)]
    /\ OfMsgs(a, t.condensed)

RowRight(a, t, m) ==
    LET root == GetRoot(a, m)
    IN  /\ t.valid[m] = t.valid[root]
        /\ t.expanded[m] => t.valid[m]
        /\ ~t.valid[root] => t.line[m] = <<>> /\ t.condensed[m] = 0
        /\ t.valid[root] => /\ t.line[m] = Lines(a, Lifted(a, m))
                            /\ t.condensed[m] = CondensedTo(a, root)

TreeInv(a, t) == TreeForm(a, t) /\ \A m \in Msg(a) : RowRight(a, t, m)

LEMMA FormOf ==
    ASSUME NEW a, NEW expanded \in [Msg(a) -> BOOLEAN], NEW valid \in [Msg(a) -> BOOLEAN],
           NEW line \in [Msg(a) -> Seq(BOOLEAN)], NEW condensed,
           OfMsgs(a, condensed)
    PROVE  TreeForm(a, [expanded |-> expanded, valid |-> valid, line |-> line,
                        condensed |-> condensed])
<1> DEFINE t == [expanded |-> expanded, valid |-> valid, line |-> line, condensed |-> condensed]
<1>1. t.expanded = expanded /\ t.valid = valid /\ t.line = line /\ t.condensed = condensed
  OBVIOUS
<1>2. t = [expanded |-> t.expanded, valid |-> t.valid, line |-> t.line, condensed |-> t.condensed]
  BY <1>1, Zenon
<1> QED
  BY <1>1, <1>2 DEF TreeForm

LEMMA LinesTyped ==
    ASSUME NEW a, NEW on, IsFiniteSet(on)
    PROVE  Lines(a, on) \in Seq(BOOLEAN) /\ (on = {} => Lines(a, on) = <<>>)
<1>1. Cardinality(on) \in Nat /\ (on = {} => Cardinality(on) = 0)
  BY FS_CardinalityType, FS_EmptySet
<1> DEFINE level(j) == CHOOSE m \in on : Cardinality({k \in on : k < m}) = j - 1
           Goes(j) == \E s \in Children(a, a.parent[level(j)]) : s > level(j)
           line == [j \in 1..Cardinality(on) |-> Goes(j)]
<1>3. Lines(a, on) = line
  BY DEF Lines
<1>4. \A j : Goes(j) \in BOOLEAN
  OBVIOUS
<1> HIDE DEF Goes
<1>5. line \in [1..Cardinality(on) -> BOOLEAN]
  BY <1>4
<1>6. line \in Seq(BOOLEAN)
  BY <1>1, <1>5
<1>7. Cardinality(on) = 0 => line = <<>>
  OBVIOUS
<1> QED
  BY <1>1, <1>3, <1>6, <1>7

LEMMA LiftedFinite ==
    ASSUME NEW a, IsArchive(a), NEW m \in Msg(a), NEW S
    PROVE  IsFiniteSet(Lifted(a, m)) /\ IsFiniteSet(S \cap ({m} \cup a.above[m]))
<1>1. Msg(a) = 0..(Count(a) - 1) /\ Count(a) - 1 \in Int
  BY ArchiveParts
<1>2. IsFiniteSet(Msg(a))
  BY <1>1, FS_Interval
<1>3. a.above[m] \subseteq Msg(a)
  BY ArchiveParts
<1>4. Lifted(a, m) \subseteq Msg(a) /\ S \cap ({m} \cup a.above[m]) \subseteq Msg(a)
  BY <1>3 DEF Lifted
<1> QED
  BY <1>2, <1>4, FS_Subset

(* A new tree has nothing prepared.                                        *)
LEMMA NewTreeRight ==
    ASSUME NEW a, IsArchive(a) PROVE TreeInv(a, NewTree(a))
<1> DEFINE t == NewTree(a)
<1>1. TreeForm(a, t)
  <2> DEFINE no == [m \in Msg(a) |-> FALSE]
             none == [m \in Msg(a) |-> <<>>]
             zero == [m \in Msg(a) |-> 0]
  <2>1. no \in [Msg(a) -> BOOLEAN] /\ none \in [Msg(a) -> Seq(BOOLEAN)]
        /\ OfMsgs(a, zero)
    BY DEF OfMsgs
  <2>2. t = [expanded |-> no, valid |-> no, line |-> none, condensed |-> zero]
    BY DEF NewTree
  <2> HIDE DEF no, none, zero, t
  <2> QED
    BY <2>1, <2>2 DEF TreeForm
<1>2. ASSUME NEW m \in Msg(a) PROVE RowRight(a, t, m)
  <2>1. GetRoot(a, m) \in Msg(a)
    BY RootIsTop
  <2> QED
    BY <2>1 DEF RowRight, NewTree
<1> QED
  BY <1>1, <1>2 DEF TreeInv

(* What ExpandImpl opens and what it prepares, and the parts it comes to.  *)
Opened(a, m, recursive) == IF recursive THEN Thread(a, m) ELSE {m}

Fresh(a, t, m, recursive) ==
    {c \in Msg(a) : a.parent[c] \in Opened(a, m, recursive) /\ ~t.valid[c]}

(* What ExpandImpl makes of a tree, field by field.                        *)
ExpandsTo(a, t, opened, fresh, u) ==
    /\ TreeForm(a, u)
    /\ \A k \in Msg(a) :
          /\ u.expanded[k] = (t.expanded[k] \/ k \in opened)
          /\ u.valid[k] = (t.valid[k] \/ k \in opened \cup fresh)
          /\ u.line[k] = t.line[k] \o Lines(a, fresh \cap ({k} \cup a.above[k]))
          /\ u.condensed[k] = t.condensed[k]

LEMMA ExpandParts ==
    ASSUME NEW a, IsArchive(a), NEW t, TreeForm(a, t), NEW m, NEW recursive
    PROVE  ExpandsTo(a, t, Opened(a, m, recursive), Fresh(a, t, m, recursive),
                     ExpandImpl(a, t, m, recursive))
<1> DEFINE opened == Opened(a, m, recursive)
           fresh == Fresh(a, t, m, recursive)
           u == ExpandImpl(a, t, m, recursive)
<1>1. PICK expanded \in [Msg(a) -> BOOLEAN], valid \in [Msg(a) -> BOOLEAN],
           line \in [Msg(a) -> Seq(BOOLEAN)] : \E condensed :
           /\ t = [expanded |-> expanded, valid |-> valid, line |-> line, condensed |-> condensed]
           /\ OfMsgs(a, condensed)
  BY DEF TreeForm
<1>0. PICK condensed :
           /\ t = [expanded |-> expanded, valid |-> valid, line |-> line, condensed |-> condensed]
           /\ OfMsgs(a, condensed)
  BY <1>1
<1> DEFINE added(k) == Lines(a, fresh \cap ({k} \cup a.above[k]))
           expanded2 == [k \in Msg(a) |-> expanded[k] \/ k \in opened]
           valid2 == [k \in Msg(a) |-> valid[k] \/ k \in opened \cup fresh]
           line2 == [k \in Msg(a) |-> line[k] \o added(k)]
<1>2. u = [expanded |-> expanded2, valid |-> valid2, line |-> line2, condensed |-> condensed]
  <2>1. u = [t EXCEPT !.expanded = [k \in Msg(a) |-> t.expanded[k] \/ k \in opened],
                      !.valid = [k \in Msg(a) |-> t.valid[k] \/ k \in opened \cup fresh],
                      !.line = [k \in Msg(a) |-> t.line[k] \o added(k)]]
    BY Zenon DEF ExpandImpl, Opened, Fresh
  <2> HIDE DEF u, opened, fresh, added
  <2> QED
    BY <1>0, <2>1, Zenon
<1> HIDE DEF opened, fresh, u
<1>3. ASSUME NEW k \in Msg(a) PROVE added(k) \in Seq(BOOLEAN)
  BY LiftedFinite, LinesTyped
<1> HIDE DEF added
<1>4. line2 \in [Msg(a) -> Seq(BOOLEAN)]
  <2> SUFFICES ASSUME NEW k \in Msg(a) PROVE line[k] \o added(k) \in Seq(BOOLEAN)
    OBVIOUS
  <2>1. line[k] \in Seq(BOOLEAN) /\ added(k) \in Seq(BOOLEAN)
    BY <1>3
  <2> QED
    BY <2>1
<1>5. expanded2 \in [Msg(a) -> BOOLEAN] /\ valid2 \in [Msg(a) -> BOOLEAN]
  OBVIOUS
<1>6. TreeForm(a, u)
  <2> HIDE DEF expanded2, valid2, line2
  <2> QED
    BY <1>0, <1>1, <1>2, <1>4, <1>5, FormOf
<1>7. u.expanded = expanded2 /\ u.valid = valid2 /\ u.line = line2 /\ u.condensed = condensed
  <2> HIDE DEF expanded2, valid2, line2
  <2> QED
    BY <1>2
<1>8. t.expanded = expanded /\ t.valid = valid /\ t.line = line /\ t.condensed = condensed
  BY <1>0
<1> QED
  BY <1>6, <1>7, <1>8 DEF added, u, opened, fresh, ExpandsTo

LEMMA CondenseParts ==
    ASSUME NEW a, NEW t, TreeForm(a, t), NEW m, NEW depth
    PROVE  LET u == Condense(a, t, m, depth)
           IN  /\ TreeForm(a, u)
               /\ u.expanded = t.expanded /\ u.valid = t.valid /\ u.line = t.line
               /\ ~(depth > CondensedDepthThreshold /\ t.condensed[m] = 0) => u = t
               /\ depth > CondensedDepthThreshold /\ t.condensed[m] = 0 =>
                     \A k \in Msg(a) : u.condensed[k] = IF k \in Thread(a, m)
                                                         THEN CondensedValue(depth)
                                                         ELSE t.condensed[k]
<1> DEFINE u == Condense(a, t, m, depth)
<1>1. PICK expanded \in [Msg(a) -> BOOLEAN], valid \in [Msg(a) -> BOOLEAN],
           line \in [Msg(a) -> Seq(BOOLEAN)] : \E condensed :
           /\ t = [expanded |-> expanded, valid |-> valid, line |-> line, condensed |-> condensed]
           /\ OfMsgs(a, condensed)
  BY DEF TreeForm
<1>0. PICK condensed :
           /\ t = [expanded |-> expanded, valid |-> valid, line |-> line, condensed |-> condensed]
           /\ OfMsgs(a, condensed)
  BY <1>1
<1> DEFINE value == CondensedValue(depth)
           deep == depth > CondensedDepthThreshold
           condensed2 == [k \in Msg(a) |-> IF k \in Thread(a, m) THEN value ELSE condensed[k]]
<1> HIDE DEF value
<1>2. CASE deep /\ t.condensed[m] = 0
  <2>1. u = [expanded |-> expanded, valid |-> valid, line |-> line, condensed |-> condensed2]
    BY <1>0, <1>2, Zenon DEF Condense, value
  <2> HIDE DEF u
  <2>2. OfMsgs(a, condensed2)
    BY DEF OfMsgs
  <2>3. \A k \in Msg(a) : condensed2[k] = IF k \in Thread(a, m) THEN value ELSE condensed[k]
    OBVIOUS
  <2> HIDE DEF condensed2
  <2>4. TreeForm(a, u)
    BY <1>0, <1>1, <2>1, <2>2, FormOf
  <2>5. u.expanded = expanded /\ u.valid = valid /\ u.line = line /\ u.condensed = condensed2
    BY <2>1
  <2>6. t.expanded = expanded /\ t.valid = valid /\ t.line = line /\ t.condensed = condensed
    BY <1>0
  <2> QED
    BY <1>2, <2>3, <2>4, <2>5, <2>6 DEF value, u
<1>3. CASE ~(deep /\ t.condensed[m] = 0)
  <2>1. u = t
    BY <1>3 DEF Condense
  <2> QED
    BY <1>3, <2>1
<1> QED
  BY <1>2, <1>3

(* A thread is prepared when its top is first expanded, which is done      *)
(* recursively; after that nothing is added.                               *)
LEMMA ExpandRight ==
    ASSUME NEW a, IsArchive(a), NEW t, TreeInv(a, t), NEW m \in Msg(a),
           NEW recursive \in BOOLEAN, recursive <=> a.parent[m] = NoParent,
           recursive \/ t.valid[GetRoot(a, m)]
    PROVE  TreeInv(a, Expand(a, t, m, recursive)) /\ Expand(a, t, m, recursive).valid[m]
<1> DEFINE opened == IF recursive THEN Thread(a, m) ELSE {m}
           fresh == {c \in Msg(a) : a.parent[c] \in opened /\ ~t.valid[c]}
           u == ExpandImpl(a, t, m, recursive)
           depth == IF recursive THEN Depth(a, m) ELSE 1
           w == Condense(a, u, m, depth)
           root == GetRoot(a, m)
<1>1. Expand(a, t, m, recursive) = w
  BY DEF Expand
<1>2. TreeForm(a, t) /\ \A k \in Msg(a) : RowRight(a, t, k)
  BY DEF TreeInv
<1>3. /\ TreeForm(a, u)
      /\ \A k \in Msg(a) :
            /\ u.expanded[k] = (t.expanded[k] \/ k \in opened)
            /\ u.valid[k] = (t.valid[k] \/ k \in opened \cup fresh)
            /\ u.line[k] = t.line[k] \o Lines(a, fresh \cap ({k} \cup a.above[k]))
            /\ u.condensed[k] = t.condensed[k]
  <2>1. opened = Opened(a, m, recursive)
    BY DEF Opened
  <2>2. fresh = Fresh(a, t, m, recursive)
    BY DEF Opened, Fresh
  <2>3. ExpandsTo(a, t, Opened(a, m, recursive), Fresh(a, t, m, recursive), u)
    BY <1>2, ExpandParts
  <2> HIDE DEF opened, fresh, u
  <2> QED
    BY <2>1, <2>2, <2>3 DEF ExpandsTo
<1>4. /\ TreeForm(a, w)
      /\ w.expanded = u.expanded /\ w.valid = u.valid /\ w.line = u.line
      /\ ~(depth > CondensedDepthThreshold /\ u.condensed[m] = 0) => w = u
      /\ depth > CondensedDepthThreshold /\ u.condensed[m] = 0 =>
            \A k \in Msg(a) : w.condensed[k] = IF k \in Thread(a, m) THEN CondensedValue(depth)
                                                                     ELSE u.condensed[k]
  <2> HIDE DEF u, depth, w
  <2> QED
    BY <1>3, CondenseParts DEF w
<1>5. \A k \in Msg(a) : /\ GetRoot(a, k) \in Msg(a) /\ a.above[GetRoot(a, k)] = {}
                        /\ a.parent[GetRoot(a, k)] = NoParent
                        /\ GetRoot(a, GetRoot(a, k)) = GetRoot(a, k)
  BY RootIsTop, ParentIs
<1>6. \A k \in Msg(a) : t.line[k] \in Seq(BOOLEAN) /\ t.valid[k] \in BOOLEAN
  BY <1>2 DEF TreeForm
<1>7. ASSUME t.valid[root] PROVE fresh = {}
  <2> SUFFICES ASSUME NEW c \in Msg(a), a.parent[c] \in opened, ~t.valid[c] PROVE FALSE
    OBVIOUS
  <2>1. opened \subseteq {k \in Msg(a) : GetRoot(a, k) = root}
    BY <1>5, RootThread, ParentIs
  <2>2. a.parent[c] \in a.above[c] /\ GetRoot(a, a.parent[c]) = GetRoot(a, c)
    BY <2>1, ParentIs, AboveRoot, ArchiveParts
  <2>3. GetRoot(a, c) = root
    BY <2>1, <2>2
  <2> QED
    BY <1>2, <1>7, <2>3 DEF RowRight
<1>8. Lines(a, {}) = <<>>
  BY LinesTyped, FS_EmptySet
<1>9. CASE t.valid[root]
  <2>1. \A k \in Msg(a) : u.line[k] = t.line[k]
    <3> SUFFICES ASSUME NEW k \in Msg(a) PROVE u.line[k] = t.line[k]
      OBVIOUS
    <3>1. fresh \cap ({k} \cup a.above[k]) = {}
      BY <1>7, <1>9
    <3> HIDE DEF fresh, u
    <3>2. u.line[k] = t.line[k] \o <<>> /\ t.line[k] \in Seq(BOOLEAN)
      BY <1>3, <1>6, <1>8, <3>1
    <3> QED
      BY <3>2
  <2>2. opened \subseteq {k \in Msg(a) : GetRoot(a, k) = root} /\ m \in opened
    <3>1. recursive => m = root /\ opened = {k \in Msg(a) : GetRoot(a, k) = root}
      BY <1>5, RootThread, ParentIs
    <3>2. ~recursive => opened = {m}
      OBVIOUS
    <3> QED
      BY <3>1, <3>2
  <2>3. \A k \in opened : t.valid[k]
    BY <1>2, <1>9, <2>2 DEF RowRight
  <2>4. \A k \in Msg(a) : u.valid[k] = t.valid[k]
    <3> SUFFICES ASSUME NEW k \in Msg(a) PROVE u.valid[k] = t.valid[k]
      OBVIOUS
    <3>1. fresh = {}
      BY <1>7, <1>9
    <3> HIDE DEF fresh, opened, u
    <3> QED
      BY <1>3, <1>6, <2>3, <3>1
  <2>5. \A k \in Msg(a) : w.condensed[k] = t.condensed[k]
    <3>1. CASE ~recursive
      <4>1. ~(depth > CondensedDepthThreshold)
        BY <3>1, CondensedAssumption
      <4> HIDE DEF depth, u, w
      <4> QED
        BY <1>3, <1>4, <4>1
    <3>2. CASE recursive
      <4>1. m = root /\ Thread(a, m) = {k \in Msg(a) : GetRoot(a, k) = root} /\ depth = Depth(a, root)
        BY <1>5, <3>2, RootThread, ParentIs
      <4>2. \A k \in Thread(a, m) : t.condensed[k] = CondensedTo(a, root)
        BY <1>2, <1>9, <4>1 DEF RowRight
      <4>3. depth > CondensedDepthThreshold => CondensedTo(a, root) = CondensedValue(depth)
        BY <4>1 DEF CondensedTo
      <4> HIDE DEF depth, u, w
      <4> QED
        BY <1>3, <1>4, <4>2, <4>3
    <3> QED
      BY <3>1, <3>2
  <2>6. ASSUME NEW k \in Msg(a) PROVE RowRight(a, w, k)
    <3>1. RowRight(a, t, k) /\ GetRoot(a, k) \in Msg(a)
      BY <1>2, <1>5
    <3>2. w.line[k] = t.line[k] /\ w.valid[k] = t.valid[k] /\ w.condensed[k] = t.condensed[k]
          /\ w.valid[GetRoot(a, k)] = t.valid[GetRoot(a, k)]
      <4> HIDE DEF u, w
      <4> QED
        BY <1>4, <2>1, <2>4, <2>5, <3>1
    <3>3. w.expanded[k] => t.valid[k]
      <4>1. w.expanded[k] = (t.expanded[k] \/ k \in opened)
        <5> HIDE DEF u, w, opened
        <5> QED
          BY <1>3, <1>4
      <4> QED
        BY <2>3, <3>1, <4>1 DEF RowRight
    <3> HIDE DEF u, w
    <3> QED
      BY <3>1, <3>2, <3>3 DEF RowRight
  <2>7. w.valid[m]
    <3>1. m \in Msg(a) /\ w.valid[m] = t.valid[m]
      <4> HIDE DEF u, w
      <4> QED
        BY <1>4, <2>4
    <3> QED
      BY <2>2, <2>3, <3>1
  <2> QED
    BY <1>1, <1>4, <2>6, <2>7 DEF TreeInv
<1>10. CASE ~t.valid[root]
  <2>1. /\ recursive /\ m = root /\ opened = Thread(a, m)
        /\ Thread(a, m) = {k \in Msg(a) : GetRoot(a, k) = root} /\ depth = Depth(a, root)
    BY <1>5, <1>10, RootThread, ParentIs
  <2>2. \A k \in Msg(a) : GetRoot(a, k) = root <=> k \in opened
    BY <2>1
  <2>3. ASSUME NEW c \in Msg(a) PROVE c \in fresh <=> c \in opened /\ a.parent[c] # NoParent
    <3>1. CASE a.parent[c] = NoParent
      <4>1. NoParent \notin opened
        BY <2>1, ArchiveParts
      <4> QED
        BY <3>1, <4>1
    <3>2. CASE a.parent[c] # NoParent
      <4>1. a.parent[c] \in Msg(a) /\ GetRoot(a, a.parent[c]) = GetRoot(a, c)
        BY <3>2, ParentIs, AboveRoot
      <4>2. a.parent[c] \in opened <=> c \in opened
        BY <2>2, <4>1
      <4>3. c \in opened => ~t.valid[c]
        BY <1>2, <1>10, <2>2 DEF RowRight
      <4> QED
        BY <3>2, <4>2, <4>3
    <3> QED
      BY <3>1, <3>2
  <2>4. ASSUME NEW k \in Msg(a) PROVE fresh \cap ({k} \cup a.above[k]) = IF k \in opened THEN Lifted(a, k) ELSE {}
    <3>1. \A p \in {k} \cup a.above[k] : p \in Msg(a) /\ GetRoot(a, p) = GetRoot(a, k)
      BY AboveRoot
    <3>2. \A p \in {k} \cup a.above[k] : p \in Msg(a) /\ (p \in opened <=> k \in opened)
      BY <2>2, <3>1
    <3> HIDE DEF fresh, opened
    <3> QED
      BY <2>3, <3>2 DEF Lifted
  <2>5. ASSUME NEW k \in Msg(a) PROVE RowRight(a, w, k)
    <3> DEFINE r == GetRoot(a, k)
    <3>1. RowRight(a, t, k) /\ r \in Msg(a) /\ GetRoot(a, r) = r
      BY <1>2, <1>5
    <3> HIDE DEF r
    <3>2. CASE k \in opened
      <4>1. r = root /\ r \in opened
        BY <2>1, <2>2, <3>2 DEF r
      <4>2. w.valid[k] = TRUE /\ w.valid[r] = TRUE
        <5> HIDE DEF u, w, opened, fresh
        <5> QED
          BY <1>3, <1>4, <3>1, <3>2, <4>1
      <4>3. t.line[k] = <<>> /\ t.condensed[k] = 0 /\ t.condensed[m] = 0
        <5>1. RowRight(a, t, m)
          BY <1>2
        <5> QED
          BY <1>10, <2>1, <3>1, <4>1, <5>1 DEF RowRight, r
      <4>4. w.line[k] = Lines(a, Lifted(a, k))
        <5>1. w.line[k] = <<>> \o Lines(a, Lifted(a, k))
          <6> HIDE DEF u, w, opened, fresh
          <6> QED
            BY <1>3, <1>4, <2>4, <3>2, <4>3
        <5>2. Lines(a, Lifted(a, k)) \in Seq(BOOLEAN)
          BY LinesTyped, LiftedFinite
        <5> QED
          BY <5>1, <5>2
      <4>5. w.condensed[k] = CondensedTo(a, root)
        <5>1. k \in Thread(a, m) /\ depth = Depth(a, root)
          BY <2>1, <3>2
        <5> HIDE DEF u, w, depth, opened, fresh
        <5> QED
          BY <1>3, <1>4, <4>3, <5>1 DEF CondensedTo
      <4> HIDE DEF u, w, opened, fresh
      <4> QED
        BY <4>1, <4>2, <4>4, <4>5 DEF RowRight, r
    <3>3. CASE k \notin opened
      <4>1. r \notin opened
        BY <2>2, <3>1, <3>3 DEF r
      <4>2. k \notin fresh /\ r \notin fresh
        BY <2>3, <3>1, <3>3, <4>1
      <4>3. w.valid[k] = t.valid[k] /\ w.valid[r] = t.valid[r]
            /\ w.expanded[k] = t.expanded[k]
        <5>1. t.valid[k] \in BOOLEAN /\ t.valid[r] \in BOOLEAN /\ t.expanded[k] \in BOOLEAN
          BY <1>2, <3>1 DEF TreeForm
        <5> HIDE DEF u, w, opened, fresh
        <5> QED
          BY <1>3, <1>4, <3>1, <3>3, <4>1, <4>2, <5>1
      <4>4. w.line[k] = t.line[k]
        <5>1. w.line[k] = t.line[k] \o <<>>
          <6>1. fresh \cap ({k} \cup a.above[k]) = {}
            BY <2>4, <3>3
          <6>2. w.line[k] = t.line[k] \o Lines(a, fresh \cap ({k} \cup a.above[k]))
            <7> HIDE DEF u, w, opened, fresh
            <7> QED
              BY <1>3, <1>4
          <6> QED
            BY <1>8, <6>1, <6>2, Zenon
        <5>2. t.line[k] \in Seq(BOOLEAN)
          BY <1>6
        <5> QED
          BY <5>1, <5>2
      <4>5. w.condensed[k] = t.condensed[k]
        <5>1. k \notin Thread(a, m)
          BY <2>1, <3>3
        <5> HIDE DEF u, w, depth, opened, fresh
        <5> QED
          BY <1>3, <1>4, <5>1
      <4> HIDE DEF u, w, opened, fresh
      <4> QED
        BY <3>1, <4>3, <4>4, <4>5 DEF RowRight, r
    <3> QED
      BY <3>2, <3>3
  <2>6. w.valid[m]
    <3>1. m \in opened
      BY <2>1, <1>5
    <3> HIDE DEF u, w, opened, fresh
    <3> QED
      BY <1>3, <1>4, <3>1
  <2> QED
    BY <1>1, <1>4, <2>5, <2>6 DEF TreeInv
<1> QED
  BY <1>6, <1>9, <1>10, <1>5

(* Collapse leaves lines and density alone.                                *)
LEMMA CollapseRight ==
    ASSUME NEW a, NEW t, TreeInv(a, t), NEW m PROVE TreeInv(a, Collapse(t, m))
<1>1. PICK expanded \in [Msg(a) -> BOOLEAN], valid \in [Msg(a) -> BOOLEAN],
           line \in [Msg(a) -> Seq(BOOLEAN)] : \E condensed :
           /\ t = [expanded |-> expanded, valid |-> valid, line |-> line, condensed |-> condensed]
           /\ OfMsgs(a, condensed)
  BY DEF TreeInv, TreeForm
<1>0. PICK condensed :
           /\ t = [expanded |-> expanded, valid |-> valid, line |-> line, condensed |-> condensed]
           /\ OfMsgs(a, condensed)
  BY <1>1
<1> DEFINE expanded2 == [expanded EXCEPT ![m] = FALSE]
           u == Collapse(t, m)
<1>2. u = [expanded |-> expanded2, valid |-> valid, line |-> line, condensed |-> condensed]
  <2>1. u = [t EXCEPT !.expanded = [t.expanded EXCEPT ![m] = FALSE]]
    BY DEF Collapse
  <2>2. t.expanded = expanded
    BY <1>0
  <2> HIDE DEF expanded2, u
  <2> QED
    BY <1>0, <2>1, <2>2 DEF expanded2
<1>3. expanded2 \in [Msg(a) -> BOOLEAN] /\ \A k \in Msg(a) : expanded2[k] => expanded[k]
  OBVIOUS
<1> HIDE DEF expanded2, u
<1>4. TreeForm(a, u)
  BY <1>0, <1>1, <1>2, <1>3, FormOf
<1>5. u.valid = t.valid /\ u.line = t.line /\ u.condensed = t.condensed
      /\ \A k \in Msg(a) : u.expanded[k] => t.expanded[k]
  BY <1>0, <1>2, <1>3
<1>6. \A k \in Msg(a) : RowRight(a, u, k)
  BY <1>5 DEF TreeInv, RowRight
<1> QED
  BY <1>4, <1>6 DEF TreeInv, u
-----------------------------------------------------------------------------
(* Loops of the list, as functions of their rounds, and the messages they  *)
(* come to.                                                                *)

(* A loop of n rounds exists, and keeps to a set if every round does.      *)
IsRound(G, S) == G \in [Nat \X S -> S]

Rounded(n, S, v, G, f) ==
    f \in [0..n -> S] /\ \A k \in 0..n : f[k] = IF k = 0 THEN v ELSE G[<<k, f[k - 1]>>]

LEMMA Rounds ==
    ASSUME NEW n \in Nat, NEW S, NEW v \in S, NEW G, IsRound(G, S)
    PROVE  \E g : Rounded(n, S, v, G, g)
<1>0. G \in [Nat \X S -> S]
  BY DEF IsRound
<1> SUFFICES \E g \in [0..n -> S] : g[0] = v /\ \A k \in 1..n : g[k] = G[<<k, g[k - 1]>>]
  <2> PICK g \in [0..n -> S] : g[0] = v /\ \A k \in 1..n : g[k] = G[<<k, g[k - 1]>>]
    OBVIOUS
  <2>1. \A k \in 0..n : g[k] = IF k = 0 THEN v ELSE G[<<k, g[k - 1]>>]
    OBVIOUS
  <2> QED
    BY <2>1 DEF Rounded
<1> DEFINE Run(g, k) == g[0] = v /\ \A i \in 1..k : g[i] = G[<<i, g[i - 1]>>]
           T == {k \in Nat : ~ \E g \in [0..k -> S] : Run(g, k)}
<1> SUFFICES ASSUME T # {} PROVE FALSE
  OBVIOUS
<1>1. PICK k \in T : \A m \in T : ~(m < k)
  BY LeastNumber
<1>2. k \in Nat /\ ~ \E g \in [0..k -> S] : Run(g, k)
  BY <1>1
<1>3. CASE k = 0
  <2> DEFINE g == [i \in 0..0 |-> v]
  <2>1. g \in [0..0 -> S] /\ g[0] = v /\ 1..0 = {}
    OBVIOUS
  <2>2. Run(g, 0)
    BY <2>1
  <2> HIDE DEF g
  <2> QED
    BY <1>2, <1>3, <2>1, <2>2
<1>4. CASE k # 0
  <2>1. k - 1 \in Nat /\ k - 1 < k
    BY <1>2, <1>4
  <2>2. PICK f \in [0..(k - 1) -> S] : Run(f, k - 1)
    BY <1>1, <2>1
  <2> DEFINE step == G[<<k, f[k - 1]>>]
             g == [i \in 0..k |-> IF i = k THEN step ELSE f[i]]
  <2>3. f[k - 1] \in S /\ k - 1 \in 0..(k - 1)
    BY <2>1, <2>2
  <2>4. step \in S
    <3>1. <<k, f[k - 1]>> \in Nat \X S
      BY <1>2, <2>3
    <3> QED
      BY <1>0, <3>1
  <2>5. \A i \in 0..k : i # k => i \in 0..(k - 1)
    BY <1>2
  <2> HIDE DEF step
  <2>6. g \in [0..k -> S]
    BY <2>2, <2>4, <2>5
  <2>7. \A i \in 0..k : g[i] = IF i = k THEN step ELSE f[i]
    OBVIOUS
  <2> HIDE DEF g
  <2>8. g[0] = v
    BY <1>2, <1>4, <2>2, <2>7
  <2>9. ASSUME NEW i \in 1..k PROVE g[i] = G[<<i, g[i - 1]>>]
    <3>1. i - 1 \in 0..k /\ i \in 0..k /\ i - 1 # k
      BY <1>2
    <3>2. g[i - 1] = f[i - 1]
      BY <2>7, <3>1
    <3>3. CASE i = k
      BY <2>7, <3>1, <3>2, <3>3 DEF step
    <3>4. CASE i # k
      <4>1. i \in 1..(k - 1)
        BY <1>2, <3>4
      <4>2. f[i] = G[<<i, f[i - 1]>>]
        BY <2>2, <4>1
      <4> QED
        BY <2>7, <3>1, <3>2, <3>4, <4>2
    <3> QED
      BY <3>3, <3>4
  <2>10. Run(g, k)
    BY <2>8, <2>9
  <2> QED
    BY <1>2, <2>6, <2>10
<1> QED
  BY <1>3, <1>4

LEMMA RoundsStay ==
    ASSUME NEW n \in Nat, NEW g, NEW S, g[0] \in S,
           \A k \in 1..n : g[k - 1] \in S => g[k] \in S
    PROVE  \A k \in 0..n : g[k] \in S
<1> DEFINE T == {k \in Nat : k <= n /\ g[k] \notin S}
<1> SUFFICES ASSUME T # {} PROVE FALSE
  OBVIOUS
<1>1. PICK k \in T : \A m \in T : ~(m < k)
  BY LeastNumber
<1>2. k \in Nat /\ k <= n /\ g[k] \notin S /\ k # 0
  BY <1>1
<1>3. k - 1 \in Nat /\ k - 1 <= n /\ k - 1 < k /\ k \in 1..n
  BY <1>2
<1>4. k - 1 \notin T
  BY <1>1, <1>3
<1>5. g[k - 1] \in S
  BY <1>3, <1>4
<1> QED
  BY <1>2, <1>3, <1>5
-----------------------------------------------------------------------------
(* Views, and the rows of a tree.                                          *)
View == [top : Int, bottom : Int, cursor : Int]

(* Whatever the list comes to is the top of a thread, or in a prepared one.*)
Known(a, t, c) == c \in Msg(a) => c = GetRoot(a, c) \/ t.valid[c]

(* Wherever GetNext and GetPrev are called they return a number.           *)
LEMMA RowNumbers ==
    ASSUME NEW a, IsArchive(a), NEW e, NEW i
    PROVE  /\ GetNext(a, e, i) \in Int /\ GetPrev(a, e, i) \in Int
           /\ i \in Msg(a) => /\ GetNext(a, e, i) \in 1..Count(a) /\ i < GetNext(a, e, i)
           /\ i - 1 \in Msg(a) => GetPrev(a, e, i) \in Msg(a)
           /\ i \notin Msg(a) => GetNext(a, e, i) \notin Msg(a)
<1>1. i \in Msg(a) => i \in Nat /\ a.total[i] \in Nat \ {0} /\ i + a.total[i] <= Count(a)
  BY ArchiveParts
<1>2. Count(a) \in Nat /\ Msg(a) = 0..(Count(a) - 1) /\ Fault \in Int /\ Fault \notin Msg(a)
  BY ArchiveParts DEF Fault
<1>3. i \in Msg(a) => GetNext(a, e, i) \in 1..Count(a) /\ i < GetNext(a, e, i)
  BY <1>1, <1>2 DEF GetNext
<1>4. i \notin Msg(a) => GetNext(a, e, i) = Fault
  BY DEF GetNext
<1>5. i - 1 \in Msg(a) => GetPrev(a, e, i) \in Msg(a)
  <2> SUFFICES ASSUME i - 1 \in Msg(a) PROVE GetPrev(a, e, i) \in Msg(a)
    OBVIOUS
  <2> DEFINE collapsed == {p \in a.above[i - 1] : ~e[p]}
  <2>1. GetPrev(a, e, i) = IF collapsed = {} THEN i - 1 ELSE Min(collapsed)
    BY DEF GetPrev
  <2>2. collapsed \subseteq Msg(a) /\ collapsed \subseteq Nat
    BY ArchiveParts
  <2> HIDE DEF collapsed
  <2>3. collapsed # {} => Min(collapsed) \in Msg(a)
    BY <2>2, LeastOf
  <2> QED
    BY <2>1, <2>3
<1>6. i - 1 \notin Msg(a) => GetPrev(a, e, i) = Fault
  BY DEF GetPrev
<1> QED
  BY <1>2, <1>3, <1>4, <1>5, <1>6

(* From a known message they lead to a known one: what has a row below an  *)
(* expanded message was prepared with it.                                  *)
LEMMA KnownNext ==
    ASSUME NEW a, IsArchive(a), NEW t, TreeInv(a, t), NEW i, Known(a, t, i)
    PROVE  Known(a, t, GetNext(a, t.expanded, i))
<1> DEFINE k == GetNext(a, t.expanded, i)
<1> SUFFICES ASSUME k \in Msg(a), k # GetRoot(a, k) PROVE t.valid[k]
  BY DEF Known
<1>1. i \in Msg(a)
  BY RowNumbers
<1>2. k = IF t.expanded[i] THEN i + 1 ELSE i + a.total[i]
  BY <1>1 DEF GetNext
<1>3. RowRight(a, t, i) /\ RowRight(a, t, k)
  BY <1>1 DEF TreeInv
<1> DEFINE r == GetRoot(a, k)
<1>4. r \in Msg(a) /\ a.above[r] = {} /\ r <= k /\ k < r + a.total[r] /\ r # k
  BY RootIsTop
<1> HIDE DEF k, r
<1>5. i \in Nat /\ k \in Nat /\ r \in Nat /\ a.total[r] \in Nat /\ a.total[i] \in Nat \ {0}
  BY <1>1, <1>4, ArchiveParts
<1>6. r <= i
  <2> SUFFICES ASSUME i < r PROVE FALSE
    BY <1>5
  <2>1. k = i + a.total[i]
    BY <1>2, <1>4, <1>5
  <2>2. i # r /\ i <= r /\ r < i + a.total[i]
    BY <1>4, <1>5, <2>1
  <2>3. i \in a.above[r]
    BY <1>1, <1>4, <2>2, ArchiveParts
  <2> QED
    BY <1>4, <2>3
<1>7. i < r + a.total[r]
  BY <1>2, <1>4, <1>5
<1>8. GetRoot(a, i) = r
  BY <1>1, <1>4, <1>6, <1>7, RootOf
<1>9. t.valid[r]
  <2>1. CASE t.expanded[i]
    BY <1>3, <1>8, <2>1 DEF RowRight
  <2>2. CASE i = r
    <3>1. k # i + a.total[i]
      BY <1>4, <1>5, <2>2
    <3>2. t.expanded[i]
      BY <1>2, <3>1
    <3> QED
      BY <1>3, <1>8, <3>2 DEF RowRight
  <2>3. CASE i # r
    <3>1. t.valid[i]
      BY <1>1, <1>8, <2>3 DEF Known
    <3> QED
      BY <1>3, <1>8, <3>1 DEF RowRight
  <2> QED
    BY <2>1, <2>2, <2>3
<1> QED
  BY <1>3, <1>9 DEF RowRight, r

LEMMA KnownPrev ==
    ASSUME NEW a, IsArchive(a), NEW t, TreeInv(a, t), NEW i
    PROVE  Known(a, t, GetPrev(a, t.expanded, i))
<1> DEFINE k == GetPrev(a, t.expanded, i)
           collapsed == {p \in a.above[i - 1] : ~t.expanded[p]}
           r == GetRoot(a, k)
<1> SUFFICES ASSUME k \in Msg(a), k # r PROVE t.valid[k]
  BY DEF Known
<1>1. i - 1 \in Msg(a) /\ k = IF collapsed = {} THEN i - 1 ELSE Min(collapsed)
  BY ArchiveParts DEF GetPrev, Fault, NoParent
<1>2. collapsed \subseteq Nat /\ a.above[i - 1] \subseteq Msg(a)
  BY <1>1, ArchiveParts
<1>3. k = i - 1 \/ k \in a.above[i - 1]
  <2> HIDE DEF k
  <2>1. collapsed # {} => Min(collapsed) \in collapsed
    BY <1>2, LeastOf
  <2> QED
    BY <1>1, <2>1
<1>4. r = GetRoot(a, i - 1)
  <2>1. CASE k = i - 1
    BY <2>1
  <2>2. CASE k \in a.above[i - 1]
    BY <1>1, <2>2, AboveRoot
  <2> QED
    BY <1>3, <2>1, <2>2
<1>5. r \in Msg(a) /\ a.above[r] = {} /\ r <= k /\ r \in Nat /\ k \in Nat
  BY RootIsTop, ArchiveParts
<1>6. r \in a.above[i - 1]
  <2>1. GetRoot(a, i - 1) <= i - 1 /\ i - 1 < GetRoot(a, i - 1) + a.total[GetRoot(a, i - 1)]
    BY <1>1, RootIsTop
  <2>2. CASE k = i - 1
    BY <1>1, <1>4, <1>5, <2>1, <2>2, ArchiveParts
  <2>3. CASE k \in a.above[i - 1]
    <3>1. k <= i - 1 /\ k # i - 1
      BY <1>1, <2>3, ArchiveParts
    <3>2. r # i - 1
      <4> HIDE DEF k, r
      <4> QED
        BY <1>1, <1>5, <3>1, ArchiveParts
    <3> QED
      BY <1>1, <1>4, <1>5, <2>1, <3>2, ArchiveParts
  <2> QED
    BY <1>3, <2>2, <2>3
<1>7. t.expanded[r]
  <2> SUFFICES ASSUME ~t.expanded[r] PROVE FALSE
    OBVIOUS
  <2>1. r \in collapsed
    BY <1>6
  <2>2. k = Min(collapsed) /\ Min(collapsed) <= r
    <3> HIDE DEF k, r, collapsed
    <3> QED
      BY <1>1, <1>2, <2>1, LeastOf
  <2> HIDE DEF k, r, collapsed
  <2>3. k <= r
    BY <2>2
  <2>4. k = r
    BY <1>5, <2>3
  <2> QED
    BY <2>4 DEF r
<1>8. RowRight(a, t, r) /\ RowRight(a, t, k) /\ GetRoot(a, r) = r
  BY <1>5, RootIsTop, ParentIs DEF TreeInv
<1> QED
  BY <1>7, <1>8 DEF RowRight

(* The loops of ThreadView, round by round.                                *)
RowRun(a, e, n, top, g) ==
    /\ g[0] = top /\ \A k \in 0..n : g[k] \in Int
    /\ \A k \in 1..n : g[k] = IF k > 1 /\ g[k - 1] >= Count(a) THEN g[k - 1]
                              ELSE GetNext(a, e, g[k - 1])

LEMMA RowsEndRun ==
    ASSUME NEW a, IsArchive(a), NEW e, NEW n \in Nat, NEW top \in Int
    PROVE  \E g : RowRun(a, e, n, top, g) /\ RowsEnd(a, e, n, top) = g[n]
<1> DEFINE Row(k, last) == IF k > 1 /\ last >= Count(a) THEN last ELSE GetNext(a, e, last)
           G == [p \in Nat \X Int |-> Row(p[1], p[2])]
           IsRow(f) == f = [k \in 0..n |-> IF k = 0 THEN top ELSE Row(k, f[k - 1])]
           row == CHOOSE f : IsRow(f)
<1>1. \A k \in Nat, last \in Int : Row(k, last) \in Int
  BY RowNumbers
<1>2. RowsEnd(a, e, n, top) = row[n]
  BY Zenon DEF RowsEnd
<1> HIDE DEF Row
<1>3. IsRound(G, Int) /\ \A k \in Nat, last \in Int : G[<<k, last>>] = Row(k, last)
  BY <1>1 DEF IsRound
<1> HIDE DEF G
<1>4. PICK g : Rounded(n, Int, top, G, g)
  BY <1>3, Rounds
<1>5. \A k \in 0..n : g[k] = IF k = 0 THEN top ELSE Row(k, g[k - 1])
  <2> SUFFICES ASSUME NEW k \in 0..n, k # 0 PROVE g[k] = Row(k, g[k - 1])
    BY <1>4 DEF Rounded
  <2>1. g[k] = G[<<k, g[k - 1]>>] /\ g \in [0..n -> Int]
    BY <1>4 DEF Rounded
  <2>2. k \in Nat /\ k - 1 \in 0..n
    OBVIOUS
  <2>3. g[k - 1] \in Int
    BY <2>1, <2>2
  <2> QED
    BY <1>3, <2>1, <2>2, <2>3
<1>6. IsRow(g)
  <2>1. g = [k \in 0..n |-> g[k]]
    BY <1>4 DEF Rounded
  <2> QED
    BY <1>5, <2>1
<1>7. IsRow(row)
  BY <1>6
<1> HIDE DEF row
<1>8. /\ row[0] = top
      /\ \A k \in 1..n : row[k] = Row(k, row[k - 1])
  BY <1>7
<1>9. \A k \in 1..n : row[k - 1] \in Int => row[k] \in Int
  <2> SUFFICES ASSUME NEW k \in 1..n, row[k - 1] \in Int PROVE row[k] \in Int
    OBVIOUS
  <2>1. row[k] = Row(k, row[k - 1]) /\ k \in Nat
    BY <1>8
  <2>2. Row(k, row[k - 1]) \in Int
    BY <1>1, <2>1, Zenon
  <2> QED
    BY <2>1, <2>2, Zenon
<1>10. \A k \in 0..n : row[k] \in Int
  BY <1>8, <1>9, RoundsStay
<1>11. RowRun(a, e, n, top, row)
  BY <1>8, <1>10 DEF RowRun, Row
<1> QED
  BY <1>2, <1>11

LEMMA RowsEndTyped ==
    ASSUME NEW a, IsArchive(a), NEW e, NEW n \in Nat, NEW top \in Int
    PROVE  RowsEnd(a, e, n, top) \in Int
<1>1. PICK g : RowRun(a, e, n, top, g) /\ RowsEnd(a, e, n, top) = g[n]
  BY RowsEndRun
<1> QED
  BY <1>1 DEF RowRun

(* The views whose top and cursor are at messages prepared, or at the top  *)
(* of a thread.                                                            *)
KnownViews(a, t) == {w \in View : Known(a, t, w.top) /\ Known(a, t, w.cursor)}

LEMMA DrawKnown ==
    ASSUME NEW a, IsArchive(a), NEW t, NEW e, NEW n \in Nat, NEW v \in KnownViews(a, t)
    PROVE  Draw(a, e, n, v) \in KnownViews(a, t) /\ Draw(a, e, n, v).cursor = v.cursor
BY RowsEndTyped DEF Draw, View, KnownViews

LEMMA ScrollKnown ==
    ASSUME NEW a, IsArchive(a), NEW t, TreeInv(a, t), NEW v \in KnownViews(a, t)
    PROVE  /\ ScrollDown(a, t.expanded, v) \in KnownViews(a, t)
           /\ ScrollDown(a, t.expanded, v).cursor = v.cursor
<1> DEFINE x == GetNext(a, t.expanded, v.top)
           y == GetNext(a, t.expanded, v.bottom)
<1>1. x \in Int /\ y \in Int
  BY RowNumbers
<1>2. Known(a, t, x)
  BY KnownNext DEF KnownViews
<1>3. ScrollDown(a, t.expanded, v) = [top |-> x, bottom |-> y, cursor |-> v.cursor]
  <2>1. ScrollDown(a, t.expanded, v) = [v EXCEPT !.top = x, !.bottom = y]
    BY DEF ScrollDown
  <2> HIDE DEF x, y
  <2> QED
    BY <2>1 DEF KnownViews, View
<1> HIDE DEF x, y
<1> QED
  BY <1>1, <1>2, <1>3 DEF KnownViews, View

LEMMA FocusKnown ==
    ASSUME NEW a, IsArchive(a), NEW t, TreeInv(a, t), NEW n \in Nat,
           NEW v \in KnownViews(a, t), NEW m \in Int, Known(a, t, m)
    PROVE  FocusOn(a, t.expanded, n, v, m) \in KnownViews(a, t)
<1> DEFINE e      == t.expanded
           top    == IF m < v.top \/ m >= v.bottom THEN m ELSE v.top
           bottom == RowsEnd(a, e, n, top)
           there  == [top |-> top, bottom |-> bottom, cursor |-> m]
           last   == IF bottom # Count(a) /\ m = GetPrev(a, e, bottom)
                     THEN ScrollDown(a, e, there) ELSE there
<1>1. FocusOn(a, e, n, v, m) = Draw(a, e, n, last)
  BY DEF FocusOn
<1>2. top \in Int /\ Known(a, t, top)
  BY DEF View, KnownViews
<1> HIDE DEF top
<1>3. bottom \in Int
  BY <1>2, RowsEndTyped
<1> HIDE DEF bottom
<1>4. there \in KnownViews(a, t)
  BY <1>2, <1>3 DEF View, KnownViews
<1> HIDE DEF there
<1>5. last \in KnownViews(a, t)
  BY <1>4, ScrollKnown
<1> HIDE DEF last
<1> QED
  BY <1>1, <1>5, DrawKnown

LEMMA ScrollTyped ==
    ASSUME NEW a, IsArchive(a), NEW e, NEW v \in View
    PROVE  ScrollDown(a, e, v) = [top    |-> GetNext(a, e, v.top),
                                  bottom |-> GetNext(a, e, v.bottom),
                                  cursor |-> v.cursor]
           /\ ScrollDown(a, e, v) \in View
<1> DEFINE x == GetNext(a, e, v.top)
           y == GetNext(a, e, v.bottom)
<1>1. x \in Int /\ y \in Int
  BY RowNumbers
<1>2. ScrollDown(a, e, v) = [v EXCEPT !.top = x, !.bottom = y]
  BY DEF ScrollDown
<1> HIDE DEF x, y
<1> QED
  BY <1>1, <1>2 DEF View, x, y

-----------------------------------------------------------------------------
(* The loops over views.                                                   *)
LoopRun(n, v, G, f) == /\ f[0] = v
                       /\ \A k \in 0..n : f[k] \in View
                       /\ \A k \in 1..n : f[k] = G[f[k - 1]]

LEMMA LoopStays ==
    ASSUME NEW n \in Nat, NEW v, NEW G, NEW f, LoopRun(n, v, G, f),
           NEW S, v \in S, \A w \in View : w \in S => G[w] \in S
    PROVE  f[n] \in S
<1>1. \A k \in 1..n : f[k - 1] \in S => f[k] \in S
  <2> SUFFICES ASSUME NEW k \in 1..n, f[k - 1] \in S PROVE f[k] \in S
    OBVIOUS
  <2>1. k - 1 \in 0..n
    OBVIOUS
  <2> QED
    BY <2>1 DEF LoopRun
<1>2. f[0] \in S
  BY DEF LoopRun
<1>3. \A k \in 0..n : f[k] \in S
  BY <1>1, <1>2, RoundsStay
<1> QED
  BY <1>3

Scrolls(a, e) ==
    [w \in View |-> IF w.cursor >= w.bottom THEN ScrollDown(a, e, w) ELSE w]
Forwards(a, e) ==
    [w \in View |-> IF w.bottom >= Count(a) THEN w
                    ELSE [top    |-> GetNext(a, e, w.top),
                          bottom |-> GetNext(a, e, w.bottom),
                          cursor |-> GetNext(a, e, w.cursor)]]
Backwards(a, e) ==
    [w \in View |-> IF w.top <= 0 THEN w
                    ELSE [top    |-> GetPrev(a, e, w.top),
                          bottom |-> GetPrev(a, e, w.bottom),
                          cursor |-> GetPrev(a, e, w.cursor)]]

LEMMA ResizeRun ==
    ASSUME NEW a, IsArchive(a), NEW e, NEW n \in Nat, NEW v \in View
    PROVE  \E f : /\ LoopRun(Count(a), Draw(a, e, n, v), Scrolls(a, e), f)
                  /\ Resize(a, e, n, v) = Draw(a, e, n, f[Count(a)])
<1> DEFINE c == Count(a)
           start == Draw(a, e, n, v)
           Body(w) == IF w.cursor >= w.bottom THEN ScrollDown(a, e, w) ELSE w
           G == [p \in Nat \X View |-> Body(p[2])]
           IsLoop(f) == f = [k \in 0..c |-> IF k = 0 THEN start ELSE Body(f[k - 1])]
           loop == CHOOSE f : IsLoop(f)
<1>0. c \in Nat
  BY ArchiveParts
<1>1. \A w \in View : Body(w) \in View /\ Scrolls(a, e)[w] = Body(w)
  BY ScrollTyped DEF Scrolls
<1>2. Resize(a, e, n, v) = Draw(a, e, n, loop[c])
  BY Zenon DEF Resize
<1>3. start \in View
  BY RowsEndTyped DEF Draw, View
<1> HIDE DEF start, c, Body
<1>4. IsRound(G, View) /\ \A k \in Nat, w \in View : G[<<k, w>>] = Body(w)
  BY <1>1 DEF IsRound
<1> HIDE DEF G
<1>5. PICK g : Rounded(c, View, start, G, g)
  BY <1>0, <1>3, <1>4, Rounds
<1>6. IsLoop(g)
  <2>1. g = [k \in 0..c |-> g[k]]
    BY <1>5 DEF Rounded
  <2>2. ASSUME NEW k \in 0..c, k # 0 PROVE g[k] = Body(g[k - 1])
    <3>1. g[k] = G[<<k, g[k - 1]>>] /\ g \in [0..c -> View]
      BY <1>5, <2>2 DEF Rounded
    <3>2. k \in Nat /\ k - 1 \in 0..c
      BY <1>0, <2>2
    <3>3. g[k - 1] \in View
      BY <3>1, <3>2
    <3> QED
      BY <1>4, <3>1, <3>2, <3>3
  <2>3. \A k \in 0..c : g[k] = IF k = 0 THEN start ELSE Body(g[k - 1])
    BY <1>5, <2>2 DEF Rounded
  <2> QED
    BY <2>1, <2>3
<1>7. IsLoop(loop)
  BY <1>6
<1> HIDE DEF loop
<1>8. /\ loop[0] = start
      /\ \A k \in 1..c : loop[k] = Body(loop[k - 1])
  BY <1>0, <1>7
<1>9. \A k \in 1..c : loop[k - 1] \in View => loop[k] \in View
  BY <1>1, <1>8, Zenon
<1>10. \A k \in 0..c : loop[k] \in View
  BY <1>0, <1>3, <1>8, <1>9, RoundsStay
<1>11. ASSUME NEW k \in 1..c PROVE loop[k] = Scrolls(a, e)[loop[k - 1]]
  <2>1. k - 1 \in 0..c
    BY <1>0
  <2> QED
    BY <1>1, <1>8, <1>10, <2>1
<1>12. LoopRun(c, start, Scrolls(a, e), loop)
  BY <1>8, <1>10, <1>11 DEF LoopRun
<1> QED
  BY <1>2, <1>12 DEF c, start

LEMMA ForwardRun ==
    ASSUME NEW a, IsArchive(a), NEW e, NEW n \in Nat \ {0}, NEW v \in View
    PROVE  \E f : /\ LoopRun(n - 1, v, Forwards(a, e), f)
                  /\ PageForward(a, e, n, v) = Draw(a, e, n, f[n - 1])
<1> DEFINE c == n - 1
           start == v
           Body(w) == IF w.bottom >= Count(a) THEN w
                      ELSE [top    |-> GetNext(a, e, w.top),
                            bottom |-> GetNext(a, e, w.bottom),
                            cursor |-> GetNext(a, e, w.cursor)]
           G == [p \in Nat \X View |-> Body(p[2])]
           IsLoop(f) == f = [k \in 0..c |-> IF k = 0 THEN start ELSE Body(f[k - 1])]
           loop == CHOOSE f : IsLoop(f)
<1>0. c \in Nat
  OBVIOUS
<1>1. \A w \in View : Body(w) \in View /\ Forwards(a, e)[w] = Body(w)
  <2>1. ASSUME NEW w \in View
        PROVE  [top |-> GetNext(a, e, w.top), bottom |-> GetNext(a, e, w.bottom),
                cursor |-> GetNext(a, e, w.cursor)] \in View
    <3>1. /\ GetNext(a, e, w.top) \in Int /\ GetNext(a, e, w.bottom) \in Int
          /\ GetNext(a, e, w.cursor) \in Int
      BY RowNumbers
    <3> QED
      BY <3>1 DEF View
  <2> QED
    BY <2>1 DEF Forwards
<1>2. PageForward(a, e, n, v) = Draw(a, e, n, loop[c])
  BY Zenon DEF PageForward
<1>3. start \in View
  OBVIOUS
<1> HIDE DEF start, c, Body
<1>4. IsRound(G, View) /\ \A k \in Nat, w \in View : G[<<k, w>>] = Body(w)
  BY <1>1 DEF IsRound
<1> HIDE DEF G
<1>5. PICK g : Rounded(c, View, start, G, g)
  BY <1>0, <1>3, <1>4, Rounds
<1>6. IsLoop(g)
  <2>1. g = [k \in 0..c |-> g[k]]
    BY <1>5 DEF Rounded
  <2>2. ASSUME NEW k \in 0..c, k # 0 PROVE g[k] = Body(g[k - 1])
    <3>1. g[k] = G[<<k, g[k - 1]>>] /\ g \in [0..c -> View]
      BY <1>5, <2>2 DEF Rounded
    <3>2. k \in Nat /\ k - 1 \in 0..c
      BY <1>0, <2>2
    <3>3. g[k - 1] \in View
      BY <3>1, <3>2
    <3> QED
      BY <1>4, <3>1, <3>2, <3>3
  <2>3. \A k \in 0..c : g[k] = IF k = 0 THEN start ELSE Body(g[k - 1])
    BY <1>5, <2>2 DEF Rounded
  <2> QED
    BY <2>1, <2>3
<1>7. IsLoop(loop)
  BY <1>6
<1> HIDE DEF loop
<1>8. /\ loop[0] = start
      /\ \A k \in 1..c : loop[k] = Body(loop[k - 1])
  BY <1>0, <1>7
<1>9. \A k \in 1..c : loop[k - 1] \in View => loop[k] \in View
  BY <1>1, <1>8, Zenon
<1>10. \A k \in 0..c : loop[k] \in View
  BY <1>0, <1>3, <1>8, <1>9, RoundsStay
<1>11. ASSUME NEW k \in 1..c PROVE loop[k] = Forwards(a, e)[loop[k - 1]]
  <2>1. k - 1 \in 0..c
    BY <1>0
  <2> QED
    BY <1>1, <1>8, <1>10, <2>1
<1>12. LoopRun(c, start, Forwards(a, e), loop)
  BY <1>8, <1>10, <1>11 DEF LoopRun
<1> QED
  BY <1>2, <1>12 DEF c, start

LEMMA BackwardRun ==
    ASSUME NEW a, IsArchive(a), NEW e, NEW n \in Nat \ {0}, NEW v \in View
    PROVE  \E f : /\ LoopRun(n - 1, v, Backwards(a, e), f)
                  /\ PageBackward(a, e, n, v) = Draw(a, e, n, f[n - 1])
<1> DEFINE c == n - 1
           start == v
           Body(w) == IF w.top <= 0 THEN w
                      ELSE [top    |-> GetPrev(a, e, w.top),
                            bottom |-> GetPrev(a, e, w.bottom),
                            cursor |-> GetPrev(a, e, w.cursor)]
           G == [p \in Nat \X View |-> Body(p[2])]
           IsLoop(f) == f = [k \in 0..c |-> IF k = 0 THEN start ELSE Body(f[k - 1])]
           loop == CHOOSE f : IsLoop(f)
<1>0. c \in Nat
  OBVIOUS
<1>1. \A w \in View : Body(w) \in View /\ Backwards(a, e)[w] = Body(w)
  <2>1. ASSUME NEW w \in View
        PROVE  [top |-> GetPrev(a, e, w.top), bottom |-> GetPrev(a, e, w.bottom),
                cursor |-> GetPrev(a, e, w.cursor)] \in View
    <3>1. /\ GetPrev(a, e, w.top) \in Int /\ GetPrev(a, e, w.bottom) \in Int
          /\ GetPrev(a, e, w.cursor) \in Int
      BY RowNumbers
    <3> QED
      BY <3>1 DEF View
  <2> QED
    BY <2>1 DEF Backwards
<1>2. PageBackward(a, e, n, v) = Draw(a, e, n, loop[c])
  BY Zenon DEF PageBackward
<1>3. start \in View
  OBVIOUS
<1> HIDE DEF start, c, Body
<1>4. IsRound(G, View) /\ \A k \in Nat, w \in View : G[<<k, w>>] = Body(w)
  BY <1>1 DEF IsRound
<1> HIDE DEF G
<1>5. PICK g : Rounded(c, View, start, G, g)
  BY <1>0, <1>3, <1>4, Rounds
<1>6. IsLoop(g)
  <2>1. g = [k \in 0..c |-> g[k]]
    BY <1>5 DEF Rounded
  <2>2. ASSUME NEW k \in 0..c, k # 0 PROVE g[k] = Body(g[k - 1])
    <3>1. g[k] = G[<<k, g[k - 1]>>] /\ g \in [0..c -> View]
      BY <1>5, <2>2 DEF Rounded
    <3>2. k \in Nat /\ k - 1 \in 0..c
      BY <1>0, <2>2
    <3>3. g[k - 1] \in View
      BY <3>1, <3>2
    <3> QED
      BY <1>4, <3>1, <3>2, <3>3
  <2>3. \A k \in 0..c : g[k] = IF k = 0 THEN start ELSE Body(g[k - 1])
    BY <1>5, <2>2 DEF Rounded
  <2> QED
    BY <2>1, <2>3
<1>7. IsLoop(loop)
  BY <1>6
<1> HIDE DEF loop
<1>8. /\ loop[0] = start
      /\ \A k \in 1..c : loop[k] = Body(loop[k - 1])
  BY <1>0, <1>7
<1>9. \A k \in 1..c : loop[k - 1] \in View => loop[k] \in View
  BY <1>1, <1>8, Zenon
<1>10. \A k \in 0..c : loop[k] \in View
  BY <1>0, <1>3, <1>8, <1>9, RoundsStay
<1>11. ASSUME NEW k \in 1..c PROVE loop[k] = Backwards(a, e)[loop[k - 1]]
  <2>1. k - 1 \in 0..c
    BY <1>0
  <2> QED
    BY <1>1, <1>8, <1>10, <2>1
<1>12. LoopRun(c, start, Backwards(a, e), loop)
  BY <1>8, <1>10, <1>11 DEF LoopRun
<1> QED
  BY <1>2, <1>12 DEF c, start
-----------------------------------------------------------------------------
(* The keys of ThreadView keep to known messages.                          *)

LEMMA ResizeKnown ==
    ASSUME NEW a, IsArchive(a), NEW t, TreeInv(a, t), NEW n \in Nat,
           NEW v \in KnownViews(a, t)
    PROVE  /\ Resize(a, t.expanded, n, v) \in KnownViews(a, t)
           /\ Resize(a, t.expanded, n, v).cursor = v.cursor
<1> DEFINE e == t.expanded
           V == {w \in KnownViews(a, t) : w.cursor = v.cursor}
           start == Draw(a, e, n, v)
<1>1. v \in View /\ Count(a) \in Nat
  BY ArchiveParts DEF KnownViews
<1>2. PICK f : /\ LoopRun(Count(a), start, Scrolls(a, e), f)
               /\ Resize(a, e, n, v) = Draw(a, e, n, f[Count(a)])
  BY <1>1, ResizeRun
<1>3. start \in V
  BY DrawKnown
<1>4. \A w \in View : w \in V => Scrolls(a, e)[w] \in V
  BY ScrollKnown DEF Scrolls
<1> HIDE DEF V, start
<1>5. f[Count(a)] \in V
  BY <1>1, <1>2, <1>3, <1>4, LoopStays
<1> QED
  BY <1>2, <1>5, DrawKnown DEF V

LEMMA PageForwardKnown ==
    ASSUME NEW a, IsArchive(a), NEW t, TreeInv(a, t), NEW n \in Nat \ {0},
           NEW v \in KnownViews(a, t)
    PROVE  PageForward(a, t.expanded, n, v) \in KnownViews(a, t)
<1> DEFINE e == t.expanded
           V == KnownViews(a, t)
<1>1. v \in View /\ n - 1 \in Nat
  BY DEF KnownViews
<1>2. PICK f : /\ LoopRun(n - 1, v, Forwards(a, e), f)
               /\ PageForward(a, e, n, v) = Draw(a, e, n, f[n - 1])
  BY <1>1, ForwardRun
<1>3. ASSUME NEW w \in View, w \in V PROVE Forwards(a, e)[w] \in V
  <2> DEFINE x == GetNext(a, e, w.top)
             y == GetNext(a, e, w.bottom)
             z == GetNext(a, e, w.cursor)
  <2>1. x \in Int /\ y \in Int /\ z \in Int
    BY RowNumbers
  <2>2. Known(a, t, x) /\ Known(a, t, z)
    BY <1>3, KnownNext DEF KnownViews
  <2>3. Forwards(a, e)[w] = IF w.bottom >= Count(a) THEN w
                            ELSE [top |-> x, bottom |-> y, cursor |-> z]
    BY DEF Forwards
  <2> HIDE DEF x, y, z
  <2>4. [top |-> x, bottom |-> y, cursor |-> z] \in V
    BY <2>1, <2>2 DEF KnownViews, View
  <2> QED
    BY <1>3, <2>3, <2>4
<1> HIDE DEF V
<1>4. f[n - 1] \in V
  BY <1>1, <1>2, <1>3, LoopStays DEF V
<1> QED
  BY <1>2, <1>4, DrawKnown DEF V

LEMMA PageBackwardKnown ==
    ASSUME NEW a, IsArchive(a), NEW t, TreeInv(a, t), NEW n \in Nat \ {0},
           NEW v \in KnownViews(a, t)
    PROVE  PageBackward(a, t.expanded, n, v) \in KnownViews(a, t)
<1> DEFINE e == t.expanded
           V == KnownViews(a, t)
<1>1. v \in View /\ n - 1 \in Nat
  BY DEF KnownViews
<1>2. PICK f : /\ LoopRun(n - 1, v, Backwards(a, e), f)
               /\ PageBackward(a, e, n, v) = Draw(a, e, n, f[n - 1])
  BY <1>1, BackwardRun
<1>3. ASSUME NEW w \in View, w \in V PROVE Backwards(a, e)[w] \in V
  <2> DEFINE x == GetPrev(a, e, w.top)
             y == GetPrev(a, e, w.bottom)
             z == GetPrev(a, e, w.cursor)
  <2>1. x \in Int /\ y \in Int /\ z \in Int
    BY RowNumbers
  <2>2. Known(a, t, x) /\ Known(a, t, z)
    BY <1>3, KnownPrev DEF KnownViews
  <2>3. Backwards(a, e)[w] = IF w.top <= 0 THEN w
                            ELSE [top |-> x, bottom |-> y, cursor |-> z]
    BY DEF Backwards
  <2> HIDE DEF x, y, z
  <2>4. [top |-> x, bottom |-> y, cursor |-> z] \in V
    BY <2>1, <2>2 DEF KnownViews, View
  <2> QED
    BY <1>3, <2>3, <2>4
<1> HIDE DEF V
<1>4. f[n - 1] \in V
  BY <1>1, <1>2, <1>3, LoopStays DEF V
<1> QED
  BY <1>2, <1>4, DrawKnown DEF V

LEMMA MoveKnown ==
    ASSUME NEW a, IsArchive(a), NEW t, TreeInv(a, t), NEW n \in Nat,
           NEW v \in KnownViews(a, t)
    PROVE  /\ MoveCursorDown(a, t.expanded, n, v) \in KnownViews(a, t)
           /\ MoveCursorUp(a, t.expanded, n, v) \in KnownViews(a, t)
           /\ MoveCursorTop(a, t.expanded, n, v) \in KnownViews(a, t)
           /\ MoveCursorBottom(a, t.expanded, n, v) \in KnownViews(a, t)
<1> DEFINE e == t.expanded
           V == KnownViews(a, t)
           next == GetNext(a, e, v.cursor)
           up == GetPrev(a, e, v.top)
           before == GetPrev(a, e, v.cursor)
           upper == GetPrev(a, e, v.bottom)
<1>1. /\ v.top \in Int /\ v.bottom \in Int /\ v.cursor \in Int
      /\ Known(a, t, v.top) /\ Known(a, t, v.cursor)
      /\ v = [top |-> v.top, bottom |-> v.bottom, cursor |-> v.cursor]
  BY DEF KnownViews, View
<1>2. /\ next \in Int /\ up \in Int /\ before \in Int /\ upper \in Int
      /\ Known(a, t, next) /\ Known(a, t, up) /\ Known(a, t, before) /\ Known(a, t, upper)
  BY <1>1, RowNumbers, KnownNext, KnownPrev
<1>3. /\ [v EXCEPT !.cursor = next] \in V
      /\ MoveCursorDown(a, e, n, v) = Draw(a, e, n,
             IF next = Count(a) THEN v
             ELSE IF next = v.bottom THEN ScrollDown(a, e, [v EXCEPT !.cursor = next])
             ELSE [v EXCEPT !.cursor = next])
  <2>1. MoveCursorDown(a, e, n, v) = Draw(a, e, n,
             IF next = Count(a) THEN v
             ELSE IF next = v.bottom THEN ScrollDown(a, e, [v EXCEPT !.cursor = next])
             ELSE [v EXCEPT !.cursor = next])
    BY DEF MoveCursorDown
  <2> HIDE DEF next
  <2> QED
    BY <1>1, <1>2, <2>1 DEF KnownViews, View
<1>4. MoveCursorDown(a, e, n, v) \in V
  <2> HIDE DEF next
  <2>1. ScrollDown(a, e, [v EXCEPT !.cursor = next]) \in V
    BY <1>3, ScrollKnown
  <2> QED
    BY <1>3, <2>1, DrawKnown
<1>5. MoveCursorUp(a, e, n, v) \in V
  <2> DEFINE w == IF v.cursor = 0 THEN v
                  ELSE IF v.cursor = v.top THEN [top |-> up, bottom |-> upper, cursor |-> up]
                  ELSE [v EXCEPT !.cursor = before]
  <2>1. MoveCursorUp(a, e, n, v) = Draw(a, e, n, w)
    BY DEF MoveCursorUp
  <2> HIDE DEF up, before, upper
  <2>2. w \in V
    BY <1>1, <1>2 DEF KnownViews, View
  <2> HIDE DEF w
  <2> QED
    BY <2>1, <2>2, DrawKnown
<1>6. MoveCursorTop(a, e, n, v) \in V
  <2>1. [v EXCEPT !.cursor = v.top] \in V
    BY <1>1 DEF KnownViews, View
  <2> QED
    BY <2>1, DrawKnown DEF MoveCursorTop
<1>7. MoveCursorBottom(a, e, n, v) \in V
  <2> DEFINE w == [v EXCEPT !.cursor = upper]
  <2>1. MoveCursorBottom(a, e, n, v) = Draw(a, e, n, w)
    BY DEF MoveCursorBottom
  <2> HIDE DEF upper
  <2>2. w \in V
    BY <1>1, <1>2 DEF KnownViews, View
  <2> HIDE DEF w
  <2> QED
    BY <2>1, <2>2, DrawKnown
<1> QED
  BY <1>4, <1>5, <1>6, <1>7

(* A walk down the rows that lands where it may stop.                      *)
Landed(c, stop, next, d, f) == f = [i \in d..c |-> IF i \in stop THEN i ELSE f[next[i]]]

WalksDown(c, stop, next, S) ==
    /\ c \in stop
    /\ \A i \in 0..c : i \notin stop => next[i] \in (i + 1)..c /\ (i \in S => next[i] \in S)

LEMMA Landing ==
    ASSUME NEW c \in Nat, NEW stop, NEW next, NEW S, WalksDown(c, stop, next, S)
    PROVE  /\ \E f : Landed(c, stop, next, 0, f)
           /\ \A f : Landed(c, stop, next, 0, f) =>
                 \A i \in 0..c : f[i] \in 0..c /\ (i \in S => f[i] \in S)
<1> DEFINE Land(f, d) == f = [i \in d..c |-> IF i \in stop THEN i ELSE f[next[i]]]
<1>0. /\ c \in stop
      /\ \A i \in 0..c : i \notin stop => next[i] \in (i + 1)..c
      /\ \A i \in 0..c : i \notin stop /\ i \in S => next[i] \in S
  BY DEF WalksDown
<1>3. \A f, d : Land(f, d) <=> Landed(c, stop, next, d, f)
  BY DEF Landed
<1>1. \E f : Land(f, 0)
  <2> DEFINE T == {k \in Nat : k <= c /\ ~ \E f : Land(f, c - k)}
  <2> SUFFICES ASSUME T # {} PROVE FALSE
    <3>1. c \notin T
      OBVIOUS
    <3>2. c - c = 0
      OBVIOUS
    <3> HIDE DEF Land
    <3>3. \E f : Land(f, c - c)
      BY <3>1
    <3> QED
      BY <3>2, <3>3
  <2>1. PICK k \in T : \A m \in T : ~(m < k)
    BY LeastNumber
  <2>2. k \in Nat /\ k <= c /\ ~ \E f : Land(f, c - k)
    BY <2>1
  <2>3. CASE k = 0
    <3> DEFINE f == [i \in c..c |-> i]
    <3>1. Land(f, c)
      BY <1>0
    <3>2. c - k = c
      BY <2>3
    <3> HIDE DEF Land, f
    <3> QED
      BY <2>2, <3>1, <3>2
  <2>4. CASE k # 0
    <3> HIDE DEF Land
    <3>0. k \in Nat /\ k <= c
      BY <2>2
    <3>1. k - 1 \in Nat /\ k - 1 <= c /\ k - 1 \notin T
      <4> HIDE DEF T
      <4> QED
        BY <2>1, <2>4, <3>0
    <3> USE DEF Land
    <3> DEFINE d == c - k
    <3>2. c - (k - 1) = d + 1 /\ d \in Nat /\ d < c
      <4>1. k \in Nat /\ k <= c
        BY <2>2
      <4> HIDE DEF Land
      <4> QED
        BY <2>4, <4>1
    <3>3. \E g : Land(g, c - (k - 1))
      <4> HIDE DEF Land
      <4> QED
        BY <3>1
    <3>4. PICK g : Land(g, d + 1)
      <4> HIDE DEF Land, d
      <4> QED
        BY <3>2, <3>3
    <3> HIDE DEF d
    <3> DEFINE f == [i \in d..c |-> IF i = d THEN (IF d \in stop THEN d ELSE g[next[d]]) ELSE g[i]]
    <3>5. \A i \in (d + 1)..c : g[i] = IF i \in stop THEN i ELSE g[next[i]]
      BY <3>4
    <3>6. \A i \in d..c : i # d => i \in (d + 1)..c /\ f[i] = g[i]
      BY <3>2
    <3>7. \A i \in d..c : i \notin stop => next[i] \in (d + 1)..c /\ f[next[i]] = g[next[i]]
      BY <1>0, <3>2
    <3>8. \A i \in d..c : f[i] = IF i \in stop THEN i ELSE f[next[i]]
      BY <1>0, <3>2, <3>5, <3>6, <3>7
    <3>9. f = [i \in d..c |-> f[i]]
      OBVIOUS
    <3> HIDE DEF f
    <3>10. Land(f, d)
      BY <3>8, <3>9
    <3> HIDE DEF Land
    <3> QED
      BY <2>2, <3>10 DEF d
  <2> QED
    BY <2>3, <2>4
<1>2. ASSUME NEW f, Land(f, 0), NEW i \in 0..c
      PROVE  f[i] \in 0..c /\ (i \in S => f[i] \in S)
  <2> DEFINE Bad == {k \in Nat : k <= c /\ ~(f[c - k] \in 0..c /\ (c - k \in S => f[c - k] \in S))}
  <2>0. \A j \in 0..c : f[j] = IF j \in stop THEN j ELSE f[next[j]]
    BY <1>2
  <2>1. ASSUME Bad # {} PROVE FALSE
    <3>1. PICK k \in Bad : \A m \in Bad : ~(m < k)
      BY <2>1, LeastNumber
    <3> DEFINE j == c - k
    <3>2. k \in Nat /\ k <= c /\ ~(f[j] \in 0..c /\ (j \in S => f[j] \in S))
      BY <3>1
    <3>3. j \in 0..c
      BY <3>2
    <3>4. j \notin stop
      BY <1>0, <2>0, <3>2, <3>3
    <3> DEFINE s == next[j]
    <3>5. s \in (j + 1)..c /\ f[j] = f[s] /\ (j \in S => s \in S)
      BY <1>0, <2>0, <3>3, <3>4
    <3>6. c - s \in Nat /\ c - s < k /\ c - s <= c /\ c - (c - s) = s
      BY <3>2, <3>3, <3>5
    <3>7. c - s \notin Bad
      BY <3>1, <3>6
    <3>8. f[s] \in 0..c /\ (s \in S => f[s] \in S)
      BY <3>6, <3>7
    <3> QED
      BY <3>2, <3>5, <3>8
  <2>2. c - i \in Nat /\ c - i <= c /\ c - (c - i) = i
    OBVIOUS
  <2>3. c - i \notin Bad
    BY <2>1
  <2> QED
    BY <2>2, <2>3
<1> HIDE DEF Land
<1> QED
  BY <1>1, <1>2, <1>3

(* What is gone to is reached by going down, row by row, from the cursor.   *)
LEMMA UnreadLands ==
    ASSUME NEW a, IsArchive(a), NEW e, NEW n, NEW v, v.cursor \in Msg(a), NEW seen,
           NEW S, \A i \in Msg(a) : i \in S => GetNext(a, e, i) \in S, v.cursor \in S
    PROVE  \E at \in 0..Count(a) :
              /\ at \in S
              /\ GoNextUnread(a, e, n, v, seen) =
                    FocusOn(a, e, n, v, IF at = Count(a) THEN GetPrev(a, e, at) ELSE at)
<1> DEFINE c == Count(a)
           stop == {i \in 0..c : i = c \/ i \notin seen}
           next == [i \in 0..c |-> GetNext(a, e, i)]
           Land(f) == f = [i \in 0..c |-> IF i = c \/ i \notin seen THEN i
                                          ELSE f[GetNext(a, e, i)]]
           land == CHOOSE f : Land(f)
           from == GetNext(a, e, v.cursor)
           at == land[from]
<1>1. c \in Nat /\ Msg(a) = 0..(c - 1)
  BY ArchiveParts
<1>2. GoNextUnread(a, e, n, v, seen) =
         FocusOn(a, e, n, v, IF at = c THEN GetPrev(a, e, at) ELSE at)
  BY Zenon DEF GoNextUnread
<1>3. WalksDown(c, stop, next, S)
  <2> SUFFICES ASSUME NEW i \in 0..c, i \notin stop
               PROVE  next[i] \in (i + 1)..c /\ (i \in S => next[i] \in S)
    BY <1>1 DEF WalksDown
  <2>1. i \in Msg(a) /\ next[i] = GetNext(a, e, i)
    BY <1>1
  <2>2. GetNext(a, e, i) \in 1..c /\ i < GetNext(a, e, i)
    BY <2>1, RowNumbers
  <2> HIDE DEF c, next, stop
  <2> QED
    BY <1>1, <2>1, <2>2
<1>4. \A f : Land(f) <=> Landed(c, stop, next, 0, f)
  <2> SUFFICES ASSUME NEW f
               PROVE  [i \in 0..c |-> IF i = c \/ i \notin seen THEN i
                                      ELSE f[GetNext(a, e, i)]]
                      = [i \in 0..c |-> IF i \in stop THEN i ELSE f[next[i]]]
    BY DEF Landed
  <2> HIDE DEF c
  <2> QED
    OBVIOUS
<1>5. Land(land)
  <2>1. \E f : Land(f)
    <3> HIDE DEF Land, c, stop, next
    <3> QED
      BY <1>1, <1>3, <1>4, Landing
  <2> HIDE DEF Land
  <2> QED
    BY <2>1
<1> HIDE DEF land
<1>6. from \in 0..c /\ from \in S
  <2>1. from \in 1..c
    BY RowNumbers
  <2> HIDE DEF c
  <2> QED
    BY <1>1, <2>1
<1>7. at \in 0..c /\ at \in S
  <2>1. Landed(c, stop, next, 0, land)
    BY <1>4, <1>5
  <2> HIDE DEF Land, c, stop, next, from
  <2> QED
    BY <1>1, <1>3, <1>6, <2>1, Landing
<1> HIDE DEF at
<1> QED
  BY <1>2, <1>7

LEMMA UnreadKnown ==
    ASSUME NEW a, IsArchive(a), NEW t, TreeInv(a, t), NEW n \in Nat,
           NEW v \in KnownViews(a, t), v.cursor \in Msg(a), NEW seen
    PROVE  GoNextUnread(a, t.expanded, n, v, seen) \in KnownViews(a, t)
<1> DEFINE e == t.expanded
           S == {i \in Int : Known(a, t, i)}
<1>1. v.cursor \in S
  BY ArchiveParts DEF KnownViews
<1>2. \A i \in Msg(a) : i \in S => GetNext(a, e, i) \in S
  BY RowNumbers, KnownNext
<1> HIDE DEF S
<1>3. PICK at \in 0..Count(a) :
         /\ at \in S
         /\ GoNextUnread(a, e, n, v, seen) =
               FocusOn(a, e, n, v, IF at = Count(a) THEN GetPrev(a, e, at) ELSE at)
  BY <1>1, <1>2, UnreadLands
<1> DEFINE to == IF at = Count(a) THEN GetPrev(a, e, at) ELSE at
<1>4. to \in Int /\ Known(a, t, to)
  <2>1. GetPrev(a, e, at) \in Int /\ Known(a, t, GetPrev(a, e, at))
    BY RowNumbers, KnownPrev
  <2>2. at \in Int /\ Known(a, t, at)
    BY <1>3 DEF S
  <2> QED
    BY <2>1, <2>2
<1> HIDE DEF to
<1> QED
  BY <1>3, <1>4, FocusKnown DEF to

(* Views stay known when a tree is given more rows.                        *)
LEMMA MoreKnown ==
    ASSUME NEW a, NEW t, NEW u, \A k \in Msg(a) : t.valid[k] => u.valid[k]
    PROVE  /\ \A c : Known(a, t, c) => Known(a, u, c)
           /\ KnownViews(a, t) \subseteq KnownViews(a, u)
BY DEF Known, KnownViews

LEMMA ExpandMore ==
    ASSUME NEW a, IsArchive(a), NEW t, TreeInv(a, t), NEW m, NEW recursive \in BOOLEAN
    PROVE  \A k \in Msg(a) : t.valid[k] => Expand(a, t, m, recursive).valid[k]
<1> DEFINE u == ExpandImpl(a, t, m, recursive)
           depth == IF recursive THEN Depth(a, m) ELSE 1
<1>1. ExpandsTo(a, t, Opened(a, m, recursive), Fresh(a, t, m, recursive), u)
  BY ExpandParts DEF TreeInv
<1>2. TreeForm(a, u) /\ \A k \in Msg(a) : t.valid[k] => u.valid[k]
  BY <1>1 DEF ExpandsTo
<1>3. Expand(a, t, m, recursive) = Condense(a, u, m, depth)
  BY DEF Expand
<1> HIDE DEF u, depth
<1>4. Condense(a, u, m, depth).valid = u.valid
  BY <1>2, CondenseParts
<1> QED
  BY <1>2, <1>3, <1>4

LEMMA CollapseMore == ASSUME NEW t, NEW m PROVE Collapse(t, m).valid = t.valid
BY DEF Collapse

(* SwitchToMessage prepares the thread of the message it goes to.          *)
LEMMA SwitchRight ==
    ASSUME NEW a, IsArchive(a), NEW t, TreeInv(a, t), NEW n \in Nat,
           NEW v \in KnownViews(a, t), NEW m \in Int
    PROVE  LET to == SwitchToMessage(a, t, n, v, m)
           IN  TreeInv(a, to.tree) /\ to.view \in KnownViews(a, to.tree)
<1> DEFINE root == GetRoot(a, m)
           opens == m \in Msg(a) /\ m # root /\ CanExpand(a, root) /\ ~t.expanded[root]
           t1 == IF opens THEN Expand(a, t, root, TRUE) ELSE t
<1>1. SwitchToMessage(a, t, n, v, m) = [tree |-> t1, view |-> FocusOn(a, t1.expanded, n, v, m)]
  BY DEF SwitchToMessage
<1>2. m \in Msg(a) => /\ root \in Msg(a) /\ a.parent[root] = NoParent /\ GetRoot(a, root) = root
                      /\ m # root => CanExpand(a, root)
  <2> SUFFICES ASSUME m \in Msg(a)
               PROVE  /\ root \in Msg(a) /\ a.parent[root] = NoParent /\ GetRoot(a, root) = root
                      /\ m # root => CanExpand(a, root)
    OBVIOUS
  <2>1. root \in Msg(a) /\ a.parent[root] = NoParent /\ root <= m /\ m < root + a.total[root]
    BY RootIsTop
  <2>2. GetRoot(a, root) = root
    BY <2>1, ParentIs
  <2>3. root \in Nat /\ m \in Nat /\ a.total[root] \in Nat
    BY <2>1, ArchiveParts
  <2> HIDE DEF root
  <2>4. m # root => a.total[root] > 1
    BY <2>1, <2>3
  <2> QED
    BY <2>1, <2>2, <2>4 DEF CanExpand
<1>3. opens => TreeInv(a, Expand(a, t, root, TRUE)) /\ Expand(a, t, root, TRUE).valid[root]
  <2> HIDE DEF root
  <2> QED
    BY <1>2, ExpandRight
<1>4. TreeInv(a, t1) /\ \A k \in Msg(a) : t.valid[k] => t1.valid[k]
  BY <1>3, ExpandMore
<1>5. Known(a, t1, m)
  <2> SUFFICES ASSUME m \in Msg(a), m # root PROVE t1.valid[m]
    BY DEF Known
  <2>1. RowRight(a, t1, m) /\ RowRight(a, t1, root)
    BY <1>2, <1>4 DEF TreeInv
  <2>2. t1.valid[root]
    <3>1. CASE t.expanded[root]
      BY <1>2, <2>1, <3>1 DEF RowRight
    <3>2. CASE ~t.expanded[root]
      <4>1. opens
        BY <1>2, <3>2
      <4> QED
        BY <1>3, <4>1
    <3> QED
      BY <3>1, <3>2
  <2> QED
    BY <2>1, <2>2 DEF RowRight
<1>6. v \in KnownViews(a, t1)
  BY <1>4, MoreKnown
<1> HIDE DEF t1
<1>7. FocusOn(a, t1.expanded, n, v, m) \in KnownViews(a, t1)
  BY <1>4, <1>5, <1>6, FocusKnown
<1> QED
  BY <1>1, <1>4, <1>7

LEMMA ReopenRight ==
    ASSUME NEW a, IsArchive(a), NEW saved \in Seq(Nat), NEW n \in Nat, NEW bottom \in Int
    PROVE  LET at == Reopen(a, saved, n, bottom)
           IN  TreeInv(a, at.tree) /\ at.view \in KnownViews(a, at.tree)
<1> DEFINE fresh == [top |-> 0, bottom |-> bottom, cursor |-> 0]
           m == Min({Count(a) - 1, saved[Len(saved)]})
           t == NewTree(a)
<1>1. Reopen(a, saved, n, bottom) = IF saved = <<>> THEN [tree |-> t, view |-> fresh]
                                    ELSE SwitchToMessage(a, t, n, fresh, m)
  BY DEF Reopen
<1>2. TreeInv(a, t)
  BY NewTreeRight
<1>3. Known(a, t, 0)
  <2>1. 0 \in Msg(a) /\ GetRoot(a, 0) \in Nat /\ GetRoot(a, 0) <= 0
    BY RootIsTop, ArchiveParts
  <2> QED
    BY <2>1 DEF Known
<1> HIDE DEF t
<1>4. fresh \in KnownViews(a, t)
  BY <1>3 DEF KnownViews, View
<1> HIDE DEF fresh
<1>5. saved # <<>> => m \in Int
  <2> SUFFICES ASSUME saved # <<>> PROVE m \in Int
    OBVIOUS
  <2>1. saved[Len(saved)] \in Nat /\ Count(a) - 1 \in Nat
    BY ArchiveParts
  <2>2. {Count(a) - 1, saved[Len(saved)]} \in SUBSET Nat
        /\ {Count(a) - 1, saved[Len(saved)]} # {}
    BY <2>1
  <2>3. m \in {Count(a) - 1, saved[Len(saved)]}
    BY <2>2, LeastOf
  <2> QED
    BY <2>1, <2>3
<1> HIDE DEF m
<1> DEFINE to == SwitchToMessage(a, t, n, fresh, m)
<1>6. saved # <<>> => TreeInv(a, to.tree) /\ to.view \in KnownViews(a, to.tree)
  BY <1>2, <1>4, <1>5, SwitchRight
<1> DEFINE at == Reopen(a, saved, n, bottom)
<1>7. CASE saved = <<>>
  <2>1. at = [tree |-> t, view |-> fresh]
    BY <1>1, <1>7
  <2> HIDE DEF at
  <2>2. at.tree = t /\ at.view = fresh
    BY <2>1
  <2> USE DEF at
  <2> QED
    BY <1>2, <1>4, <2>2
<1>8. CASE saved # <<>>
  <2>1. at = to
    BY <1>1, <1>8
  <2> HIDE DEF to
  <2> QED
    BY <1>6, <1>8, <2>1
<1> QED
  BY <1>7, <1>8
-----------------------------------------------------------------------------
(* The keys of Browser, and the invariant of the tree.                     *)

(* The tree and the list, and what the keys that move them depend on.      *)
ListInv == /\ archive \in Archives /\ rows \in FullRows \cup SplitRows
           /\ TreeInv(archive, tree) /\ view \in KnownViews(archive, tree)

PastInv == /\ mview \in [shown : Msg(archive) \cup {NotShown}, active : BOOLEAN]
           /\ history \in Seq(Nat) /\ Len(history) <= HistorySize
           /\ historyIdx \in -1..(Len(history) - 1)

(* The invariant is what the run checks of the tree.                       *)
LEMMA TreeInvRight == ASSUME ListInv, PastInv PROVE TreeRight
<1>1. IsArchive(archive) /\ HistorySize \in Nat
  BY BrowserAssumption DEF ListInv
<1>2. TypeOK
  BY <1>1 DEF TypeOK, ListInv, PastInv, TreeInv, TreeForm, KnownViews, View
<1>3. ASSUME NEW m \in Msg(archive)
      PROVE  LET root   == GetRoot(archive, m)
                 levels == {k \in {m} \cup archive.above[m] : archive.parent[k] # NoParent}
             IN  IF ~tree.valid[root] THEN tree.line[m] = <<>> /\ tree.condensed[m] = 0
                 ELSE /\ tree.line[m] = Lines(archive, levels)
                      /\ tree.condensed[m] = IF Depth(archive, root) > CondensedDepthThreshold
                                             THEN CondensedValue(Depth(archive, root))
                                             ELSE 0
  <2>1. RowRight(archive, tree, m)
    BY DEF ListInv, TreeInv
  <2> QED
    BY <2>1 DEF RowRight, Lifted, CondensedTo
<1> QED
  BY <1>2, <1>3 DEF TreeRight

(* What is in the history does not depend on the list.                     *)
LEMMA PushTyped ==
    ASSUME NEW h \in Seq(Nat), Len(h) <= HistorySize, NEW m \in Nat
    PROVE  /\ PushBack(h, m) \in Seq(Nat) /\ Len(PushBack(h, m)) <= HistorySize
           /\ Len(PushBack(h, m)) \in Nat \ {0}
<1>1. HistorySize \in Nat /\ HistorySize >= 1
  BY BrowserAssumption
<1>2. CASE Len(h) # HistorySize
  BY <1>1, <1>2 DEF PushBack
<1>3. CASE Len(h) = HistorySize
  <2>1. h # <<>>
    BY <1>1, <1>3
  <2>2. Tail(h) \in Seq(Nat) /\ Len(Tail(h)) = Len(h) - 1
    BY <2>1
  <2>3. PushBack(h, m) = Append(Tail(h), m)
    BY <1>3 DEF PushBack
  <2> HIDE DEF PushBack
  <2> QED
    BY <1>1, <1>3, <2>2, <2>3
<1> QED
  BY <1>2, <1>3

LEMMA EnterRight ==
    ASSUME ListInv, PastInv, NEW t, TreeInv(archive, t), NEW v \in KnownViews(archive, t),
           v.cursor \in Msg(archive), MoveOrEnter(t, v)
    PROVE  ListInv' /\ PastInv'
<1> DEFINE c   == v.cursor
           new == mview.shown # c
           opens == new /\ CanExpand(archive, c) /\ ~t.expanded[c] /\ archive.parent[c] = NoParent
           t1  == IF opens THEN Expand(archive, t, c, TRUE) ELSE t
           v1  == IF mview.active THEN v ELSE Resize(archive, t.expanded, rows', v)
<1>1. /\ mview' = [shown |-> c, active |-> TRUE]
      /\ rows' \in IF mview.active THEN {rows} ELSE RowsOf(TRUE)
      /\ tree' = t1
      /\ view' = IF new THEN FocusOn(archive, t1.expanded, rows', v1, c) ELSE v1
      /\ archive' = archive
  BY DEF MoveOrEnter
<1>2. IsArchive(archive) /\ archive \in Archives /\ c \in Nat
  BY BrowserAssumption, ArchiveParts DEF ListInv
<1>3. rows' \in FullRows \cup SplitRows /\ rows' \in Nat
  BY <1>1, BrowserAssumption DEF ListInv, RowsOf
<1>4. opens => TreeInv(archive, Expand(archive, t, c, TRUE))
  BY <1>2, ExpandRight
<1>5. TreeInv(archive, t1) /\ \A k \in Msg(archive) : t.valid[k] => t1.valid[k]
  BY <1>2, <1>4, ExpandMore
<1>6. v1 \in KnownViews(archive, t)
  BY <1>2, <1>3, ResizeKnown
<1>7. Known(archive, t1, c)
  BY <1>5, MoreKnown DEF KnownViews
<1> HIDE DEF t1, v1, c
<1>8. v1 \in KnownViews(archive, t1)
  <2>1. KnownViews(archive, t) \subseteq KnownViews(archive, t1)
    BY <1>5, MoreKnown
  <2> QED
    BY <1>6, <2>1
<1>9. FocusOn(archive, t1.expanded, rows', v1, c) \in KnownViews(archive, t1)
  BY <1>2, <1>3, <1>5, <1>7, <1>8, FocusKnown
<1>10. ListInv'
  <2>1. view' \in KnownViews(archive, t1)
    BY <1>1, <1>8, <1>9
  <2> QED
    BY <1>1, <1>2, <1>3, <1>5, <2>1 DEF ListInv
<1>11. PastInv'
  <2>1. mview' \in [shown : Msg(archive) \cup {NotShown}, active : BOOLEAN]
    BY <1>1 DEF c
  <2>2. CASE new /\ (history = <<>> \/ history[Len(history)] # c)
    <3>1. history' = PushBack(history, c) /\ historyIdx' = Len(history') - 1
      BY <2>2 DEF MoveOrEnter, c
    <3>2. history' \in Seq(Nat) /\ Len(history') <= HistorySize /\ Len(history') \in Nat \ {0}
      BY <1>2, <3>1, PushTyped DEF PastInv
    <3>3. historyIdx' \in -1..(Len(history') - 1)
      BY <3>1, <3>2
    <3> QED
      BY <1>1, <2>1, <3>2, <3>3 DEF PastInv
  <2>3. CASE ~(new /\ (history = <<>> \/ history[Len(history)] # c))
    <3>1. UNCHANGED past
      BY <2>3 DEF MoveOrEnter, c
    <3> QED
      BY <1>1, <2>1, <3>1 DEF PastInv, past
  <2> QED
    BY <2>2, <2>3
<1> QED
  BY <1>10, <1>11

(* The list goes on over the same tree, or one with other rows.            *)
LEMMA TreeKnown ==
    ASSUME NEW a, NEW t, NEW u, u.valid = t.valid, NEW v \in KnownViews(a, t)
    PROVE  v \in KnownViews(a, u)
BY DEF KnownViews, Known

LEMMA ToggleRight ==
    ASSUME NEW a, IsArchive(a), NEW t, TreeInv(a, t), NEW c \in Msg(a), Known(a, t, c)
    PROVE  LET u == Expand(a, t, c, a.parent[c] = NoParent)
           IN  TreeInv(a, u) /\ \A k \in Msg(a) : t.valid[k] => u.valid[k]
<1> DEFINE recursive == a.parent[c] = NoParent
<1>1. recursive \/ t.valid[GetRoot(a, c)]
  <2> SUFFICES ASSUME ~recursive PROVE t.valid[GetRoot(a, c)]
    OBVIOUS
  <2>1. t.valid[c] /\ RowRight(a, t, c)
    BY ParentIs DEF Known, TreeInv
  <2> QED
    BY <2>1 DEF RowRight
<1>2. recursive \in BOOLEAN /\ (recursive <=> a.parent[c] = NoParent)
  OBVIOUS
<1> HIDE DEF recursive
<1>3. TreeInv(a, Expand(a, t, c, recursive))
  BY <1>1, <1>2, ExpandRight
<1>4. \A k \in Msg(a) : t.valid[k] => Expand(a, t, c, recursive).valid[k]
  BY <1>2, ExpandMore
<1> QED
  BY <1>3, <1>4 DEF recursive

LEMMA ParentKnown ==
    ASSUME NEW a, IsArchive(a), NEW t, TreeInv(a, t), NEW c \in Msg(a), Known(a, t, c),
           a.parent[c] # NoParent
    PROVE  a.parent[c] \in Msg(a) /\ a.parent[c] \in Nat /\ Known(a, t, a.parent[c])
<1>1. a.parent[c] \in a.above[c] /\ c # GetRoot(a, c)
  BY ParentIs
<1>2. a.parent[c] \in Msg(a) /\ GetRoot(a, a.parent[c]) = GetRoot(a, c)
  BY <1>1, AboveRoot
<1>3. RowRight(a, t, c) /\ RowRight(a, t, a.parent[c]) /\ t.valid[c]
  BY <1>1, <1>2 DEF TreeInv, Known
<1> QED
  BY <1>2, <1>3, ArchiveParts DEF RowRight, Known

(* One step, whatever key it is: what it opens is the top of a thread, or  *)
(* in one that is prepared.                                                *)
LEMMA TreeNext == ASSUME ListInv, PastInv, [Next]_vars PROVE ListInv' /\ PastInv'
<1> DEFINE a == archive
           t == tree
           e == tree.expanded
           MView == [shown : Msg(a) \cup {NotShown}, active : BOOLEAN]
           Rows == FullRows \cup SplitRows
<1>0. /\ a \in Archives /\ IsArchive(a) /\ TreeInv(a, t) /\ view \in KnownViews(a, t)
      /\ rows \in Rows /\ Rows \subseteq Nat \ {0} /\ FullRows \subseteq Rows
      /\ \A active \in BOOLEAN : RowsOf(active) \subseteq Rows
      /\ view \in View /\ Known(a, t, view.top) /\ Known(a, t, view.cursor)
  BY BrowserAssumption DEF ListInv, RowsOf, KnownViews
<1>p. /\ mview \in MView /\ [mview EXCEPT !.active = FALSE] \in MView
      /\ history \in Seq(Nat) /\ Len(history) <= HistorySize
      /\ historyIdx \in -1..(Len(history) - 1)
  BY DEF PastInv
<1>m. /\ mview.active \in BOOLEAN
  BY <1>p
<1>1. ASSUME InRange PROVE view.top \in Msg(a) /\ view.cursor \in Msg(a) /\ view.cursor \in Nat
  BY <1>0, <1>1, ArchiveParts DEF InRange
<1>past. ASSUME mview' \in MView, archive' = archive, UNCHANGED past PROVE PastInv'
  BY <1>p, <1>past DEF PastInv, past
<1>list. ASSUME archive' = archive, rows' \in Rows, TreeInv(a, tree'), view' \in KnownViews(a, tree')
         PROVE  ListInv'
  BY <1>0, <1>list DEF ListInv
<1>2. ASSUME InRange, Enter PROVE ListInv' /\ PastInv'
  BY <1>0, <1>1, <1>2, EnterRight DEF Enter
<1>3. ASSUME InRange, EnterNext PROVE ListInv' /\ PastInv'
  <2> DEFINE v == MoveCursorDown(a, e, rows, view)
  <2>1. v \in KnownViews(a, t)
    BY <1>0, MoveKnown
  <2>2. IsView(view)
    BY <1>0 DEF View, IsView
  <2>3. v.cursor \in Msg(a)
    BY <1>0, <1>1, <1>3, <2>2, DownInArchive
  <2>4. MoveOrEnter(t, v)
    BY <1>3 DEF EnterNext
  <2> HIDE DEF v
  <2> QED
    BY <1>0, <2>1, <2>3, <2>4, EnterRight
<1>4. ASSUME NEW m \in Msg(a), OpenMessage(m) PROVE ListInv' /\ PastInv'
  <2> DEFINE to == SwitchToMessage(a, t, rows, view, m)
  <2>1. TreeInv(a, to.tree) /\ to.view \in KnownViews(a, to.tree) /\ to.view.cursor = m
    <3>1. m \in Int
      BY <1>0, ArchiveParts
    <3>2. TreeInv(a, to.tree) /\ to.view \in KnownViews(a, to.tree)
      BY <1>0, <3>1, SwitchRight
    <3>3. to.view.cursor = m
      BY SwitchView
    <3> QED
      BY <3>2, <3>3
  <2>2. MoveOrEnter(to.tree, to.view)
    BY <1>4 DEF OpenMessage
  <2> HIDE DEF to
  <2> QED
    BY <1>0, <2>1, <2>2, EnterRight
<1>5. ASSUME CloseMessage \/ ResizeTerminal PROVE ListInv' /\ PastInv'
  <2>1. rows' \in Rows /\ view' = Resize(a, e, rows', view) /\ tree' = t /\ archive' = archive
        /\ mview' \in MView /\ UNCHANGED past
    BY <1>0, <1>p, <1>m, <1>5 DEF CloseMessage, ResizeTerminal
  <2>2. Resize(a, e, rows', view) \in KnownViews(a, t)
    BY <1>0, <2>1, ResizeKnown
  <2> QED
    BY <1>0, <1>past, <1>list, <2>1, <2>2
<1>6. ASSUME InRange, CollapseThread PROVE ListInv' /\ PastInv'
  <2> DEFINE root == GetRoot(a, view.cursor)
             u == Collapse(t, root)
             v == IF mview.active THEN Resize(a, e, rows', view) ELSE view
  <2>1. rows' \in Rows /\ tree' = u /\ view' = FocusOn(a, u.expanded, rows', v, root)
        /\ archive' = archive /\ mview' \in MView /\ UNCHANGED past
    BY <1>0, <1>p, <1>m, <1>6 DEF CollapseThread
  <2>2. root \in Msg(a) /\ root \in Nat /\ GetRoot(a, root) = root
    BY <1>0, <1>1, <1>6, RootIsTop, ParentIs, ArchiveParts
  <2>3. v \in KnownViews(a, t)
    BY <1>0, <2>1, ResizeKnown
  <2> HIDE DEF root, v
  <2>4. TreeInv(a, u) /\ u.valid = t.valid
    BY <1>0, CollapseRight, CollapseMore
  <2> HIDE DEF u
  <2>5. v \in KnownViews(a, u) /\ Known(a, u, root)
    BY <2>2, <2>3, <2>4, TreeKnown DEF Known
  <2>6. FocusOn(a, u.expanded, rows', v, root) \in KnownViews(a, u)
    BY <1>0, <2>1, <2>2, <2>4, <2>5, FocusKnown
  <2> QED
    BY <1>past, <1>list, <2>1, <2>4, <2>6
<1>7. ASSUME NEW v \in KnownViews(a, t), Moves(v) PROVE ListInv' /\ PastInv'
  BY <1>0, <1>p, <1>7, <1>past, <1>list DEF Moves
<1>8. ASSUME CursorUp \/ CursorDown \/ PageUp \/ PageDown \/ Home \/ End
      PROVE  ListInv' /\ PastInv'
  <2>1. /\ MoveCursorUp(a, e, rows, view) \in KnownViews(a, t)
        /\ MoveCursorDown(a, e, rows, view) \in KnownViews(a, t)
        /\ MoveCursorTop(a, e, rows, view) \in KnownViews(a, t)
        /\ MoveCursorBottom(a, e, rows, view) \in KnownViews(a, t)
    BY <1>0, MoveKnown
  <2>2. /\ PageBackward(a, e, rows, view) \in KnownViews(a, t)
        /\ PageForward(a, e, rows, view) \in KnownViews(a, t)
    BY <1>0, PageBackwardKnown, PageForwardKnown
  <2> QED
    BY <1>7, <1>8, <2>1, <2>2 DEF CursorUp, CursorDown, PageUp, PageDown, Home, End
<1>9. ASSUME InRange, NextUnread PROVE ListInv' /\ PastInv'
  <2> PICK seen \in SUBSET Msg(a) : Moves(GoNextUnread(a, e, rows, view, seen))
    BY <1>9 DEF NextUnread
  <2>1. GoNextUnread(a, e, rows, view, seen) \in KnownViews(a, t)
    BY <1>0, <1>1, <1>9, UnreadKnown
  <2> QED
    BY <1>7, <2>1
<1>10. ASSUME InRange, Parent PROVE ListInv' /\ PastInv'
  <2> DEFINE p == a.parent[view.cursor]
  <2>1. p # NoParent /\ Moves(FocusOn(a, e, rows, view, p))
    BY <1>10 DEF Parent
  <2>2. p \in Nat /\ Known(a, t, p)
    BY <1>0, <1>1, <1>10, <2>1, ParentKnown
  <2> HIDE DEF p
  <2>3. FocusOn(a, e, rows, view, p) \in KnownViews(a, t)
    BY <1>0, <2>2, FocusKnown
  <2> QED
    BY <1>7, <2>1, <2>3
<1>11. ASSUME NEW u, tree' = u, TreeInv(a, u), view \in KnownViews(a, u), Redraw(u),
              UNCHANGED <<archive, rows, mview, past>>
       PROVE  ListInv' /\ PastInv'
  <2>1. view' \in KnownViews(a, u)
    BY <1>0, <1>11, DrawKnown DEF Redraw
  <2> QED
    BY <1>0, <1>p, <1>past, <1>list, <1>11, <2>1
<1>12. ASSUME InRange, Toggle \/ Left \/ Right PROVE ListInv' /\ PastInv'
  <2> DEFINE c == view.cursor
             more == Expand(a, t, c, a.parent[c] = NoParent)
             less == Collapse(t, c)
  <2>1. TreeInv(a, more) /\ view \in KnownViews(a, more)
    <3>1. TreeInv(a, more) /\ \A k \in Msg(a) : t.valid[k] => more.valid[k]
      BY <1>0, <1>1, <1>12, ToggleRight
    <3> HIDE DEF more
    <3>2. KnownViews(a, t) \subseteq KnownViews(a, more)
      BY <3>1, MoreKnown
    <3> QED
      BY <1>0, <3>1, <3>2
  <2>2. TreeInv(a, less) /\ view \in KnownViews(a, less)
    <3>1. TreeInv(a, less) /\ less.valid = t.valid
      BY <1>0, CollapseRight, CollapseMore
    <3> HIDE DEF less
    <3> QED
      BY <1>0, <3>1, TreeKnown
  <2>3. \/ CursorDown \/ Parent
        \/ \E u \in {more, less} : /\ tree' = u /\ Redraw(u)
                                   /\ UNCHANGED <<archive, rows, mview, past>>
    <3>1. CASE Toggle
      BY <3>1 DEF Toggle, Redraw
    <3>2. CASE Left
      BY <3>2 DEF Left, Redraw
    <3>3. CASE Right
      BY <3>3 DEF Right, Redraw
    <3> QED
      BY <1>12, <3>1, <3>2, <3>3
  <2> HIDE DEF more, less
  <2> QED
    BY <1>8, <1>10, <1>11, <1>12, <2>1, <2>2, <2>3
<1>13. ASSUME NEW m \in Int, Jump(m) PROVE ListInv'
  <2> DEFINE to == SwitchToMessage(a, t, rows, view, m)
  <2>1. TreeInv(a, to.tree) /\ to.view \in KnownViews(a, to.tree)
    BY <1>0, SwitchRight
  <2>2. tree' = to.tree /\ view' = to.view /\ archive' = archive /\ rows' = rows
    BY <1>13 DEF Jump
  <2> HIDE DEF to
  <2> QED
    BY <1>0, <1>list, <2>1, <2>2
<1>14. ASSUME NEW m \in Msg(a), GoToIndex(m) PROVE ListInv' /\ PastInv'
  <2>1. m \in Int
    BY <1>0, ArchiveParts
  <2>2. mview' = mview /\ archive' = archive
    BY <1>14 DEF GoToIndex, Jump
  <2> QED
    BY <1>p, <1>past, <1>13, <1>14, <2>1, <2>2 DEF GoToIndex
<1>15. ASSUME HistoryBack \/ HistoryForward PROVE ListInv' /\ PastInv'
  <2>1. historyIdx' \in 0..(Len(history) - 1) /\ Jump(history[historyIdx' + 1])
        /\ history' = history
    BY <1>p, <1>15 DEF HistoryBack, HistoryForward
  <2>2. history[historyIdx' + 1] \in Int
    BY <1>p, <2>1
  <2>3. ListInv'
    BY <1>13, <2>1, <2>2
  <2>4. mview' = mview /\ archive' = archive
    BY <2>1 DEF Jump
  <2>5. PastInv'
    BY <1>p, <2>1, <2>4 DEF PastInv
  <2> QED
    BY <2>3, <2>5
<1>16. ASSUME NEW b \in Archives, NEW saved \in (IF b = archive THEN {history} ELSE Saved[b])
       PROVE  IsArchive(b) /\ saved \in Seq(Nat) /\ Len(saved) <= HistorySize
  BY <1>p, <1>16, BrowserAssumption
<1>17. ASSUME NEW b \in Archives, NEW saved \in Seq(Nat), Len(saved) <= HistorySize,
              archive' = b, mview' = [shown |-> NotShown, active |-> FALSE], Remember(saved)
       PROVE  PastInv'
  <2>1. history' = saved /\ historyIdx' = Len(saved) - 1 /\ Len(saved) \in Nat
    BY <1>17 DEF Remember
  <2> QED
    BY <1>17, <2>1 DEF PastInv
<1>18. ASSUME NEW b \in Archives, OpenArchive(b) PROVE ListInv' /\ PastInv'
  <2> PICK saved \in (IF b = archive THEN {history} ELSE Saved[b]) :
           LET at == Switch(b, saved, rows)
           IN  /\ archive' = b
               /\ tree' = at.tree
               /\ rows' \in RowsOf(FALSE)
               /\ view' = Resize(b, at.tree.expanded, rows', at.view)
               /\ mview' = [shown |-> NotShown, active |-> FALSE]
               /\ Remember(saved)
    BY <1>18 DEF OpenArchive
  <2> DEFINE at == Switch(b, saved, rows)
  <2>1. IsArchive(b) /\ saved \in Seq(Nat) /\ Len(saved) <= HistorySize
    BY <1>16
  <2>2. TreeInv(b, at.tree) /\ at.view \in KnownViews(b, at.tree)
    BY <1>0, <2>1, ReopenRight DEF Switch
  <2>3. archive' = b /\ tree' = at.tree /\ rows' \in Rows
        /\ view' = Resize(b, at.tree.expanded, rows', at.view)
    BY <1>0
  <2> HIDE DEF at
  <2>4. Resize(b, at.tree.expanded, rows', at.view) \in KnownViews(b, at.tree)
    BY <1>0, <2>1, <2>2, <2>3, ResizeKnown
  <2>5. ListInv'
    BY <2>2, <2>3, <2>4 DEF ListInv
  <2>6. PastInv'
    BY <1>17, <2>1
  <2> QED
    BY <2>5, <2>6
<1>19. ASSUME NEW b \in Archives, NEW m \in Msg(b), Warp(b, m) PROVE ListInv' /\ PastInv'
  <2> PICK saved \in (IF b = archive THEN {history} ELSE Saved[b]) :
           LET at == Switch(b, saved, rows)
               to == SwitchToMessage(b, at.tree, rows',
                                     Resize(b, at.tree.expanded, rows', at.view), m)
           IN  /\ archive' = b
               /\ rows' \in RowsOf(FALSE)
               /\ tree' = to.tree /\ view' = to.view
               /\ mview' = [shown |-> NotShown, active |-> FALSE]
               /\ Remember(saved)
    BY <1>19 DEF Warp
  <2> DEFINE at == Switch(b, saved, rows)
             v == Resize(b, at.tree.expanded, rows', at.view)
             to == SwitchToMessage(b, at.tree, rows', v, m)
  <2>1. IsArchive(b) /\ saved \in Seq(Nat) /\ Len(saved) <= HistorySize /\ m \in Int
    BY <1>16, ArchiveParts
  <2>2. TreeInv(b, at.tree) /\ at.view \in KnownViews(b, at.tree)
    BY <1>0, <2>1, ReopenRight DEF Switch
  <2>3. archive' = b /\ tree' = to.tree /\ rows' \in Rows /\ view' = to.view
    BY <1>0
  <2> HIDE DEF at
  <2>4. v \in KnownViews(b, at.tree)
    BY <1>0, <2>1, <2>2, <2>3, ResizeKnown
  <2> HIDE DEF v
  <2>5. TreeInv(b, to.tree) /\ to.view \in KnownViews(b, to.tree)
    BY <1>0, <2>1, <2>2, <2>3, <2>4, SwitchRight
  <2> HIDE DEF to
  <2>6. ListInv'
    BY <2>3, <2>5 DEF ListInv
  <2>7. PastInv'
    BY <1>17, <2>1
  <2> QED
    BY <2>6, <2>7
<1>20. ASSUME Restart PROVE ListInv' /\ PastInv'
  <2> DEFINE at == Start(a, history, rows')
  <2>1. rows' \in Rows /\ tree' = at.tree /\ view' = at.view /\ archive' = a
        /\ mview' = [shown |-> NotShown, active |-> FALSE] /\ Remember(history)
    BY <1>0, <1>20 DEF Restart
  <2>2. RowsEnd(a, NewTree(a).expanded, rows', 0) \in Int
    BY <1>0, <2>1, RowsEndTyped
  <2>3. TreeInv(a, at.tree) /\ at.view \in KnownViews(a, at.tree)
    BY <1>0, <1>p, <2>1, <2>2, ReopenRight DEF Start
  <2> HIDE DEF at
  <2>4. ListInv'
    BY <1>0, <1>list, <2>1, <2>3
  <2>5. PastInv'
    BY <1>0, <1>p, <1>17, <2>1
  <2> QED
    BY <2>4, <2>5
<1>21. ASSUME UNCHANGED vars PROVE ListInv' /\ PastInv'
  BY <1>0, <1>p, <1>21, <1>past, <1>list DEF vars, list, past
<1> HIDE DEF a, t, e, MView, Rows
<1> QED
  BY <1>2, <1>3, <1>4, <1>5, <1>6, <1>8, <1>9, <1>10, <1>12, <1>14, <1>15, <1>18, <1>19,
     <1>20, <1>21 DEF Next, a

LEMMA TreeInit == ASSUME Init PROVE ListInv /\ PastInv
<1> DEFINE at == Start(archive, history, rows)
<1>1. /\ archive \in Archives /\ IsArchive(archive) /\ rows \in FullRows /\ rows \in Nat
      /\ history \in Seq(Nat) /\ Len(history) <= HistorySize /\ historyIdx = Len(history) - 1
      /\ tree = at.tree /\ view = at.view
      /\ mview = [shown |-> NotShown, active |-> FALSE]
  BY BrowserAssumption DEF Init
<1>2. RowsEnd(archive, NewTree(archive).expanded, rows, 0) \in Int
  BY <1>1, RowsEndTyped
<1>3. TreeInv(archive, at.tree) /\ at.view \in KnownViews(archive, at.tree)
  BY <1>1, <1>2, ReopenRight DEF Start
<1> HIDE DEF at
<1>4. ListInv
  BY <1>1, <1>3 DEF ListInv
<1>5. PastInv
  BY <1>1 DEF PastInv
<1> QED
  BY <1>4, <1>5

(* However threads were expanded and collapsed, the lines and the density  *)
(* of every message are those of the whole thread, in a thread that was    *)
(* ever opened, and none in others (ThreadTree::Expand, Collapse).         *)
THEOREM TreeAlwaysRight == Spec => []TreeRight
<1>1. Init => ListInv /\ PastInv
  BY TreeInit
<1>2. (ListInv /\ PastInv) /\ [Next]_vars => (ListInv /\ PastInv)'
  BY TreeNext
<1>3. ListInv /\ PastInv => TreeRight
  BY TreeInvRight
<1> QED
  BY <1>1, <1>2, <1>3, PTL DEF Spec
-----------------------------------------------------------------------------
(* Rows: GetNext and GetPrev are the next row and the one before, as long as *)
(* nothing above is collapsed.                                             *)

(* A row, or the end of the rows.                                          *)
Row(a, e, i) == i \in 0..Count(a) /\ (i \in Msg(a) => HasRow(a, e, i))

Down(a, e, i) == IF i >= Count(a) THEN i ELSE GetNext(a, e, i)

LEMMA AboveIs ==
    ASSUME NEW a, IsArchive(a), NEW m \in Msg(a), NEW p \in Msg(a)
    PROVE  p \in a.above[m] <=> p < m /\ m < p + a.total[p]
<1>1. m \in Nat /\ p \in Nat /\ a.above[m] = {q \in Msg(a) : q # m /\ q <= m /\ m < q + a.total[q]}
  BY ArchiveParts
<1> QED
  BY <1>1

(* The next row is a row, and there is none in between.                    *)
LEMMA NextRow ==
    ASSUME NEW a, IsArchive(a), NEW e, NEW i \in Msg(a), Row(a, e, i)
    PROVE  /\ Row(a, e, GetNext(a, e, i))
           /\ GetNext(a, e, i) \in 1..Count(a) /\ i < GetNext(a, e, i)
<1> DEFINE k == GetNext(a, e, i)
<1>1. k \in 1..Count(a) /\ i < k
  BY RowNumbers
<1>2. k = IF e[i] THEN i + 1 ELSE i + a.total[i]
  BY DEF GetNext
<1> HIDE DEF k
<1>3. i \in Nat /\ a.total[i] \in Nat \ {0} /\ Count(a) \in Nat
      /\ \A p \in a.above[i] : e[p]
  BY ArchiveParts DEF Row, HasRow
<1>4. ASSUME k \in Msg(a), NEW p \in a.above[k] PROVE e[p]
  <2>1. p \in Msg(a) /\ p \in Nat /\ p < k /\ k < p + a.total[p] /\ a.total[p] \in Nat
    BY <1>4, ArchiveParts
  <2>2. CASE p < i
    <3>1. i < p + a.total[p]
      BY <1>1, <1>3, <2>1
    <3>2. p \in a.above[i]
      BY <2>1, <2>2, <3>1, AboveIs
    <3> QED
      BY <1>3, <3>2
  <2>3. CASE p = i
    BY <1>2, <1>3, <2>1, <2>3
  <2>4. CASE i < p
    <3>1. ~e[i] /\ k = i + a.total[i]
      BY <1>2, <1>3, <2>1, <2>4
    <3>2. i \in a.above[p]
      BY <1>3, <2>1, <2>4, <3>1, ArchiveParts
    <3>3. p + a.total[p] <= i + a.total[i]
      BY <2>1, <3>2, ArchiveParts
    <3> QED
      BY <1>3, <2>1, <3>1, <3>3
  <2> QED
    BY <1>3, <2>1, <2>2, <2>3, <2>4
<1>5. Row(a, e, k)
  BY <1>1, <1>3, <1>4 DEF Row, HasRow
<1> QED
  BY <1>1, <1>5 DEF k

LEMMA NextLeast ==
    ASSUME NEW a, IsArchive(a), NEW e, NEW i \in Msg(a), NEW b, Row(a, e, b), i < b
    PROVE  GetNext(a, e, i) <= b
<1>1. i \in Nat /\ b \in Nat /\ b <= Count(a) /\ a.total[i] \in Nat \ {0} /\ Count(a) \in Nat
      /\ Msg(a) = 0..(Count(a) - 1) /\ i + a.total[i] <= Count(a)
  BY ArchiveParts DEF Row
<1>2. CASE e[i]
  BY <1>1, <1>2 DEF GetNext
<1>3. CASE ~e[i]
  <2>1. GetNext(a, e, i) = i + a.total[i]
    BY <1>3 DEF GetNext
  <2> SUFFICES ASSUME b < i + a.total[i] PROVE FALSE
    BY <1>1, <2>1
  <2>2. b \in Msg(a) /\ i \in a.above[b]
    <3>1. b \in Msg(a)
      BY <1>1
    <3> QED
      BY <1>1, <3>1, AboveIs
  <2> QED
    BY <1>3, <2>2 DEF Row, HasRow
<1> QED
  BY <1>2, <1>3

(* The row before any place is the last one above it, and undone by the    *)
(* next.                                                                   *)
LEMMA PrevRow ==
    ASSUME NEW a, IsArchive(a), NEW e, NEW b \in 1..Count(a)
    PROVE  /\ Row(a, e, GetPrev(a, e, b)) /\ GetPrev(a, e, b) \in Msg(a) /\ GetPrev(a, e, b) < b
           /\ \A r : Row(a, e, r) /\ r < b => r <= GetPrev(a, e, b)
<1> DEFINE k == GetPrev(a, e, b)
           collapsed == {p \in a.above[b - 1] : ~e[p]}
<1>1. /\ b - 1 \in Msg(a) /\ b - 1 \in Nat /\ Count(a) \in Nat /\ Msg(a) \subseteq Nat
      /\ \A m \in Msg(a) : m < Count(a)
  BY ArchiveParts
<1>2. k = IF collapsed = {} THEN b - 1 ELSE Min(collapsed)
  BY <1>1 DEF GetPrev
<1>3. collapsed \subseteq Msg(a) /\ \A p \in collapsed : p < b - 1 /\ b - 1 < p + a.total[p]
      /\ ~e[p]
  BY <1>1, ArchiveParts
<1>4. collapsed # {} => k \in collapsed /\ \A p \in collapsed : k <= p
  <2>1. collapsed # {} => Min(collapsed) \in collapsed /\ \A p \in collapsed : Min(collapsed) <= p
    BY <1>1, <1>3, LeastOf
  <2> HIDE DEF k, collapsed
  <2> QED
    BY <1>2, <2>1
<1>5. \A p \in a.above[b - 1] : e[p] \/ p \in collapsed
  OBVIOUS
<1> HIDE DEF k, collapsed
<1>6. k \in Msg(a) /\ k \in Nat /\ k <= b - 1 /\ k < b /\ b - 1 < k + a.total[k]
  <2>1. a.total[b - 1] \in Nat \ {0}
    BY <1>1, ArchiveParts
  <2> QED
    BY <1>1, <1>2, <1>3, <1>4, <2>1
<1>7. ASSUME NEW p \in a.above[k] PROVE e[p]
  <2>1. p \in Msg(a) /\ p \in Nat /\ p < k /\ k + a.total[k] <= p + a.total[p]
        /\ a.total[p] \in Nat /\ a.total[k] \in Nat
    BY <1>6, ArchiveParts
  <2>2. p \in a.above[b - 1]
    <3>1. p < b - 1 /\ b - 1 < p + a.total[p]
      BY <1>1, <1>6, <2>1
    <3> QED
      BY <1>1, <2>1, <3>1, AboveIs
  <2>3. p \notin collapsed
    BY <1>1, <1>2, <1>4, <1>6, <2>1
  <2> QED
    BY <1>5, <2>2, <2>3
<1>8. Row(a, e, k)
  BY <1>1, <1>6, <1>7 DEF Row, HasRow
<1>9. ASSUME NEW r, Row(a, e, r), r < b PROVE r <= k
  <2>1. r \in Nat
    BY <1>9 DEF Row
  <2> SUFFICES ASSUME k < r PROVE FALSE
    BY <1>6, <2>1
  <2>2. k \in collapsed /\ k < b - 1
    BY <1>1, <1>2, <1>4, <1>6, <1>9, <2>1
  <2>3. r \in Msg(a) /\ k \in a.above[r]
    <3>1. r \in Msg(a)
      BY <1>1, <1>9, <2>1, ArchiveParts
    <3>2. a.total[k] \in Nat
      BY <1>6, ArchiveParts
    <3> QED
      BY <1>1, <1>6, <1>9, <2>1, <3>1, <3>2, AboveIs
  <2> QED
    BY <1>3, <1>9, <2>2, <2>3 DEF Row, HasRow
<1> QED
  BY <1>6, <1>8, <1>9 DEF k

LEMMA NextOfPrev ==
    ASSUME NEW a, IsArchive(a), NEW e, NEW b \in 1..Count(a), Row(a, e, b)
    PROVE  GetNext(a, e, GetPrev(a, e, b)) = b
<1> DEFINE k == GetPrev(a, e, b)
           j == GetNext(a, e, k)
<1>1. k \in Msg(a) /\ Row(a, e, k) /\ k < b /\ \A r : Row(a, e, r) /\ r < b => r <= k
  BY PrevRow
<1> HIDE DEF k
<1>2. j \in 1..Count(a) /\ k < j /\ Row(a, e, j) /\ j <= b
  BY <1>1, NextRow, NextLeast
<1>3. j < b => j <= k
  BY <1>1, <1>2
<1>4. k \in Nat /\ Count(a) \in Nat
  BY <1>1, ArchiveParts
<1> HIDE DEF j
<1>5. j = b
  BY <1>2, <1>3, <1>4
<1> QED
  BY <1>5 DEF j, k

(* A message has a row in any tree that has expanded the same above it.    *)
LEMMA SameRow ==
    ASSUME NEW a, IsArchive(a), NEW e, NEW f, NEW c \in Msg(a), NEW i \in Msg(a), i <= c,
           \A p \in Msg(a) : p < c => f[p] = e[p], Row(a, e, i)
    PROVE  Row(a, f, i)
<1>1. \A p \in a.above[i] : p \in Msg(a) /\ p < c
  <2>1. c \in Nat /\ i \in Nat /\ Msg(a) \subseteq Nat /\ a.above[i] \subseteq Msg(a)
    BY ArchiveParts
  <2> QED
    BY <2>1, AboveIs
<1> QED
  BY <1>1 DEF Row, HasRow
-----------------------------------------------------------------------------
(* Where a window ends.                                                    *)

(* Where the rows of a window end, row by row.                             *)
DownRun(a, e, n, top, g) ==
    /\ g[0] = top
    /\ \A k \in 0..n : g[k] \in 0..Count(a)
    /\ \A k \in 1..n : g[k] = Down(a, e, g[k - 1])

LEMMA RowsEndDown ==
    ASSUME NEW a, IsArchive(a), NEW e, NEW n \in Nat, NEW top \in Msg(a)
    PROVE  \E g : DownRun(a, e, n, top, g) /\ RowsEnd(a, e, n, top) = g[n]
<1>0. top \in Nat /\ Count(a) \in Nat /\ top < Count(a) /\ Msg(a) = 0..(Count(a) - 1)
  BY ArchiveParts
<1>1. PICK g : RowRun(a, e, n, top, g) /\ RowsEnd(a, e, n, top) = g[n]
  BY <1>0, RowsEndRun
<1>2. ASSUME NEW k \in 1..n, g[k - 1] \in 0..Count(a)
      PROVE  g[k] = Down(a, e, g[k - 1]) /\ g[k] \in 0..Count(a)
  <2>1. /\ g[0] = top
        /\ g[k] = IF k > 1 /\ g[k - 1] >= Count(a) THEN g[k - 1] ELSE GetNext(a, e, g[k - 1])
    BY <1>1 DEF RowRun
  <2>2. k = 1 => g[k - 1] < Count(a)
    BY <1>0, <2>1
  <2>3. g[k] = Down(a, e, g[k - 1])
    BY <1>0, <1>2, <2>1, <2>2 DEF Down
  <2>4. g[k - 1] < Count(a) => GetNext(a, e, g[k - 1]) \in 1..Count(a)
    <3>1. g[k - 1] < Count(a) => g[k - 1] \in Msg(a)
      BY <1>0, <1>2
    <3> QED
      BY <3>1, RowNumbers
  <2> QED
    BY <1>0, <1>2, <2>3, <2>4 DEF Down
<1>3. g[0] = top /\ g[0] \in 0..Count(a)
  BY <1>0, <1>1 DEF RowRun
<1>4. \A k \in 0..n : g[k] \in 0..Count(a)
  BY <1>2, <1>3, RoundsStay
<1>5. \A k \in 1..n : k - 1 \in 0..n
  OBVIOUS
<1>6. DownRun(a, e, n, top, g)
  BY <1>2, <1>3, <1>4, <1>5 DEF DownRun
<1> QED
  BY <1>1, <1>6

LEMMA DownRow ==
    ASSUME NEW a, IsArchive(a), NEW e, NEW i, Row(a, e, i)
    PROVE  /\ Row(a, e, Down(a, e, i)) /\ i <= Down(a, e, i)
           /\ i < Count(a) => i \in Msg(a) /\ i < Down(a, e, i) /\ Down(a, e, i) = GetNext(a, e, i)
<1>1. i \in Nat /\ Count(a) \in Nat /\ Msg(a) = 0..(Count(a) - 1) /\ i <= Count(a)
  BY ArchiveParts DEF Row
<1>2. CASE i < Count(a)
  <2>1. i \in Msg(a) /\ Down(a, e, i) = GetNext(a, e, i)
    BY <1>1, <1>2 DEF Down
  <2>2. GetNext(a, e, i) \in Nat
    BY <1>1, <2>1, NextRow
  <2> QED
    BY <1>1, <2>1, <2>2, NextRow
<1>3. CASE ~(i < Count(a))
  <2>1. Down(a, e, i) = i
    BY <1>1, <1>3 DEF Down
  <2> QED
    BY <1>1, <1>3, <2>1
<1> QED
  BY <1>2, <1>3

(* A window of a row or more ends beyond the row it starts on.             *)
LEMMA EndBeyond ==
    ASSUME NEW a, IsArchive(a), NEW e, NEW n \in Nat \ {0}, NEW top \in Msg(a)
    PROVE  /\ RowsEnd(a, e, n, top) \in 1..Count(a) /\ top < RowsEnd(a, e, n, top)
           /\ GetNext(a, e, top) <= RowsEnd(a, e, n, top)
<1>0. top \in Nat /\ Count(a) \in Nat /\ top < Count(a) /\ Msg(a) = 0..(Count(a) - 1)
  BY ArchiveParts
<1>1. PICK g : DownRun(a, e, n, top, g) /\ RowsEnd(a, e, n, top) = g[n]
  BY RowsEndDown
<1> DEFINE S == {i \in 1..Count(a) : top < i /\ GetNext(a, e, top) <= i}
           f == [k \in 0..(n - 1) |-> g[k + 1]]
<1>2. g[1] \in S
  <2>1. g[1] = GetNext(a, e, top)
    BY <1>0, <1>1 DEF DownRun, Down
  <2> QED
    BY <1>0, <2>1, RowNumbers
<1>3. ASSUME NEW k \in 1..n, g[k] \in S, k + 1 \in 1..n PROVE g[k + 1] \in S
  <2>1. g[k + 1] = Down(a, e, g[k])
    BY <1>1, <1>3 DEF DownRun
  <2>2. g[k] < Count(a) => g[k] \in Msg(a)
    BY <1>0, <1>3
  <2>3. g[k] < Count(a) => GetNext(a, e, g[k]) \in 1..Count(a) /\ g[k] < GetNext(a, e, g[k])
    BY <2>2, RowNumbers
  <2>4. GetNext(a, e, top) \in Nat
    BY <1>0, RowNumbers
  <2> DEFINE next == GetNext(a, e, top)
             after == GetNext(a, e, g[k])
  <2>5. g[k + 1] = IF g[k] >= Count(a) THEN g[k] ELSE after
    BY <2>1 DEF Down
  <2>6. g[k] \in 1..Count(a) /\ top < g[k] /\ next <= g[k]
    BY <1>3
  <2> HIDE DEF next, after
  <2>7. g[k + 1] \in 1..Count(a) /\ top < g[k + 1] /\ next <= g[k + 1]
    BY <1>0, <2>3, <2>4, <2>5, <2>6 DEF next, after
  <2> QED
    BY <2>7 DEF next
<1>4. n - 1 \in Nat
  OBVIOUS
<1>5. f[0] \in S /\ \A k \in 1..(n - 1) : f[k - 1] \in S => f[k] \in S
  <2>1. f[0] = g[1] /\ \A k \in 1..(n - 1) : f[k - 1] = g[k] /\ f[k] = g[k + 1] /\ k \in 1..n
                                             /\ k + 1 \in 1..n
    OBVIOUS
  <2> HIDE DEF f, S
  <2> QED
    BY <1>2, <1>3, <2>1
<1>6. f[n - 1] = g[n] /\ n - 1 \in 0..(n - 1)
  BY <1>4
<1> HIDE DEF f, S
<1>7. f[n - 1] \in S
  BY <1>4, <1>5, <1>6, RoundsStay
<1> QED
  BY <1>1, <1>6, <1>7 DEF S

(* A window that starts on a row ends on one.                              *)
LEMMA EndIsRow ==
    ASSUME NEW a, IsArchive(a), NEW e, NEW n \in Nat, NEW top \in Msg(a), Row(a, e, top)
    PROVE  Row(a, e, RowsEnd(a, e, n, top))
<1>1. PICK g : DownRun(a, e, n, top, g) /\ RowsEnd(a, e, n, top) = g[n]
  BY RowsEndDown
<1> DEFINE S == {i \in 0..Count(a) : Row(a, e, i)}
<1>2. g[0] \in S
  BY <1>1 DEF DownRun, Row
<1>3. \A k \in 1..n : g[k - 1] \in S => g[k] \in S
  BY <1>1, DownRow DEF DownRun, Row
<1>4. \A k \in 0..n : g[k] \in S
  <2> HIDE DEF S
  <2> QED
    BY <1>2, <1>3, RoundsStay
<1> QED
  BY <1>1, <1>4

(* A window that starts a row further down ends a row further down.        *)
LEMMA EndShifts ==
    ASSUME NEW a, IsArchive(a), NEW e, NEW n \in Nat \ {0}, NEW top \in Msg(a),
           Row(a, e, top), RowsEnd(a, e, n, top) < Count(a)
    PROVE  LET next == GetNext(a, e, top)
           IN  /\ next \in Msg(a) /\ Row(a, e, next) /\ next <= RowsEnd(a, e, n, top)
               /\ RowsEnd(a, e, n, next) = GetNext(a, e, RowsEnd(a, e, n, top))
<1> DEFINE next == GetNext(a, e, top)
           end == RowsEnd(a, e, n, top)
<1>0. top \in Nat /\ Count(a) \in Nat /\ top < Count(a) /\ Msg(a) = 0..(Count(a) - 1)
  BY ArchiveParts
<1>1. end \in 1..Count(a) /\ top < end /\ Row(a, e, end)
  BY EndBeyond, EndIsRow
<1>2. next \in 1..Count(a) /\ Row(a, e, next) /\ next <= end
  BY <1>1, NextRow, NextLeast
<1>3. next \in Msg(a)
  <2> HIDE DEF next, end
  <2>1. end < Count(a)
    BY DEF end
  <2> QED
    BY <1>0, <1>1, <1>2, <2>1
<1>4. PICK g : DownRun(a, e, n, top, g) /\ end = g[n]
  BY RowsEndDown
<1>5. PICK h : DownRun(a, e, n, next, h) /\ RowsEnd(a, e, n, next) = h[n]
  BY <1>3, RowsEndDown
<1> DEFINE f == [k \in 0..n |-> <<g[k], h[k]>>]
           S == {p \in (0..Count(a)) \X (0..Count(a)) : p[1] < Count(a) => p[2] = GetNext(a, e, p[1])}
<1>6. \A k \in 0..n : f[k] = <<g[k], h[k]>> /\ g[k] \in 0..Count(a) /\ h[k] \in 0..Count(a)
  BY <1>4, <1>5 DEF DownRun
<1>7. f[0] \in S
  <2>1. g[0] = top /\ h[0] = next
    BY <1>4, <1>5 DEF DownRun
  <2> HIDE DEF f
  <2> QED
    BY <1>6, <2>1
<1>8. ASSUME NEW k \in 1..n, f[k - 1] \in S PROVE f[k] \in S
  <2>1. k - 1 \in 0..n /\ k \in 0..n /\ g[k] = Down(a, e, g[k - 1]) /\ h[k] = Down(a, e, h[k - 1])
    BY <1>4, <1>5 DEF DownRun
  <2> HIDE DEF f
  <2>2. g[k - 1] < Count(a) => h[k - 1] = GetNext(a, e, g[k - 1])
    BY <1>6, <1>8, <2>1
  <2> SUFFICES ASSUME g[k] < Count(a) PROVE h[k] = GetNext(a, e, g[k])
    BY <1>6, <2>1
  <2>3. g[k - 1] < Count(a) /\ g[k] = GetNext(a, e, g[k - 1])
    <3>1. ~(g[k - 1] >= Count(a))
      BY <1>0, <1>6, <2>1 DEF Down
    <3> QED
      BY <1>0, <1>6, <2>1, <3>1 DEF Down
  <2>4. h[k - 1] = g[k]
    BY <2>2, <2>3
  <2> QED
    BY <1>0, <1>6, <2>1, <2>4 DEF Down
<1> HIDE DEF f, S
<1>9. \A k \in 0..n : f[k] \in S
  BY <1>7, <1>8, RoundsStay
<1>10. h[n] = GetNext(a, e, g[n])
  BY <1>4, <1>6, <1>9 DEF S
<1> QED
  BY <1>2, <1>3, <1>4, <1>5, <1>10

(* A window is its first row and a window of one row less.                 *)
LEMMA EndOfRest ==
    ASSUME NEW a, IsArchive(a), NEW e, NEW n \in Nat \ {0}, NEW top \in Msg(a),
           GetNext(a, e, top) \in Msg(a)
    PROVE  RowsEnd(a, e, n, top) = RowsEnd(a, e, n - 1, GetNext(a, e, top))
<1> DEFINE next == GetNext(a, e, top)
<1>0. top \in Nat /\ Count(a) \in Nat /\ top < Count(a) /\ n - 1 \in Nat
  BY ArchiveParts
<1>1. PICK g : DownRun(a, e, n, top, g) /\ RowsEnd(a, e, n, top) = g[n]
  BY RowsEndDown
<1>2. PICK h : DownRun(a, e, n - 1, next, h) /\ RowsEnd(a, e, n - 1, next) = h[n - 1]
  <2> DEFINE m == n - 1
  <2>1. m \in Nat /\ next \in Msg(a)
    BY <1>0
  <2> HIDE DEF m, next
  <2>2. \E h : DownRun(a, e, m, next, h) /\ RowsEnd(a, e, m, next) = h[m]
    BY <2>1, RowsEndDown
  <2> QED
    BY <2>2 DEF m
<1> DEFINE f == [k \in 0..(n - 1) |-> <<g[k + 1], h[k]>>]
           S == {p \in (0..Count(a)) \X (0..Count(a)) : p[1] = p[2]}
<1>3. \A k \in 0..(n - 1) : f[k] = <<g[k + 1], h[k]>> /\ g[k + 1] \in 0..Count(a)
                            /\ h[k] \in 0..Count(a)
  BY <1>1, <1>2 DEF DownRun
<1>4. f[0] \in S
  <2>1. g[1] = Down(a, e, top) /\ h[0] = next
    BY <1>1, <1>2 DEF DownRun
  <2>2. g[1] = next
    BY <1>0, <2>1 DEF Down
  <2> HIDE DEF f
  <2>3. f[0] = <<next, next>>
    BY <1>0, <1>3, <2>1, <2>2
  <2>4. 0 \in 0..(n - 1)
    BY <1>0
  <2>5. next \in 0..Count(a)
    BY <1>3, <2>1, <2>4
  <2> HIDE DEF next
  <2> QED
    BY <2>3, <2>5
<1>5. ASSUME NEW k \in 1..(n - 1), f[k - 1] \in S PROVE f[k] \in S
  <2>1. /\ k - 1 \in 0..(n - 1) /\ k \in 0..(n - 1) /\ k + 1 \in 1..n /\ (k - 1) + 1 = k
        /\ (k + 1) - 1 = k
    OBVIOUS
  <2>2. g[k + 1] = Down(a, e, g[k]) /\ h[k] = Down(a, e, h[k - 1])
    BY <1>1, <1>2, <2>1 DEF DownRun
  <2> HIDE DEF f
  <2>3. g[k] = h[k - 1]
    BY <1>3, <1>5, <2>1
  <2> QED
    BY <1>3, <2>1, <2>2, <2>3
<1> HIDE DEF f, S
<1>6. f[n - 1] \in S /\ n - 1 \in 0..(n - 1) /\ (n - 1) + 1 = n
  BY <1>0, <1>4, <1>5, RoundsStay
<1>7. g[n] = h[n - 1]
  BY <1>3, <1>6 DEF S
<1> QED
  BY <1>1, <1>2, <1>7

(* Below the first row of two there is one more.                           *)
LEMMA SecondRow ==
    ASSUME NEW a, IsArchive(a), NEW e, NEW n \in Nat, n > 1, NEW top \in Msg(a),
           GetNext(a, e, top) \in Msg(a)
    PROVE  GetNext(a, e, top) < RowsEnd(a, e, n, top)
<1>1. n \in Nat \ {0} /\ n - 1 \in Nat \ {0}
  OBVIOUS
<1>2. RowsEnd(a, e, n, top) = RowsEnd(a, e, n - 1, GetNext(a, e, top))
  BY <1>1, EndOfRest
<1> QED
  BY <1>1, <1>2, EndBeyond

(* What is expanded from c on does not decide whether c is in a window.    *)
LEMMA EndAgrees ==
    ASSUME NEW a, IsArchive(a), NEW e, NEW f, NEW n \in Nat, NEW top \in Msg(a),
           NEW c \in Msg(a), top <= c, \A i \in Msg(a) : i < c => f[i] = e[i],
           c < RowsEnd(a, e, n, top)
    PROVE  c < RowsEnd(a, f, n, top)
<1>0. top \in Nat /\ c \in Nat /\ Count(a) \in Nat /\ Msg(a) = 0..(Count(a) - 1)
  BY ArchiveParts
<1>1. PICK g : DownRun(a, e, n, top, g) /\ RowsEnd(a, e, n, top) = g[n]
  BY RowsEndDown
<1>2. PICK h : DownRun(a, f, n, top, h) /\ RowsEnd(a, f, n, top) = h[n]
  BY RowsEndDown
<1> DEFINE F == [k \in 0..n |-> <<g[k], h[k]>>]
           Agree(i, j) == IF i <= c THEN i = j ELSE j > c
           S == {p \in (0..Count(a)) \X (0..Count(a)) : Agree(p[1], p[2])}
<1>s. \A i, j \in 0..Count(a) : <<i, j>> \in S <=> Agree(i, j)
  OBVIOUS
<1>3. \A k \in 0..n : F[k] = <<g[k], h[k]>> /\ g[k] \in 0..Count(a) /\ h[k] \in 0..Count(a)
  BY <1>1, <1>2 DEF DownRun
<1>4. F[0] \in S
  <2>1. g[0] = top /\ h[0] = top
    BY <1>1, <1>2 DEF DownRun
  <2>2. F[0] = <<top, top>> /\ Agree(top, top) /\ top \in 0..Count(a)
    BY <1>0, <1>3, <2>1
  <2> HIDE DEF F, S, Agree
  <2> QED
    BY <1>s, <2>2
<1>5. ASSUME NEW k \in 1..n, F[k - 1] \in S PROVE F[k] \in S
  <2>1. /\ k - 1 \in 0..n /\ k \in 0..n
        /\ g[k] = Down(a, e, g[k - 1]) /\ h[k] = Down(a, f, h[k - 1])
    BY <1>1, <1>2 DEF DownRun
  <2> HIDE DEF F
  <2>2. /\ g[k - 1] \in 0..Count(a) /\ h[k - 1] \in 0..Count(a)
        /\ g[k] \in 0..Count(a) /\ h[k] \in 0..Count(a)
        /\ F[k] = <<g[k], h[k]>> /\ F[k - 1] = <<g[k - 1], h[k - 1]>>
    BY <1>3, <2>1
  <2> HIDE DEF S
  <2>c. Agree(g[k - 1], h[k - 1])
    BY <1>s, <1>5, <2>2
  <2> SUFFICES Agree(g[k], h[k])
    BY <1>s, <2>2
  <2>3. CASE g[k - 1] < c
    <3>1. g[k - 1] \in Msg(a) /\ h[k - 1] = g[k - 1] /\ f[g[k - 1]] = e[g[k - 1]]
      BY <1>0, <2>2, <2>3, <2>c
    <3>2. g[k] = GetNext(a, e, g[k - 1]) /\ h[k] = GetNext(a, f, g[k - 1])
      BY <1>0, <2>1, <2>2, <2>3, <3>1 DEF Down
    <3>3. GetNext(a, e, g[k - 1]) = GetNext(a, f, g[k - 1])
      BY <3>1 DEF GetNext
    <3>4. g[k] = h[k]
      BY <3>2, <3>3
    <3> QED
      BY <1>0, <2>2, <3>4
  <2>4. CASE g[k - 1] = c
    <3>1. h[k - 1] = c /\ c < Count(a)
      BY <1>0, <2>2, <2>4, <2>c
    <3>2. g[k] = GetNext(a, e, c) /\ h[k] = GetNext(a, f, c)
      BY <1>0, <2>1, <2>4, <3>1 DEF Down
    <3>3. c < g[k] /\ c < h[k]
      BY <3>2, RowNumbers
    <3> QED
      BY <1>0, <2>2, <3>3
  <2>5. CASE g[k - 1] > c
    <3>1. g[k - 1] <= g[k] /\ h[k - 1] <= h[k]
      <4>1. g[k - 1] < Count(a) => g[k - 1] < GetNext(a, e, g[k - 1])
        BY <1>0, <2>2, <2>5, <2>c, RowNumbers
      <4>2. h[k - 1] < Count(a) => h[k - 1] < GetNext(a, f, h[k - 1])
        BY <1>0, <2>2, <2>5, <2>c, RowNumbers
      <4> QED
        BY <1>0, <2>1, <2>2, <2>5, <2>c, <4>1, <4>2 DEF Down
    <3> QED
      BY <1>0, <2>2, <2>5, <2>c, <3>1
  <2> QED
    BY <1>0, <2>2, <2>3, <2>4, <2>5
<1>u. \A k \in 1..n : F[k - 1] \in S => F[k] \in S
  BY <1>5
<1> HIDE DEF F, S
<1>6. F[n] \in S /\ n \in 0..n
  BY <1>4, <1>u, RoundsStay
<1>7. IF g[n] <= c THEN g[n] = h[n] ELSE h[n] > c
  BY <1>s, <1>3, <1>6
<1> QED
  BY <1>0, <1>1, <1>2, <1>3, <1>6, <1>7
-----------------------------------------------------------------------------
(* The cursor in the window, under the keys of ThreadView.                 *)

(* A view of rows, of a window of n rows or more that the cursor is in.    *)
OnRows(a, e, n, w) == /\ w \in View /\ w.top \in Msg(a)
                      /\ Row(a, e, w.top) /\ Row(a, e, w.cursor)
                      /\ w.top <= w.cursor /\ w.cursor < RowsEnd(a, e, n, w.top)

Drawn(a, e, n, w) == w.bottom = RowsEnd(a, e, n, w.top)

LEMMA DrawOnRows ==
    ASSUME NEW a, NEW e, NEW n, NEW w, RowsEnd(a, e, n, w.top) \in Int, OnRows(a, e, n, w)
    PROVE  OnRows(a, e, n, Draw(a, e, n, w)) /\ Drawn(a, e, n, Draw(a, e, n, w))
BY DEF Draw, OnRows, Drawn, View

LEMMA RowParts ==
    ASSUME NEW a, IsArchive(a), NEW e, NEW n \in Nat \ {0}, NEW w, OnRows(a, e, n, w)
    PROVE  /\ w.top \in Nat /\ w.cursor \in Nat /\ w.cursor \in Msg(a) /\ w.top < Count(a)
           /\ RowsEnd(a, e, n, w.top) \in 1..Count(a) /\ Row(a, e, RowsEnd(a, e, n, w.top))
           /\ RowsEnd(a, e, n, w.top) \in Int /\ Count(a) \in Nat
           /\ \A i \in Int : i \in Msg(a) <=> 0 <= i /\ i < Count(a)
<1>1. RowsEnd(a, e, n, w.top) \in 1..Count(a) /\ Row(a, e, RowsEnd(a, e, n, w.top))
  BY EndBeyond, EndIsRow DEF OnRows
<1>2. w.top \in Nat /\ w.top \in Msg(a) /\ w.cursor \in Int /\ Count(a) \in Nat
      /\ Msg(a) = 0..(Count(a) - 1) /\ w.top <= w.cursor /\ w.cursor < RowsEnd(a, e, n, w.top)
  BY ArchiveParts DEF OnRows, View
<1> QED
  BY <1>1, <1>2

(* A step down, with the window where it has to.                           *)
LEMMA DownOnRows ==
    ASSUME NEW a, IsArchive(a), NEW e, NEW n \in Nat \ {0}, NEW w, OnRows(a, e, n, w),
           RowsEnd(a, e, n, w.top) < Count(a)
    PROVE  LET x == GetNext(a, e, w.top)
               z == GetNext(a, e, w.cursor)
           IN  /\ x \in Msg(a) /\ Row(a, e, x) /\ z \in Nat /\ Row(a, e, z)
               /\ x <= z /\ z <= RowsEnd(a, e, n, w.top)
               /\ RowsEnd(a, e, n, x) = GetNext(a, e, RowsEnd(a, e, n, w.top))
               /\ RowsEnd(a, e, n, w.top) < RowsEnd(a, e, n, x)
<1> DEFINE x == GetNext(a, e, w.top)
           z == GetNext(a, e, w.cursor)
           end == RowsEnd(a, e, n, w.top)
           end2 == RowsEnd(a, e, n, x)
<1>1. /\ w.top \in Nat /\ w.cursor \in Nat /\ w.cursor \in Msg(a) /\ end \in Msg(a)
      /\ Row(a, e, end) /\ w.top \in Msg(a) /\ Row(a, e, w.top) /\ Row(a, e, w.cursor)
      /\ w.top <= w.cursor /\ w.cursor < end
  BY RowParts DEF OnRows
<1>2. x \in Msg(a) /\ Row(a, e, x) /\ end2 = GetNext(a, e, end)
  BY <1>1, EndShifts
<1>3. end < end2
  BY <1>1, <1>2, RowNumbers
<1>4. z \in 1..Count(a) /\ Row(a, e, z) /\ w.cursor < z
  BY <1>1, NextRow
<1>5. z <= end
  BY <1>1, NextLeast
<1>6. x <= z
  <2>1. w.top < z
    BY <1>1, <1>4
  <2> QED
    BY <1>1, <1>4, <2>1, NextLeast
<1> QED
  BY <1>2, <1>3, <1>4, <1>5, <1>6

(* The keys that move the cursor keep it on the rows of the window.        *)
LEMMA CursorDownOnRows ==
    ASSUME NEW a, IsArchive(a), NEW e, NEW n \in Nat \ {0}, NEW w, OnRows(a, e, n, w),
           Drawn(a, e, n, w)
    PROVE  OnRows(a, e, n, MoveCursorDown(a, e, n, w))
<1> DEFINE x == GetNext(a, e, w.top)
           y == GetNext(a, e, w.bottom)
           z == GetNext(a, e, w.cursor)
           end == RowsEnd(a, e, n, w.top)
           on == [w EXCEPT !.cursor = z]
           to == IF z = Count(a) THEN w
                 ELSE IF z = w.bottom THEN ScrollDown(a, e, on) ELSE on
<1>1. MoveCursorDown(a, e, n, w) = Draw(a, e, n, to)
  BY DEF MoveCursorDown
<1>2. /\ w \in View /\ w.bottom = end /\ w.top \in Nat /\ w.cursor \in Msg(a) /\ end \in 1..Count(a)
      /\ w.top \in Msg(a) /\ w.cursor \in Nat
      /\ Row(a, e, w.top) /\ Row(a, e, w.cursor) /\ w.cursor < end /\ Row(a, e, end)
      /\ w.top <= w.cursor /\ Count(a) \in Nat
  BY RowParts DEF OnRows, Drawn
<1>3. z \in 1..Count(a) /\ Row(a, e, z) /\ w.cursor < z /\ z <= end
  BY <1>2, NextRow, NextLeast
<1>4. x \in Int /\ y \in Int /\ z \in Int
  BY RowNumbers
<1> HIDE DEF z
<1>5. on \in View /\ on = [top |-> w.top, bottom |-> w.bottom, cursor |-> z]
  BY <1>2, <1>4 DEF View
<1> HIDE DEF on
<1>6. ScrollDown(a, e, on) = [top |-> x, bottom |-> y, cursor |-> z]
      /\ ScrollDown(a, e, on) \in View
  BY <1>5, ScrollTyped
<1>7. OnRows(a, e, n, to)
  <2>1. CASE z = Count(a)
    BY <2>1
  <2>2. CASE z # Count(a) /\ z = w.bottom
    <3>1. end < Count(a)
      <4> HIDE DEF end
      <4> QED
        BY <1>2, <1>3, <2>2
    <3>2. x \in Msg(a) /\ Row(a, e, x) /\ x <= z /\ end < RowsEnd(a, e, n, x)
      BY <3>1, DownOnRows DEF z
    <3>3. to = ScrollDown(a, e, on)
      BY <2>2
    <3> HIDE DEF x, y, end, to
    <3>4. to.top = x /\ to.cursor = z /\ to \in View
      BY <1>6, <3>3
    <3> QED
      BY <1>2, <1>3, <2>2, <3>2, <3>4 DEF OnRows
  <2>3. CASE z # Count(a) /\ z # w.bottom
    <3>1. to = on /\ z < end
      <4> HIDE DEF end, x, y
      <4> QED
        BY <1>2, <1>3, <2>3
    <3> HIDE DEF x, y, end, to
    <3>2. to.top = w.top /\ to.cursor = z /\ to \in View
      BY <1>5, <3>1
    <3> QED
      BY <1>2, <1>3, <3>1, <3>2 DEF OnRows, end
  <2> QED
    BY <2>1, <2>2, <2>3
<1> HIDE DEF to
<1> QED
  BY <1>1, <1>7, DrawOnRows, RowParts

(* A step up, with the window where it has to.                             *)
LEMMA UpOnRows ==
    ASSUME NEW a, IsArchive(a), NEW e, NEW n \in Nat \ {0}, NEW w, OnRows(a, e, n, w), w.top > 0
    PROVE  LET x == GetPrev(a, e, w.top)
               z == GetPrev(a, e, w.cursor)
           IN  /\ x \in Msg(a) /\ Row(a, e, x) /\ z \in Nat /\ Row(a, e, z)
               /\ x <= z /\ z < RowsEnd(a, e, n, x)
<1> DEFINE x == GetPrev(a, e, w.top)
           z == GetPrev(a, e, w.cursor)
           end == RowsEnd(a, e, n, w.top)
           end2 == RowsEnd(a, e, n, x)
<1>1. /\ w.top \in Nat /\ w.cursor \in Nat /\ w.cursor \in Msg(a) /\ end \in 1..Count(a)
      /\ w.top \in 1..Count(a) /\ w.cursor \in 1..Count(a)
      /\ Row(a, e, end) /\ w.top \in Msg(a) /\ Row(a, e, w.top) /\ Row(a, e, w.cursor)
      /\ w.top <= w.cursor /\ w.cursor < end /\ Count(a) \in Nat
  BY RowParts DEF OnRows
<1>2. x \in Msg(a) /\ Row(a, e, x) /\ x < w.top /\ GetNext(a, e, x) = w.top
  BY <1>1, PrevRow, NextOfPrev
<1>3. /\ z \in Msg(a) /\ Row(a, e, z) /\ z < w.cursor /\ GetNext(a, e, z) = w.cursor
      /\ \A r : Row(a, e, r) /\ r < w.cursor => r <= z
  BY <1>1, PrevRow, NextOfPrev
<1>4. x \in Nat /\ z \in Nat
  BY <1>2, <1>3, ArchiveParts
<1>5. x <= z
  BY <1>1, <1>2, <1>3, <1>4
<1>6. end2 \in 1..Count(a) /\ Row(a, e, end2) /\ x < end2
  BY <1>2, EndBeyond, EndIsRow
<1>7. z < end2
  <2> SUFFICES ASSUME end2 <= z PROVE FALSE
    BY <1>4, <1>6
  <2>1. end2 < Count(a)
    BY <1>1, <1>3, <1>4, <1>6
  <2>2. end = GetNext(a, e, end2)
    BY <1>2, <2>1, EndShifts
  <2>3. end2 \in Msg(a) /\ end2 < w.cursor
    BY <1>1, <1>3, <1>4, <1>6, <2>1, ArchiveParts
  <2>4. end <= w.cursor
    BY <1>1, <2>2, <2>3, NextLeast
  <2> QED
    BY <1>1, <2>4
<1> QED
  BY <1>2, <1>3, <1>4, <1>5, <1>7

LEMMA CursorUpOnRows ==
    ASSUME NEW a, IsArchive(a), NEW e, NEW n \in Nat \ {0}, NEW w, OnRows(a, e, n, w)
    PROVE  OnRows(a, e, n, MoveCursorUp(a, e, n, w))
<1> DEFINE up == GetPrev(a, e, w.top)
           upper == GetPrev(a, e, w.bottom)
           before == GetPrev(a, e, w.cursor)
           end == RowsEnd(a, e, n, w.top)
           to == IF w.cursor = 0 THEN w
                 ELSE IF w.cursor = w.top THEN [top |-> up, bottom |-> upper, cursor |-> up]
                 ELSE [w EXCEPT !.cursor = before]
<1>1. MoveCursorUp(a, e, n, w) = Draw(a, e, n, to)
  BY DEF MoveCursorUp
<1>2. /\ w \in View /\ w.top \in Nat /\ w.cursor \in Nat /\ w.top \in Msg(a)
      /\ Row(a, e, w.top) /\ Row(a, e, w.cursor) /\ w.cursor < end /\ w.top <= w.cursor
      /\ Count(a) \in Nat /\ end \in 1..Count(a)
  BY RowParts DEF OnRows
<1>3. up \in Int /\ upper \in Int /\ before \in Int
  BY RowNumbers
<1> HIDE DEF upper, end
<1>4. CASE w.cursor = 0
  <2>1. to = w
    BY <1>4
  <2> HIDE DEF to
  <2> QED
    BY <1>1, <2>1, DrawOnRows, RowParts
<1>5. CASE w.cursor # 0 /\ w.cursor = w.top
  <2>1. up \in Msg(a) /\ Row(a, e, up) /\ up < RowsEnd(a, e, n, up)
    <3>1. w.top \in 1..Count(a)
      BY <1>2, <1>5
    <3>2. up \in Msg(a) /\ Row(a, e, up)
      BY <3>1, PrevRow
    <3> QED
      BY <3>2, EndBeyond
  <2>2. to = [top |-> up, bottom |-> upper, cursor |-> up]
    BY <1>5
  <2> HIDE DEF to, up
  <2>3. to \in View /\ to.top = up /\ to.cursor = up
    BY <1>3, <2>2 DEF View
  <2>4. OnRows(a, e, n, to)
    BY <1>3, <2>1, <2>3 DEF OnRows
  <2> QED
    BY <1>1, <2>4, DrawOnRows, RowParts
<1>6. CASE w.cursor # 0 /\ w.cursor # w.top
  <2>1. Row(a, e, before) /\ before < w.cursor /\ w.top <= before
    <3>1. w.cursor \in 1..Count(a) /\ w.top < w.cursor
      BY <1>2, <1>6
    <3> QED
      BY <1>2, <3>1, PrevRow
  <2>2. to = [w EXCEPT !.cursor = before]
    BY <1>6
  <2> HIDE DEF to, before
  <2>3. to \in View /\ to.top = w.top /\ to.cursor = before
    BY <1>2, <1>3, <2>2 DEF View
  <2>4. OnRows(a, e, n, to)
    BY <1>2, <1>3, <2>1, <2>3 DEF OnRows, end
  <2> QED
    BY <1>1, <2>4, DrawOnRows, RowParts
<1> QED
  BY <1>4, <1>5, <1>6

LEMMA EndsOnRows ==
    ASSUME NEW a, IsArchive(a), NEW e, NEW n \in Nat \ {0}, NEW w, OnRows(a, e, n, w),
           Drawn(a, e, n, w)
    PROVE  OnRows(a, e, n, MoveCursorTop(a, e, n, w)) /\ OnRows(a, e, n, MoveCursorBottom(a, e, n, w))
<1> DEFINE low == GetPrev(a, e, w.bottom)
           end == RowsEnd(a, e, n, w.top)
<1>1. /\ w \in View /\ w.bottom = end /\ w.top \in Nat /\ w.cursor \in Nat /\ w.top \in Msg(a)
      /\ Row(a, e, w.top) /\ w.cursor < end /\ w.top <= w.cursor
      /\ Count(a) \in Nat /\ end \in 1..Count(a)
  BY RowParts DEF OnRows, Drawn
<1>2. low \in Int /\ Row(a, e, low) /\ low < end /\ w.top <= low
  <2>1. w.top < end
    BY <1>1
  <2> QED
    BY <1>1, <2>1, PrevRow, RowNumbers
<1>3. OnRows(a, e, n, [w EXCEPT !.cursor = w.top])
  <2>1. w.top < end
    BY <1>1
  <2> QED
    BY <1>1, <2>1 DEF OnRows, View
<1>4. OnRows(a, e, n, [w EXCEPT !.cursor = low])
  <2> HIDE DEF low
  <2> QED
    BY <1>1, <1>2 DEF OnRows, View
<1>5. OnRows(a, e, n, MoveCursorTop(a, e, n, w))
  <2> DEFINE u == [w EXCEPT !.cursor = w.top]
  <2>1. MoveCursorTop(a, e, n, w) = Draw(a, e, n, u)
    BY DEF MoveCursorTop
  <2> HIDE DEF u
  <2> QED
    BY <1>3, <2>1, DrawOnRows, RowParts DEF u
<1>6. OnRows(a, e, n, MoveCursorBottom(a, e, n, w))
  <2> DEFINE u == [w EXCEPT !.cursor = low]
  <2>1. MoveCursorBottom(a, e, n, w) = Draw(a, e, n, u)
    BY DEF MoveCursorBottom
  <2>2. OnRows(a, e, n, u)
    BY <1>4
  <2> HIDE DEF u
  <2> QED
    BY <2>1, <2>2, DrawOnRows, RowParts
<1> QED
  BY <1>5, <1>6

LEMMA PageForwardOnRows ==
    ASSUME NEW a, IsArchive(a), NEW e, NEW n \in Nat \ {0}, NEW w, OnRows(a, e, n, w),
           Drawn(a, e, n, w)
    PROVE  OnRows(a, e, n, PageForward(a, e, n, w))
<1> DEFINE V == {v \in View : OnRows(a, e, n, v) /\ Drawn(a, e, n, v)}
<1>1. w \in View /\ n - 1 \in Nat /\ w \in V
  BY DEF OnRows
<1>2. PICK f : /\ LoopRun(n - 1, w, Forwards(a, e), f)
               /\ PageForward(a, e, n, w) = Draw(a, e, n, f[n - 1])
  BY <1>1, ForwardRun
<1>3. ASSUME NEW v \in View, v \in V PROVE Forwards(a, e)[v] \in V
  <2> DEFINE x == GetNext(a, e, v.top)
             y == GetNext(a, e, v.bottom)
             z == GetNext(a, e, v.cursor)
             to == [top |-> x, bottom |-> y, cursor |-> z]
  <2>1. x \in Int /\ y \in Int /\ z \in Int
    BY RowNumbers
  <2>2. Forwards(a, e)[v] = IF v.bottom >= Count(a) THEN v ELSE to
    BY DEF Forwards
  <2>3. v.bottom = RowsEnd(a, e, n, v.top) /\ OnRows(a, e, n, v)
    BY <1>3 DEF Drawn
  <2>4. v.bottom \in Nat /\ Count(a) \in Nat
    BY <2>3, RowParts
  <2>5. CASE v.bottom >= Count(a)
    BY <1>3, <2>2, <2>5
  <2>6. CASE v.bottom < Count(a)
    <3>1. /\ x \in Msg(a) /\ Row(a, e, x) /\ Row(a, e, z) /\ x <= z /\ z <= v.bottom
          /\ RowsEnd(a, e, n, x) = y /\ v.bottom < y
      BY <2>3, <2>6, DownOnRows
    <3>2. Forwards(a, e)[v] = to
      BY <2>2, <2>4, <2>6
    <3> HIDE DEF x, y, z
    <3>3. to \in View /\ to.top = x /\ to.bottom = y /\ to.cursor = z
      BY <2>1 DEF View
    <3> HIDE DEF to
    <3>4. z < y
      BY <2>1, <2>4, <3>1
    <3>5. to \in V
      BY <3>1, <3>3, <3>4 DEF OnRows, Drawn
    <3> QED
      BY <3>2, <3>5
  <2> QED
    BY <2>4, <2>5, <2>6
<1>4. f[n - 1] \in V
  <2> HIDE DEF V
  <2> QED
    BY <1>1, <1>2, <1>3, LoopStays
<1> QED
  BY <1>2, <1>4, DrawOnRows, RowParts

LEMMA PageBackwardOnRows ==
    ASSUME NEW a, IsArchive(a), NEW e, NEW n \in Nat \ {0}, NEW w, OnRows(a, e, n, w)
    PROVE  OnRows(a, e, n, PageBackward(a, e, n, w))
<1> DEFINE V == {v \in View : OnRows(a, e, n, v)}
<1>1. w \in View /\ n - 1 \in Nat /\ w \in V
  BY DEF OnRows
<1>2. PICK f : /\ LoopRun(n - 1, w, Backwards(a, e), f)
               /\ PageBackward(a, e, n, w) = Draw(a, e, n, f[n - 1])
  BY <1>1, BackwardRun
<1>3. ASSUME NEW v \in View, v \in V PROVE Backwards(a, e)[v] \in V
  <2> DEFINE x == GetPrev(a, e, v.top)
             y == GetPrev(a, e, v.bottom)
             z == GetPrev(a, e, v.cursor)
             to == [top |-> x, bottom |-> y, cursor |-> z]
  <2>1. x \in Int /\ y \in Int /\ z \in Int
    BY RowNumbers
  <2>2. Backwards(a, e)[v] = IF v.top <= 0 THEN v ELSE to
    BY DEF Backwards
  <2>3. OnRows(a, e, n, v) /\ v.top \in Nat
    BY <1>3, RowParts
  <2>4. CASE v.top <= 0
    BY <1>3, <2>2, <2>4
  <2>5. CASE v.top > 0
    <3>1. x \in Msg(a) /\ Row(a, e, x) /\ Row(a, e, z) /\ x <= z /\ z < RowsEnd(a, e, n, x)
      BY <2>3, <2>5, UpOnRows
    <3>2. Backwards(a, e)[v] = to
      BY <2>2, <2>3, <2>5
    <3> HIDE DEF x, y, z
    <3>3. to \in View /\ to.top = x /\ to.cursor = z
      BY <2>1 DEF View
    <3> HIDE DEF to
    <3>4. to \in V
      BY <3>1, <3>3 DEF OnRows
    <3> QED
      BY <3>2, <3>4
  <2> QED
    BY <2>3, <2>4, <2>5
<1>4. f[n - 1] \in V
  <2> HIDE DEF V
  <2> QED
    BY <1>1, <1>2, <1>3, LoopStays
<1> QED
  BY <1>2, <1>4, DrawOnRows, RowParts
-----------------------------------------------------------------------------
(* FocusOn and Resize.                                                     *)

(* The window of FocusOn, before it is drawn.                              *)
FocusTop(v, m) == IF m < v.top \/ m >= v.bottom THEN m ELSE v.top

FocusScrolls(a, e, n, v, m) ==
    LET bottom == RowsEnd(a, e, n, FocusTop(v, m))
    IN  bottom # Count(a) /\ m = GetPrev(a, e, bottom)

(* FocusOn keeps top where the message is in the window, puts it at the    *)
(* message elsewhere, and goes down by one row from the last row.          *)
LEMMA FocusIs ==
    ASSUME NEW a, IsArchive(a), NEW e, NEW n \in Nat, NEW v \in View, NEW m \in Int
    PROVE  LET top == IF FocusScrolls(a, e, n, v, m) THEN GetNext(a, e, FocusTop(v, m))
                      ELSE FocusTop(v, m)
           IN  FocusOn(a, e, n, v, m) = [top |-> top, bottom |-> RowsEnd(a, e, n, top), cursor |-> m]
<1> DEFINE t == FocusTop(v, m)
           end == RowsEnd(a, e, n, t)
           there == [top |-> t, bottom |-> end, cursor |-> m]
           last == IF end # Count(a) /\ m = GetPrev(a, e, end)
                   THEN ScrollDown(a, e, there) ELSE there
           x == GetNext(a, e, t)
<1>1. FocusOn(a, e, n, v, m) = Draw(a, e, n, last)
  BY DEF FocusOn, FocusTop
<1>2. t \in Int
  BY DEF FocusTop, View
<1> HIDE DEF t
<1>3. end \in Int
  BY <1>2, RowsEndTyped
<1>4. FocusScrolls(a, e, n, v, m) <=> end # Count(a) /\ m = GetPrev(a, e, end)
  BY DEF FocusScrolls, t
<1> HIDE DEF end
<1>5. there \in View /\ there.top = t /\ there.cursor = m
  BY <1>2, <1>3 DEF View
<1> HIDE DEF there
<1>6. ScrollDown(a, e, there).top = x /\ ScrollDown(a, e, there).cursor = m
  BY <1>5, ScrollTyped
<1>7. last.cursor = m /\ last.top = IF FocusScrolls(a, e, n, v, m) THEN x ELSE t
  BY <1>4, <1>5, <1>6
<1> HIDE DEF last, x
<1> QED
  BY <1>1, <1>7 DEF Draw, t, x

(* It stays in the archive wherever it started.                            *)
LEMMA FocusRange ==
    ASSUME NEW a, IsArchive(a), NEW e, NEW n \in Nat \ {0}, NEW v \in View, v.top \in Msg(a),
           NEW m \in Msg(a)
    PROVE  LET r == FocusOn(a, e, n, v, m)
           IN  /\ r \in View /\ r.top \in Msg(a) /\ r.cursor = m /\ Drawn(a, e, n, r)
               /\ Row(a, e, v.top) => Row(a, e, r.top) \/ r.cursor <= r.top
<1> DEFINE t == FocusTop(v, m)
           end == RowsEnd(a, e, n, t)
           scrolls == FocusScrolls(a, e, n, v, m)
           x == GetNext(a, e, t)
           top == IF scrolls THEN x ELSE t
           r == FocusOn(a, e, n, v, m)
<1>1. m \in Int /\ m \in Nat /\ Count(a) \in Nat /\ \A i \in Int : i \in Msg(a) <=> 0 <= i /\ i < Count(a)
  BY ArchiveParts
<1>2. r = [top |-> top, bottom |-> RowsEnd(a, e, n, top), cursor |-> m]
  BY <1>1, FocusIs
<1>3. t \in Msg(a) /\ (t = m \/ t = v.top)
  BY DEF FocusTop
<1>4. scrolls => end # Count(a) /\ m = GetPrev(a, e, end)
  BY DEF FocusScrolls
<1> HIDE DEF t, scrolls, r
<1>5. end \in 1..Count(a) /\ x <= end
  BY <1>3, EndBeyond
<1>6. x \in 1..Count(a) /\ (Row(a, e, t) => Row(a, e, x))
  BY <1>3, RowNumbers, NextRow
<1>7. scrolls => Row(a, e, m)
  BY <1>4, <1>5, PrevRow
<1> HIDE DEF end, x
<1>8. scrolls => x \in Msg(a)
  BY <1>1, <1>4, <1>5, <1>6
<1>9. top \in Msg(a) /\ top \in Int
  BY <1>1, <1>3, <1>8, ArchiveParts
<1>10. Row(a, e, v.top) => Row(a, e, top) \/ m <= top
  <2> SUFFICES ASSUME Row(a, e, v.top) PROVE Row(a, e, top) \/ m <= top
    OBVIOUS
  <2>1. CASE scrolls
    <3>1. Row(a, e, t)
      BY <1>3, <1>7, <2>1
    <3> QED
      BY <1>6, <2>1, <3>1
  <2>2. CASE ~scrolls
    BY <1>1, <1>3, <2>2
  <2> QED
    BY <2>1, <2>2
<1> HIDE DEF top
<1>11. RowsEnd(a, e, n, top) \in Int
  BY <1>9, RowsEndTyped
<1>12. r \in View /\ r.top = top /\ r.cursor = m /\ r.bottom = RowsEnd(a, e, n, top)
  BY <1>1, <1>2, <1>9, <1>11 DEF View
<1>13. r \in View /\ r.top \in Msg(a) /\ r.cursor = m /\ Drawn(a, e, n, r)
  BY <1>9, <1>12 DEF Drawn
<1>14. Row(a, e, v.top) => Row(a, e, r.top) \/ r.cursor <= r.top
  BY <1>10, <1>12
<1> QED
  BY <1>13, <1>14 DEF r

(* A row is in a window of two rows or more after it was gone to.          *)
LEMMA FocusOnRows ==
    ASSUME NEW a, IsArchive(a), NEW e, NEW n \in Nat, n > 1, NEW v \in View, NEW m \in Msg(a),
           Row(a, e, m),
           \/ m < v.top \/ m >= v.bottom
           \/ v.top \in Msg(a) /\ Row(a, e, v.top) /\ m < RowsEnd(a, e, n, v.top)
    PROVE  OnRows(a, e, n, FocusOn(a, e, n, v, m))
<1> DEFINE t == FocusTop(v, m)
           end == RowsEnd(a, e, n, t)
           scrolls == FocusScrolls(a, e, n, v, m)
           x == GetNext(a, e, t)
           top == IF scrolls THEN x ELSE t
           end2 == RowsEnd(a, e, n, top)
           r == FocusOn(a, e, n, v, m)
<1>1. /\ m \in Int /\ m \in Nat /\ Count(a) \in Nat /\ n \in Nat \ {0} /\ v.top \in Int
      /\ \A i \in Int : i \in Msg(a) <=> 0 <= i /\ i < Count(a)
  BY ArchiveParts DEF View
<1>2. r = [top |-> top, bottom |-> end2, cursor |-> m]
  BY <1>1, FocusIs
<1>3. t \in Msg(a) /\ Row(a, e, t) /\ t <= m /\ m < end
  <2>1. CASE m < v.top \/ m >= v.bottom
    <3>1. t = m
      BY <2>1 DEF FocusTop
    <3>2. m < RowsEnd(a, e, n, m)
      BY <1>1, EndBeyond
    <3> HIDE DEF t
    <3> QED
      BY <1>1, <3>1, <3>2
  <2>2. CASE ~(m < v.top \/ m >= v.bottom)
    <3>1. t = v.top
      BY <2>2 DEF FocusTop
    <3> HIDE DEF t
    <3> QED
      BY <1>1, <2>2, <3>1
  <2> QED
    BY <2>1, <2>2
<1>4. scrolls => end # Count(a) /\ m = GetPrev(a, e, end)
  BY DEF FocusScrolls
<1> HIDE DEF t, scrolls, r
<1>5. end \in 1..Count(a)
  BY <1>1, <1>3, EndBeyond
<1>6. ASSUME scrolls PROVE x \in Msg(a) /\ Row(a, e, x) /\ x <= m /\ m < RowsEnd(a, e, n, x)
  <2>1. end < Count(a)
    <3> HIDE DEF end
    <3> QED
      BY <1>1, <1>4, <1>5, <1>6
  <2>2. x \in Msg(a) /\ Row(a, e, x) /\ RowsEnd(a, e, n, x) = GetNext(a, e, end)
    BY <1>1, <1>3, <2>1, EndShifts
  <2>3. x < end
    BY <1>3, <2>2, SecondRow
  <2>4. x <= m
    BY <1>4, <1>5, <1>6, <2>2, <2>3, PrevRow
  <2>5. end \in Msg(a) /\ end < GetNext(a, e, end) /\ GetNext(a, e, end) \in 1..Count(a)
    <3>1. end \in Msg(a)
      <4> HIDE DEF end
      <4> QED
        BY <1>1, <1>5, <2>1
    <3> QED
      BY <3>1, RowNumbers
  <2> HIDE DEF end
  <2>6. m < GetNext(a, e, end)
    BY <1>1, <1>3, <1>5, <2>5
  <2> QED
    BY <2>2, <2>4, <2>6
<1> HIDE DEF end, x
<1>7. top \in Msg(a) /\ Row(a, e, top) /\ top <= m /\ m < end2
  BY <1>3, <1>6 DEF end
<1>8. end2 \in Int
  <2>1. top \in Int
    BY <1>7, ArchiveParts
  <2> HIDE DEF top
  <2> QED
    BY <1>1, <2>1, RowsEndTyped
<1>9. r \in View /\ r.top = top /\ r.cursor = m
  <2>1. top \in Int
    BY <1>7, ArchiveParts
  <2> HIDE DEF top, end2
  <2> QED
    BY <1>1, <1>2, <1>8, <2>1 DEF View
<1>10. OnRows(a, e, n, r)
  <2> HIDE DEF top
  <2> QED
    BY <1>7, <1>9 DEF OnRows
<1> QED
  BY <1>10 DEF r

(* A window of another height goes down until the cursor is in it.         *)
LEMMA ResizeRange ==
    ASSUME NEW a, IsArchive(a), NEW e, NEW n \in Nat \ {0}, NEW v \in View,
           v.top \in Msg(a), v.cursor \in Msg(a), Row(a, e, v.top) \/ v.cursor <= v.top
    PROVE  LET r == Resize(a, e, n, v)
           IN  /\ r \in View /\ r.top \in Msg(a) /\ r.cursor = v.cursor /\ Drawn(a, e, n, r)
               /\ Row(a, e, v.top) /\ v.top <= v.cursor =>
                     Row(a, e, r.top) /\ r.top <= r.cursor /\ r.cursor < r.bottom
<1> DEFINE c == Count(a)
           start == Draw(a, e, n, v)
           r == Resize(a, e, n, v)
<1>0. /\ c \in Nat /\ n \in Nat /\ Msg(a) \subseteq Nat
      /\ \A i \in Int : i \in Msg(a) <=> 0 <= i /\ i < c
  BY ArchiveParts
<1>1. PICK f : LoopRun(c, start, Scrolls(a, e), f) /\ r = Draw(a, e, n, f[c])
  BY <1>0, ResizeRun
<1>2. /\ start \in View /\ start.top = v.top /\ start.cursor = v.cursor /\ Drawn(a, e, n, start)
      /\ start.bottom \in 1..c /\ v.top < start.bottom
  BY EndBeyond DEF Draw, View, Drawn
<1>s. \A w \in View : Scrolls(a, e)[w] = IF w.cursor >= w.bottom THEN ScrollDown(a, e, w) ELSE w
  BY DEF Scrolls
<1> HIDE DEF start, r, c
<1>d. ASSUME NEW w \in View, w.top \in Msg(a), w.cursor = v.cursor
      PROVE  /\ Draw(a, e, n, w) \in View /\ Draw(a, e, n, w).top = w.top
             /\ Draw(a, e, n, w).cursor = v.cursor /\ Drawn(a, e, n, Draw(a, e, n, w))
             /\ Draw(a, e, n, w).bottom = RowsEnd(a, e, n, w.top)
  <2>1. RowsEnd(a, e, n, w.top) \in Int
    BY <1>d, EndBeyond
  <2> QED
    BY <1>d, <2>1 DEF Draw, View, Drawn
<1>3. CASE v.cursor <= v.top
  <2>1. v.cursor \in Nat /\ v.top \in Nat
    BY <1>0
  <2>2. ~(start.cursor >= start.bottom)
    BY <1>0, <1>2, <1>3, <2>1
  <2>3. Scrolls(a, e)[start] = start
    BY <1>2, <1>s, <2>2
  <2>4. f[c] \in {start}
    <3> DEFINE S == {start}
    <3>1. start \in S /\ \A w \in View : w \in S => Scrolls(a, e)[w] \in S
      BY <2>3
    <3> HIDE DEF S
    <3>2. f[c] \in S
      BY <1>0, <1>1, <3>1, LoopStays
    <3> QED
      BY <3>2 DEF S
  <2>5. f[c] = start
    BY <2>4
  <2>6. r \in View /\ r.top = v.top /\ r.cursor = v.cursor /\ Drawn(a, e, n, r)
        /\ r.bottom = RowsEnd(a, e, n, v.top)
    BY <1>1, <1>2, <1>d, <2>5
  <2>7. v.top < r.bottom /\ r.bottom \in Int
    BY <1>2, <2>6 DEF Drawn
  <2>8. v.cursor < r.bottom
    BY <1>3, <2>1, <2>7
  <2>9. v.top <= v.cursor /\ Row(a, e, v.top) =>
            Row(a, e, r.top) /\ r.top <= r.cursor /\ r.cursor < r.bottom
    BY <2>6, <2>8
  <2> QED
    BY <2>6, <2>9 DEF r
<1>4. CASE Row(a, e, v.top) /\ v.top < v.cursor
  <2> DEFINE Down1(k, w) == /\ w \in View /\ w.top \in Msg(a) /\ Row(a, e, w.top)
                            /\ w.cursor = v.cursor /\ w.top <= w.cursor /\ Drawn(a, e, n, w)
                            /\ w.cursor < w.bottom \/ k <= w.top
             S == {p \in Nat \X View : Down1(p[1], p[2])}
             F == [k \in 0..c |-> <<k, f[k]>>]
  <2>1. \A k \in 0..c : F[k] = <<k, f[k]>> /\ f[k] \in View /\ k \in Nat
    BY <1>0, <1>1 DEF LoopRun
  <2>2. \A k \in Nat, w \in View : <<k, w>> \in S <=> Down1(k, w)
    OBVIOUS
  <2>3. F[0] \in S
    <3>1. f[0] = start
      BY <1>1 DEF LoopRun
    <3>2. Down1(0, start)
      BY <1>0, <1>2, <1>4
    <3> HIDE DEF F, S, Down1
    <3> QED
      BY <1>0, <1>2, <2>1, <2>2, <3>1, <3>2
  <2>4. ASSUME NEW k \in 1..c, F[k - 1] \in S PROVE F[k] \in S
    <3> DEFINE w == f[k - 1]
               u == f[k]
    <3>1. k - 1 \in 0..c /\ k \in 0..c
      BY <1>0
    <3>2. w \in View /\ k - 1 \in Nat /\ k \in Nat /\ u \in View
      BY <2>1, <3>1
    <3>3. Down1(k - 1, w)
      <4> HIDE DEF F, S, Down1
      <4> QED
        BY <2>1, <2>2, <2>4, <3>1, <3>2
    <3>4. u = IF w.cursor >= w.bottom THEN ScrollDown(a, e, w) ELSE w
      BY <1>1, <1>s, <3>2 DEF LoopRun
    <3> HIDE DEF w, u
    <3>5. w.cursor \in Nat /\ w.cursor < c /\ w.bottom \in 1..c /\ w.top \in Nat
      BY <1>0, <3>3, EndBeyond DEF Drawn, c
    <3>6. Down1(k, u)
      <4>1. CASE w.cursor >= w.bottom
        <5> DEFINE x == GetNext(a, e, w.top)
                   y == GetNext(a, e, w.bottom)
        <5>1. u = [top |-> x, bottom |-> y, cursor |-> w.cursor]
          BY <3>2, <3>4, <4>1, ScrollTyped
        <5>2. RowsEnd(a, e, n, w.top) < Count(a) /\ RowsEnd(a, e, n, w.top) = w.bottom
          BY <1>0, <3>3, <3>5, <4>1 DEF Drawn, c
        <5>3. x \in Msg(a) /\ Row(a, e, x) /\ x <= w.bottom /\ RowsEnd(a, e, n, x) = y
          BY <3>3, <5>2, EndShifts
        <5>4. w.top < x
          BY <3>3, RowNumbers
        <5> HIDE DEF x, y
        <5>5. x \in Nat /\ k <= x /\ x <= w.cursor
          BY <1>0, <3>2, <3>3, <3>5, <4>1, <5>3, <5>4
        <5> QED
          BY <3>2, <3>3, <5>1, <5>3, <5>5 DEF Drawn
      <4>2. CASE ~(w.cursor >= w.bottom)
        <5>1. u = w /\ w.cursor < w.bottom
          BY <3>4, <3>5, <4>2
        <5> QED
          BY <3>3, <5>1
      <4> QED
        BY <4>1, <4>2
    <3> HIDE DEF F, S, Down1
    <3> QED
      BY <2>1, <2>2, <3>1, <3>2, <3>6 DEF u
  <2>5. F[c] \in S /\ c \in 0..c
    <3> HIDE DEF F, S
    <3> QED
      BY <1>0, <2>3, <2>4, RoundsStay
  <2> DEFINE w == f[c]
  <2>6. Down1(c, w)
    <3> HIDE DEF F, S, Down1
    <3> QED
      BY <1>0, <2>1, <2>2, <2>5
  <2> HIDE DEF w
  <2>7. w.top \in Nat /\ w.top < c
    BY <1>0, <2>6
  <2>8. w.cursor < w.bottom
    BY <1>0, <2>6, <2>7
  <2>9. r = Draw(a, e, n, w)
    BY <1>1 DEF w
  <2>10. r \in View /\ r.top = w.top /\ r.cursor = v.cursor /\ Drawn(a, e, n, r)
         /\ r.bottom = RowsEnd(a, e, n, w.top)
    BY <1>d, <2>6, <2>9
  <2>11. Row(a, e, r.top) /\ r.top <= r.cursor /\ r.cursor < r.bottom
    BY <2>6, <2>8, <2>10 DEF Drawn
  <2> QED
    BY <2>6, <2>10, <2>11 DEF r
<1> QED
  <2>1. v.cursor \in Nat /\ v.top \in Nat
    BY <1>0
  <2> QED
    BY <1>3, <1>4, <2>1
-----------------------------------------------------------------------------
(* What SwitchToMessage and opening an archive expand, and where they put  *)
(* the list.                                                               *)

(* What expanding and collapsing does to the rows.                         *)
LEMMA ExpandRows ==
    ASSUME NEW a, IsArchive(a), NEW t, TreeInv(a, t), NEW m \in Msg(a), NEW recursive \in BOOLEAN
    PROVE  /\ \A k \in Msg(a) : Expand(a, t, m, recursive).expanded[k] =
                                  (t.expanded[k] \/ k \in Opened(a, m, recursive))
           /\ \A k \in Msg(a) : k < m => Expand(a, t, m, recursive).expanded[k] = t.expanded[k]
           /\ Expand(a, t, m, recursive).expanded[m]
<1> DEFINE u == ExpandImpl(a, t, m, recursive)
           depth == IF recursive THEN Depth(a, m) ELSE 1
<1>1. ExpandsTo(a, t, Opened(a, m, recursive), Fresh(a, t, m, recursive), u)
  BY ExpandParts DEF TreeInv
<1>2. TreeForm(a, u) /\ \A k \in Msg(a) : u.expanded[k] = (t.expanded[k] \/ k \in Opened(a, m, recursive))
  BY <1>1 DEF ExpandsTo
<1>3. Expand(a, t, m, recursive) = Condense(a, u, m, depth)
  BY DEF Expand
<1> HIDE DEF u, depth
<1>4. Condense(a, u, m, depth).expanded = u.expanded
  BY <1>2, CondenseParts
<1>5. m \in Opened(a, m, recursive) /\ \A k \in Msg(a) : k < m => k \notin Opened(a, m, recursive)
  BY ArchiveParts DEF Opened, Thread
<1>6. t.expanded \in [Msg(a) -> BOOLEAN]
  BY DEF TreeInv, TreeForm
<1>7. \A k \in Msg(a) : k < m => u.expanded[k] = t.expanded[k]
  BY <1>2, <1>5, <1>6
<1>8. u.expanded[m]
  BY <1>2, <1>5
<1> QED
  BY <1>2, <1>3, <1>4, <1>7, <1>8

ExpandAll(a, t, m) == Expand(a, t, m, TRUE)

LEMMA ExpandAllRows ==
    ASSUME NEW a, IsArchive(a), NEW t, TreeInv(a, t), NEW m \in Msg(a)
    PROVE  /\ \A k \in Msg(a) : ExpandAll(a, t, m).expanded[k] =
                                  (t.expanded[k] \/ k \in Thread(a, m))
           /\ \A k \in Msg(a) : k < m => ExpandAll(a, t, m).expanded[k] = t.expanded[k]
           /\ ExpandAll(a, t, m).expanded[m]
<1> DEFINE all == TRUE
<1>1. all \in BOOLEAN /\ Opened(a, m, all) = Thread(a, m) /\ ExpandAll(a, t, m) = Expand(a, t, m, all)
  BY DEF Opened, ExpandAll
<1> HIDE DEF all
<1> QED
  BY <1>1, ExpandRows

LEMMA CollapseRows ==
    ASSUME NEW a, NEW t, TreeInv(a, t), NEW m
    PROVE  \A k \in Msg(a) : k # m => Collapse(t, m).expanded[k] = t.expanded[k]
<1>1. t = [expanded |-> t.expanded, valid |-> t.valid, line |-> t.line, condensed |-> t.condensed]
      /\ t.expanded \in [Msg(a) -> BOOLEAN]
  BY DEF TreeInv, TreeForm
<1>2. Collapse(t, m) = [t EXCEPT !.expanded = [t.expanded EXCEPT ![m] = FALSE]]
  BY DEF Collapse
<1>3. Collapse(t, m).expanded = [t.expanded EXCEPT ![m] = FALSE]
  BY <1>1, <1>2
<1> QED
  BY <1>1, <1>3

LEMMA RowGrows ==
    ASSUME NEW a, IsArchive(a), NEW e, NEW f, \A k \in Msg(a) : e[k] => f[k], NEW i, Row(a, e, i)
    PROVE  Row(a, f, i)
<1>1. \A m \in Msg(a) : a.above[m] \subseteq Msg(a)
  BY ArchiveParts
<1> QED
  BY <1>1 DEF Row, HasRow

LEMMA TopIsRow ==
    ASSUME NEW a, IsArchive(a), NEW e, NEW m \in Msg(a), a.above[m] = {}
    PROVE  Row(a, e, m)
BY ArchiveParts DEF Row, HasRow

(* What SwitchToMessage expands, and that FocusOn follows.                 *)
LEMMA SwitchIs ==
    ASSUME NEW a, NEW t, NEW n, NEW v, NEW m
    PROVE  /\ SwitchToMessage(a, t, n, v, m).tree =
                  IF m \in Msg(a) /\ m # GetRoot(a, m) /\ CanExpand(a, GetRoot(a, m))
                     /\ ~t.expanded[GetRoot(a, m)]
                  THEN ExpandAll(a, t, GetRoot(a, m)) ELSE t
           /\ SwitchToMessage(a, t, n, v, m).view =
                  FocusOn(a, SwitchToMessage(a, t, n, v, m).tree.expanded, n, v, m)
<1> DEFINE root == GetRoot(a, m)
           t1 == IF m \in Msg(a) /\ m # root /\ CanExpand(a, root) /\ ~t.expanded[root]
                 THEN ExpandAll(a, t, root) ELSE t
<1>1. SwitchToMessage(a, t, n, v, m) = [tree |-> t1, view |-> FocusOn(a, t1.expanded, n, v, m)]
  BY DEF SwitchToMessage, ExpandAll
<1> HIDE DEF t1
<1>2. SwitchToMessage(a, t, n, v, m).tree = t1
      /\ SwitchToMessage(a, t, n, v, m).view = FocusOn(a, t1.expanded, n, v, m)
  BY <1>1
<1> QED
  BY <1>2 DEF t1

(* A thread gone to has been expanded, or a tree is as it was.             *)
LEMMA SwitchRows ==
    ASSUME NEW a, IsArchive(a), NEW t, TreeInv(a, t), NEW n, NEW v, NEW m \in Msg(a)
    PROVE  LET u == SwitchToMessage(a, t, n, v, m).tree
           IN  /\ \A k \in Msg(a) : t.expanded[k] => u.expanded[k]
               /\ u = t \/ \E k \in Msg(a) : u.expanded[k] /\ ~t.expanded[k]
               /\ (\A k \in Msg(a) : ~t.expanded[k]) => Row(a, u.expanded, m)
<1> DEFINE root == GetRoot(a, m)
           u == SwitchToMessage(a, t, n, v, m).tree
           opens == m # root /\ CanExpand(a, root) /\ ~t.expanded[root]
<1>1. u = IF opens THEN ExpandAll(a, t, root) ELSE t
  <2>1. u = IF m \in Msg(a) /\ m # root /\ CanExpand(a, root) /\ ~t.expanded[root]
            THEN ExpandAll(a, t, root) ELSE t
    BY SwitchIs
  <2> HIDE DEF u, root
  <2> QED
    BY <2>1
<1>2. /\ root \in Msg(a) /\ a.above[root] = {} /\ root \in Nat /\ m \in Nat
      /\ root <= m /\ m < root + a.total[root] /\ a.total[root] \in Nat
  BY RootIsTop, ArchiveParts
<1> HIDE DEF u, root
<1>3. opens => /\ \A k \in Msg(a) : u.expanded[k] = (t.expanded[k] \/ k \in Thread(a, root))
               /\ u.expanded[root]
  <2> DEFINE w == ExpandAll(a, t, root)
  <2>2. /\ \A k \in Msg(a) : w.expanded[k] = (t.expanded[k] \/ k \in Thread(a, root))
        /\ w.expanded[root]
    BY <1>2, ExpandAllRows
  <2>3. opens => u = w
    BY <1>1
  <2> HIDE DEF w, opens
  <2> QED
    BY <2>2, <2>3
<1>4. \A k \in Msg(a) : t.expanded[k] => u.expanded[k]
  BY <1>1, <1>3
<1>5. u = t \/ \E k \in Msg(a) : u.expanded[k] /\ ~t.expanded[k]
  BY <1>1, <1>2, <1>3
<1>6. ASSUME \A k \in Msg(a) : ~t.expanded[k] PROVE Row(a, u.expanded, m)
  <2>1. CASE m = root
    BY <1>2, <2>1, TopIsRow
  <2>2. CASE m # root
    <3>1. opens
      <4>1. a.total[root] > 1
        BY <1>2, <2>2
      <4> QED
        BY <1>2, <1>6, <2>2, <4>1 DEF CanExpand
    <3>2. ASSUME NEW p \in a.above[m] PROVE u.expanded[p]
      <4>1. p \in Msg(a) /\ GetRoot(a, p) = root
        BY AboveRoot DEF root
      <4>2. p \in Thread(a, root)
        BY <1>2, <4>1, RootThread
      <4> QED
        BY <1>3, <3>1, <4>1, <4>2
    <3> QED
      BY <3>2, ArchiveParts DEF Row, HasRow
  <2> QED
    BY <2>1, <2>2
<1> QED
  BY <1>4, <1>5, <1>6 DEF u

(* A view of messages there are.                                           *)
Ranged(a, w) == w \in View /\ w.top \in Msg(a) /\ w.cursor \in Msg(a) /\ w.bottom \in 1..Count(a)

(* A window of another height can go down to its cursor.                   *)
Resizes(a, e, w) == Row(a, e, w.top) \/ w.cursor <= w.top

LEMMA DrawnRanged ==
    ASSUME NEW a, IsArchive(a), NEW e, NEW n \in Nat \ {0}, NEW w \in View,
           w.top \in Msg(a), w.cursor \in Msg(a), Drawn(a, e, n, w)
    PROVE  Ranged(a, w)
BY EndBeyond DEF Ranged, Drawn

LEMMA OnRowsRanged ==
    ASSUME NEW a, IsArchive(a), NEW e, NEW n \in Nat \ {0}, NEW w, OnRows(a, e, n, w),
           Drawn(a, e, n, w)
    PROVE  Ranged(a, w) /\ Resizes(a, e, w)
BY RowParts, DrawnRanged DEF OnRows, Resizes

(* It leads to a view of messages there are.                               *)
LEMMA SwitchRange ==
    ASSUME NEW a, IsArchive(a), NEW t, TreeInv(a, t), NEW n \in Nat \ {0}, NEW v \in View,
           v.top \in Msg(a), NEW m \in Msg(a)
    PROVE  LET to == SwitchToMessage(a, t, n, v, m)
           IN  /\ Ranged(a, to.view) /\ Drawn(a, to.tree.expanded, n, to.view) /\ to.view.cursor = m
               /\ Row(a, t.expanded, v.top) => Resizes(a, to.tree.expanded, to.view)
<1> DEFINE to == SwitchToMessage(a, t, n, v, m)
           e  == to.tree.expanded
<1>1. to.view = FocusOn(a, e, n, v, m)
  BY SwitchIs
<1>2. \A k \in Msg(a) : t.expanded[k] => e[k]
  BY SwitchRows
<1> HIDE DEF e
<1>3. /\ to.view \in View /\ to.view.top \in Msg(a) /\ to.view.cursor = m /\ Drawn(a, e, n, to.view)
      /\ Row(a, e, v.top) => Row(a, e, to.view.top) \/ to.view.cursor <= to.view.top
  BY <1>1, FocusRange
<1>4. Ranged(a, to.view)
  BY <1>3, DrawnRanged
<1>5. Row(a, t.expanded, v.top) => Row(a, e, v.top)
  BY <1>2, RowGrows
<1> QED
  BY <1>3, <1>4, <1>5 DEF e, Resizes

(* Opened at the top, or at what its history ends with.                    *)
LEMMA ReopenRange ==
    ASSUME NEW a, IsArchive(a), NEW saved \in Seq(Nat), NEW n \in Nat \ {0}, NEW bottom \in Int
    PROVE  LET at == Reopen(a, saved, n, bottom)
           IN  /\ at.view \in View /\ at.view.top \in Msg(a) /\ at.view.cursor \in Msg(a)
               /\ Resizes(a, at.tree.expanded, at.view)
               /\ saved # <<>> => Drawn(a, at.tree.expanded, n, at.view)
               /\ saved = <<>> => at.tree = NewTree(a)
                                  /\ at.view = [top |-> 0, bottom |-> bottom, cursor |-> 0]
               /\ bottom = 0 /\ n > 1 => /\ Row(a, at.tree.expanded, at.view.top)
                                         /\ Row(a, at.tree.expanded, at.view.cursor)
                                         /\ at.view.top <= at.view.cursor
<1> DEFINE at == Reopen(a, saved, n, bottom)
           fresh == [top |-> 0, bottom |-> bottom, cursor |-> 0]
           m == Min({Count(a) - 1, saved[Len(saved)]})
           t == NewTree(a)
           to == SwitchToMessage(a, t, n, fresh, m)
<1>1. Reopen(a, saved, n, bottom) = IF saved = <<>> THEN [tree |-> t, view |-> fresh] ELSE to
  BY DEF Reopen
<1>2. TreeInv(a, t)
  BY NewTreeRight
<1>3. \A k \in Msg(a) : ~t.expanded[k]
  BY DEF NewTree
<1>4. 0 \in Msg(a) /\ a.above[0] = {} /\ \A e : Row(a, e, 0)
  <2>1. 0 \in Msg(a)
    BY ArchiveParts
  <2>2. \A p \in Msg(a) : p \in Nat /\ ~(p < 0)
    BY ArchiveParts
  <2>3. a.above[0] \subseteq Msg(a)
    BY <2>1, ArchiveParts
  <2>4. a.above[0] = {}
    BY <2>1, <2>2, <2>3, AboveIs
  <2> QED
    BY <2>1, <2>4, TopIsRow
<1>5. fresh \in View /\ fresh.top = 0 /\ fresh.cursor = 0 /\ fresh.bottom = bottom
  BY DEF View
<1> HIDE DEF t, fresh
<1>6. CASE saved = <<>>
  <2>1. at.tree = t /\ at.view = fresh
    BY <1>1, <1>6
  <2> QED
    BY <1>4, <1>5, <1>6, <2>1 DEF Resizes, t, fresh
<1>7. CASE saved # <<>>
  <2>1. saved[Len(saved)] \in Nat /\ Count(a) - 1 \in Nat /\ Msg(a) = 0..(Count(a) - 1)
    BY <1>7, ArchiveParts
  <2>2. m \in Msg(a) /\ m \in Nat
    <3> DEFINE S == {Count(a) - 1, saved[Len(saved)]}
    <3>1. S \in SUBSET Nat /\ S # {}
      BY <2>1
    <3>2. Count(a) - 1 \in S
      OBVIOUS
    <3> HIDE DEF S
    <3>3. Min(S) \in S /\ Min(S) <= Count(a) - 1
      BY <3>1, <3>2, LeastOf
    <3>4. Min(S) \in Nat
      BY <3>1, <3>3
    <3> QED
      BY <2>1, <3>3, <3>4 DEF S
  <2> HIDE DEF m
  <2>3. at = to
    BY <1>1, <1>7
  <2>4. /\ Ranged(a, to.view) /\ Drawn(a, to.tree.expanded, n, to.view) /\ to.view.cursor = m
        /\ Row(a, t.expanded, fresh.top) => Resizes(a, to.tree.expanded, to.view)
    BY <1>2, <1>4, <1>5, <2>2, SwitchRange
  <2>5. Resizes(a, to.tree.expanded, to.view)
    BY <1>4, <1>5, <2>4
  <2>6. ASSUME bottom = 0, n > 1
        PROVE  /\ Row(a, to.tree.expanded, to.view.top) /\ Row(a, to.tree.expanded, to.view.cursor)
               /\ to.view.top <= to.view.cursor
    <3>1. Row(a, to.tree.expanded, m)
      BY <1>2, <1>3, <2>2, SwitchRows
    <3>2. to.view = FocusOn(a, to.tree.expanded, n, fresh, m)
      BY SwitchIs
    <3>3. m >= fresh.bottom
      BY <1>5, <2>2, <2>6
    <3> HIDE DEF to
    <3>4. OnRows(a, to.tree.expanded, n, to.view)
      BY <1>5, <2>2, <2>6, <3>1, <3>2, <3>3, FocusOnRows
    <3> QED
      BY <3>4 DEF OnRows
  <2> HIDE DEF to
  <2> QED
    BY <1>7, <2>3, <2>4, <2>5, <2>6 DEF Ranged
<1> QED
  BY <1>6, <1>7
-----------------------------------------------------------------------------
(* A list that is drawn, and a cursor that is on the screen.               *)

LEMMA DrawIsDrawn ==
    ASSUME NEW a, NEW e, NEW n, NEW v PROVE Drawn(a, e, n, Draw(a, e, n, v))
BY DEF Draw, Drawn

(* Whatever the list does ends with drawing it.                            *)
LEMMA AllIsDrawn ==
    ASSUME NEW a, NEW e, NEW n, NEW v, NEW m, NEW seen
    PROVE  /\ Drawn(a, e, n, FocusOn(a, e, n, v, m)) /\ Drawn(a, e, n, Resize(a, e, n, v))
           /\ Drawn(a, e, n, MoveCursorDown(a, e, n, v)) /\ Drawn(a, e, n, MoveCursorUp(a, e, n, v))
           /\ Drawn(a, e, n, MoveCursorTop(a, e, n, v)) /\ Drawn(a, e, n, MoveCursorBottom(a, e, n, v))
           /\ Drawn(a, e, n, PageForward(a, e, n, v)) /\ Drawn(a, e, n, PageBackward(a, e, n, v))
           /\ Drawn(a, e, n, GoNextUnread(a, e, n, v, seen))
<1>1. \A k : Drawn(a, e, n, FocusOn(a, e, n, v, k))
  BY DrawIsDrawn DEF FocusOn
<1>2. Drawn(a, e, n, Resize(a, e, n, v))
  BY DrawIsDrawn DEF Resize
<1>3. Drawn(a, e, n, MoveCursorDown(a, e, n, v)) /\ Drawn(a, e, n, MoveCursorUp(a, e, n, v))
  BY DrawIsDrawn DEF MoveCursorDown, MoveCursorUp
<1>4. Drawn(a, e, n, MoveCursorTop(a, e, n, v)) /\ Drawn(a, e, n, MoveCursorBottom(a, e, n, v))
  BY DrawIsDrawn DEF MoveCursorTop, MoveCursorBottom
<1>5. Drawn(a, e, n, PageForward(a, e, n, v)) /\ Drawn(a, e, n, PageBackward(a, e, n, v))
  BY DrawIsDrawn DEF PageForward, PageBackward
<1>6. Drawn(a, e, n, GoNextUnread(a, e, n, v, seen))
  BY <1>1 DEF GoNextUnread
<1> QED
  BY <1>1, <1>2, <1>3, <1>4, <1>5, <1>6

(* What is on the screen stays there when only what is not above the       *)
(* cursor is expanded or collapsed.                                        *)
LEMMA RowsAgree ==
    ASSUME NEW a, IsArchive(a), NEW e, NEW f, NEW n \in Nat \ {0}, NEW w, OnRows(a, e, n, w),
           \A i \in Msg(a) : i < w.cursor => f[i] = e[i]
    PROVE  OnRows(a, f, n, w)
<1>1. w.top \in Msg(a) /\ w.cursor \in Msg(a) /\ w.cursor \in Nat /\ n \in Nat
  BY RowParts
<1>2. Row(a, f, w.top)
  BY <1>1, SameRow DEF OnRows
<1>3. Row(a, f, w.cursor)
  BY <1>1, SameRow DEF OnRows
<1>4. w.cursor < RowsEnd(a, f, n, w.top)
  BY <1>1, EndAgrees DEF OnRows
<1> QED
  BY <1>1, <1>2, <1>3, <1>4 DEF OnRows

(* The list of the state before and after a step.                          *)
DrawnInv == Drawn(archive, tree.expanded, rows, view)

Shown == OnRows(archive, tree.expanded, rows, view)

LEMMA RowsGiven == ASSUME ListInv PROVE IsArchive(archive) /\ rows \in Nat \ {0}
BY BrowserAssumption DEF ListInv

(* With what is drawn, the cursor is on the screen as OnScreen has it.     *)
LEMMA ScreenShown ==
    ASSUME ListInv, DrawnInv, InRange, OnScreen PROVE Shown
<1>1. IsArchive(archive) /\ rows \in Nat \ {0} /\ view \in View
  BY RowsGiven DEF ListInv, KnownViews
<1>2. view.top \in Msg(archive) /\ view.cursor \in Msg(archive)
  BY DEF InRange
<1>3. Row(archive, tree.expanded, view.top) /\ Row(archive, tree.expanded, view.cursor)
  <2>1. Msg(archive) \subseteq 0..Count(archive)
    BY <1>1, ArchiveParts
  <2> QED
    BY <1>2, <2>1 DEF OnScreen, Row
<1>4. view.top <= view.cursor /\ view.cursor < view.bottom
  <2>1. view.top \in Int /\ view.bottom \in Int /\ view.cursor \in Int
    BY <1>1 DEF View
  <2> QED
    BY <2>1 DEF OnScreen
<1> QED
  BY <1>1, <1>2, <1>3, <1>4 DEF OnRows, Shown, Drawn, DrawnInv

LEMMA ShownScreen ==
    ASSUME ListInv, DrawnInv, Shown PROVE InRange /\ OnScreen
<1>1. IsArchive(archive) /\ rows \in Nat \ {0}
  BY RowsGiven
<1>2. Ranged(archive, view)
  BY <1>1, OnRowsRanged DEF Shown, DrawnInv
<1>3. InRange
  BY <1>2 DEF Ranged, InRange
<1>4. view.top \in Int /\ view.bottom \in Int /\ view.cursor \in Int
  BY <1>2 DEF Ranged, View
<1>5. view.cursor \in view.top..(view.bottom - 1)
  BY <1>4 DEF Shown, OnRows, Drawn, DrawnInv
<1>6. HasRow(archive, tree.expanded, view.cursor) /\ HasRow(archive, tree.expanded, view.top)
  BY <1>2 DEF Shown, OnRows, Row, Ranged
<1> QED
  BY <1>3, <1>5, <1>6 DEF OnScreen

(* A step that keeps the list in the archive, or the cursor on the screen. *)
KeepsRange == Ranged(archive', view')

LEMMA RangedInRange == ASSUME KeepsRange PROVE InRange'
BY DEF KeepsRange, Ranged, InRange

(* The next message that is unread has a row, and so has a parent.         *)
LEMMA UnreadRow ==
    ASSUME NEW a, IsArchive(a), NEW e, NEW n, NEW v, v.cursor \in Msg(a), Row(a, e, v.cursor),
           NEW seen
    PROVE  \E to \in Msg(a) : /\ Row(a, e, to)
                              /\ GoNextUnread(a, e, n, v, seen) = FocusOn(a, e, n, v, to)
<1> DEFINE S == {i \in 0..Count(a) : Row(a, e, i)}
<1>1. /\ \A i \in Msg(a) : i \in S => GetNext(a, e, i) \in S
      /\ v.cursor \in S
  BY NextRow DEF Row
<1>2. PICK at \in 0..Count(a) :
         /\ at \in S
         /\ GoNextUnread(a, e, n, v, seen) =
               FocusOn(a, e, n, v, IF at = Count(a) THEN GetPrev(a, e, at) ELSE at)
  <2> HIDE DEF S
  <2> QED
    BY <1>1, UnreadLands
<1>3. Count(a) \in 1..Count(a) /\ (at # Count(a) => at \in Msg(a))
  BY <1>2, ArchiveParts
<1>4. GetPrev(a, e, Count(a)) \in Msg(a) /\ Row(a, e, GetPrev(a, e, Count(a)))
  BY <1>3, PrevRow
<1> QED
  BY <1>2, <1>3, <1>4

LEMMA ParentRow ==
    ASSUME NEW a, IsArchive(a), NEW e, NEW c \in Msg(a), Row(a, e, c), a.parent[c] # NoParent
    PROVE  a.parent[c] \in Msg(a) /\ Row(a, e, a.parent[c])
<1> DEFINE p == a.parent[c]
<1>1. p \in a.above[c]
  BY ParentIs
<1>2. p \in Msg(a) /\ p \in 0..Count(a)
  BY <1>1, ArchiveParts
<1>3. p < c /\ c < p + a.total[p] /\ p \in Nat /\ c \in Nat /\ a.total[p] \in Nat
  BY <1>1, <1>2, AboveIs, ArchiveParts
<1>4. ASSUME NEW q \in a.above[p]
      PROVE  e[q]
  <2>1. q \in Msg(a) /\ p + a.total[p] <= q + a.total[q] /\ q \in Nat /\ a.total[q] \in Nat
    BY <1>2, ArchiveParts
  <2>2. q < p
    BY <1>2, <2>1, AboveIs
  <2> HIDE DEF p
  <2>3. q < c /\ c < q + a.total[q]
    BY <1>3, <2>1, <2>2
  <2>4. q \in a.above[c]
    BY <2>1, <2>3, AboveIs
  <2> QED
    BY <2>4 DEF Row, HasRow
<1> QED
  BY <1>2, <1>4 DEF Row, HasRow

(* The message under the cursor of a window that is drawn.                 *)
LEMMA FocusShown ==
    ASSUME NEW a, IsArchive(a), NEW e, NEW n \in Nat, n > 1, NEW w, OnRows(a, e, n, w),
           Drawn(a, e, n, w), NEW m \in Msg(a), Row(a, e, m)
    PROVE  OnRows(a, e, n, FocusOn(a, e, n, w, m))
<1>1. w \in View /\ w.top \in Msg(a) /\ Row(a, e, w.top) /\ w.bottom = RowsEnd(a, e, n, w.top)
  BY DEF OnRows, Drawn
<1>2. m \in Int /\ w.bottom \in Int
  BY <1>1, ArchiveParts DEF View
<1>3. m >= w.bottom \/ m < RowsEnd(a, e, n, w.top)
  BY <1>1, <1>2
<1> QED
  BY <1>1, <1>3, FocusOnRows

(* What a resized window shows of it.                                      *)
LEMMA ResizeShown ==
    ASSUME NEW a, IsArchive(a), NEW e, NEW k \in Nat \ {0}, NEW n \in Nat \ {0}, NEW w,
           OnRows(a, e, k, w)
    PROVE  /\ OnRows(a, e, n, Resize(a, e, n, w)) /\ Drawn(a, e, n, Resize(a, e, n, w))
           /\ Resize(a, e, n, w).cursor = w.cursor
<1> DEFINE r == Resize(a, e, n, w)
<1>1. w \in View /\ w.top \in Msg(a) /\ w.cursor \in Msg(a) /\ Row(a, e, w.top)
      /\ w.top <= w.cursor /\ Row(a, e, w.cursor)
  BY RowParts DEF OnRows
<1>2. r \in View /\ r.top \in Msg(a) /\ r.cursor = w.cursor /\ Drawn(a, e, n, r)
      /\ Row(a, e, r.top) /\ r.top <= r.cursor /\ r.cursor < r.bottom
  BY <1>1, ResizeRange
<1> HIDE DEF r
<1>3. OnRows(a, e, n, r)
  BY <1>1, <1>2 DEF OnRows, Drawn
<1> QED
  BY <1>2, <1>3 DEF r

LEMMA ResizeStays ==
    ASSUME NEW a, IsArchive(a), NEW e, NEW n \in Nat \ {0}, NEW w \in View,
           w.top \in Msg(a), w.cursor \in Msg(a), Resizes(a, e, w)
    PROVE  /\ Ranged(a, Resize(a, e, n, w))
           /\ Drawn(a, e, n, Resize(a, e, n, w))
           /\ Resize(a, e, n, w).cursor = w.cursor
<1> DEFINE r == Resize(a, e, n, w)
<1>1. r \in View /\ r.top \in Msg(a) /\ r.cursor = w.cursor /\ Drawn(a, e, n, r)
  BY ResizeRange DEF Resizes
<1> HIDE DEF r
<1>2. Ranged(a, r)
  BY <1>1, DrawnRanged
<1> QED
  BY <1>1, <1>2 DEF r

(* The parts of MoveOrEnter that matter to the list: the view on the tree  *)
(* as it was in the window there will be, and what is opened.              *)
Resized(t, n, v) == IF mview.active THEN v ELSE Resize(archive, t.expanded, n, v)

Enters(t, v, t1, w) ==
    /\ archive' = archive /\ tree' = t1
    /\ rows' \in Nat \ {0} /\ (mview.active => rows' = rows)
    /\ \/ t1 = t /\ view' = w
       \/ /\ t1 = t \/ t1 = ExpandAll(archive, t, v.cursor)
          /\ view' = FocusOn(archive, t1.expanded, rows', w, v.cursor)

LEMMA EnterParts ==
    ASSUME ListInv, NEW t, NEW v, MoveOrEnter(t, v)
    PROVE  \E t1 : Enters(t, v, t1, Resized(t, rows', v))
<1> DEFINE c   == v.cursor
           new == mview.shown # c
           opens == new /\ CanExpand(archive, c) /\ ~t.expanded[c] /\ archive.parent[c] = NoParent
           t1  == IF opens THEN Expand(archive, t, c, TRUE) ELSE t
           v1  == IF mview.active THEN v ELSE Resize(archive, t.expanded, rows', v)
<1>1. /\ rows' \in IF mview.active THEN {rows} ELSE RowsOf(TRUE)
      /\ tree' = t1
      /\ view' = IF new THEN FocusOn(archive, t1.expanded, rows', v1, c) ELSE v1
      /\ archive' = archive
  BY DEF MoveOrEnter
<1>2. rows' \in Nat \ {0} /\ (mview.active => rows' = rows)
  BY <1>1, BrowserAssumption DEF ListInv, RowsOf
<1>3. v1 = Resized(t, rows', v)
  BY DEF Resized
<1>4. t1 = t \/ t1 = ExpandAll(archive, t, c)
  BY DEF ExpandAll
<1>5. ~new => t1 = t
  OBVIOUS
<1> HIDE DEF t1, v1
<1>6. Enters(t, v, t1, v1)
  BY <1>1, <1>2, <1>4, <1>5 DEF Enters
<1> QED
  BY <1>3, <1>6

(* Showing a message draws the list, keeps it in the archive, and keeps the *)
(* cursor on the screen in a window of two rows or more.                   *)
LEMMA EnterDrawn ==
    ASSUME ListInv, NEW t, NEW v, Drawn(archive, t.expanded, rows, v), MoveOrEnter(t, v)
    PROVE  DrawnInv'
<1> DEFINE w == Resized(t, rows', v)
<1>1. PICK t1 : Enters(t, v, t1, w)
  BY EnterParts
<1>2. Drawn(archive, t.expanded, rows', w)
  BY <1>1, AllIsDrawn DEF Resized, Enters
<1> HIDE DEF w
<1>3. Drawn(archive, tree'.expanded, rows', view')
  <2>1. CASE t1 = t /\ view' = w
    BY <1>1, <1>2, <2>1 DEF Enters
  <2>2. CASE view' = FocusOn(archive, t1.expanded, rows', w, v.cursor)
    BY <1>1, <2>2, AllIsDrawn DEF Enters
  <2> QED
    BY <1>1, <2>1, <2>2 DEF Enters
<1> QED
  BY <1>1, <1>3 DEF DrawnInv, Enters

LEMMA EnterRange ==
    ASSUME ListInv, NEW t, TreeInv(archive, t), NEW v \in View, v.top \in Msg(archive),
           v.cursor \in Msg(archive), Resizes(archive, t.expanded, v),
           Drawn(archive, t.expanded, rows, v), MoveOrEnter(t, v)
    PROVE  KeepsRange
<1> DEFINE w == Resized(t, rows', v)
           c == v.cursor
<1>1. PICK t1 : Enters(t, v, t1, w)
  BY EnterParts
<1>2. IsArchive(archive) /\ rows \in Nat \ {0} /\ rows' \in Nat \ {0} /\ archive' = archive
  BY <1>1, RowsGiven DEF Enters
<1>3. Ranged(archive, w)
  <2>1. CASE mview.active
    BY <1>2, <2>1, DrawnRanged DEF Resized
  <2>2. CASE ~mview.active
    BY <1>2, <2>2, ResizeStays DEF Resized
  <2> QED
    BY <2>1, <2>2
<1> HIDE DEF w
<1>4. CASE view' = w
  BY <1>2, <1>3, <1>4 DEF KeepsRange
<1>5. CASE view' = FocusOn(archive, t1.expanded, rows', w, c)
  <2> DEFINE r == FocusOn(archive, t1.expanded, rows', w, c)
  <2>1. r \in View /\ r.top \in Msg(archive) /\ r.cursor = c /\ Drawn(archive, t1.expanded, rows', r)
    BY <1>2, <1>3, FocusRange DEF Ranged
  <2> HIDE DEF r
  <2>2. Ranged(archive, r)
    BY <1>2, <2>1, DrawnRanged
  <2> QED
    BY <1>2, <1>5, <2>2 DEF KeepsRange, r
<1> QED
  BY <1>1, <1>4, <1>5 DEF Enters

LEMMA EnterShown ==
    ASSUME ListInv, NEW t, TreeInv(archive, t), NEW v,
           OnRows(archive, t.expanded, rows, v), Drawn(archive, t.expanded, rows, v),
           MoveOrEnter(t, v), rows' > 1
    PROVE  Shown'
<1> DEFINE w == Resized(t, rows', v)
           c == v.cursor
<1>1. PICK t1 : Enters(t, v, t1, w)
  BY EnterParts
<1>2. IsArchive(archive) /\ rows \in Nat \ {0} /\ rows' \in Nat \ {0} /\ archive' = archive
  BY <1>1, RowsGiven DEF Enters
<1>3. OnRows(archive, t.expanded, rows', w) /\ Drawn(archive, t.expanded, rows', w)
      /\ w.cursor = c
  <2>1. CASE mview.active
    BY <1>1, <2>1 DEF Resized, Enters
  <2>2. CASE ~mview.active
    BY <1>2, <2>2, ResizeShown DEF Resized
  <2> QED
    BY <2>1, <2>2
<1> HIDE DEF w
<1>4. CASE t1 = t /\ view' = w
  BY <1>1, <1>3, <1>4 DEF Shown, Enters
<1>5. CASE /\ t1 = t \/ t1 = ExpandAll(archive, t, c)
           /\ view' = FocusOn(archive, t1.expanded, rows', w, c)
  <2>1. c \in Msg(archive) /\ w \in View /\ w.top \in Msg(archive) /\ w.bottom \in Int /\ c \in Int
    BY <1>2, <1>3, RowParts DEF OnRows, View
  <2>2. \A k \in Msg(archive) : k < c => t1.expanded[k] = t.expanded[k]
    BY <1>2, <1>5, <2>1, ExpandAllRows
  <2>3. OnRows(archive, t1.expanded, rows', w)
    BY <1>2, <1>3, <2>2, RowsAgree
  <2>4. OnRows(archive, t1.expanded, rows', FocusOn(archive, t1.expanded, rows', w, c))
    <3>1. Row(archive, t1.expanded, c) /\ Row(archive, t1.expanded, w.top)
          /\ c < RowsEnd(archive, t1.expanded, rows', w.top)
      BY <1>3, <2>3 DEF OnRows
    <3>2. rows' \in Nat /\ rows' > 1
      BY <1>2
    <3> QED
      BY <1>2, <2>1, <3>1, <3>2, FocusOnRows
  <2> QED
    BY <1>1, <1>5, <2>4 DEF Shown, Enters
<1> QED
  BY <1>1, <1>4, <1>5 DEF Enters

LEMMA SwitchDrawn ==
    ASSUME NEW a, NEW t, NEW n, NEW v, NEW m
    PROVE  LET to == SwitchToMessage(a, t, n, v, m) IN Drawn(a, to.tree.expanded, n, to.view)
BY SwitchIs, AllIsDrawn

LEMMA StartDrawn ==
    ASSUME NEW a, NEW saved, NEW n
    PROVE  LET at == Start(a, saved, n) IN Drawn(a, at.tree.expanded, n, at.view)
<1> DEFINE bottom == RowsEnd(a, NewTree(a).expanded, n, 0)
           fresh == [top |-> 0, bottom |-> bottom, cursor |-> 0]
           to == SwitchToMessage(a, NewTree(a), n, fresh, Min({Count(a) - 1, saved[Len(saved)]}))
           at == Start(a, saved, n)
<1>1. at = IF saved = <<>> THEN [tree |-> NewTree(a), view |-> fresh] ELSE to
  BY DEF Start, Reopen
<1>2. Drawn(a, to.tree.expanded, n, to.view)
  BY SwitchDrawn
<1>3. Drawn(a, NewTree(a).expanded, n, fresh)
  BY DEF Drawn
<1> HIDE DEF to, fresh, at
<1> QED
  BY <1>1, <1>2, <1>3 DEF at

LEMMA DrawnInit == ASSUME Init PROVE DrawnInv
<1>1. Drawn(archive, Start(archive, history, rows).tree.expanded, rows, Start(archive, history, rows).view)
  BY StartDrawn
<1> QED
  BY <1>1 DEF Init, DrawnInv

LEMMA JumpDrawn == ASSUME NEW m, Jump(m) PROVE DrawnInv'
<1> DEFINE to == SwitchToMessage(archive, tree, rows, view, m)
<1>1. tree' = to.tree /\ view' = to.view /\ archive' = archive /\ rows' = rows
  BY DEF Jump
<1>2. Drawn(archive, to.tree.expanded, rows, to.view)
  BY SwitchDrawn
<1> HIDE DEF to
<1> QED
  BY <1>1, <1>2 DEF DrawnInv

(* Every key ends with drawing the list.                                   *)
LEMMA DrawnNext == ASSUME ListInv, DrawnInv, [Next]_vars PROVE DrawnInv'
<1> DEFINE a == archive
           e == tree.expanded
<1>1. ASSUME NEW v, Drawn(a, e, rows, v), Moves(v)
      PROVE  DrawnInv'
  BY <1>1 DEF Moves, DrawnInv
<1>2. CASE UNCHANGED vars
  BY <1>2 DEF vars, list, DrawnInv
<1>3. CASE Enter
  BY <1>3, EnterDrawn DEF Enter, DrawnInv
<1>4. CASE EnterNext
  <2>1. Drawn(a, e, rows, MoveCursorDown(a, e, rows, view))
    BY AllIsDrawn
  <2>2. MoveOrEnter(tree, MoveCursorDown(a, e, rows, view))
    BY <1>4 DEF EnterNext
  <2> QED
    BY <2>1, <2>2, EnterDrawn
<1>5. ASSUME NEW m, OpenMessage(m)
      PROVE  DrawnInv'
  <2> DEFINE to == SwitchToMessage(a, tree, rows, view, m)
  <2>1. Drawn(a, to.tree.expanded, rows, to.view)
    BY SwitchDrawn
  <2>2. MoveOrEnter(to.tree, to.view)
    BY <1>5 DEF OpenMessage
  <2> HIDE DEF to
  <2> QED
    BY <2>1, <2>2, EnterDrawn
<1>6. CASE CloseMessage \/ ResizeTerminal
  BY <1>6, AllIsDrawn DEF CloseMessage, ResizeTerminal, DrawnInv
<1>7. CASE CollapseThread
  BY <1>7, AllIsDrawn DEF CollapseThread, DrawnInv
<1>8. CASE CursorUp \/ CursorDown \/ PageUp \/ PageDown \/ Home \/ End
  BY <1>1, <1>8, AllIsDrawn DEF CursorUp, CursorDown, PageUp, PageDown, Home, End
<1>9. CASE NextUnread
  BY <1>1, <1>9, AllIsDrawn DEF NextUnread
<1>10. CASE Parent
  BY <1>1, <1>10, AllIsDrawn DEF Parent
<1>11. ASSUME Redraw(tree'), archive' = a, rows' = rows
       PROVE  DrawnInv'
  BY <1>11, DrawIsDrawn DEF Redraw, DrawnInv
<1>12. CASE Toggle \/ Left \/ Right
  BY <1>8, <1>10, <1>11, <1>12 DEF Toggle, Left, Right
<1>13. CASE \/ HistoryBack \/ HistoryForward \/ \E m \in Msg(a) : GoToIndex(m)
  BY <1>13, JumpDrawn DEF HistoryBack, HistoryForward, GoToIndex
<1>14. CASE Restart
  <2>1. Drawn(a, Start(a, history, rows').tree.expanded, rows', Start(a, history, rows').view)
    BY StartDrawn
  <2> QED
    BY <1>14, <2>1 DEF Restart, DrawnInv
<1>15. ASSUME NEW b \in Archives, OpenArchive(b)
       PROVE  DrawnInv'
  <2>1. PICK saved \in IF b = archive THEN {history} ELSE Saved[b] :
           LET at == Switch(b, saved, rows)
           IN  /\ archive' = b /\ tree' = at.tree
               /\ view' = Resize(b, at.tree.expanded, rows', at.view)
    BY <1>15 DEF OpenArchive
  <2> QED
    BY <2>1, AllIsDrawn DEF DrawnInv
<1>16. ASSUME NEW b \in Archives, NEW m \in Msg(b), Warp(b, m)
       PROVE  DrawnInv'
  <2>1. PICK saved \in IF b = archive THEN {history} ELSE Saved[b] :
           LET at == Switch(b, saved, rows)
               to == SwitchToMessage(b, at.tree, rows',
                                     Resize(b, at.tree.expanded, rows', at.view), m)
           IN  archive' = b /\ tree' = to.tree /\ view' = to.view
    BY <1>16 DEF Warp
  <2> DEFINE at == Switch(b, saved, rows)
             to == SwitchToMessage(b, at.tree, rows',
                                   Resize(b, at.tree.expanded, rows', at.view), m)
  <2>2. Drawn(b, to.tree.expanded, rows', to.view)
    BY SwitchDrawn
  <2>3. archive' = b /\ tree' = to.tree /\ view' = to.view
    BY <2>1
  <2> HIDE DEF to
  <2> QED
    BY <2>2, <2>3 DEF DrawnInv
<1> HIDE DEF a, e
<1>17. [Next]_vars
  OBVIOUS
<1> QED
  BY <1>2, <1>3, <1>4, <1>5, <1>6, <1>7, <1>8, <1>9, <1>10, <1>12, <1>13, <1>14, <1>15, <1>16, <1>17 DEF Next, a
-----------------------------------------------------------------------------
(* Every key, from a cursor that is on the screen.                         *)

(* What a step from a list on the screen does.                             *)
Kept == KeepsRange /\ (rows > 1 /\ rows' > 1 => Shown' \/ LosesCursor)

LEMMA ShownParts ==
    ASSUME ListInv, DrawnInv, Shown
    PROVE  /\ IsArchive(archive) /\ rows \in Nat \ {0} /\ TreeInv(archive, tree)
           /\ OnRows(archive, tree.expanded, rows, view) /\ Drawn(archive, tree.expanded, rows, view)
           /\ Ranged(archive, view) /\ Resizes(archive, tree.expanded, view)
           /\ view \in View /\ view.top \in Msg(archive) /\ view.cursor \in Msg(archive)
           /\ Row(archive, tree.expanded, view.top) /\ Row(archive, tree.expanded, view.cursor)
<1>1. IsArchive(archive) /\ rows \in Nat \ {0} /\ TreeInv(archive, tree)
  BY RowsGiven DEF ListInv
<1>2. OnRows(archive, tree.expanded, rows, view) /\ Drawn(archive, tree.expanded, rows, view)
  BY DEF Shown, DrawnInv
<1>3. Ranged(archive, view) /\ Resizes(archive, tree.expanded, view)
  BY <1>1, <1>2, OnRowsRanged
<1> QED
  BY <1>1, <1>2, <1>3 DEF Ranged, OnRows

LEMMA ShownKept == ASSUME ListInv', DrawnInv', Shown' PROVE Kept
<1>1. IsArchive(archive') /\ rows' \in Nat \ {0}
  BY BrowserAssumption DEF ListInv
<1>2. OnRows(archive', tree'.expanded, rows', view') /\ Drawn(archive', tree'.expanded, rows', view')
  BY DEF Shown, DrawnInv
<1>3. Ranged(archive', view')
  BY <1>1, <1>2, OnRowsRanged
<1> QED
  BY <1>3 DEF Kept, KeepsRange

(* Rows up and down, pages, first and last row of the window.              *)
LEMMA MovesShown ==
    ASSUME ListInv, DrawnInv, Shown,
           CursorUp \/ CursorDown \/ PageUp \/ PageDown \/ Home \/ End
    PROVE  Shown'
<1>1. ASSUME NEW v, OnRows(archive, tree.expanded, rows, v), Moves(v)
      PROVE  Shown'
  BY <1>1 DEF Moves, Shown
<1>2. /\ IsArchive(archive) /\ rows \in Nat \ {0}
      /\ OnRows(archive, tree.expanded, rows, view) /\ Drawn(archive, tree.expanded, rows, view)
  BY ShownParts
<1>3. CASE CursorUp
  BY <1>1, <1>2, <1>3, CursorUpOnRows DEF CursorUp
<1>4. CASE CursorDown
  BY <1>1, <1>2, <1>4, CursorDownOnRows DEF CursorDown
<1>5. CASE PageUp
  BY <1>1, <1>2, <1>5, PageBackwardOnRows DEF PageUp
<1>6. CASE PageDown
  BY <1>1, <1>2, <1>6, PageForwardOnRows DEF PageDown
<1>7. CASE Home
  BY <1>1, <1>2, <1>7, EndsOnRows DEF Home
<1>8. CASE End
  BY <1>1, <1>2, <1>8, EndsOnRows DEF End
<1> QED
  BY <1>3, <1>4, <1>5, <1>6, <1>7, <1>8

LEMMA FocusKept ==
    ASSUME ListInv, DrawnInv, Shown, NEW m \in Msg(archive), Row(archive, tree.expanded, m),
           Moves(FocusOn(archive, tree.expanded, rows, view, m))
    PROVE  Kept
<1> DEFINE r == FocusOn(archive, tree.expanded, rows, view, m)
<1>1. /\ IsArchive(archive) /\ rows \in Nat \ {0} /\ view \in View /\ view.top \in Msg(archive)
      /\ OnRows(archive, tree.expanded, rows, view) /\ Drawn(archive, tree.expanded, rows, view)
  BY ShownParts
<1>2. Ranged(archive, r)
  BY <1>1, FocusRange, DrawnRanged
<1>3. rows > 1 => OnRows(archive, tree.expanded, rows, r)
  BY <1>1, FocusShown
<1> HIDE DEF r
<1>4. view' = r /\ archive' = archive /\ tree' = tree /\ rows' = rows
  BY DEF Moves, r
<1> QED
  BY <1>2, <1>3, <1>4 DEF Kept, KeepsRange, Shown

LEMMA UnreadParentKept ==
    ASSUME ListInv, DrawnInv, Shown, NextUnread \/ Parent PROVE Kept
<1>1. /\ IsArchive(archive) /\ view.cursor \in Msg(archive)
      /\ Row(archive, tree.expanded, view.cursor)
  BY ShownParts
<1>2. CASE NextUnread
  <2>1. PICK seen : Moves(GoNextUnread(archive, tree.expanded, rows, view, seen))
    BY <1>2 DEF NextUnread
  <2>2. PICK to \in Msg(archive) :
           /\ Row(archive, tree.expanded, to)
           /\ GoNextUnread(archive, tree.expanded, rows, view, seen) =
                 FocusOn(archive, tree.expanded, rows, view, to)
    BY <1>1, UnreadRow
  <2>3. Moves(FocusOn(archive, tree.expanded, rows, view, to))
    BY <2>1, <2>2
  <2> QED
    BY <2>2, <2>3, FocusKept
<1>3. CASE Parent
  <2>1. archive.parent[view.cursor] \in Msg(archive)
        /\ Row(archive, tree.expanded, archive.parent[view.cursor])
    BY <1>1, <1>3, ParentRow DEF Parent
  <2> QED
    BY <1>3, <2>1, FocusKept DEF Parent
<1> QED
  BY <1>2, <1>3

(* Expanded or collapsed below the cursor.                                 *)
LEMMA RedrawShown ==
    ASSUME ListInv, DrawnInv, Shown, archive' = archive, rows' = rows, Redraw(tree'),
           \A k \in Msg(archive) : k < view.cursor => tree'.expanded[k] = tree.expanded[k]
    PROVE  Shown'
<1>1. IsArchive(archive) /\ rows \in Nat \ {0} /\ OnRows(archive, tree.expanded, rows, view)
  BY ShownParts
<1> DEFINE f == tree'.expanded
<1>2. OnRows(archive, f, rows, view)
  BY <1>1, RowsAgree
<1>3. view' = Draw(archive, f, rows, view)
  BY DEF Redraw
<1> HIDE DEF f
<1>4. RowsEnd(archive, f, rows, view.top) \in Int
  BY <1>1, <1>2, RowParts
<1>5. OnRows(archive, f, rows, view')
  BY <1>2, <1>3, <1>4, DrawOnRows
<1> QED
  BY <1>5 DEF Shown, f

LEMMA ToggleKept ==
    ASSUME ListInv, DrawnInv, Shown, ListInv', DrawnInv', Toggle \/ Left \/ Right PROVE Kept
<1> DEFINE c == view.cursor
           top == archive.parent[c] = NoParent
<1>1. IsArchive(archive) /\ TreeInv(archive, tree) /\ c \in Msg(archive)
  BY ShownParts
<1>2. ASSUME tree' = Collapse(tree, c), Redraw(tree'), archive' = archive, rows' = rows
      PROVE  Kept
  <2>1. \A k \in Msg(archive) : k # c => tree'.expanded[k] = tree.expanded[k]
    BY <1>1, <1>2, CollapseRows
  <2>2. c \in Nat /\ Msg(archive) \subseteq Nat
    BY <1>1, ArchiveParts
  <2>3. \A k \in Msg(archive) : k < c => tree'.expanded[k] = tree.expanded[k]
    BY <2>1, <2>2
  <2>4. Shown'
    BY <1>2, <2>3, RedrawShown
  <2> QED
    BY <2>4, ShownKept
<1>3. ASSUME tree' = Expand(archive, tree, c, top), Redraw(tree'), archive' = archive, rows' = rows
      PROVE  Kept
  <2>1. top \in BOOLEAN
    OBVIOUS
  <2> HIDE DEF top
  <2>2. \A k \in Msg(archive) : k < c => tree'.expanded[k] = tree.expanded[k]
    BY <1>1, <1>3, <2>1, ExpandRows
  <2>3. Shown'
    BY <1>3, <2>2, RedrawShown
  <2> QED
    BY <2>3, ShownKept
<1>4. CASE Toggle
  BY <1>2, <1>3, <1>4 DEF Toggle
<1>5. CASE Left
  BY <1>2, <1>5, UnreadParentKept DEF Left
<1>6. CASE Right
  <2>1. CASE CursorDown
    BY <2>1, MovesShown, ShownKept
  <2> QED
    BY <1>3, <1>6, <2>1 DEF Right
<1> QED
  BY <1>4, <1>5, <1>6

LEMMA EntersKept ==
    ASSUME ListInv, DrawnInv, Shown, ListInv', DrawnInv', Enter \/ EnterNext PROVE Kept
<1>1. /\ IsArchive(archive) /\ rows \in Nat \ {0} /\ TreeInv(archive, tree)
      /\ OnRows(archive, tree.expanded, rows, view) /\ Drawn(archive, tree.expanded, rows, view)
  BY ShownParts
<1>2. ASSUME NEW v, OnRows(archive, tree.expanded, rows, v), Drawn(archive, tree.expanded, rows, v),
             MoveOrEnter(tree, v)
      PROVE  Kept
  <2>1. Ranged(archive, v) /\ Resizes(archive, tree.expanded, v)
    BY <1>1, <1>2, OnRowsRanged
  <2>2. KeepsRange
    BY <1>1, <1>2, <2>1, EnterRange DEF Ranged
  <2>3. rows' > 1 => Shown'
    BY <1>1, <1>2, EnterShown
  <2> QED
    BY <2>2, <2>3 DEF Kept
<1>3. CASE Enter
  BY <1>1, <1>2, <1>3 DEF Enter
<1>4. CASE EnterNext
  <2> DEFINE v == MoveCursorDown(archive, tree.expanded, rows, view)
  <2>1. OnRows(archive, tree.expanded, rows, v) /\ Drawn(archive, tree.expanded, rows, v)
    BY <1>1, CursorDownOnRows, AllIsDrawn
  <2>2. MoveOrEnter(tree, v)
    BY <1>4 DEF EnterNext
  <2> HIDE DEF v
  <2> QED
    BY <1>2, <2>1, <2>2
<1> QED
  BY <1>3, <1>4

LEMMA ResizesKept ==
    ASSUME ListInv, DrawnInv, Shown, ListInv', DrawnInv', CloseMessage \/ ResizeTerminal
    PROVE  Kept
<1>1. /\ IsArchive(archive) /\ rows \in Nat \ {0}
      /\ OnRows(archive, tree.expanded, rows, view)
  BY ShownParts
<1>2. archive' = archive /\ tree' = tree /\ view' = Resize(archive, tree.expanded, rows', view)
  BY DEF CloseMessage, ResizeTerminal
<1>3. rows' \in Nat \ {0}
  BY BrowserAssumption DEF ListInv
<1>4. OnRows(archive, tree.expanded, rows', view')
  BY <1>1, <1>2, <1>3, ResizeShown
<1>5. Shown'
  BY <1>2, <1>4 DEF Shown
<1> QED
  BY <1>5, ShownKept

LEMMA CollapseKept ==
    ASSUME ListInv, DrawnInv, Shown, ListInv', DrawnInv', CollapseThread PROVE Kept
<1> DEFINE root == GetRoot(archive, view.cursor)
           e == tree.expanded
           f == tree'.expanded
           v == IF mview.active THEN Resize(archive, e, rows', view) ELSE view
           r == FocusOn(archive, f, rows', v, root)
<1>1. /\ IsArchive(archive) /\ rows \in Nat \ {0} /\ TreeInv(archive, tree)
      /\ OnRows(archive, e, rows, view) /\ Drawn(archive, e, rows, view) /\ view.cursor \in Msg(archive)
  BY ShownParts
<1>2. /\ archive' = archive /\ tree' = Collapse(tree, root) /\ view' = r
      /\ rows' \in IF mview.active THEN RowsOf(FALSE) ELSE {rows}
  BY DEF CollapseThread
<1>3. rows' \in Nat \ {0}
  BY BrowserAssumption DEF ListInv
<1>4. OnRows(archive, e, rows', v) /\ Drawn(archive, e, rows', v) /\ v.cursor = view.cursor
  <2>1. CASE mview.active
    BY <1>1, <1>3, <2>1, ResizeShown
  <2>2. CASE ~mview.active
    BY <1>1, <1>2, <2>2
  <2> QED
    BY <2>1, <2>2
<1> HIDE DEF v
<1>5. root \in Msg(archive) /\ root <= view.cursor /\ archive.above[root] = {}
  BY <1>1, RootIsTop
<1> HIDE DEF root
<1>6. /\ root \in Nat /\ view.cursor \in Nat /\ Msg(archive) \subseteq Nat
      /\ v \in View /\ v.top \in Msg(archive) /\ v.top \in Nat /\ v.bottom \in Int
  BY <1>1, <1>3, <1>4, <1>5, ArchiveParts, RowParts DEF OnRows, View
<1>7. \A k \in Msg(archive) : k < root => f[k] = e[k]
  <2>1. \A k \in Msg(archive) : k # root => f[k] = e[k]
    BY <1>1, <1>2, CollapseRows
  <2> QED
    BY <1>6, <2>1
<1>8. Ranged(archive, r)
  BY <1>1, <1>3, <1>5, <1>6, FocusRange, DrawnRanged
<1>9. rows' > 1 => OnRows(archive, f, rows', r)
  <2>1. Row(archive, f, root)
    BY <1>1, <1>5, TopIsRow
  <2>2. v.top <= root => Row(archive, f, v.top)
    BY <1>1, <1>4, <1>5, <1>6, <1>7, SameRow DEF OnRows
  <2>3. root < RowsEnd(archive, e, rows', v.top)
    <3>1. RowsEnd(archive, e, rows', v.top) \in Int /\ v.cursor < RowsEnd(archive, e, rows', v.top)
      BY <1>1, <1>3, <1>4, RowParts DEF OnRows
    <3> QED
      BY <1>4, <1>5, <1>6, <3>1
  <2>4. v.top <= root => root < RowsEnd(archive, f, rows', v.top)
    BY <1>1, <1>3, <1>5, <1>6, <1>7, <2>3, EndAgrees
  <2>5. root < v.top \/ v.top <= root
    BY <1>6
  <2> HIDE DEF e, f
  <2> QED
    BY <1>1, <1>3, <1>5, <1>6, <2>1, <2>2, <2>4, <2>5, FocusOnRows
<1> HIDE DEF r
<1> QED
  BY <1>2, <1>8, <1>9 DEF Kept, KeepsRange, Shown

(* A jump that expands nothing, to a message that has a row.               *)
LEMMA SwitchShown ==
    ASSUME NEW a, IsArchive(a), NEW t, NEW n \in Nat, n > 1, NEW w,
           OnRows(a, t.expanded, n, w), Drawn(a, t.expanded, n, w), NEW m \in Msg(a),
           SwitchToMessage(a, t, n, w, m).tree = t, Row(a, t.expanded, m)
    PROVE  OnRows(a, t.expanded, n, SwitchToMessage(a, t, n, w, m).view)
<1>1. SwitchToMessage(a, t, n, w, m).view = FocusOn(a, t.expanded, n, w, m)
  BY SwitchIs
<1> QED
  BY <1>1, FocusShown

LEMMA SwitchKept ==
    ASSUME ListInv, DrawnInv, Shown, NEW m \in Msg(archive), Jump(m),
           tree' # tree \/ ~HasRow(archive, tree'.expanded, view'.cursor) => LosesCursor
    PROVE  Kept
<1> DEFINE to == SwitchToMessage(archive, tree, rows, view, m)
<1>1. /\ IsArchive(archive) /\ rows \in Nat \ {0} /\ TreeInv(archive, tree)
      /\ OnRows(archive, tree.expanded, rows, view) /\ Drawn(archive, tree.expanded, rows, view)
      /\ view \in View /\ view.top \in Msg(archive)
  BY ShownParts
<1>2. tree' = to.tree /\ view' = to.view /\ archive' = archive /\ rows' = rows
  BY DEF Jump
<1>3. Ranged(archive, to.view) /\ to.view.cursor = m
  BY <1>1, SwitchRange
<1>4. ASSUME rows > 1, to.tree = tree, HasRow(archive, tree.expanded, m)
      PROVE  OnRows(archive, tree.expanded, rows, to.view)
  <2>1. m \in 0..Count(archive)
    BY <1>1, ArchiveParts
  <2>2. Row(archive, tree.expanded, m)
    BY <1>4, <2>1 DEF Row
  <2> QED
    BY <1>1, <1>4, <2>2, SwitchShown
<1> HIDE DEF to
<1> QED
  BY <1>2, <1>3, <1>4 DEF Kept, KeepsRange, Shown

(* What a browser opens, whatever its history.                             *)
LEMMA SavedNumbers ==
    ASSUME ListInv, PastInv, NEW b \in Archives,
           NEW saved \in IF b = archive THEN {history} ELSE Saved[b]
    PROVE  IsArchive(b) /\ saved \in Seq(Nat)
BY BrowserAssumption DEF PastInv

LEMMA EnterKeepsTree ==
    ASSUME ListInv, NEW t, TreeInv(archive, t), NEW v \in View, v.cursor \in Msg(archive),
           MoveOrEnter(t, v)
    PROVE  /\ view'.cursor = v.cursor
           /\ \A k \in Msg(archive) : t.expanded[k] => tree'.expanded[k]
<1> DEFINE w == Resized(t, rows', v)
           c == v.cursor
<1>1. PICK t1 : Enters(t, v, t1, w)
  BY EnterParts
<1>2. IsArchive(archive) /\ rows' \in Nat \ {0}
  BY <1>1, RowsGiven DEF Enters
<1>3. w.cursor = c
  <2>1. Resize(archive, t.expanded, rows', v).cursor = c
    <3>1. PICK f : /\ LoopRun(Count(archive), Draw(archive, t.expanded, rows', v),
                              Scrolls(archive, t.expanded), f)
                   /\ Resize(archive, t.expanded, rows', v)
                         = Draw(archive, t.expanded, rows', f[Count(archive)])
      BY <1>2, ResizeRun
    <3> DEFINE S == {x \in View : x.cursor = c}
    <3>2. Draw(archive, t.expanded, rows', v) \in S
      BY <1>2, RowsEndTyped DEF Draw, View
    <3>3. ASSUME NEW x \in View, x \in S
          PROVE  Scrolls(archive, t.expanded)[x] \in S
      <4>1. ScrollDown(archive, t.expanded, x) \in S
        BY <1>2, <3>3, ScrollTyped
      <4> QED
        BY <3>3, <4>1 DEF Scrolls
    <3>4. Count(archive) \in Nat
      BY <1>2, ArchiveParts
    <3> HIDE DEF S
    <3>5. f[Count(archive)] \in S
      BY <3>1, <3>2, <3>3, <3>4, LoopStays
    <3> QED
      BY <3>1, <3>5 DEF S, Draw
  <2> QED
    BY <2>1 DEF Resized
<1> HIDE DEF w
<1>4. \A e : FocusOn(archive, e, rows', w, c).cursor = c
  BY FocusView
<1>5. view'.cursor = c
  BY <1>1, <1>3, <1>4 DEF Enters
<1>6. \A k \in Msg(archive) : t.expanded[k] => t1.expanded[k]
  BY <1>1, <1>2, ExpandAllRows DEF Enters
<1> QED
  BY <1>1, <1>5, <1>6 DEF Enters

LEMMA OpenMessageKept ==
    ASSUME ListInv, DrawnInv, Shown, ListInv', DrawnInv', NEW m \in Msg(archive), OpenMessage(m)
    PROVE  Kept
<1> DEFINE to == SwitchToMessage(archive, tree, rows, view, m)
           u  == to.tree
           v  == to.view
<1>1. /\ IsArchive(archive) /\ rows \in Nat \ {0} /\ TreeInv(archive, tree)
      /\ OnRows(archive, tree.expanded, rows, view) /\ Drawn(archive, tree.expanded, rows, view)
      /\ view \in View /\ view.top \in Msg(archive) /\ Row(archive, tree.expanded, view.top)
  BY ShownParts
<1>2. m \in Int /\ rows \in Nat /\ view \in KnownViews(archive, tree) /\ m \in 0..Count(archive)
  BY <1>1, ArchiveParts DEF ListInv
<1>3. TreeInv(archive, u)
  BY <1>1, <1>2, SwitchRight
<1>4. /\ Ranged(archive, v) /\ Drawn(archive, u.expanded, rows, v) /\ v.cursor = m
      /\ Resizes(archive, u.expanded, v)
  BY <1>1, SwitchRange
<1>5. u = tree \/ \E k \in Msg(archive) : u.expanded[k] /\ ~tree.expanded[k]
  BY <1>1, SwitchRows
<1>6. MoveOrEnter(u, v)
  BY DEF OpenMessage
<1>7. ASSUME rows > 1, u = tree, Row(archive, tree.expanded, m)
      PROVE  OnRows(archive, u.expanded, rows, v)
  BY <1>1, <1>2, <1>7, SwitchShown
<1> HIDE DEF u, v
<1>8. KeepsRange
  BY <1>3, <1>4, <1>6, EnterRange DEF Ranged
<1>9. view'.cursor = m /\ \A k \in Msg(archive) : u.expanded[k] => tree'.expanded[k]
  BY <1>3, <1>4, <1>6, EnterKeepsTree DEF Ranged
<1>10. ASSUME rows > 1, rows' > 1, ~LosesCursor
       PROVE  Shown'
  <2>1. tree' = tree /\ HasRow(archive, tree.expanded, view'.cursor)
    BY <1>10 DEF LosesCursor, Jumps
  <2>2. u = tree
    BY <1>5, <1>9, <2>1
  <2>3. Row(archive, tree.expanded, m)
    BY <1>2, <1>9, <2>1 DEF Row
  <2>4. OnRows(archive, u.expanded, rows, v)
    BY <1>7, <1>10, <2>2, <2>3
  <2> QED
    BY <1>3, <1>4, <1>6, <1>10, <2>4, EnterShown
<1> QED
  BY <1>8, <1>10 DEF Kept

LEMMA JumpsKept ==
    ASSUME ListInv, DrawnInv, Shown,
           HistoryBack \/ HistoryForward \/ \E m \in Msg(archive) : GoToIndex(m)
    PROVE  Kept \/ JumpsPast
<1>1. tree' # tree \/ ~HasRow(archive, tree'.expanded, view'.cursor) => LosesCursor
  BY DEF LosesCursor, Jumps
<1>2. ASSUME NEW m \in Msg(archive), Jump(m)
      PROVE  Kept
  BY <1>1, <1>2, SwitchKept
<1>3. CASE HistoryBack \/ HistoryForward
  <2>1. Jump(history[historyIdx' + 1])
    BY <1>3 DEF HistoryBack, HistoryForward
  <2>2. CASE history[historyIdx' + 1] \in Msg(archive)
    BY <1>2, <2>1, <2>2
  <2>3. CASE history[historyIdx' + 1] \notin Msg(archive)
    BY <1>3, <2>3 DEF JumpsPast
  <2> QED
    BY <2>2, <2>3
<1>4. CASE \E m \in Msg(archive) : GoToIndex(m)
  BY <1>2, <1>4 DEF GoToIndex
<1> QED
  BY <1>3, <1>4

LEMMA OpenArchiveKept ==
    ASSUME ListInv, PastInv, ListInv', DrawnInv', NEW b \in Archives, OpenArchive(b) PROVE Kept
<1>1. PICK saved \in IF b = archive THEN {history} ELSE Saved[b] :
         /\ archive' = b /\ tree' = Switch(b, saved, rows).tree
         /\ view' = Resize(b, Switch(b, saved, rows).tree.expanded, rows',
                           Switch(b, saved, rows).view)
  BY DEF OpenArchive
<1>2. IsArchive(b) /\ saved \in Seq(Nat)
  BY <1>1, SavedNumbers
<1>3. rows \in Nat \ {0} /\ rows' \in Nat \ {0}
  BY BrowserAssumption DEF ListInv
<1> DEFINE at == Reopen(b, saved, rows, 0)
           f  == at.tree.expanded
           w  == at.view
<1>4. /\ w \in View /\ w.top \in Msg(b) /\ w.cursor \in Msg(b) /\ Resizes(b, f, w)
      /\ rows > 1 => Row(b, f, w.top) /\ Row(b, f, w.cursor) /\ w.top <= w.cursor
  <2>1. PICK none \in Int : none = 0
    OBVIOUS
  <2>2. LET as == Reopen(b, saved, rows, none)
        IN  /\ as.view \in View /\ as.view.top \in Msg(b) /\ as.view.cursor \in Msg(b)
            /\ Resizes(b, as.tree.expanded, as.view)
            /\ rows > 1 => /\ Row(b, as.tree.expanded, as.view.top)
                           /\ Row(b, as.tree.expanded, as.view.cursor)
                           /\ as.view.top <= as.view.cursor
    BY <1>2, <1>3, <2>1, ReopenRange
  <2> QED
    BY <2>1, <2>2
<1>5. tree' = at.tree /\ view' = Resize(b, f, rows', w) /\ archive' = b
  BY <1>1 DEF Switch
<1>6. tree'.expanded = f
  BY <1>5
<1> HIDE DEF f, w, at
<1>7. KeepsRange
  BY <1>2, <1>3, <1>4, <1>5, ResizeStays DEF KeepsRange
<1>8. ASSUME rows > 1
      PROVE  Shown'
  <2> DEFINE r == Resize(b, f, rows', w)
  <2>1. r \in View /\ r.top \in Msg(b) /\ r.cursor = w.cursor /\ Drawn(b, f, rows', r)
        /\ Row(b, f, r.top) /\ r.top <= r.cursor /\ r.cursor < r.bottom
    BY <1>2, <1>3, <1>4, <1>8, ResizeRange
  <2> HIDE DEF r
  <2>2. OnRows(b, f, rows', r)
    BY <1>4, <1>8, <2>1 DEF OnRows, Drawn
  <2> QED
    BY <1>5, <1>6, <2>2 DEF Shown, r
<1> QED
  BY <1>7, <1>8 DEF Kept

LEMMA WarpKept ==
    ASSUME ListInv, PastInv, ListInv', NEW b \in Archives, NEW m \in Msg(b), Warp(b, m) PROVE Kept
<1>1. PICK saved \in IF b = archive THEN {history} ELSE Saved[b] :
         /\ archive' = b
         /\ view' = SwitchToMessage(b, Switch(b, saved, rows).tree, rows',
                       Resize(b, Switch(b, saved, rows).tree.expanded, rows',
                              Switch(b, saved, rows).view), m).view
  BY DEF Warp
<1>2. IsArchive(b) /\ saved \in Seq(Nat)
  BY <1>1, SavedNumbers
<1>3. rows \in Nat \ {0} /\ rows' \in Nat \ {0}
  BY BrowserAssumption DEF ListInv
<1> DEFINE at == Reopen(b, saved, rows, 0)
           t  == at.tree
           v  == Resize(b, t.expanded, rows', at.view)
<1>4. /\ at.view \in View /\ at.view.top \in Msg(b) /\ at.view.cursor \in Msg(b)
      /\ Resizes(b, t.expanded, at.view)
  <2>1. PICK none \in Int : none = 0
    OBVIOUS
  <2>2. LET as == Reopen(b, saved, rows, none)
        IN  /\ as.view \in View /\ as.view.top \in Msg(b) /\ as.view.cursor \in Msg(b)
            /\ Resizes(b, as.tree.expanded, as.view)
    BY <1>2, <1>3, ReopenRange
  <2> QED
    BY <2>1, <2>2
<1>5. TreeInv(b, t)
  BY <1>2, <1>3, ReopenRight
<1>6. archive' = b /\ view' = SwitchToMessage(b, t, rows', v, m).view
  BY <1>1 DEF Switch
<1> HIDE DEF at
<1>7. Ranged(b, v)
  BY <1>2, <1>3, <1>4, ResizeStays
<1> HIDE DEF t, v
<1>8. Ranged(b, SwitchToMessage(b, t, rows', v, m).view)
  BY <1>2, <1>3, <1>5, <1>7, SwitchRange DEF Ranged
<1>9. LosesCursor
  BY DEF LosesCursor
<1> QED
  BY <1>6, <1>8, <1>9 DEF Kept, KeepsRange

LEMMA RestartKept == ASSUME ListInv, PastInv, DrawnInv', ListInv', Restart PROVE Kept
<1>1. IsArchive(archive) /\ history \in Seq(Nat) /\ rows' \in Nat \ {0}
  BY RowsGiven, BrowserAssumption DEF ListInv, PastInv
<1> DEFINE bottom == RowsEnd(archive, NewTree(archive).expanded, rows', 0)
           at == Reopen(archive, history, rows', bottom)
<1>2. bottom \in Int
  BY <1>1, RowsEndTyped
<1>3. archive' = archive /\ view' = at.view
  BY DEF Restart, Start
<1> HIDE DEF bottom
<1>4. at.view \in View /\ at.view.top \in Msg(archive) /\ at.view.cursor \in Msg(archive)
  BY <1>1, <1>2, ReopenRange
<1> HIDE DEF at
<1>5. Ranged(archive, view')
  BY <1>1, <1>3, <1>4, DrawnRanged DEF DrawnInv
<1>6. LosesCursor
  BY DEF LosesCursor
<1> QED
  BY <1>3, <1>5, <1>6 DEF Kept, KeepsRange

(* What the list and the history keep together.                            *)
BrowserInv == IInv /\ ListInv /\ PastInv /\ DrawnInv

(* One step from a cursor on the screen, whatever key it is.               *)
LEMMA StepKept == ASSUME BrowserInv, BrowserInv', Shown, Next PROVE Kept \/ JumpsPast
<1>1. ListInv /\ PastInv /\ DrawnInv /\ ListInv' /\ DrawnInv'
  BY DEF BrowserInv
<1>2. CASE Enter \/ EnterNext
  BY <1>1, <1>2, EntersKept
<1>3. CASE CloseMessage \/ ResizeTerminal
  BY <1>1, <1>3, ResizesKept
<1>4. CASE CollapseThread
  BY <1>1, <1>4, CollapseKept
<1>5. CASE CursorUp \/ CursorDown \/ PageUp \/ PageDown \/ Home \/ End
  BY <1>1, <1>5, MovesShown, ShownKept
<1>6. CASE NextUnread \/ Parent
  BY <1>1, <1>6, UnreadParentKept
<1>7. CASE Toggle \/ Left \/ Right
  BY <1>1, <1>7, ToggleKept
<1>8. CASE HistoryBack \/ HistoryForward \/ \E m \in Msg(archive) : GoToIndex(m)
  BY <1>1, <1>8, JumpsKept
<1>9. CASE Restart
  BY <1>1, <1>9, RestartKept
<1>10. CASE \E m \in Msg(archive) : OpenMessage(m)
  BY <1>1, <1>10, OpenMessageKept
<1>11. CASE \E b \in Archives : OpenArchive(b)
  BY <1>1, <1>11, OpenArchiveKept
<1>12. CASE \E b \in Archives : \E m \in Msg(b) : Warp(b, m)
  BY <1>1, <1>12, WarpKept
<1> QED
  BY <1>2, <1>3, <1>4, <1>5, <1>6, <1>7, <1>8, <1>9, <1>10, <1>11, <1>12 DEF Next

LEMMA BrowserNext == ASSUME BrowserInv, [Next]_vars PROVE BrowserInv'
BY NextKeeps, TreeNext, DrawnNext DEF BrowserInv

LEMMA BrowserInit == ASSUME Init PROVE BrowserInv
BY InitKeeps, TreeInit, DrawnInit DEF BrowserInv

LEMMA StepStays ==
    ASSUME BrowserInv, BrowserInv', [Next]_vars
    PROVE  /\ [OnScreen /\ rows > 1 /\ rows' > 1 => OnScreen' \/ LosesCursor]_vars
           /\ [~InRange' => ~OnScreen \/ JumpsPast]_vars
<1>1. ASSUME Next, OnScreen, ~JumpsPast
      PROVE  InRange' /\ (rows > 1 /\ rows' > 1 => OnScreen' \/ LosesCursor)
  <2>1. Shown
    BY <1>1, ScreenShown DEF Next, BrowserInv
  <2>2. Kept
    BY <1>1, <2>1, StepKept
  <2>3. Shown' => OnScreen'
    <3>1. ListInv /\ DrawnInv /\ Shown => OnScreen
      BY ShownScreen
    <3>2. ListInv' /\ DrawnInv' /\ Shown' => OnScreen'
      BY ShownScreen, PTL
    <3> QED
      BY <3>2 DEF BrowserInv
  <2>4. InRange'
    BY <2>2, RangedInRange DEF Kept
  <2> QED
    BY <2>2, <2>3, <2>4 DEF Kept
<1>2. JumpsPast => LosesCursor
  BY DEF LosesCursor
<1> QED
  BY <1>1, <1>2

(* In a window of two rows or more no key takes the cursor off the screen, *)
(* but a jump to a message whose thread had to be expanded first, or that  *)
(* is below a collapsed one, or that the archive does not have, to another *)
(* archive, and a restart (ThreadView, Browser::SwitchToMessage).          *)
THEOREM CursorStaysOnScreen == Spec => StaysOnScreen
<1>1. Init => BrowserInv
  BY BrowserInit
<1>2. BrowserInv /\ [Next]_vars => BrowserInv'
  BY BrowserNext
<1>3. BrowserInv /\ BrowserInv' /\ [Next]_vars =>
        [OnScreen /\ rows > 1 /\ rows' > 1 => OnScreen' \/ LosesCursor]_vars
  BY StepStays
<1> QED
  BY <1>1, <1>2, <1>3, PTL DEF Spec, StaysOnScreen

(* Whatever the heights of the window, only from a cursor that is off the  *)
(* screen does a key take the list out of the archive, where ThreadView::  *)
(* GetNext and GetPrev assert, or from the history, to a message the       *)
(* archive does not have.                                                  *)
THEOREM ListLostOffScreenOnly == Spec => LostOffScreenOnly
<1>1. Init => BrowserInv
  BY BrowserInit
<1>2. BrowserInv /\ [Next]_vars => BrowserInv'
  BY BrowserNext
<1>3. BrowserInv /\ BrowserInv' /\ [Next]_vars => [~InRange' => ~OnScreen \/ JumpsPast]_vars
  BY StepStays
<1> QED
  BY <1>1, <1>2, <1>3, PTL DEF Spec, LostOffScreenOnly
-----------------------------------------------------------------------------
(***************************************************************************)
(* The messages visited, which all running browsers share (VisitedStore):  *)
(* the answers of the history they keep, for any number of browsers and    *)
(* messages, any grace time, any length of a second and any number of      *)
(* deaths.                                                                 *)
(***************************************************************************)
Missing(p)    == InFile \ visited[p]
Excused(p, m) == <<p, m>> \in sameSecond

(* The semaphore lets one browser in at a time, dead ones included.        *)
OneInside == /\ \A p, q \in Proc : pc[p] \in Inside /\ pc[q] \in Inside => p = q
             /\ \A p \in Proc : pc[p] \in Inside => sem = 0

Marking == /\ \A p \in Proc : op[p] = "mark" => arg[p] \in MsgId
           /\ \A p \in Proc : pc[p] = "append" => op[p] = "mark"

(* No time stamp is ahead of the file's, nor the file's of the clock.      *)
TimesInOrder == /\ mtime <= SecondOf(clock)
                /\ InFile # {} => mtime >= 1
                /\ \A p \in Proc : timestamp[p] <= mtime /\ lastVerify[p] <= clock

(* What a browser lacks makes the file newer than its time stamp, was      *)
(* written after its last look, and while it is in the file it has just    *)
(* read, is excused.                                                       *)
FileNewer == \A p \in Proc : pc[p] \notin {"read", "restat"} =>
                \A m \in Missing(p) : timestamp[p] < mtime \/ Excused(p, m)
LookedSince == \A p \in Proc : \A m \in Missing(p) :
                  lastVerify[p] <= written[m] \/ Excused(p, m)
JustRead == \A p \in Proc : pc[p] \in {"append", "restat", "unlock"} =>
                \A m \in Missing(p) : Excused(p, m)

StoreKept == OneInside /\ TimesInOrder /\ FileNewer /\ LookedSince /\ JustRead
StoreInv == VisitedTypeOK /\ Marking /\ (~interrupted => StoreKept)
-----------------------------------------------------------------------------
LEMMA Seconds ==
    ASSUME NEW t \in Nat
    PROVE  /\ SecondOf(t) \in Nat /\ 1 <= SecondOf(t) /\ SecondOf(t) <= t + 1
           /\ SecondOf(t) <= SecondOf(t + 1)
<1>1. t \div Second \in Nat
  BY VisitedAssumption
<1>2. t \div Second <= t
  BY VisitedAssumption
<1>3. t \div Second <= (t + 1) \div Second /\ (t + 1) \div Second \in Nat
  BY VisitedAssumption
<1> QED
  BY <1>1, <1>2, <1>3 DEF SecondOf

LEMMA StoreInit == VisitedInit => StoreInv
<1> SUFFICES ASSUME VisitedInit PROVE StoreInv
  OBVIOUS
<1> USE VisitedAssumption
<1>1. VisitedTypeOK
  <2>1. /\ clock \in 0..MaxClock /\ mtime \in 0..(MaxClock + 1)
        /\ -Grace \in (-Grace)..MaxClock /\ 0 \in 0..(MaxClock + 1)
        /\ faults \in 0..MaxFaults
    <3>1. MaxClock \in Nat /\ MaxFaults \in Nat /\ Grace \in Nat
      OBVIOUS
    <3> QED
      BY <3>1 DEF VisitedInit, NoFile
  <2>2. /\ written \in [MsgId -> 0..MaxClock \cup {Never}]
        /\ timestamp \in [Proc -> 0..(MaxClock + 1)]
        /\ lastVerify \in [Proc -> (-Grace)..MaxClock]
    BY <2>1 DEF VisitedInit
  <2>3. /\ pc \in [Proc -> {"lock", "idle"} \cup Inside]
        /\ op \in [Proc -> {"preload", "was", "mark", "none"}]
        /\ arg \in [Proc -> MsgId \cup {NoMsgId}]
        /\ visited \in [Proc -> SUBSET MsgId]
    BY DEF VisitedInit
  <2>4. sem \in IF interrupted THEN Nat ELSE 0..1
    BY DEF VisitedInit
  <2> QED
    BY <2>1, <2>2, <2>3, <2>4 DEF VisitedInit, VisitedTypeOK
<1>2. InFile = {}
  BY DEF VisitedInit, InFile
<1>3. TimesInOrder
  BY <1>2, Seconds DEF VisitedInit, TimesInOrder, NoFile
<1>4. Marking
  BY DEF VisitedInit, Marking
<1> QED
  BY <1>1, <1>2, <1>3, <1>4 DEF VisitedInit, StoreInv, StoreKept, OneInside, FileNewer, LookedSince,
     JustRead,
     Missing, Inside

LEMMA MarkingStep == VisitedTypeOK /\ Marking /\ [VisitedNext]_visitedVars => Marking'
<1> SUFFICES ASSUME VisitedTypeOK, Marking, [VisitedNext]_visitedVars PROVE Marking'
  OBVIOUS
<1> USE DEF Marking, VisitedTypeOK, Goto
<1>1. ASSUME NEW p \in Proc, Step(p) PROVE Marking'
  BY <1>1 DEF Step, Lock, NothingToStat, StatNewer, StatSame, Read, AppendVisited, CannotAppend,
     Restat, Unlock, EndCall, AfterVerify, shared
<1>2. ASSUME NEW p \in Proc, LockInterrupted(p) \/ Die(p) PROVE Marking'
  BY <1>2 DEF LockInterrupted, Die, shared
<1>3. ASSUME NEW p \in Proc, NEW m \in MsgId, WasVisited(p, m) \/ MarkVisited(p, m) PROVE Marking'
  BY <1>3 DEF WasVisited, MarkVisited, shared
<1> QED
  BY <1>1, <1>2, <1>3 DEF VisitedNext, Tick, visitedVars, local

LEMMA StoreTyped ==
    VisitedTypeOK /\ Marking /\ (~interrupted => OneInside) /\ [VisitedNext]_visitedVars
        => VisitedTypeOK'
<1> SUFFICES ASSUME VisitedTypeOK, Marking, ~interrupted => OneInside, [VisitedNext]_visitedVars
             PROVE  VisitedTypeOK'
  OBVIOUS
<1> USE DEF Inside, Goto
<1>a. /\ MaxClock \in Nat /\ MaxFaults \in Nat /\ Grace \in Nat
      /\ clock \in 0..MaxClock /\ faults \in 0..MaxFaults
      /\ clock \in (-Grace)..MaxClock /\ -Grace \in (-Grace)..MaxClock
      /\ 0 \in 0..(MaxClock + 1)
  BY VisitedAssumption DEF VisitedTypeOK
<1>1. CASE Tick
  <2>1. clock' \in 0..MaxClock
    BY <1>1, <1>a DEF Tick
  <2> QED
    BY <1>1, <2>1 DEF Tick, shared, local, VisitedTypeOK
<1>2. ASSUME NEW p \in Proc, NEW m \in MsgId, WasVisited(p, m) \/ MarkVisited(p, m)
      PROVE  VisitedTypeOK'
  BY <1>2 DEF WasVisited, MarkVisited, shared, VisitedTypeOK
<1>3. ASSUME NEW p \in Proc, Lock(p) PROVE VisitedTypeOK'
  <2>1. sem' \in IF interrupted THEN Nat ELSE 0..1
    BY <1>3 DEF Lock, VisitedTypeOK
  <2> QED
    BY <1>3, <2>1 DEF Lock, VisitedTypeOK
<1>4. ASSUME NEW p \in Proc, LockInterrupted(p) PROVE VisitedTypeOK'
  <2>1. faults' \in 0..MaxFaults /\ sem' \in Nat
    BY <1>4, <1>a DEF LockInterrupted, VisitedTypeOK, shared
  <2> QED
    BY <1>4, <2>1 DEF LockInterrupted, VisitedTypeOK, shared
<1>5. ASSUME NEW p \in Proc, NothingToStat(p) \/ StatNewer(p) \/ StatSame(p) PROVE VisitedTypeOK'
  BY <1>5, <1>a DEF NothingToStat, StatNewer, StatSame, AfterVerify, shared, VisitedTypeOK
<1>6. ASSUME NEW p \in Proc, Read(p) PROVE VisitedTypeOK'
  <2>1. InFile \subseteq MsgId
    BY DEF InFile
  <2> QED
    BY <1>6, <1>a, <2>1 DEF Read, AfterVerify, shared, VisitedTypeOK
<1>7. ASSUME NEW p \in Proc, AppendVisited(p) PROVE VisitedTypeOK'
  <2>1. arg[p] \in MsgId
    BY <1>7 DEF AppendVisited, Marking
  <2>2. mtime' \in 0..(MaxClock + 1)
    BY <1>7, <1>a, Seconds DEF AppendVisited
  <2>3. sameSecond' \subseteq Proc \X MsgId
    BY <1>7, <2>1 DEF AppendVisited, VisitedTypeOK
  <2> QED
    BY <1>7, <1>a, <2>1, <2>2, <2>3 DEF AppendVisited, VisitedTypeOK
<1>8. ASSUME NEW p \in Proc, CannotAppend(p) PROVE VisitedTypeOK'
  <2>1. arg[p] \in MsgId
    BY <1>8 DEF CannotAppend, Marking
  <2> QED
    BY <1>8, <2>1 DEF CannotAppend, VisitedTypeOK, shared
<1>9. ASSUME NEW p \in Proc, Restat(p) PROVE VisitedTypeOK'
  BY <1>9 DEF Restat, VisitedTypeOK, shared
<1>10. ASSUME NEW p \in Proc, Unlock(p) PROVE VisitedTypeOK'
  <2>1. sem' \in IF interrupted THEN Nat ELSE 0..1
    BY <1>10 DEF Unlock, VisitedTypeOK, OneInside
  <2> QED
    BY <1>10, <2>1 DEF Unlock, EndCall, VisitedTypeOK
<1>11. ASSUME NEW p \in Proc, Die(p) PROVE VisitedTypeOK'
  BY <1>11, <1>a DEF Die, VisitedTypeOK, shared
<1>12. CASE UNCHANGED visitedVars
  BY <1>12 DEF visitedVars, shared, local, VisitedTypeOK
<1> QED
  BY <1>1, <1>2, <1>3, <1>4, <1>5, <1>6, <1>7, <1>8, <1>9, <1>10, <1>11, <1>12 DEF VisitedNext, Step
-----------------------------------------------------------------------------
(* Mutual exclusion.  A browser that dies inside leaves the semaphore at   *)
(* zero, so nobody gets in after it.                                       *)
LEMMA OneInsideStep ==
    ASSUME VisitedTypeOK, OneInside, [VisitedNext]_visitedVars, ~interrupted, ~interrupted'
    PROVE  OneInside'
<1> USE DEF VisitedTypeOK, OneInside, Inside, Goto
<1>1. ASSUME NEW p \in Proc, Lock(p) PROVE OneInside'
  BY <1>1 DEF Lock
<1>2. ASSUME NEW p \in Proc,
             NothingToStat(p) \/ StatNewer(p) \/ StatSame(p) \/ Read(p) \/ AppendVisited(p)
                \/ CannotAppend(p) \/ Restat(p)
      PROVE  OneInside'
  <2>1. pc[p] \in Inside /\ sem' = sem /\ \E pl \in Inside : pc' = [pc EXCEPT ![p] = pl]
    BY <1>2 DEF NothingToStat, StatNewer, StatSame, Read, AppendVisited, CannotAppend, Restat,
                AfterVerify, shared
  <2> QED
    BY <2>1
<1>3. ASSUME NEW p \in Proc, Unlock(p) PROVE OneInside'
  BY <1>3 DEF Unlock
<1>4. ASSUME NEW p \in Proc, Die(p) PROVE OneInside'
  BY <1>4 DEF Die, shared
<1>5. ASSUME NEW p \in Proc, NEW m \in MsgId, WasVisited(p, m) \/ MarkVisited(p, m)
      PROVE  OneInside'
  BY <1>5 DEF WasVisited, MarkVisited, shared
<1>6. ASSUME NEW p \in Proc PROVE ~LockInterrupted(p)
  BY DEF LockInterrupted
<1> QED
  BY <1>1, <1>2, <1>3, <1>4, <1>5, <1>6 DEF VisitedNext, Step, Tick, visitedVars, shared, local

(* As long as the file stays as it is, a browser's step concerns itself.   *)
LEMMA FileSame ==
    ASSUME VisitedTypeOK, StoreKept, NEW p \in Proc,
           UNCHANGED <<clock, written, mtime, sameSecond>>,
           \A q \in Proc \ {p} : /\ pc'[q] = pc[q] /\ visited'[q] = visited[q]
                                /\ timestamp'[q] = timestamp[q] /\ lastVerify'[q] = lastVerify[q],
           visited[p] \subseteq visited'[p],
           timestamp'[p] <= mtime /\ lastVerify'[p] <= clock,
           pc'[p] \notin {"read", "restat"} =>
               \A m \in InFile \ visited'[p] : timestamp'[p] < mtime \/ Excused(p, m),
           lastVerify'[p] = lastVerify[p] \/ \A m \in InFile \ visited'[p] : Excused(p, m),
           pc'[p] \in {"append", "restat", "unlock"} =>
               \A m \in InFile \ visited'[p] : Excused(p, m)
    PROVE  TimesInOrder' /\ FileNewer' /\ LookedSince' /\ JustRead'
<1>1. InFile' = InFile /\ \A q \in Proc : Missing(q)' = InFile \ visited'[q]
  BY DEF InFile, Missing
<1>2. \A q \in Proc, m \in MsgId : Excused(q, m)' <=> Excused(q, m)
  BY DEF Excused
<1>3. TimesInOrder'
  BY <1>1 DEF StoreKept, TimesInOrder, SecondOf
<1>4. InFile \subseteq MsgId
  BY DEF InFile
<1>5. FileNewer'
  BY <1>1, <1>2, <1>4 DEF StoreKept, FileNewer, Missing
<1>6. LookedSince'
  BY <1>1, <1>2, <1>4 DEF StoreKept, LookedSince, Missing
<1>7. JustRead'
  BY <1>1, <1>2, <1>4 DEF StoreKept, JustRead, Missing
<1> QED
  BY <1>3, <1>5, <1>6, <1>7

(* An append, the one change of the file: for the others it makes it newer *)
(* than what they know, unless they looked at it in this very second.      *)
LEMMA AppendKeeps ==
    ASSUME VisitedTypeOK, Marking, StoreKept, NEW p \in Proc, AppendVisited(p), NEW m, m = arg[p]
    PROVE  TimesInOrder' /\ FileNewer' /\ LookedSince' /\ JustRead'
<1>1. /\ pc[p] = "append" /\ pc' = [pc EXCEPT ![p] = "restat"] /\ mtime' = SecondOf(clock)
      /\ visited' = [visited EXCEPT ![p] = @ \cup {m}]
      /\ written' = [written EXCEPT ![m] = IF @ = Never THEN clock ELSE @]
      /\ sameSecond' = IF m \in InFile THEN sameSecond
                       ELSE sameSecond \cup
                            {<<q, m>> : q \in {q \in Proc : timestamp[q] = SecondOf(clock)}}
      /\ UNCHANGED <<clock, timestamp, lastVerify>>
  BY DEF AppendVisited, Goto
<1>2. m \in MsgId
  BY <1>1 DEF Marking
<1>3. clock \in Nat /\ clock # Never
  BY VisitedAssumption DEF VisitedTypeOK, Never
<1>4. InFile' = InFile \cup {m}
  BY <1>1, <1>2, <1>3 DEF InFile, VisitedTypeOK
<1>5. /\ \A k \in InFile : written'[k] = written[k]
      /\ m \notin InFile => written'[m] = clock
  BY <1>1, <1>2 DEF InFile, VisitedTypeOK
<1>6. SecondOf(clock) \in Nat /\ SecondOf(clock) >= 1
  BY <1>3, Seconds
<1>7. /\ mtime \in Nat /\ mtime <= mtime'
      /\ \A q \in Proc : timestamp[q] \in Nat /\ timestamp[q] <= mtime
      /\ \A q \in Proc : lastVerify[q] \in Int /\ lastVerify[q] <= clock
  BY <1>1, VisitedAssumption DEF StoreKept, TimesInOrder, VisitedTypeOK
<1>8. TimesInOrder'
  <2>1. \A q \in Proc : timestamp[q] <= mtime'
    BY <1>1, <1>6, <1>7
  <2>2. SecondOf(clock)' = SecondOf(clock)
    BY <1>1 DEF SecondOf
  <2> QED
    BY <1>1, <1>6, <1>7, <2>1, <2>2 DEF TimesInOrder
<1>9. \A q \in Proc, k \in MsgId : Excused(q, k) => Excused(q, k)'
  BY <1>1 DEF Excused
<1>10. \A q \in Proc : m \notin InFile /\ timestamp[q] = mtime' => Excused(q, m)'
  <2>1. \A q \in Proc : m \notin InFile /\ timestamp[q] = SecondOf(clock) => <<q, m>> \in sameSecond'
    BY <1>1
  <2>2. \A q \in Proc : Excused(q, m)' <=> <<q, m>> \in sameSecond'
    BY <1>1 DEF Excused
  <2> QED
    BY <1>1, <2>1, <2>2
<1>11. \A q \in Proc : q # p => pc'[q] = pc[q] /\ pc[q] \notin Inside
  BY <1>1 DEF StoreKept, OneInside, VisitedTypeOK, Inside
<1>12. /\ \A q \in Proc : Missing(q)' \subseteq Missing(q) \cup ({m} \ InFile)
       /\ Missing(p)' \subseteq Missing(p)
  <2>1. \A q \in Proc : visited'[q] = IF q = p THEN visited[q] \cup {m} ELSE visited[q]
    BY <1>1 DEF VisitedTypeOK
  <2>2. \A q \in Proc : Missing(q)' = InFile' \ visited'[q]
    BY DEF Missing
  <2> QED
    BY <1>4, <2>1, <2>2 DEF Missing
<1>13. InFile \subseteq MsgId /\ \A q \in Proc : Missing(q) \subseteq InFile
  BY DEF InFile, Missing
<1>14. FileNewer'
  <2> SUFFICES ASSUME NEW q \in Proc, pc'[q] \notin {"read", "restat"}, NEW k \in Missing(q)'
               PROVE  timestamp'[q] < mtime' \/ Excused(q, k)'
    BY DEF FileNewer
  <2>1. q # p /\ pc[q] \notin {"read", "restat"}
    BY <1>1, <1>11 DEF VisitedTypeOK, Inside
  <2>2. CASE k \in Missing(q)
    <3>1. timestamp[q] < mtime \/ Excused(q, k)
      BY <2>1, <2>2 DEF StoreKept, FileNewer
    <3>2. k \in MsgId
      BY <1>13, <2>2
    <3> QED
      BY <1>1, <1>6, <1>7, <1>9, <3>1, <3>2
  <2>3. CASE k = m /\ m \notin InFile
    <3>1. timestamp'[q] = timestamp[q] /\ timestamp[q] <= mtime' /\ mtime' \in Nat
      BY <1>1, <1>6, <1>7
    <3>2. timestamp[q] \in Nat
      BY <1>7
    <3>3. CASE timestamp[q] = mtime'
      <4>1. <<q, m>> \in sameSecond'
        BY <1>10, <2>3, <3>3 DEF Excused
      <4> QED
        BY <2>3, <4>1 DEF Excused
    <3>4. CASE timestamp[q] # mtime'
      BY <3>1, <3>2, <3>4
    <3> QED
      BY <3>3, <3>4
  <2> QED
    BY <1>12, <2>2, <2>3
<1>15. LookedSince'
  <2> SUFFICES ASSUME NEW q \in Proc, NEW k \in Missing(q)'
               PROVE  lastVerify'[q] <= written'[k] \/ Excused(q, k)'
    BY DEF LookedSince
  <2>1. CASE k \in Missing(q)
    <3>1. k \in InFile /\ k \in MsgId /\ (lastVerify[q] <= written[k] \/ Excused(q, k))
      BY <1>13, <2>1 DEF StoreKept, LookedSince
    <3> QED
      BY <1>1, <1>5, <1>9, <3>1
  <2>2. CASE k = m /\ m \notin InFile
    BY <1>1, <1>5, <1>7, <2>2
  <2> QED
    BY <1>12, <2>1, <2>2
<1>16. JustRead'
  <2> SUFFICES ASSUME NEW q \in Proc, pc'[q] \in {"append", "restat", "unlock"},
                      NEW k \in Missing(q)'
               PROVE  Excused(q, k)'
    BY DEF JustRead
  <2>1. q = p
    BY <1>11 DEF Inside
  <2>2. k \in Missing(p) /\ k \in MsgId
    BY <1>12, <1>13, <2>1
  <2> QED
    BY <1>1, <1>9, <2>1, <2>2 DEF StoreKept, JustRead
<1> QED
  BY <1>8, <1>14, <1>15, <1>16

(* Nothing that a browser lacks after a death is excused any more, and its *)
(* time stamp is from before any file.                                     *)
LEMMA DieKeeps ==
    ASSUME VisitedTypeOK, StoreKept, NEW p \in Proc, Die(p)
    PROVE  TimesInOrder' /\ FileNewer' /\ LookedSince' /\ JustRead'
<1>1. /\ pc' = [pc EXCEPT ![p] = "lock"] /\ visited' = [visited EXCEPT ![p] = {}]
      /\ timestamp' = [timestamp EXCEPT ![p] = 0]
      /\ lastVerify' = [lastVerify EXCEPT ![p] = -Grace]
      /\ sameSecond' = {s \in sameSecond : s[1] # p}
      /\ UNCHANGED <<clock, written, mtime>>
  BY DEF Die, Goto, shared
<1>2. Grace \in Nat /\ clock \in Nat /\ mtime \in Nat
  BY VisitedAssumption DEF VisitedTypeOK
<1>3. InFile' = InFile /\ InFile \subseteq MsgId
  BY <1>1 DEF InFile
<1>4. \A q \in Proc \ {p} : \A m \in MsgId : Excused(q, m) => Excused(q, m)'
  BY <1>1 DEF Excused
<1>5. \A q \in Proc \ {p} : Missing(q)' = Missing(q)
  BY <1>1, <1>3 DEF Missing, VisitedTypeOK
<1>6. \A m \in InFile : written[m] \in Nat
  BY VisitedAssumption DEF InFile, VisitedTypeOK
<1>7. \A m \in Missing(p)' : m \in InFile
  BY <1>3 DEF Missing
<1>8. TimesInOrder'
  BY <1>1, <1>2, <1>3 DEF StoreKept, TimesInOrder, SecondOf, VisitedTypeOK
<1>9. \A q \in Proc \ {p} : /\ pc'[q] = pc[q] /\ timestamp'[q] = timestamp[q]
                            /\ lastVerify'[q] = lastVerify[q] /\ Missing(q) \subseteq MsgId
  BY <1>1, <1>3 DEF VisitedTypeOK, Missing
<1>10. timestamp'[p] = 0 /\ lastVerify'[p] = -Grace /\ pc'[p] = "lock"
  BY <1>1 DEF VisitedTypeOK
<1>11. FileNewer'
  <2>1. \A m \in Missing(p)' : timestamp'[p] < mtime'
    BY <1>1, <1>2, <1>7, <1>10 DEF StoreKept, TimesInOrder
  <2> QED
    BY <1>1, <1>4, <1>5, <1>9, <2>1 DEF StoreKept, FileNewer
<1>12. LookedSince'
  <2>1. \A m \in Missing(p)' : lastVerify'[p] <= written'[m]
    BY <1>1, <1>2, <1>6, <1>7, <1>10
  <2> QED
    BY <1>1, <1>4, <1>5, <1>9, <2>1 DEF StoreKept, LookedSince
<1>13. JustRead'
  BY <1>4, <1>5, <1>9, <1>10 DEF StoreKept, JustRead
<1> QED
  BY <1>8, <1>11, <1>12, <1>13

(* Everything but an append and a death leaves the file as it is.          *)
LEMMA KeptStep ==
    ASSUME VisitedTypeOK, Marking, StoreKept, [VisitedNext]_visitedVars, ~interrupted, ~interrupted'
    PROVE  StoreKept'
<1> DEFINE Others == TimesInOrder' /\ FileNewer' /\ LookedSince' /\ JustRead'
<1>0. /\ OneInside' 
      /\ clock \in Nat /\ mtime \in Nat
      /\ \A p \in Proc : timestamp[p] \in Nat /\ lastVerify[p] \in Int
  BY OneInsideStep, VisitedAssumption DEF StoreKept, VisitedTypeOK
<1>1. ASSUME Tick PROVE Others
  <2>1. SecondOf(clock)' = SecondOf(clock + 1) /\ clock' = clock + 1
    BY <1>1 DEF Tick, SecondOf
  <2>2. SecondOf(clock) <= SecondOf(clock + 1) /\ SecondOf(clock) \in Nat /\ SecondOf(clock + 1) \in Nat
    BY <1>0, Seconds
  <2>3. InFile' = InFile /\ UNCHANGED <<written, mtime, pc, visited, timestamp, lastVerify, sameSecond>>
    BY <1>1 DEF Tick, shared, local, InFile
  <2>4. TimesInOrder'
    BY <1>0, <2>1, <2>2, <2>3 DEF StoreKept, TimesInOrder
  <2>5. \A p \in Proc : Missing(p)' = Missing(p) /\ \A m : Excused(p, m)' <=> Excused(p, m)
    BY <2>3 DEF Missing, Excused
  <2> QED
    BY <2>3, <2>4, <2>5 DEF StoreKept, FileNewer, LookedSince, JustRead
<1>2. ASSUME NEW p \in Proc, NEW m \in MsgId, WasVisited(p, m) \/ MarkVisited(p, m) PROVE Others
  <2>1. /\ pc[p] = "idle" /\ pc' = [pc EXCEPT ![p] = "lock"]
        /\ UNCHANGED <<clock, written, mtime, sameSecond, visited, timestamp, lastVerify>>
    BY <1>2 DEF WasVisited, MarkVisited, Goto, shared
  <2> QED
    BY <2>1, FileSame DEF VisitedTypeOK, StoreKept, TimesInOrder, FileNewer, Missing
<1>3. ASSUME NEW p \in Proc, Lock(p) \/ Unlock(p) \/ CannotAppend(p) PROVE Others
  <2>1. /\ pc[p] \in {"lock", "unlock", "append"}
        /\ pc'[p] \in {"stat", "idle", "unlock"}
        /\ pc'[p] = "unlock" => pc[p] = "append"
        /\ \A q \in Proc \ {p} : pc'[q] = pc[q] /\ visited'[q] = visited[q]
        /\ visited[p] \subseteq visited'[p]
        /\ UNCHANGED <<clock, written, mtime, sameSecond, timestamp, lastVerify>>
    BY <1>3 DEF Lock, Unlock, CannotAppend, Goto, shared, VisitedTypeOK
  <2>2. InFile \ visited'[p] \subseteq Missing(p)
    BY <2>1 DEF Missing
  <2>3. \A m \in InFile \ visited'[p] : timestamp[p] < mtime \/ Excused(p, m)
    BY <2>1, <2>2 DEF StoreKept, FileNewer
  <2>4. pc'[p] = "unlock" => \A m \in InFile \ visited'[p] : Excused(p, m)
    BY <2>1, <2>2 DEF StoreKept, JustRead
  <2>5. timestamp'[p] <= mtime /\ lastVerify'[p] <= clock
    BY <2>1 DEF StoreKept, TimesInOrder
  <2> QED
    BY <2>1, <2>3, <2>4, <2>5, FileSame
<1>4. ASSUME NEW p \in Proc, NothingToStat(p) PROVE Others
  <2>1. /\ pc[p] = "stat" /\ mtime = 0
        /\ \A q \in Proc \ {p} : pc'[q] = pc[q]
        /\ UNCHANGED <<clock, written, mtime, sameSecond, visited, timestamp, lastVerify>>
    BY <1>4 DEF NothingToStat, Goto, shared, VisitedTypeOK, NoFile
  <2>2. InFile = {}
    BY <2>1 DEF StoreKept, TimesInOrder
  <2> QED
    BY <2>1, <2>2, FileSame DEF StoreKept, TimesInOrder
<1>5. ASSUME NEW p \in Proc, StatNewer(p) PROVE Others
  <2>1. /\ pc'[p] = "read" /\ timestamp'[p] = mtime
        /\ \A q \in Proc \ {p} : pc'[q] = pc[q] /\ timestamp'[q] = timestamp[q]
        /\ UNCHANGED <<clock, written, mtime, sameSecond, visited, lastVerify>>
    BY <1>5 DEF StatNewer, Goto, shared, VisitedTypeOK
  <2> QED
    BY <1>0, <2>1, FileSame DEF StoreKept, TimesInOrder
<1>6. ASSUME NEW p \in Proc, StatSame(p) PROVE Others
  <2>1. /\ pc[p] = "stat" /\ mtime <= timestamp[p] /\ lastVerify'[p] = clock
        /\ \A q \in Proc \ {p} : pc'[q] = pc[q] /\ lastVerify'[q] = lastVerify[q]
        /\ UNCHANGED <<clock, written, mtime, sameSecond, visited, timestamp>>
    BY <1>6 DEF StatSame, Goto, shared, VisitedTypeOK
  <2>2. \A m \in InFile \ visited'[p] : Excused(p, m)
    BY <1>0, <2>1 DEF StoreKept, FileNewer, Missing
  <2> QED
    BY <1>0, <2>1, <2>2, FileSame DEF StoreKept, TimesInOrder
<1>7. ASSUME NEW p \in Proc, Read(p) PROVE Others
  <2>1. /\ pc[p] = "read" /\ lastVerify'[p] = clock /\ visited'[p] = visited[p] \cup InFile
        /\ \A q \in Proc \ {p} : /\ pc'[q] = pc[q] /\ lastVerify'[q] = lastVerify[q]
                                    /\ visited'[q] = visited[q]
        /\ UNCHANGED <<clock, written, mtime, sameSecond, timestamp>>
    BY <1>7 DEF Read, Goto, shared, VisitedTypeOK
  <2>2. InFile \ visited'[p] = {}
    BY <2>1
  <2> QED
    BY <1>0, <2>1, <2>2, FileSame DEF StoreKept, TimesInOrder
<1>8. ASSUME NEW p \in Proc, Restat(p) PROVE Others
  <2>1. /\ pc[p] = "restat" /\ pc'[p] = "unlock" /\ timestamp'[p] = mtime
        /\ \A q \in Proc \ {p} : pc'[q] = pc[q] /\ timestamp'[q] = timestamp[q]
        /\ UNCHANGED <<clock, written, mtime, sameSecond, visited, lastVerify>>
    BY <1>8 DEF Restat, Goto, shared, VisitedTypeOK
  <2>2. \A m \in InFile \ visited'[p] : Excused(p, m)
    BY <2>1 DEF StoreKept, JustRead, Missing
  <2> QED
    BY <1>0, <2>1, <2>2, FileSame DEF StoreKept, TimesInOrder
<1>9. ASSUME NEW p \in Proc, AppendVisited(p) \/ Die(p) PROVE Others
  <2>1. CASE AppendVisited(p)
    <3> PICK m : m = arg[p]
      OBVIOUS
    <3> QED
      BY <2>1, AppendKeeps
  <2>2. CASE Die(p)
    BY <2>2, DieKeeps
  <2> QED
    BY <1>9, <2>1, <2>2
<1>10. ASSUME NEW p \in Proc PROVE ~LockInterrupted(p)
  BY DEF LockInterrupted
<1>11. ASSUME UNCHANGED visitedVars PROVE Others
  BY <1>11 DEF visitedVars, shared, local, StoreKept, TimesInOrder, FileNewer, LookedSince, JustRead,
     Missing, Excused, InFile, SecondOf
<1> HIDE DEF Others
<1>12. Others
  BY <1>1, <1>2, <1>3, <1>4, <1>5, <1>6, <1>7, <1>8, <1>9, <1>10, <1>11 DEF VisitedNext, Step
<1> QED
  BY <1>0, <1>12 DEF Others, StoreKept

LEMMA StoreInvariance == VisitedSpec => []StoreInv
<1>1. StoreInv /\ [VisitedNext]_visitedVars => StoreInv'
  <2> SUFFICES ASSUME StoreInv, [VisitedNext]_visitedVars PROVE StoreInv'
    OBVIOUS
  <2>1. VisitedTypeOK' /\ Marking'
    BY MarkingStep, StoreTyped DEF StoreInv, StoreKept
  <2>2. ~interrupted' => ~interrupted
    BY DEF StoreInv, VisitedTypeOK, VisitedNext, visitedVars, Step, Tick, WasVisited, MarkVisited,
       Lock, LockInterrupted, NothingToStat, StatNewer, StatSame, Read, AppendVisited, CannotAppend,
       Restat, Unlock, Die
  <2> QED
    BY <2>1, <2>2, KeptStep DEF StoreInv
<1> QED
  BY StoreInit, <1>1, PTL DEF VisitedSpec
-----------------------------------------------------------------------------
(* A browser that lacks a message of the file will notice at its next look *)
(* that the file is newer, the same second excepted                        *)
(* (VerifyVisitedAreValid), for as long as the semaphore holds.            *)
THEOREM NextLookFindsIt == VisitedSpec => []MissedOnlySameSecond
<1>1. StoreInv => MissedOnlySameSecond
  BY DEF StoreInv, StoreKept, FileNewer, MissedOnlySameSecond, Missing, Excused
<1> QED
  BY StoreInvariance, <1>1, PTL

(* What a browser answers from memory is never more than the grace time    *)
(* old (WasVisited), the same second excepted.                             *)
THEOREM AnswersWithinGrace == VisitedSpec => []StaleAtMostGrace
<1>1. StoreInv => StaleAtMostGrace
  <2> SUFFICES ASSUME StoreInv, NEW p \in Proc, CanAnswer(p), ~interrupted, NEW m \in InFile \ visited[p]
               PROVE  clock - written[m] < Grace \/ <<p, m>> \in sameSecond
    BY DEF StaleAtMostGrace
  <2>1. m \in Missing(p) /\ m \in MsgId
    BY DEF Missing, InFile
  <2>2. CASE pc[p] = "idle" /\ InGrace(p)
    <3>1. clock \in Int /\ written[m] \in Int /\ lastVerify[p] \in Int /\ Grace \in Int
      BY <2>1, VisitedAssumption DEF StoreInv, VisitedTypeOK, Never
    <3>2. clock - lastVerify[p] < Grace
      BY <2>2 DEF InGrace
    <3>3. lastVerify[p] <= written[m] \/ <<p, m>> \in sameSecond
      BY <2>1 DEF StoreInv, StoreKept, LookedSince, Excused
    <3> QED
      BY <3>1, <3>2, <3>3
  <2>3. CASE pc[p] = "unlock"
    BY <2>1, <2>3 DEF StoreInv, StoreKept, JustRead, Excused
  <2> QED
    BY <2>2, <2>3 DEF CanAnswer
<1> QED
  BY StoreInvariance, <1>1, PTL
=============================================================================
