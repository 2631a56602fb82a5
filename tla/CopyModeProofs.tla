---------------------------- MODULE CopyModeProofs ----------------------------
(***************************************************************************)
(* Copy mode and the mouse, for any number of panes and clients, any sizes *)
(* and any history limit: views fit their panes, what is looked at stays   *)
(* put, a copy takes the lines between anchor and cursor, each but for     *)
(* what the pane prints in the middle of the handler, and a gesture's      *)
(* reports go to the app that got its press.                               *)
(*                                                                         *)
(* The invariant has a part for what panes are, one for their views, one   *)
(* for the handler that is running and one for the gestures; each action   *)
(* keeps each part.                                                        *)
(***************************************************************************)
EXTENDS CopyMode, TLAPS

PaneOrNone == Panes \cup {NoPane}

CopyStates ==
  [offset : Nat, seen : Nat, cx : Nat, cy : Nat, cols : Nat, rows : Nat,
   hasSel : BOOLEAN, ax : Nat, aLine : Int]

MouseStates ==
  [sel : PaneOrNone, x : Nat, y : Nat, selActive : BOOLEAN, fwd : PaneOrNone,
   border : BOOLEAN]

Kinds == Moves \cup {"draw", "yank", "wheelUp", "wheelDown", "select", "point"}

Handlers ==
  [kind : Kinds, p : Panes, cell : (Nat \X Nat) \cup {NoCell},
   at : {"enter", "total", "history", "act", "copy"}, from : Nat, total : Nat, hist : Nat]

(* Somebody has the focus while a pane is left, and the ring holds no more *)
(* lines than have scrolled out.                                           *)
PanesOK ==
  /\ alive \in SUBSET Panes
  /\ active \in alive \/ (alive = {} /\ active = NoPane)
  /\ size \in [Panes -> (Nat \ {0}) \X (Nat \ {0})]
  /\ total \in [Panes -> Nat]
  /\ histLen \in [Panes -> Nat]
  /\ \A p \in Panes : histLen[p] <= total[p] /\ histLen[p] <= HistCap

(* A copyState that fits its pane. *)
View(c, p) ==
  /\ c \in CopyStates /\ p \in alive
  /\ c.cols = cols(p) /\ c.rows = rows(p)
  /\ c.offset <= histLen[p] /\ c.seen <= total[p]
  /\ c.cy <= rows(p) - 1

(* The view starts at the line the user chose; a sync that clamps it takes *)
(* it no further than the oldest line.                                     *)
Kept(c, line, p) ==
  /\ line \in Int /\ line <= c.seen - c.offset
  /\ line = c.seen - c.offset \/ c.seen - c.offset <= Oldest(p)

(* An anchor is not below what the screen was when the view was synced.    *)
AnchorOn(c) == c.hasSel => c.aLine <= c.seen + c.rows - 1

Shown(c, line, resized, p) ==
  /\ View(c, p) /\ Kept(c, line, p)
  /\ ~resized => AnchorOn(c)

ViewsOK ==
  /\ copy \in [Panes -> CopyStates \cup {NoCopy}]
  /\ chosen \in [Panes -> Int] /\ moved \in [Panes -> BOOLEAN]
  /\ \A p \in Panes : InCopy(p) => Shown(copy[p], chosen[p], moved[p], p)

(* What a handler has read is not newer than its pane, and its sync, once  *)
(* done, not older than the handler.                                       *)
Fits(o) ==
  /\ o \in Handlers /\ o.p \in alive
  /\ o.at # "enter" => InCopy(o.p)
  /\ o.from <= total[o.p] /\ o.total <= total[o.p]
  /\ o.at = "history" => o.from <= o.total /\ copy[o.p].seen <= o.total
  /\ o.at \in {"act", "copy"} => o.from <= copy[o.p].seen
  /\ o.at = "copy" => o.hist <= histLen[o.p]
  /\ o.kind = "select" => o.cell \in Nat \X Nat

OpOK == Free \/ Fits(op)

(* The app a gesture is forwarded to is the one under the last press. *)
GesturesOK ==
  /\ ms \in [Clients -> MouseStates]
  /\ pressed \in [Clients -> PaneOrNone]
  /\ \A c \in Clients : ms[c].fwd \in {NoPane, pressed[c]}

IInv == PanesOK /\ ViewsOK /\ OpOK /\ GesturesOK

-----------------------------------------------------------------------------
(* The operators. *)

(* A copy-mode pane is not one outside copy mode. *)
LEMMA CopyIsNot == ASSUME NEW c \in CopyStates PROVE c # NoCopy
PROOF
<1>1. "offset" \in DOMAIN c
  BY DEF CopyStates
<1>2. DOMAIN <<>> = {}
  OBVIOUS
<1> QED BY <1>1, <1>2 DEF NoCopy

LEMMA OpIsNot == ASSUME NEW o \in Handlers PROVE o # NoOp
PROOF
<1>1. "kind" \in DOMAIN o
  BY DEF Handlers
<1>2. DOMAIN <<>> = {}
  OBVIOUS
<1> QED BY <1>1, <1>2 DEF NoOp

LEMMA Numbers ==
  ASSUME PanesOK, NEW p \in Panes
  PROVE  /\ cols(p) \in Nat \ {0} /\ rows(p) \in Nat \ {0}
         /\ total[p] \in Nat /\ histLen[p] \in Nat
         /\ histLen[p] <= total[p] /\ Oldest(p) \in Int
BY DEF PanesOK, cols, rows, Oldest

(* The numbers of a view that fits. *)
LEMMA ViewNumbers ==
  ASSUME NEW p \in Panes, NEW c, View(c, p)
  PROVE  /\ c \in CopyStates
         /\ c.offset \in Nat /\ c.seen \in Nat /\ c.cx \in Nat /\ c.cy \in Nat
         /\ c.ax \in Nat /\ c.aLine \in Int
         /\ c.offset <= histLen[p] /\ c.seen <= total[p] /\ c.cy <= rows(p) - 1
         /\ c.cols = cols(p) /\ c.rows = rows(p)
BY DEF View, CopyStates

LEMMA NewFits ==
  ASSUME PanesOK, NEW p \in alive, NEW resized
  PROVE  /\ Shown(newCopyState(p), total[p], resized, p)
         /\ newCopyState(p).seen = total[p]
PROOF
<1>0. p \in Panes
  BY DEF PanesOK
<1>1. /\ cols(p) \in Nat \ {0} /\ rows(p) \in Nat \ {0}
      /\ total[p] \in Nat /\ histLen[p] \in Nat
  BY <1>0, Numbers
<1> DEFINE c == newCopyState(p)
<1>2. /\ c \in CopyStates /\ c.offset = 0 /\ c.seen = total[p] /\ c.hasSel = FALSE
      /\ c.cols = cols(p) /\ c.rows = rows(p) /\ c.cy = rows(p) - 1
  BY <1>1 DEF newCopyState, CopyStates
<1> HIDE DEF c
<1>3. View(c, p)
  BY <1>1, <1>2 DEF View
<1>4. Kept(c, total[p], p)
  BY <1>1, <1>2 DEF Kept
<1>5. AnchorOn(c)
  BY <1>2 DEF AnchorOn
<1>6. Shown(c, total[p], resized, p)
  BY <1>3, <1>4, <1>5 DEF Shown
<1> QED BY <1>2, <1>6 DEF c

(* syncCopy, with a count that may be behind the pane: the view is marked  *)
(* as seen then, and stays where it is or, clamped, no higher than the     *)
(* oldest line.                                                            *)
LEMMA SyncFits ==
  ASSUME PanesOK, NEW p \in Panes, NEW c, NEW line, NEW resized, Shown(c, line, resized, p),
         NEW t \in Nat, c.seen <= t, t <= total[p]
  PROVE  Shown(sync(c, t, histLen[p]), line, resized, p) /\ sync(c, t, histLen[p]).seen = t
PROOF
<1> DEFINE h == histLen[p]
           s == sync(c, t, h)
<1>1. /\ cols(p) \in Nat \ {0} /\ rows(p) \in Nat \ {0}
      /\ total[p] \in Nat /\ h \in Nat
  BY Numbers
<1>2. View(c, p) /\ Kept(c, line, p) /\ (~resized => AnchorOn(c))
  BY DEF Shown
<1>3. /\ c \in CopyStates /\ c.offset \in Nat /\ c.seen \in Nat /\ c.offset <= h
      /\ c.aLine \in Int /\ c.rows = rows(p)
  BY <1>2, ViewNumbers
<1>4. PICK o \in Nat :
        /\ s = [c EXCEPT !.seen = t, !.offset = o]
        /\ o <= h
        /\ \/ t - o = c.seen - c.offset
           \/ c.seen - c.offset < t - o /\ t - o <= Oldest(p)
  <2>1. CASE t <= c.seen
    <3>1. c.seen = t
      BY <1>3, <2>1
    <3>2. s = [c EXCEPT !.seen = t]
      BY <2>1 DEF sync
    <3>3. [c EXCEPT !.seen = t] = [c EXCEPT !.seen = t, !.offset = c.offset]
      BY <1>3 DEF CopyStates
    <3> HIDE DEF s
    <3>4. s = [c EXCEPT !.seen = t, !.offset = c.offset] /\ t - c.offset = c.seen - c.offset
      BY <3>1, <3>2, <3>3
    <3> QED BY <1>3, <3>4
  <2>2. CASE ~(t <= c.seen)
    <3> DEFINE o == Clamp(c.offset + t - c.seen, 0, h)
    <3>1. s = [c EXCEPT !.seen = t, !.offset = o]
      BY <2>2 DEF sync
    <3> HIDE DEF s
    <3>2. /\ o \in Nat /\ o <= h
          /\ \/ t - o = c.seen - c.offset
             \/ c.seen - c.offset < t - o /\ o = h
      BY <1>1, <1>3, <2>2 DEF Clamp
    <3> HIDE DEF o
    <3>3. o = h => t - o <= Oldest(p)
      BY <1>1 DEF Oldest
    <3> QED BY <3>1, <3>2, <3>3
  <2> QED BY <2>1, <2>2
<1> HIDE DEF s
<1>5. /\ s \in CopyStates /\ s.seen = t /\ s.offset = o
      /\ s.cols = c.cols /\ s.rows = c.rows /\ s.cy = c.cy
      /\ s.hasSel = c.hasSel /\ s.aLine = c.aLine
  BY <1>3, <1>4 DEF CopyStates
<1>6. View(s, p)
  BY <1>2, <1>4, <1>5 DEF View
<1>7. Kept(s, line, p)
  <2>1. Oldest(p) \in Int
    BY Numbers
  <2> QED BY <1>2, <1>3, <1>4, <1>5, <2>1 DEF Kept
<1>8. ~resized => AnchorOn(s)
  BY <1>1, <1>2, <1>3, <1>5 DEF AnchorOn
<1> QED BY <1>5, <1>6, <1>7, <1>8 DEF Shown, s

(* An anchor is set on a line of the view, which stays where it is. *)
LEMMA AnchorFits ==
  ASSUME PanesOK, NEW p \in Panes, NEW c, NEW line, View(c, p), Kept(c, line, p),
         NEW x \in Nat, NEW y \in Nat, y <= rows(p) - 1, NEW resized
  PROVE  /\ Shown(setAnchor(c, x, y), line, resized, p)
         /\ setAnchor(c, x, y).seen = c.seen /\ setAnchor(c, x, y).offset = c.offset
PROOF
<1>1. /\ cols(p) \in Nat \ {0} /\ rows(p) \in Nat \ {0}
      /\ total[p] \in Nat /\ histLen[p] \in Nat
  BY Numbers
<1>2. c \in CopyStates /\ c.offset \in Nat /\ c.seen \in Nat /\ c.rows = rows(p)
  BY ViewNumbers
<1> DEFINE l == lineAt(c, y)
           d == setAnchor(c, x, y)
<1>3. l \in Int /\ l <= c.seen + rows(p) - 1
  BY <1>1, <1>2 DEF lineAt
<1>4. d = [c EXCEPT !.hasSel = TRUE, !.ax = x, !.aLine = l]
  BY DEF setAnchor
<1> HIDE DEF l, d
<1>5. /\ d \in CopyStates /\ d.aLine = l /\ d.offset = c.offset /\ d.seen = c.seen
      /\ d.cols = c.cols /\ d.rows = c.rows /\ d.cy = c.cy
  BY <1>2, <1>3, <1>4 DEF CopyStates
<1>6. View(d, p)
  BY <1>5 DEF View
<1>7. Kept(d, line, p)
  BY <1>5 DEF Kept
<1>8. AnchorOn(d)
  BY <1>2, <1>3, <1>5 DEF AnchorOn
<1> QED BY <1>5, <1>6, <1>7, <1>8 DEF d, Shown

(* The cursor goes to a cell of the pane. *)
Pointed(c, x, y) == [c EXCEPT !.cx = x, !.cy = y]

LEMMA CursorFits ==
  ASSUME PanesOK, NEW p \in Panes, NEW c, NEW line, NEW resized, Shown(c, line, resized, p),
         NEW x \in Nat, NEW y \in Nat, y <= rows(p) - 1
  PROVE  /\ Shown(Pointed(c, x, y), line, resized, p)
         /\ Pointed(c, x, y).seen = c.seen /\ Pointed(c, x, y).offset = c.offset
PROOF
<1> DEFINE d == Pointed(c, x, y)
<1>1. c \in CopyStates
  BY DEF Shown, View
<1>2. /\ d \in CopyStates /\ d.aLine = c.aLine /\ d.hasSel = c.hasSel
      /\ d.offset = c.offset /\ d.seen = c.seen
      /\ d.cols = c.cols /\ d.rows = c.rows /\ d.cy = y
  BY <1>1 DEF CopyStates, Pointed
<1> HIDE DEF d
<1>3. View(d, p)
  BY <1>2 DEF Shown, View
<1>4. Kept(d, line, p)
  BY <1>2 DEF Shown, Kept
<1>5. ~resized => AnchorOn(d)
  BY <1>2 DEF Shown, AnchorOn
<1> QED BY <1>2, <1>3, <1>4, <1>5 DEF d, Shown

(* Where a view starts once it was moved by hand: where it now is. *)
Chosen(c, d, line) == IF d.offset = c.offset THEN line ELSE lineAt(d, 0)

(* The view scrolls to where there is history. *)
LEMMA ScrollFits ==
  ASSUME PanesOK, NEW p \in Panes, NEW c, NEW line, NEW resized, Shown(c, line, resized, p),
         NEW o \in Nat, o <= histLen[p], NEW d, d = [c EXCEPT !.offset = o]
  PROVE  Shown(d, Chosen(c, d, line), resized, p) /\ d.seen = c.seen /\ d.offset = o
PROOF
<1>1. c \in CopyStates /\ c.seen \in Nat /\ c.offset \in Nat
  BY ViewNumbers DEF Shown
<1>2. /\ d \in CopyStates /\ d.aLine = c.aLine /\ d.hasSel = c.hasSel
      /\ d.offset = o /\ d.seen = c.seen
      /\ d.cols = c.cols /\ d.rows = c.rows /\ d.cy = c.cy
  BY <1>1 DEF CopyStates
<1>3. View(d, p)
  BY <1>2 DEF Shown, View
<1>4. Kept(d, Chosen(c, d, line), p)
  <2>1. CASE o = c.offset
    BY <1>2, <2>1 DEF Shown, Kept, Chosen
  <2>2. CASE o # c.offset
    <3>1. Chosen(c, d, line) = d.seen - d.offset /\ d.seen - d.offset \in Int
      BY <1>1, <1>2, <2>2 DEF Chosen, lineAt
    <3> QED BY <3>1 DEF Kept
  <2> QED BY <2>1, <2>2
<1>5. ~resized => AnchorOn(d)
  BY <1>2 DEF Shown, AnchorOn
<1> QED BY <1>2, <1>3, <1>4, <1>5 DEF Shown

(* What a key makes of a view. *)
Moved(c, d, line, resized, p) == Shown(d, Chosen(c, d, line), resized, p) /\ d.seen = c.seen

(* A key keeps the view on the pane, and a mark sets an anchor on it. *)
LEMMA MoveFits ==
  ASSUME PanesOK, NEW p \in Panes, NEW c, NEW line, NEW resized \in BOOLEAN,
         Shown(c, line, resized, p), NEW key \in Moves
  PROVE  Moved(c, move(c, histLen[p], key), line, resized /\ key # "mark", p)
PROOF
<1> DEFINE h == histLen[p]
           d == move(c, h, key)
           Fine(e) == Moved(c, e, line, resized, p)
<1>1. /\ cols(p) \in Nat \ {0} /\ rows(p) \in Nat \ {0}
      /\ total[p] \in Nat /\ h \in Nat
  BY Numbers
<1>2. /\ c \in CopyStates /\ c.offset \in Nat /\ c.cx \in Nat /\ c.cy \in Nat
      /\ c.offset <= h /\ c.cy <= rows(p) - 1
      /\ c.cols = cols(p) /\ c.rows = rows(p)
  BY ViewNumbers DEF Shown
<1>3. ASSUME NEW x \in Nat, NEW y \in Nat, y <= rows(p) - 1
      PROVE  Fine([c EXCEPT !.cx = x, !.cy = y])
  <2> DEFINE e == Pointed(c, x, y)
  <2>1. Shown(e, line, resized, p) /\ e.seen = c.seen /\ e.offset = c.offset
    BY <1>3, CursorFits
  <2> HIDE DEF e
  <2>2. Fine(e)
    BY <2>1 DEF Moved, Chosen
  <2> QED BY <2>2 DEF e, Pointed
<1>4. ASSUME NEW o \in Nat, o <= h
      PROVE  Fine([c EXCEPT !.offset = o])
  <2> DEFINE e == [c EXCEPT !.offset = o]
  <2>0. e = [c EXCEPT !.offset = o]
    OBVIOUS
  <2> HIDE DEF e
  <2>1. Shown(e, Chosen(c, e, line), resized, p) /\ e.seen = c.seen
    BY <1>4, <2>0, ScrollFits
  <2>2. Fine(e)
    BY <2>1 DEF Moved
  <2> QED BY <2>2 DEF e
<1>5. ASSUME NEW o \in Nat, o <= h, NEW y \in Nat, y <= rows(p) - 1
      PROVE  Fine([c EXCEPT !.offset = o, !.cy = y])
  <2> DEFINE e == [c EXCEPT !.offset = o]
             g == Pointed(e, c.cx, y)
             l == Chosen(c, e, line)
  <2>0. e = [c EXCEPT !.offset = o] /\ [c EXCEPT !.offset = o, !.cy = y] = g
    BY <1>2, <1>5 DEF CopyStates, Pointed
  <2> HIDE DEF e
  <2>1. Shown(e, l, resized, p) /\ e.seen = c.seen /\ e.offset = o
    BY <1>5, <2>0, ScrollFits
  <2> HIDE DEF l
  <2>2. ASSUME NEW x \in Nat
        PROVE  /\ Shown(Pointed(e, x, y), l, resized, p)
               /\ Pointed(e, x, y).seen = e.seen /\ Pointed(e, x, y).offset = e.offset
    BY <1>5, <2>1, CursorFits
  <2>3. Shown(g, l, resized, p) /\ g.seen = e.seen /\ g.offset = e.offset
    BY <1>2, <2>2
  <2> HIDE DEF g
  <2>4. Fine(g)
    <3>1. Chosen(c, g, line) = l
      <4>1. CASE o = c.offset
        BY <2>1, <2>3, <4>1 DEF Chosen, l
      <4>2. CASE o # c.offset
        BY <2>1, <2>3, <4>2 DEF Chosen, l, lineAt
      <4> QED BY <4>1, <4>2
    <3> QED BY <2>1, <2>3, <3>1 DEF Moved
  <2> QED BY <2>0, <2>4
<1> HIDE DEF Fine
<1>6. ASSUME NEW dir \in {-1, 1}, d = moveVertical(c, h, dir)
      PROVE  Fine(d)
  <2> HIDE DEF d
  <2>1. CASE c.cy + dir < 0
    <3>1. d = [c EXCEPT !.offset = Clamp(c.offset + 1, 0, h)]
      BY <1>6, <2>1 DEF moveVertical
    <3>2. Clamp(c.offset + 1, 0, h) \in Nat /\ Clamp(c.offset + 1, 0, h) <= h
      BY <1>1, <1>2 DEF Clamp
    <3> QED BY <1>4, <3>1, <3>2
  <2>2. CASE ~(c.cy + dir < 0) /\ c.cy + dir >= c.rows
    <3> DEFINE o == IF c.offset > 0 THEN c.offset - 1 ELSE c.offset
    <3>1. d = [c EXCEPT !.offset = o]
      BY <1>6, <2>2 DEF moveVertical
    <3>2. o \in Nat /\ o <= h
      BY <1>1, <1>2
    <3> HIDE DEF o
    <3> QED BY <1>4, <3>1, <3>2
  <2>3. CASE ~(c.cy + dir < 0) /\ ~(c.cy + dir >= c.rows)
    <3>1. d = [c EXCEPT !.cy = c.cy + dir]
      BY <1>6, <2>3 DEF moveVertical
    <3>2. d = [c EXCEPT !.cx = c.cx, !.cy = c.cy + dir]
      BY <1>2, <3>1 DEF CopyStates
    <3>3. c.cy + dir \in Nat /\ c.cy + dir <= rows(p) - 1
      BY <1>1, <1>2, <1>6, <2>3
    <3> QED BY <1>2, <1>3, <3>2, <3>3
  <2> QED BY <2>1, <2>2, <2>3
<1>7. ASSUME key = "oldest" PROVE Fine(d)
  <2>1. d = [c EXCEPT !.offset = h, !.cy = 0]
    BY <1>7 DEF move
  <2> HIDE DEF d, h
  <2>2. h \in Nat /\ h <= h /\ 0 \in Nat /\ 0 <= rows(p) - 1
    BY <1>1
  <2> QED BY <2>1, <2>2, <1>5
<1>8. ASSUME key = "newest" PROVE Fine(d)
  <2>1. d = [c EXCEPT !.offset = 0, !.cy = c.rows - 1]
    BY <1>8 DEF move
  <2> HIDE DEF d, h
  <2>2. c.rows - 1 \in Nat /\ c.rows - 1 <= rows(p) - 1 /\ 0 \in Nat /\ 0 <= h
    BY <1>1, <1>2
  <2> QED BY <2>1, <2>2, <1>5
<1>9. ASSUME key = "up" PROVE Fine(d)
  BY <1>6, <1>9 DEF move
<1>10. ASSUME key = "down" PROVE Fine(d)
  BY <1>6, <1>10 DEF move
<1>11. ASSUME key = "right" \/ key = "left" PROVE Fine(d)
  <2> DEFINE x == IF key = "right" THEN IF c.cx < c.cols - 1 THEN c.cx + 1 ELSE c.cx
                  ELSE IF c.cx > 0 THEN c.cx - 1 ELSE c.cx
  <2>1. d = [c EXCEPT !.cx = x]
    BY <1>11 DEF move
  <2>2. x \in Nat
    BY <1>2
  <2> HIDE DEF d, x
  <2>3. d = [c EXCEPT !.cx = x, !.cy = c.cy]
    BY <1>2, <2>1 DEF CopyStates
  <2> QED BY <1>2, <1>3, <2>2, <2>3
<1>12. ASSUME key = "pageUp" \/ key = "pageDown" PROVE Fine(d)
  <2> DEFINE o == IF key = "pageUp" THEN Lesser(c.offset + c.rows, h)
                  ELSE IF c.offset > c.rows THEN c.offset - c.rows ELSE 0
  <2>1. d = [c EXCEPT !.offset = o]
    BY <1>12 DEF move
  <2>2. o \in Nat /\ o <= h
    BY <1>1, <1>2 DEF Lesser
  <2> HIDE DEF d, o
  <2> QED BY <1>4, <2>1, <2>2
<1>13. ASSUME key = "mark"
       PROVE  Moved(c, d, line, FALSE, p)
  <2>1. d = setAnchor(c, c.cx, c.cy)
    BY <1>13 DEF move
  <2>2. View(c, p) /\ Kept(c, line, p)
    BY DEF Shown
  <2> HIDE DEF d
  <2>3. Shown(d, line, FALSE, p) /\ d.seen = c.seen /\ d.offset = c.offset
    BY <1>2, <2>1, <2>2, AnchorFits
  <2> QED BY <2>3 DEF Moved, Chosen
<1>14. key # "mark" => Fine(d)
  BY <1>7, <1>8, <1>9, <1>10, <1>11, <1>12 DEF Moves
<1>15. CASE key = "mark"
  <2>1. (resized /\ key # "mark") = FALSE
    BY <1>15
  <2> HIDE DEF d
  <2>2. Moved(c, d, line, resized /\ key # "mark", p)
    BY <1>13, <1>15, <2>1
  <2> QED BY <2>2 DEF d
<1>16. CASE key # "mark"
  <2>1. (resized /\ key # "mark") = resized
    BY <1>16
  <2> HIDE DEF d
  <2>2. Moved(c, d, line, resized /\ key # "mark", p)
    BY <1>14, <1>16, <2>1 DEF Fine
  <2> QED BY <2>2 DEF d
<1> QED BY <1>15, <1>16

-----------------------------------------------------------------------------
(* What the steps have in common. *)

shape == <<alive, size, total, histLen>>

(* The focus moves to a pane of the window, or stays. *)
LEMMA FocusStep ==
  ASSUME PanesOK, UNCHANGED shape, active' \in alive \cup {active}
  PROVE  PanesOK'
BY DEF PanesOK, shape

LEMMA ShownStays ==
  ASSUME NEW p, NEW c, NEW line, NEW resized, UNCHANGED shape, Shown(c, line, resized, p)
  PROVE  /\ View(c, p)' = View(c, p) /\ Kept(c, line, p)' = Kept(c, line, p)
         /\ rows(p)' = rows(p) /\ cols(p)' = cols(p) /\ Oldest(p)' = Oldest(p)
BY DEF View, Kept, Oldest, cols, rows, shape

(* One pane's view changes, to none or one that fits. *)
LEMMA ViewStep ==
  ASSUME PanesOK, ViewsOK, UNCHANGED shape, NEW q \in Panes, NEW c, CopyIs(q, c),
         c = NoCopy \/ Shown(c, chosen'[q], moved'[q], q),
         chosen' \in [Panes -> Int], moved' \in [Panes -> BOOLEAN],
         \A p \in Panes \ {q} : chosen'[p] = chosen[p] /\ moved'[p] = moved[p]
  PROVE  ViewsOK' /\ copy'[q] = c
PROOF
<1>1. copy \in [Panes -> CopyStates \cup {NoCopy}] /\ c \in CopyStates \cup {NoCopy}
  BY DEF ViewsOK, Shown, View
<1>2. copy' \in [Panes -> CopyStates \cup {NoCopy}] /\ copy'[q] = c
  BY <1>1 DEF CopyIs
<1>3. ASSUME NEW p \in Panes, copy'[p] # NoCopy
      PROVE  Shown(copy[p], chosen[p], moved[p], p)'
  <2>1. Shown(copy'[p], chosen'[p], moved'[p], p)
    <3>1. CASE p = q
      BY <1>2, <1>3, <3>1
    <3>2. CASE p # q
      <4>1. copy'[p] = copy[p] /\ chosen'[p] = chosen[p] /\ moved'[p] = moved[p]
        BY <1>1, <3>2 DEF CopyIs
      <4> QED BY <1>3, <4>1 DEF ViewsOK, InCopy
    <3> QED BY <3>1, <3>2
  <2> QED BY <2>1 DEF Shown, View, Kept, AnchorOn, Oldest, cols, rows, shape
<1> QED BY <1>2, <1>3 DEF ViewsOK, InCopy

(* It leaves copy mode. *)
LEMMA ViewEnds ==
  ASSUME PanesOK, ViewsOK, UNCHANGED shape, NEW q \in Panes, Ends(q), UNCHANGED moved
  PROVE  ViewsOK'
PROOF
<1> DEFINE c == NoCopy
<1>1. /\ moved' \in [Panes -> BOOLEAN] /\ chosen' \in [Panes -> Int]
      /\ \A p \in Panes \ {q} : chosen'[p] = chosen[p] /\ moved'[p] = moved[p]
  BY DEF ViewsOK, Ends
<1>2. CopyIs(q, c) /\ c = NoCopy
  BY DEF Ends
<1> HIDE DEF c
<1> QED BY <1>1, <1>2, ViewStep

(* It is scrolled, or a mark is set. *)
LEMMA ViewScrolls ==
  ASSUME PanesOK, ViewsOK, UNCHANGED shape, NEW q \in Panes, NEW d, Scrolls(q, d),
         Moved(copy[q], d, chosen[q], moved'[q], q),
         moved' \in [Panes -> BOOLEAN], \A p \in Panes \ {q} : moved'[p] = moved[p]
  PROVE  ViewsOK'
PROOF
<1> DEFINE l == Chosen(copy[q], d, chosen[q])
<1>1. chosen' = [chosen EXCEPT ![q] = l] /\ CopyIs(q, d)
  BY DEF Scrolls, Chosen
<1>2. Shown(d, l, moved'[q], q) /\ l \in Int
  BY DEF Moved, Shown, Kept
<1> HIDE DEF l
<1>3. /\ chosen' \in [Panes -> Int] /\ chosen'[q] = l
      /\ \A p \in Panes \ {q} : chosen'[p] = chosen[p]
  BY <1>1, <1>2 DEF ViewsOK
<1> QED BY <1>1, <1>2, <1>3, ViewStep

(* A step that leaves the views alone. *)
LEMMA ViewsStay ==
  ASSUME PanesOK, ViewsOK, UNCHANGED shape, UNCHANGED copying
  PROVE  ViewsOK'
BY DEF ViewsOK, InCopy, Shown, View, Kept, AnchorOn, Oldest, cols, rows, shape, copying

(* A handler of one section, and the last of others. *)
LEMMA WholeStep ==
  ASSUME op' = NoOp \/ (Free /\ UNCHANGED op) PROVE OpOK'
BY DEF OpOK, Free

(* A handler begins. *)
LEMMA BeginStep ==
  ASSUME PanesOK, NEW p \in alive, NEW kind \in Kinds, NEW cell \in (Nat \X Nat) \cup {NoCell},
         kind = "select" => cell \in Nat \X Nat,
         Begin(kind, p, cell), UNCHANGED shape, UNCHANGED copying
  PROVE  OpOK'
PROOF
<1>1. p \in Panes /\ total[p] \in Nat
  BY Numbers DEF PanesOK
<1>2. op' = [kind |-> kind, p |-> p, cell |-> cell, at |-> IF InCopy(p) THEN "total" ELSE "enter",
             from |-> total[p], total |-> 0, hist |-> 0]
  BY DEF Begin
<1>3. op' \in Handlers
  BY <1>1, <1>2 DEF Handlers
<1>4. /\ op'.p = p /\ op'.at \in {"total", "enter"} /\ (op'.at # "enter" => InCopy(p))
      /\ op'.from = total[p] /\ op'.total = 0 /\ op'.kind = kind /\ op'.cell = cell
  BY <1>2
<1>5. total'[p] = total[p] /\ alive' = alive /\ InCopy(p)' = InCopy(p)
  BY DEF shape, copying, InCopy
<1>6. Fits(op)'
  BY <1>1, <1>3, <1>4, <1>5 DEF Fits, InCopy
<1> QED BY <1>6 DEF OpOK

(* One client's gesture changes. *)
LEMMA GestureStep ==
  ASSUME GesturesOK, NEW c \in Clients, NEW s \in MouseStates, MouseIs(c, s),
         NEW q \in PaneOrNone,
         pressed' = [pressed EXCEPT ![c] = q], s.fwd \in {NoPane, q}
  PROVE  GesturesOK'
PROOF
<1>1. ms' \in [Clients -> MouseStates] /\ pressed' \in [Clients -> PaneOrNone]
  BY DEF GesturesOK, MouseIs
<1>2. ASSUME NEW d \in Clients PROVE ms'[d].fwd \in {NoPane, pressed'[d]}
  <2>1. CASE d = c
    <3>1. ms'[d] = s /\ pressed'[d] = q
      BY <2>1 DEF GesturesOK, MouseIs
    <3> QED BY <3>1
  <2>2. CASE d # c
    <3>1. ms'[d] = ms[d] /\ pressed'[d] = pressed[d]
      BY <2>2 DEF GesturesOK, MouseIs
    <3> QED BY <3>1 DEF GesturesOK
  <2> QED BY <2>1, <2>2
<1> QED BY <1>1, <1>2 DEF GesturesOK

(* One that belongs to the same press. *)
LEMMA GestureOn ==
  ASSUME GesturesOK, NEW c \in Clients, NEW s \in MouseStates, MouseIs(c, s),
         UNCHANGED pressed, s.fwd \in {NoPane, ms[c].fwd}
  PROVE  GesturesOK'
PROOF
<1>1. pressed[c] \in PaneOrNone /\ pressed' = [pressed EXCEPT ![c] = pressed[c]]
  BY DEF GesturesOK
<1>2. s.fwd \in {NoPane, pressed[c]}
  BY DEF GesturesOK
<1> QED BY <1>1, <1>2, GestureStep

LEMMA GesturesStay ==
  ASSUME GesturesOK, UNCHANGED <<ms, pressed>> PROVE GesturesOK'
BY DEF GesturesOK

LEMMA IdleIsState == idle \in MouseStates /\ idle.fwd = NoPane
BY DEF idle, MouseStates, PaneOrNone

(* Lines scroll out of a pane: the ring takes what it can. *)
LEMMA Scrolled ==
  ASSUME PanesOK, NEW q \in Panes, NEW n \in Nat,
         total' = [total EXCEPT ![q] = @ + n],
         histLen' = [histLen EXCEPT ![q] = Lesser(@ + n, HistCap)]
  PROVE  /\ total' \in [Panes -> Nat] /\ histLen' \in [Panes -> Nat]
         /\ \A p \in Panes : /\ histLen'[p] <= total'[p] /\ histLen'[p] <= HistCap
                             /\ total[p] <= total'[p] /\ histLen[p] <= histLen'[p]
         /\ total'[q] = total[q] + n /\ histLen'[q] <= histLen[q] + n
         /\ \A p \in Panes \ {q} : total'[p] = total[p] /\ histLen'[p] = histLen[p]
PROOF
<1>1. /\ total \in [Panes -> Nat] /\ histLen \in [Panes -> Nat] /\ HistCap \in Nat
      /\ \A p \in Panes : histLen[p] <= total[p] /\ histLen[p] <= HistCap
  BY LimitsAssumption DEF PanesOK
<1> DEFINE h == Lesser(histLen[q] + n, HistCap)
<1>2. h \in Nat /\ h <= total[q] + n /\ h <= HistCap /\ histLen[q] <= h /\ h <= histLen[q] + n
  BY <1>1 DEF Lesser
<1>3. histLen' = [histLen EXCEPT ![q] = h]
  OBVIOUS
<1> HIDE DEF h
<1>4. total'[q] = total[q] + n /\ histLen'[q] = h
  BY <1>1, <1>3
<1>5. \A p \in Panes \ {q} : total'[p] = total[p] /\ histLen'[p] = histLen[p]
  BY <1>1, <1>3
<1>6. total' \in [Panes -> Nat] /\ histLen' \in [Panes -> Nat]
  BY <1>1, <1>2, <1>3
<1>7. ASSUME NEW p \in Panes
      PROVE  /\ histLen'[p] <= total'[p] /\ histLen'[p] <= HistCap
             /\ total[p] <= total'[p] /\ histLen[p] <= histLen'[p]
  BY <1>1, <1>2, <1>4, <1>5
<1> QED BY <1>2, <1>4, <1>5, <1>6, <1>7

(* Views and a handler go on fitting a pane of which more lines have       *)
(* scrolled out.                                                           *)
LEMMA ScrolledViews ==
  ASSUME PanesOK, ViewsOK, NEW q \in Panes, NEW n \in Nat, UNCHANGED <<alive, size, copying>>,
         total' = [total EXCEPT ![q] = @ + n],
         histLen' = [histLen EXCEPT ![q] = Lesser(@ + n, HistCap)]
  PROVE  ViewsOK'
PROOF
<1>1. ASSUME NEW p \in Panes, InCopy(p)
      PROVE  Shown(copy[p], chosen[p], moved[p], p)'
  <2>1. /\ total[p] <= total'[p] /\ histLen[p] <= histLen'[p]
        /\ total'[p] \in Nat /\ histLen'[p] \in Nat
        /\ total[p] - histLen[p] <= total'[p] - histLen'[p]
    <3>1. /\ total[p] <= total'[p] /\ histLen[p] <= histLen'[p]
          /\ total'[p] \in Nat /\ histLen'[p] \in Nat
      BY Scrolled
    <3>2. \/ total'[p] = total[p] /\ histLen'[p] = histLen[p]
          \/ total'[p] = total[p] + n /\ histLen'[p] <= histLen[p] + n
      BY Scrolled
    <3>3. total[p] \in Nat /\ histLen[p] \in Nat
      BY Numbers
    <3> QED BY <3>1, <3>2, <3>3
  <2>2. rows(p) \in Nat /\ total[p] \in Nat /\ histLen[p] \in Nat
    BY Numbers
  <2>3. Shown(copy[p], chosen[p], moved[p], p)
    BY <1>1 DEF ViewsOK
  <2>4. View(copy[p], p) /\ copy[p].offset \in Nat /\ copy[p].seen \in Nat
    BY <2>3, ViewNumbers DEF Shown
  <2>5. /\ copy'[p] = copy[p] /\ chosen'[p] = chosen[p] /\ moved'[p] = moved[p]
        /\ rows(p)' = rows(p) /\ cols(p)' = cols(p) /\ alive' = alive
    BY DEF rows, cols, copying
  <2>6. copy[p].offset <= histLen'[p] /\ copy[p].seen <= total'[p]
    BY <2>1, <2>2, <2>4 DEF View
  <2>7. View(copy[p], p)'
    BY <2>4, <2>5, <2>6 DEF View
  <2>8. Kept(copy[p], chosen[p], p)'
    <3>1. Kept(copy[p], chosen[p], p)
      BY <2>3 DEF Shown
    <3>2. Oldest(p) <= Oldest(p)' /\ Oldest(p) \in Int /\ Oldest(p)' \in Int
      BY <2>1, <2>2 DEF Oldest
    <3> QED BY <2>4, <2>5, <3>1, <3>2 DEF Kept
  <2>9. ~moved'[p] => AnchorOn(copy[p])'
    BY <2>3, <2>5 DEF Shown, AnchorOn
  <2> QED BY <2>7, <2>8, <2>9 DEF Shown
<1> QED BY <1>1 DEF ViewsOK, InCopy, copying

LEMMA ScrolledOp ==
  ASSUME PanesOK, ViewsOK, OpOK, NEW q \in Panes, NEW n \in Nat, UNCHANGED <<alive, copying, op>>,
         total' = [total EXCEPT ![q] = @ + n],
         histLen' = [histLen EXCEPT ![q] = Lesser(@ + n, HistCap)]
  PROVE  OpOK'
PROOF
<1>1. CASE Free
  BY <1>1 DEF OpOK, Free
<1>2. CASE Fits(op)
  <2>1. /\ op.p \in Panes /\ op.from \in Nat /\ op.total \in Nat /\ op.hist \in Nat
    BY <1>2 DEF Fits, Handlers
  <2>2. /\ total[op.p] <= total'[op.p] /\ histLen[op.p] <= histLen'[op.p]
        /\ total'[op.p] \in Nat /\ histLen'[op.p] \in Nat
    BY <2>1, Scrolled
  <2>3. total[op.p] \in Nat /\ histLen[op.p] \in Nat
    BY <2>1, Numbers
  <2>4. op' = op /\ alive' = alive /\ copy' = copy
    BY DEF copying
  <2>5. op.from <= total'[op.p] /\ op.total <= total'[op.p]
    BY <1>2, <2>1, <2>2, <2>3 DEF Fits
  <2>6. op.at = "copy" => op.hist <= histLen'[op.p]
    BY <1>2, <2>1, <2>2, <2>3 DEF Fits
  <2> QED BY <1>2, <2>4, <2>5, <2>6 DEF OpOK, Fits, InCopy
<1> QED BY <1>1, <1>2 DEF OpOK

LEMMA OutputStep ==
  ASSUME IInv, NEW q \in Panes, Output(q) PROVE IInv'
PROOF
<1> USE DEF IInv
<1>1. PICK n \in 1..2 :
        /\ total' = [total EXCEPT ![q] = @ + n]
        /\ histLen' = [histLen EXCEPT ![q] = Lesser(@ + n, HistCap)]
  BY DEF Output
<1>2. n \in Nat /\ UNCHANGED <<alive, active, size, copying, op, ms, pressed>>
  BY DEF Output, Printing, gestures
<1>3. PanesOK'
  BY <1>1, <1>2, Scrolled DEF PanesOK
<1>4. ViewsOK'
  BY <1>1, <1>2, ScrolledViews
<1>5. OpOK'
  BY <1>1, <1>2, ScrolledOp
<1> QED BY <1>2, <1>3, <1>4, <1>5, GesturesStay

(* A resize, with the rows that slide up into the history. *)
LEMMA ResizeStep ==
  ASSUME IInv, NEW q \in alive, NEW s \in Sizes, resize(q, s), Whole,
         UNCHANGED <<alive, active, chosen, gestures>>
  PROVE  IInv'
PROOF
<1>0. q \in Panes /\ s \in (Nat \ {0}) \X (Nat \ {0}) /\ PanesOK /\ ViewsOK
  BY SizesAssumption DEF PanesOK, IInv
<1>1. cols(q) \in Nat \ {0} /\ rows(q) \in Nat \ {0}
  BY <1>0, Numbers
<1>2. PICK slide \in 0..(IF app[q] = "alt" \/ s[2] > rows(q) THEN 0 ELSE rows(q) - s[2]) :
        /\ total' = [total EXCEPT ![q] = @ + slide]
        /\ histLen' = [histLen EXCEPT ![q] = Lesser(@ + slide, HistCap)]
  BY DEF resize
<1>3. slide \in Nat
  BY <1>0, <1>1
<1>4. size' = [size EXCEPT ![q] = s] /\ moved' = [moved EXCEPT ![q] = TRUE]
  BY DEF resize
<1>5. copy' = [copy EXCEPT ![q] =
        IF InCopy(q) THEN [copy[q] EXCEPT !.cols = s[1], !.rows = s[2],
                                          !.cy = Lesser(copy[q].cy, s[2] - 1)]
        ELSE copy[q]]
  BY Zenon DEF resize
<1>6. /\ total' \in [Panes -> Nat] /\ histLen' \in [Panes -> Nat]
      /\ \A p \in Panes : /\ histLen'[p] <= total'[p] /\ histLen'[p] <= HistCap
                          /\ total[p] <= total'[p] /\ histLen[p] <= histLen'[p]
      /\ total'[q] = total[q] + slide /\ histLen'[q] <= histLen[q] + slide
      /\ \A p \in Panes \ {q} : total'[p] = total[p] /\ histLen'[p] = histLen[p]
  BY <1>0, <1>2, <1>3, Scrolled
<1>7. size' \in [Panes -> (Nat \ {0}) \X (Nat \ {0})]
  BY <1>0, <1>4 DEF PanesOK
<1>8. PanesOK'
  BY <1>0, <1>6, <1>7 DEF PanesOK
<1> DEFINE c == [copy[q] EXCEPT !.cols = s[1], !.rows = s[2], !.cy = Lesser(copy[q].cy, s[2] - 1)]
<1>9. InCopy(q) => /\ c \in CopyStates /\ c.cols = s[1] /\ c.rows = s[2] /\ c.cy <= s[2] - 1
                   /\ c.offset = copy[q].offset /\ c.seen = copy[q].seen
  <2> SUFFICES ASSUME InCopy(q)
               PROVE  /\ c \in CopyStates /\ c.cols = s[1] /\ c.rows = s[2] /\ c.cy <= s[2] - 1
                      /\ c.offset = copy[q].offset /\ c.seen = copy[q].seen
    OBVIOUS
  <2>1. copy[q] \in CopyStates
    BY <1>0 DEF ViewsOK, Shown, View
  <2>2. copy[q].cy \in Nat /\ s[1] \in Nat /\ s[2] \in Nat \ {0}
    BY <1>0, <2>1 DEF CopyStates
  <2> DEFINE y == Lesser(copy[q].cy, s[2] - 1)
  <2>3. y \in Nat /\ y <= s[2] - 1
    BY <2>2 DEF Lesser
  <2>4. c = [copy[q] EXCEPT !.cols = s[1], !.rows = s[2], !.cy = y]
    OBVIOUS
  <2> HIDE DEF y, c
  <2> QED BY <2>1, <2>2, <2>3, <2>4 DEF CopyStates
<1>10. copy' = [copy EXCEPT ![q] = IF InCopy(q) THEN c ELSE copy[q]]
  BY <1>5
<1> HIDE DEF c
<1>11. copy' \in [Panes -> CopyStates \cup {NoCopy}]
  BY <1>0, <1>9, <1>10 DEF ViewsOK
<1>12. ASSUME NEW p \in Panes, copy'[p] # NoCopy
       PROVE  Shown(copy[p], chosen[p], moved[p], p)'
  <2>1. CASE p = q
    <3>1. InCopy(q) /\ copy'[q] = c
      BY <1>0, <1>10, <1>12, <2>1 DEF ViewsOK, InCopy
    <3>2. View(copy[q], q) /\ Kept(copy[q], chosen[q], q)
      BY <1>0, <3>1 DEF ViewsOK, Shown
    <3>3. moved'[q] = TRUE /\ size'[q] = s /\ chosen'[q] = chosen[q]
      BY <1>0, <1>4 DEF ViewsOK, PanesOK
    <3>4. /\ c.offset \in Nat /\ c.seen \in Nat /\ total[q] \in Nat /\ histLen[q] \in Nat
          /\ total'[q] \in Nat /\ histLen'[q] \in Nat
      BY <1>0, <1>6, <1>9, <3>1, Numbers DEF CopyStates
    <3>5. c.offset <= histLen'[q] /\ c.seen <= total'[q]
      BY <1>0, <1>6, <1>9, <3>1, <3>2, <3>4 DEF View
    <3>6. View(copy[q], q)'
      BY <1>9, <3>1, <3>3, <3>5 DEF View, cols, rows
    <3>7. Kept(copy[q], chosen[q], q)'
      <4>1. Oldest(q) <= Oldest(q)' /\ Oldest(q) \in Int /\ Oldest(q)' \in Int
        BY <1>3, <1>6, <3>4 DEF Oldest
      <4> QED BY <1>9, <3>1, <3>2, <3>3, <3>4, <4>1 DEF Kept
    <3> QED BY <2>1, <3>3, <3>6, <3>7 DEF Shown
  <2>2. CASE p # q
    <3>1. /\ copy'[p] = copy[p] /\ moved'[p] = moved[p] /\ size'[p] = size[p]
          /\ total'[p] = total[p] /\ histLen'[p] = histLen[p] /\ chosen' = chosen
          /\ alive' = alive
      BY <1>0, <1>4, <1>6, <1>10, <2>2 DEF ViewsOK, PanesOK
    <3>2. Shown(copy[p], chosen[p], moved[p], p)
      BY <1>0, <1>12, <3>1 DEF ViewsOK, InCopy
    <3> QED BY <3>1, <3>2 DEF Shown, View, Kept, AnchorOn, Oldest, cols, rows
  <2> QED BY <2>1, <2>2
<1>13. moved' \in [Panes -> BOOLEAN] /\ chosen' \in [Panes -> Int]
  BY <1>0, <1>4 DEF ViewsOK
<1>14. ViewsOK'
  BY <1>11, <1>12, <1>13 DEF ViewsOK, InCopy
<1>15. OpOK' /\ GesturesOK'
  BY WholeStep, GesturesStay DEF Whole, gestures, IInv
<1> QED BY <1>8, <1>14, <1>15 DEF IInv

LEMMA CloseStep ==
  ASSUME IInv, NEW q \in Panes, Close(q) PROVE IInv'
PROOF
<1> USE DEF IInv
<1>1. /\ q \in alive /\ alive' = alive \ {q} /\ copy' = [copy EXCEPT ![q] = NoCopy]
      /\ chosen' = [chosen EXCEPT ![q] = 0]
      /\ UNCHANGED <<size, total, histLen, ms, pressed, moved, op>> /\ Free
      /\ active' \in IF active # q THEN {active} ELSE IF alive' = {} THEN {NoPane} ELSE alive'
  BY DEF Close, Ends, CopyIs, Whole, gestures
<1>2. PanesOK'
  BY <1>1 DEF PanesOK
<1>3. copy' \in [Panes -> CopyStates \cup {NoCopy}] /\ chosen' \in [Panes -> Int]
  BY <1>1 DEF ViewsOK
<1>4. ASSUME NEW p \in Panes, copy'[p] # NoCopy
      PROVE  Shown(copy[p], chosen[p], moved[p], p)'
  <2>1. p # q /\ copy'[p] = copy[p] /\ chosen'[p] = chosen[p]
    BY <1>1, <1>4 DEF ViewsOK
  <2>2. Shown(copy[p], chosen[p], moved[p], p)
    BY <1>4, <2>1 DEF ViewsOK, InCopy
  <2>3. /\ moved' = moved /\ size' = size /\ total' = total /\ histLen' = histLen
        /\ (p \in alive => p \in alive')
    BY <1>1, <2>1
  <2> QED BY <2>1, <2>2, <2>3 DEF Shown, View, Kept, AnchorOn, Oldest, cols, rows
<1>5. ViewsOK'
  BY <1>1, <1>3, <1>4 DEF ViewsOK, InCopy
<1> QED BY <1>1, <1>2, <1>5, WholeStep, GesturesStay

-----------------------------------------------------------------------------
(* The handlers' sections. *)

(* What is known of the handler that is running. *)
LEMMA Running ==
  ASSUME IInv, ~Free
  PROVE  /\ Fits(op) /\ op \in Handlers /\ op.p \in Panes /\ op.p \in alive
         /\ op.from \in Nat /\ op.total \in Nat /\ op.hist \in Nat
         /\ op.from <= total[op.p] /\ op.total <= total[op.p]
         /\ op.at # "enter" =>
              InCopy(op.p) /\ Shown(copy[op.p], chosen[op.p], moved[op.p], op.p)
PROOF
<1>1. Fits(op) /\ op \in Handlers
  BY DEF IInv, OpOK, Fits
<1>2. op.p \in Panes /\ op.from \in Nat /\ op.total \in Nat /\ op.hist \in Nat
  BY <1>1 DEF Handlers
<1> QED BY <1>1, <1>2 DEF Fits, IInv, ViewsOK

(* A section leaves the panes and the gestures alone. *)
LEMMA SectionStep ==
  ASSUME IInv, section
  PROVE  PanesOK' /\ GesturesOK' /\ UNCHANGED shape
PROOF
<1>1. UNCHANGED <<shape, active, ms, pressed>>
  BY DEF section, panes, gestures, shape
<1>2. PanesOK'
  BY <1>1, FocusStep DEF IInv
<1> QED BY <1>1, <1>2, GesturesStay DEF IInv

LEMMA EnterSection ==
  ASSUME IInv, enterCopyPane PROVE IInv'
PROOF
<1> USE DEF IInv
<1> DEFINE p == op.p
           c == newCopyState(p)
<1>1. /\ ~Free /\ op' = [op EXCEPT !.at = "total"] /\ section /\ UNCHANGED moved
      /\ CopyIs(p, c) /\ chosen' = [chosen EXCEPT ![p] = total[p]]
  BY DEF enterCopyPane, At
<1>2. /\ Fits(op) /\ op \in Handlers /\ p \in Panes /\ p \in alive /\ op.from <= total[p]
      /\ op.total <= total[p]
  BY <1>1, Running
<1>3. PanesOK' /\ GesturesOK' /\ UNCHANGED shape
  BY <1>1, SectionStep
<1>4. Shown(c, total[p], moved'[p], p)
  BY <1>2, NewFits
<1> HIDE DEF c
<1>5. total[p] \in Nat
  BY <1>2, Numbers
<1>6. /\ chosen' \in [Panes -> Int] /\ chosen'[p] = total[p] /\ moved' \in [Panes -> BOOLEAN]
      /\ \A q \in Panes \ {p} : chosen'[q] = chosen[q] /\ moved'[q] = moved[q]
  BY <1>1, <1>2, <1>5 DEF ViewsOK
<1> HIDE DEF p
<1>7. ViewsOK' /\ copy'[p] = c
  BY <1>1, <1>2, <1>3, <1>4, <1>6, ViewStep
<1>8. c # NoCopy
  BY <1>4, CopyIsNot DEF Shown, View
<1>9. /\ op' \in Handlers /\ op'.p = p /\ op'.at = "total" /\ op'.from = op.from
      /\ op'.total = op.total /\ op'.kind = op.kind /\ op'.cell = op.cell
  BY <1>1, <1>2 DEF Handlers, p
<1>10. Fits(op)'
  BY <1>2, <1>3, <1>7, <1>8, <1>9 DEF Fits, InCopy, shape
<1> QED BY <1>3, <1>7, <1>10 DEF OpOK

LEMMA ReadSection ==
  ASSUME IInv, readTotal PROVE IInv'
PROOF
<1> USE DEF IInv
<1> DEFINE p == op.p
<1>1. /\ ~Free /\ op.at = "total" /\ section /\ UNCHANGED copying
      /\ op' = [op EXCEPT !.at = "history", !.total = total[p]]
  BY DEF readTotal, At
<1>2. /\ Fits(op) /\ op \in Handlers /\ p \in Panes /\ p \in alive /\ op.from <= total[p]
      /\ InCopy(p) /\ Shown(copy[p], chosen[p], moved[p], p)
  BY <1>1, Running
<1>3. PanesOK' /\ GesturesOK' /\ UNCHANGED shape
  BY <1>1, SectionStep
<1>4. ViewsOK'
  BY <1>1, <1>3, ViewsStay
<1>5. total[p] \in Nat /\ copy[p].seen <= total[p]
  BY <1>2, Numbers DEF Shown, View
<1> HIDE DEF p
<1>6. /\ op' \in Handlers /\ op'.p = p /\ op'.at = "history" /\ op'.from = op.from
      /\ op'.total = total[p] /\ op'.kind = op.kind /\ op'.cell = op.cell
  BY <1>1, <1>2, <1>5 DEF Handlers, p
<1>7. Fits(op)'
  BY <1>1, <1>2, <1>3, <1>5, <1>6 DEF Fits, InCopy, shape, copying
<1> QED BY <1>3, <1>4, <1>7 DEF OpOK

LEMMA SyncSection ==
  ASSUME IInv, syncCopy PROVE IInv'
PROOF
<1> USE DEF IInv
<1> DEFINE p == op.p
           t == op.total
           c == sync(copy[p], t, histLen[p])
<1>1. /\ ~Free /\ op.at = "history" /\ section /\ UNCHANGED <<chosen, moved>>
      /\ op' = [op EXCEPT !.at = "act", !.total = 0] /\ CopyIs(p, c)
  BY DEF syncCopy, At
<1>2. /\ Fits(op) /\ op \in Handlers /\ p \in Panes /\ p \in alive /\ op.from <= total[p]
      /\ t \in Nat /\ t <= total[p] /\ InCopy(p) /\ Shown(copy[p], chosen[p], moved[p], p)
  BY <1>1, Running
<1>3. PanesOK' /\ GesturesOK' /\ UNCHANGED shape
  BY <1>1, SectionStep
<1>4. op.from <= t /\ copy[p].seen <= t /\ total[p] \in Nat
  BY <1>1, <1>2, Numbers DEF Fits
<1>5. Shown(c, chosen[p], moved[p], p) /\ c.seen = t
  BY <1>2, <1>4, SyncFits
<1> HIDE DEF c
<1>6. /\ chosen' \in [Panes -> Int] /\ moved' \in [Panes -> BOOLEAN]
      /\ \A q \in Panes \ {p} : chosen'[q] = chosen[q] /\ moved'[q] = moved[q]
  BY <1>1 DEF ViewsOK
<1>7. Shown(c, chosen'[p], moved'[p], p)
  BY <1>1, <1>5
<1> HIDE DEF p, t
<1>8. ViewsOK' /\ copy'[p] = c
  BY <1>1, <1>2, <1>3, <1>6, <1>7, ViewStep
<1>9. c # NoCopy
  BY <1>5, CopyIsNot DEF Shown, View
<1>10. /\ op' \in Handlers /\ op'.p = p /\ op'.at = "act" /\ op'.from = op.from
       /\ op'.total = 0 /\ op'.kind = op.kind /\ op'.cell = op.cell
  BY <1>1, <1>2 DEF Handlers, p
<1>11. Fits(op)'
  BY <1>2, <1>3, <1>4, <1>5, <1>8, <1>9, <1>10 DEF Fits, InCopy, shape
<1> QED BY <1>3, <1>8, <1>11 DEF OpOK

LEMMA DrawnSection ==
  ASSUME IInv, drawn PROVE IInv'
PROOF
<1>1. op' = NoOp /\ section /\ UNCHANGED copying
  BY DEF drawn, Done
<1>2. PanesOK' /\ GesturesOK' /\ UNCHANGED shape
  BY <1>1, SectionStep
<1> QED BY <1>1, <1>2, ViewsStay, WholeStep DEF IInv

LEMMA MoveSection ==
  ASSUME IInv, moveKey PROVE IInv'
PROOF
<1> USE DEF IInv
<1> DEFINE p == op.p
           key == op.kind
           d == move(copy[p], histLen[p], key)
<1>1. /\ ~Free /\ op.at = "act" /\ key \in Moves /\ op' = NoOp /\ section
      /\ Scrolls(p, d) /\ moved' = [moved EXCEPT ![p] = @ /\ key # "mark"]
  BY DEF moveKey, Acts, At, Done
<1>2. p \in Panes /\ InCopy(p) /\ Shown(copy[p], chosen[p], moved[p], p)
  BY <1>1, Running
<1>3. PanesOK' /\ GesturesOK' /\ UNCHANGED shape
  BY <1>1, SectionStep
<1>4. moved[p] \in BOOLEAN
  BY <1>2 DEF ViewsOK
<1>5. Moved(copy[p], d, chosen[p], moved[p] /\ key # "mark", p)
  BY <1>1, <1>2, <1>4, MoveFits
<1> HIDE DEF d, key, p
<1>6. /\ moved' \in [Panes -> BOOLEAN] /\ moved'[p] = (moved[p] /\ key # "mark")
      /\ \A q \in Panes \ {p} : moved'[q] = moved[q]
  BY <1>1, <1>2, Zenon DEF ViewsOK
<1>7. Moved(copy[p], d, chosen[p], moved'[p], p)
  BY <1>5, <1>6, Zenon
<1>8. ViewsOK'
  BY <1>1, <1>2, <1>3, <1>6, <1>7, ViewScrolls
<1> QED BY <1>1, <1>3, <1>8, WholeStep

LEMMA MeasureSection ==
  ASSUME IInv, measure PROVE IInv'
PROOF
<1> USE DEF IInv
<1> DEFINE p == op.p
<1>1. /\ ~Free /\ op.at = "act" /\ section /\ UNCHANGED copying
      /\ op' = [op EXCEPT !.at = "copy", !.hist = histLen[p]]
  BY DEF measure, Acts, At
<1>2. /\ Fits(op) /\ op \in Handlers /\ p \in Panes /\ p \in alive /\ InCopy(p)
  BY <1>1, Running
<1>3. PanesOK' /\ GesturesOK' /\ UNCHANGED shape
  BY <1>1, SectionStep
<1>4. ViewsOK'
  BY <1>1, <1>3, ViewsStay
<1>5. histLen[p] \in Nat
  BY <1>2, Numbers
<1> HIDE DEF p
<1>6. /\ op' \in Handlers /\ op'.p = p /\ op'.at = "copy" /\ op'.from = op.from
      /\ op'.total = op.total /\ op'.kind = op.kind /\ op'.cell = op.cell
      /\ op'.hist = histLen[p]
  BY <1>1, <1>2, <1>5 DEF Handlers, p
<1>7. op.p = p /\ copy' = copy /\ total' = total /\ histLen' = histLen /\ alive' = alive
  BY <1>1, <1>3 DEF p, copying, shape
<1>8. Fits(op)'
  BY <1>1, <1>2, <1>5, <1>6, <1>7 DEF Fits, InCopy
<1> QED BY <1>3, <1>4, <1>8 DEF OpOK

LEMMA EndSection ==
  ASSUME IInv, ~Free, op' = NoOp, section, Ends(op.p), UNCHANGED moved PROVE IInv'
PROOF
<1>1. op.p \in Panes /\ PanesOK' /\ GesturesOK' /\ UNCHANGED shape
  BY Running, SectionStep
<1> QED BY <1>1, ViewEnds, WholeStep DEF IInv

(* A notch, in a pane in copy mode. *)
LEMMA WheelSection ==
  ASSUME IInv, wheelUp \/ wheelDown PROVE IInv'
PROOF
<1> USE DEF IInv
<1> DEFINE p == op.p
           c == copy[p]
<1>1. ~Free /\ op.at = "act" /\ op' = NoOp /\ section /\ UNCHANGED moved
  BY DEF wheelUp, wheelDown, Acts, At, Done
<1>2. p \in Panes /\ Shown(c, chosen[p], moved[p], p)
  BY <1>1, Running
<1>3. PanesOK' /\ GesturesOK' /\ UNCHANGED shape
  BY <1>1, SectionStep
<1>4. /\ c.offset \in Nat /\ c.offset <= histLen[p] /\ histLen[p] \in Nat
      /\ WheelStep \in Nat \ {0}
  BY <1>2, ViewNumbers, Numbers, LimitsAssumption DEF Shown
<1>5. ASSUME NEW o \in Nat, o <= histLen[p], Scrolls(p, [c EXCEPT !.offset = o])
      PROVE  IInv'
  <2> DEFINE d == [c EXCEPT !.offset = o]
  <2>1. d = [c EXCEPT !.offset = o] /\ Scrolls(p, d)
    BY <1>5
  <2> HIDE DEF d, c, p
  <2>2. Moved(c, d, chosen[p], moved[p], p)
    BY <1>2, <1>5, <2>1, ScrollFits DEF Moved
  <2>3. /\ moved' \in [Panes -> BOOLEAN] /\ moved'[p] = moved[p]
        /\ \A q \in Panes \ {p} : moved'[q] = moved[q]
    BY <1>1 DEF ViewsOK
  <2>4. Moved(copy[p], d, chosen[p], moved'[p], p)
    BY <2>2, <2>3 DEF c
  <2>5. ViewsOK'
    BY <1>2, <1>3, <2>1, <2>3, <2>4, ViewScrolls
  <2> QED BY <1>1, <1>3, <2>5, WholeStep
<1>6. CASE wheelUp
  <2> DEFINE o == Lesser(c.offset + WheelStep, histLen[p])
  <2>1. Scrolls(p, [c EXCEPT !.offset = o])
    BY <1>6 DEF wheelUp
  <2>2. o \in Nat /\ o <= histLen[p]
    BY <1>4 DEF Lesser
  <2> HIDE DEF o
  <2> QED BY <1>5, <2>1, <2>2
<1>7. CASE wheelDown /\ c.offset <= WheelStep
  <2>1. Ends(p)
    BY <1>7 DEF wheelDown
  <2> QED BY <1>1, <2>1, EndSection
<1>8. CASE wheelDown /\ ~(c.offset <= WheelStep)
  <2> DEFINE o == c.offset - WheelStep
  <2>1. Scrolls(p, [c EXCEPT !.offset = o])
    BY <1>8 DEF wheelDown
  <2>2. o \in Nat /\ o <= histLen[p]
    BY <1>4, <1>8
  <2> HIDE DEF o
  <2> QED BY <1>5, <2>1, <2>2
<1> QED BY <1>6, <1>7, <1>8

(* The first move of a selection anchors it on the pane. *)
LEMMA AnchorSection ==
  ASSUME IInv, anchored PROVE IInv'
PROOF
<1> USE DEF IInv
<1> DEFINE p == op.p
           c == copy[p]
           x == Lesser(op.cell[1], c.cols - 1)
           y == Lesser(op.cell[2], c.rows - 1)
           d == setAnchor(c, x, y)
<1>1. /\ ~Free /\ op.at = "act" /\ op.kind = "select" /\ section /\ UNCHANGED chosen
      /\ op' = [op EXCEPT !.kind = "point", !.at = "total"]
      /\ CopyIs(p, d) /\ moved' = [moved EXCEPT ![p] = FALSE]
  BY DEF anchored, Acts, At
<1>2. /\ Fits(op) /\ op \in Handlers /\ p \in Panes /\ p \in alive
      /\ op.from <= total[p] /\ op.total <= total[p]
      /\ InCopy(p) /\ Shown(c, chosen[p], moved[p], p)
  BY <1>1, Running
<1>3. PanesOK' /\ GesturesOK' /\ UNCHANGED shape
  BY <1>1, SectionStep
<1>4. op.cell[1] \in Nat /\ op.cell[2] \in Nat
  BY <1>1, <1>2 DEF Fits
<1>5. /\ View(c, p) /\ Kept(c, chosen[p], p) /\ c.cols = cols(p) /\ c.rows = rows(p)
      /\ cols(p) \in Nat \ {0} /\ rows(p) \in Nat \ {0}
  BY <1>2, Numbers DEF Shown, View
<1>6. x \in Nat /\ y \in Nat /\ y <= rows(p) - 1
  BY <1>4, <1>5 DEF Lesser
<1> HIDE DEF x, y
<1>7. Shown(d, chosen[p], FALSE, p)
  <2>1. PanesOK
    OBVIOUS
  <2> HIDE DEF p, c
  <2> QED BY <1>2, <1>5, <1>6, <2>1, AnchorFits
<1> HIDE DEF d
<1>8. /\ chosen' \in [Panes -> Int] /\ moved' \in [Panes -> BOOLEAN] /\ moved'[p] = FALSE
      /\ \A q \in Panes \ {p} : chosen'[q] = chosen[q] /\ moved'[q] = moved[q]
  BY <1>1, <1>2 DEF ViewsOK
<1>9. Shown(d, chosen'[p], moved'[p], p)
  BY <1>1, <1>7, <1>8
<1> HIDE DEF p, c
<1>10. ViewsOK' /\ copy'[p] = d
  BY <1>1, <1>2, <1>3, <1>8, <1>9, ViewStep
<1>11. d # NoCopy
  BY <1>7, CopyIsNot DEF Shown, View
<1>12. /\ op' \in Handlers /\ op'.p = p /\ op'.at = "total" /\ op'.from = op.from
       /\ op'.total = op.total /\ op'.kind = "point"
  BY <1>1, <1>2 DEF Handlers, p, Kinds
<1>13. Fits(op)'
  BY <1>2, <1>3, <1>10, <1>11, <1>12 DEF Fits, InCopy, shape
<1> QED BY <1>3, <1>10, <1>13 DEF OpOK

LEMMA PointSection ==
  ASSUME IInv, pointed PROVE IInv'
PROOF
<1> USE DEF IInv
<1> DEFINE p == op.p
           c == copy[p]
<1>1. /\ ~Free /\ op.at = "act" /\ op' = NoOp /\ section /\ UNCHANGED <<chosen, moved>>
  BY DEF pointed, Acts, At, Done
<1>2. p \in Panes /\ Shown(c, chosen[p], moved[p], p)
  BY <1>1, Running
<1>3. PanesOK' /\ GesturesOK' /\ UNCHANGED shape
  BY <1>1, SectionStep
<1>4. PICK x \in 0..(cols(p) - 1), y \in 0..(rows(p) - 1) : CopyIs(p, [c EXCEPT !.cx = x, !.cy = y])
  BY DEF pointed
<1>5. x \in Nat /\ y \in Nat /\ y <= rows(p) - 1
  BY <1>2, Numbers
<1> DEFINE d == Pointed(c, x, y)
<1>6. CopyIs(p, d)
  BY <1>4 DEF Pointed
<1>7. Shown(d, chosen[p], moved[p], p)
  <2>1. PanesOK
    OBVIOUS
  <2> HIDE DEF p, c
  <2> QED BY <1>2, <1>5, <2>1, CursorFits, Zenon
<1> HIDE DEF d, p, c
<1>8. /\ chosen' \in [Panes -> Int] /\ moved' \in [Panes -> BOOLEAN]
      /\ \A q \in Panes \ {p} : chosen'[q] = chosen[q] /\ moved'[q] = moved[q]
      /\ Shown(d, chosen'[p], moved'[p], p)
  BY <1>1, <1>7 DEF ViewsOK
<1>9. ViewsOK'
  BY <1>2, <1>3, <1>6, <1>8, ViewStep
<1> QED BY <1>1, <1>3, <1>9, WholeStep

LEMMA HandlerStep ==
  ASSUME IInv, handler PROVE IInv'
PROOF
<1>1. ASSUME copied PROVE IInv'
  BY <1>1, EndSection DEF copied, At, Done
<1> QED BY <1>1, EnterSection, ReadSection, SyncSection, DrawnSection, MoveSection,
           MeasureSection, WheelSection, AnchorSection, PointSection DEF handler

-----------------------------------------------------------------------------
(* The actions. *)

(* A handler begins that does nothing else first. *)
LEMMA BeginOnly ==
  ASSUME IInv, NEW p \in alive, NEW kind \in Kinds \ {"select"}, Begin(kind, p, NoCell),
         UNCHANGED shape, UNCHANGED copying
  PROVE  OpOK'
BY BeginStep DEF IInv

LEMMA DrawStep ==
  ASSUME IInv, NEW p \in Panes, Draw(p) PROVE IInv'
PROOF
<1>1. p \in alive /\ Begin("draw", p, NoCell) /\ UNCHANGED <<shape, active, copying, ms, pressed>>
  BY DEF Draw, panes, shape, gestures
<1>2. OpOK'
  BY <1>1, BeginOnly DEF Kinds
<1> QED BY <1>1, <1>2, FocusStep, ViewsStay, GesturesStay DEF IInv

LEMMA EnterCopyStep ==
  ASSUME IInv, enterCopy PROVE IInv'
PROOF
<1> USE DEF IInv
<1> DEFINE p == active
           c == newCopyState(p)
<1>1. /\ p \in alive /\ p \in Panes
  BY DEF enterCopy, PanesOK
<1>2. /\ CopyIs(p, c) /\ chosen' = [chosen EXCEPT ![p] = total[p]]
      /\ UNCHANGED <<shape, active, ms, pressed, moved, op>> /\ Free
  BY DEF enterCopy, panes, shape, gestures, Whole
<1>3. Shown(c, total[p], moved'[p], p)
  BY <1>1, NewFits
<1> HIDE DEF c
<1>4. total[p] \in Nat
  BY <1>1, Numbers
<1>5. /\ chosen' \in [Panes -> Int] /\ chosen'[p] = total[p] /\ moved' \in [Panes -> BOOLEAN]
      /\ \A q \in Panes \ {p} : chosen'[q] = chosen[q] /\ moved'[q] = moved[q]
  BY <1>1, <1>2, <1>4 DEF ViewsOK
<1>6. ViewsOK'
  <2>1. Shown(c, chosen'[p], moved'[p], p) /\ UNCHANGED shape
    BY <1>2, <1>3, <1>5
  <2> HIDE DEF p
  <2> QED BY <1>1, <1>2, <1>5, <2>1, ViewStep
<1> QED BY <1>2, <1>6, FocusStep, WholeStep, GesturesStay

LEMMA CopyKeyStep ==
  ASSUME IInv, copyKey PROVE IInv'
PROOF
<1>1. /\ active \in alive /\ UNCHANGED <<shape, active, copying, ms, pressed>>
  BY DEF copyKey, panes, shape, gestures, PanesOK, IInv
<1>2. PICK kind \in Moves \cup {"yank"} : Begin(kind, active, NoCell)
  BY DEF copyKey
<1>3. kind \in Kinds \ {"select"}
  BY DEF Kinds, Moves
<1>4. OpOK'
  BY <1>1, <1>2, <1>3, BeginOnly
<1> QED BY <1>1, <1>4, FocusStep, ViewsStay, GesturesStay DEF IInv

LEMMA LeaveCopyStep ==
  ASSUME IInv, leaveCopy PROVE IInv'
PROOF
<1> USE DEF IInv
<1>1. /\ active \in Panes /\ Ends(active) /\ Free
      /\ UNCHANGED <<shape, active, ms, pressed, moved, op>>
  BY DEF leaveCopy, PanesOK, shape, panes, gestures, Whole
<1>2. ViewsOK'
  BY <1>1, ViewEnds
<1> QED BY <1>1, <1>2, FocusStep, WholeStep, GesturesStay

(* A wheel notch, on the pane under the pointer. *)
LEMMA RouteWheelStep ==
  ASSUME IInv, NEW q \in Panes, routeWheel(q) PROVE IInv'
PROOF
<1>1. /\ q \in alive /\ active' = q /\ UNCHANGED <<shape, copying, ms, pressed>>
      /\ Whole \/ (\E kind \in {"wheelUp", "wheelDown"} : Begin(kind, q, NoCell))
  BY DEF routeWheel, shape, panes, gestures
<1>2. CASE Whole
  <2>1. OpOK'
    BY <1>2, WholeStep DEF Whole
  <2> QED BY <1>1, <2>1, FocusStep, ViewsStay, GesturesStay DEF IInv
<1>3. CASE \E kind \in {"wheelUp", "wheelDown"} : Begin(kind, q, NoCell)
  <2>1. PICK kind \in {"wheelUp", "wheelDown"} : Begin(kind, q, NoCell)
    BY <1>3
  <2>2. kind \in Kinds \ {"select"}
    BY DEF Kinds, Moves
  <2>3. OpOK'
    BY <1>1, <2>1, <2>2, BeginOnly
  <2> QED BY <1>1, <2>3, FocusStep, ViewsStay, GesturesStay DEF IInv
<1> QED BY <1>1, <1>2, <1>3

(* A press begins a new gesture. *)
LEMMA PressStep ==
  ASSUME IInv, NEW c \in Clients, routePress(c) PROVE IInv'
PROOF
<1> USE DEF IInv
<1>1. ASSUME NEW s \in MouseStates, NEW q \in PaneOrNone, MouseIs(c, s),
             pressed' = [pressed EXCEPT ![c] = q], s.fwd \in {NoPane, q},
             active' \in alive \cup {active}, UNCHANGED <<shape, copying>>, Whole
      PROVE  IInv'
  BY <1>1, FocusStep, ViewsStay, GestureStep, WholeStep DEF Whole
<1>2. CASE pressDivider(c)
  <2> DEFINE several == \E p, q \in alive : p # q
             s == [idle EXCEPT !.border = several]
  <2>1. s \in MouseStates /\ s.fwd = NoPane
    <3>1. several \in BOOLEAN
      OBVIOUS
    <3> HIDE DEF several
    <3> QED BY <3>1 DEF idle, MouseStates, PaneOrNone
  <2>2. /\ MouseIs(c, s) /\ pressed' = [pressed EXCEPT ![c] = NoPane] /\ Whole
        /\ active' \in alive \cup {active} /\ UNCHANGED <<shape, copying>>
    BY <1>2 DEF pressDivider, shape, panes
  <2> HIDE DEF s
  <2> QED BY <1>1, <2>1, <2>2 DEF PaneOrNone
<1>3. ASSUME NEW p \in alive, pressPane(c, p)
      PROVE  IInv'
  <2>1. /\ p \in Panes /\ p \in PaneOrNone /\ NoPane \in PaneOrNone
        /\ active' \in alive \cup {active} /\ UNCHANGED <<shape, copying>> /\ Whole
    BY <1>3 DEF pressPane, shape, panes, PanesOK, PaneOrNone
  <2>2. cols(p) \in Nat /\ rows(p) \in Nat
    BY <2>1, Numbers
  <2>3. CASE MouseIs(c, [idle EXCEPT !.fwd = p]) /\ pressed' = [pressed EXCEPT ![c] = p]
    <3> DEFINE s == [idle EXCEPT !.fwd = p]
    <3>1. s \in MouseStates /\ s.fwd = p /\ MouseIs(c, s)
      BY <2>1, <2>3 DEF idle, MouseStates, PaneOrNone
    <3> HIDE DEF s
    <3> QED BY <1>1, <2>1, <2>3, <3>1
  <2>4. ASSUME NEW x \in 0..(cols(p) - 1), NEW y \in 0..(rows(p) - 1),
               MouseIs(c, [idle EXCEPT !.sel = p, !.x = x, !.y = y]),
               pressed' = [pressed EXCEPT ![c] = NoPane]
        PROVE  IInv'
    <3> DEFINE s == [idle EXCEPT !.sel = p, !.x = x, !.y = y]
    <3>1. x \in Nat /\ y \in Nat
      BY <2>2
    <3>2. s \in MouseStates /\ s.fwd = NoPane /\ MouseIs(c, s)
      BY <2>1, <2>4, <3>1 DEF idle, MouseStates, PaneOrNone
    <3> HIDE DEF s
    <3> QED BY <1>1, <2>1, <2>4, <3>2
  <2>5. CASE MouseIs(c, idle) /\ pressed' = [pressed EXCEPT ![c] = NoPane]
    BY <1>1, <2>1, <2>5, IdleIsState
  <2> QED BY <1>3, <2>3, <2>4, <2>5 DEF pressPane
<1> QED BY <1>2, <1>3 DEF routePress

(* The gesture a drag goes on with, or gives up. *)
LEMMA DragStates ==
  ASSUME GesturesOK, NEW c \in Clients
  PROVE  /\ ms[c] \in MouseStates
         /\ [ms[c] EXCEPT !.selActive = TRUE] \in MouseStates
         /\ [ms[c] EXCEPT !.selActive = TRUE].fwd = ms[c].fwd
         /\ [ms[c] EXCEPT !.sel = NoPane, !.selActive = FALSE] \in MouseStates
         /\ [ms[c] EXCEPT !.sel = NoPane, !.selActive = FALSE].fwd = ms[c].fwd
PROOF
<1>1. ms[c] \in MouseStates
  BY DEF GesturesOK
<1> QED BY <1>1 DEF MouseStates, PaneOrNone

LEMMA DragSelectStep ==
  ASSUME IInv, NEW c \in Clients, dragSelect(c) PROVE IInv'
PROOF
<1> USE DEF IInv
<1> DEFINE p == ms[c].sel
<1>1. UNCHANGED <<shape, active, pressed>>
  BY DEF dragSelect, shape, panes
<1>2. PanesOK'
  BY <1>1, FocusStep
<1>3. CASE dropSelect(c)
  <2>1. /\ MouseIs(c, [ms[c] EXCEPT !.sel = NoPane, !.selActive = FALSE])
        /\ UNCHANGED copying /\ Whole
    BY <1>3 DEF dropSelect
  <2>2. GesturesOK'
    BY <1>1, <2>1, DragStates, GestureOn
  <2> QED BY <1>1, <1>2, <2>1, <2>2, ViewsStay, WholeStep DEF Whole
<1>4. CASE p \in alive /\ startSelect(c)
  <2> DEFINE cell == <<ms[c].x, ms[c].y>>
  <2>1. /\ MouseIs(c, [ms[c] EXCEPT !.selActive = TRUE])
        /\ Begin("select", p, cell) /\ UNCHANGED copying
    BY <1>4 DEF startSelect
  <2>2. GesturesOK'
    BY <1>1, <2>1, DragStates, GestureOn
  <2>3. cell \in Nat \X Nat
    BY DEF GesturesOK, MouseStates
  <2> HIDE DEF cell, p
  <2>4. OpOK'
    BY <1>1, <1>4, <2>1, <2>3, BeginStep DEF Kinds
  <2> QED BY <1>1, <1>2, <2>1, <2>2, <2>4, ViewsStay
<1>5. CASE p \in alive /\ extendSelect(c) /\ ~dropSelect(c)
  <2>1. Begin("point", p, NoCell) /\ UNCHANGED <<copying, ms>>
    BY <1>5 DEF extendSelect
  <2> HIDE DEF p
  <2>2. OpOK'
    BY <1>1, <1>5, <2>1, BeginOnly DEF Kinds
  <2> QED BY <1>1, <1>2, <2>1, <2>2, ViewsStay, GesturesStay
<1> QED BY <1>3, <1>4, <1>5 DEF dragSelect

LEMMA DragBorderStep ==
  ASSUME IInv, NEW c \in Clients, dragBorder(c) PROVE IInv'
PROOF
<1>1. PICK p \in alive : \E s \in Sizes \ {size[p]} : resize(p, s)
  BY DEF dragBorder
<1>2. PICK s \in Sizes : resize(p, s)
  BY <1>1
<1>3. UNCHANGED <<alive, active, chosen, gestures>> /\ Whole
  BY DEF dragBorder
<1> QED BY <1>2, <1>3, ResizeStep

LEMMA ReleaseSelectStep ==
  ASSUME IInv, NEW c \in Clients, releaseSelect(c) PROVE IInv'
PROOF
<1> USE DEF IInv
<1> DEFINE p == ms[c].sel
           s == [idle EXCEPT !.fwd = ms[c].fwd]
<1>1. /\ UNCHANGED <<shape, active, pressed, copying>> /\ MouseIs(c, s)
      /\ Whole \/ (p \in alive /\ Begin("yank", p, NoCell))
  BY DEF releaseSelect, shape, panes
<1>2. ms[c] \in MouseStates
  BY DEF GesturesOK
<1>3. s \in MouseStates /\ s.fwd = ms[c].fwd
  BY <1>1, <1>2 DEF MouseStates, PaneOrNone, idle
<1> HIDE DEF p, s
<1>4. OpOK'
  BY <1>1, WholeStep, BeginOnly DEF Whole, Kinds, Moves
<1>5. GesturesOK'
  BY <1>1, <1>3, GestureOn
<1> QED BY <1>1, <1>4, <1>5, FocusStep, ViewsStay

(* A gesture that ends, or is forgotten. *)
LEMMA EndStep ==
  ASSUME IInv, NEW c \in Clients, releasePress(c) \/ forget(c) PROVE IInv'
PROOF
<1>1. MouseIs(c, idle) /\ UNCHANGED <<shape, active, copying, pressed>> /\ Whole
  BY DEF releasePress, forget, shape, panes
<1>2. GesturesOK'
  BY <1>1, IdleIsState, GestureOn DEF IInv
<1> QED BY <1>1, <1>2, FocusStep, ViewsStay, WholeStep DEF IInv, Whole

(* A step that only reports, or changes what the app asks for. *)
LEMMA QuietStep ==
  ASSUME IInv, UNCHANGED <<shape, active, copying, op, ms, pressed>> PROVE IInv'
PROOF
<1>1. OpOK'
  BY DEF IInv, OpOK, Free, Fits, InCopy, shape, copying
<1> QED BY <1>1, FocusStep, ViewsStay, GesturesStay DEF IInv

-----------------------------------------------------------------------------
LEMMA InitIInv == Init => IInv
PROOF
<1> SUFFICES ASSUME Init PROVE IInv
  OBVIOUS
<1>1. size \in [Panes -> (Nat \ {0}) \X (Nat \ {0})]
  BY SizesAssumption DEF Init
<1>2. PanesOK
  BY <1>1, LimitsAssumption DEF Init, PanesOK
<1>3. ViewsOK
  BY DEF Init, ViewsOK, InCopy
<1>4. GesturesOK
  BY IdleIsState DEF Init, GesturesOK, PaneOrNone
<1>5. OpOK
  BY DEF Init, OpOK, Free
<1> QED BY <1>2, <1>3, <1>4, <1>5 DEF IInv

LEMMA MouseStep ==
  ASSUME IInv, NEW c \in Clients, mouseAs(c) PROVE IInv'
PROOF
<1>1. CASE routePress(c)
  BY <1>1, PressStep
<1>2. CASE dragSelect(c)
  BY <1>2, DragSelectStep
<1>3. CASE dragReport(c)
  BY <1>3, QuietStep DEF dragReport, shape, panes, Whole
<1>4. CASE dragBorder(c)
  BY <1>4, DragBorderStep
<1>5. CASE releaseSelect(c)
  BY <1>5, ReleaseSelectStep
<1>6. CASE releasePress(c) \/ forget(c)
  BY <1>6, EndStep
<1> QED BY <1>1, <1>2, <1>3, <1>4, <1>5, <1>6 DEF mouseAs

LEMMA NextIInv == IInv /\ [Next]_vars => IInv'
PROOF
<1> SUFFICES ASSUME IInv, [Next]_vars PROVE IInv'
  OBVIOUS
<1>1. ASSUME NEW p \in Panes, Output(p) PROVE IInv'
  BY <1>1, OutputStep
<1>2. ASSUME NEW p \in Panes, Resize(p) PROVE IInv'
  <2>1. PICK s \in Sizes : resize(p, s)
    BY <1>2 DEF Resize
  <2>2. p \in alive /\ UNCHANGED <<alive, active, chosen, gestures>> /\ Whole
    BY <1>2 DEF Resize
  <2> QED BY <2>1, <2>2, ResizeStep
<1>3. ASSUME NEW p \in Panes, Close(p) PROVE IInv'
  BY <1>3, CloseStep
<1>4. ASSUME NEW p \in Panes, routeWheel(p) PROVE IInv'
  BY <1>4, RouteWheelStep
<1>5. ASSUME NEW p \in Panes, NEW m \in AppModes, SetMode(p, m) PROVE IInv'
  BY <1>5, QuietStep DEF SetMode, shape, gestures, Printing
<1>6. ASSUME NEW p \in Panes, Draw(p) PROVE IInv'
  BY <1>6, DrawStep
<1>7. CASE enterCopy
  BY <1>7, EnterCopyStep
<1>8. CASE copyKey
  BY <1>8, CopyKeyStep
<1>9. CASE leaveCopy
  BY <1>9, LeaveCopyStep
<1>10. ASSUME NEW c \in Clients, mouseAs(c) PROVE IInv'
  BY <1>10, MouseStep
<1>11. CASE handler
  BY <1>11, HandlerStep
<1>12. CASE UNCHANGED vars
  BY <1>12, QuietStep DEF vars, panes, gestures, shape
<1> QED BY <1>1, <1>2, <1>3, <1>4, <1>5, <1>6, <1>7, <1>8, <1>9, <1>10, <1>11, <1>12 DEF Next

LEMMA SpecIInv == Spec => []IInv
BY InitIInv, NextIInv, PTL DEF Spec

LEMMA ViewsFit == IInv => TypeOK
PROOF
<1> SUFFICES ASSUME IInv PROVE TypeOK
  OBVIOUS
<1>1. \A p \in Panes : histLen[p] <= Lesser(total[p], HistCap)
  BY LimitsAssumption DEF IInv, PanesOK, Lesser
<1>2. ASSUME NEW p \in Panes, InCopy(p)
      PROVE  LET c == copy[p] IN
             /\ p \in alive /\ c.cols = cols(p) /\ c.rows = rows(p)
             /\ c.offset \in 0..histLen[p] /\ c.seen <= total[p]
             /\ c.cy \in 0..(rows(p) - 1) /\ c.cx >= 0
  <2>1. View(copy[p], p) /\ rows(p) \in Nat /\ histLen[p] \in Nat
    BY <1>2, Numbers DEF IInv, ViewsOK, Shown
  <2>2. copy[p].offset \in Nat /\ copy[p].cy \in Nat /\ copy[p].cx \in Nat
    BY <2>1, ViewNumbers
  <2> QED BY <2>1, <2>2 DEF View
<1>3. ~Free => op.p \in alive /\ (InCopy(op.p) \/ op.at = "enter") /\ op.total <= total[op.p]
  BY Running
<1> QED BY <1>1, <1>2, <1>3 DEF TypeOK, IInv, PanesOK

(* However panes print, shrink, close and are scrolled, selected and       *)
(* dragged over, a copy-mode view fits its pane and its history, in the    *)
(* middle of a handler too; and some pane has the focus while one is left. *)
THEOREM CopyModeViewsFit == Spec => []TypeOK
BY SpecIInv, ViewsFit, PTL

-----------------------------------------------------------------------------
(* What a frame shows. *)

(* The first line of a window as high as the pane. *)
LEMMA TopLine ==
  ASSUME PanesOK, NEW p \in Panes, NEW offset \in Nat, offset <= histLen[p]
  PROVE  ScrollbackView(p, offset, rows(p))[0] = total[p] - offset
PROOF
<1>1. /\ histLen[p] \in Nat /\ total[p] \in Nat /\ rows(p) \in Nat \ {0}
  BY Numbers
<1> DEFINE start == total[p] + rows(p) - Clamp(offset, 0, histLen[p]) - rows(p)
<1>2. Clamp(offset, 0, histLen[p]) = offset
  BY <1>1 DEF Clamp
<1>3. start = total[p] - offset /\ start + 0 = total[p] - offset /\ 0 \in 0..(rows(p) - 1)
  BY <1>1, <1>2
<1>4. total[p] - offset \in Retained(p)
  BY <1>1 DEF Retained
<1>5. ScrollbackView(p, offset, rows(p)) =
        [r \in 0..(rows(p) - 1) |-> IF start + r \in Retained(p) THEN start + r ELSE Void]
  BY DEF ScrollbackView
<1> HIDE DEF start
<1> QED BY <1>3, <1>4, <1>5

LEMMA FrameStays == IInv => ViewStays
PROOF
<1> DEFINE p == op.p
           c == copy[p]
           top == ScrollbackView(p, c.offset, c.rows)[0]
<1> SUFFICES ASSUME IInv, Acts("draw")
             PROVE  \/ top - chosen[p] \in 0..Printed
                    \/ chosen[p] < Oldest(p) /\ top - Oldest(p) \in 0..Printed
  BY DEF ViewStays
<1>1. ~Free /\ op.at = "act"
  BY DEF Acts, At
<1>2. /\ Fits(op) /\ p \in Panes /\ PanesOK /\ op.from \in Nat
      /\ Shown(c, chosen[p], moved[p], p)
  BY <1>1, Running DEF IInv
<1>3. total[p] \in Nat /\ histLen[p] \in Nat
  BY <1>2, Numbers
<1>4. /\ c.offset \in Nat /\ c.seen \in Nat /\ c.rows = rows(p)
      /\ c.offset <= histLen[p] /\ c.seen <= total[p]
  BY <1>2, ViewNumbers DEF Shown
<1>5. op.from <= c.seen
  BY <1>1, <1>2 DEF Fits
<1>6. top = total[p] - c.offset
  <2> HIDE DEF p, c
  <2> QED BY <1>2, <1>4, TopLine
<1>7. Kept(c, chosen[p], p)
  BY <1>2 DEF Shown
<1> HIDE DEF top, c
<1> QED BY <1>2, <1>3, <1>4, <1>5, <1>6, <1>7 DEF Kept, Oldest, Printed

(* Whatever a pane prints, what a copy-mode view shows stays where the     *)
(* user put it, until the ring evicts it: then the oldest line is on top.  *)
(* A frame is off by no more than what is printed while it is drawn.       *)
THEOREM CopyModeViewStays == Spec => []ViewStays
BY SpecIInv, FrameStays, PTL

-----------------------------------------------------------------------------
(* Reports. *)

LEMMA ReportStep ==
  ASSUME IInv, [Next]_vars, report' # report, report'[2] # "press"
  PROVE  report'[3] = pressed[report'[1]]
PROOF
<1>1. ASSUME NEW c \in Clients, NEW kind, ms[c].fwd \in alive, Report(c, kind, ms[c].fwd)
      PROVE  report'[3] = pressed[report'[1]]
  <2>1. ms[c].fwd \in {NoPane, pressed[c]} /\ ms[c].fwd # NoPane
    BY <1>1, PanesAssumption DEF IInv, GesturesOK, PanesOK
  <2> QED BY <1>1, <2>1 DEF Report
<1>2. ASSUME NEW c \in Clients, routePress(c) PROVE FALSE
  <2>1. UNCHANGED report \/ \E p \in alive : Report(c, "press", p)
    BY <1>2, Zenon DEF routePress, pressDivider, pressPane
  <2> QED BY <2>1 DEF Report
<1>3. ASSUME NEW c \in Clients, dragReport(c) PROVE report'[3] = pressed[report'[1]]
  BY <1>1, <1>3 DEF dragReport
<1>4. ASSUME NEW c \in Clients, releasePress(c) PROVE report'[3] = pressed[report'[1]]
  BY <1>1, <1>4 DEF releasePress
<1>5. ASSUME NEW c \in Clients,
             dragSelect(c) \/ dragBorder(c) \/ releaseSelect(c) \/ forget(c)
      PROVE  FALSE
  BY <1>5 DEF dragSelect, dragBorder, releaseSelect, forget, gestures
<1>6. ASSUME NEW p \in Panes,
             Output(p) \/ Resize(p) \/ Close(p) \/ routeWheel(p) \/ Draw(p)
      PROVE  FALSE
  BY <1>6 DEF Output, Resize, Close, routeWheel, Draw, gestures
<1>7. ASSUME NEW p \in Panes, NEW m \in AppModes, SetMode(p, m) PROVE FALSE
  BY <1>7 DEF SetMode, gestures
<1>8. CASE enterCopy \/ copyKey \/ leaveCopy
  BY <1>8 DEF enterCopy, copyKey, leaveCopy, gestures
<1>9. CASE handler
  <2>1. section
    BY <1>9 DEF handler, enterCopyPane, readTotal, syncCopy, drawn, moveKey, measure, copied,
                wheelUp, wheelDown, anchored, pointed, Done
  <2> QED BY <2>1 DEF section, gestures
<1>10. CASE UNCHANGED vars
  BY <1>10 DEF vars, gestures
<1> QED BY <1>2, <1>3, <1>4, <1>5, <1>6, <1>7, <1>8, <1>9, <1>10 DEF Next, mouseAs

(* A drag or a release is reported to the app that got the gesture's       *)
(* press, past closes, changes of mode, copy mode and other clients.       *)
THEOREM CopyModeReports == Spec => ReportsFollowPress
PROOF
<1>1. IInv /\ [Next]_vars =>
        [report' # report /\ report'[2] # "press" => report'[3] = pressed[report'[1]]]_vars
  BY ReportStep
<1> QED BY <1>1, SpecIInv, PTL DEF Spec, ReportsFollowPress

-----------------------------------------------------------------------------
(* What a copy takes. *)

(* The first rows of a view, down to row d. *)
RowsTo(view, d) == [i \in 1..(d + 1) |-> IF i - 1 \in DOMAIN view THEN view[i - 1] ELSE Void]

(* The rows of a selection's two ends, in either order. *)
EndRows(ay, by, d) == (ay = 0 /\ by = d) \/ (ay = d /\ by = 0)

(* The n lines from line lo. *)
LinesFrom(p, lo, n) == [r \in 0..(n - 1) |-> IF lo + r \in Retained(p) THEN lo + r ELSE Void]

(* With both ends on the pane, the text between two rows has all the lines *)
(* from the one to the other, in whichever order the ends come.            *)
LEMMA ExtractLines ==
  ASSUME NEW p, cols(p) \in Nat \ {0}, NEW view,
         NEW ax \in 0..(cols(p) - 1), NEW bx \in 0..(cols(p) - 1),
         NEW d \in Nat, NEW ay, NEW by, EndRows(ay, by, d)
  PROVE  extractText(p, view, ax, ay, bx, by) = RowsTo(view, d)
PROOF
<1> DEFINE C == cols(p)
           a == ay * C + ax
           b == by * C + bx
           first == Lesser(a, b) \div C
           last == (IF a > b THEN a ELSE b) \div C
<1> HIDE DEF C
<1>1. C \in Nat \ {0} /\ ax \in 0..(C - 1) /\ bx \in 0..(C - 1)
  BY DEF C
<1>2. d * C \in Nat /\ 0 * C = 0 /\ (d = 0 \/ d * C >= C)
  BY <1>1
<1>3. (d * C + ax) \div C = d /\ (d * C + bx) \div C = d /\ ax \div C = 0 /\ bx \div C = 0
  BY <1>1
<1>4. first = 0 /\ last = d
  <2>1. CASE ay = 0 /\ by = d
    <3>1. a = ax /\ b = d * C + bx
      BY <1>1, <1>2, <2>1
    <3>2. a <= b \/ d = 0
      BY <1>1, <1>2, <3>1
    <3>3. CASE d = 0
      BY <1>1, <1>2, <1>3, <3>1, <3>3 DEF Lesser
    <3>4. CASE a <= b
      <4>1. a \in Int /\ b \in Int
        BY <1>1, <1>2, <3>1
      <4>2. Lesser(a, b) = a /\ (IF a > b THEN a ELSE b) = b
        BY <3>4, <4>1 DEF Lesser
      <4> QED BY <1>3, <3>1, <4>2
    <3> QED BY <3>2, <3>3, <3>4
  <2>2. CASE ay = d /\ by = 0
    <3>1. a = d * C + ax /\ b = bx
      BY <1>1, <1>2, <2>2
    <3>2. b <= a \/ d = 0
      BY <1>1, <1>2, <3>1
    <3>3. CASE d = 0
      BY <1>1, <1>2, <1>3, <3>1, <3>3 DEF Lesser
    <3>4. CASE b <= a
      <4>1. a \in Int /\ b \in Int
        BY <1>1, <1>2, <3>1
      <4>2. Lesser(a, b) = b /\ (IF a > b THEN a ELSE b) = a
        BY <3>4, <4>1 DEF Lesser
      <4> QED BY <1>3, <3>1, <4>2
    <3> QED BY <3>2, <3>3, <3>4
  <2> QED BY <2>1, <2>2 DEF EndRows
<1>5. extractText(p, view, ax, ay, bx, by) =
        [i \in 1..(last - first + 1) |->
           IF first + i - 1 \in DOMAIN view THEN view[first + i - 1] ELSE Void]
  BY DEF extractText, C
<1> HIDE DEF first, last
<1>6. \A i \in 1..(d + 1) : 0 + i - 1 = i - 1
  OBVIOUS
<1>7. last - first + 1 = d + 1
  BY <1>4
<1> QED BY <1>4, <1>5, <1>6, <1>7 DEF RowsTo

(* A window of the scrollback that starts at line lo. *)
LEMMA WindowLines ==
  ASSUME PanesOK, NEW p \in Panes, NEW lo \in Int, NEW offset \in 0..histLen[p], NEW n \in Nat,
         lo = total[p] + rows(p) - offset - n
  PROVE  ScrollbackView(p, offset, n) = LinesFrom(p, lo, n)
PROOF
<1>1. histLen[p] \in Nat /\ total[p] \in Nat /\ rows(p) \in Nat
  BY Numbers
<1>2. Clamp(offset, 0, histLen[p]) = offset
  BY <1>1 DEF Clamp
<1> QED BY <1>2 DEF ScrollbackView, LinesFrom

(* The lines from lo to hi. *)
LinesTo(p, lo, hi) ==
  [i \in 1..(hi - lo + 1) |-> IF lo + i - 1 \in Retained(p) THEN lo + i - 1 ELSE Void]

LEMMA SelectionIsBetween == IInv => CopiesSelection
PROOF
<1> DEFINE p == op.p
           c == copy[p]
           D == total[p] - c.seen
<1> SUFFICES ASSUME IInv, At("copy"), Selecting(p), ~moved[p]
             PROVE  \E d \in 0..Printed : selectedText(c, p, op.hist) = Between(c, p, d)
  BY DEF CopiesSelection
<1>1. /\ ~Free /\ op.at = "copy"
  BY DEF At
<1>2. /\ Fits(op) /\ p \in Panes /\ PanesOK
      /\ op.from \in Nat /\ op.hist \in Nat
      /\ Shown(c, chosen[p], moved[p], p)
  BY <1>1, Running DEF IInv
<1>3. /\ cols(p) \in Nat \ {0} /\ rows(p) \in Nat \ {0}
      /\ total[p] \in Nat /\ histLen[p] \in Nat
  BY <1>2, Numbers
<1>4. /\ c \in CopyStates /\ c.offset \in Nat /\ c.seen \in Nat /\ c.cx \in Nat /\ c.cy \in Nat
      /\ c.ax \in Nat /\ c.aLine \in Int
      /\ c.seen <= total[p] /\ c.cy <= rows(p) - 1 /\ c.rows = rows(p)
  BY <1>2, ViewNumbers DEF Shown
<1>5. c.aLine <= c.seen + rows(p) - 1 /\ c.ax < cols(p) /\ c.cx < cols(p)
  BY <1>2, <1>4 DEF Shown, AnchorOn, Selecting
<1>6. op.hist <= histLen[p] /\ op.from <= c.seen
  BY <1>1, <1>2 DEF Fits
<1>7. D \in Nat /\ D \in 0..Printed
  BY <1>2, <1>3, <1>4, <1>6 DEF Printed
<1> DEFINE cursor == lineAt(c, c.cy)
           lo == Lesser(c.aLine, cursor)
           hi == IF c.aLine > cursor THEN c.aLine ELSE cursor
           below == c.seen + c.rows - 1 - hi
           offset == Lesser(below, op.hist)
           n == hi - lo + 1 + below - offset
           view == ScrollbackView(p, offset, n)
           h == hi - lo
           ay == c.aLine - lo
           cy == cursor - lo
           text == selectedText(c, p, op.hist)
<1>8. text = extractText(p, view, c.ax, ay, c.cx, cy)
  BY DEF selectedText
<1>9. Between(c, p, D) = LinesTo(p, lo + D, hi + D)
  BY DEF Between, LinesTo
<1>10. cursor \in Int /\ cursor <= c.seen + rows(p) - 1
  BY <1>3, <1>4 DEF lineAt
<1> HIDE DEF cursor, D, p, text
<1>11. /\ lo \in Int /\ hi \in Int /\ lo <= hi /\ hi <= c.seen + rows(p) - 1
       /\ (ay = 0 /\ cy = h) \/ (ay = h /\ cy = 0)
  BY <1>4, <1>5, <1>10 DEF Lesser
<1> HIDE DEF c, lo, hi, ay, cy
<1>12. below \in Nat /\ below = c.seen + rows(p) - 1 - hi
  BY <1>3, <1>4, <1>11
<1> HIDE DEF below
<1>13. offset \in 0..histLen[p] /\ offset <= below /\ offset \in Nat
  BY <1>2, <1>3, <1>6, <1>12 DEF Lesser
<1> HIDE DEF offset
<1>14. /\ n \in Nat /\ h \in Nat /\ h + 1 <= n
       /\ lo + (total[p] - c.seen) = total[p] + rows(p) - offset - n
  BY <1>3, <1>4, <1>11, <1>12, <1>13
<1>15. D = total[p] - c.seen
  BY DEF D, c
<1>16. lo + D \in Int /\ lo + D = total[p] + rows(p) - offset - n
  BY <1>7, <1>11, <1>14, <1>15
<1>17. (hi + D) - (lo + D) + 1 = h + 1
  BY <1>7, <1>11
<1> HIDE DEF n, h
<1>18. view = LinesFrom(p, lo + D, n)
  BY <1>2, <1>13, <1>14, <1>16, WindowLines, Zenon
<1> HIDE DEF view
<1>19. text = RowsTo(view, h)
  <2>1. EndRows(ay, cy, h)
    BY <1>11 DEF EndRows
  <2>2. c.ax \in 0..(cols(p) - 1) /\ c.cx \in 0..(cols(p) - 1)
    BY <1>3, <1>4, <1>5
  <2> QED BY <1>3, <1>8, <1>14, <2>1, <2>2, ExtractLines
<1>20. RowsTo(view, h) = LinesTo(p, lo + D, hi + D)
  <2>1. ASSUME NEW i \in 1..(h + 1)
        PROVE  (IF i - 1 \in DOMAIN view THEN view[i - 1] ELSE Void) =
               (IF lo + D + i - 1 \in Retained(p) THEN lo + D + i - 1 ELSE Void)
    <3>1. i - 1 \in 0..(n - 1) /\ (lo + D) + (i - 1) = lo + D + i - 1
      BY <1>14, <1>16
    <3> QED BY <1>18, <3>1 DEF LinesFrom
  <2>2. LinesTo(p, lo + D, hi + D) =
          [i \in 1..(h + 1) |-> IF lo + D + i - 1 \in Retained(p) THEN lo + D + i - 1 ELSE Void]
    BY <1>17 DEF LinesTo
  <2> QED BY <2>1, <2>2 DEF RowsTo
<1>21. text = Between(c, p, D)
  BY <1>9, <1>19, <1>20
<1> QED BY <1>7, <1>21 DEF text, c

(* A copy takes the lines between the anchor and the cursor, blank where   *)
(* the ring has evicted them, wherever the view was scrolled to since and  *)
(* whatever the pane printed before; they are shifted by no more than what *)
(* it printed while the copy was being made.                               *)
THEOREM CopyModeCopiesSelection == Spec => []CopiesSelection
BY SpecIInv, SelectionIsBetween, PTL

=============================================================================
