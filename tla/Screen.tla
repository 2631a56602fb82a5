------------------------------- MODULE Screen -------------------------------
(***************************************************************************)
(* The emulator's grid (src/internal/vt10x): what each control function    *)
(* does to the rows, the cursor, the scroll region and the two buffers.    *)
(* A row is the identity of the text on it, Blank when nothing is; which   *)
(* cells of a row are set, colours and attributes are left out, so erasing *)
(* part of a row leaves its identity.                                      *)
(***************************************************************************)
EXTENDS Integers, Sequences, SequencesExt

CONSTANT TabStep     \* tabspaces, 8 in the code

Blank == 0           \* a row with nothing on it
AltText == -1        \* any text written on the alternate screen

Clamp(v, lo, hi) == IF v < lo THEN lo ELSE IF v > hi THEN hi ELSE v
Lesser(a, b) == IF a < b THEN a ELSE b
Greater(a, b) == IF a > b THEN a ELSE b

Rows(t) == 0..(t.rows - 1)
BlankRows(n) == [y \in 0..(n - 1) |-> Blank]

defaultCursor == [x |-> 0, y |-> 0, wrapNext |-> FALSE, origin |-> FALSE]

DefaultTabs(cols) == {i \in 1..(cols - 1) : i % TabStep = 0}

(* out: the rows onScrollOut was called with; hook: the call of onSync;    *)
(* last: the width of the last glyph; fresh: the next row of text.         *)
NewScreen(cols, rows) ==
  [cols |-> cols, rows |-> rows, lines |-> BlankRows(rows), alt |-> BlankRows(rows),
   cur |-> defaultCursor, saved |-> defaultCursor, top |-> 0, bottom |-> rows - 1,
   altOn |-> FALSE, wrap |-> TRUE, insert |-> FALSE, crlf |-> FALSE, sync |-> FALSE,
   tabs |-> DefaultTabs(cols), last |-> 0, fresh |-> 1, out |-> <<>>, hook |-> "none"]

(* A move keeps to the scroll region in origin mode, to the screen if not. *)
moveTo(t, x, y) ==
  LET lo == IF t.cur.origin THEN t.top ELSE 0
      hi == IF t.cur.origin THEN t.bottom ELSE t.rows - 1
  IN  [t EXCEPT !.cur = [x |-> Clamp(x, 0, t.cols - 1), y |-> Clamp(y, lo, hi),
                         wrapNext |-> FALSE, origin |-> t.cur.origin]]

moveAbsTo(t, x, y) == moveTo(t, x, IF t.cur.origin THEN y + t.top ELSE y)

saveCursor(t) == [t EXCEPT !.saved = t.cur]
restoreCursor(t) == moveTo([t EXCEPT !.cur = t.saved], t.saved.x, t.saved.y)

(* The corners come in any order and are clamped; a row is blank again     *)
(* when its whole width is cleared.                                        *)
clear(t, x0, y0, x1, y1) ==
  LET wide == /\ Clamp(Lesser(x0, x1), 0, t.cols - 1) = 0
              /\ Clamp(Greater(x0, x1), 0, t.cols - 1) = t.cols - 1
      lo == Clamp(Lesser(y0, y1), 0, t.rows - 1)
      hi == Clamp(Greater(y0, y1), 0, t.rows - 1)
  IN  [t EXCEPT !.lines = [y \in Rows(t) |-> IF wide /\ y \in lo..hi THEN Blank ELSE t.lines[y]]]

clearAll(t) == clear(t, 0, 0, t.cols - 1, t.rows - 1)

swapScreen(t) == [t EXCEPT !.lines = t.alt, !.alt = t.lines, !.altOn = ~t.altOn]

setScroll(t, a, b) ==
  LET top == Clamp(a, 0, t.rows - 1)
      bottom == Clamp(b, 0, t.rows - 1)
  IN  [t EXCEPT !.top = Lesser(top, bottom), !.bottom = Greater(top, bottom)]

(* The rows a scroll clears are rotated to where the others come from. A   *)
(* scroll by 0 still clears: the corners it passes are in the wrong order. *)
scrollDown(t, orig, n0) ==
  LET n == Clamp(n0, 0, t.bottom - orig + 1)
      c == clear(t, 0, t.bottom - n + 1, t.cols - 1, t.bottom)
  IN  [c EXCEPT !.lines = [y \in Rows(t) |->
         IF y \in (orig + n)..t.bottom THEN c.lines[y - n]
         ELSE IF y \in orig..(orig + n - 1) THEN Blank ELSE c.lines[y]]]

scrollUp(t, orig, n0) ==
  LET n == Clamp(n0, 0, t.bottom - orig + 1)
      c == clear(t, 0, orig, t.cols - 1, orig + n - 1)
  IN  [c EXCEPT !.lines = [y \in Rows(t) |->
         IF y \in orig..(t.bottom - n) THEN c.lines[y + n]
         ELSE IF y \in (t.bottom - n + 1)..t.bottom THEN Blank ELSE c.lines[y]]]

TopRows(t, n) == [i \in 1..n |-> t.lines[i - 1]]

(* fault: the alternate screen scrolls into the scrollback too. *)
WholeMain_any(t) == t.top = 0 /\ t.bottom = t.rows - 1
WholeMain(t) == ~t.altOn /\ t.top = 0 /\ t.bottom = t.rows - 1

scrollUpHistory(t, n) ==
  LET emit == IF WholeMain(t) THEN Clamp(n, 0, t.bottom - t.top + 1) ELSE 0
  IN  [scrollUp(t, t.top, n) EXCEPT !.out = t.out \o TopRows(t, emit)]

newline(t, firstCol) ==
  LET x == IF firstCol THEN 0 ELSE t.cur.x
  IN  IF t.cur.y = t.bottom THEN moveTo(scrollUpHistory(t, 1), x, t.cur.y)
                            ELSE moveTo(t, x, t.cur.y + 1)

(* The first cell written on a blank row starts a new row of text. *)
setChar(t, y) ==
  IF t.lines[y] # Blank THEN t
  ELSE IF t.altOn THEN [t EXCEPT !.lines = [t.lines EXCEPT ![y] = AltText]]
  ELSE [t EXCEPT !.lines = [t.lines EXCEPT ![y] = t.fresh], !.fresh = t.fresh + 1]

insertBlanks(t, n0) ==
  LET n == Clamp(n0, 1, t.cols)
      last == IF t.cur.x + n >= t.cols THEN t.cols - 1 ELSE t.cur.x + n - 1
  IN  clear(t, t.cur.x, t.cur.y, last, t.cur.y)

deleteChars(t, n0) ==
  LET n == Clamp(n0, 1, t.cols)
      first == IF t.cur.x + n >= t.cols THEN t.cur.x ELSE t.cols - n
  IN  clear(t, first, t.cur.y, t.cols - 1, t.cur.y)

InRegion(t) == t.cur.y \in t.top..t.bottom

insertBlankLines(t, n) == IF InRegion(t) THEN scrollDown(t, t.cur.y, n) ELSE t
deleteLines(t, n) == IF InRegion(t) THEN scrollUp(t, t.cur.y, n) ELSE t

-----------------------------------------------------------------------------
(* Text. A glyph is 1 or 2 columns wide; one in the last column leaves the *)
(* cursor there and wraps when the next one comes.                         *)
Wrapped(t, width) ==
  LET a == IF t.wrap /\ t.cur.wrapNext THEN newline(t, TRUE) ELSE t
  IN  IF width = 2 /\ a.cur.x = a.cols - 1 THEN newline(a, TRUE) ELSE a

parse(t, width) ==
  LET w == Wrapped(t, width)
      i == IF w.insert THEN insertBlanks(w, width) ELSE w
      s == [setChar(i, i.cur.y) EXCEPT !.last = width]
      step == IF width = 2 /\ s.cur.x + 1 < s.cols THEN 2 ELSE 1
  IN  IF s.cur.x + step < s.cols THEN moveTo(s, s.cur.x + step, s.cur.y)
                                 ELSE [s EXCEPT !.cur = [s.cur EXCEPT !.wrapNext = TRUE]]

(* REP, bounded by the cells of the screen. *)
repeatLast(t, n) ==
  LET m == Lesser(n, t.cols * t.rows)
      after[i \in 0..m] == IF i = 0 THEN t ELSE parse(after[i - 1], t.last)
  IN  after[m]

(* Tab stops: the next one, or the margin. *)
putTab(t, forward) ==
  LET ahead == {x \in t.tabs : x > t.cur.x} \cup {t.cols}
      behind == {x \in t.tabs : x < t.cur.x} \cup {0}
  IN  IF forward THEN moveTo(t, Min(ahead), t.cur.y)
      ELSE IF t.cur.x = 0 THEN t ELSE moveTo(t, Max(behind), t.cur.y)

putTabs(t, forward, n) ==
  LET m == Lesser(n, t.cols)
      after[i \in 0..m] == IF i = 0 THEN t ELSE putTab(after[i - 1], forward)
  IN  after[m]

IND(t) == IF t.cur.y = t.bottom THEN scrollUpHistory(t, 1) ELSE moveTo(t, t.cur.x, t.cur.y + 1)
RI(t) == IF t.cur.y = t.top THEN scrollDown(t, t.top, 1) ELSE moveTo(t, t.cur.x, t.cur.y - 1)

ED(t, arg) ==
  LET below == clear(t, t.cur.x, t.cur.y, t.cols - 1, t.cur.y)
      above == IF t.cur.y > 1 THEN clear(t, 0, 0, t.cols - 1, t.cur.y - 1) ELSE t
  IN  IF arg = 0 THEN IF t.cur.y < t.rows - 1
                      THEN clear(below, 0, t.cur.y + 1, t.cols - 1, t.rows - 1) ELSE below
      ELSE IF arg = 1 THEN clear(above, 0, t.cur.y, t.cur.x, t.cur.y)
      ELSE clearAll(t)

EL(t, arg) == clear(t, IF arg = 0 THEN t.cur.x ELSE 0, t.cur.y,
                    IF arg = 1 THEN t.cur.x ELSE t.cols - 1, t.cur.y)
ECH(t, n) == clear(t, t.cur.x, t.cur.y, t.cur.x + Greater(n, 1) - 1, t.cur.y)

(* DECALN fills the screen: every row holds text after it. *)
alignmentTest(t) ==
  LET after[i \in 0..t.rows] == IF i = 0 THEN t ELSE setChar(after[i - 1], i - 1)
  IN  after[t.rows]

-----------------------------------------------------------------------------
(* Modes. *)
setOrigin(t, set) == moveAbsTo([t EXCEPT !.cur = [t.cur EXCEPT !.origin = set]], 0, 0)

(* 47, 1047: leaving clears the alternate screen; a reset on the main      *)
(* screen swaps too.                                                       *)
setAlt(t, set) ==
  LET c == IF t.altOn THEN clearAll(t) ELSE t
  IN  IF ~set \/ ~t.altOn THEN swapScreen(c) ELSE c

setSaved(t, set) == IF set THEN saveCursor(t) ELSE restoreCursor(t)   \* 1048
setAltSaved(t, set) == setSaved(setAlt(t, set), set)                    \* 1049

(* fault: an update that begins again is told of again. *)
setSync_again(t, set) == [t EXCEPT !.sync = set, !.hook = IF set THEN "begin" ELSE "end"]

(* 2026: the hook is told of a change only. *)
setSync(t, set) ==
  [t EXCEPT !.sync = set, !.hook = IF set /\ ~t.sync THEN "begin"
                                   ELSE IF ~set /\ t.sync THEN "end" ELSE "none"]

(* RIS: the buffers stay where they are, whichever was shown. *)
reset(t) ==
  clearAll([NewScreen(t.cols, t.rows) EXCEPT
              !.lines = t.lines, !.alt = t.alt, !.fresh = t.fresh,
              !.hook = setSync(t, FALSE).hook])

(* New tab stops continue from the last old one. *)
TabsAfter(t, cols) ==
  LET from == IF \E x \in t.tabs : x > 0 THEN Max(t.tabs) ELSE 0
  IN  (t.tabs \cap 0..(cols - 1))
        \cup IF cols > t.cols
             THEN {x \in (from + 1)..(cols - 1) : (x - from) % TabStep = 0} ELSE {}

(* fault: the scroll region is kept. *)
resize_inRegion(t, cols, rows) ==
  LET kept(b) == [y \in 0..(rows - 1) |-> IF y < t.rows THEN b[y] ELSE Blank]
  IN  moveTo([t EXCEPT !.cols = cols, !.rows = rows, !.tabs = TabsAfter(t, cols),
                       !.lines = kept(t.lines), !.alt = kept(t.alt)], t.cur.x, t.cur.y)

(* A shrink above the cursor slides both buffers up and hands the rows     *)
(* that leave the main one to the scrollback.                              *)
resize(t, cols, rows) ==
  LET slide == t.cur.y - rows + 1
      by == IF slide > 0 THEN slide ELSE 0
      Slid(b) == [y \in 0..(rows - 1) |-> IF y + by < t.rows THEN b[y + by] ELSE Blank]
      emit == IF t.altOn THEN 0 ELSE by
      r == [t EXCEPT !.cols = cols, !.rows = rows, !.tabs = TabsAfter(t, cols),
                     !.lines = Slid(t.lines), !.alt = Slid(t.alt)]
      same == cols = t.cols /\ rows = t.rows
  IN  IF same \/ cols < 1 \/ rows < 1 THEN t
      ELSE [moveTo(setScroll(r, 0, rows - 1), t.cur.x, t.cur.y) EXCEPT
              !.out = t.out \o TopRows(t, emit)]
=============================================================================
