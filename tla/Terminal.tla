------------------------------ MODULE Terminal ------------------------------
(***************************************************************************)
(* A pane's emulator with its scrollback (src/internal/vterm over          *)
(* src/internal/vt10x). The pane's pump writes what the child prints, a    *)
(* resize comes from the server, the broadcaster takes a snapshot of a     *)
(* dirty pane, and the clock ends a synchronized update that lasts.        *)
(***************************************************************************)
EXTENDS Screen

CONSTANTS
  Sizes,         \* the sizes <<cols, rows>> a pane is given
  HistLimits,    \* the history limits a pane may be configured with
  Counts,        \* the repeat counts programs send
  MaxText,       \* bound: rows of text printed on the main screen
  MaxOps         \* bound: writes and resizes

ASSUME SizesAssumption == Sizes # {} /\ Sizes \subseteq ((Nat \ {0}) \X (Nat \ {0}))
ASSUME BoundsAssumption ==
  /\ HistLimits \subseteq Nat /\ Counts \subseteq Nat
  /\ MaxText \in Nat /\ MaxOps \in Nat

VARIABLES
  term,          \* vt10x: the screen
  buf,           \* histBuf, histHead, histLen: the ring of scrollback rows
  head,
  len,
  scrolledTotal,
  pending,       \* a rune was cut at the end of the last write
  frozen,        \* the last complete frame while frozenOn, NoFrame when not
  expired,       \* syncTimeout has passed since the update began
  dirty,
  shown,         \* the last frame the broadcaster took
  pushed,        \* history: every row the emulator gave to the scrollback
  before,        \* history: the screen the running update began from
  ops            \* writes and resizes so far

vars == <<term, buf, head, len, scrolledTotal, pending, frozen, expired, dirty,
          shown, pushed, before, ops>>

histCap == Cardinality(DOMAIN buf)
NoFrame == <<>>
Frame(t) == [cols |-> t.cols, lines |-> t.lines, x |-> t.cur.x, y |-> t.cur.y]

Init ==
  \E size \in Sizes, cap \in HistLimits :
    /\ term = NewScreen(size[1], size[2])
    /\ buf = [i \in 0..(cap - 1) |-> Blank] /\ head = 0 /\ len = 0 /\ scrolledTotal = 0
    /\ pending = FALSE
    /\ frozen = NoFrame /\ expired = FALSE
    /\ dirty = TRUE /\ shown = Frame(term)
    /\ pushed = <<>> /\ before = NoFrame /\ ops = 0

-----------------------------------------------------------------------------
(* The ring, as a record: a row goes in the next free slot, or over the    *)
(* oldest.                                                                 *)
(* fault: a full ring overwrites one slot again and again. *)
push_stuck(r, row) ==
  IF histCap = 0 THEN r
  ELSE [buf |-> [r.buf EXCEPT ![(r.head + r.len) % histCap] = row],
        head |-> r.head, len |-> Lesser(r.len + 1, histCap), total |-> r.total + 1]

push(r, row) ==
  IF histCap = 0 THEN r
  ELSE IF r.len < histCap
       THEN [buf |-> [r.buf EXCEPT ![(r.head + r.len) % histCap] = row],
             head |-> r.head, len |-> r.len + 1, total |-> r.total + 1]
       ELSE [buf |-> [r.buf EXCEPT ![r.head] = row],
             head |-> (r.head + 1) % histCap, len |-> r.len, total |-> r.total + 1]

Push(rows) ==
  LET ring[i \in 0..Len(rows)] ==
        IF i = 0 THEN [buf |-> buf, head |-> head, len |-> len, total |-> scrolledTotal]
        ELSE push(ring[i - 1], rows[i])
      r == ring[Len(rows)]
  IN  /\ buf' = r.buf /\ head' = r.head /\ len' = r.len /\ scrolledTotal' = r.total
      /\ pushed' = IF histCap = 0 THEN pushed ELSE pushed \o rows

historyRow(i) == buf[(head + i) % histCap]

(* onSync: an update that begins keeps the frame it begins from. *)
onSync(hook) ==
  /\ frozen' = IF hook = "begin" THEN Frame(term) ELSE IF hook = "end" THEN NoFrame ELSE frozen
  /\ expired' = (expired /\ hook = "none")

(* History: an update is followed from its start to its end, or to a       *)
(* resize or a panic.                                                      *)
Began(t) == before' = IF t.sync /\ ~term.sync THEN Frame(term)
                      ELSE IF t.sync THEN before ELSE NoFrame

Count == ops < MaxOps /\ ops' = ops + 1

(* Write: the screen goes to t, what scrolled out goes to the ring. *)
Wrote(t) ==
  /\ Count
  /\ t.fresh <= MaxText + 1
  /\ term' = [t EXCEPT !.out = <<>>, !.hook = "none"]
  /\ Push(t.out) /\ onSync(t.hook) /\ Began(t)
  /\ pending' = FALSE /\ dirty' = TRUE
  /\ UNCHANGED shown

-----------------------------------------------------------------------------
(* What a program prints. *)
Text == \E width \in {1, 2} : Wrote(parse(term, width))
Repeat == \E n \in Counts : term.last # 0 /\ Wrote(repeatLast(term, n))

(* A write that ends inside a rune keeps the bytes for the next one. *)
SplitRune == /\ Count /\ pending' = TRUE /\ dirty' = TRUE
             /\ UNCHANGED <<term, buf, head, len, scrolledTotal, frozen, expired, shown, pushed,
                            before>>

LineFeed == Wrote(newline(term, term.crlf))
NextLine == Wrote(newline(term, TRUE))
Index == Wrote(IND(term))
ReverseIndex == Wrote(RI(term))

(* CR, BS, CUU to CUB, CNL, CPL, CHA, VPR: relative or absolute in column. *)
CursorBy == \E x \in -1..term.cols, y \in -1..term.rows : Wrote(moveTo(term, x, y))
(* CUP, HVP, VPA *)
CursorTo == \E x \in -1..term.cols, y \in -1..term.rows : Wrote(moveAbsTo(term, x, y))

Tab == \E forward \in BOOLEAN, n \in Counts : Wrote(putTabs(term, forward, n))
SetTab == Wrote([term EXCEPT !.tabs = term.tabs \cup {term.cur.x}])
ClearTab == \/ Wrote([term EXCEPT !.tabs = term.tabs \ {term.cur.x}])
            \/ Wrote([term EXCEPT !.tabs = {}])

Erase == \E arg \in 0..2 : Wrote(ED(term, arg)) \/ Wrote(EL(term, arg))
EditRow == \E n \in Counts : \/ Wrote(ECH(term, n))
                             \/ Wrote(insertBlanks(term, n))
                             \/ Wrote(deleteChars(term, n))
ScrollUp == \E n \in Counts : Wrote(scrollUpHistory(term, n))
ScrollDown == \E n \in Counts : Wrote(scrollDown(term, term.top, n))
InsertLines == \E n \in Counts : Wrote(insertBlankLines(term, n))
DeleteLines == \E n \in Counts : Wrote(deleteLines(term, n))
Alignment == Wrote(alignmentTest(term))

SetRegion == \E a, b \in -1..(term.rows - 1) : Wrote(moveAbsTo(setScroll(term, a, b), 0, 0))
SaveCursor == Wrote(saveCursor(term))
RestoreCursor == Wrote(restoreCursor(term))
Reset == Wrote(reset(term))

setMode(set) ==
  \/ Wrote(setOrigin(term, set))
  \/ Wrote([term EXCEPT !.wrap = set])
  \/ Wrote([term EXCEPT !.insert = set])
  \/ Wrote([term EXCEPT !.crlf = set])
  \/ Wrote(setSync(term, set))
  \/ Wrote(setAlt(term, set))
  \/ Wrote(setSaved(term, set))
  \/ Wrote(setAltSaved(term, set))

(* A panic in the emulator is contained: a blank one takes its place. *)
Panic ==
  /\ Count
  /\ term' = [NewScreen(term.cols, term.rows) EXCEPT !.fresh = term.fresh]
  /\ pending' = FALSE /\ dirty' = TRUE
  /\ frozen' = NoFrame /\ expired' = FALSE /\ before' = NoFrame
  /\ UNCHANGED <<buf, head, len, scrolledTotal, shown, pushed>>

Resize ==
  \E size \in Sizes : LET t == resize(term, size[1], size[2]) IN
    /\ Count
    /\ term' = [t EXCEPT !.out = <<>>]
    /\ Push(t.out)
    /\ frozen' = NoFrame /\ expired' = FALSE /\ before' = NoFrame
    /\ dirty' = TRUE
    /\ UNCHANGED <<pending, shown>>

(* fault: a pane drawn from its kept frame counts as drawn. *)
SnapshotInto_clean ==
  /\ dirty /\ dirty' = FALSE
  /\ shown' = IF frozen # NoFrame /\ ~expired THEN frozen ELSE Frame(term)
  /\ UNCHANGED <<term, buf, head, len, scrolledTotal, pending, frozen, expired, pushed,
                 before, ops>>

(* The broadcaster draws a pane that changed. *)
SnapshotInto ==
  /\ dirty
  /\ IF frozen # NoFrame /\ ~expired THEN shown' = frozen /\ dirty' = TRUE
                                      ELSE shown' = Frame(term) /\ dirty' = FALSE
  /\ UNCHANGED <<term, buf, head, len, scrolledTotal, pending, frozen, expired, pushed,
                 before, ops>>

Timeout ==
  /\ frozen # NoFrame /\ ~expired /\ expired' = TRUE
  /\ UNCHANGED <<term, buf, head, len, scrolledTotal, pending, frozen, dirty, shown, pushed,
                 before, ops>>

Write ==
  \/ Text \/ Repeat \/ SplitRune
  \/ LineFeed \/ NextLine \/ Index \/ ReverseIndex \/ CursorBy \/ CursorTo
  \/ Tab \/ SetTab \/ ClearTab
  \/ Erase \/ EditRow \/ ScrollUp \/ ScrollDown \/ InsertLines \/ DeleteLines \/ Alignment
  \/ SetRegion \/ SaveCursor \/ RestoreCursor \/ Reset
  \/ \E set \in BOOLEAN : setMode(set)
  \/ Panic

Next == Write \/ Resize \/ SnapshotInto \/ Timeout

Spec == Init /\ [][Next]_vars /\ WF_vars(SnapshotInto) /\ WF_vars(Timeout)

-----------------------------------------------------------------------------
(* Properties. *)

CursorOn(t, c) == c.x \in 0..(t.cols - 1) /\ c.y \in 0..(t.rows - 1)

(* Every row, column and tab index the handlers use exists, whatever       *)
(* sequence of controls, modes and resizes came before; in origin mode the *)
(* cursor never leaves the scroll region.                                  *)
TypeOK ==
  /\ DOMAIN term.lines = Rows(term) /\ DOMAIN term.alt = Rows(term)
  /\ CursorOn(term, term.cur)
  /\ 0 <= term.top /\ term.top <= term.bottom /\ term.bottom < term.rows
  /\ term.cur.origin => InRegion(term)
  /\ term.tabs \subseteq 0..(term.cols - 1)
  /\ len \in 0..histCap /\ (histCap = 0 \/ head \in 0..(histCap - 1))

(* The scrollback holds the newest rows that scrolled out, oldest first,   *)
(* as many as the ring keeps.                                              *)
HistoryIsTail ==
  /\ scrolledTotal = Len(pushed)
  /\ len = Lesser(histCap, Len(pushed))
  /\ \A i \in 0..(len - 1) : historyRow(i) = pushed[Len(pushed) - len + i + 1]

(* The main screen's rows, wherever the swaps left them. *)
Main == IF term.altOn THEN term.alt ELSE term.lines

(* Alternate-screen text never reaches the scrollback, and no row of text  *)
(* is kept twice, on the main screen and in the scrollback or in two rows. *)
ScrollbackIsMain ==
  /\ AltText \notin ToSet(pushed)
  /\ \A i, j \in DOMAIN pushed : i # j /\ pushed[i] # Blank => pushed[i] # pushed[j]
  /\ \A i \in DOMAIN pushed, y \in Rows(term) : pushed[i] # Blank => Main[y] # pushed[i]

(* While an update is drawn, a snapshot shows the frame it began from;     *)
(* outside one, however it ended, the screen as it is.                     *)
UpdateIsHidden ==
  [][SnapshotInto => /\ before # NoFrame /\ ~expired => shown' = before
                     /\ ~term.sync => shown' = Frame(term)]_vars

(* A pane is never left behind: what it printed is shown in the end, even  *)
(* when the program never ends its update.                                 *)
ScreenIsShown == <>[](shown = Frame(term))
=============================================================================
