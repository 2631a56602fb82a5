------------------------------ MODULE CopyMode ------------------------------
(***************************************************************************)
(* Copy mode and mouse gestures in one window (copymode.go, mouse.go,      *)
(* pane.go of src/internal/server). Panes print and are resized or closed  *)
(* while keys, wheel notches and the clients' drags move copy-mode views.  *)
(* A line is its number: row y of the live screen is line total + y, and   *)
(* the ring holds the histLen lines before total.                          *)
(*                                                                         *)
(* Handlers run under the session lock, but pump writes to a terminal      *)
(* under that terminal's own lock, which a handler takes anew for each of  *)
(* ScrolledTotal, HistoryLen and ScrollbackView. So a handler of copy mode *)
(* is an operation, op, of one step per such section, and panes print      *)
(* between its steps.                                                      *)
(***************************************************************************)
EXTENDS Integers, Sequences

CONSTANTS
  Panes, Clients,
  NoPane,        \* the zero PaneID
  HistCap,       \* the history limit
  WheelStep,     \* wheelStep, 3 in the code
  Sizes,         \* the sizes <<cols, rows>> of a pane
  AppModes,      \* mouse tracking an app may ask for, "none" among them
  MaxLine,       \* bound: lines a pane scrolls out
  MaxOps         \* bound: the steps of a behaviour

ASSUME PanesAssumption == NoPane \notin Panes /\ Panes # {}
ASSUME SizesAssumption == Sizes # {} /\ Sizes \subseteq ((Nat \ {0}) \X (Nat \ {0}))
ASSUME LimitsAssumption ==
  /\ HistCap \in Nat /\ MaxLine \in Nat /\ MaxOps \in Nat /\ WheelStep \in Nat \ {0}
  /\ "none" \in AppModes /\ AppModes \subseteq {"none", "x10", "button", "motion", "alt"}

VARIABLES
  alive,         \* the window's panes
  active,        \* the focused one, NoPane when none is left
  size,          \* their sizes
  total,         \* scrolledTotal
  histLen,
  copy,          \* copyState, NoCopy outside copy mode
  app,           \* what the pane's app asked for
  ms,            \* each client's mouseState
  op,            \* the handler that holds the session lock, NoOp for none
  report,        \* the last mouse report sent to an app
  pressed,       \* history: the app that got a client's last press, NoPane for none
  moved,         \* history: the pane was resized since its anchor was set
  chosen,        \* history: the line a pane's user scrolled to the top of its view
  ops            \* history: steps taken

copying == <<copy, chosen, moved>>
gestures == <<ms, report, pressed>>
panes == <<alive, size, total, histLen, app>>
vars == <<panes, active, copying, gestures, op, ops>>

NoCopy == <<>>
NoReport == <<>>
NoOp == <<>>
NoCell == <<>>
idle == [sel |-> NoPane, x |-> 0, y |-> 0, selActive |-> FALSE, fwd |-> NoPane, border |-> FALSE]

Init ==
  /\ alive = Panes /\ active \in Panes
  /\ size \in [Panes -> Sizes]
  /\ total = [p \in Panes |-> 0] /\ histLen = [p \in Panes |-> 0]
  /\ copy = [p \in Panes |-> NoCopy] /\ app = [p \in Panes |-> "none"]
  /\ ms = [c \in Clients |-> idle] /\ report = NoReport
  /\ pressed = [c \in Clients |-> NoPane] /\ moved = [p \in Panes |-> FALSE]
  /\ chosen = [p \in Panes |-> 0] /\ op = NoOp /\ ops = 0

cols(p) == size[p][1]
rows(p) == size[p][2]
InCopy(p) == copy[p] # NoCopy
Lesser(a, b) == IF a < b THEN a ELSE b
Clamp(v, lo, hi) == IF v < lo THEN lo ELSE IF v > hi THEN hi ELSE v

-----------------------------------------------------------------------------
(* A pane's scroller, as functions of its copyState c. *)
newCopyState(p) ==
  [offset |-> 0, seen |-> total[p], cx |-> 0, cy |-> rows(p) - 1,
   cols |-> cols(p), rows |-> rows(p), hasSel |-> FALSE, ax |-> 0, aLine |-> 0]

lineAt(c, y) == c.seen + y - c.offset

setAnchor(c, x, y) == [c EXCEPT !.hasSel = TRUE, !.ax = x, !.aLine = lineAt(c, y)]

(* fault: an eviction leaves the offset beyond the history. *)
sync_unclamped(c, t, h) ==
  IF t <= c.seen THEN [c EXCEPT !.seen = t]
  ELSE [c EXCEPT !.seen = t, !.offset = @ + t - c.seen]
(* fault: a view at the live bottom keeps following it. *)
sync_following(c, t, h) ==
  [c EXCEPT !.seen = t, !.offset = IF @ = 0 THEN 0 ELSE Clamp(@ + t - c.seen, 0, h)]

(* The view moves up by what was printed since. *)
sync(c, t, h) ==
  IF t <= c.seen THEN [c EXCEPT !.seen = t]
  ELSE [c EXCEPT !.seen = t, !.offset = Clamp(@ + t - c.seen, 0, h)]

moveVertical(c, h, dir) ==
  IF c.cy + dir < 0 THEN [c EXCEPT !.offset = Clamp(@ + 1, 0, h)]
  ELSE IF c.cy + dir >= c.rows THEN [c EXCEPT !.offset = IF @ > 0 THEN @ - 1 ELSE @]
  ELSE [c EXCEPT !.cy = @ + dir]

Moves == {"oldest", "newest", "up", "down", "right", "left", "pageUp", "pageDown", "mark"}

move(c, h, key) ==
  CASE key = "oldest" -> [c EXCEPT !.offset = h, !.cy = 0]
    [] key = "newest" -> [c EXCEPT !.offset = 0, !.cy = c.rows - 1]
    [] key = "up" -> moveVertical(c, h, -1)
    [] key = "down" -> moveVertical(c, h, 1)
    [] key = "right" -> [c EXCEPT !.cx = IF @ < c.cols - 1 THEN @ + 1 ELSE @]
    [] key = "left" -> [c EXCEPT !.cx = IF @ > 0 THEN @ - 1 ELSE @]
    [] key = "pageUp" -> [c EXCEPT !.offset = Lesser(@ + c.rows, h)]
    [] key = "pageDown" -> [c EXCEPT !.offset = IF @ > c.rows THEN @ - c.rows ELSE 0]
    [] key = "mark" -> setAnchor(c, c.cx, c.cy)

(* The lines of a window of n rows, offset lines above the live bottom; a  *)
(* row outside the history and the screen is blank.                        *)
Void == -1
Retained(p) == (total[p] - histLen[p])..(total[p] + rows(p) - 1)
ScrollbackView(p, offset, n) ==
  LET start == total[p] + rows(p) - Clamp(offset, 0, histLen[p]) - n
  IN  [r \in 0..(n - 1) |-> IF start + r \in Retained(p) THEN start + r ELSE Void]

(* extractText: the lines from the earlier end to the later one. *)
extractText(p, view, ax, ay, bx, by) ==
  LET a == ay * cols(p) + ax
      b == by * cols(p) + bx
      first == Lesser(a, b) \div cols(p)
      last == (IF a > b THEN a ELSE b) \div cols(p)
  IN  [i \in 1..(last - first + 1) |->
         IF first + i - 1 \in DOMAIN view THEN view[first + i - 1] ELSE Void]

(* fault: the window ends at the screen's bottom but is not grown. *)
selectedText_short(c, p, h) ==
  LET cursor == lineAt(c, c.cy)
      lo == Lesser(c.aLine, cursor)
      hi == IF c.aLine > cursor THEN c.aLine ELSE cursor
      below == c.seen + c.rows - 1 - hi
  IN  extractText(p, ScrollbackView(p, Lesser(below, h), hi - lo + 1),
                  c.ax, c.aLine - lo, c.cx, cursor - lo)

(* The offset is clamped to one reading of HistoryLen, the window is taken *)
(* at another.                                                             *)
selectedText(c, p, h) ==
  LET cursor == lineAt(c, c.cy)
      lo == Lesser(c.aLine, cursor)
      hi == IF c.aLine > cursor THEN c.aLine ELSE cursor
      below == c.seen + c.rows - 1 - hi
      offset == Lesser(below, h)
  IN  extractText(p, ScrollbackView(p, offset, hi - lo + 1 + below - offset),
                  c.ax, c.aLine - lo, c.cx, cursor - lo)

-----------------------------------------------------------------------------
Free == op = NoOp
Step == ops < MaxOps /\ ops' = ops + 1

(* What a pane does, and a handler that has at most one such section. *)
Printing == Step /\ UNCHANGED op
Whole == Free /\ Step /\ UNCHANGED op

(* A handler of copy mode begins; one that finds the pane live enters it.  *)
Begin(kind, p, cell) ==
  /\ Free /\ Step
  /\ op' = [kind |-> kind, p |-> p, cell |-> cell, at |-> IF InCopy(p) THEN "total" ELSE "enter",
            from |-> total[p], total |-> 0, hist |-> 0]

(* What panes do. *)
Output(p) ==
  /\ p \in alive /\ app[p] # "alt"
  /\ \E n \in 1..2 :
       /\ total[p] + n <= MaxLine
       /\ total' = [total EXCEPT ![p] = @ + n]
       /\ histLen' = [histLen EXCEPT ![p] = Lesser(@ + n, HistCap)]
  /\ Printing /\ UNCHANGED <<alive, active, size, app, copying, gestures>>

SetMode(p, m) ==
  /\ p \in alive /\ app[p] # m /\ app' = [app EXCEPT ![p] = m]
  /\ Printing /\ UNCHANGED <<alive, active, size, total, histLen, copying, gestures>>

CopyIs(p, c) == copy' = [copy EXCEPT ![p] = c]
Ends(p) == CopyIs(p, NoCopy) /\ chosen' = [chosen EXCEPT ![p] = 0]

(* A shrink slides up to the rows it takes off into the history, as far as *)
(* the emulator's cursor is below the new bottom.                          *)
resize(p, s) ==
  \E slide \in 0..(IF app[p] = "alt" \/ s[2] > rows(p) THEN 0 ELSE rows(p) - s[2]) :
    /\ size' = [size EXCEPT ![p] = s]
    /\ total' = [total EXCEPT ![p] = @ + slide] /\ total'[p] <= MaxLine
    /\ histLen' = [histLen EXCEPT ![p] = Lesser(@ + slide, HistCap)]
    /\ copy' = [copy EXCEPT ![p] =
         IF InCopy(p) THEN [copy[p] EXCEPT !.cols = s[1], !.rows = s[2],
                                           !.cy = Lesser(copy[p].cy, s[2] - 1)]
         ELSE @]
    /\ moved' = [moved EXCEPT ![p] = TRUE]

Resize(p) ==
  /\ p \in alive
  /\ \E s \in Sizes \ {size[p]} : resize(p, s)
  /\ Whole /\ UNCHANGED <<alive, active, app, chosen, gestures>>

(* The pane's child exits and the pane is removed; focus goes to another. *)
Close(p) ==
  /\ p \in alive /\ alive' = alive \ {p}
  /\ Ends(p)
  /\ active' \in IF active # p THEN {active} ELSE IF alive' = {} THEN {NoPane} ELSE alive'
  /\ Whole /\ UNCHANGED <<size, total, histLen, app, gestures, moved>>

-----------------------------------------------------------------------------
(* The sections of a handler. *)
section == UNCHANGED <<panes, active, gestures, ops>>
At(where) == ~Free /\ op.at = where
Acts(kind) == At("act") /\ op.kind = kind
Done == op' = NoOp /\ section

enterCopyPane ==
  /\ At("enter") /\ op' = [op EXCEPT !.at = "total"]
  /\ CopyIs(op.p, newCopyState(op.p)) /\ chosen' = [chosen EXCEPT ![op.p] = total[op.p]]
  /\ section /\ UNCHANGED moved

(* syncCopy: ScrolledTotal, then HistoryLen and sync. *)
readTotal ==
  /\ At("total") /\ op' = [op EXCEPT !.at = "history", !.total = total[op.p]]
  /\ section /\ UNCHANGED copying

syncCopy ==
  /\ At("history") /\ op' = [op EXCEPT !.at = "act", !.total = 0]
  /\ CopyIs(op.p, sync(copy[op.p], op.total, histLen[op.p]))
  /\ section /\ UNCHANGED <<chosen, moved>>

(* views: a synced pane is drawn with ScrollbackView. *)
Draw(p) ==
  /\ p \in alive /\ InCopy(p) /\ Begin("draw", p, NoCell)
  /\ UNCHANGED <<panes, active, copying, gestures>>

drawn == Acts("draw") /\ Done /\ UNCHANGED copying

(* Keys and commands go to the focused pane. *)
enterCopy ==
  /\ active # NoPane /\ ~InCopy(active) /\ CopyIs(active, newCopyState(active))
  /\ chosen' = [chosen EXCEPT ![active] = total[active]]
  /\ Whole /\ UNCHANGED <<panes, active, gestures, moved>>

copyKey ==
  /\ active # NoPane /\ InCopy(active)
  /\ \/ \E key \in Moves : Begin(key, active, NoCell)
     \/ copy[active].hasSel /\ Begin("yank", active, NoCell)
  /\ UNCHANGED <<panes, active, copying, gestures>>

Scrolls(p, c) ==
  /\ CopyIs(p, c)
  /\ chosen' = [chosen EXCEPT ![p] = IF c.offset = copy[p].offset THEN @ ELSE lineAt(c, 0)]

moveKey ==
  /\ \E key \in Moves : Acts(key)
  /\ Done /\ Scrolls(op.p, move(copy[op.p], histLen[op.p], op.kind))
  /\ moved' = [moved EXCEPT ![op.p] = @ /\ op.kind # "mark"]

(* A yank: selectedText, of HistoryLen and then ScrollbackView. *)
measure ==
  /\ Acts("yank") /\ op' = [op EXCEPT !.at = "copy", !.hist = histLen[op.p]]
  /\ section /\ UNCHANGED copying

copied == At("copy") /\ Done /\ Ends(op.p) /\ UNCHANGED moved

(* q and Esc, or y and Enter with nothing marked: what was synced before   *)
(* is dropped with the rest.                                               *)
leaveCopy ==
  /\ active # NoPane /\ InCopy(active) /\ Ends(active)
  /\ Whole /\ UNCHANGED <<panes, active, gestures, moved>>

-----------------------------------------------------------------------------
(* The mouse. *)
wantsMouseTracking(p) == app[p] \in {"x10", "button", "motion"}
ReportsDrag(p) == app[p] = "motion"
ReportsRelease(p) == app[p] \in {"button", "motion"}

Report(c, kind, p) == report' = <<c, kind, p>>
MouseIs(c, s) == ms' = [ms EXCEPT ![c] = s]

(* A notch focuses the pane; its app gets it as a report or as arrows.     *)
routeWheel(p) ==
  /\ p \in alive /\ active' = p
  /\ \/ ~InCopy(p) /\ Whole
     \/ (InCopy(p) \/ app[p] = "none") /\ Begin("wheelUp", p, NoCell)
     \/ InCopy(p) /\ Begin("wheelDown", p, NoCell)
  /\ UNCHANGED <<panes, copying, gestures>>

wheelUp ==
  /\ Acts("wheelUp") /\ Done /\ UNCHANGED moved
  /\ Scrolls(op.p, [copy[op.p] EXCEPT !.offset = Lesser(@ + WheelStep, histLen[op.p])])

wheelDown ==
  /\ Acts("wheelDown") /\ Done /\ UNCHANGED moved
  /\ IF copy[op.p].offset <= WheelStep THEN Ends(op.p)
     ELSE Scrolls(op.p, [copy[op.p] EXCEPT !.offset = @ - WheelStep])

(* fault: the last press's app is kept. *)
pressDivider_kept(c) ==
  /\ MouseIs(c, [ms[c] EXCEPT !.sel = NoPane, !.selActive = FALSE, !.border = TRUE])
  /\ active' \in alive \cup {active}
  /\ pressed' = [pressed EXCEPT ![c] = NoPane]
  /\ Whole /\ UNCHANGED <<panes, copying, report>>

(* A press on a divider starts a border drag; a title line on it focuses   *)
(* its pane.                                                               *)
pressDivider(c) ==
  /\ MouseIs(c, [idle EXCEPT !.border = (\E p, q \in alive : p # q)])
  /\ active' \in alive \cup {active}
  /\ pressed' = [pressed EXCEPT ![c] = NoPane]
  /\ Whole /\ UNCHANGED <<panes, copying, report>>

pressPane(c, p) ==
  /\ active' = p
  /\ \/ /\ ~InCopy(p) /\ wantsMouseTracking(p)
        /\ Report(c, "press", p) /\ MouseIs(c, [idle EXCEPT !.fwd = p])
        /\ pressed' = [pressed EXCEPT ![c] = p]
     \/ /\ \/ MouseIs(c, idle)                  \* another button, or beyond X10's cells
           \/ /\ InCopy(p) \/ ~wantsMouseTracking(p)                \* the left button
              /\ \E x \in 0..(cols(p) - 1), y \in 0..(rows(p) - 1) :
                   MouseIs(c, [idle EXCEPT !.sel = p, !.x = x, !.y = y])
        /\ pressed' = [pressed EXCEPT ![c] = NoPane] /\ UNCHANGED report
  /\ Whole /\ UNCHANGED <<panes, copying>>

routePress(c) == pressDivider(c) \/ \E p \in alive : pressPane(c, p)

(* The first move off the pressed cell enters copy mode, anchored there;   *)
(* then, and on every later one, the cursor goes to the pointer.           *)
dropSelect(c) ==
  /\ MouseIs(c, [ms[c] EXCEPT !.sel = NoPane, !.selActive = FALSE])
  /\ Whole /\ UNCHANGED copying

startSelect(c) ==
  LET p == ms[c].sel IN
  /\ ~ms[c].selActive /\ MouseIs(c, [ms[c] EXCEPT !.selActive = TRUE])
  /\ \E x \in 0..(cols(p) - 1), y \in 0..(rows(p) - 1) : <<x, y>> # <<ms[c].x, ms[c].y>>
  /\ Begin("select", p, <<ms[c].x, ms[c].y>>) /\ UNCHANGED copying

extendSelect(c) ==
  LET p == ms[c].sel IN
  /\ ms[c].selActive
  /\ IF InCopy(p) THEN Begin("point", p, NoCell) /\ UNCHANGED <<copying, ms>> ELSE dropSelect(c)

dragSelect(c) ==
  LET p == ms[c].sel IN
  /\ p # NoPane
  /\ \/ p \notin alive /\ dropSelect(c)
     \/ p \in alive /\ (startSelect(c) \/ extendSelect(c))
  /\ UNCHANGED <<panes, active, report, pressed>>

anchored ==
  LET c == copy[op.p] IN
  /\ Acts("select") /\ op' = [op EXCEPT !.kind = "point", !.at = "total"]
  /\ CopyIs(op.p, setAnchor(c, Lesser(op.cell[1], c.cols - 1), Lesser(op.cell[2], c.rows - 1)))
  /\ moved' = [moved EXCEPT ![op.p] = FALSE]
  /\ section /\ UNCHANGED chosen

(* (x, y) is the pointer, clamped to the pane. *)
pointed ==
  /\ Acts("point") /\ Done /\ UNCHANGED <<chosen, moved>>
  /\ \E x \in 0..(cols(op.p) - 1), y \in 0..(rows(op.p) - 1) :
       <<x, y>> # op.cell /\ CopyIs(op.p, [copy[op.p] EXCEPT !.cx = x, !.cy = y])

dragReport(c) ==
  /\ ms[c].sel = NoPane /\ ms[c].fwd \in alive /\ ~InCopy(ms[c].fwd) /\ ReportsDrag(ms[c].fwd)
  /\ Report(c, "drag", ms[c].fwd)
  /\ Whole /\ UNCHANGED <<panes, active, copying, ms, pressed>>

(* A border drag resizes the panes beside it. *)
dragBorder(c) ==
  /\ ms[c].sel = NoPane /\ ms[c].fwd = NoPane /\ ms[c].border
  /\ \E p \in alive : \E s \in Sizes \ {size[p]} : resize(p, s)
  /\ Whole /\ UNCHANGED <<alive, active, app, chosen, gestures>>

(* finishSelect: the text is copied, as by a yank. *)
releaseSelect(c) ==
  LET p == ms[c].sel IN
  /\ p # NoPane /\ MouseIs(c, [idle EXCEPT !.fwd = ms[c].fwd])
  /\ IF ms[c].selActive /\ p \in alive /\ InCopy(p) THEN Begin("yank", p, NoCell) ELSE Whole
  /\ UNCHANGED <<panes, active, copying, report, pressed>>

releasePress(c) ==
  LET p == ms[c].fwd IN
  /\ ms[c].sel = NoPane /\ MouseIs(c, idle)
  /\ IF p \in alive /\ ~InCopy(p) /\ ReportsRelease(p) THEN Report(c, "release", p)
                                                       ELSE UNCHANGED report
  /\ Whole /\ UNCHANGED <<panes, active, copying, pressed>>

(* A client that goes to another session forgets its gesture. *)
forget(c) ==
  /\ ms[c] # idle /\ MouseIs(c, idle)
  /\ Whole /\ UNCHANGED <<panes, active, copying, report, pressed>>

mouseAs(c) ==
  \/ routePress(c) \/ dragSelect(c) \/ dragReport(c) \/ dragBorder(c)
  \/ releaseSelect(c) \/ releasePress(c) \/ forget(c)

handler ==
  \/ enterCopyPane \/ readTotal \/ syncCopy \/ drawn \/ moveKey \/ measure \/ copied
  \/ wheelUp \/ wheelDown \/ anchored \/ pointed

Next ==
  \/ \E p \in Panes : \/ Output(p) \/ Resize(p) \/ Close(p) \/ routeWheel(p) \/ Draw(p)
                      \/ \E m \in AppModes : SetMode(p, m)
  \/ enterCopy \/ copyKey \/ leaveCopy
  \/ \E c \in Clients : mouseAs(c)
  \/ handler

Spec == Init /\ [][Next]_vars

-----------------------------------------------------------------------------
(* Properties. *)

(* A copy-mode view fits its pane and the history: the scroll offset never *)
(* passes the oldest line, the cursor row is on the view, however panes    *)
(* print, in the middle of a handler too, shrink and are dragged over; and *)
(* a handler that is in copy mode does not lose it.                        *)
TypeOK ==
  /\ alive \subseteq Panes /\ (active \in alive \/ alive = {})
  /\ \A p \in Panes : histLen[p] <= Lesser(total[p], HistCap)
  /\ \A p \in Panes : InCopy(p) =>
       LET c == copy[p] IN
       /\ p \in alive /\ c.cols = cols(p) /\ c.rows = rows(p)
       /\ c.offset \in 0..histLen[p] /\ c.seen <= total[p]
       /\ c.cy \in 0..(rows(p) - 1) /\ c.cx >= 0
  /\ ~Free => op.p \in alive /\ (InCopy(op.p) \/ op.at = "enter") /\ op.total <= total[op.p]

Oldest(p) == total[p] - histLen[p]

(* What the pane of a handler printed since the handler began. *)
Printed == total[op.p] - op.from

(* What is looked at stays put while a pane prints: however often its view *)
(* was synced since, a frame starts at the line the user scrolled to, or   *)
(* at the oldest one when the ring has evicted that. It is off by no more  *)
(* than what the pane printed while this frame was being drawn, and the    *)
(* next frame is not off by that.                                          *)
ViewStays ==
  Acts("draw") =>
    LET p == op.p
        top == ScrollbackView(p, copy[p].offset, copy[p].rows)[0]
    IN  \/ top - chosen[p] \in 0..Printed
        \/ chosen[p] < Oldest(p) /\ top - Oldest(p) \in 0..Printed

(* The lines from the anchor to the cursor, d lines further down, blank    *)
(* when evicted.                                                           *)
Between(c, p, d) ==
  LET cursor == lineAt(c, c.cy)
      lo == Lesser(c.aLine, cursor) + d
      hi == (IF c.aLine > cursor THEN c.aLine ELSE cursor) + d
  IN  [i \in 1..(hi - lo + 1) |-> IF lo + i - 1 \in Retained(p) THEN lo + i - 1 ELSE Void]

(* A pane made narrower keeps the cursor's column: the cursor, and a mark  *)
(* made there, may be off its right edge.                                  *)
Selecting(p) ==
  InCopy(p) /\ copy[p].hasSel /\ copy[p].ax < cols(p) /\ copy[p].cx < cols(p)

(* A copy takes what lies between the anchor and the cursor, wherever the  *)
(* view was scrolled to since the anchor was set, as long as the pane kept *)
(* its size. A pane that prints while it is being copied from shifts the   *)
(* lines by what it printed meanwhile, and by no more.                     *)
CopiesSelection ==
  At("copy") /\ Selecting(op.p) /\ ~moved[op.p] =>
    \E d \in 0..Printed :
      selectedText(copy[op.p], op.p, op.hist) = Between(copy[op.p], op.p, d)

(* An app that gets a drag or a release got the press it belongs to: the   *)
(* gesture stays with the pane it began on, past closes, mode changes and  *)
(* copy mode.                                                              *)
ReportsFollowPress ==
  [][report' # report /\ report'[2] # "press" => report'[3] = pressed[report'[1]]]_vars
=============================================================================
