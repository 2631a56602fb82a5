# TLA+ models of ngmux

ngmux is a terminal multiplexer: a daemon keeps sessions of windows and panes
alive, each pane a shell behind a pseudo-terminal, and clients attach over a
local socket to see and drive them.  This directory holds TLA+ models of the
daemon's core, of the terminal emulator behind each pane, of the attached client
and of starting and stopping, TLC configurations that check them, and proofs for
TLAPS.
Paths below are relative to the repository's root; `S/` stands for
`src/internal/server/`.

## 1. Inventory

| Component | State it keeps | Operations | What is hard, what makes it correct |
|---|---|---|---|
| Session (`S/session.go`, `S/window.go`, `S/pane.go`) | list of windows, `cur`, id counters, per window a split tree, a pane map, `active`, `zoom`; per pane `win`, shell, input queue | spawn, split, kill pane/window, swap, select, zoom, break, join, presets, resize, reap, shutdown | Shells exit on their own; one pump per pane and one reaper race every command and two ways of stopping. Tree, pane map, focus, zoom, routing and `cur` have to stay in step, no shell may be lost. |
| Split tree and geometry (`src/internal/layout/layout.go`) | binary tree of leaves with orientation and ratio | Split, Remove, SwapPanes, Arrange, Neighbor, Compute, Resize | In-place edits of a tree; integer rounding of ratios, minimum sizes. |
| Input queue (`S/input.go`) | chunks, byte count, wake token, closed flag | push, run, close | A writer that may block for ever in a write, lost wakeups, byte accounting across a close in the middle of a write, order. |
| Terminal reply queue (`src/internal/vterm/reply_queue.go`) | partial sequence, bounded channel | Write, run, Close | Sends after its lock is released: races Close, a full channel, a dead writer. |
| Registry (`S/server.go`, session commands in `S/commands.go`, `S/command.go`) | `sessions`, `order`, `clients`, the name each client views | attach, new/kill/rename/next session, a session's own end, quit | Each operation is several lock sections and carries a session or its *name* from one to the next; names are reused. |
| Session sizing (`fitSessions`) | size of each session | fit to the smallest viewer | Collected under the lock, applied after it. |
| Frame delivery (`S/client.go`, `tick` in `S/server.go`) | mailbox of one frame, control queue, `hasShown`, `stale`, timers | send, offerFrame, takeFrame, writeLoop, flush, close | A 30 ms ticker, a writer per client and command goroutines; a frame for the old session against a change of session; a bye against a slow client. |
| Copy mode (`S/copymode.go`), scrollback (`src/internal/vterm`) | anchored view, cursor, selection | key, wheel, sync, selectedText | The text moves under the view while output scrolls and history is evicted; resizes slide rows into it. View and selection have to stay on the text they were put on. |
| Mouse (`S/mouse.go`) | drag gesture per client | press, drag, release, wheel | A gesture outlives the pane, the tracking mode or the copy mode it started in. |
| Attached client (`src/internal/client`) | input buffer, prefix, paste, popups, prompt, passthrough, `overlay` | keys in, frames out | A byte-level state machine with a timeout, next to a reader that must not paint over a popup; a paste must act on nothing and stay whole. |
| Endpoints, daemon start (`src/internal/ipc`, `src/cmd/ngmux`) | the socket file, daemons, waiting commands | Listen, Dial, Remove, `new`, `attach`, stop, crash | Daemons that start, stop and crash share one path. |
| Terminal emulator (`src/internal/vt10x`, `src/internal/vterm`) | two screen buffers, cursor, saved cursor, scroll region, tabs, modes, ring of scrollback, frozen frame | control functions, resize, snapshot, timeout, recovery from a panic | Long sequences of controls and resizes leave rows, columns and buffers of an earlier size behind; updates that begin and never end. |
| Wire protocol (`src/internal/protocol`) | one lock per direction | length and JSON | |
| Rendering, configuration, themes, ptys, terminal I/O, CLI, updates | none or operating-system state | | Formatting, parsing and system calls. |

Interactions.  `Server.mu` is taken before `session.mu`, which is taken before
the locks of clients, terminals and queues.  The goroutines are: one acceptor;
one per connection (`handleConn`, `serveClient`), which runs the commands it
receives; one writer per client; one broadcaster that ticks every 30 ms; one
reaper per session; one pump per pane; one writer per input queue and one per
reply queue.  A shell's exit travels pty -> pump -> `paneExit` channel ->
reaper -> `onEmpty` -> `Server.sessionEmptied` -> `quit` when it was the last.
A command travels client -> connection goroutine -> registry (target) ->
session -> window -> layout.

`PROJECT.json` lists every component with its status, and the hazards of the
code, line by line, with the properties that cover each.

## 2. Modules

| Module | Models | Composes |
|---|---|---|
| `SplitTree` | shape of a split tree as a function from panes to paths | |
| `Window` | the methods of a window on its record | `SplitTree` |
| `Session` | one session: commands, exits, pumps, reaper, the two stoppers | `Window` |
| `SessionProofs` | proofs about `Session`, with the theory of its split trees | |
| `OrderedPipe` | abstract: what an input or reply queue promises | |
| `InputQueue` | the input queue and the close of its pane | implements `OrderedPipe` |
| `ReplyQueue` | the answers of a terminal to its child's queries | implements `OrderedPipe` |
| `InputQueueProofs` | proofs about `InputQueue` | |
| `Registry` | sessions, order, clients, names, reapers, the daemon's end | |
| `RegistryProofs` | proofs about `Registry` | |
| `MCRegistry` | `Registry` with its symmetry set | |
| `Frames` | the tick, the frame mailbox and the writer of the clients | |
| `FramesProofs` | proofs about `Frames` | |
| `ClientWriter` | what one client is sent and how its connection ends | |
| `ClientWriterProofs` | proofs about `ClientWriter` | |
| `Screen` | the control functions of the emulator as operators on its grid | |
| `Terminal`, `MCTerminal` | a pane's emulator: what programs print, resizes, scrollback ring, synchronized updates, snapshots | `Screen` |
| `TerminalProofs` | proofs about `Terminal`, with a lemma for each operator of `Screen` | |
| `CopyMode`, `MCCopyMode` | copy mode and mouse gestures in one window | |
| `CopyModeProofs` | proofs about `CopyMode` | |
| `ClientKeys`, `MCClientKeys` | the attached client's input loop, popups and frame reader | |
| `Startup` | `ngmux new` and `attach` against daemons on one socket path | |
| `StartupProofs` | proofs about `Startup` | |

### Session, Window, SplitTree

Each command, mouse press and reap runs under `session.mu` and is one action.
`window` is the heap of `*window` values (listed or not, because the reaper
and `pane.win` may hold one that has left the list), `windows` the slice,
`cur` the 0-based index as in the code.  A tree is a function from each leaf's
pane to the path of turns that leads to it: `Remove`, which lets the sibling
subtree take the parent's place, then deletes one turn from each sibling path.
Orientation, ratios and sizes are abstracted: whether there is room for a split
is nondeterministic (both answers occur for every tree at some viewport).
Outside of the lock run: a child's exit (`childExit`), its pump's report into
the bounded channel (`reportExit`), the reaper's three moves (`reapOne`,
`reapDead`, `notify`) and the two halves of `shutdown` for each of its two
callers.  `SpawnFails` makes the start of a shell fallible.  Viewport, status
line, window names, paste buffer and copy mode are not in this model.

### InputQueue, OrderedPipe

Each section under `q.mu` is one step, the token sent after it another, and so
are the wait, the write and the accounting after the write.  A chunk is a
record of who pushed it, its number and its length.  A write succeeds while the
pty is open, or fails, or never returns.  `close` may run more than once, as
kill-pane followed by a reap does.  `OrderedPipe` is the promise: accepted
chunks come out in order, at most once; a failed write loses one chunk, and a
stop loses a suffix.

### ReplyQueue

The emulator answers under its own lock, so there is one answer at a time:
`Write` up to the release of `q.mu`, then the send that never waits.  The
delivery goroutine receives, writes, and leaves after a failed write or a
close; answers given after it left fill the channel and are then dropped.  The
pane closes the pty before the queue, which frees a stuck write.

### Registry

A step is one section under `Server.mu`, or one read outside of it; between
them a goroutine keeps what its local variables hold: `conn[c]` is the place of
the goroutine of connection `c`, what it does after that, the name and the
session it holds; `reaper[s]` is the same for a session's reaper.  The section
of `sessionEmptied` includes the `shutdown` and the byes, which run with the
lock held.  `view[c]` becomes `NoName` when a client was sent its bye.  `quit`
and the `shutdownAll` that `Run` makes next are one step that ends the model:
whatever other goroutines do before the process exits ends with it.  Of a
session only name, liveness of its shells and place of its reaper are kept;
`Session` models how the last exit reaches the reaper.

### Frames

What a session would draw is a version number that every change increments; a
frame is a session and a version, and a diff is the pair of frames it leads
from and to.  Every section under a lock that the tick takes is a step of its
own: the snapshot, the question to each client which session it views, the
question to a session whether it is dirty and to its viewers whether they need
a frame, the composition (which lowers the flag) and each offer.  `Client` are
some of the clients: for any other client, and for the minute on the clock, a
session may be composed at any time.  A connection runs a command in up to
three sections: the change under `session.mu`, `markDirty`, `reset`; a change
of session is `setSession`, then the mark of the *old* session, then the reset.
The token in `frameReady` is left out: `offerFrame` leaves one whenever it
fills the mailbox, under the same lock, so a full mailbox always has one and
the writer takes it.  The passthrough mark on the status bar is left out, the
frame it asks for is not.  Control messages, flush and close are in
`ClientWriter`.

### ClientWriter

One client: its control queue, its mailbox (only whether it is full), the
writer goroutine select by select, the connection's goroutine from `serveClient`
to `closeAfterFlush`, the bye that `sessionEmptied` sends with `Server.mu` held,
and `Run`'s way from `quit` to `shutdownAll` and exit, after which nothing moves.
A send to a full queue may wait or give up; a write succeeds while the client's
end is open, never returns while the client does not read, and fails once either
end is closed.  The token of the mailbox is here, and `FrameHasToken` is what
`Frames` relies on when it leaves it out.  `ByeFlushed` is about a wait that the
writer answered: a writer that had not run yet, the timeout, and a daemon that
stops meanwhile do lose the bye.

### Screen, Terminal

`Screen` has one operator per control function of `vt10x`, each from a screen
(a record) to the next.  A row is the identity of the text that is on it:
the first cell written on a blank row of the main screen makes a new one, which
the row keeps wherever it scrolls until its full width is cleared; cells within
a row, colours and attributes are left out.  `out` collects the rows handed to
`onScrollOut`, `hook` the call of `onSync`.  `Terminal` wraps a write of one
control function (`Wrote`) with what vterm does around it: the ring of
scrollback rows (`buf`, `head`, `len` as in the code), the frozen frame of a
synchronized update, `pending` bytes of a cut rune, the dirty flag.  `Resize`,
`SnapshotInto`, `Timeout` and `Panic` (contained by replacing the emulator) are
its other steps.  A write that holds several control functions is a sequence of
`Wrote` steps: the lock is held for all of them, and a snapshot between them
is one of a child that wrote them one by one.  `SetHistoryLimit` is only called
before a pane's first output, so the limit is chosen in `Init`.

### CopyMode

A line is its number: row `y` of the live screen is line `total + y`, and the
ring holds the `histLen` lines before `total`.  With that, what a view shows and
what a copy takes are sequences of line numbers, `Void` where the code draws a
blank row.

Keys, wheel notches, mouse events and frames run under `session.mu`, one at a
time.  A pane's `pump` does not take that lock: it calls `vt.Write` under the
lock of the terminal (`S/pane.go:154`), which a handler of copy mode takes anew
for each of `ScrolledTotal`, `HistoryLen` and `ScrollbackView`.  Such a handler
is therefore an operation `op`, and each of its sections a step (`handler`):
`enterCopyPane`; the two readings of `syncCopy` (`readTotal`, `syncCopy`); then
what the handler does with its own reading: `moveKey` with the `HistoryLen` of
`copyKey`, `wheelUp` with that of `routeWheel`, `measure` and `copied` with the
`HistoryLen` and the `ScrollbackView` of `selectedText`, `drawn` with the
`ScrollbackView` of `views`.  A drag syncs twice, before the anchor (`anchored`)
and before the cursor (`pointed`).  While `op` is taken no other handler begins
(`Free`), and panes print and change modes between any two steps (`Printing`).
A handler that reads a terminal at most once is one action (`Whole`).

Three variables are history: `chosen`, the line the user last scrolled to the
top of the view; `moved`, that the pane was resized since its anchor was set;
`pressed`, the app that was sent a client's last press, `NoPane` when that press
was not forwarded.  `ms[c]` is `mouseState` with the parts that outlive an event; which cell belongs to which pane is
geometry, so an event names its pane.  `move` runs over what the copy keys do,
whatever key they are bound to.  A shrink slides up to as many rows as
it takes off, because how far depends on the emulator's cursor, which `Terminal`
models.  The number of steps is bounded (`MaxOps`) since the views of several
panes wander independently.

### ClientKeys

The terminal delivers bursts of bytes, each marked as typed or pasted; what
follows `ESC [` is one token.  `loop` is where `forwardInput` is: at the top, in
a paste, behind the prefix key, in the prompt, in the session help or dismissing
it (`hiding`, whose three statements are three steps, since the reader runs
between them).  Every handler consumes exactly the bytes the code consumes.  A
paste that grows past `MaxPasteChunk` goes on in pieces, and `Input` runs the
server's `filterPaste` on each message; of what the app gets then, `pane` keeps
the ends of paste markers, which is what the properties tell apart.  `readFrame` looks at `overlay`,
`writeFrame` writes: two steps.  A frame is the pair of pictures it leads from
and to; painted on any other picture it makes a `Mess`, which only a full frame
repairs.  The server sends diffs from the last frame sent and a full frame
after a Refresh, as `Frames` has it.  Replies, clipboard messages, window
resizes and mouse coordinates are left out.

A burst's escape sequence is not split: what arrives within `escape-time` of the
ESC counts as one burst, so a deadline passes only when nothing is buffered.  A
burst may meet an escape that is still unfinished: an ESC whose deadline has not
passed, or an Alt-[, which at the top of the loop waits for its final byte in
`ReadByte` without a deadline (`src/internal/client/client.go:532`, `557`) and so
stays unfinished for any time.  `caught` is history: a sequence or a paste did
meet one.  `mBind` is what the config binds `m` to: "" leaves it to the session
help.  `hole` is history: the panel was erased for a bound `m`, and no Refresh
was sent since.

### Startup

The path holds the socket of one daemon or none (`file`); a connect is answered
by the kernel between `listen()` and `close()` of the daemon whose file it is.
Each system call of `Listen` (dial, remove, bind, listen, chmod), of a stop
(`Close` unlinks the path, `Remove` unlinks it again) and of the commands is a
step, and a daemon may crash at any of them.  `startDaemon` polls; its five
seconds are taken to be longer than a daemon needs to start or to fail, so
`deadline` fires when none is on its way.  `raced` and `calm` are history: which
daemons came up while another was at the path, and whether anything was upset
while a command ran.

## 3. Runs

| Run | Module, bounds | Properties and what they show |
|---|---|---|
| `session` | `Session`, 3 panes, 2 windows, channel of 1 | `TypeOK`; `PanesAreHome`: routing, no lost shell, distinct windows; `TreesFit`: tree = panes, binary; `FocusIsShown`: focus and zoom are on the tree; `ReapKeepsFocus` |
| `session_live` | `Session`, 2 panes, 2 windows, failing starts | `ReaperKeepsUp`: every exit is reaped and an empty session is reported |
| `input_queue` | 2 callers, 2 pushes each, sizes 1 and 2, limit 3 | `QueueOK`: accounting; `NoLostWakeup`; `CallerOrder`; `WriterServes`: the writer takes what is queued and leaves when closed; `PipeSpec`: refinement of `OrderedPipe` |
| `reply_queue` | channel of 2, 5 answers | `QueueOK`: no answer lost unseen; `NobodyIsKept`: the emulator never waits, the goroutine ends; `PipeSpec` |
| `registry` | 2 connections, 2 names, 2 sessions | `TypeOK`; `Coherent`: names, map and order agree; `StopsWhenEmpty` |
| `frames` | 1 client and an unnumbered rest, 2 sessions, 1 change each | `TypeOK`; `DiffsFit`: a diff meets the screen it was painted from; `StaysShown`: a picture that stays current is shown |
| `client_writer` | queue of 2, 3 control messages, 2 frames | `MailboxOK`: mailbox and token agree; `ByeFlushed`: a flushed connection owes no bye; `ControlFirst`: at most one frame passes a control message; `NothingIsLeft`: connection and writer end |
| `terminal` | 2x2, 2x3 and 3x2 panes, no history or 2 rows, 3 rows of text, 4 writes and resizes | `TypeOK`: every index the handlers use exists; `HistoryIsTail`; `ScrollbackIsMain`: no row twice, none of the alternate screen; `UpdateIsHidden`; `ScreenIsShown` |
| `copy_mode` | 2 panes of 1x1 or 2x2, ring of 2, 3 lines, 5 steps beside the sections of a handler, 1 client | `TypeOK`: a view fits its pane and history; `ViewStays`: a frame starts at the line the user scrolled to; `CopiesSelection`: a copy takes what is between anchor and cursor; both are off by at most what the pane prints during that frame or copy; `ReportsFollowPress` |
| `client_keys` | 3 bursts over 8 keys, 4 sequences and a paste longer than a piece, `m` unbound or bound to passthrough, 2 frames | `ClientOK`: state of the loop agrees, paste markers arrive whole; `PasteNeverActs`: both of pastes that met no unfinished escape; `KeysAreRead`; `ScreenRepaired`: but for the panel a bound `m` erased |
| `startup` | 2 users, 3 daemons, 1 crash | `Reachable`: a daemon that came up alone stays reachable; `NewSucceeds`: no stale socket stops a start; `RunEnds` |
| `startup_race` | the same as `startup` | expected violation of `RemovesOnlyStale`: the finding below |

Bounds. `MaxPane`, `MaxWindow`, `MaxPush`, `MaxReply`, `MaxSession`,
`MaxVersion`, `MaxSend`, `MaxFrame`, `MaxText`, `MaxOps`, `MaxLine`, `MaxBursts`,
`MaxFrames`, `MaxChan`, `MaxDaemon` and `MaxCrash` cap numbers that the code
hands out, or a user and a program produce, without limit; when they are used up
no more are created, which is why deadlock is not checked: a model at its bound,
a stopped session, a closed queue and a stopped daemon really have nothing left
to do. (`Frames` never stops: it is checked for deadlock.) Three panes in two
windows give
a tree with an inner node on either side, a window that breaks off and joins
again, and a window closing before and after the current one; a channel of one
is full with two exits, which the code's 32 reaches with 33. Two callers and a
limit of 3 with sizes 1 and 2 let a push be refused while a chunk is in flight.
Five answers fill a channel of two with one being written, one dropped and one
more to come. Two sessions suffice for the race of two creators, for a rename
onto a free and onto a taken name, and for a session and its namesake.

Clients meet in two places only, the flag of a session and the order in which
the tick serves them, and both are left open in `Frames`, so one client stands
for each; one change of each session is enough for it to fall before, between
and after any two steps of a tick. Three messages fill a control queue of two
while a third waits to be sent; two frames are one more than may pass a
message.

A pane of two rows has a scroll region that is the whole screen, one that is a
row, and a shrink that slides; two columns and tab stops every two (`TabStep`, 8
in the code) give a wide glyph that fits, one that wraps and a tab stop that a
wider pane adds. Three rows of text overfill a ring of two. Four operations are
enough to enter the alternate screen, begin an update, resize and leave again.
A ring of two lines under a pane of two rows is passed by the third line, so a
view and an anchor are evicted.  Five steps let a drag begin, meet what a pane
prints in the middle of a handler, go on and be released; the sections of a
handler are not counted. A paste of five keys with its markers goes on in pieces of five
bytes, the second of which would end inside the end marker; three bursts open a
popup, put something behind it and dismiss it. Three
daemons for two users let one crash, leave its socket, and two more race.

Fairness. A goroutine that is not blocked runs: weak fairness of pumps, reaper,
stoppers, writer, closer, the broadcaster (its tick in `Frames`, its snapshots
in `Terminal`), a client's writer, the client's input loop and reader
(`forwardInput`, `readFrames`), and of a connection's goroutine in the middle of
an operation. Timers fire (`Timeout` in `Terminal`, `deadline` in `Startup`),
and a process that is making system calls makes the next one (`Listen`,
`Stopping`, `Client`). Users, children and shells owe nothing, and neither does
a write to a pty whose child may never read: only after the pty is closed must
the write return. A client reads what it is sent in `Frames` and `ClientKeys`,
where the question is what it gets to see, and may stop reading in
`ClientWriter`. In `ClientKeys` the server answers (`server`), which is what
`Frames` shows of it.

### Finding

`startup_race`: `Listen` is for "removing a stale one left by a crash"
(`src/internal/ipc/ipc_unix.go:66`), but the look (line 73) and the removal
(line 77) are two system calls.  Of two daemons started at once both find
nobody, and the second removes the socket that the first has bound in between;
the first then serves nobody who dials.  A stopping daemon does the same:
closing the listener has already unlinked the path when `ipc.Remove`
(`S/server.go:111`) removes whatever is there by then.  `Reachable` and
`NewSucceeds` hold up to this: they speak of daemons outside of `raced` and
commands that ran in a calm.

### Deviations

Behaviour of the code that the models reproduce.  Where a comment of the code
says otherwise it is quoted; for the rest no document of the repository rules it
out.  Each limits a property above, as said here; none has a run of its own.

- `split` grafts the new leaf before it starts the shell and does not take it
  back when that fails (`S/window.go:172`): the focus can then move to a pane
  that does not exist.  `FocusIsShown` and `TreesFit` are checked with
  `SpawnFails` = FALSE.
- A command that resolved its session before `shutdown` still runs after it
  (`S/session.go:133`, `775`): its shell is never stopped.
- `sessionEmptied` acts on a name (`S/server.go:178`) and so does the rename of
  a session that was killed (`S/command.go:151`): a running namesake can be
  dropped.  The reaper reads its session's name unlocked (`S/session.go:274`),
  and a session may end before it is registered (`S/session.go:124`), which
  then stays registered.  `Coherent` and `StopsWhenEmpty` hold all the same.
- `serveClient` adds its client after copying the session's name
  (`S/server.go:317`): a session that ends or is renamed in between leaves a
  client that is told nothing.
- A tick groups the clients by session before it offers frames
  (`S/server.go:484`): a client that switches in between is handed a frame of
  the session it left, and the repaint `setSession` had asked for
  (`S/client.go:91`) counts as done.  `StaysShown` exempts a client that was
  handed such a frame.
- A bye can be lost to a writer that had not run yet, to the timeout, or to a
  daemon that stops meanwhile (`S/client.go:316`).  `ByeFlushed` is about a wait
  that the writer answered.
- Copy mode reads a terminal in several sections of its lock, and the pane may
  print between them: the two readings of `syncCopy` (`S/pane.go:190`), the sync
  and the drawing of a frame (`S/window.go:378-379`, `411-412`), the sync, the
  `HistoryLen` and the `ScrollbackView` of a copy (`S/pane.go:201-204`,
  `S/copymode.go:124-125`).  The comment on `sync` says that "the rows the user
  is looking at stay fixed while a worker keeps printing" (`S/copymode.go:61`);
  in fact a frame can be drawn further down by as many lines as were printed
  while it was being drawn, until the next one is drawn right, and a copy can
  hold the lines below those selected, shifted likewise.  `ViewStays` and
  `CopiesSelection` allow for exactly that (`Printed`).
- A paste that meets an unfinished escape is not seen as one.  After Alt-[, any
  time later, or after an ESC within `escape-time`, its start marker is read as
  the end of that escape (`src/internal/client/client.go:529`, `532`, `557`): the
  pane gets `ESC [ ESC [` or `ESC ESC` and then the rest of the marker as text,
  a prefix key inside the paste acts, and an app that did not ask for markers
  sees a piece of one.  The comment on `readPaste` says that "a prefix key, an
  Esc or an F12 inside a paste never acts on ngmux"
  (`src/internal/client/client.go:577`).  Behind the prefix key, in the session
  help and in the prompt an escape has a deadline, and there it takes a paste
  that arrives within it.  `PasteNeverActs` and `ClientOK` exempt what happens
  after a paste or a sequence met an unfinished escape (`caught`).
- A config may bind `m` (`bind m passthrough`).  The Refresh after the which-key
  panel is skipped for `m` whether bound or not
  (`src/internal/client/client.go:431`), as if the session help always followed
  (`457`), and `setPassthrough` (`S/client.go:213`) asks for a diff only: what the
  panel covered stays blank until something else asks for a repaint.
  `ScreenRepaired` exempts that hole (`hole`).
- A resize in copy mode clamps the cursor's row and not its column
  (`S/pane.go:177`).  In a pane made narrower the cursor can be off its right
  edge; a mark made there belongs, for the arithmetic of `extractText`
  (`S/copymode.go:213`), to the row below, and the copy has other lines than
  the ones between mark and cursor.  `TypeOK` of `CopyMode` bounds the row only,
  and `CopiesSelection` is about ends that are on the pane (`Selecting`).
- A resize moves the text under an anchor that was set before it.
  `CopiesSelection` leaves such a selection out (`moved`).
- A full reset on the alternate screen leaves the buffers where they are
  (`vt10x`, `reset`): the old main screen is then the alternate one.
- `Resize` of the layout rounds through floating point: `int(47 * (3.0 / 47))`
  is 2, so a pane can lose a cell (`src/internal/layout/layout.go:196`).

## 4. Proofs

Every theorem is for all values of the constants, from the assumptions named in
the modules.  Each safety proof has the same layout: an inductive invariant
`IInv`, which TLC has checked on the run's configuration before it was proved; a
lemma that `Init` gives it; one lemma per action that it is kept; a lemma that it
gives the property; and a theorem that puts them together by temporal logic.

`Session`, ownership: `SessionTypes` proves `TypeOK`, `SessionOwnership` proves
`PanesAreHome` (the conjunction of `RoutedHome`, `NoShellLost` and
`ListedWindows`).  None of the three is inductive.  The invariant is: types;
`RoutedHome`; a pane is in one window only; listed windows are distinct and not
empty; `cur` is inside the list; every live shell is in a listed window; ids not
handed out are unused; and a pane whose pump has finished or is in the channel
was started.  The last two are what make a fresh pane or window disjoint from
everything else.

`Session`, trees and focus: a second invariant, `AllFit`, on top of the first.
A tree is well formed (`TreeOK`) when no path to a leaf is the beginning of
another, and every split on the way to a leaf has a leaf on its other side.  One
lemma per operation of `SplitTree` says that it keeps this and which leaves
result: `SplitTreeOK`, `RemoveLeafTree`, `SwapPanesTree`, and for the presets
`ChainedTree`, `TiledTree` and `ArrangeTree`, which need that `Panes` lists every
leaf once (the paths are totally ordered, and the rank of a leaf in that order is
a bijection onto its place: `PanesListLeaves`) and the division with remainder
that makes the rows of a grid.  `NeighborIsLeaf` and `FocusAfterStays` say where
the focus can go.  `AllFit` says of each window that its panes are leaves of its
tree, that the leaves beyond them are of splits whose shell did not start
(`Ghosts`), that the focus is on a leaf and a zoom on the focus.
`SessionShapes` is what follows for all runs of the program.  With no ghosts, that
is with `SpawnFails = FALSE`, the leaves are the panes: `SessionTrees`
(`TreesFit`) and `SessionFocus` (`FocusIsShown`) assume it, as their run does,
because a shell that fails to start does violate them (deviations, above).
`SessionReapKeepsFocus` proves `ReapKeepsFocus` without that assumption.

`InputQueue`: `InputWakeup`, `InputOrder`, `InputIsPipe` and `InputSize`, for any
set of callers, any sizes and any limit.  The order needs an invariant over the
concatenation of what was written, what is being written and what waits; the
wakeup is inductive with the writer's state.  The refinement maps the chunk
being written to the head of the pipe.  The size is a sum over the queue: what
`Append` and `Tail` do to a sum is shown by comparing the two sums step by step
(`SameSteps`), and the invariant says that `size` is the sum of what waits and
of what is in flight until a close has zeroed it.

`Registry`: `RegistryTypes`, `RegistryNames` (`Coherent`, that is `NamesAgree`
and `OrderIsRegistered`) and `RegistryStops`, for any connections, names and
number of sessions.  The invariant adds two facts to the
three: what a goroutine carries from one section to the next is real (a session
it holds has been made, a name it holds is a name), and a session that its
creator has not inserted yet is in nobody else's hands.  The latter is why the
loser of a creation race stops its own session and no other; the former keeps
the step that drops a name from dropping an entry that somebody's arithmetic on
`order` relies on.

`Frames`: `FramesTypes` and `FramesFit`, for any clients, sessions and number
of changes.  `DiffsFit` rests on two facts: mailbox and wire are never both
occupied, and `shown` is the picture the terminal will have once whichever is
occupied has been written.

`ClientWriter`: `WriterMailbox`, `WriterFlushesByes` and `WriterControlFirst`, for
any capacity of the control queue.  A frame passes a queued message only between
two looks at the queue, of which the second finds the message; a flushed bye is
safe because nobody can queue one any more when the writer is told to drain
(`Left`).

`CopyMode`: `CopyModeViewsFit` (`TypeOK`), `CopyModeViewStays`,
`CopyModeCopiesSelection` and `CopyModeReports`, for any panes, clients, sizes and
history limit, with panes that print between the sections of a handler.  The
invariant is about a copyState between handlers and in the middle of one.  A copyState fits its
pane (`View`); an anchor set since the last resize is not below the screen
(`AnchorOn`); and the view is where the user left it (`Kept`): its top line, as
the copyState counts it, is the chosen line, or a sync has clamped it past that
line, and then it is no further than the oldest line kept.  The three together
are `Shown`.  What the running
handler has read is bounded by what is true now: the count is between the one
the handler began with and the present one, and so is the history (`Fits`).
`SyncFits` says that `sync` restores `Shown` from such a stale count and a history that
may be newer than the count: an offset clamped to the newer history is still
not above the oldest line kept.  `MoveFits` says the same of a key, and `TopLine`
and `FrameStays` turn it into the first line of a frame.  The copy rests on two
lemmas: the window that `selectedText` asks for starts at the earlier line,
shifted by what was printed since the sync, whichever way the ring is filled
(`WindowLines`), and with both columns on the pane the products of `extractText`
divide back into the rows they came from (`ExtractLines`); `SelectionIsBetween`
puts them together.  The gestures are a part of their own: a gesture is
forwarded to the pane that got its press, or to none.  The run has one client;
`CopyModeReports` is for any number.

`Terminal`: `TerminalTypes` (`TypeOK`), `TerminalHistory` (`HistoryIsTail`),
`TerminalScrollback` (`ScrollbackIsMain`) and `TerminalUpdates`
(`UpdateIsHidden`), for any sizes, tab step, history limit, counts and number of
operations.  The properties lean on each other, so there is one invariant in four
parts.

- `TermInv`: between two steps the screen is `Good` and nothing waits to be handed
  over.  A good screen fits (`Fits`: rows, region, tab stops and cursor are the
  screen's own, and in origin mode the cursor is inside the region), and every
  row of text is in one place (`Held`): on the main screen, on the alternate one
  or among the rows about to be handed over, not in the scrollback, and older
  than the next row that will be printed.  A row the alternate screen printed is
  nowhere else.  `ScrollbackIsMain` alone is not inductive: it does not say that
  a row which *will* scroll out is not in the scrollback yet.
- `PushedInv`: no row was handed over twice.
- `RingInv`: the ring holds the newest of the rows handed over, slot by slot
  (`Newest`, modulo the limit).
- `FrameInv`: a frame is kept only while an update is drawn, the one it began
  from.

There is one lemma per handler, that a good screen becomes a good one
(`ScrollUpGood`, `EraseGood`, `SetCharGood`, `ParseGood`, `AltGood`, ...,
`ResizeGood`).  Handlers that set a cursor or a region and then move pass through
a `Loose` screen, one whose cursor need not fit: `LooseMoveTo` and
`LooseMoveAbsTo` say that the move mends it, which is what the order of the
statements in `restoreCursor`, `setScroll` and `resize` is for.  What scrolls is
treated as a partial injection on rows, so that distinct rows stay distinct
(`HeldMoved`).  Counts (a glyph repeated, tabs, rows handed to the ring one by
one) are recursive functions; `Iterated` says that what is done n times over a
set is defined and stays in the set, and `PushKeepsRing` follows the ring row by
row through one write, which may hand over more rows than it has slots.

`Startup`: `StartupReachable` and `StartupNewSucceeds`, for any number of users,
daemons and crashes.  A daemon that nobody raced has the path to itself from its
probe on, so the path is empty when it binds and its own after (`Unraced`); while
nothing upsets a user, the daemon that answers goes on answering and the one
spawned for the user comes up (`Undisturbing`).

Induction.  The principles of the library have an operator as a parameter, which
the provers cannot instantiate.  The proofs use ones that speak of a set instead,
derived from the well-foundedness of `<`: `LeastNatural` and `SetInduction`.  The
sums, the ranks of leaves, the rows of a grid and what the emulator repeats rest
on them.

Only model-checked:

- every liveness property, and the liveness conjuncts of a specification:
  fairness and ENABLED are outside of the prover;
- `ReplyQueue`: `QueueOK` and the refinement of `OrderedPipe`, a smaller case of
  the argument that `InputQueue` needs;
- `ClientKeys`: `ClientOK` and `PasteNeverActs`.  What the loop has still to read
  is compared with the sequences it is in the middle of, piece by piece; an
  argument for bursts of any length needs an induction over the bytes for each
  place of the loop, which has not been worked out.

## 5. Plan

1. `SplitTree`, `Window`, `Session`, proofs of ownership, trees and focus.  Done.
2. `OrderedPipe`, `InputQueue`, proofs.  Done.
3. `ReplyQueue`, a second implementation of `OrderedPipe`.  Done; to come: a
   proof of the refinement for any capacity.
4. `Registry`, proofs that names agree and the daemon stops.  Done.
5. `Frames`, proof that diffs fit; `ClientWriter`, proofs.  Done.
6. `Startup`, proofs.  Done.
7. `CopyMode`, proofs.  Done.
8. `Screen`, `Terminal`, proofs.  Done.  `ClientKeys`.  Done; to come: proofs of
   its invariant and of `PasteNeverActs`.
9. `Fit`: the size of a session against clients that come, go and resize, and
   an older fit that overwrites a newer one.

## 6. Not modelled

- Layout geometry (`Compute`, `Resize`, presets' ratios): products of 64-bit
  floating point ratios, truncated; TLA+ has exact numbers only, and the cases
  that matter are those the rounding decides.
- Rendering: painting cells.  `Frames` and `ClientKeys` assume that a diff
  painted on the picture it was made from gives the new one.
- Pseudo-terminals and raw terminal modes: operating-system calls, present as
  byte sinks that block, fail and end.
- The command tokenizer, target specs, configuration and theme parsing, byte
  formats of keys, mouse reports and colours, the parameter parser of the
  emulator: string processing without state across calls.
- The wire protocol: a message is a length and JSON on a reliable stream.
- Session sizing (`fitSessions`): to come, see the plan.
- The updater, the Windows endpoint, the checks on the socket's directory.
