------------------------------ MODULE InputQueue ------------------------------
(***************************************************************************)
(* The input queue of one pane (internal/server/input.go) and the close of *)
(* the pane that owns it.  Callers push from their own goroutines (clients *)
(* typing, send-keys, paste-buffer, mouse reports); one writer goroutine,  *)
(* started by the first push, takes the chunks to the pty.  Each section   *)
(* under q.mu is one step; the signal after it is a step of its own, and   *)
(* so are the wait, the write and the bookkeeping after the write.         *)
(***************************************************************************)
EXTENDS Integers, Sequences, SequencesExt

CONSTANTS Caller,       \* goroutines that push
          Sizes,        \* lengths of the pushed data
          MaxPending,   \* maxPendingInput: bytes (16 MiB in the code)
          MaxPush       \* bound: pushes of one caller

ASSUME InputQueueAssumption ==
  /\ Sizes \subseteq Nat \ {0}
  /\ MaxPending \in Nat /\ MaxPush \in Nat

Chunk == [from : Caller, nth : 1..MaxPush, len : Sizes]

VARIABLES
  chunks,    \* inputQueue.chunks
  size,      \* inputQueue.size
  wake,      \* tokens in the wake channel, whose capacity is 1
  started,
  closed,
  writer,    \* the run goroutine: "none", "checking", "waiting", "writing",
             \* "settling" or "exited"
  current,   \* run's local chunk: a sequence of at most one
  pushed,    \* caller |-> pushes made
  caller,    \* caller |-> "ready" or "signalling"
  closer,    \* pane.close: "idle", "signalling" or "closing" the pty
  ptyOpen,
  pty        \* what the pty was written

queueVars == <<chunks, size, started, closed>>
writerVars == <<writer, current>>
callerVars == <<pushed, caller>>
ptyVars == <<ptyOpen, pty>>
vars == <<queueVars, wake, writerVars, callerVars, closer, ptyVars>>

Init ==
  /\ chunks = <<>> /\ size = 0 /\ wake = 0
  /\ started = FALSE /\ closed = FALSE
  /\ writer = "none" /\ current = <<>>
  /\ pushed = [c \in Caller |-> 0] /\ caller = [c \in Caller |-> "ready"]
  /\ closer = "idle" /\ ptyOpen = TRUE /\ pty = <<>>

-----------------------------------------------------------------------------
(* A non-blocking send on the wake channel. *)
signal_lossy == wake' = wake              \* fault: nobody waiting, no token
signal == wake' = 1

(* The bytes of a sequence of chunks. *)
bytes(s) ==
  LET upTo[i \in 0..Len(s)] == IF i = 0 THEN 0 ELSE upTo[i - 1] + s[i].len
  IN  upTo[Len(s)]

(* Room for n more bytes: those being written count. *)
fits_notInFlight(n) ==                    \* fault: only what waits is counted
  bytes(chunks) + n <= MaxPending
fits(n) == size + n <= MaxPending

push(c, n) ==
  /\ caller[c] = "ready" /\ pushed[c] < MaxPush
  /\ pushed' = [pushed EXCEPT ![c] = @ + 1]
  /\ IF ~closed /\ fits(n)
     THEN /\ chunks' = Append(chunks, [from |-> c, nth |-> pushed'[c], len |-> n])
          /\ size' = size + n
          /\ started' = TRUE
          /\ writer' = IF started THEN writer ELSE "checking"
          /\ caller' = [caller EXCEPT ![c] = "signalling"]
     ELSE UNCHANGED <<chunks, size, started, writer, caller>>
  /\ UNCHANGED <<closed, wake, current, closer, ptyVars>>

signalPush(c) ==
  /\ caller[c] = "signalling"
  /\ signal
  /\ caller' = [caller EXCEPT ![c] = "ready"]
  /\ UNCHANGED <<queueVars, writerVars, pushed, closer, ptyVars>>

-----------------------------------------------------------------------------
(* The writer. *)
line_newest == [next |-> Last(chunks), rest |-> Front(chunks)]   \* fault: LIFO
line_kept == [next |-> Head(chunks), rest |-> chunks]            \* fault: not popped
line == [next |-> Head(chunks), rest |-> Tail(chunks)]

take ==
  /\ writer = "checking" /\ ~closed /\ chunks # <<>>
  /\ current' = <<line.next>>
  /\ chunks' = line.rest
  /\ writer' = "writing"
  /\ UNCHANGED <<size, started, closed, wake, callerVars, closer, ptyVars>>

exit ==
  /\ writer = "checking" /\ closed
  /\ writer' = "exited"
  /\ UNCHANGED <<queueVars, wake, current, callerVars, closer, ptyVars>>

sleep ==
  /\ writer = "checking" /\ ~closed /\ chunks = <<>>
  /\ writer' = "waiting"
  /\ UNCHANGED <<queueVars, wake, current, callerVars, closer, ptyVars>>

awake ==
  /\ writer = "waiting" /\ wake = 1
  /\ wake' = 0
  /\ writer' = "checking"
  /\ UNCHANGED <<queueVars, current, callerVars, closer, ptyVars>>

(* w.Write returns: it wrote the chunk, or failed. *)
written ==
  /\ writer = "writing" /\ ptyOpen
  /\ pty' = pty \o current
  /\ writer' = "settling"
  /\ UNCHANGED <<queueVars, wake, current, callerVars, closer, ptyOpen>>

writeFailed ==
  /\ writer = "writing"
  /\ writer' = "settling"
  /\ UNCHANGED <<queueVars, wake, current, callerVars, closer, ptyVars>>

settle ==
  /\ writer = "settling"
  /\ size' = size - current[1].len
  /\ current' = <<>>
  /\ writer' = "checking"
  /\ UNCHANGED <<chunks, started, closed, wake, callerVars, closer, ptyVars>>

-----------------------------------------------------------------------------
(* pane.close, which runs under the session's lock but more than once: for *)
(* kill-pane, and again when the reaper folds the pane out.                *)
close ==
  /\ closer = "idle"
  /\ closed' = TRUE
  /\ size' = size - bytes(chunks)
  /\ chunks' = <<>>
  /\ closer' = IF started THEN "signalling" ELSE "closing"
  /\ UNCHANGED <<started, wake, writerVars, callerVars, ptyVars>>

signalClose_silent ==                     \* fault: the sleeping writer is not told
  /\ closer = "signalling"
  /\ closer' = "closing"
  /\ UNCHANGED <<queueVars, wake, writerVars, callerVars, ptyVars>>
signalClose ==
  /\ closer = "signalling"
  /\ signal
  /\ closer' = "closing"
  /\ UNCHANGED <<queueVars, writerVars, callerVars, ptyVars>>

closePty ==
  /\ closer = "closing"
  /\ ptyOpen' = FALSE
  /\ closer' = "idle"
  /\ UNCHANGED <<queueVars, wake, writerVars, callerVars, pty>>

-----------------------------------------------------------------------------
Writer == take \/ exit \/ sleep \/ awake \/ settle
Closer == signalClose \/ closePty

Next ==
  \/ \E c \in Caller : signalPush(c) \/ \E n \in Sizes : push(c, n)
  \/ Writer \/ written \/ writeFailed
  \/ close \/ Closer

(* A goroutine that is not blocked runs.  A write returns for certain only *)
(* once the pty is closed: a child may never read its stdin.               *)
Fairness ==
  /\ \A c \in Caller : WF_vars(signalPush(c))
  /\ WF_vars(Writer)
  /\ WF_vars(Closer)
  /\ WF_vars(~ptyOpen /\ writeFailed)

Spec == Init /\ [][Next]_vars /\ Fairness

-----------------------------------------------------------------------------
TypeOK ==
  /\ chunks \in Seq(Chunk) /\ size \in Int /\ wake \in 0..1
  /\ started \in BOOLEAN /\ closed \in BOOLEAN
  /\ writer \in {"none", "checking", "waiting", "writing", "settling", "exited"}
  /\ current \in Seq(Chunk)
  /\ pushed \in [Caller -> 0..MaxPush]
  /\ caller \in [Caller -> {"ready", "signalling"}]
  /\ closer \in {"idle", "signalling", "closing"}
  /\ ptyOpen \in BOOLEAN /\ pty \in Seq(Chunk)

(* size counts the bytes that wait and those the writer holds, through     *)
(* refused pushes, failed writes and a close in the middle of a write: it  *)
(* never drifts, so the queue neither fills for good nor outgrows its cap. *)
SizeCounts ==
  /\ size = bytes(current) + bytes(chunks)
  /\ size <= MaxPending

(* Types, and the count that push trusts. *)
QueueOK == TypeOK /\ SizeCounts

(* The writer never sleeps through a chunk or a close: what it should see  *)
(* comes with a token, or with a signal still on its way.                  *)
NoLostWakeup ==
  writer = "waiting" /\ (chunks # <<>> \/ closed) =>
    \/ wake = 1
    \/ \E c \in Caller : caller[c] = "signalling"
    \/ closer = "signalling"

(* What one goroutine pushes reaches the child in the order it was pushed, *)
(* no chunk twice, however the callers and the writer interleave.          *)
CallerOrder ==
  \A i, j \in DOMAIN pty :
    i < j /\ pty[i].from = pty[j].from => pty[i].nth < pty[j].nth

(* Queued input waits for a write that blocks and for nothing else: the    *)
(* writer gets to a write, or the queue is dropped by a close.             *)
QueuedIsTaken == (chunks # <<>>) ~> (writer = "writing" \/ chunks = <<>>)

(* A closed queue frees its writer, even one stuck in a write when the     *)
(* pane was closed.                                                        *)
WriterExits == closed ~> (writer \in {"none", "exited"})

(* Nothing but a child that does not read keeps the writer. *)
WriterServes == QueuedIsTaken /\ WriterExits

(* The queue is an ordered pipe: the chunk being written is its head. *)
Held == IF writer = "writing" THEN current ELSE <<>>
Pipe == INSTANCE OrderedPipe WITH todo <- Held \o chunks, out <- pty
PipeSpec == Pipe!Spec
=============================================================================
