------------------------------ MODULE ReplyQueue ------------------------------
(***************************************************************************)
(* The answers of one pane's terminal to the queries of its child          *)
(* (internal/vterm/reply_queue.go).  The emulator answers while the pump   *)
(* feeds it, with the emulator's lock held: one answer at a time, and it   *)
(* must not wait for a child that does not read.  A goroutine started by   *)
(* the first answer takes them from a bounded channel to the pty.  The     *)
(* pane closes the pty first and the queue second.                         *)
(***************************************************************************)
EXTENDS Integers, Sequences

CONSTANTS ReplyQueueCap,   \* 32 in the code
          MaxReply         \* bound: answers

ASSUME ReplyQueueAssumption ==
  ReplyQueueCap \in Nat \ {0} /\ MaxReply \in Nat

Reply == 1..MaxReply

VARIABLES
  ch,        \* the channel
  started, closed,
  dropped,   \* answers counted as dropped
  runner,    \* the run goroutine: "none", "selecting", "writing" or "exited"
  current,   \* what it writes: a sequence of at most one
  failed,    \* answers whose write failed
  answered,  \* answers the emulator has given
  emulator,  \* "parsing", or "sending" the last of them
  ptyOpen, pty

queueVars == <<ch, started, closed, dropped>>
runnerVars == <<runner, current, failed>>
emulatorVars == <<answered, emulator>>
ptyVars == <<ptyOpen, pty>>
vars == <<queueVars, runnerVars, emulatorVars, ptyVars>>

Init ==
  /\ ch = <<>> /\ started = FALSE /\ closed = FALSE /\ dropped = 0
  /\ runner = "none" /\ current = <<>> /\ failed = 0
  /\ answered = 0 /\ emulator = "parsing"
  /\ ptyOpen = TRUE /\ pty = <<>>

-----------------------------------------------------------------------------
(* Write, up to the end of its locked section: a closed queue drops.  The  *)
(* send comes after, and does not wait for room.                           *)
drop_silent == UNCHANGED dropped           \* fault: gone without a trace
drop == dropped' = dropped + 1

Write ==
  /\ emulator = "parsing" /\ answered < MaxReply
  /\ answered' = answered + 1
  /\ IF closed
     THEN drop /\ UNCHANGED <<started, runner, emulator>>
     ELSE /\ started' = TRUE
          /\ runner' = IF started THEN runner ELSE "selecting"
          /\ emulator' = "sending"
          /\ UNCHANGED dropped
  /\ UNCHANGED <<ch, closed, current, failed, ptyVars>>

room == Len(ch) < ReplyQueueCap

overflow == ~room /\ drop /\ UNCHANGED ch

send ==
  /\ emulator = "sending"
  /\ emulator' = "parsing"
  /\ \/ room /\ ch' = Append(ch, answered) /\ UNCHANGED dropped
     \/ overflow
  /\ UNCHANGED <<started, closed, answered, runnerVars, ptyVars>>

-----------------------------------------------------------------------------
(* The delivery goroutine.  With an answer waiting and the queue closed    *)
(* either case of the select may be taken.                                 *)
stopped_unsignalled == FALSE               \* fault: Close only raises the flag
stopped == closed

stop ==
  /\ runner = "selecting" /\ stopped
  /\ runner' = "exited"
  /\ UNCHANGED <<queueVars, current, failed, emulatorVars, ptyVars>>

receive ==
  /\ runner = "selecting" /\ ch # <<>>
  /\ current' = <<Head(ch)>> /\ ch' = Tail(ch)
  /\ runner' = "writing"
  /\ UNCHANGED <<started, closed, dropped, failed, emulatorVars, ptyVars>>

delivered ==
  /\ runner = "writing" /\ ptyOpen
  /\ pty' = pty \o current
  /\ current' = <<>> /\ runner' = "selecting"
  /\ UNCHANGED <<queueVars, failed, emulatorVars, ptyOpen>>

(* An error, or a panic: the goroutine leaves, and what comes later fills  *)
(* a channel that nobody reads.                                            *)
unread_putBack == ch' = ch \o current      \* fault: a failed answer is tried again later
unread == UNCHANGED ch

deliverFailed ==
  /\ runner = "writing"
  /\ unread
  /\ failed' = failed + 1
  /\ current' = <<>> /\ runner' = "exited"
  /\ UNCHANGED <<started, closed, dropped, emulatorVars, ptyVars>>

-----------------------------------------------------------------------------
(* pane.close: the pty, then the terminal. *)
closePty ==
  /\ ptyOpen /\ ptyOpen' = FALSE
  /\ UNCHANGED <<queueVars, runnerVars, emulatorVars, pty>>

Close ==
  /\ ~ptyOpen /\ ~closed
  /\ closed' = TRUE
  /\ UNCHANGED <<ch, started, dropped, runnerVars, emulatorVars, ptyVars>>

-----------------------------------------------------------------------------
Runner == stop \/ receive

Next == Write \/ send \/ Runner \/ delivered \/ deliverFailed \/ closePty \/ Close

(* A goroutine that is not blocked runs; a write returns for certain only  *)
(* once the pty is closed, and nobody has to close it.                     *)
Fairness ==
  /\ WF_vars(send) /\ WF_vars(Runner) /\ WF_vars(Close)
  /\ WF_vars(~ptyOpen /\ deliverFailed)

Spec == Init /\ [][Next]_vars /\ Fairness

-----------------------------------------------------------------------------
TypeOK ==
  /\ ch \in Seq(Reply) /\ Len(ch) <= ReplyQueueCap
  /\ started \in BOOLEAN /\ closed \in BOOLEAN /\ dropped \in 0..MaxReply
  /\ runner \in {"none", "selecting", "writing", "exited"}
  /\ current \in Seq(Reply) /\ failed \in 0..1
  /\ answered \in 0..MaxReply /\ emulator \in {"parsing", "sending"}
  /\ ptyOpen \in BOOLEAN /\ pty \in Seq(Reply)

(* No answer goes missing unseen, through a full channel, a close between  *)
(* check and send, and a goroutine that gave up: each is written, waiting, *)
(* counted as dropped, or the one whose write failed.                      *)
Accounted ==
  answered = Len(pty) + Len(current) + Len(ch) + dropped + failed
             + (IF emulator = "sending" THEN 1 ELSE 0)

(* Types, and every answer accounted for. *)
QueueOK == TypeOK /\ Accounted

(* A child that never reads its answers does not hold up its own output:   *)
(* the emulator, whose lock the daemon's tick needs, gets on.              *)
AnswerReturns == (emulator = "sending") ~> (emulator = "parsing")

(* A closed pane leaves no goroutine behind, not even one that was stuck   *)
(* in a write.                                                             *)
RunnerExits == closed ~> (runner \in {"none", "exited"})

(* Such a child keeps nobody. *)
NobodyIsKept == AnswerReturns /\ RunnerExits

(* The queue is an ordered pipe: the answer being written is its head. *)
Pipe == INSTANCE OrderedPipe WITH Chunk <- Reply, todo <- current \o ch, out <- pty
PipeSpec == Pipe!Spec
=============================================================================
