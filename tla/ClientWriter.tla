----------------------------- MODULE ClientWriter -----------------------------
(***************************************************************************)
(* What one client is sent, and how its connection ends                    *)
(* (internal/server/client.go; serveClient, removeClient, sessionEmptied   *)
(* and shutdownAll of server.go).  Replies and byes wait in a bounded      *)
(* queue, a frame in a mailbox of one; the writer goroutine alone writes.  *)
(* The connection's goroutine flushes and closes when it returns; the      *)
(* daemon's end, a failed write and a client that hangs up cut it short.   *)
(* Each select, send and section under a lock is a step.  Which frame it   *)
(* is, and who sees it, is the matter of Frames.                           *)
(***************************************************************************)
EXTENDS Integers, Sequences, SequencesExt

CONSTANTS CtrlQueueSize,   \* 64 in the code
          MaxSend,         \* bound: control messages queued
          MaxFrame         \* bound: frames offered

ASSUME ClientWriterAssumption ==
  CtrlQueueSize \in Nat \ {0} /\ MaxSend \in Nat /\ MaxFrame \in Nat

Control == [kind : {"reply", "bye"}, nth : 1..MaxSend]
AFrame == [kind |-> "frame", nth |-> 0]
Message == Control \cup {AFrame}

VARIABLES
  ctrl, pending, busy,
  frameReady,          \* tokens: capacity 1
  closed, draining, started,
  writer,    \* writeLoop: "unstarted", "polling", "selecting", "taking",
             \* "writing", "flushing", "flushWriting" or "exited"
  current,   \* what it writes: a sequence of at most one
  conn,      \* serveClient: "serving", "sending", "quitting", "removing",
             \* "draining", "waiting", "closing" or "gone"
  then,      \* where it goes when it has sent
  flushed,   \* its wait ended because the writer was done
  other,     \* sessionEmptied for the client's session: "idle",
             \* "sending" its bye with Server.mu held, or "done"
  daemon,    \* Run: "up", "quitting", "closing" this client, or "exited"
  registered,          \* in Server.clients
  peer,      \* the client's end is open
  wire,      \* control messages on the wire
  sent,      \* control messages queued so far
  frames,    \* frames offered so far
  passed     \* frames written ahead of the oldest queued message

queueVars == <<ctrl, sent>>
mailboxVars == <<pending, busy, frameReady, frames>>
endVars == <<closed, draining>>
writerVars == <<started, writer, current, wire, passed>>
connVars == <<conn, then, flushed>>
serverVars == <<other, daemon, registered>>
vars == <<queueVars, mailboxVars, endVars, writerVars, connVars, serverVars, peer>>

Init ==
  /\ ctrl = <<>> /\ sent = 0
  /\ pending = FALSE /\ busy = FALSE /\ frameReady = 0 /\ frames = 0
  /\ closed = FALSE /\ draining = FALSE
  /\ started = FALSE /\ writer = "unstarted" /\ current = <<>>
  /\ wire = <<>> /\ passed = 0
  /\ conn = "serving" /\ then = "serving" /\ flushed = FALSE
  /\ other = "idle" /\ daemon = "up" /\ registered = TRUE /\ peer = TRUE

Unlocked == other # "sending"     \* Server.mu is free
Open == peer /\ ~closed           \* a write can succeed

-----------------------------------------------------------------------------
(* Queueing.  A full queue makes send wait, for room, for the end of the   *)
(* connection, or until it gives up.                                       *)
room == Len(ctrl) < CtrlQueueSize

queue(kind) ==
  /\ room
  /\ sent < MaxSend /\ sent' = sent + 1
  /\ ctrl' = Append(ctrl, [kind |-> kind, nth |-> sent'])

giveUp == (closed \/ ~room \/ sent = MaxSend) /\ UNCHANGED queueVars

(* The client's messages: commands that have a reply (and detach, whose    *)
(* command form leaves it to the client to hang up), the detach and        *)
(* kill-server messages, and the end of the stream.                        *)
serve(next) ==
  /\ conn = "serving" /\ peer
  /\ conn' = "sending" /\ then' = next
  /\ UNCHANGED <<queueVars, mailboxVars, endVars, writerVars, flushed, serverVars, peer>>

sendKind == IF then = "serving" THEN {"reply", "bye"} ELSE {"bye"}

send ==
  /\ conn = "sending"
  /\ giveUp \/ \E kind \in sendKind : queue(kind)
  /\ conn' = then
  /\ UNCHANGED <<mailboxVars, endVars, writerVars, then, flushed, serverVars, peer>>

hangUp ==
  /\ peer /\ peer' = FALSE
  /\ UNCHANGED <<queueVars, mailboxVars, endVars, writerVars, connVars, serverVars>>

readFailed ==
  /\ conn = "serving" /\ ~Open
  /\ conn' = "removing"
  /\ UNCHANGED <<queueVars, mailboxVars, endVars, writerVars, then, flushed, serverVars, peer>>

(* The tick's clipboard copy, and its frame: the mailbox is filled when    *)
(* the writer is idle, and a token is left.                                *)
trySend ==
  /\ queue("reply")
  /\ UNCHANGED <<mailboxVars, endVars, writerVars, connVars, serverVars, peer>>

offered_toWaiting ==                       \* fault: a token for a waiting writer only
  frameReady' = IF writer = "selecting" THEN 1 ELSE frameReady
offered == frameReady' = 1

offerFrame ==
  /\ ~pending /\ ~busy /\ frames < MaxFrame
  /\ pending' = TRUE /\ frames' = frames + 1
  /\ offered
  /\ UNCHANGED <<queueVars, busy, endVars, writerVars, connVars, serverVars, peer>>

(* The end of the client's session. *)
sessionEmptied ==
  /\ other = "idle" /\ registered /\ daemon = "up"
  /\ other' = "sending"
  /\ UNCHANGED <<queueVars, mailboxVars, endVars, writerVars, connVars, daemon, registered, peer>>

sendBye ==
  /\ other = "sending" /\ other' = "done"
  /\ giveUp \/ queue("bye")
  /\ UNCHANGED <<mailboxVars, endVars, writerVars, connVars, daemon, registered, peer>>

-----------------------------------------------------------------------------
(* The writer. *)
at(place) == writer' = place /\ UNCHANGED <<started, current, wire, passed>>
same == UNCHANGED <<sent, frames, endVars, connVars, serverVars, peer>>

start ==
  /\ writer = "unstarted"
  /\ started' = TRUE /\ writer' = "polling"
  /\ UNCHANGED <<ctrl, pending, busy, frameReady, current, wire, passed>> /\ same

TakeControl(place) ==
  /\ writer = place /\ ctrl # <<>>
  /\ current' = <<Head(ctrl)>> /\ ctrl' = Tail(ctrl)
  /\ writer' = (IF place = "flushing" THEN "flushWriting" ELSE "writing") /\ passed' = 0
  /\ UNCHANGED <<pending, busy, frameReady, started, wire>> /\ same

(* The first select: a control message, if there is one, goes first. *)
looked_away == TRUE                        \* fault: no look before the second select
looked == ctrl = <<>>

poll ==
  /\ writer = "polling" /\ looked
  /\ at("selecting")
  /\ UNCHANGED <<ctrl, pending, busy, frameReady>> /\ same

(* The second: whatever is ready.  Closed means leave, draining means      *)
(* write what is queued and leave.                                         *)
sawClosed == closed

selectClosed ==
  /\ writer = "selecting" /\ sawClosed
  /\ at("exited")
  /\ UNCHANGED <<ctrl, pending, busy, frameReady>> /\ same

drainTo_exit == "exited"                   \* fault: draining is taken for closed
drainTo == "flushing"

selectDraining ==
  /\ writer = "selecting" /\ draining
  /\ at(drainTo)
  /\ UNCHANGED <<ctrl, pending, busy, frameReady>> /\ same

selectFrame ==
  /\ writer = "selecting" /\ frameReady = 1
  /\ frameReady' = 0
  /\ at("taking")
  /\ UNCHANGED <<ctrl, pending, busy>> /\ same

takeFrame ==
  /\ writer = "taking"
  /\ pending' = FALSE /\ busy' = pending
  /\ IF pending
     THEN /\ current' = <<AFrame>> /\ writer' = "writing"
          /\ passed' = IF ctrl = <<>> THEN passed ELSE passed + 1
     ELSE writer' = "polling" /\ UNCHANGED <<current, passed>>
  /\ UNCHANGED <<ctrl, frameReady, started, wire>> /\ same

(* A write returns: done, or failed, which closes the client. *)
written ==
  /\ writer \in {"writing", "flushWriting"} /\ Open
  /\ wire' = IF current = <<AFrame>> THEN wire ELSE wire \o current
  /\ busy' = FALSE /\ current' = <<>>
  /\ writer' = IF writer = "writing" THEN "polling" ELSE "flushing"
  /\ UNCHANGED <<ctrl, pending, frameReady, started, passed>> /\ same

writeFailed ==
  /\ writer \in {"writing", "flushWriting"} /\ ~Open
  /\ closed' = TRUE
  /\ busy' = FALSE /\ current' = <<>> /\ writer' = "exited"
  /\ UNCHANGED <<queueVars, pending, frameReady, frames, draining, started, wire, passed,
                 connVars, serverVars, peer>>

flushDone ==
  /\ writer = "flushing" /\ ctrl = <<>>
  /\ at("exited")
  /\ UNCHANGED <<ctrl, pending, busy, frameReady>> /\ same

-----------------------------------------------------------------------------
(* The connection's goroutine on its way out: quit after a kill-server;    *)
(* removeClient; closeAfterFlush, which waits for the writer if it has     *)
(* started, but not for ever.                                              *)
quit ==
  /\ conn = "quitting" /\ conn' = "removing"
  /\ daemon' = IF daemon = "up" THEN "quitting" ELSE daemon
  /\ UNCHANGED <<queueVars, mailboxVars, endVars, writerVars, then, flushed, other,
                 registered, peer>>

removeClient ==
  /\ conn = "removing" /\ Unlocked
  /\ registered' = FALSE /\ conn' = "draining"
  /\ UNCHANGED <<queueVars, mailboxVars, endVars, writerVars, then, flushed, other, daemon, peer>>

drain ==
  /\ conn = "draining"
  /\ draining' = started
  /\ conn' = IF started THEN "waiting" ELSE "closing"
  /\ UNCHANGED <<queueVars, mailboxVars, closed, writerVars, then, flushed, serverVars, peer>>

writerDone ==
  /\ conn = "waiting" /\ writer = "exited"
  /\ flushed' = TRUE /\ conn' = "closing"
  /\ UNCHANGED <<queueVars, mailboxVars, endVars, writerVars, then, serverVars, peer>>

patience_endless == FALSE                  \* fault: no timer
patience == TRUE

flushTimeout ==
  /\ conn = "waiting" /\ patience
  /\ conn' = "closing"
  /\ UNCHANGED <<queueVars, mailboxVars, endVars, writerVars, then, flushed, serverVars, peer>>

close ==
  /\ conn = "closing" /\ conn' = "gone"
  /\ closed' = TRUE
  /\ UNCHANGED <<queueVars, mailboxVars, draining, writerVars, then, flushed, serverVars, peer>>

(* Run, once somebody has asked the daemon to stop: it takes the list of   *)
(* clients, closes them and exits.                                         *)
stopDaemon ==
  /\ daemon = "up" /\ daemon' = "quitting"
  /\ UNCHANGED <<queueVars, mailboxVars, endVars, writerVars, connVars, other, registered, peer>>

shutdownAll ==
  /\ daemon = "quitting" /\ Unlocked
  /\ daemon' = IF registered THEN "closing" ELSE "exited"
  /\ registered' = FALSE
  /\ UNCHANGED <<queueVars, mailboxVars, endVars, writerVars, connVars, other, peer>>

closeClient ==
  /\ daemon = "closing" /\ daemon' = "exited"
  /\ closed' = TRUE
  /\ UNCHANGED <<queueVars, mailboxVars, draining, writerVars, connVars, other, registered, peer>>

-----------------------------------------------------------------------------
Serve == readFailed \/ \E next \in {"serving", "removing", "quitting"} : serve(next)
Leaving == quit \/ removeClient \/ drain \/ writerDone \/ close
Writer ==
  \/ start \/ poll \/ selectClosed \/ selectDraining \/ selectFrame \/ takeFrame
  \/ writeFailed \/ flushDone
  \/ \E place \in {"polling", "selecting", "flushing"} : TakeControl(place)
Daemon == shutdownAll \/ closeClient

(* Nothing runs after the daemon has exited. *)
Alive == daemon # "exited"

Next ==
  /\ Alive
  /\ \/ Serve \/ send \/ hangUp \/ trySend \/ offerFrame \/ sessionEmptied \/ sendBye
     \/ Writer \/ written \/ Leaving \/ flushTimeout \/ stopDaemon \/ Daemon

(* A goroutine that is not blocked runs, and timers fire.  A client may    *)
(* stop reading: a write to it need not return before the connection ends. *)
Fairness ==
  /\ WF_vars(Alive /\ Writer) /\ WF_vars(Alive /\ Leaving) /\ WF_vars(Alive /\ flushTimeout)
  /\ WF_vars(Alive /\ send) /\ WF_vars(Alive /\ sendBye) /\ WF_vars(Alive /\ readFailed)
  /\ WF_vars(Alive /\ Daemon)

Spec == Init /\ [][Next]_vars /\ Fairness

-----------------------------------------------------------------------------
TypeOK ==
  /\ ctrl \in Seq(Control) /\ Len(ctrl) <= CtrlQueueSize
  /\ pending \in BOOLEAN /\ busy \in BOOLEAN /\ frameReady \in 0..1
  /\ closed \in BOOLEAN /\ draining \in BOOLEAN /\ started \in BOOLEAN
  /\ writer \in {"unstarted", "polling", "selecting", "taking", "writing", "flushing",
                 "flushWriting", "exited"}
  /\ current \in Seq(Message) /\ wire \in Seq(Control)
  /\ conn \in {"serving", "sending", "quitting", "removing", "draining", "waiting",
               "closing", "gone"}
  /\ then \in {"serving", "removing", "quitting"} /\ flushed \in BOOLEAN
  /\ other \in {"idle", "sending", "done"}
  /\ daemon \in {"up", "quitting", "closing", "exited"}
  /\ registered \in BOOLEAN /\ peer \in BOOLEAN
  /\ sent \in 0..MaxSend /\ frames \in 0..MaxFrame /\ passed \in 0..MaxFrame

(* "Let a bye queued just before returning reach the wire before the       *)
(* connection closes" (server.go:580): a goroutine whose wait for the      *)
(* writer was answered closes a connection that has no bye left to write,  *)
(* whoever queued it and whatever else was queued.                         *)
ByeFlushed ==
  conn = "closing" /\ flushed /\ ~closed => \A m \in ToSet(ctrl) : m.kind # "bye"

(* "A reply or a bye is never stuck behind a large frame that has not been *)
(* painted yet": at most the one frame that the select had picked is put   *)
(* on the wire ahead of a queued message.                                  *)
ControlFirst == passed <= 1

(* The mailbox and its token go together, however offers, the select and   *)
(* the taking interleave: no frame is left lying, and no token comes       *)
(* without a frame.                                                        *)
FrameHasToken == pending <=> (frameReady = 1 \/ writer = "taking")

(* Types, and the mailbox in step with its token. *)
MailboxOK == TypeOK /\ FrameHasToken

(* A client that detaches, hangs up or is cut off is let go, even when it  *)
(* stopped reading in the middle of a frame.                               *)
ConnEnds == (conn = "removing") ~> (conn = "gone" \/ daemon = "exited")

(* And its writer ends with it. *)
WriterEnds == (conn = "gone") ~> (writer = "exited" \/ daemon = "exited")

(* Nothing of a connection outlives it. *)
NothingIsLeft == ConnEnds /\ WriterEnds
=============================================================================
