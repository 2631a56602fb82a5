--------------------------- MODULE ClientWriterProofs ---------------------------
(***************************************************************************)
(* Proofs about ClientWriter for any queue size and any number of messages *)
(* and frames.  A frame passes a queued message only between two looks at  *)
(* the queue, of which the second finds the message.  A bye is safe        *)
(* because nobody is left to queue one when the writer is told to drain:   *)
(* the connection's goroutine is done serving, and the client, out of the  *)
(* server's list, is no longer found by the end of its session.            *)
(***************************************************************************)
EXTENDS ClientWriter, TLAPS

(* The mailbox, its token and the writer that takes from it. *)
Mailbox ==
  /\ pending <=> (frameReady = 1 \/ writer = "taking")
  /\ writer = "taking" => frameReady = 0
  /\ pending => frames > 0

(* What the writer holds: nothing, or one message. *)
Holds == current = <<>> \/ \E m \in Message : current = <<m>>

(* A message that a frame passed is still queued, and the next look finds it. *)
Passed ==
  passed > 0 => passed = 1 /\ ctrl # <<>> /\ writer \in {"writing", "polling", "exited"}

(* Who is on the way out can no longer be sent a bye. *)
Left ==
  /\ conn \in {"draining", "waiting", "closing", "gone"} => ~registered
  /\ ~registered => other # "sending"
  /\ draining => conn \in {"waiting", "closing", "gone"}

(* A writer that was not cut off has written every bye. *)
Flushed ==
  /\ writer \in {"flushing", "flushWriting"} => draining
  /\ writer = "exited" /\ ~closed => draining /\ \A i \in DOMAIN ctrl : ctrl[i].kind # "bye"
  /\ flushed => writer = "exited"

IInv == TypeOK /\ Mailbox /\ Holds /\ Passed /\ Left /\ Flushed

-----------------------------------------------------------------------------
LEMMA InitInvariant == Init => IInv
PROOF
<1> SUFFICES ASSUME Init PROVE IInv
  OBVIOUS
<1> USE DEF Init
<1>1. /\ pending \in BOOLEAN /\ busy \in BOOLEAN /\ closed \in BOOLEAN /\ draining \in BOOLEAN
      /\ started \in BOOLEAN /\ flushed \in BOOLEAN /\ registered \in BOOLEAN /\ peer \in BOOLEAN
  BY Zenon
<1>2. TypeOK
  BY <1>1, ClientWriterAssumption DEF TypeOK
<1> QED BY <1>2 DEF IInv, Mailbox, Holds, Passed, Left, Flushed

(* What the connection's goroutine, the daemon and the client do beside    *)
(* queueing and closing. *)
Comings ==
  \/ Serve \/ hangUp \/ sessionEmptied \/ quit \/ removeClient \/ drain \/ writerDone
  \/ flushTimeout \/ stopDaemon \/ shutdownAll

LEMMA ComingsInvariant == IInv /\ Comings => IInv'
PROOF
<1> SUFFICES ASSUME IInv, Comings PROVE IInv'
  OBVIOUS
<1> USE DEF Comings, Serve, hangUp, sessionEmptied, quit, removeClient, drain, writerDone,
            flushTimeout, stopDaemon, shutdownAll, serve, readFailed
<1>1. TypeOK /\ Mailbox /\ Holds /\ Passed /\ Left /\ Flushed
  BY DEF IInv
<1>2. UNCHANGED <<queueVars, mailboxVars, writerVars, closed>>
  BY DEF endVars
<1>3. Mailbox' /\ Holds' /\ Passed'
  <2> HIDE DEF Comings
  <2> QED BY <1>1, <1>2 DEF Mailbox, Holds, Passed, queueVars, mailboxVars, writerVars
<1>4. TypeOK'
  <2>1. /\ conn' \in {"serving", "sending", "quitting", "removing", "draining", "waiting",
                      "closing", "gone"}
        /\ then' \in {"serving", "removing", "quitting"}
    BY <1>1 DEF TypeOK, connVars
  <2>2. other' \in {"idle", "sending", "done"} /\ daemon' \in {"up", "quitting", "closing", "exited"}
    BY <1>1 DEF TypeOK, serverVars
  <2>3. draining' \in {draining, started} /\ flushed' \in {flushed, TRUE}
        /\ registered' \in {registered, FALSE} /\ peer' \in {peer, FALSE}
    BY Zenon DEF endVars, connVars, serverVars
  <2> HIDE DEF Comings
  <2>4. /\ draining' \in BOOLEAN /\ flushed' \in BOOLEAN /\ registered' \in BOOLEAN
        /\ peer' \in BOOLEAN
    BY <1>1, <2>3, Zenon DEF TypeOK
  <2> QED BY <1>1, <1>2, <2>1, <2>2, <2>4 DEF TypeOK, queueVars, mailboxVars, writerVars
<1>5. Left'
  BY <1>1 DEF Left, TypeOK, endVars, connVars, serverVars, Unlocked
<1>6. Flushed'
  BY <1>1, <1>2 DEF Flushed, Left, queueVars, writerVars, endVars, connVars
<1> QED BY <1>3, <1>4, <1>5, <1>6 DEF IInv

LEMMA CloseInvariant == IInv /\ (close \/ closeClient) => IInv'
PROOF
<1> SUFFICES ASSUME IInv, close \/ closeClient PROVE IInv'
  OBVIOUS
<1> USE DEF close, closeClient, IInv
<1>1. /\ UNCHANGED <<queueVars, mailboxVars, writerVars, draining, then, flushed, other,
                     registered, peer>>
      /\ closed' = TRUE
  BY DEF connVars, serverVars
<1>2. Mailbox' /\ Holds' /\ Passed'
  BY <1>1 DEF Mailbox, Holds, Passed, queueVars, mailboxVars, writerVars
<1>3. TypeOK'
  <2>1. closed' \in BOOLEAN
    BY <1>1, Zenon
  <2>2. conn' \in {conn, "gone"} /\ daemon' \in {daemon, "exited"}
    BY DEF connVars, serverVars
  <2> QED BY <1>1, <2>1, <2>2 DEF TypeOK, queueVars, mailboxVars, writerVars
<1>4. Left' /\ Flushed'
  BY <1>1 DEF Left, Flushed, queueVars, writerVars, connVars, serverVars
<1> QED BY <1>2, <1>3, <1>4

LEMMA QueueInvariant == IInv /\ (send \/ sendBye \/ trySend) => IInv'
PROOF
<1> SUFFICES ASSUME IInv, send \/ sendBye \/ trySend PROVE IInv'
  OBVIOUS
<1> USE DEF send, sendBye, trySend
<1>1. TypeOK /\ Mailbox /\ Holds /\ Passed /\ Left /\ Flushed
  BY DEF IInv
<1>2. /\ UNCHANGED <<mailboxVars, endVars, writerVars, then, flushed, daemon, registered, peer>>
      /\ conn' \in {conn, then} /\ other' \in {other, "done"}
      /\ conn' # conn => conn = "sending"
  BY DEF connVars, serverVars
<1>3. \/ UNCHANGED queueVars
      \/ queue("reply")
      \/ queue("bye") /\ (conn = "sending" \/ other = "sending")
  BY DEF giveUp, sendKind
<1> HIDE DEF send, sendBye, trySend
<1> USE DEF queueVars, mailboxVars, endVars, writerVars
<1>4. ctrl' \in Seq(Control) /\ Len(ctrl') <= CtrlQueueSize /\ sent' \in 0..MaxSend
      /\ (ctrl # <<>> => ctrl' # <<>>)
  <2>1. ASSUME NEW kind \in {"reply", "bye"}, queue(kind)
        PROVE  /\ ctrl' \in Seq(Control) /\ Len(ctrl') <= CtrlQueueSize /\ sent' \in 0..MaxSend
               /\ ctrl' # <<>>
    <3>1. [kind |-> kind, nth |-> sent'] \in Control
      BY <1>1, <2>1, ClientWriterAssumption DEF queue, TypeOK, Control
    <3> QED BY <1>1, <2>1, <3>1, ClientWriterAssumption DEF queue, room, TypeOK
  <2> QED BY <1>1, <1>3, <2>1 DEF TypeOK
<1>5. TypeOK'
  BY <1>1, <1>2, <1>4 DEF TypeOK
<1>6. Mailbox' /\ Holds' /\ Passed'
  BY <1>1, <1>2, <1>4 DEF Mailbox, Holds, Passed
<1>7. Left'
  BY <1>1, <1>2 DEF Left, TypeOK
<1>8. Flushed'
  <2>1. CASE writer = "exited" /\ ~closed
    <3>1. draining /\ conn # "sending" /\ other # "sending"
      BY <1>1, <2>1 DEF Flushed, Left
    <3>2. UNCHANGED ctrl \/ ctrl' = Append(ctrl, [kind |-> "reply", nth |-> sent'])
      BY <1>3, <3>1 DEF queue
    <3>3. \A i \in DOMAIN ctrl' : ctrl'[i].kind # "bye"
      <4>1. \A i \in DOMAIN ctrl : ctrl[i].kind # "bye"
        BY <1>1, <2>1 DEF Flushed
      <4>2. CASE ctrl' = Append(ctrl, [kind |-> "reply", nth |-> sent'])
        <5> DEFINE e == [kind |-> "reply", nth |-> sent']
        <5>1. /\ DOMAIN ctrl' = 1..(Len(ctrl) + 1) /\ DOMAIN ctrl = 1..Len(ctrl)
              /\ \A i \in 1..Len(ctrl) : ctrl'[i] = ctrl[i]
              /\ ctrl'[Len(ctrl) + 1] = e /\ Len(ctrl) \in Nat
          BY <1>1, <4>2 DEF TypeOK
        <5>2. e.kind # "bye"
          OBVIOUS
        <5> HIDE DEF e
        <5>3. \A i \in DOMAIN ctrl' : i \in DOMAIN ctrl \/ i = Len(ctrl) + 1
          BY <5>1
        <5> QED BY <4>1, <5>1, <5>2, <5>3
      <4> QED BY <3>2, <4>1, <4>2
    <3> QED BY <1>1, <1>2, <3>1, <3>3 DEF Flushed
  <2>2. CASE ~(writer = "exited" /\ ~closed)
    BY <1>1, <1>2, <2>2 DEF Flushed
  <2> QED BY <2>1, <2>2
<1> QED BY <1>5, <1>6, <1>7, <1>8 DEF IInv

LEMMA OfferInvariant == IInv /\ offerFrame => IInv'
PROOF
<1> SUFFICES ASSUME IInv, offerFrame PROVE IInv'
  OBVIOUS
<1> USE DEF offerFrame, offered, IInv
<1>1. /\ UNCHANGED <<queueVars, busy, endVars, writerVars, connVars, serverVars, peer>>
      /\ pending' = TRUE /\ frameReady' = 1 /\ frames' = frames + 1 /\ ~pending
      /\ frames < MaxFrame
  OBVIOUS
<1> HIDE DEF offerFrame
<1> USE DEF queueVars, endVars, writerVars, connVars, serverVars
<1>2. TypeOK'
  <2>1. pending' \in BOOLEAN
    BY <1>1, Zenon
  <2>2. frames' \in 0..MaxFrame /\ frames' > 0
    BY <1>1, ClientWriterAssumption DEF TypeOK
  <2> QED BY <1>1, <2>1, <2>2 DEF TypeOK
<1>3. Mailbox'
  <2>1. writer # "taking"
    BY <1>1 DEF Mailbox
  <2>2. frames' > 0
    BY <1>1 DEF TypeOK
  <2> QED BY <1>1, <2>1, <2>2 DEF Mailbox
<1>4. Holds' /\ Passed' /\ Left' /\ Flushed'
  BY <1>1 DEF Holds, Passed, Left, Flushed
<1> QED BY <1>2, <1>3, <1>4

(* The writer looks, or leaves. *)
Looks == start \/ poll \/ selectClosed \/ selectDraining \/ selectFrame \/ flushDone

LEMMA LooksInvariant == IInv /\ Looks => IInv'
PROOF
<1> SUFFICES ASSUME IInv, Looks PROVE IInv'
  OBVIOUS
<1> USE DEF Looks, start, poll, selectClosed, selectDraining, selectFrame, flushDone, at, same
<1>1. TypeOK /\ Mailbox /\ Holds /\ Passed /\ Left /\ Flushed
  BY DEF IInv
<1>2. UNCHANGED <<ctrl, sent, pending, busy, frames, current, wire, passed, endVars, connVars,
                  serverVars, peer>>
  OBVIOUS
<1>3. TypeOK'
  <2>1. started' \in BOOLEAN
    <3>1. started' = started \/ started' = TRUE
      BY Zenon
    <3> QED BY <1>1, <3>1, Zenon DEF TypeOK
  <2>2. frameReady' \in {frameReady, 0}
    OBVIOUS
  <2>3. writer' \in {"polling", "selecting", "taking", "flushing", "exited"}
    BY DEF drainTo
  <2> HIDE DEF Looks
  <2> QED BY <1>1, <1>2, <2>1, <2>2, <2>3 DEF TypeOK, endVars, connVars, serverVars
<1>4. Mailbox'
  BY <1>1 DEF Mailbox, TypeOK, drainTo
<1>5. Passed'
  BY <1>1, <1>2 DEF Passed, looked
<1>6. Holds' /\ Left'
  BY <1>1, <1>2 DEF Holds, Left, endVars, connVars, serverVars
<1>7. Flushed'
  BY <1>1, <1>2 DEF Flushed, endVars, connVars, sawClosed, drainTo, TypeOK
<1> QED BY <1>3, <1>4, <1>5, <1>6, <1>7 DEF IInv

LEMMA TakeInvariant ==
  ASSUME IInv,
         takeFrame \/ \E place \in {"polling", "selecting", "flushing"} : TakeControl(place)
  PROVE  IInv'
PROOF
<1>1. TypeOK /\ Mailbox /\ Holds /\ Passed /\ Left /\ Flushed
  BY DEF IInv
<1>2. UNCHANGED <<sent, frames, started, wire, endVars, connVars, serverVars, peer>>
  BY DEF takeFrame, TakeControl, same
<1>3. CASE takeFrame
  <2>1. /\ UNCHANGED <<ctrl, frameReady>> /\ writer = "taking" /\ frameReady = 0 /\ pending
        /\ pending' = FALSE /\ busy' = TRUE /\ current' = <<AFrame>> /\ writer' = "writing"
        /\ passed = 0 /\ passed' = IF ctrl = <<>> THEN passed ELSE passed + 1
    BY <1>1, <1>3 DEF takeFrame, Mailbox, Passed, TypeOK
  <2>2. passed' \in 0..MaxFrame /\ (passed' > 0 => passed' = 1 /\ ctrl # <<>>)
    <3>1. frames \in 0..MaxFrame /\ frames > 0 /\ MaxFrame \in Nat
      BY <1>1, <2>1, ClientWriterAssumption DEF TypeOK, Mailbox
    <3>2. 1 \in 0..MaxFrame /\ 0 \in 0..MaxFrame
      BY <3>1
    <3> QED BY <2>1, <3>2
  <2>3. TypeOK'
    <3>1. pending' \in BOOLEAN /\ busy' \in BOOLEAN
      BY <2>1, Zenon
    <3>2. current' \in Seq(Message)
      BY <2>1 DEF Message
    <3> QED BY <1>1, <1>2, <2>1, <2>2, <3>1, <3>2 DEF TypeOK, endVars, connVars, serverVars
  <2>4. Mailbox' /\ Holds' /\ Passed'
    BY <1>1, <1>2, <2>1, <2>2 DEF Mailbox, Holds, Passed, Message
  <2>5. Left' /\ Flushed'
    BY <1>1, <1>2, <2>1 DEF Left, Flushed, endVars, connVars, serverVars
  <2> QED BY <2>3, <2>4, <2>5 DEF IInv
<1>4. ASSUME NEW place \in {"polling", "selecting", "flushing"}, TakeControl(place)
      PROVE  IInv'
  <2>1. /\ UNCHANGED <<pending, busy, frameReady>> /\ writer = place /\ ctrl # <<>>
        /\ current' = <<Head(ctrl)>> /\ ctrl' = Tail(ctrl) /\ passed' = 0
        /\ writer' = (IF place = "flushing" THEN "flushWriting" ELSE "writing")
    BY <1>4 DEF TakeControl
  <2>2. Head(ctrl) \in Control /\ ctrl' \in Seq(Control) /\ Len(ctrl') <= CtrlQueueSize
    BY <1>1, <2>1, ClientWriterAssumption DEF TypeOK
  <2>3. TypeOK'
    <3>1. current' \in Seq(Message)
      BY <2>1, <2>2 DEF Message
    <3>2. passed' \in 0..MaxFrame
      BY <2>1, ClientWriterAssumption
    <3> QED BY <1>1, <1>2, <2>1, <2>2, <3>1, <3>2 DEF TypeOK, endVars, connVars, serverVars
  <2>4. Mailbox' /\ Holds' /\ Passed'
    BY <1>1, <1>2, <2>1, <2>2 DEF Mailbox, Holds, Passed, Message
  <2>5. Left' /\ Flushed'
    BY <1>1, <1>2, <2>1 DEF Left, Flushed, endVars, connVars, serverVars
  <2> QED BY <2>3, <2>4, <2>5 DEF IInv
<1> QED BY <1>3, <1>4

LEMMA WriteInvariant == IInv /\ (written \/ writeFailed) => IInv'
PROOF
<1> SUFFICES ASSUME IInv, written \/ writeFailed PROVE IInv'
  OBVIOUS
<1>1. TypeOK /\ Mailbox /\ Holds /\ Passed /\ Left /\ Flushed
  BY DEF IInv
<1>2. /\ UNCHANGED <<ctrl, sent, pending, frameReady, frames, draining, started, passed, connVars,
                     serverVars, peer>>
      /\ writer \in {"writing", "flushWriting"} /\ busy' = FALSE /\ current' = <<>>
  BY DEF written, writeFailed, same, queueVars, endVars
<1>3. \/ /\ closed' = closed /\ wire' = IF current = <<AFrame>> THEN wire ELSE wire \o current
         /\ writer' = IF writer = "writing" THEN "polling" ELSE "flushing"
      \/ closed' = TRUE /\ wire' = wire /\ writer' = "exited"
  BY DEF written, writeFailed, same, endVars
<1>4. wire' \in Seq(Control)
  <2>1. CASE current = <<>> \/ current = <<AFrame>>
    <3>1. wire \in Seq(Control)
      BY <1>1 DEF TypeOK
    <3>2. current = <<>> => wire \o current = wire
      BY <3>1
    <3>3. wire' = wire
      BY <1>3, <2>1, <3>2
    <3> QED BY <3>1, <3>3
  <2>2. ASSUME NEW m \in Control, current = <<m>> PROVE wire' \in Seq(Control)
    <3>1. wire \in Seq(Control) /\ current \in Seq(Control)
      BY <1>1, <2>2 DEF TypeOK
    <3>2. wire \o current \in Seq(Control)
      BY <3>1
    <3> QED BY <1>3, <3>1, <3>2
  <2> QED BY <1>1, <2>1, <2>2 DEF Holds, Message
<1>5. TypeOK'
  <2>1. busy' \in BOOLEAN /\ closed' \in BOOLEAN
    <3>1. closed' = closed \/ closed' = TRUE
      BY <1>3
    <3> QED BY <1>1, <1>2, <3>1, Zenon DEF TypeOK
  <2> QED BY <1>1, <1>2, <1>3, <1>4, <2>1 DEF TypeOK, connVars, serverVars
<1>6. Mailbox' /\ Holds' /\ Passed'
  BY <1>1, <1>2, <1>3 DEF Mailbox, Holds, Passed
<1>7. Left' /\ Flushed'
  BY <1>1, <1>2, <1>3 DEF Left, Flushed, connVars, serverVars
<1> QED BY <1>5, <1>6, <1>7 DEF IInv

LEMMA StepInvariant == IInv /\ [Next]_vars => IInv'
PROOF
<1> SUFFICES ASSUME IInv, [Next]_vars PROVE IInv'
  OBVIOUS
<1>1. CASE UNCHANGED vars
  BY <1>1 DEF vars, queueVars, mailboxVars, endVars, writerVars, connVars, serverVars,
              IInv, TypeOK, Mailbox, Holds, Passed, Left, Flushed
<1>2. CASE Next
  <2>1. \/ Comings \/ close \/ closeClient \/ send \/ sendBye \/ trySend \/ offerFrame \/ Looks
        \/ takeFrame \/ written \/ writeFailed
        \/ \E place \in {"polling", "selecting", "flushing"} : TakeControl(place)
    BY <1>2 DEF Next, Comings, Looks, Leaving, Writer, Daemon
  <2> QED BY <2>1, ComingsInvariant, CloseInvariant, QueueInvariant, OfferInvariant,
             LooksInvariant, TakeInvariant, WriteInvariant
<1> QED BY <1>1, <1>2

LEMMA SpecInvariant == Spec => []IInv
BY InitInvariant, StepInvariant, PTL DEF Spec

(* The mailbox and its token stay together: no frame is left lying and no  *)
(* token comes without one, for any queue size and any number of frames.   *)
THEOREM WriterMailbox == Spec => []MailboxOK
PROOF
<1>1. IInv => MailboxOK
  BY DEF IInv, MailboxOK, Mailbox, FrameHasToken
<1> QED BY <1>1, SpecInvariant, PTL

(* A connection whose wait for the writer was answered leaves no bye in    *)
(* the queue, whoever queued it and whatever else was queued.              *)
THEOREM WriterFlushesByes == Spec => []ByeFlushed
PROOF
<1>1. IInv => ByeFlushed
  <2> SUFFICES ASSUME IInv, flushed, ~closed, NEW m \in ToSet(ctrl) PROVE m.kind # "bye"
    BY DEF ByeFlushed
  <2>1. \A i \in DOMAIN ctrl : ctrl[i].kind # "bye"
    BY DEF IInv, Flushed
  <2>2. PICK i \in DOMAIN ctrl : m = ctrl[i]
    BY DEF ToSet
  <2> QED BY <2>1, <2>2
<1> QED BY <1>1, SpecInvariant, PTL

(* At most the one frame that was already picked goes ahead of a queued    *)
(* message.                                                                *)
THEOREM WriterControlFirst == Spec => []ControlFirst
PROOF
<1>1. IInv => ControlFirst
  BY DEF IInv, Passed, ControlFirst, TypeOK
<1> QED BY <1>1, SpecInvariant, PTL
=============================================================================
