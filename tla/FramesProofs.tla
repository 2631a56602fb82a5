----------------------------- MODULE FramesProofs -----------------------------
(***************************************************************************)
(* The frame mailbox never hands over a diff that does not fit the screen  *)
(* it will meet, for any clients, sessions and number of changes.          *)
(*                                                                         *)
(* The argument is that `shown` is always the picture the terminal will    *)
(* have once what is in the mailbox or on the wire has been written, and   *)
(* that only one of the two is ever occupied: a diff painted from `shown`  *)
(* when both are free is a diff from the screen.                           *)
(***************************************************************************)
EXTENDS Frames, TLAPS

(* The picture the terminal will have when the writer has caught up. *)
Coming(c) ==
  IF pending[c] # Nothing THEN pending[c].to
  ELSE IF wire[c] # Nothing THEN wire[c].to ELSE screen[c]

AtASession == tick.at \in {"asking", "composing", "offering"} => tick.sess \in Session
OneAtATime == \A c \in Client : pending[c] = Nothing \/ wire[c] = Nothing
ShownIsComing == \A c \in Client : shown[c] = Coming(c)

IInv == TypeOK /\ AtASession /\ OneAtATime /\ ShownIsComing /\ DiffsFit

-----------------------------------------------------------------------------
(* A picture is not blank, and so a diff that leads to one is something.   *)
LEMMA FrameNotBlank == Blank \notin Frame
  BY FramesAssumption DEF Blank, Frame, NoSession

LEMMA Versions ==
  0 \in Version /\ \A v \in Version : v < MaxVersion => v + 1 \in Version
<1>1. MaxVersion \in Nat
  BY FramesAssumption
<1> QED  BY <1>1 DEF Version

LEMMA DiffToFrame ==
  ASSUME NEW f \in Frame, NEW b \in Frame \cup {Blank}
  PROVE  [from |-> b, to |-> f] \in Diff /\ [from |-> b, to |-> f] # Nothing
<1>1. [from |-> b, to |-> f] \in Diff
  BY DEF Diff
<1>2. [from |-> b, to |-> f] # Nothing
  BY FrameNotBlank DEF Nothing
<1> QED  BY <1>1, <1>2

(* Before the first tick nothing is owed and nothing is shown. *)
LEMMA InitEstablishes == Init => IInv
<1> SUFFICES ASSUME Init PROVE IInv
  OBVIOUS
<1>1. TypeOK
  <2>1. Reading \in [at : {"read", "mark", "reset"}, sess : Session \cup {NoSession},
                     reset : BOOLEAN]
    BY DEF Reading
  <2>2. NoTick \in [at : {"idle", "grouping", "choosing", "asking", "composing", "offering"},
                    group : [Client -> Session \cup {NoSession}], todo : SUBSET Session,
                    sess : Session \cup {NoSession},
                    left : SUBSET Client, frame : Frame \cup {Blank}]
    BY DEF NoTick
  <2>3. Nothing \in Diff /\ 0 \in Version
    <3>1. Nothing \in Diff
      BY DEF Diff
    <3>2. 0 \in Version
      BY Versions
    <3> QED  BY <3>1, <3>2
  <2>4. tick.at # "offering"
    BY DEF Init, NoTick
  <2> QED  BY <2>1, <2>2, <2>3, <2>4 DEF Init, TypeOK
<1>2. AtASession
  BY DEF Init, AtASession, NoTick
<1>3. OneAtATime /\ ShownIsComing
  BY DEF Init, OneAtATime, ShownIsComing, Coming
<1>4. DiffsFit
  BY DEF Init, DiffsFit, Nothing
<1> QED  BY <1>1, <1>2, <1>3, <1>4 DEF IInv

-----------------------------------------------------------------------------
(* What a connection or a shell does: it leaves mailbox, wire and screen   *)
(* as they are.                                                            *)
LEMMA ConnectionStep ==
  ASSUME IInv,
         \/ \E s \in Session : output(s)
         \/ \E c \in Client :
              \/ refresh(c) \/ setPassthrough(c) \/ Connection(c)
              \/ \E resets \in BOOLEAN : command(c, resets)
              \/ \E s \in Session : attach(c, s) \/ switchSession(c, s)
  PROVE  IInv'
<1> USE DEF IInv, TypeOK
<1>1. UNCHANGED <<pending, wire, shown, screen, tick>>
  BY DEF output, refresh, setPassthrough, Connection, markDirty, reset, command, attach,
         switchSession, mailboxVars
<1>2. OneAtATime' /\ ShownIsComing' /\ DiffsFit' /\ AtASession'
  BY <1>1 DEF OneAtATime, ShownIsComing, Coming, DiffsFit, AtASession
<1>3. ASSUME NEW s \in Session, Change(s) PROVE version' \in [Session -> Version]
  <2>1. version[s] \in Version /\ version[s] < MaxVersion
    BY <1>3 DEF Change
  <2>2. version[s] + 1 \in Version
    BY <2>1, Versions
  <2>3. version' = [version EXCEPT ![s] = version[s] + 1]
    BY <1>3 DEF Change
  <2>4. version \in [Session -> Version]
    OBVIOUS
  <2> HIDE DEF IInv, TypeOK
  <2> QED  BY <2>2, <2>3, <2>4
<1>4. ASSUME NEW c \in Client, NEW s \in Session \cup {NoSession}, NEW r \in BOOLEAN,
             Busy(c, s, r)
      PROVE  conn' \in [Client -> [at : {"read", "mark", "reset"},
                                   sess : Session \cup {NoSession}, reset : BOOLEAN]]
  BY <1>4 DEF Busy
<1>5. ASSUME NEW c \in Client, repaintOwed(c)
      PROVE  hasShown' \in [Client -> BOOLEAN] /\ \A d \in Client : hasShown'[d] => hasShown[d]
  BY <1>5 DEF repaintOwed
<1>6. ASSUME NEW s \in Session, output(s) PROVE TypeOK'
  BY <1>1, <1>3, <1>6 DEF output, mailboxVars
<1>7. ASSUME NEW c \in Client, NEW r \in BOOLEAN, command(c, r) PROVE TypeOK'
  <2>1. view[c] \in Session
    BY <1>7 DEF command, Attached
  <2> QED  BY <1>1, <1>3, <1>4, <1>7, <2>1 DEF command, mailboxVars
<1>8. ASSUME NEW c \in Client, NEW s \in Session, attach(c, s) PROVE TypeOK'
  BY <1>1, <1>8 DEF attach, sessionVars, mailboxVars
<1>9. ASSUME NEW c \in Client, NEW s \in Session, switchSession(c, s) PROVE TypeOK'
  <2>1. view[c] \in Session \cup {NoSession} /\ Busy(c, view[c], TRUE) /\ repaintOwed(c)
    BY <1>9 DEF switchSession
  <2>2. view' \in [Client -> Session \cup {NoSession}]
    BY <1>9 DEF switchSession
  <2> QED  BY <1>1, <1>4, <1>5, <1>9, <2>1, <2>2 DEF switchSession, sessionVars
<1>10. ASSUME NEW c \in Client, refresh(c) \/ setPassthrough(c) PROVE TypeOK'
  BY <1>1, <1>5, <1>10 DEF refresh, setPassthrough, sessionVars
<1>11. ASSUME NEW c \in Client, markDirty(c) PROVE TypeOK'
  <2>1. conn[c] \in [at : {"read", "mark", "reset"}, sess : Session \cup {NoSession},
                     reset : BOOLEAN]
    OBVIOUS
  <2>2. conn' \in [Client -> [at : {"read", "mark", "reset"},
                              sess : Session \cup {NoSession}, reset : BOOLEAN]]
    BY <1>11, <2>1 DEF markDirty, Reading
  <2>3. dirty' \in [Session -> BOOLEAN]
    BY <1>11 DEF markDirty
  <2> QED  BY <1>1, <1>11, <2>2, <2>3 DEF markDirty, mailboxVars
<1>12. ASSUME NEW c \in Client, reset(c) PROVE TypeOK'
  <2>1. conn' \in [Client -> [at : {"read", "mark", "reset"},
                              sess : Session \cup {NoSession}, reset : BOOLEAN]]
    BY <1>12 DEF reset, Reading
  <2> QED  BY <1>1, <1>5, <1>12, <2>1 DEF reset, sessionVars
<1>13. TypeOK'
  BY <1>6, <1>7, <1>8, <1>9, <1>10, <1>11, <1>12 DEF Connection
<1> QED  BY <1>2, <1>13

-----------------------------------------------------------------------------
(* The writer: what it puts on the wire meets the screen it was made for.  *)
LEMMA WriterStep ==
  ASSUME IInv, NEW c \in Client, Writer(c)
  PROVE  IInv'
<1> USE DEF IInv, TypeOK
<1>0. Nothing \in Diff /\ Nothing.from = Blank
  BY DEF Diff, Nothing
<1>1. CASE takeFrame(c)
  <2>1. TypeOK'
    BY <1>0, <1>1 DEF takeFrame, sessionVars
  <2>2. OneAtATime' /\ ShownIsComing' /\ AtASession'
    BY <1>1 DEF takeFrame, OneAtATime, ShownIsComing, Coming, AtASession
  <2>3. DiffsFit'
    BY <1>0, <1>1 DEF takeFrame, DiffsFit
  <2> QED  BY <2>1, <2>2, <2>3
<1>2. CASE frameWritten(c)
  <2>1. wire[c].to \in Frame /\ pending[c] = Nothing
    BY <1>2 DEF frameWritten, OneAtATime, Diff
  <2>2. TypeOK'
    BY <1>0, <1>2, <2>1 DEF frameWritten, sessionVars
  <2>3. OneAtATime' /\ ShownIsComing' /\ AtASession'
    BY <1>2 DEF frameWritten, OneAtATime, ShownIsComing, Coming, AtASession
  <2>4. DiffsFit'
    BY <1>0, <1>2, <2>1 DEF frameWritten, DiffsFit
  <2> QED  BY <2>2, <2>3, <2>4
<1> QED  BY <1>1, <1>2 DEF Writer

-----------------------------------------------------------------------------
(* The tick.  Only the offer touches a mailbox, and it does so when both   *)
(* mailbox and wire are free: `shown` is then the screen.                  *)
AtOfTick == {"idle", "grouping", "choosing", "asking", "composing", "offering"}
TickState == [at : AtOfTick, group : [Client -> Session \cup {NoSession}],
              todo : SUBSET Session, sess : Session \cup {NoSession},
              left : SUBSET Client, frame : Frame \cup {Blank}]

LEMMA DoneTyped ==
  ASSUME tick \in TickState
  PROVE  Done \in TickState /\ Done.at = "choosing"
BY DEF Done, TickState, AtOfTick

LEMMA ComposeTyped ==
  ASSUME tick \in TickState, NEW s \in Session
  PROVE  Compose(s) \in TickState /\ Compose(s).at = "composing" /\ Compose(s).sess = s
BY DEF Compose, TickState, AtOfTick, Viewers

(* The steps of the tick before and after an offer. *)
LEMMA TickStateStep ==
  ASSUME IInv,
         \/ tickSnapshot \/ frame \/ tickEnd
         \/ \E c \in Client : group(c) \/ ask(c)
         \/ \E s \in Session : choose(s)
  PROVE  /\ tick' \in TickState /\ AtASession'
         /\ tick'.at = "offering" => tick'.frame \in Frame
         /\ dirty' \in [Session -> BOOLEAN]
<1> USE DEF IInv, TypeOK
<1>1. tick \in TickState
  BY DEF TickState, AtOfTick
<1>2. CASE tickSnapshot
  BY <1>2 DEF tickSnapshot, NoTick, Attached, AtASession, TickState, AtOfTick
<1>3. CASE tickEnd
  BY <1>3 DEF tickEnd, NoTick, AtASession, TickState, AtOfTick
<1>4. CASE frame
  <2>1. tick.sess \in Session
    BY <1>4 DEF frame, AtASession
  <2>2. drawn(tick.sess) \in Frame
    BY <2>1 DEF drawn, Frame
  <2>3. dirty' \in [Session -> BOOLEAN]
    BY <1>4 DEF frame
  <2>4. CASE tick.left = {}
    BY <1>1, <1>4, <2>3, <2>4, DoneTyped DEF frame, AtASession
  <2>5. CASE tick.left # {}
    <3>1. tick' = [tick EXCEPT !.at = "offering", !.frame = drawn(tick.sess)]
      BY <1>4, <2>5 DEF frame
    <3>2. tick'.frame \in Frame /\ tick'.sess \in Session
      BY <1>1, <2>1, <2>2, <3>1 DEF TickState
    <3>3. tick' \in TickState
      BY <1>1, <2>2, <3>1 DEF TickState, AtOfTick
    <3> QED  BY <2>3, <3>2, <3>3 DEF AtASession
  <2> QED  BY <2>4, <2>5
<1>5. ASSUME NEW c \in Client, group(c) PROVE tick' \in TickState /\ AtASession'
                                               /\ tick'.at # "offering" /\ UNCHANGED dirty
  <2> DEFINE t == [tick EXCEPT !.group[c] = view[c], !.left = tick.left \ {c}]
  <2>1. t \in TickState /\ t.at = "grouping"
    BY <1>1, <1>5 DEF group, TickState, AtOfTick
  <2>2. tick' = IF t.left # {} THEN t
               ELSE [t EXCEPT !.at = "choosing", !.todo = Session]
    BY <1>5 DEF group
  <2>3. UNCHANGED dirty
    BY <1>5 DEF group
  <2> HIDE DEF t
  <2>4. tick' \in TickState /\ tick'.at \in {"grouping", "choosing"}
    BY <2>1, <2>2 DEF TickState, AtOfTick
  <2> QED  BY <2>3, <2>4 DEF AtASession
<1>6. ASSUME NEW c \in Client, ask(c) PROVE tick' \in TickState /\ AtASession'
                                             /\ tick'.at # "offering" /\ UNCHANGED dirty
  <2>1. tick.sess \in Session
    BY <1>6 DEF ask, AtASession
  <2>2. CASE needsFrame(c)
    BY <1>1, <1>6, <2>1, <2>2, ComposeTyped DEF ask, AtASession
  <2>3. CASE ~needsFrame(c) /\ tick.left = {c}
    BY <1>1, <1>6, <2>3, DoneTyped DEF ask, AtASession
  <2>4. CASE ~needsFrame(c) /\ tick.left # {c}
    <3>1. tick' = [tick EXCEPT !.left = tick.left \ {c}] /\ tick.at = "asking"
      BY <1>6, <2>4 DEF ask
    <3>2. tick' \in TickState /\ tick'.at = "asking" /\ tick'.sess = tick.sess
      BY <1>1, <3>1 DEF TickState
    <3> QED  BY <1>6, <2>1, <3>2 DEF ask, AtASession
  <2> QED  BY <2>2, <2>3, <2>4
<1>7. ASSUME NEW s \in Session, choose(s) PROVE tick' \in TickState /\ AtASession'
                                                 /\ tick'.at # "offering" /\ UNCHANGED dirty
  <2>1. UNCHANGED dirty /\ tick.at = "choosing"
    BY <1>7 DEF choose
  <2>2. \/ tick' = Compose(s)
        \/ tick' = [tick EXCEPT !.todo = tick.todo \ {s}]
        \/ tick' = [Compose(s) EXCEPT !.at = "asking"]
    BY <1>7 DEF choose
  <2>3. CASE tick' = Compose(s)
    BY <1>1, <2>1, <2>3, ComposeTyped DEF AtASession
  <2>4. CASE tick' = [tick EXCEPT !.todo = tick.todo \ {s}]
    <3>1. tick' \in TickState /\ tick'.at = "choosing"
      BY <1>1, <2>1, <2>4 DEF TickState
    <3> QED  BY <2>1, <3>1 DEF AtASession
  <2>5. CASE tick' = [Compose(s) EXCEPT !.at = "asking"]
    <3>1. Compose(s) \in TickState /\ Compose(s).sess = s
      BY <1>1, ComposeTyped
    <3>2. tick' \in TickState /\ tick'.at = "asking" /\ tick'.sess = s
      BY <2>5, <3>1 DEF TickState, AtOfTick
    <3> QED  BY <2>1, <3>2 DEF AtASession
  <2> QED  BY <2>2, <2>3, <2>4, <2>5
<1> QED  BY <1>2, <1>3, <1>4, <1>5, <1>6, <1>7

LEMMA TickStep ==
  ASSUME IInv,
         \/ tickSnapshot \/ frame \/ tickEnd
         \/ \E c \in Client : group(c) \/ ask(c)
         \/ \E s \in Session : choose(s)
  PROVE  IInv'
<1>1. UNCHANGED <<version, view, screen, conn, mailboxVars>>
  BY DEF tickSnapshot, frame, tickEnd, group, ask, choose, quiet
<1>2. /\ tick' \in TickState /\ AtASession'
      /\ tick'.at = "offering" => tick'.frame \in Frame
      /\ dirty' \in [Session -> BOOLEAN]
  BY TickStateStep
<1>3. TypeOK'
  BY <1>1, <1>2 DEF IInv, TypeOK, mailboxVars, TickState, AtOfTick
<1>4. OneAtATime' /\ ShownIsComing' /\ DiffsFit'
  BY <1>1 DEF IInv, OneAtATime, ShownIsComing, Coming, DiffsFit, mailboxVars
<1> QED  BY <1>2, <1>3, <1>4 DEF IInv

LEMMA OfferStep ==
  ASSUME IInv, NEW c \in Client, offerFrame(c)
  PROVE  IInv'
<1> DEFINE f    == tick.frame
           base == IF hasShown[c] THEN shown[c] ELSE Blank
<1> USE DEF IInv, TypeOK
<1>1. f \in Frame /\ base \in Frame \cup {Blank} /\ base \in {Blank, shown[c]}
  BY DEF offerFrame
<1>2. [from |-> base, to |-> f] \in Diff /\ [from |-> base, to |-> f] # Nothing
  BY <1>1, DiffToFrame
<1>3. tick' \in TickState /\ tick'.at \in {"choosing", "offering"}
      /\ (tick'.at = "offering" => tick'.frame \in Frame) /\ AtASession'
  <2>1. tick \in TickState /\ tick.at = "offering" /\ tick.sess \in Session
    BY DEF offerFrame, TickState, AtOfTick, AtASession
  <2>2. CASE tick.left = {c}
    BY <2>1, <2>2, DoneTyped DEF offerFrame, AtASession
  <2>3. CASE tick.left # {c}
    <3>1. tick' = [tick EXCEPT !.left = tick.left \ {c}]
      BY <2>3 DEF offerFrame
    <3>2. tick' \in TickState /\ tick'.at = "offering" /\ tick'.sess = tick.sess
          /\ tick'.frame = tick.frame
      BY <2>1, <3>1 DEF TickState
    <3> QED  BY <1>1, <2>1, <3>2 DEF AtASession
  <2> QED  BY <2>2, <2>3
<1>4. UNCHANGED <<version, dirty, view, wire, screen, conn>>
  BY DEF offerFrame, quiet
<1>5. CASE idle(c)
  <2>1. /\ shown' = [shown EXCEPT ![c] = f]
        /\ hasShown' = [hasShown EXCEPT ![c] = TRUE]
        /\ stale' = [stale EXCEPT ![c] = FALSE]
        /\ \/ base = f /\ UNCHANGED pending
           \/ pending' = [pending EXCEPT ![c] = [from |-> base, to |-> f]]
    BY <1>5 DEF offerFrame
  <2>2. shown[c] = screen[c] /\ pending[c] = Nothing /\ wire[c] = Nothing
    BY <1>5 DEF idle, ShownIsComing, Coming
  <2> HIDE DEF f, base
  <2>3. TypeOK'
    <3>1. /\ shown' \in [Client -> Frame \cup {Blank}] /\ hasShown' \in [Client -> BOOLEAN]
          /\ stale' \in [Client -> BOOLEAN] /\ pending' \in [Client -> Diff]
      BY <1>1, <1>2, <2>1
    <3>2. \A d \in Client : hasShown'[d] => shown'[d] \in Frame
      BY <1>1, <2>1
    <3> QED  BY <1>3, <1>4, <3>1, <3>2 DEF TickState, AtOfTick
  <2>4. OneAtATime'
    BY <1>4, <2>1, <2>2 DEF OneAtATime
  <2>5. ShownIsComing'
    <3> SUFFICES ASSUME NEW d \in Client PROVE shown'[d] = Coming(d)'
      BY DEF ShownIsComing
    <3>1. CASE d # c
      BY <1>4, <2>1, <3>1 DEF ShownIsComing, Coming
    <3>2. CASE d = c /\ base = f /\ UNCHANGED pending
      <4>1. base = shown[c]
        BY <1>1, <3>2, FrameNotBlank
      <4>2. shown'[c] = screen[c]
        BY <2>1, <2>2, <3>2, <4>1
      <4> QED  BY <1>4, <2>2, <3>2, <4>2 DEF Coming
    <3>3. CASE d = c /\ pending' = [pending EXCEPT ![c] = [from |-> base, to |-> f]]
      <4>1. pending'[c] # Nothing /\ pending'[c].to = f /\ shown'[c] = f
        BY <1>2, <2>1, <3>3
      <4> QED  BY <3>3, <4>1 DEF Coming
    <3> QED  BY <2>1, <3>1, <3>2, <3>3
  <2>6. DiffsFit'
    <3> SUFFICES ASSUME NEW d \in Client
                 PROVE  pending'[d].from \in {Blank, screen'[d]}
                        /\ wire'[d].from \in {Blank, screen'[d]}
      BY DEF DiffsFit
    <3>1. wire'[d].from \in {Blank, screen'[d]} /\ pending[d].from \in {Blank, screen[d]}
      BY <1>4 DEF DiffsFit
    <3>2. base \in {Blank, screen[c]}
      BY <1>1, <2>2
    <3> QED  BY <1>4, <2>1, <3>1, <3>2
  <2> QED  BY <1>3, <2>3, <2>4, <2>5, <2>6
<1>6. CASE ~idle(c)
  <2>1. /\ stale' = [stale EXCEPT ![c] = TRUE]
        /\ UNCHANGED <<pending, shown, hasShown>>
    BY <1>6 DEF offerFrame
  <2>2. TypeOK'
    BY <1>3, <1>4, <2>1 DEF TickState, AtOfTick
  <2>3. OneAtATime' /\ ShownIsComing' /\ DiffsFit'
    BY <1>4, <2>1 DEF OneAtATime, ShownIsComing, Coming, DiffsFit
  <2> QED  BY <1>3, <2>2, <2>3
<1> QED  BY <1>5, <1>6

-----------------------------------------------------------------------------
LEMMA Inductive == IInv /\ [Next]_vars => IInv'
<1> SUFFICES ASSUME IInv, [Next]_vars PROVE IInv'
  OBVIOUS
<1>1. CASE UNCHANGED vars
  BY <1>1
  DEF vars, sessionVars, mailboxVars, IInv, TypeOK, AtASession, OneAtATime, ShownIsComing,
      Coming, DiffsFit
<1>2. CASE Tick
  BY <1>2, TickStep, OfferStep DEF Tick
<1>3. CASE \E c \in Client : Writer(c)
  BY <1>3, WriterStep
<1>4. CASE \/ \E s \in Session : output(s)
           \/ \E c \in Client :
                \/ refresh(c) \/ setPassthrough(c) \/ Connection(c)
                \/ \E resets \in BOOLEAN : command(c, resets)
                \/ \E s \in Session : attach(c, s) \/ switchSession(c, s)
  BY <1>4, ConnectionStep
<1> QED  BY <1>1, <1>2, <1>3, <1>4 DEF Next

(* The invariant holds in every state of every behaviour. *)
LEMMA Invariant == Spec => []IInv
  BY InitEstablishes, Inductive, PTL DEF Spec

(* Every value has its type: a frame being offered is a session's picture, *)
(* and a client that was handed a frame has one on record.                 *)
THEOREM FramesTypes == Spec => []TypeOK
<1>1. IInv => TypeOK
  BY DEF IInv
<1> QED  BY Invariant, <1>1, PTL

(* The diffs of offerFrame (client.go) fit: whatever the order of ticks,   *)
(* session switches, resets and a slow writer, the bytes on the wire are a *)
(* full repaint or the difference from what the terminal shows.            *)
THEOREM FramesFit == Spec => []DiffsFit
<1>1. IInv => DiffsFit
  BY DEF IInv
<1> QED  BY Invariant, <1>1, PTL
=============================================================================
