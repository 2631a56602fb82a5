-------------------------------- MODULE Frames --------------------------------
(***************************************************************************)
(* How a session's picture reaches the clients that view it (the tick of   *)
(* internal/server/server.go, the frame mailbox of client.go, dirty and    *)
(* frame of session.go).                                                   *)
(*                                                                         *)
(* Client are some of the clients; the server may have others, which the   *)
(* model knows by their effect only: a session is drawn on their account.  *)
(* One broadcaster ticks; each client has a mailbox of one frame and a     *)
(* writer goroutine that empties it.  A frame is painted as the diff from  *)
(* the last one the client was handed.  Shells write and connections run   *)
(* commands at any time, the tick's own steps included.  What a session    *)
(* draws is a version number, and a frame is a session and its version:    *)
(* the mark on the status bar of a client in passthrough mode is left out, *)
(* the frame it asks for is not.                                           *)
(***************************************************************************)
EXTENDS Integers, FiniteSets

CONSTANTS Client, Session,
          MaxVersion    \* bound: changes of one session

ASSUME FramesAssumption == MaxVersion \in Nat /\ "" \notin Session

NoSession == ""
Version == 0..MaxVersion
Frame == [sess : Session, version : Version]
Blank == [sess |-> NoSession, version |-> 0]

(* The bytes that turn the screen `from` into `to`; from Blank it is a     *)
(* full repaint.                                                           *)
Nothing == [from |-> Blank, to |-> Blank]
Diff == [from : Frame \cup {Blank}, to : Frame] \cup {Nothing}

VARIABLES
  version,     \* session |-> what it would draw now
  dirty,       \* session |-> needsRepaint, or a drawn pane has new output
  view,        \* client.sess; NoSession before the attach
  pending,     \* client.pending: the mailbox
  wire,        \* what the writer is putting on the wire: client.busy
  shown, hasShown, stale,
  screen,      \* client |-> what the terminal shows
  conn,        \* client |-> what its connection's goroutine has still to do
               \*            after a command: "mark" or "reset", and to which
               \*            session, or "read" the next message
  tick         \* the tick: [at, group: client |-> session it was found to
               \*            view, todo: sessions to come, sess: the session
               \*            it is at, left: clients to see to, frame]

sessionVars == <<version, dirty>>
mailboxVars == <<pending, wire, shown, hasShown, stale>>
vars == <<sessionVars, view, mailboxVars, screen, conn, tick>>

Reading == [at |-> "read", sess |-> NoSession, reset |-> FALSE]
NoTick == [at |-> "idle", group |-> [c \in Client |-> NoSession], todo |-> {},
           sess |-> NoSession, left |-> {}, frame |-> Blank]

Init ==
  /\ version = [s \in Session |-> 0] /\ dirty = [s \in Session |-> TRUE]
  /\ view = [c \in Client |-> NoSession]
  /\ pending = [c \in Client |-> Nothing] /\ wire = [c \in Client |-> Nothing]
  /\ shown = [c \in Client |-> Blank]
  /\ hasShown = [c \in Client |-> FALSE] /\ stale = [c \in Client |-> FALSE]
  /\ screen = [c \in Client |-> Blank]
  /\ conn = [c \in Client |-> Reading]
  /\ tick = NoTick

Attached == {c \in Client : view[c] # NoSession}

-----------------------------------------------------------------------------
(* What changes a picture. *)
Change(s) == version[s] < MaxVersion /\ version' = [version EXCEPT ![s] = @ + 1]

(* A shell's output, and what the reaper and resize do: the flag is set in *)
(* the same section.                                                       *)
output(s) ==
  /\ Change(s)
  /\ dirty' = [dirty EXCEPT ![s] = TRUE]
  /\ UNCHANGED <<view, mailboxVars, screen, conn, tick>>

attach(c, s) ==
  /\ view[c] = NoSession
  /\ view' = [view EXCEPT ![c] = s]
  /\ UNCHANGED <<sessionVars, mailboxVars, screen, conn, tick>>

Busy(c, s, resets) == conn' = [conn EXCEPT ![c] = [at |-> "mark", sess |-> s, reset |-> resets]]

(* A command or copy-mode key (which reset the client afterwards), or a    *)
(* mouse gesture (which does not), changes the picture under the session's *)
(* lock; the session is marked in a later section.                         *)
command(c, resets) ==
  /\ c \in Attached /\ conn[c].at = "read"
  /\ Change(view[c])
  /\ Busy(c, view[c], resets)
  /\ UNCHANGED <<dirty, view, mailboxVars, screen, tick>>

(* next-session and the like: setSession, then the session the command was *)
(* resolved to, the old one, is marked.                                    *)
repaintOwed(c) == hasShown' = [hasShown EXCEPT ![c] = FALSE]

switchSession(c, s) ==
  /\ c \in Attached /\ conn[c].at = "read" /\ s # view[c]
  /\ view' = [view EXCEPT ![c] = s]
  /\ repaintOwed(c)
  /\ Busy(c, view[c], TRUE)
  /\ UNCHANGED <<sessionVars, pending, wire, shown, stale, screen, tick>>

markDirty(c) ==
  /\ conn[c].at = "mark"
  /\ dirty' = [dirty EXCEPT ![conn[c].sess] = TRUE]
  /\ conn' = [conn EXCEPT ![c] = IF @.reset THEN [@ EXCEPT !.at = "reset"] ELSE Reading]
  /\ UNCHANGED <<version, view, mailboxVars, screen, tick>>

reset(c) ==
  /\ conn[c].at = "reset"
  /\ repaintOwed(c)
  /\ conn' = [conn EXCEPT ![c] = Reading]
  /\ UNCHANGED <<sessionVars, view, pending, wire, shown, stale, screen, tick>>

(* The client asks for a repaint, or reports a new size. *)
refresh(c) ==
  /\ c \in Attached /\ conn[c].at = "read"
  /\ repaintOwed(c)
  /\ UNCHANGED <<sessionVars, view, pending, wire, shown, stale, screen, conn, tick>>

setPassthrough(c) ==
  /\ c \in Attached /\ conn[c].at = "read"
  /\ stale' = [stale EXCEPT ![c] = TRUE]
  /\ UNCHANGED <<sessionVars, view, pending, wire, shown, hasShown, screen, conn, tick>>

-----------------------------------------------------------------------------
(* The tick.  It copies the clients and sessions under Server.mu, asks     *)
(* each client for its session, and then goes through the sessions that    *)
(* have viewers; every read and every offer is a section of its own.       *)
Viewers(s) == {c \in Client : tick.group[c] = s}
quiet == UNCHANGED <<version, view, screen, conn>>

tickSnapshot ==
  /\ tick.at = "idle" /\ Attached # {}
  /\ tick' = [NoTick EXCEPT !.at = "grouping", !.left = Attached]
  /\ quiet /\ UNCHANGED <<dirty, mailboxVars>>

group(c) ==
  /\ tick.at = "grouping" /\ c \in tick.left
  /\ tick' = LET t == [tick EXCEPT !.group[c] = view[c], !.left = @ \ {c}]
             IN  IF t.left # {} THEN t
                 ELSE [t EXCEPT !.at = "choosing", !.todo = Session]
  /\ quiet /\ UNCHANGED <<dirty, mailboxVars>>

Compose(s) == [tick EXCEPT !.at = "composing", !.sess = s, !.left = Viewers(s),
                           !.todo = @ \ {s}]
Done == [tick EXCEPT !.at = "choosing", !.sess = NoSession, !.left = {}, !.frame = Blank]

(* A session that has changed is drawn.  So may one be that has not: for   *)
(* a client outside the model, or for the minute on its clock.  Otherwise  *)
(* its viewers are asked, one by one, whether they need a frame.           *)
dirtyNow(s) == dirty[s]

choose(s) ==
  /\ tick.at = "choosing" /\ s \in tick.todo
  /\ tick' \in {Compose(s)} \cup
       (IF dirtyNow(s) /\ Viewers(s) # {} THEN {}
        ELSE IF Viewers(s) = {} THEN {[tick EXCEPT !.todo = @ \ {s}]}
        ELSE {[Compose(s) EXCEPT !.at = "asking"]})
  /\ quiet /\ UNCHANGED <<dirty, mailboxVars>>

needsFrame_whenFresh(c) == ~hasShown[c]     \* fault: a skipped frame is forgotten
needsFrame(c) == ~hasShown[c] \/ stale[c]

ask(c) ==
  /\ tick.at = "asking" /\ c \in tick.left
  /\ tick' = IF needsFrame(c) THEN Compose(tick.sess)
             ELSE IF tick.left = {c} THEN Done
             ELSE [tick EXCEPT !.left = @ \ {c}]
  /\ quiet /\ UNCHANGED <<dirty, mailboxVars>>

(* session.frame: the flag goes down as the picture is taken. *)
drawn_before(s) == tick.frame               \* fault: the buffer is offered as it was
drawn(s) == [sess |-> s, version |-> version[s]]

frame ==
  /\ tick.at = "composing"
  /\ dirty' = [dirty EXCEPT ![tick.sess] = FALSE]
  /\ tick' = IF tick.left = {} THEN Done
             ELSE [tick EXCEPT !.at = "offering",
                               !.frame = drawn(tick.sess)]
  /\ quiet /\ UNCHANGED mailboxVars

idle_unread(c) == wire[c] = Nothing          \* fault: the mailbox is overwritten
idle(c) == pending[c] = Nothing /\ wire[c] = Nothing

offerFrame(c) ==
  /\ tick.at = "offering" /\ c \in tick.left
  /\ LET f == tick.frame
         base == IF hasShown[c] THEN shown[c] ELSE Blank
     IN  IF idle(c)
         THEN /\ shown' = [shown EXCEPT ![c] = f]
              /\ hasShown' = [hasShown EXCEPT ![c] = TRUE]
              /\ stale' = [stale EXCEPT ![c] = FALSE]
              /\ IF base = f THEN UNCHANGED pending
                 ELSE pending' = [pending EXCEPT ![c] = [from |-> base, to |-> f]]
         ELSE /\ stale' = [stale EXCEPT ![c] = TRUE]
              /\ UNCHANGED <<pending, shown, hasShown>>
  /\ tick' = IF tick.left = {c} THEN Done ELSE [tick EXCEPT !.left = @ \ {c}]
  /\ quiet /\ UNCHANGED <<dirty, wire>>

tickEnd ==
  /\ tick.at = "choosing" /\ tick.todo = {}
  /\ tick' = NoTick
  /\ quiet /\ UNCHANGED <<dirty, mailboxVars>>

-----------------------------------------------------------------------------
(* The client's writer.                                                    *)
takeFrame(c) ==
  /\ wire[c] = Nothing /\ pending[c] # Nothing
  /\ wire' = [wire EXCEPT ![c] = pending[c]]
  /\ pending' = [pending EXCEPT ![c] = Nothing]
  /\ UNCHANGED <<sessionVars, view, shown, hasShown, stale, screen, conn, tick>>

frameWritten(c) ==
  /\ wire[c] # Nothing
  /\ screen' = [screen EXCEPT ![c] = wire[c].to]
  /\ wire' = [wire EXCEPT ![c] = Nothing]
  /\ UNCHANGED <<sessionVars, view, pending, shown, hasShown, stale, conn, tick>>

-----------------------------------------------------------------------------
Connection(c) == markDirty(c) \/ reset(c)
Tick ==
  \/ tickSnapshot \/ frame \/ tickEnd
  \/ \E c \in Client : group(c) \/ ask(c) \/ offerFrame(c)
  \/ \E s \in Session : choose(s)
Writer(c) == takeFrame(c) \/ frameWritten(c)

Next ==
  \/ \E s \in Session : output(s)
  \/ \E c \in Client :
       \/ refresh(c) \/ setPassthrough(c) \/ Connection(c) \/ Writer(c)
       \/ \E resets \in BOOLEAN : command(c, resets)
       \/ \E s \in Session : attach(c, s) \/ switchSession(c, s)
  \/ Tick

(* The broadcaster ticks, a command is finished, and a client reads what   *)
(* it is sent.  Nothing waits for the clock.                               *)
Fairness ==
  /\ WF_vars(Tick)
  /\ \A c \in Client : WF_vars(Connection(c)) /\ WF_vars(Writer(c))

Spec == Init /\ [][Next]_vars /\ Fairness

-----------------------------------------------------------------------------
TypeOK ==
  /\ version \in [Session -> Version] /\ dirty \in [Session -> BOOLEAN]
  /\ view \in [Client -> Session \cup {NoSession}]
  /\ pending \in [Client -> Diff] /\ wire \in [Client -> Diff]
  /\ shown \in [Client -> Frame \cup {Blank}]
  /\ hasShown \in [Client -> BOOLEAN] /\ stale \in [Client -> BOOLEAN]
  /\ screen \in [Client -> Frame \cup {Blank}]
  /\ conn \in [Client -> [at : {"read", "mark", "reset"}, sess : Session \cup {NoSession},
                          reset : BOOLEAN]]
  /\ tick \in [at : {"idle", "grouping", "choosing", "asking", "composing", "offering"},
               group : [Client -> Session \cup {NoSession}], todo : SUBSET Session,
               sess : Session \cup {NoSession},
               left : SUBSET Client, frame : Frame \cup {Blank}]
  /\ tick.at = "offering" => tick.frame \in Frame
  /\ \A c \in Client : hasShown[c] => shown[c] \in Frame

(* A diff meets the screen it was painted for: nothing is painted on a     *)
(* frame the client has not been sent, however slow its writer is.         *)
DiffsFit ==
  \A c \in Client :
    \A d \in {pending[c], wire[c]} : d.from \in {Blank, screen[c]}

(* What a client should be seeing. *)
Current(c, f) == c \in Attached /\ f = [sess |-> view[c], version |-> version[view[c]]]

(* A picture that stays current gets to the screen of every client that    *)
(* views it, skipped frames, ticks in flight and marks made late included. *)
(* The escape: the client was handed a frame of a session it had left.     *)
Astray(c) == hasShown[c] /\ shown[c].sess # view[c]
StaysShown ==
  \A c \in Client : \A f \in Frame :
    Current(c, f) ~> (screen[c] = f \/ ~Current(c, f) \/ Astray(c))
=============================================================================
