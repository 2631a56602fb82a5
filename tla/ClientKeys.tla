----------------------------- MODULE ClientKeys -----------------------------
(***************************************************************************)
(* The attached client (src/internal/client/client.go): the input loop     *)
(* that turns what the terminal delivers into keys, commands and pastes,   *)
(* its popups and prompts, and the reader that paints the server's frames. *)
(* The terminal delivers bursts; a burst's escape sequence is never split, *)
(* so a deadline passes only when nothing is buffered. A burst may meet an *)
(* escape that is still unfinished. A sequence's bytes after ESC [ are one *)
(* token. The server is modelled by what it answers.                       *)
(***************************************************************************)
EXTENDS Integers, Sequences, SequencesExt

CONSTANTS
  Keys,          \* keys typed by hand
  Finals,        \* sequences the terminal sends, by what follows ESC [
  Pastes,        \* the texts pasted
  MaxPasteChunk,
  MBinds,        \* what a config may bind m to
  MaxBursts,     \* bound: bursts the terminal delivers
  MaxFrames,     \* bound: changes of the session's screen
  MaxChan        \* bound: messages on the way to the client

(* prefix, ESC, the bracket, the newline, and: c runs a command, d detaches, *)
(* w is bound to passthrough, x to nothing, colon is the client's, and so  *)
(* is m unless it is bound.                                                *)
AllKeys == {"prefix", "esc", "[", "nl", "bs", "c", "d", "w", "x", "m", ":"}
AllFinals == {"f12", "arrow", "mouse", "start", "end"}

ASSUME KeysAssumption == Keys \subseteq AllKeys /\ Finals \subseteq AllFinals
ASSUME PastesAssumption == Pastes \subseteq Seq(AllKeys)
ASSUME BindsAssumption == MBinds \subseteq {"", "passthrough", "command", "detach"}
ASSUME BoundsAssumption ==
  /\ MaxPasteChunk \in Nat
  /\ MaxBursts \in Nat /\ MaxFrames \in Nat /\ MaxChan \in Nat
ASSUME ChunkAssumption == MaxPasteChunk > 3

VARIABLES
  bracketed,     \* the pane's app asked for bracketed paste
  mBind,         \* km.binds["m"], "" when the config has none
  in,            \* bytes buffered by the inReader
  typed,         \* history: which of them were typed, not pasted
  caught,        \* history: a sequence or a paste met an unfinished escape
  bursts,        \* history: bursts delivered
  loop,          \* where the input loop is
  shown,         \* the which-key panel is up
  sink,          \* what a paste that is being read is for
  held,          \* bytes of a paste read and not sent on
  line,          \* the prompt holds text
  todo,          \* what is left of dismissing the session help
  pass,          \* passthrough mode
  pane,          \* the ends of paste markers that the pane's app got
  acted,         \* history: commands, toggles and mouse events so far
  overlay,
  holding,       \* the frame the reader is about to write
  screen,        \* what the terminal shows: a frame, Popup or Mess
  current,       \* the session's screen
  base,          \* the frame the server believes is shown, 0 for none
  chan,          \* messages to the client
  refresh,       \* Refresh messages to the server
  hole,          \* history: a panel was erased and no repaint asked for since
  attached

inputVars == <<in, typed, caught, bursts, loop, shown, sink, held, line, todo, pass, pane, acted>>
asked == <<refresh, hole>>
serverVars == <<current, base, chan, asked>>
config == <<bracketed, mBind>>
vars == <<config, inputVars, overlay, holding, screen, serverVars, attached>>

Popup == -1
Mess == -2
NoFrame == <<>>
Bye == <<0, 0>>

Init ==
  /\ bracketed \in BOOLEAN /\ mBind \in MBinds
  /\ in = <<>> /\ typed = <<>> /\ caught = FALSE /\ bursts = 0 /\ loop = "top" /\ shown = FALSE
  /\ sink = "none" /\ held = <<>> /\ line = FALSE
  /\ todo = <<>> /\ pass = FALSE /\ pane = <<>> /\ acted = 0
  /\ overlay = FALSE /\ holding = NoFrame /\ screen = Mess
  /\ current = 1 /\ base = 0 /\ chan = <<>> /\ refresh = 0 /\ hole = FALSE
  /\ attached = TRUE

-----------------------------------------------------------------------------
(* What the terminal delivers. *)
Lesser(a, b) == IF a < b THEN a ELSE b

startSeq == <<"esc", "[", "start">>
endSeq == <<"esc", "[", "end">>

isCSIFinal(k) == k \notin {"prefix", "esc", "nl", "bs", ":"}
Finished(ks) == {i \in 3..Len(ks) : isCSIFinal(ks[i])}

(* The buffered bytes end in an escape that more bytes will be read into. *)
EscapePending ==
  \E i \in DOMAIN in : /\ in[i] = "esc"
                       /\ \/ i = Len(in)
                          \/ in[i + 1] = "[" /\ Finished(SubSeq(in, i, Len(in))) = {}

Deliver(ks, byHand) ==
  /\ attached /\ bursts < MaxBursts /\ bursts' = bursts + 1
  /\ in' = in \o ks /\ typed' = typed \o [i \in DOMAIN ks |-> byHand]
  /\ caught' = (caught \/ (Len(ks) > 1 /\ EscapePending))
  /\ UNCHANGED <<loop, shown, sink, held, line, todo, pass, pane, acted, overlay,
                 holding, screen,
                 serverVars, attached, config>>

Key == \E k \in Keys : Deliver(<<k>>, TRUE)
Sequence == \E f \in Finals : Deliver(<<"esc", "[", f>>, TRUE)
Paste == \E text \in Pastes : Deliver(startSeq \o text \o endSeq, FALSE)

-----------------------------------------------------------------------------
(* The loop takes n bytes; out goes to the server as input, and the        *)
(* server's filterPaste drops the markers an app did not ask for. Of what  *)
(* the app then gets, pane keeps the ends of markers.                      *)
MarkerAt(ks, marker) ==
  {i \in 3..Len(ks) : ks[i] = marker[3] /\ SubSeq(ks, i - 2, i) = marker}
Without(ks, marker) ==
  LET kept == SelectSeq([i \in DOMAIN ks |-> i],
                        LAMBDA i : \A e \in MarkerAt(ks, marker) : i \notin (e - 2)..e)
  IN  [n \in DOMAIN kept |-> ks[kept[n]]]
filterPaste(ks) == IF bracketed THEN ks ELSE Without(Without(ks, startSeq), endSeq)

Takes(n) == /\ attached /\ n <= Len(in)
            /\ in' = SubSeq(in, n + 1, Len(in)) /\ typed' = SubSeq(typed, n + 1, Len(in))
Markers(ks) == SelectSeq(ks, LAMBDA k : k \in {"start", "end"})
Input(ks) == pane' = pane \o Markers(filterPaste(ks))
Acts == acted' = acted + 1
GoesTo(l) == loop' = l

keysOnly == UNCHANGED <<caught, bursts, shown, line, todo, overlay, holding, screen,
                        serverVars, attached, config>>

(* escapeKey: a lone ESC is released when its deadline passes. *)
(* fault: an escape waits for bytes that need not come. *)
loneEscape_waits == FALSE
loneEscape ==
  /\ Len(in) = 1 /\ Takes(1) /\ Input(<<"esc">>)
  /\ UNCHANGED <<loop, sink, held, pass, acted>> /\ keysOnly

altKey ==
  /\ Len(in) > 1 /\ in[2] # "[" /\ Takes(2) /\ Input(<<"esc", in[2]>>)
  /\ UNCHANGED <<loop, sink, held, pass, acted>> /\ keysOnly

(* A CSI is read to its final byte, however long that takes. *)
csi ==
  /\ Len(in) > 2 /\ in[2] = "[" /\ Finished(in) # {}
  /\ LET n == Min(Finished(in))
         seq == SubSeq(in, 1, n)
     IN  /\ Takes(n)
         /\ CASE seq = <<"esc", "[", "f12">> ->
                   pass' = ~pass /\ Acts /\ UNCHANGED <<loop, sink, held, pane>>
              [] in[3] = "mouse" -> Acts /\ UNCHANGED <<loop, sink, held, pass, pane>>
              [] seq = startSeq ->
                   GoesTo("paste") /\ sink' = "pane" /\ held' = seq
                   /\ UNCHANGED <<pass, pane, acted>>
              [] OTHER -> Input(seq) /\ UNCHANGED <<loop, sink, held, pass, acted>>
  /\ keysOnly

escapeKey == loop = "top" /\ in # <<>> /\ in[1] = "esc" /\ (loneEscape \/ altKey \/ csi)

(* Plain keys go on in one message, up to the next ESC or prefix key. *)
Plain(k) == k # "esc" /\ (k # "prefix" \/ pass)
plainKeys ==
  /\ loop = "top" /\ in # <<>> /\ Plain(in[1])
  /\ LET stops == {i \in DOMAIN in : ~Plain(in[i])}
         n == IF stops = {} THEN Len(in) ELSE Min(stops) - 1
     IN  Takes(n) /\ Input(SubSeq(in, 1, n))
  /\ UNCHANGED <<loop, sink, held, pass, acted>> /\ keysOnly

(* readPaste: up to the end marker; when none comes, the deadline ends it. *)
(* A long paste goes on in pieces, none of which ends inside the marker.   *)
(* fault: a piece ends anywhere. *)
partialSuffix_none(ks) == 0
partialSuffix(ks) ==
  Max({0} \cup {n \in 1..2 : IsSuffix(SubSeq(endSeq, 1, n), ks)})

body == held \o in
pieceDue ==
  /\ sink = "pane" /\ Len(body) >= MaxPasteChunk
  /\ \A i \in MarkerAt(body, endSeq) : i > MaxPasteChunk

pastePiece ==
  /\ loop = "paste" /\ pieceDue
  /\ LET piece == SubSeq(body, 1, MaxPasteChunk)
         keep == MaxPasteChunk - partialSuffix(piece)
     IN  /\ Takes(MaxPasteChunk - Len(held))
         /\ Input(SubSeq(piece, 1, keep))
         /\ held' = SubSeq(piece, keep + 1, MaxPasteChunk)
  /\ UNCHANGED <<loop, sink, pass, acted>> /\ keysOnly

(* appendPromptPaste: text up to the first line break. *)
Printable(k) == k \notin {"prefix", "esc", "nl", "bs", "start", "end"}
TypesText(text) ==
  \E i \in DOMAIN text : Printable(text[i]) /\ \A j \in 1..i : text[j] # "nl"

(* fault: the frame that repaints the screen may still be held back. *)
afterHelp_swapped == <<"refresh", "overlay">>
afterHelp == <<"overlay", "refresh">>

pasteDone(text, closing) ==
  /\ sink' = "none" /\ held' = <<>>
  /\ CASE sink = "pane" -> /\ Input(text \o closing)
                           /\ GoesTo("top") /\ UNCHANGED <<line, todo, screen>>
       [] sink = "drop" -> GoesTo("top") /\ UNCHANGED <<pane, line, todo, screen>>
       [] sink = "help" -> GoesTo("hiding") /\ todo' = afterHelp /\ screen' = Mess
                           /\ UNCHANGED <<pane, line>>
       [] sink = "prompt" -> /\ line' = (line \/ TypesText(text)) /\ screen' = Mess
                             /\ GoesTo("prompt") /\ UNCHANGED <<pane, todo>>

pasteEnd ==
  /\ loop = "paste" /\ ~pieceDue
  /\ LET ends == MarkerAt(body, endSeq)
     IN  \/ /\ ends # {} /\ Takes(Min(ends) - Len(held))
            /\ pasteDone(SubSeq(body, 1, Min(ends)), <<>>)
         \/ ends = {} /\ Takes(Len(in)) /\ pasteDone(body, endSeq)
  /\ UNCHANGED <<caught, bursts, shown, pass, acted, overlay, holding, serverVars, attached,
                 config>>

readPaste == pastePiece \/ pasteEnd

-----------------------------------------------------------------------------
(* The prefix key: the which-key panel goes up unless a key is buffered.   *)
prefixKey ==
  /\ loop = "top" /\ in # <<>> /\ in[1] = "prefix" /\ ~pass
  /\ Takes(1) /\ GoesTo("prefix")
  /\ shown' = (Len(in) = 1) /\ screen' = IF shown' THEN Popup ELSE screen
  /\ UNCHANGED <<caught, bursts, held, sink, line, todo, pass, pane, acted, overlay, holding,
                 serverVars,
                 attached, config>>

(* readEscBody: a sequence is read whole; a deadline passes only when      *)
(* nothing is buffered.                                                    *)
(* fault: the sequence ends at its bracket. *)
escBodyLen_short == Lesser(2, Len(in))
escBodyLen ==
  IF Len(in) > 1 /\ in[2] # "[" THEN 2
  ELSE IF Finished(in) # {} THEN Min(Finished(in)) ELSE Len(in)
escBody == SubSeq(in, 1, escBodyLen)

(* The panel is erased, and repainted over unless the key is m, bound or   *)
(* not.                                                                    *)
AskRefresh == refresh' = refresh + 1 /\ hole' = FALSE
hide == shown' = FALSE /\ screen' = IF shown THEN Mess ELSE screen
hidden == hide /\ IF shown THEN AskRefresh ELSE UNCHANGED asked

Cmd(k) == loop = "prefix" /\ in # <<>> /\ in[1] = k

cmdEscape ==
  /\ Cmd("esc") /\ Takes(escBodyLen) /\ hidden
  /\ IF escBody = startSeq THEN GoesTo("paste") /\ sink' = "drop" /\ UNCHANGED acted
     ELSE /\ GoesTo("top") /\ UNCHANGED sink
          /\ IF escBody = <<"esc", "[", "arrow">> THEN Acts ELSE UNCHANGED acted
  /\ UNCHANGED <<line, pass, pane, chan, overlay>>

cmdPrompt ==
  /\ Cmd(":") /\ Takes(1) /\ shown' = FALSE /\ screen' = Mess
  /\ IF shown THEN AskRefresh ELSE UNCHANGED asked
  /\ GoesTo("prompt") /\ line' = FALSE
  /\ UNCHANGED <<sink, pass, pane, acted, chan, overlay>>

cmdPrefix ==
  /\ Cmd("prefix") /\ Takes(1) /\ hidden /\ Input(<<"prefix">>) /\ GoesTo("top")
  /\ UNCHANGED <<sink, line, pass, acted, chan, overlay>>

cmdHelp ==
  /\ Cmd("m") /\ mBind = "" /\ Takes(1) /\ shown' = FALSE
  /\ overlay' = TRUE /\ screen' = Popup /\ GoesTo("help")
  /\ UNCHANGED <<sink, line, pass, pane, acted, chan, asked>>

(* resolveKey: a command line for the server, passthrough, or nothing. *)
resolveKey(k) ==
  CASE k = "m" -> mBind
    [] k = "w" -> "passthrough"
    [] k = "d" -> "detach"
    [] k \in {"c", "["} -> "command"
    [] OTHER -> ""

cmdKey ==
  /\ loop = "prefix" /\ in # <<>>
  /\ in[1] \notin {"esc", ":", "prefix"} /\ (in[1] = "m" => mBind # "")
  /\ Takes(1)
  /\ IF in[1] = "m" THEN hide /\ hole' = (hole \/ shown) /\ UNCHANGED refresh ELSE hidden
  /\ LET command == resolveKey(in[1])
     IN  /\ pass' = (pass # (command = "passthrough"))
         /\ acted' = IF command = "" THEN acted ELSE acted + 1
         /\ loop' = IF command = "detach" THEN "ended" ELSE "top"
         /\ chan' = IF command = "detach" THEN Append(chan, Bye) ELSE chan
  /\ UNCHANGED <<sink, line, pane, overlay>>

prefixCommand ==
  /\ cmdEscape \/ cmdPrompt \/ cmdPrefix \/ cmdHelp \/ cmdKey
  /\ UNCHANGED <<caught, bursts, held, todo, holding, current, base, attached, config>>

(* Any key dismisses the help, and so does a paste, whole. *)
helpKey ==
  /\ loop = "help" /\ in # <<>>
  /\ IF in[1] # "esc" THEN Takes(1) ELSE Takes(escBodyLen)
  /\ IF in[1] = "esc" /\ escBody = startSeq
     THEN GoesTo("paste") /\ sink' = "help" /\ UNCHANGED <<todo, screen>>
     ELSE GoesTo("hiding") /\ todo' = afterHelp /\ screen' = Mess /\ UNCHANGED sink
  /\ UNCHANGED <<caught, bursts, held, shown, line, pass, pane, acted, overlay, holding,
                 serverVars, attached, config>>

(* hideHelp, overlay.Store(false), Refresh, one after the other. *)
hiding ==
  /\ attached /\ loop = "hiding"
  /\ overlay' = (overlay /\ Head(todo) # "overlay")
  /\ IF Head(todo) = "refresh" THEN AskRefresh ELSE UNCHANGED asked
  /\ todo' = Tail(todo) /\ loop' = IF Len(todo) = 1 THEN "top" ELSE loop
  /\ UNCHANGED <<in, typed, caught, bursts, held, shown, sink, line, pass, pane, acted, holding,
                 screen, current, base,
                 chan, attached, config>>

(* commandPrompt: Enter sends the line (or toggles passthrough), ESC cancels. *)
promptEnter ==
  /\ in[1] = "nl" /\ Takes(1) /\ GoesTo("top") /\ AskRefresh
  /\ IF line THEN Acts /\ pass' \in {pass, ~pass} ELSE UNCHANGED <<acted, pass>>
  /\ UNCHANGED <<sink, line, screen>>

promptEscape ==
  /\ in[1] = "esc" /\ Takes(escBodyLen)
  /\ IF escBody = startSeq THEN GoesTo("paste") /\ sink' = "prompt" /\ UNCHANGED asked
     ELSE GoesTo("top") /\ AskRefresh /\ UNCHANGED sink
  /\ UNCHANGED <<line, screen, acted, pass>>

(* The prompt is drawn again after each key it takes. *)
promptType ==
  /\ in[1] \notin {"nl", "esc"} /\ Takes(1)
  /\ CASE Printable(in[1]) -> line' = TRUE /\ screen' = Mess
       [] in[1] = "bs" -> line' \in {line, FALSE} /\ screen' = Mess
       [] OTHER -> UNCHANGED <<line, screen>>
  /\ UNCHANGED <<loop, sink, acted, pass, asked>>

commandPrompt ==
  /\ loop = "prompt" /\ in # <<>>
  /\ promptEnter \/ promptEscape \/ promptType
  /\ UNCHANGED <<caught, bursts, held, shown, todo, pane, overlay, holding, current, base,
                 chan, attached, config>>

forwardInput ==
  \/ escapeKey \/ plainKeys \/ readPaste \/ prefixKey \/ prefixCommand
  \/ helpKey \/ hiding \/ commandPrompt

-----------------------------------------------------------------------------
(* The reader: overlay is looked at when a frame is read, and the frame is *)
(* written after that.                                                     *)
readFrame ==
  /\ attached /\ holding = NoFrame /\ chan # <<>> /\ Head(chan) # Bye
  /\ chan' = Tail(chan) /\ holding' = IF overlay THEN NoFrame ELSE Head(chan)
  /\ UNCHANGED <<inputVars, overlay, screen, current, base, asked, attached, config>>

(* A diff only fits the frame it was made from. *)
writeFrame ==
  /\ attached /\ holding # NoFrame /\ holding' = NoFrame
  /\ screen' = IF holding[1] \in {0, screen} THEN holding[2] ELSE Mess
  /\ UNCHANGED <<inputVars, overlay, serverVars, attached, config>>

readBye ==
  /\ attached /\ holding = NoFrame /\ chan # <<>> /\ Head(chan) = Bye
  /\ attached' = FALSE
  /\ UNCHANGED <<inputVars, overlay, holding, screen, serverVars, config>>

(* The server, as Frames models it: frames are diffs from the last one     *)
(* sent, and a Refresh makes the next one full.                            *)
Saying == Len(chan) < MaxChan /\ Bye \notin Range(chan)
Change == /\ current < MaxFrames /\ current' = current + 1
          /\ UNCHANGED <<inputVars, overlay, holding, screen, base, chan, asked,
                         attached, config>>
SendFrame == /\ Saying /\ base # current
             /\ chan' = Append(chan, <<base, current>>) /\ base' = current
             /\ UNCHANGED <<inputVars, overlay, holding, screen, current, asked,
                            attached, config>>
Refreshed == /\ refresh > 0 /\ refresh' = refresh - 1 /\ base' = 0
             /\ UNCHANGED <<inputVars, overlay, holding, screen, current, chan, hole,
                            attached, config>>
readFrames == readFrame \/ writeFrame \/ readBye
server == SendFrame \/ Refreshed

Next ==
  \/ Key \/ Sequence \/ Paste \/ forwardInput \/ readFrames \/ Change \/ server

Spec == Init /\ [][Next]_vars
             /\ WF_vars(forwardInput) /\ WF_vars(readFrames) /\ WF_vars(server)

-----------------------------------------------------------------------------
(* Properties. *)

TypeOK ==
  /\ Range(in) \subseteq AllKeys \cup AllFinals /\ Len(typed) = Len(in)
  /\ (loop = "paste") = (sink # "none") /\ (loop = "hiding") = (todo # <<>>)
  /\ shown => loop = "prefix"
  /\ (overlay => (loop \in {"help", "hiding"} \/ sink = "help"))
  /\ base \in 0..current /\ screen \in {Popup, Mess} \cup 1..current

Consumed == 1..(Len(in) - Len(in'))

(* readPaste: "a prefix key, an Esc or an F12 inside a paste never acts on *)
(* ngmux": no byte of a paste is read as a key by the loop, a popup or a   *)
(* prompt, unless the paste came while an escape typed by hand was still   *)
(* unfinished. Its start marker is then read as the end of that escape,    *)
(* and the rest as keys; at the top of the loop an Alt-[ stays unfinished  *)
(* for any time.                                                           *)
PasteNeverActs ==
  [][acted' # acted => caught \/ \A i \in Consumed : typed[i]]_vars

(* An app that takes paste markers always gets the closing one, and one    *)
(* that does not never sees a piece of a marker, however a paste is cut,   *)
(* with the same exception.                                                *)
MarkersWhole ==
  \/ caught
  \/ IF bracketed THEN pane = <<>> \/ sink = "pane" \/ Last(pane) = "end"
                  ELSE pane = <<>>

(* What the pane gets is whole, and what the client keeps about popups and *)
(* pastes agrees.                                                          *)
ClientOK == TypeOK /\ MarkersWhole

(* The keyboard is never held: everything typed is read in the end, but    *)
(* for a CSI the terminal did not finish; a paste whose end never comes    *)
(* ends too.                                                               *)
Gone == ~attached \/ loop = "ended"
Unfinished == loop = "top" /\ Len(in) > 1 /\ in[2] = "[" /\ Finished(in) = {}
KeysAreRead == <>[](Gone \/ (loop # "paste" /\ (in = <<>> \/ Unfinished)))

(* However popups, prompts and frames overlapped, the terminal shows the   *)
(* session again in the end, but for a panel that a bound m erased: it     *)
(* stays a hole until something else asks for a repaint.                   *)
ScreenRepaired ==
  <>[](Gone \/ loop \in {"prefix", "prompt", "help"} \/ screen = current \/ hole)
=============================================================================
