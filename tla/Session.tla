------------------------------- MODULE Session -------------------------------
(***************************************************************************)
(* One session: its windows and panes, the shells behind the panes, and    *)
(* the goroutines that fold a finished shell out of the layout.            *)
(*                                                                         *)
(* Commands, mouse presses and the reaper each run under session.mu, so    *)
(* each is one action.  What interleaves with them: children that exit,    *)
(* one pump goroutine per pane, the bounded paneExit channel, the reaper,  *)
(* and the two places that stop a session (killSession on a connection's   *)
(* goroutine, sessionEmptied on the reaper's), which call shutdown, whose  *)
(* close(dead) and closeAll are two steps.  A connection may keep using    *)
(* the *session it resolved before the stop: no command is guarded by it.  *)
(***************************************************************************)
EXTENDS Window

CONSTANTS MaxPane,      \* bound: pane ids handed out
          MaxWindow,    \* bound: window ids handed out
          ExitCap,      \* capacity of the paneExit channel (32 in the code)
          SpawnFails    \* whether starting a shell may fail

ASSUME SessionAssumption ==
  /\ MaxPane \in Nat \ {0}
  /\ MaxWindow \in Nat \ {0}
  /\ ExitCap \in Nat \ {0}
  /\ SpawnFails \in BOOLEAN

PaneIds == 1..MaxPane
WindowIds == 0..(MaxWindow - 1)
NoWindow == -1

VARIABLES
  windows,       \* session.windows: the ids of the listed windows, in order
  cur,           \* session.cur: 0-based index of the current window
  window,        \* id |-> record of every window created, listed or not
  nextPaneID,
  nextWindowID,
  win,           \* pane |-> pane.win
  shell,         \* pane |-> its child: "unborn", "running", "exited" (the pty
                 \*          still open) or "closed" (pane.close was called)
  pump,          \* pane |-> its pump: "none", "reading" or "done"
  paneExit,      \* the channel of finished panes
  reaper,        \* "waiting", "notifying" or "stopped"
  dead,          \* the dead channel is closed
  registered,    \* Server.sessions still holds the session
  stop           \* progress of killSession ("kill") and of onEmpty ("empty")

idVars == <<nextPaneID, nextWindowID>>
layoutVars == <<windows, cur, window>>
paneVars == <<win, shell, pump>>
reapVars == <<paneExit, reaper>>
stopVars == <<dead, registered, stop>>
vars == <<idVars, layoutVars, paneVars, reapVars, stopVars>>

Stoppers == {"kill", "empty"}

Unused == [tree |-> NoTree, panes |-> {}, active |-> NoPane, zoom |-> NoPane]

(* newSession: one window with one running shell, and the reaper started. *)
Init ==
  /\ windows = <<0>> /\ cur = 0
  /\ window = [w \in WindowIds |-> IF w = 0 THEN wrapWindow(1) ELSE Unused]
  /\ nextPaneID = 1 /\ nextWindowID = 1
  /\ win = [p \in PaneIds |-> IF p = 1 THEN 0 ELSE NoWindow]
  /\ shell = [p \in PaneIds |-> IF p = 1 THEN "running" ELSE "unborn"]
  /\ pump = [p \in PaneIds |-> IF p = 1 THEN "reading" ELSE "none"]
  /\ paneExit = <<>> /\ reaper = "waiting"
  /\ dead = FALSE /\ registered = TRUE
  /\ stop = [g \in Stoppers |-> "idle"]

-----------------------------------------------------------------------------
(* Helpers shared by the actions. *)

HasWindow == windows # <<>>
CurrentId == windows[cur + 1]
Current == window[CurrentId]

(* withWindow: the command changes the current window's record only. *)
SetCurrent(w) ==
  /\ HasWindow
  /\ window' = [window EXCEPT ![CurrentId] = w]
  /\ UNCHANGED <<windows, cur>>

takePane == nextPaneID < MaxPane /\ nextPaneID' = nextPaneID + 1
takeWindow == nextWindowID < MaxWindow /\ nextWindowID' = nextWindowID + 1

(* A shell started for pane p of window w, with its pump. *)
Started(p, w) ==
  /\ win' = [win EXCEPT ![p] = w]
  /\ shell' = [shell EXCEPT ![p] = "running"]
  /\ pump' = [pump EXCEPT ![p] = "reading"]

(* pane.close on every pane of S. *)
Close(S) ==
  /\ shell' = [p \in PaneIds |-> IF p \in S THEN "closed" ELSE shell[p]]
  /\ UNCHANGED <<win, pump>>

(* The pane's next exit is routed to window w. *)
moveTo_forgotten(p, w) == UNCHANGED win         \* fault: pane.win is left behind
moveTo(p, w) == win' = [win EXCEPT ![p] = w]

(* removeWindowAt: cur is clamped to the shorter list, nothing more. *)
ClampCur_once(n) == cur' = IF cur < n THEN cur ELSE n - 1   \* fault: -1 when empty
ClampCur(n) == cur' = IF cur < n THEN cur ELSE IF n = 0 THEN 0 ELSE n - 1

removeWindowAt(i) ==
  /\ windows' = RemoveAt(windows, i)
  /\ ClampCur(Len(windows) - 1)

IndexOf(w) == CHOOSE i \in DOMAIN windows : windows[i] = w

-----------------------------------------------------------------------------
(* Commands.  Room is what layout's geometry answers: either answer is     *)
(* possible for every tree, depending on the viewport.                     *)

spawnWindow ==
  /\ takePane /\ takeWindow
  /\ \/ /\ Started(nextPaneID', nextWindowID)
        /\ window' = [window EXCEPT ![nextWindowID] = wrapWindow(nextPaneID')]
        /\ windows' = Append(windows, nextWindowID)
        /\ cur' = Len(windows)
     \/ SpawnFails /\ UNCHANGED <<paneVars, layoutVars>>
  /\ UNCHANGED <<reapVars, stopVars>>

cmdSplitWindow ==
  /\ HasWindow
  /\ takePane
  /\ \/ SetCurrent(split(Current, nextPaneID')) /\ Started(nextPaneID', CurrentId)
     \/ UNCHANGED <<layoutVars, paneVars>>                      \* ErrNoRoom
     \/ /\ SpawnFails
        /\ SetCurrent(splitUnspawned(Current, nextPaneID'))
        /\ UNCHANGED paneVars
  /\ UNCHANGED <<nextWindowID, reapVars, stopVars>>

cmdKillPane ==
  /\ HasWindow
  /\ Close({Current.active} \cap Current.panes)
  /\ UNCHANGED <<idVars, layoutVars, reapVars, stopVars>>

cmdKillWindow ==
  /\ HasWindow
  /\ Close(Current.panes)
  /\ window' = [window EXCEPT ![CurrentId] = closeAll(Current)]
  /\ removeWindowAt(cur + 1)
  /\ UNCHANGED <<idVars, reapVars, stopVars>>

(* The commands that only rearrange or refocus the current window. *)
Rearranged(w) == SetCurrent(w) /\ UNCHANGED <<idVars, paneVars, reapVars, stopVars>>

cmdSwapPane == HasWindow /\ \E delta \in {-1, 1} : Rearranged(swapActive(Current, delta))

(* Without an index select-pane cycles; previous-pane is the other way. *)
cyclePane ==
  HasWindow /\ \E delta \in {-1, 1} : Rearranged(focus(unzoom(Current), delta))

cmdSelectPane ==
  /\ HasWindow
  /\ \E p \in Leaves(Current.tree) : Rearranged([unzoom(Current) EXCEPT !.active = p])

toggleZoomCmd == HasWindow /\ Rearranged(toggleZoom(Current))

cmdSelectLayout ==
  HasWindow /\ \E preset \in Presets : Rearranged(selectLayout(Current, preset))

(* routePress and routeWheel: the pane under the pointer takes the focus,  *)
(* and the zoomed pane is under every pointer.                             *)
mouseFocus ==
  /\ HasWindow
  /\ \E p \in Leaves(Current.tree) :
       /\ Current.zoom \in {NoPane, p}
       /\ Rearranged([Current EXCEPT !.active = p])

selectWindow ==
  /\ cur' \in 0..(Len(windows) - 1)
  /\ UNCHANGED <<windows, window, idVars, paneVars, reapVars, stopVars>>

stepWindow ==
  /\ HasWindow
  /\ \E delta \in {-1, 1} : cur' = (cur + delta + Len(windows)) % Len(windows)
  /\ UNCHANGED <<windows, window, idVars, paneVars, reapVars, stopVars>>

breakPane ==
  /\ HasWindow /\ takeWindow
  /\ LET p == Current.active IN
     /\ p \in Current.panes /\ Current.panes # {p}
     /\ window' = [window EXCEPT ![CurrentId] = detachPane(Current, p),
                                 ![nextWindowID] = wrapWindow(p)]
     /\ moveTo(p, nextWindowID)
  /\ windows' = Append(windows, nextWindowID)
  /\ cur' = Len(windows)
  /\ UNCHANGED <<nextPaneID, shell, pump, reapVars, stopVars>>

(* join-pane with room in the target; without it nothing changes. *)
joinPane ==
  /\ HasWindow
  /\ \E i \in DOMAIN windows :
       LET src  == windows[i]
           p    == window[src].active
           last == window[src].panes = {p}
       IN  /\ src # CurrentId
           /\ p \in window[src].panes
           /\ window' = [window EXCEPT
                ![CurrentId] = adoptPane(@, p),
                ![src] = IF last THEN closeAll(@) ELSE detachPane(@, p)]
           /\ moveTo(p, CurrentId)
           /\ IF last
              THEN /\ windows' = RemoveAt(windows, i)
                   /\ cur' = IF i <= cur THEN cur - 1 ELSE cur
              ELSE UNCHANGED <<windows, cur>>
  /\ UNCHANGED <<idVars, shell, pump, reapVars, stopVars>>

-----------------------------------------------------------------------------
(* A child exits, its pump sees the end of the pty and reports it. *)

childExit(p) ==
  /\ shell[p] = "running"
  /\ shell' = [shell EXCEPT ![p] = "exited"]
  /\ UNCHANGED <<idVars, layoutVars, win, pump, reapVars, stopVars>>

(* pump reads the end of the pty and reports, as soon as the channel has   *)
(* room or the session is dead.                                            *)
reportExit_lossy(p) ==                  \* fault: a full channel drops the report
  /\ pump[p] = "reading" /\ shell[p] \in {"exited", "closed"}
  /\ paneExit' = IF Len(paneExit) < ExitCap THEN Append(paneExit, p) ELSE paneExit
  /\ pump' = [pump EXCEPT ![p] = "done"]
  /\ UNCHANGED <<idVars, layoutVars, win, shell, reaper, stopVars>>
reportExit(p) ==
  /\ pump[p] = "reading" /\ shell[p] \in {"exited", "closed"}
  /\ \/ Len(paneExit) < ExitCap /\ paneExit' = Append(paneExit, p)
     \/ dead /\ UNCHANGED paneExit
  /\ pump' = [pump EXCEPT ![p] = "done"]
  /\ UNCHANGED <<idVars, layoutVars, win, shell, reaper, stopVars>>

(* Whether the session is empty after a reap, whoever emptied it. *)
emptyAfterReap == windows' = <<>>

(* reapOne for the pane at the head of the channel.  A window that is no   *)
(* longer listed is updated all the same; removing it is then a no-op.     *)
reapOne ==
  /\ reaper = "waiting" /\ paneExit # <<>>
  /\ LET p == Head(paneExit)
         w == win[p]
         emptied == removePane(window[w], p).panes = {}
     IN  /\ window' = [window EXCEPT ![w] = removePane(@, p)]
         /\ IF p \in window[w].panes THEN Close({p}) ELSE UNCHANGED paneVars
         /\ IF emptied /\ w \in ToSet(windows)
            THEN removeWindowAt(IndexOf(w))
            ELSE UNCHANGED <<windows, cur>>
  /\ paneExit' = Tail(paneExit)
  /\ reaper' = IF emptyAfterReap THEN "notifying" ELSE "waiting"
  /\ UNCHANGED <<idVars, stopVars>>

reapDead ==
  /\ reaper = "waiting" /\ dead
  /\ reaper' = "stopped"
  /\ UNCHANGED <<idVars, layoutVars, paneVars, paneExit, stopVars>>

(* onEmpty: the reaper's goroutine enters Server.sessionEmptied. *)
notify ==
  /\ reaper = "notifying"
  /\ reaper' = "stopped"
  /\ stop' = [stop EXCEPT !["empty"] = "deregister"]
  /\ UNCHANGED <<idVars, layoutVars, paneVars, paneExit, dead, registered>>

-----------------------------------------------------------------------------
(* Stopping.  killSession runs shutdown and then sessionEmptied, which     *)
(* runs shutdown again if it still finds the session registered.  The      *)
(* first half of shutdown, close(dead), is part of the step that calls it. *)

killSession ==
  /\ registered /\ stop["kill"] = "idle"
  /\ dead' = TRUE
  /\ stop' = [stop EXCEPT !["kill"] = "sweep"]
  /\ UNCHANGED <<idVars, layoutVars, paneVars, reapVars, registered>>

(* The second half, under mu: every listed window is closed. *)
sweep(g) ==
  /\ stop[g] \in {"sweep", "sweep again"}
  /\ Close(UNION {window[w].panes : w \in ToSet(windows)})
  /\ window' = [w \in WindowIds |->
                  IF w \in ToSet(windows) THEN closeAll(window[w]) ELSE window[w]]
  /\ windows' = <<>>
  /\ stop' = [stop EXCEPT ![g] = IF @ = "sweep" THEN "deregister" ELSE "done"]
  /\ UNCHANGED <<idVars, cur, reapVars, dead, registered>>

sessionEmptied(g) ==
  /\ stop[g] = "deregister"
  /\ registered' = FALSE
  /\ dead' = (dead \/ registered)
  /\ stop' = [stop EXCEPT ![g] = IF registered THEN "sweep again" ELSE "done"]
  /\ UNCHANGED <<idVars, layoutVars, paneVars, reapVars>>

-----------------------------------------------------------------------------
Command ==
  \/ spawnWindow \/ cmdSplitWindow \/ cmdKillPane \/ cmdKillWindow
  \/ cmdSwapPane \/ cyclePane \/ cmdSelectPane \/ toggleZoomCmd
  \/ cmdSelectLayout \/ mouseFocus \/ selectWindow \/ stepWindow
  \/ breakPane \/ joinPane

Reap == reapOne \/ reapDead \/ notify
Stop(g) == sweep(g) \/ sessionEmptied(g)

Next ==
  \/ Command
  \/ \E p \in PaneIds : childExit(p) \/ reportExit(p)
  \/ Reap
  \/ killSession
  \/ \E g \in Stoppers : Stop(g)

(* Goroutines that can run do run; users and children owe nothing. *)
Fairness ==
  /\ \A p \in PaneIds : WF_vars(reportExit(p))
  /\ WF_vars(Reap)
  /\ \A g \in Stoppers : WF_vars(Stop(g))

Spec == Init /\ [][Next]_vars /\ Fairness

-----------------------------------------------------------------------------
(* Properties. *)

Listed == ToSet(windows)

(* The tree's leaves, the focus and the zoom are tied to panes below. *)
WindowOK(w) ==
  /\ w = [tree |-> w.tree, panes |-> w.panes, active |-> w.active, zoom |-> w.zoom]
  /\ w.panes \subseteq PaneIds

TypeOK ==
  /\ windows \in Seq(WindowIds) /\ cur \in Nat
  /\ window = [w \in WindowIds |-> window[w]]
  /\ \A w \in WindowIds : WindowOK(window[w])
  /\ nextPaneID \in PaneIds /\ nextWindowID \in 1..MaxWindow
  /\ win \in [PaneIds -> WindowIds \cup {NoWindow}]
  /\ shell \in [PaneIds -> {"unborn", "running", "exited", "closed"}]
  /\ pump \in [PaneIds -> {"none", "reading", "done"}]
  /\ paneExit \in Seq(PaneIds) /\ Len(paneExit) <= ExitCap
  /\ reaper \in {"waiting", "notifying", "stopped"}
  /\ dead \in BOOLEAN /\ registered \in BOOLEAN
  /\ stop \in [Stoppers -> {"idle", "sweep", "deregister", "sweep again", "done"}]

(* Every pane drawn in a window is routed back to that window, so an exit  *)
(* is folded out of the tree that shows it: pane.win against break-pane,   *)
(* join-pane, window closes and the reaper.                                *)
RoutedHome ==
  \A w \in WindowIds : \A p \in window[w].panes : win[p] = w

(* No shell is lost track of: one that runs, or has exited with its pty    *)
(* still open, is in one listed window, whatever was split, broken off,    *)
(* joined, killed or reaped before.                                        *)
NoShellLost ==
  \A p \in PaneIds :
    shell[p] \in {"running", "exited"} =>
      \E i \in DOMAIN windows : /\ p \in window[windows[i]].panes
                                 /\ \A j \in DOMAIN windows \ {i} :
                                      p \notin window[windows[j]].panes

(* A listed window has a pane and is listed once, and cur points at one.   *)
(* kill-window indexes the list with cur without the check current() does. *)
ListedWindows ==
  /\ \A i \in DOMAIN windows :
       /\ window[windows[i]].panes # {}
       /\ \A j \in DOMAIN windows : windows[i] = windows[j] => i = j
  /\ HasWindow => cur < Len(windows)

(* Every shell has a home: the three above, which fail together when a     *)
(* pane is moved, killed or reaped by halves.                              *)
PanesAreHome == RoutedHome /\ NoShellLost /\ ListedWindows

(* The leaves of a window's tree are its panes, through every split,       *)
(* removal, swap, move and preset.                                         *)
TreeHoldsPanes == \A w \in WindowIds : Leaves(window[w].tree) = window[w].panes

(* Every window has exactly one focused pane, one that exists. *)
FocusOnPane == \A w \in Listed : window[w].active \in window[w].panes

(* A zoomed window shows its focused pane, so keys never reach a pane that *)
(* is hidden.                                                              *)
ZoomIsFocus ==
  \A w \in Listed :
    window[w].zoom # NoPane => /\ window[w].zoom = window[w].active
                               /\ window[w].zoom \in window[w].panes

(* The trees stay binary: every split on the way to a leaf has a leaf on   *)
(* its other side, so RemoveLeaf always finds a sibling to promote.        *)
TreesAreBinary ==
  \A w \in WindowIds : LET t == window[w].tree IN
    \A p \in Leaves(t) : \A i \in DOMAIN t[p] :
      \E q \in Leaves(t) : /\ i \in DOMAIN t[q] /\ t[q][i] # t[p][i]
                           /\ \A j \in 1..(i - 1) : t[q][j] = t[p][j]

(* The tree a window draws is the tree of its panes, and stays one that    *)
(* layout.Remove can take apart.                                           *)
TreesFit == TreeHoldsPanes /\ TreesAreBinary

(* Keys go to a pane that exists and can be seen. *)
FocusIsShown == FocusOnPane /\ ZoomIsFocus

(* A shell that exits on its own never takes the focus away from another   *)
(* pane: a reap moves a window's focus only off the pane it removes.       *)
ReapKeepsFocus ==
  [][reapOne => \A w \in Listed \cap ToSet(windows') :
       window'[w].active # window[w].active => window[w].active = Head(paneExit)]_vars

(* Every shell that ended is cleaned up: its pty is closed and it leaves   *)
(* the layout, unless the session is stopped first.                        *)
ExitIsReaped ==
  \A p \in PaneIds :
    (shell[p] \in {"exited", "closed"})
      ~> (dead \/ (shell[p] = "closed" /\ p \notin UNION {window[w].panes : w \in Listed}))

(* A session left without windows is reported to the server, which drops   *)
(* it, unless a new window comes first.                                    *)
EmptyIsReported == (windows = <<>>) ~> (~registered \/ HasWindow)

(* The reaper and the stoppers get to the end of what shells and           *)
(* kill-window leave behind.                                               *)
ReaperKeepsUp == ExitIsReaped /\ EmptyIsReported
=============================================================================
