------------------------------- MODULE Registry -------------------------------
(***************************************************************************)
(* The daemon's registry of sessions and clients (internal/server:         *)
(* server.go, and the session commands of commands.go and command.go).     *)
(*                                                                         *)
(* Everything is guarded by Server.mu, but an operation is several         *)
(* sections under it: a connection looks a session up, lets go of the      *)
(* lock, and acts later on the *session or the name it kept.  One step     *)
(* here is one such section, or one read made outside of the lock.         *)
(*                                                                         *)
(* Of a session only its name, whether it has shells and its reaper's      *)
(* place are kept; Session shows how the last exit reaches the reaper.     *)
(***************************************************************************)
EXTENDS Integers, Sequences, FiniteSets, SequencesExt

CONSTANTS Conn,         \* connections, each served by a goroutine
          Name,         \* session names
          MaxSession    \* bound: sessions ever created

ASSUME RegistryAssumption == MaxSession \in Nat \ {0} /\ "" \notin Name

Sessions == 1..MaxSession
NoSession == 0
NoName == ""            \* "" is never a session name

VARIABLES
  sessions,    \* Server.sessions: name |-> session or NoSession
  order,       \* Server.order
  clients,     \* Server.clients
  view,        \* connection |-> client.sess; NoName once it was sent a bye
  up,          \* the daemon runs: the done channel is not closed
  name,        \* session |-> its name
  shells,      \* session |-> "unborn", "running", "ended" (they all exited)
               \*             or "stopped" (shutdown was called)
  reaper,      \* session |-> [at: "idle", "emptying", "quitting" or "stopped",
               \*              name: the name it read]
  conn         \* connection |-> [at, then: what its goroutine does next and
               \*                 after that, name, sess: what it holds]

registryVars == <<sessions, order>>
clientVars == <<clients, view>>
sessionVars == <<name, shells>>
vars == <<registryVars, clientVars, up, sessionVars, reaper, conn>>

Waiting(l) == [at |-> l, then |-> l, name |-> NoName, sess |-> NoSession]
Reaper(l) == [at |-> l, name |-> NoName]

Init ==
  /\ sessions = [n \in Name |-> NoSession] /\ order = <<>>
  /\ clients = {} /\ view = [c \in Conn |-> NoName]
  /\ up = TRUE
  /\ name = [s \in Sessions |-> NoName] /\ shells = [s \in Sessions |-> "unborn"]
  /\ reaper = [s \in Sessions |-> Reaper("idle")]
  /\ conn = [c \in Conn |-> Waiting("off")]

-----------------------------------------------------------------------------
Registered == {sessions[n] : n \in Name} \ {NoSession}

Does(c, l, then, n, s) ==
  conn' = [conn EXCEPT ![c] = [at |-> l, then |-> then, name |-> n, sess |-> s]]
Return(c) == conn' = [conn EXCEPT ![c] = Waiting(conn[c].then)]
At(c, l) == conn[c].at = l

(* A connection runs commands for the client it serves, or as a one-shot   *)
(* CLI request.  execCommand wants some session as the command's target:   *)
(* the client's own, the first in order, or the one -t names.              *)
Idle(c) == conn[c].at \in {"off", "serving"}
HasTarget == Registered # {}

-----------------------------------------------------------------------------
(* getOrCreateSession: a lookup, newSession outside of the lock, an insert. *)
(* The new session is nobody else's until the insert, so it is made with   *)
(* the lookup that missed.                                                 *)
getOrCreateSession(c, then, n) ==
  \/ /\ sessions[n] # NoSession
     /\ IF then \in {"off", "serving"} THEN conn' = [conn EXCEPT ![c] = Waiting(then)]
        ELSE Does(c, then, "serving", NoName, sessions[n])
     /\ UNCHANGED sessionVars
  \/ /\ sessions[n] = NoSession
     /\ \E s \in Sessions :
          /\ shells[s] = "unborn" /\ \A r \in 1..(s - 1) : shells[r] # "unborn"
          /\ name' = [name EXCEPT ![s] = n]
          /\ shells' = [shells EXCEPT ![s] = "running"]
          /\ Does(c, "insert", then, n, s)

attach(c, n) ==
  /\ At(c, "off")
  /\ getOrCreateSession(c, "newClient", n)
  /\ UNCHANGED <<registryVars, clientVars, up, reaper>>

(* new-session looks whether the name is free first, in a section of its   *)
(* own; the client that asked moves into the session.                      *)
cmdNewSession(c, n) ==
  /\ Idle(c) /\ HasTarget
  /\ sessions[n] = NoSession
  /\ Does(c, "lookup", IF At(c, "serving") THEN "moveClient" ELSE "off", n, NoSession)
  /\ UNCHANGED <<registryVars, clientVars, up, sessionVars, reaper>>

lookup(c) ==
  /\ At(c, "lookup")
  /\ getOrCreateSession(c, conn[c].then, conn[c].name)
  /\ UNCHANGED <<registryVars, clientVars, up, reaper>>

Found(c, s) ==
  IF conn[c].then = "off" THEN Return(c) ELSE Does(c, conn[c].then, "serving", NoName, s)

(* The loser of a race shuts its own session down and uses the first. *)
insert_overwrites(c) ==                \* fault: the winner is not looked for
  /\ At(c, "insert")
  /\ sessions' = [sessions EXCEPT ![conn[c].name] = conn[c].sess]
  /\ order' = Append(order, conn[c].name)
  /\ Found(c, conn[c].sess)
  /\ UNCHANGED <<clientVars, up, sessionVars, reaper>>
insert(c) ==
  /\ At(c, "insert")
  /\ LET n == conn[c].name  s == conn[c].sess IN
     IF sessions[n] # NoSession
     THEN /\ shells' = [shells EXCEPT ![s] = "stopped"]
          /\ Found(c, sessions[n])
          /\ UNCHANGED registryVars
     ELSE /\ sessions' = [sessions EXCEPT ![n] = s]
          /\ order' = Append(order, n)
          /\ Found(c, s)
          /\ UNCHANGED shells
  /\ UNCHANGED <<clientVars, up, name, reaper>>

-----------------------------------------------------------------------------
(* serveClient: the name the session bears at this moment is kept. *)
newClient(c) ==
  /\ At(c, "newClient")
  /\ view' = [view EXCEPT ![c] = name[conn[c].sess]]
  /\ Does(c, "addClient", "serving", NoName, NoSession)
  /\ UNCHANGED <<registryVars, clients, up, sessionVars, reaper>>

addClient(c) ==
  /\ At(c, "addClient")
  /\ clients' = clients \cup {c}
  /\ Return(c)
  /\ UNCHANGED <<registryVars, view, up, sessionVars, reaper>>

moveClient(c) ==
  /\ At(c, "moveClient")
  /\ view' = [view EXCEPT ![c] = name[conn[c].sess]]
  /\ Return(c)
  /\ UNCHANGED <<registryVars, clients, up, sessionVars, reaper>>

(* next-session and previous-session.  A client whose session is not in    *)
(* the order counts from the first.                                        *)
stepClientSession(c) ==
  /\ At(c, "serving") /\ HasTarget
  /\ LET n == Len(order)
         i == IF view[c] \in ToSet(order) THEN CHOOSE j \in 1..n : order[j] = view[c] ELSE 1
     IN  /\ n >= 2
         /\ \E delta \in {1, n - 1} :
              view' = [view EXCEPT ![c] = order[((i - 1 + delta) % n) + 1]]
  /\ UNCHANGED <<registryVars, clients, up, sessionVars, reaper, conn>>

(* The client detaches, or its connection ends (a bye makes it).  The      *)
(* *client is garbage from here on.                                        *)
removeClient(c) ==
  /\ At(c, "serving")
  /\ clients' = clients \ {c}
  /\ view' = [view EXCEPT ![c] = NoName]
  /\ conn' = [conn EXCEPT ![c] = Waiting("off")]
  /\ UNCHANGED <<registryVars, up, sessionVars, reaper>>

-----------------------------------------------------------------------------
(* sessionEmptied(n), the section under the lock: shutdown is part of it   *)
(* and the byes are queued before the lock is released.                    *)
lastOne_never == FALSE                      \* fault: the daemon outlives its sessions
lastOne == \A n \in Name : sessions'[n] = NoSession

(* The first place the name has in the order is closed up. *)
firstAt(n, i) == order[i] = n /\ \A j \in 1..(i - 1) : order[j] # n
dropFromOrder(n) ==
  IF n \in ToSet(order)
  THEN RemoveAt(order, CHOOSE i \in DOMAIN order : firstAt(n, i))
  ELSE order

sessionEmptied(n) ==
  /\ IF sessions[n] # NoSession
     THEN /\ sessions' = [sessions EXCEPT ![n] = NoSession]
          /\ order' = dropFromOrder(n)
          /\ shells' = [shells EXCEPT ![sessions[n]] = "stopped"]
     ELSE UNCHANGED <<registryVars, shells>>
  /\ LET viewers == {c \in clients : view[c] = n} IN
     IF \A m \in Name : sessions'[m] = NoSession
     THEN UNCHANGED view
     ELSE view' = [c \in Conn |-> IF c \in viewers THEN NoName ELSE view[c]]
  /\ UNCHANGED <<clients, up, name>>

(* quit closes the done channel; Run then calls shutdownAll and returns.   *)
(* One step for the three: whatever else is done before the process ends   *)
(* ends with it.                                                           *)
quit ==
  /\ up' = FALSE
  /\ shells' = [s \in Sessions |-> IF s \in Registered THEN "stopped" ELSE shells[s]]
  /\ sessions' = [n \in Name |-> NoSession] /\ order' = <<>>
  /\ clients' = {} /\ view' = [c \in Conn |-> NoName]
  /\ conn' = [c \in Conn |-> Waiting("off")]
  /\ reaper' = [s \in Sessions |-> Reaper("stopped")]
  /\ UNCHANGED name

(* killSession(n) finds the session, shuts it down unlocked, and only then *)
(* has the name dropped.                                                   *)
cmdKillSession(c, n) ==
  /\ Idle(c) /\ sessions[n] # NoSession
  /\ Does(c, "shutdown", conn[c].at, n, sessions[n])
  /\ UNCHANGED <<registryVars, clientVars, up, sessionVars, reaper>>

shutdown(c) ==
  /\ At(c, "shutdown")
  /\ shells' = [shells EXCEPT ![conn[c].sess] = "stopped"]
  /\ Does(c, "emptied", conn[c].then, conn[c].name, NoSession)
  /\ UNCHANGED <<registryVars, clientVars, up, name, reaper>>

emptiedByKill(c) ==
  /\ At(c, "emptied")
  /\ sessionEmptied(conn[c].name)
  /\ IF lastOne THEN Does(c, "quit", conn[c].then, NoName, NoSession) ELSE Return(c)
  /\ UNCHANGED reaper

(* The lock was released before quit is called. *)
quitAfterKill(c) == At(c, "quit") /\ quit

-----------------------------------------------------------------------------
(* rename-session: the target is resolved in one section and renamed in    *)
(* another, whatever became of it in between.                              *)
resolveRename(c, n, new) ==
  /\ Idle(c) /\ sessions[n] # NoSession
  /\ Does(c, "rename", conn[c].at, new, sessions[n])
  /\ UNCHANGED <<registryVars, clientVars, up, sessionVars, reaper>>

inOrder_kept(old, new) == order             \* fault: the order keeps the old name
inOrder(old, new) == [i \in DOMAIN order |-> IF order[i] = old THEN new ELSE order[i]]

named(s, new) == [name EXCEPT ![s] = new]

renameSession(c) ==
  /\ At(c, "rename")
  /\ LET s == conn[c].sess  old == name[s]  new == conn[c].name IN
     IF sessions[new] = NoSession
     THEN /\ sessions' = [sessions EXCEPT ![old] = NoSession, ![new] = s]
          /\ order' = inOrder(old, new)
          /\ name' = named(s, new)
          /\ view' = [d \in Conn |-> IF d \in clients /\ view[d] = old THEN new ELSE view[d]]
     ELSE UNCHANGED <<registryVars, name, view>>
  /\ Return(c)
  /\ UNCHANGED <<clients, up, shells, reaper>>

-----------------------------------------------------------------------------
(* A session's own end.  After a shutdown the reaper either sees the dead  *)
(* channel or an exit that reached it first.                               *)
lastExit(s) ==
  /\ shells[s] = "running"
  /\ shells' = [shells EXCEPT ![s] = "ended"]
  /\ UNCHANGED <<registryVars, clientVars, up, name, reaper, conn>>

(* onEmpty(s.name): the name is read without a lock. *)
onEmpty(s) ==
  /\ reaper[s].at = "idle" /\ shells[s] \in {"ended", "stopped"}
  /\ reaper' = [reaper EXCEPT ![s] = [at |-> "emptying", name |-> name[s]]]
  /\ UNCHANGED <<registryVars, clientVars, up, sessionVars, conn>>

reaperStopped(s) ==
  /\ reaper[s].at = "idle" /\ shells[s] = "stopped"
  /\ reaper' = [reaper EXCEPT ![s] = Reaper("stopped")]
  /\ UNCHANGED <<registryVars, clientVars, up, sessionVars, conn>>

emptiedByReaper(s) ==
  /\ reaper[s].at = "emptying"
  /\ sessionEmptied(reaper[s].name)
  /\ reaper' = [reaper EXCEPT ![s] = Reaper(IF lastOne THEN "quitting" ELSE "stopped")]
  /\ UNCHANGED conn

quitAfterReap(s) == reaper[s].at = "quitting" /\ quit

-----------------------------------------------------------------------------
killServer(c) == Idle(c) /\ quit

-----------------------------------------------------------------------------
Attaching(c) == lookup(c) \/ insert(c) \/ newClient(c) \/ addClient(c) \/ moveClient(c)
Finishing(c) == shutdown(c) \/ emptiedByKill(c) \/ quitAfterKill(c) \/ renameSession(c)
Reaping(s) == onEmpty(s) \/ reaperStopped(s) \/ emptiedByReaper(s) \/ quitAfterReap(s)

Request(c) ==
  \/ stepClientSession(c) \/ removeClient(c) \/ killServer(c)
  \/ \E n \in Name : attach(c, n) \/ cmdNewSession(c, n) \/ cmdKillSession(c, n)
  \/ \E n, new \in Name : resolveRename(c, n, new)

Next ==
  /\ up
  /\ \/ \E c \in Conn : Request(c) \/ Attaching(c) \/ Finishing(c)
     \/ \E s \in Sessions : lastExit(s) \/ Reaping(s)

(* A goroutine in the middle of something goes on; users and shells need   *)
(* never do anything.                                                      *)
Fairness ==
  /\ \A c \in Conn : WF_vars(up /\ (Attaching(c) \/ Finishing(c)))
  /\ \A s \in Sessions : WF_vars(up /\ Reaping(s))

Spec == Init /\ [][Next]_vars /\ Fairness

-----------------------------------------------------------------------------
Labels ==
  {"off", "lookup", "insert", "newClient", "addClient", "moveClient",
   "serving", "shutdown", "emptied", "quit", "rename"}

(* Types; and order, which the creators of a session race to append to,    *)
(* names no session twice.                                                 *)
TypeOK ==
  /\ sessions \in [Name -> Sessions \cup {NoSession}]
  /\ order \in Seq(Name) /\ IsInjective(order)
  /\ clients \subseteq Conn
  /\ view \in [Conn -> Name \cup {NoName}]
  /\ up \in BOOLEAN
  /\ name \in [Sessions -> Name \cup {NoName}]
  /\ shells \in [Sessions -> {"unborn", "running", "ended", "stopped"}]
  /\ reaper \in [Sessions -> [at : {"idle", "emptying", "quitting", "stopped"},
                              name : Name \cup {NoName}]]
  /\ conn \in [Conn -> [at : Labels, then : Labels, name : Name \cup {NoName},
                        sess : Sessions \cup {NoSession}]]

(* A session is registered under the name it bears and under no other,     *)
(* however renames, kills and re-creations of a name interleave: what the  *)
(* reaper passes to sessionEmptied is the key of its own entry.            *)
NamesAgree == \A n \in Name : sessions[n] # NoSession => name[sessions[n]] = n

(* The order lists registered sessions only: next-session and a command    *)
(* without a target never get a name that is gone.                         *)
OrderIsRegistered == \A i \in DOMAIN order : sessions[order[i]] # NoSession

(* The registry is coherent: map, names and order tell the same sessions.  *)
Coherent == NamesAgree /\ OrderIsRegistered

(* "When no session is left the server stops": a registry that has emptied *)
(* - by a kill, by the last shell's exit, through any race of the two -    *)
(* has a goroutine about to quit, and nothing takes that back.             *)
Inserting(s) == \E c \in Conn : At(c, "insert") /\ conn[c].sess = s
StopsWhenEmpty ==
  up /\ Registered = {} =>
    \/ \A s \in Sessions : shells[s] = "unborn" \/ Inserting(s)
    \/ \E c \in Conn : At(c, "quit")
    \/ \E s \in Sessions : reaper[s].at = "quitting"
=============================================================================
