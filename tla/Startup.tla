------------------------------ MODULE Startup ------------------------------
(***************************************************************************)
(* Coming up and going down: `ngmux new` and `ngmux attach`                *)
(* (src/cmd/ngmux/main.go) against the daemons that listen on, take over   *)
(* and remove one socket path (src/internal/ipc, server.Run).  The file at *)
(* the path is known by the daemon whose socket it is; a crash leaves it   *)
(* behind.  Each system call on the path is a step.                        *)
(***************************************************************************)
EXTENDS Integers, FiniteSets

CONSTANTS
  Users,         \* terminals in which ngmux is run
  MaxDaemon,     \* bound: daemons ever spawned
  MaxCrash       \* bound: daemons that crash

ASSUME UsersAssumption == Users # {}
ASSUME BoundsAssumption == MaxDaemon \in Nat /\ MaxCrash \in Nat

Daemons == 1..MaxDaemon
NoDaemon == 0

VARIABLES
  file,          \* the daemon whose socket is at the path, NoDaemon when none
  daemon,        \* what each daemon is at
  user,          \* what each user's ngmux is at
  of,            \* the daemon a user is attached to
  raced,         \* history: daemons that came up while another was at the path
  calm,          \* history: no crash, stop or such race since the user began
  crashes

vars == <<file, daemon, user, of, raced, calm, crashes>>
userVars == <<user, of>>

Init ==
  /\ file = NoDaemon
  /\ daemon = [d \in Daemons |-> "unborn"]
  /\ user = [u \in Users |-> "idle"] /\ of = [u \in Users |-> NoDaemon]
  /\ raced = {} /\ calm = [u \in Users |-> TRUE] /\ crashes = 0

-----------------------------------------------------------------------------
(* A connect is answered by the kernel from listen() to close(), through   *)
(* the path only.                                                          *)
Listening == {"chmod", "serving", "unlink"}
Answers == file # NoDaemon /\ daemon[file] \in Listening

(* A daemon that found nobody at the path and may still change it. *)
AtPath == {"remove", "bind", "listen", "chmod", "serving",
           "failing", "unlink", "unlink again"}
ComingUp == {"remove", "bind", "listen", "chmod"}
Starting == ComingUp \cup {"probe"}

At(d, a) == daemon[d] = a
Moves(d, a) == daemon' = [daemon EXCEPT ![d] = a]
Remains == UNCHANGED <<file, crashes>> /\ UNCHANGED userVars

(* History: whoever is at the path while a daemon comes up races it. *)
Races ==
  raced' = raced \cup
    {d \in Daemons : /\ daemon[d] \in ComingUp \/ daemon'[d] \in ComingUp
                     /\ \E e \in Daemons \ {d} : daemon[e] \in AtPath \/ daemon'[e] \in AtPath}
Upset == calm' = [u \in Users |-> FALSE]
Undisturbed == calm' = IF raced' = raced THEN calm ELSE [u \in Users |-> FALSE]

-----------------------------------------------------------------------------
(* Listen: a socket somebody answers on is left alone, any other removed.  *)
(* fault: it is removed whoever answers. *)
probe_ignored(d) ==
  /\ At(d, "probe") /\ Moves(d, "remove")
  /\ Races /\ Undisturbed /\ Remains
probe(d) ==
  /\ At(d, "probe")
  /\ Moves(d, IF Answers THEN "failed" ELSE "remove")
  /\ Races /\ Undisturbed /\ Remains

(* fault: a stale socket stays. *)
remove_nothing(d) == At(d, "remove") /\ Moves(d, "bind") /\ Races /\ Undisturbed /\ Remains
remove(d) ==
  /\ At(d, "remove") /\ Moves(d, "bind") /\ file' = NoDaemon
  /\ Races /\ Undisturbed /\ UNCHANGED <<crashes, user, of>>

(* net.Listen: bind() fails when there is a file; listen() comes after it. *)
bind(d) ==
  /\ At(d, "bind")
  /\ IF file = NoDaemon THEN Moves(d, "listen") /\ file' = d
                        ELSE Moves(d, "failed") /\ UNCHANGED file
  /\ Races /\ Undisturbed /\ UNCHANGED <<crashes, user, of>>

listen(d) ==
  /\ At(d, "listen") /\ Moves(d, "chmod")
  /\ Races /\ Undisturbed /\ Remains

(* The path may be gone again; it may also be another daemon's. *)
chmod(d) ==
  /\ At(d, "chmod")
  /\ Moves(d, IF file = NoDaemon THEN "failing" ELSE "serving")
  /\ Races /\ Undisturbed /\ Remains

(* Closing a listener unlinks its path first, whosoever socket is there.   *)
closeFailed(d) ==
  /\ At(d, "failing") /\ Moves(d, "failed") /\ file' = NoDaemon
  /\ Races /\ Undisturbed /\ UNCHANGED <<crashes, user, of>>

Listen(d) == probe(d) \/ remove(d) \/ bind(d) \/ listen(d) \/ chmod(d) \/ closeFailed(d)

(* Run: quit, by the last session's end or kill-server; the listener is    *)
(* closed, the path removed, and the clients are let go.                   *)
quit(d) ==
  /\ At(d, "serving") /\ Moves(d, "unlink")
  /\ Upset /\ Races /\ Remains

lnClose(d) ==
  /\ At(d, "unlink") /\ Moves(d, "unlink again") /\ file' = NoDaemon
  /\ Upset /\ Races /\ UNCHANGED <<crashes, user, of>>

Remove(d) ==
  /\ At(d, "unlink again") /\ Moves(d, "sweep") /\ file' = NoDaemon
  /\ Upset /\ Races /\ UNCHANGED <<crashes, user, of>>

LetGo(d) == user' = [u \in Users |-> IF of[u] = d THEN "idle" ELSE user[u]]
            /\ of' = [u \in Users |-> IF of[u] = d THEN NoDaemon ELSE of[u]]

shutdownAll(d) ==
  /\ At(d, "sweep") /\ Moves(d, "stopped") /\ LetGo(d)
  /\ Upset /\ Races /\ UNCHANGED <<file, crashes>>

Stopping(d) == lnClose(d) \/ Remove(d) \/ shutdownAll(d)

(* A crash, at any point: the socket file stays. *)
Crash(d) ==
  /\ crashes < MaxCrash /\ crashes' = crashes + 1
  /\ daemon[d] \notin {"unborn", "failed", "stopped", "crashed"}
  /\ Moves(d, "crashed") /\ LetGo(d)
  /\ Upset /\ Races /\ UNCHANGED file

-----------------------------------------------------------------------------
(* A user. *)
Steps(u, from, to) == user[u] = from /\ user' = [user EXCEPT ![u] = to]
Alone == UNCHANGED <<file, daemon, of, raced, calm, crashes>>

(* A user runs ngmux, again when the last one is over. *)
Peaceful == \A d \in Daemons :
  /\ daemon[d] \notin {"failing", "unlink", "unlink again", "sweep"}
  /\ d \in raced => daemon[d] \in {"failed", "stopped", "crashed"}

(* Bound: there is a daemon left for each of them to spawn. *)
Spare == Cardinality({d \in Daemons : At(d, "unborn")})
           > Cardinality({v \in Users : user[v] = "new"})

run(u, cmd) ==
  /\ user[u] \in {"idle", "refused"} /\ user' = [user EXCEPT ![u] = cmd]
  /\ cmd = "new" => Spare
  /\ calm' = [calm EXCEPT ![u] = Peaceful]
  /\ UNCHANGED <<file, daemon, of, raced, crashes>>

(* cmdNew: dial, and startDaemon when nobody answers. *)
Spawns(u) ==
  /\ Steps(u, "new", "waiting") /\ ~Answers
  /\ \E d \in Daemons : /\ At(d, "unborn") /\ \A e \in 1..(d - 1) : ~At(e, "unborn")
                        /\ Moves(d, "probe")
  /\ UNCHANGED <<file, of, raced, calm, crashes>>
cmdNew(u) == Spawns(u) \/ (Steps(u, "new", "attaching") /\ Answers /\ Alone)

(* startDaemon polls. Five seconds are longer than a daemon takes: the     *)
(* deadline passes when none is on its way.                                *)
poll(u) == Steps(u, "waiting", "attaching") /\ Answers /\ Alone
(* fault: no deadline. *)
deadline_never(u) == FALSE
deadline(u) ==
  /\ Steps(u, "waiting", "refused") /\ ~Answers
  /\ \A d \in Daemons : daemon[d] \notin Starting
  /\ Alone

cmdAttach(u) ==
  \/ Steps(u, "attach", "attaching") /\ Answers /\ Alone
  \/ Steps(u, "attach", "idle") /\ ~Answers /\ Alone

(* Attach dials once more. *)
Attach(u) ==
  \/ /\ Steps(u, "attaching", "attached") /\ Answers
     /\ of' = [of EXCEPT ![u] = file]
     /\ UNCHANGED <<file, daemon, raced, calm, crashes>>
  \/ Steps(u, "attaching", "refused") /\ ~Answers /\ Alone

detach(u) ==
  /\ Steps(u, "attached", "idle") /\ of' = [of EXCEPT ![u] = NoDaemon]
  /\ UNCHANGED <<file, daemon, raced, calm, crashes>>

Client(u) == cmdNew(u) \/ poll(u) \/ deadline(u) \/ cmdAttach(u) \/ Attach(u)

Next ==
  \/ \E d \in Daemons : Listen(d) \/ quit(d) \/ Stopping(d) \/ Crash(d)
  \/ \E u \in Users : Client(u) \/ detach(u) \/ run(u, "new") \/ run(u, "attach")

Spec ==
  /\ Init /\ [][Next]_vars
  /\ \A d \in Daemons : WF_vars(Listen(d)) /\ WF_vars(Stopping(d))
  /\ \A u \in Users : WF_vars(Client(u))

-----------------------------------------------------------------------------
(* Properties. *)

TypeOK ==
  /\ file \in Daemons \cup {NoDaemon} /\ raced \subseteq Daemons
  /\ \A u \in Users : user[u] = "attached" <=> of[u] \in Daemons

(* A daemon that came up with nobody else at the path stays reachable as   *)
(* long as it serves, whoever starts, crashes or gives up afterwards.      *)
Reachable ==
  TypeOK /\ \A d \in Daemons \ raced : At(d, "serving") => file = d

(* "Listen creates the server socket, removing a stale one left by a       *)
(* crash": `ngmux new` fails only when a daemon crashed, stopped or raced  *)
(* another one while it ran, never because of what was there before.       *)
NewSucceeds ==
  [][\A u \in Users : user[u] # "refused" /\ user'[u] = "refused" => ~calm[u]]_vars

(* And it always ends one way or the other. *)
Busy == {"new", "waiting", "attach", "attaching"}
RunEnds == \A u \in Users : (user[u] \in Busy) ~> (user[u] \notin Busy)

(* Listen is for "removing a stale one left by a crash": a socket somebody *)
(* answers on is not removed.                                              *)
RemovesOnlyStale ==
  [][\A d \in Daemons : remove(d) /\ file # NoDaemon => ~Answers]_vars
=============================================================================
