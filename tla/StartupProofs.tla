----------------------------- MODULE StartupProofs -----------------------------
(***************************************************************************)
(* Proofs about Startup for any number of users, daemons and crashes.  A   *)
(* daemon that nobody raced has the path to itself from its probe on: its  *)
(* socket, once bound, stays there.  While nothing upsets a user, then,    *)
(* the daemon that answers goes on answering, and the one spawned for the  *)
(* user comes up.                                                          *)
(***************************************************************************)
EXTENDS Startup, TLAPS

DaemonStates ==
  {"unborn", "probe", "remove", "bind", "listen", "chmod", "serving", "failing", "failed",
   "unlink", "unlink again", "sweep", "stopped", "crashed"}
UserStates == {"idle", "new", "waiting", "attach", "attaching", "attached", "refused"}

Types ==
  /\ file \in Daemons \cup {NoDaemon} /\ raced \subseteq Daemons
  /\ daemon \in [Daemons -> DaemonStates]
  /\ user \in [Users -> UserStates] /\ of \in [Users -> Daemons \cup {NoDaemon}]
  /\ calm \in [Users -> BOOLEAN] /\ crashes \in Nat
  /\ \A u \in Users : user[u] = "attached" <=> of[u] # NoDaemon

(* A daemon that nobody raced is alone at the path while it comes up and   *)
(* serves; it binds an empty path, and from there on its socket is there.  *)
Unraced ==
  \A d \in Daemons \ raced :
    /\ daemon[d] \in ComingUp \cup {"serving"} =>
         \A e \in Daemons \ {d} : daemon[e] \notin AtPath
    /\ daemon[d] = "bind" => file = NoDaemon
    /\ daemon[d] \in {"listen", "chmod", "serving"} => file = d

OnItsWay == \E d \in Daemons : daemon[d] \in Starting \cup {"serving"}

(* What an undisturbed user counts on. *)
Undisturbing ==
  \A u \in Users : calm[u] =>
    /\ Peaceful
    /\ user[u] = "attaching" => Answers
    /\ user[u] = "waiting" => OnItsWay

IInv == Types /\ Unraced /\ Undisturbing

-----------------------------------------------------------------------------
LEMMA NoDaemonIsNone == NoDaemon \notin Daemons
BY DEF NoDaemon, Daemons

LEMMA InitInvariant == Init => IInv
PROOF
<1> SUFFICES ASSUME Init PROVE IInv
  OBVIOUS
<1> USE DEF Init, Daemons, NoDaemon
<1>1. Types
  <2>1. calm \in [Users -> BOOLEAN]
    BY Zenon
  <2>2. /\ daemon \in [Daemons -> DaemonStates] /\ user \in [Users -> UserStates]
        /\ of \in [Users -> Daemons \cup {NoDaemon}] /\ crashes \in Nat
    BY DEF DaemonStates, UserStates
  <2> QED BY <2>1, <2>2 DEF Types
<1>2. Unraced
  BY DEF Unraced, ComingUp
<1>3. Undisturbing
  <2>1. Peaceful /\ \A u \in Users : user[u] = "idle"
    BY DEF Peaceful
  <2> QED BY <2>1 DEF Undisturbing
<1> QED BY <1>1, <1>2, <1>3 DEF IInv

(* Who is not raced after a step had the path to itself before and after. *)
LEMMA NotRaced ==
  ASSUME Types, Races
  PROVE  /\ raced \subseteq raced' /\ raced' \subseteq Daemons
         /\ \A d \in Daemons \ raced' :
              daemon[d] \in ComingUp \/ daemon'[d] \in ComingUp =>
                \A e \in Daemons \ {d} : daemon[e] \notin AtPath /\ daemon'[e] \notin AtPath
BY DEF Types, Races

(* A step of one daemon. *)
DaemonStep(d) == Listen(d) \/ quit(d) \/ Stopping(d) \/ Crash(d)

LEMMA DaemonTypes ==
  ASSUME Types, NEW d \in Daemons, DaemonStep(d)
  PROVE  Types'
PROOF
<1> USE DEF DaemonStep, Listen, Stopping, probe, remove, bind, listen, chmod, closeFailed,
            quit, lnClose, Remove, shutdownAll, Crash
<1>1. Races
  OBVIOUS
<1>2. raced' \subseteq Daemons
  BY <1>1, NotRaced
<1>3. daemon' \in [Daemons -> DaemonStates]
  BY DEF Moves, Types, DaemonStates
<1>4. calm' \in [Users -> BOOLEAN]
  <2>1. calm' = calm \/ calm' = [u \in Users |-> FALSE]
    BY Zenon DEF Undisturbed, Upset
  <2>2. [u \in Users |-> FALSE] \in [Users -> BOOLEAN]
    BY Zenon
  <2> QED BY <2>1, <2>2, Zenon DEF Types
<1>5. file' \in Daemons \cup {NoDaemon} /\ crashes' \in Nat
  <2>1. file' \in {file, NoDaemon, d}
    BY DEF Remains
  <2>2. crashes' = crashes \/ crashes' = crashes + 1
    BY Zenon DEF Remains
  <2> HIDE DEF DaemonStep, Listen, Stopping, quit, Crash
  <2> QED BY <2>1, <2>2 DEF Types
<1>6. UNCHANGED <<user, of>> \/ LetGo(d)
  BY DEF Remains, userVars
<1> HIDE DEF DaemonStep, Listen, Stopping, quit, Crash
<1>7. /\ user' \in [Users -> UserStates] /\ of' \in [Users -> Daemons \cup {NoDaemon}]
      /\ \A u \in Users : user'[u] = "attached" <=> of'[u] # NoDaemon
  BY <1>6 DEF LetGo, Types, UserStates, Daemons, NoDaemon
<1> QED BY <1>2, <1>3, <1>4, <1>5, <1>7 DEF Types

LEMMA DaemonUnraced ==
  ASSUME Types, Unraced, NEW d \in Daemons, DaemonStep(d)
  PROVE  Unraced'
PROOF
<1> USE DEF DaemonStep, Listen, Stopping, probe, remove, bind, listen, chmod, closeFailed,
            quit, lnClose, Remove, shutdownAll, Crash
<1>1. Races
  OBVIOUS
<1> SUFFICES ASSUME NEW x \in Daemons \ raced'
             PROVE  /\ daemon'[x] \in ComingUp \cup {"serving"} =>
                         \A e \in Daemons \ {x} : daemon'[e] \notin AtPath
                    /\ daemon'[x] = "bind" => file' = NoDaemon
                    /\ daemon'[x] \in {"listen", "chmod", "serving"} => file' = x
  BY DEF Unraced
<1>2. /\ x \in Daemons \ raced
      /\ daemon[x] \in ComingUp \/ daemon'[x] \in ComingUp =>
           \A e \in Daemons \ {x} : daemon[e] \notin AtPath /\ daemon'[e] \notin AtPath
  BY <1>1, NotRaced
<1>3. /\ daemon[x] \in ComingUp \cup {"serving"} =>
           \A e \in Daemons \ {x} : daemon[e] \notin AtPath
      /\ daemon[x] = "bind" => file = NoDaemon
      /\ daemon[x] \in {"listen", "chmod", "serving"} => file = x
  BY <1>2 DEF Unraced
<1>4. PICK a \in DaemonStates : daemon' = [daemon EXCEPT ![d] = a]
  BY DEF Moves, DaemonStates
<1>5. CASE x = d
  <2>1. /\ daemon'[x] = "bind" => file' = NoDaemon
        /\ daemon'[x] \in {"listen", "chmod", "serving"} => file' = x
    BY <1>3, <1>5 DEF Types, Moves, At, Remains, NoDaemon, Daemons
  <2>2. daemon'[x] = "serving" => daemon[x] = "chmod"
    BY <1>5 DEF Types, Moves, At
  <2> HIDE DEF DaemonStep, Listen, Stopping, quit, Crash
  <2>3. daemon'[x] \in ComingUp \cup {"serving"} => daemon[x] \in ComingUp \/ daemon'[x] \in ComingUp
    BY <2>2 DEF ComingUp
  <2> QED BY <1>2, <2>1, <2>3
<1>6. CASE x # d
  <2>1. daemon'[x] = daemon[x] /\ \A e \in Daemons \ {d} : daemon'[e] = daemon[e]
    BY <1>4, <1>6 DEF Types
  <2>2. file' = file \/ daemon[d] \in AtPath
    BY DEF At, Remains, AtPath
  <2>3. daemon'[d] \in AtPath => daemon[d] \in AtPath \/ ~Answers
    BY DEF Types, Moves, At, AtPath
  <2>4. file = x /\ daemon[x] = "serving" => Answers
    <3> HIDE DEF DaemonStep, Listen, Stopping, quit, Crash
    <3> QED BY <1>2, NoDaemonIsNone DEF Answers, Listening
  <2>5. d \in Daemons \ {x}
    BY <1>6
  <2> HIDE DEF DaemonStep, Listen, Stopping, quit, Crash
  <2>6. daemon'[x] = "serving" => \A e \in Daemons \ {x} : daemon'[e] \notin AtPath
    BY <1>3, <2>1, <2>3, <2>4, <2>5
  <2>7. daemon'[x] \in ComingUp \cup {"serving"} => file' = file
    BY <1>3, <2>1, <2>2, <2>5
  <2> QED BY <1>2, <1>3, <2>1, <2>6, <2>7 DEF ComingUp
<1> QED BY <1>5, <1>6

(* While the daemons are peaceful a step of one keeps them so, the one     *)
(* that answers answering, and one on its way. *)
LEMMA PeacefulListen ==
  ASSUME Types, Unraced, Peaceful, NEW d \in Daemons, Listen(d), raced' = raced
  PROVE  Peaceful' /\ (Answers => Answers') /\ (OnItsWay => OnItsWay')
PROOF
<1> USE DEF Listen, probe, remove, bind, listen, chmod, closeFailed, At, Moves, Remains
<1>1. /\ \A e \in Daemons : /\ daemon[e] \notin {"failing", "unlink", "unlink again", "sweep"}
                            /\ e \in raced => daemon[e] \in {"failed", "stopped", "crashed"}
      /\ d \notin raced
  BY DEF Peaceful
<1>3. \A e \in Daemons \ raced :
        /\ daemon[e] \in ComingUp \cup {"serving"} =>
             \A x \in Daemons \ {e} : daemon[x] \notin AtPath
        /\ daemon[e] = "bind" => file = NoDaemon
        /\ daemon[e] \in {"listen", "chmod", "serving"} => file = e
  BY DEF Unraced
<1>4. Peaceful'
  BY <1>1, <1>3, NoDaemonIsNone DEF Types, Peaceful
<1>5. ASSUME Answers PROVE Answers'
  <2>1. file \in Daemons /\ daemon[file] \in {"chmod", "serving"}
    BY <1>1, <1>5 DEF Types, Answers, Listening
  <2>2. file \notin raced
    BY <1>1, <2>1
  <2>3. CASE d = file
    BY <1>5, <2>1, <2>3 DEF Types, Answers, Listening
  <2>4. CASE d # file
    <3>1. daemon[d] \notin AtPath
      BY <1>3, <2>1, <2>2, <2>4 DEF ComingUp
    <3>2. file' = file /\ daemon'[file] = daemon[file]
      BY <2>1, <2>4, <3>1 DEF Types, AtPath
    <3> QED BY <1>5, <3>2 DEF Answers
  <2> QED BY <2>3, <2>4
<1>6. OnItsWay => OnItsWay'
  <2>1. PICK a \in Starting \cup {"serving", "failed", "failing"} : daemon' = [daemon EXCEPT ![d] = a]
    BY DEF Starting, ComingUp
  <2>2. /\ \A e \in Daemons \ {d} : daemon'[e] = daemon[e]
        /\ daemon[d] \in Starting /\ daemon'[d] = a
    BY <1>1, <2>1 DEF Types, Starting, ComingUp
  <2>3. CASE a \in Starting \cup {"serving"}
    BY <2>2, <2>3 DEF OnItsWay
  <2>4. CASE a \notin Starting \cup {"serving"}
    <3>1. daemon[d] = "probe" /\ Answers
      BY <1>1, <1>3, <2>2, <2>4, NoDaemonIsNone DEF Types, Starting, ComingUp, Answers
    <3>2. file \in Daemons \ {d} /\ daemon[file] \in {"chmod", "serving"}
      BY <1>1, <3>1, NoDaemonIsNone DEF Types, Answers, Listening
    <3> QED BY <2>2, <3>2 DEF OnItsWay, Starting, ComingUp
  <2> QED BY <2>3, <2>4
<1> QED BY <1>4, <1>5, <1>6

LEMMA DaemonUndisturbing ==
  ASSUME Types, Unraced, Undisturbing, NEW d \in Daemons, DaemonStep(d)
  PROVE  Undisturbing'
PROOF
<1>1. CASE calm' = [u \in Users |-> FALSE]
  BY <1>1 DEF Undisturbing
<1>2. CASE Listen(d) /\ calm' = calm /\ raced' = raced
  <2>1. UNCHANGED user
    BY <1>2 DEF Listen, probe, remove, bind, listen, chmod, closeFailed, Remains, userVars
  <2>2. Peaceful => Peaceful' /\ (Answers => Answers') /\ (OnItsWay => OnItsWay')
    BY <1>2, PeacefulListen
  <2> QED BY <1>2, <2>1, <2>2 DEF Undisturbing
<1>3. Upset \/ (Listen(d) /\ Undisturbed)
  BY DEF DaemonStep, Listen, Stopping, probe, remove, bind, listen, chmod, closeFailed,
         quit, lnClose, Remove, shutdownAll, Crash
<1> QED BY <1>1, <1>2, <1>3 DEF Upset, Undisturbed

LEMMA DaemonInvariant ==
  ASSUME IInv, NEW d \in Daemons, DaemonStep(d)
  PROVE  IInv'
BY DaemonTypes, DaemonUnraced, DaemonUndisturbing DEF IInv

(* A step of one user. *)
UserStep(u) == Client(u) \/ detach(u) \/ run(u, "new") \/ run(u, "attach")

LEMMA UserTypes ==
  ASSUME Types, NEW u \in Users, UserStep(u)
  PROVE  /\ Types' /\ UNCHANGED <<file, raced>>
         /\ \A v \in Users \ {u} : user'[v] = user[v] /\ calm'[v] = calm[v]
PROOF
<1> USE DEF UserStep, Client, detach, run, cmdNew, Spawns, poll, deadline, cmdAttach, Attach,
            Steps, Alone, Moves, At
<1>1. UNCHANGED <<file, raced, crashes>>
  BY Zenon
<1>2. daemon' \in [Daemons -> DaemonStates]
  BY DEF Types, DaemonStates
<1>3. calm' \in [Users -> BOOLEAN] /\ \A v \in Users \ {u} : calm'[v] = calm[v]
  <2>1. calm' = calm \/ calm' = [calm EXCEPT ![u] = Peaceful]
    BY Zenon
  <2>2. Peaceful \in BOOLEAN
    BY Zenon DEF Peaceful
  <2> HIDE DEF UserStep, Client, detach, run
  <2> QED BY <2>1, <2>2, Zenon DEF Types
<1>4. PICK a \in UserStates : user' = [user EXCEPT ![u] = a]
  BY DEF UserStates
<1>5. /\ of' \in [Users -> Daemons \cup {NoDaemon}]
      /\ \A v \in Users : user'[v] = "attached" <=> of'[v] # NoDaemon
  BY NoDaemonIsNone DEF Types, UserStates, Answers
<1>6. user' \in [Users -> UserStates] /\ \A v \in Users \ {u} : user'[v] = user[v]
  BY <1>4 DEF Types
<1> QED BY <1>1, <1>2, <1>3, <1>5, <1>6 DEF Types

(* All that users do to the daemons is spawn them. *)
LEMMA UserKeeps ==
  ASSUME Types, Unraced, NEW u \in Users, UserStep(u)
  PROVE  /\ Unraced' /\ (Peaceful => Peaceful')
         /\ (Answers => Answers') /\ (OnItsWay => OnItsWay')
PROOF
<1>1. UNCHANGED <<file, raced>>
  BY UserTypes
<1>2. CASE UNCHANGED daemon
  BY <1>1, <1>2 DEF Unraced, Peaceful, Answers, OnItsWay
<1>3. CASE Spawns(u)
  <2>1. PICK d \in Daemons : daemon[d] = "unborn" /\ daemon' = [daemon EXCEPT ![d] = "probe"]
    BY <1>3 DEF Spawns, At, Moves
  <2>2. /\ daemon'[d] = "probe" /\ daemon[d] = "unborn"
        /\ \A e \in Daemons \ {d} : daemon'[e] = daemon[e]
    BY <2>1 DEF Types
  <2>3. Unraced'
    BY <1>1, <2>2 DEF Unraced, ComingUp, AtPath
  <2>4. Peaceful => Peaceful'
    BY <1>1, <2>2 DEF Peaceful
  <2>5. Answers => Answers'
    BY <1>1, <2>2 DEF Answers, Listening, Types
  <2>6. OnItsWay'
    BY <2>2 DEF OnItsWay, Starting
  <2> QED BY <2>3, <2>4, <2>5, <2>6
<1>4. UNCHANGED daemon \/ Spawns(u)
  BY DEF UserStep, Client, detach, run, cmdNew, poll, deadline, cmdAttach, Attach, Alone
<1> QED BY <1>2, <1>3, <1>4

LEMMA UserInvariant ==
  ASSUME IInv, NEW u \in Users, UserStep(u)
  PROVE  IInv'
PROOF
<1>1. Types /\ Unraced /\ Undisturbing
  BY DEF IInv
<1>2. Types' /\ Unraced' /\ \A v \in Users \ {u} : user'[v] = user[v] /\ calm'[v] = calm[v]
  BY <1>1, UserTypes, UserKeeps
<1>3. (Peaceful => Peaceful') /\ (Answers => Answers') /\ (OnItsWay => OnItsWay')
  BY <1>1, UserKeeps
<1>4. ASSUME calm'[u]
      PROVE  /\ Peaceful' /\ (user'[u] = "attaching" => Answers')
             /\ (user'[u] = "waiting" => OnItsWay')
  <2>1. CASE Spawns(u)
    <3>1. calm[u] /\ user'[u] = "waiting"
      BY <1>1, <1>4, <2>1 DEF Spawns, Steps, Types
    <3>2. OnItsWay'
      <4>1. PICK d \in Daemons : daemon' = [daemon EXCEPT ![d] = "probe"]
        BY <2>1 DEF Spawns, Moves
      <4> QED BY <1>1, <4>1 DEF OnItsWay, Starting, Types
    <3> QED BY <1>1, <1>3, <3>1, <3>2 DEF Undisturbing
  <2>2. CASE calm' = calm /\ user'[u] \notin {"attaching", "waiting"}
    BY <1>1, <1>3, <1>4, <2>2 DEF Undisturbing
  <2>3. CASE calm' = calm /\ user'[u] = "attaching" /\ Answers
    BY <1>1, <1>3, <1>4, <2>3 DEF Undisturbing
  <2>4. CASE run(u, "new") \/ run(u, "attach")
    <3>1. calm'[u] = Peaceful /\ user'[u] \in {"new", "attach"}
      BY <1>1, <2>4 DEF run, Types
    <3> QED BY <1>3, <1>4, <3>1
  <2> QED BY <1>1, <2>1, <2>2, <2>3, <2>4
          DEF UserStep, Client, detach, cmdNew, poll, deadline, cmdAttach, Attach, Alone,
              Steps, Types
<1>5. Undisturbing'
  BY <1>1, <1>2, <1>3, <1>4 DEF Undisturbing
<1> QED BY <1>2, <1>5 DEF IInv

LEMMA StepInvariant == IInv /\ [Next]_vars => IInv'
PROOF
<1> SUFFICES ASSUME IInv, [Next]_vars PROVE IInv'
  OBVIOUS
<1>1. CASE UNCHANGED vars
  BY <1>1 DEF vars, IInv, Types, Unraced, Undisturbing, Peaceful, Answers, OnItsWay
<1>2. ASSUME NEW d \in Daemons, Listen(d) \/ quit(d) \/ Stopping(d) \/ Crash(d) PROVE IInv'
  BY <1>2, DaemonInvariant DEF DaemonStep
<1>3. ASSUME NEW u \in Users, Client(u) \/ detach(u) \/ run(u, "new") \/ run(u, "attach")
      PROVE  IInv'
  BY <1>3, UserInvariant DEF UserStep
<1> QED BY <1>1, <1>2, <1>3 DEF Next

LEMMA SpecInvariant == Spec => []IInv
BY InitInvariant, StepInvariant, PTL DEF Spec

(* A daemon that came up with nobody else at the path stays reachable as   *)
(* long as it serves, whoever starts, crashes or gives up afterwards: for  *)
(* any number of users, daemons and crashes. *)
THEOREM StartupReachable == Spec => []Reachable
PROOF
<1>1. IInv => Reachable
  <2> SUFFICES ASSUME IInv PROVE Reachable
    OBVIOUS
  <2>1. Types /\ Unraced
    BY DEF IInv
  <2>2. TypeOK
    BY <2>1, NoDaemonIsNone DEF TypeOK, Types
  <2>3. \A d \in Daemons \ raced : At(d, "serving") => file = d
    BY <2>1 DEF Unraced, At
  <2> QED BY <2>2, <2>3 DEF Reachable
<1> QED BY <1>1, SpecInvariant, PTL

(* `ngmux new` is refused only when something happened while it ran: a     *)
(* stale socket, a slow daemon or other users never refuse it. *)
THEOREM StartupNewSucceeds == Spec => NewSucceeds
PROOF
<1> DEFINE A == \A u \in Users : user[u] # "refused" /\ user'[u] = "refused" => ~calm[u]
<1>1. IInv /\ [Next]_vars => [A]_vars
  <2> SUFFICES ASSUME IInv, Next, NEW u \in Users,
                      user[u] # "refused", user'[u] = "refused", calm[u]
               PROVE  FALSE
    BY DEF A
  <2>1. Types /\ Undisturbing
    BY DEF IInv
  <2>2. Peaceful /\ (user[u] = "attaching" => Answers) /\ (user[u] = "waiting" => OnItsWay)
    BY <2>1 DEF Undisturbing
  <2>3. deadline(u) \/ (user[u] = "attaching" /\ ~Answers)
    <3>1. ASSUME NEW d \in Daemons, DaemonStep(d) PROVE user'[u] \in {user[u], "idle"}
      BY <2>1, <3>1
         DEF Types, DaemonStep, Listen, Stopping, probe, remove, bind, listen, chmod, closeFailed,
             quit, lnClose, Remove, shutdownAll, Crash, LetGo, Remains, userVars
    <3>2. ASSUME NEW v \in Users, UserStep(v) PROVE v = u
      BY <2>1, <3>2, UserTypes
    <3>3. UserStep(u)
      BY <3>1, <3>2 DEF Next, DaemonStep, UserStep
    <3> QED BY <2>1, <3>3
            DEF UserStep, Client, detach, run, cmdNew, Spawns, poll, cmdAttach, Attach, Steps, Types
  <2>4. deadline(u) => user[u] = "waiting" /\ ~Answers /\ \A d \in Daemons : daemon[d] \notin Starting
    BY DEF deadline, Steps
  <2>5. PICK d \in Daemons : daemon[d] = "serving"
    BY <2>2, <2>3, <2>4 DEF OnItsWay
  <2>6. d \notin raced /\ file = d
    BY <2>2, <2>5 DEF Peaceful, IInv, Unraced
  <2>7. Answers
    BY <2>5, <2>6, NoDaemonIsNone DEF Answers, Listening
  <2> QED BY <2>2, <2>3, <2>4, <2>7
<1> QED BY <1>1, SpecInvariant, PTL DEF Spec, NewSucceeds
=============================================================================
