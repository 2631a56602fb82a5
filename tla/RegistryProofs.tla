---------------------------- MODULE RegistryProofs ----------------------------
(***************************************************************************)
(* Proofs about Registry, for any connections, names and number of         *)
(* sessions: a session is registered under its own name, the order lists   *)
(* registered sessions and no name twice, and an emptied registry has a    *)
(* goroutine about to stop the daemon.                                     *)
(***************************************************************************)
EXTENDS Registry, SequenceTheorems, TLAPS

-----------------------------------------------------------------------------
(* Lists without duplicates: Append and RemoveAt on them. *)

(* RemoveAt, entry by entry. *)
LEMMA RemoveAtProperties ==
  ASSUME NEW S, NEW s \in Seq(S), NEW i \in DOMAIN s
  PROVE  LET r == RemoveAt(s, i) IN
         /\ r \in Seq(S)
         /\ Len(r) = Len(s) - 1
         /\ \A j \in 1..(Len(s) - 1) : r[j] = IF j < i THEN s[j] ELSE s[j + 1]
PROOF
<1> DEFINE n == Len(s)
           a == SubSeq(s, 1, i - 1)
           b == SubSeq(s, i + 1, n)
<1>1. n \in Nat /\ i \in 1..n /\ DOMAIN s = 1..n
  OBVIOUS
<1>2. a \in Seq(S) /\ Len(a) = i - 1 /\ \A k \in 1..(i - 1) : a[k] = s[k]
  BY <1>1, SubSeqProperties
<1>3. b \in Seq(S) /\ Len(b) = n - i /\ \A k \in 1..(n - i) : b[k] = s[i + k]
  BY <1>1, SubSeqProperties
<1>4. RemoveAt(s, i) = a \o b
  BY DEF RemoveAt
<1> HIDE DEF a, b
<1>5. a \o b \in Seq(S) /\ Len(a \o b) = n - 1
  <2>1. a \o b \in Seq(S) /\ Len(a \o b) = Len(a) + Len(b)
    BY <1>2, <1>3, ConcatProperties
  <2> QED BY <1>1, <1>2, <1>3, <2>1
<1>6. ASSUME NEW j \in 1..(n - 1) PROVE (a \o b)[j] = IF j < i THEN s[j] ELSE s[j + 1]
  <2>1. (a \o b)[j] = IF j <= i - 1 THEN a[j] ELSE b[j - (i - 1)]
    BY <1>1, <1>2, <1>3, ConcatProperties
  <2>2. j <= i - 1 => a[j] = s[j]
    BY <1>1, <1>2
  <2>3. ~(j <= i - 1) => b[j - (i - 1)] = s[j + 1]
    <3> DEFINE k == j - (i - 1)
    <3>1. ~(j <= i - 1) => k \in 1..(n - i) /\ i + k = j + 1
      BY <1>1
    <3> HIDE DEF k
    <3>2. ~(j <= i - 1) => b[k] = s[j + 1]
      BY <1>3, <3>1
    <3> QED BY <3>2 DEF k
  <2> QED BY <1>1, <2>1, <2>2, <2>3
<1> QED BY <1>4, <1>5, <1>6

(* What dropping one entry of a list of distinct elements does to it. *)
LEMMA RemoveAtDistinct ==
  ASSUME NEW S, NEW s \in Seq(S), NEW i \in DOMAIN s,
         \A j, k \in DOMAIN s : s[j] = s[k] => j = k
  PROVE  LET r == RemoveAt(s, i) IN
         /\ r \in Seq(S)
         /\ Len(r) = Len(s) - 1
         /\ ToSet(r) = ToSet(s) \ {s[i]}
         /\ \A j, k \in DOMAIN r : r[j] = r[k] => j = k
PROOF
<1> DEFINE n == Len(s)
           r == [j \in 1..(n - 1) |-> IF j < i THEN s[j] ELSE s[j + 1]]
<1>1. n \in Nat /\ i \in 1..n /\ DOMAIN s = 1..n
  OBVIOUS
<1>2. RemoveAt(s, i) = r
  <2>1. /\ RemoveAt(s, i) \in Seq(S) /\ Len(RemoveAt(s, i)) = n - 1
        /\ \A j \in 1..(n - 1) : RemoveAt(s, i)[j] = r[j]
    BY RemoveAtProperties
  <2> QED BY <1>1, <2>1
<1>3. r \in Seq(S) /\ Len(r) = n - 1 /\ DOMAIN r = 1..(n - 1)
  BY <1>1
<1>4. \A j, k \in DOMAIN r : r[j] = r[k] => j = k
  BY <1>1, <1>3
<1>5. ToSet(r) = ToSet(s) \ {s[i]}
  <2>1. ASSUME NEW j \in DOMAIN r PROVE r[j] \in ToSet(s) \ {s[i]}
    BY <1>1, <1>3 DEF ToSet
  <2>2. ASSUME NEW j \in DOMAIN s, s[j] # s[i] PROVE s[j] \in ToSet(r)
    <3>1. CASE j < i
      BY <1>1, <1>3, <3>1, r[j] = s[j] DEF ToSet
    <3>2. CASE j > i
      <4>1. j - 1 \in DOMAIN r /\ r[j - 1] = s[j]
        BY <1>1, <1>3, <3>2
      <4> QED BY <4>1 DEF ToSet
    <3> QED BY <1>1, <2>2, <3>1, <3>2
  <2>3. ToSet(s) = {s[j] : j \in DOMAIN s} /\ ToSet(r) = {r[j] : j \in DOMAIN r}
    BY DEF ToSet
  <2> HIDE DEF r
  <2>4. ToSet(r) \subseteq ToSet(s) \ {s[i]}
    BY <2>1, <2>3
  <2>5. ToSet(s) \ {s[i]} \subseteq ToSet(r)
    BY <2>2, <2>3
  <2> QED BY <2>4, <2>5
<1> QED BY <1>2, <1>3, <1>4, <1>5

LEMMA AppendDistinct ==
  ASSUME NEW S, NEW s \in Seq(S), NEW e \in S, e \notin ToSet(s),
         \A j, k \in DOMAIN s : s[j] = s[k] => j = k
  PROVE  LET r == Append(s, e) IN
         /\ r \in Seq(S)
         /\ Len(r) = Len(s) + 1
         /\ ToSet(r) = ToSet(s) \cup {e}
         /\ \A j, k \in DOMAIN r : r[j] = r[k] => j = k
PROOF
<1> DEFINE n == Len(s)
           r == Append(s, e)
<1>1. n \in Nat /\ DOMAIN s = 1..n /\ r \in Seq(S) /\ Len(r) = n + 1 /\ DOMAIN r = 1..(n + 1)
  OBVIOUS
<1>2. r[n + 1] = e /\ \A j \in 1..n : r[j] = s[j]
  BY <1>1
<1>3. \A j \in 1..n : s[j] # e
  BY <1>1 DEF ToSet
<1>4. \A j, k \in DOMAIN r : r[j] = r[k] => j = k
  BY <1>1, <1>2, <1>3
<1>5. ToSet(r) = ToSet(s) \cup {e}
  <2> HIDE DEF r
  <2> QED BY <1>1, <1>2 DEF ToSet
<1> HIDE DEF r
<1> QED BY <1>1, <1>4, <1>5 DEF r

-----------------------------------------------------------------------------
(* The inductive invariant.  Between two sections a goroutine holds a name *)
(* or a session; Registry's properties rest on what it holds being real,   *)
(* and on a session being nobody else's until it is inserted.              *)

(* A session that was made has a name, and only those are registered. *)
Born ==
  /\ \A s \in Sessions : shells[s] # "unborn" => name[s] \in Name
  /\ \A n \in Name : sessions[n] # NoSession => shells[sessions[n]] # "unborn"

(* What a goroutine holds at each place, and where it goes next. *)
Holding(h) ==
  /\ h.at \in {"lookup", "insert", "shutdown", "emptied", "rename"} => h.name \in Name
  /\ h.at \in {"insert", "newClient", "moveClient", "shutdown", "rename"} =>
       h.sess \in Sessions /\ shells[h.sess] # "unborn"
  /\ h.sess # NoSession => shells[h.sess] # "unborn"
  /\ h.then \in IF h.at \in {"lookup", "insert"} THEN {"off", "newClient", "moveClient"}
                ELSE {"off", "serving"}
Held ==
  /\ \A c \in Conn : Holding(conn[c])
  /\ \A s \in Sessions : reaper[s].at = "emptying" => reaper[s].name \in Name

(* A session on its way into the registry is known to its creator alone. *)
Private ==
  \A c \in Conn : At(c, "insert") =>
    /\ name[conn[c].sess] = conn[c].name
    /\ \A n \in Name : sessions[n] # conn[c].sess
    /\ \A d \in Conn \ {c} : conn[d].sess # conn[c].sess

IInv ==
  /\ TypeOK
  /\ Born
  /\ Held
  /\ Private
  /\ NamesAgree
  /\ OrderIsRegistered
  /\ StopsWhenEmpty

-----------------------------------------------------------------------------
LEMMA InitInvariant == Init => IInv
PROOF
<1> SUFFICES ASSUME Init PROVE IInv
  OBVIOUS
<1> USE DEF Init, Waiting, Reaper, At
<1>1. TypeOK
  <2>1. conn \in [Conn -> [at : Labels, then : Labels, name : Name \cup {NoName},
                          sess : Sessions \cup {NoSession}]]
    BY DEF Labels
  <2>2. reaper \in [Sessions -> [at : {"idle", "emptying", "quitting", "stopped"},
                                name : Name \cup {NoName}]]
    OBVIOUS
  <2>3. order \in Seq(Name) /\ IsInjective(order)
    BY DEF IsInjective
  <2> QED BY <2>1, <2>2, <2>3 DEF TypeOK
<1>2. Born /\ Held /\ Private
  BY DEF Born, Held, Holding, Private
<1>3. NamesAgree /\ OrderIsRegistered
  <2>1. DOMAIN order = {}
    OBVIOUS
  <2> QED BY <2>1 DEF NamesAgree, OrderIsRegistered
<1>4. StopsWhenEmpty
  BY DEF StopsWhenEmpty
<1> QED BY <1>1, <1>2, <1>3, <1>4 DEF IInv

-----------------------------------------------------------------------------
(* Steps of a connection's goroutine.                                      *)

LEMMA ReturnIsDoes ==
  ASSUME NEW c
  PROVE  Return(c) <=> Does(c, conn[c].then, conn[c].then, NoName, NoSession)
BY DEF Return, Does, Waiting

LEMMA DoesEffect ==
  ASSUME TypeOK, NEW c \in Conn, NEW l \in Labels, NEW then \in Labels,
         NEW n \in Name \cup {NoName}, NEW s \in Sessions \cup {NoSession},
         Does(c, l, then, n, s)
  PROVE  /\ conn' \in [Conn -> [at : Labels, then : Labels, name : Name \cup {NoName},
                                sess : Sessions \cup {NoSession}]]
         /\ conn'[c] = [at |-> l, then |-> then, name |-> n, sess |-> s]
         /\ \A d \in Conn \ {c} : conn'[d] = conn[d]
BY DEF Does, TypeOK

(* The shells may have changed, but none was born. *)
SameBorn ==
  /\ shells' \in [Sessions -> {"unborn", "running", "ended", "stopped"}]
  /\ \A s \in Sessions : shells'[s] = "unborn" <=> shells[s] = "unborn"

(* One goroutine moves on, the registry stays as it is. *)
LEMMA ConnStep ==
  ASSUME IInv, NEW c \in Conn, NEW l \in Labels \ {"insert"}, NEW then \in Labels,
         NEW n \in Name \cup {NoName}, NEW s \in Sessions \cup {NoSession},
         Does(c, l, then, n, s),
         Holding([at |-> l, then |-> then, name |-> n, sess |-> s]),
         conn[c].at \notin {"insert", "quit"},
         \A d \in Conn : At(d, "insert") => conn[d].sess # s,
         UNCHANGED <<registryVars, up, name, reaper>>,
         clients' \subseteq Conn, view' \in [Conn -> Name \cup {NoName}],
         SameBorn
  PROVE  IInv'
PROOF
<1> USE DEF IInv
<1> DEFINE h == [at |-> l, then |-> then, name |-> n, sess |-> s]
<1>1. /\ conn' \in [Conn -> [at : Labels, then : Labels, name : Name \cup {NoName},
                              sess : Sessions \cup {NoSession}]]
      /\ conn'[c] = h
      /\ \A d \in Conn \ {c} : conn'[d] = conn[d]
  BY DoesEffect
<1>2. UNCHANGED <<sessions, order, up, name, reaper>>
  BY DEF registryVars
<1>3. TypeOK'
  BY <1>1, <1>2 DEF TypeOK, SameBorn
<1>4. Born'
  BY <1>2 DEF Born, SameBorn, TypeOK
<1>5. Held'
  <2>1. ASSUME NEW d \in Conn PROVE Holding(conn[d])'
    <3>1. CASE d = c
      BY <1>1, <3>1 DEF Holding, SameBorn
    <3>2. CASE d # c
      <4>1. Holding(conn[d]) /\ conn'[d] = conn[d]
            /\ conn[d].sess \in Sessions \cup {NoSession}
        BY <1>1, <3>2 DEF Held, TypeOK
      <4> QED BY <4>1 DEF Holding, SameBorn
    <3> QED BY <3>1, <3>2
  <2> QED BY <1>2, <2>1 DEF Held
<1>6. Private'
  BY <1>1, <1>2 DEF Private, At
<1>7. NamesAgree' /\ OrderIsRegistered'
  BY <1>2 DEF NamesAgree, OrderIsRegistered
<1>8. StopsWhenEmpty'
  <2> SUFFICES ASSUME up', Registered' = {}
               PROVE  \/ \A r \in Sessions : (shells[r] = "unborn" \/ Inserting(r))'
                      \/ \E d \in Conn : At(d, "quit")'
                      \/ \E r \in Sessions : reaper'[r].at = "quitting"
    BY DEF StopsWhenEmpty
  <2>1. up /\ Registered = {}
    BY <1>2 DEF Registered
  <2>2. \A r \in Sessions : Inserting(r) => Inserting(r)'
    BY <1>1 DEF Inserting, At
  <2>3. \A d \in Conn : At(d, "quit") => At(d, "quit")'
    BY <1>1 DEF At
  <2> QED BY <1>2, <2>1, <2>2, <2>3 DEF StopsWhenEmpty, SameBorn
<1> QED BY <1>3, <1>4, <1>5, <1>6, <1>7, <1>8

-----------------------------------------------------------------------------
(* A session found in the registry is nobody's private one. *)
LEMMA FoundSession ==
  ASSUME IInv, NEW n \in Name, sessions[n] # NoSession
  PROVE  /\ sessions[n] \in Sessions /\ shells[sessions[n]] # "unborn"
         /\ \A d \in Conn : At(d, "insert") => conn[d].sess # sessions[n]
         /\ \A d \in Conn : At(d, "insert") => conn[d].sess # NoSession
BY DEF IInv, TypeOK, Born, Private, Held, Holding, At, Sessions, NoSession

LEMMA HeldThen ==
  ASSUME IInv, NEW c \in Conn
  PROVE  /\ conn[c].then \in Labels /\ Holding(conn[c])
         /\ conn[c].name \in Name \cup {NoName}
         /\ conn[c].sess \in Sessions \cup {NoSession}
         /\ \A d \in Conn : At(d, "insert") => conn[d].sess # NoSession
         /\ \A d \in Conn : d # c /\ At(d, "insert") => conn[d].sess # conn[c].sess
BY DEF IInv, TypeOK, Private, Held, Holding, At, Sessions, NoSession

(* A goroutine that returns to what it was doing, or goes on to another    *)
(* place with nothing in hand.                                             *)
LEMMA ReturnStep ==
  ASSUME IInv, NEW c \in Conn, Return(c), conn[c].at \notin {"lookup", "insert", "quit"},
         UNCHANGED <<registryVars, up, name, reaper>>,
         clients' \subseteq Conn, view' \in [Conn -> Name \cup {NoName}],
         SameBorn
  PROVE  IInv'
PROOF
<1>1. conn[c].then \in {"off", "serving"}
  BY HeldThen DEF Holding
<1>2. Does(c, conn[c].then, conn[c].then, NoName, NoSession)
  BY ReturnIsDoes
<1>3. \A d \in Conn : At(d, "insert") => conn[d].sess # NoSession
  BY HeldThen
<1>4. Holding([at |-> conn[c].then, then |-> conn[c].then, name |-> NoName, sess |-> NoSession])
  BY <1>1 DEF Holding
<1> QED BY <1>1, <1>2, <1>3, <1>4, ConnStep DEF Labels

(* Who views what matters to no part of the invariant. *)
LEMMA ViewStep ==
  ASSUME IInv, UNCHANGED <<registryVars, up, sessionVars, reaper, conn>>,
         clients' \subseteq Conn, view' \in [Conn -> Name \cup {NoName}]
  PROVE  IInv'
PROOF
<1> USE DEF IInv
<1>1. UNCHANGED <<sessions, order, up, name, shells, reaper, conn>>
  BY DEF registryVars, sessionVars
<1>2. TypeOK'
  BY <1>1 DEF TypeOK
<1>3. Born' /\ Held' /\ Private'
  BY <1>1 DEF Born, Held, Holding, Private, At
<1>4. NamesAgree' /\ OrderIsRegistered' /\ StopsWhenEmpty'
  BY <1>1 DEF NamesAgree, OrderIsRegistered, StopsWhenEmpty, Registered, Inserting, At
<1> QED BY <1>2, <1>3, <1>4

LEMMA SameBornUnchanged == IInv /\ UNCHANGED shells => SameBorn
BY DEF IInv, TypeOK, SameBorn

-----------------------------------------------------------------------------
(* One lemma per action, or per few alike.                                 *)

LEMMA StepClientInvariant ==
  ASSUME IInv, NEW c \in Conn, stepClientSession(c)
  PROVE  IInv'
PROOF
<1>1. UNCHANGED <<registryVars, clients, up, sessionVars, reaper, conn>>
  BY DEF stepClientSession
<1>2. clients \subseteq Conn /\ view \in [Conn -> Name \cup {NoName}]
      /\ order \in Seq(Name)
  BY DEF IInv, TypeOK
<1>3. view' \in [Conn -> Name \cup {NoName}]
  <2> DEFINE n == Len(order)
             i == IF view[c] \in ToSet(order)
                  THEN CHOOSE j \in 1..n : order[j] = view[c] ELSE 1
  <2>1. PICK delta \in {1, n - 1} :
          n >= 2 /\ view' = [view EXCEPT ![c] = order[((i - 1 + delta) % n) + 1]]
    BY DEF stepClientSession
  <2>2. i \in 1..n
    <3>1. CASE view[c] \in ToSet(order)
      <4>1. \E j \in 1..n : order[j] = view[c]
        BY <1>2, <3>1 DEF ToSet
      <4> QED BY <3>1, <4>1
    <3>2. CASE view[c] \notin ToSet(order)
      BY <1>2, <2>1, <3>2
    <3> QED BY <3>1, <3>2
  <2> HIDE DEF i
  <2>3. ((i - 1 + delta) % n) + 1 \in 1..n
    BY <1>2, <2>1, <2>2
  <2>4. order[((i - 1 + delta) % n) + 1] \in Name
    BY <1>2, <2>3
  <2> QED BY <1>2, <2>1, <2>4
<1> QED BY <1>1, <1>2, <1>3, ViewStep

(* The reads that find a session or a free name. *)
LEMMA LookingInvariant ==
  ASSUME IInv, NEW c \in Conn, NEW n \in Name, NEW new \in Name,
         cmdNewSession(c, n) \/ cmdKillSession(c, n) \/ resolveRename(c, n, new)
  PROVE  IInv'
PROOF
<1>1. /\ UNCHANGED <<registryVars, up, name, shells, reaper, clients, view>>
      /\ conn[c].at \in {"off", "serving"}
  BY DEF cmdNewSession, cmdKillSession, resolveRename, Idle, clientVars, sessionVars
<1>2. SameBorn /\ clients' \subseteq Conn /\ view' \in [Conn -> Name \cup {NoName}]
  BY <1>1, SameBornUnchanged DEF IInv, TypeOK
<1>3. \A d \in Conn : At(d, "insert") => conn[d].sess # NoSession
  BY HeldThen
<1>4. CASE cmdNewSession(c, n)
  <2> DEFINE then == IF At(c, "serving") THEN "moveClient" ELSE "off"
  <2>1. Does(c, "lookup", then, n, NoSession)
    BY <1>4 DEF cmdNewSession
  <2>2. Holding([at |-> "lookup", then |-> then, name |-> n, sess |-> NoSession])
    BY DEF Holding
  <2>3. then \in Labels
    BY DEF Labels
  <2> HIDE DEF then
  <2> QED BY <1>1, <1>2, <1>3, <2>1, <2>2, <2>3, ConnStep DEF Labels
<1>5. CASE cmdKillSession(c, n) \/ resolveRename(c, n, new)
  <2>1. PICK l \in {"shutdown", "rename"}, m \in Name :
          Does(c, l, conn[c].at, m, sessions[n]) /\ sessions[n] # NoSession
    BY <1>5 DEF cmdKillSession, resolveRename
  <2>2. /\ sessions[n] \in Sessions /\ shells[sessions[n]] # "unborn"
        /\ \A d \in Conn : At(d, "insert") => conn[d].sess # sessions[n]
    BY <2>1, FoundSession
  <2>3. Holding([at |-> l, then |-> conn[c].at, name |-> m, sess |-> sessions[n]])
    BY <1>1, <2>2 DEF Holding
  <2> QED BY <1>1, <1>2, <2>1, <2>2, <2>3, ConnStep DEF Labels
<1> QED BY <1>4, <1>5

LEMMA ClientInvariant ==
  ASSUME IInv, NEW c \in Conn,
         newClient(c) \/ addClient(c) \/ moveClient(c) \/ removeClient(c)
  PROVE  IInv'
PROOF
<1>1. /\ UNCHANGED <<registryVars, up, name, shells, reaper>>
      /\ conn[c].at \in {"newClient", "addClient", "moveClient", "serving"}
  BY DEF newClient, addClient, moveClient, removeClient, At, sessionVars
<1>2. SameBorn
  BY <1>1, SameBornUnchanged
<1>3. /\ \A d \in Conn : At(d, "insert") => conn[d].sess # NoSession
      /\ Holding(conn[c])
  BY HeldThen
<1>4. clients' \subseteq Conn /\ view' \in [Conn -> Name \cup {NoName}]
  <2>0. clients \subseteq Conn /\ view \in [Conn -> Name \cup {NoName}]
        /\ name \in [Sessions -> Name \cup {NoName}]
    BY DEF IInv, TypeOK
  <2>1. CASE newClient(c)
    BY <1>3, <2>0, <2>1 DEF newClient, Holding, At
  <2>2. CASE moveClient(c)
    BY <1>3, <2>0, <2>2 DEF moveClient, Holding, At
  <2>3. CASE addClient(c) \/ removeClient(c)
    BY <2>0, <2>3 DEF addClient, removeClient
  <2> QED BY <2>1, <2>2, <2>3
<1>5. CASE newClient(c)
  <2>1. Does(c, "addClient", "serving", NoName, NoSession)
    BY <1>5 DEF newClient
  <2>2. Holding([at |-> "addClient", then |-> "serving", name |-> NoName, sess |-> NoSession])
    BY DEF Holding
  <2> QED BY <1>1, <1>2, <1>3, <1>4, <2>1, <2>2, ConnStep DEF Labels
<1>6. CASE addClient(c) \/ moveClient(c)
  <2>1. Return(c)
    BY <1>6 DEF addClient, moveClient
  <2> QED BY <1>1, <1>2, <1>4, <2>1, ReturnStep
<1>7. CASE removeClient(c)
  <2>1. Does(c, "off", "off", NoName, NoSession)
    BY <1>7 DEF removeClient, Does, Waiting
  <2>2. Holding([at |-> "off", then |-> "off", name |-> NoName, sess |-> NoSession])
    BY DEF Holding
  <2> QED BY <1>1, <1>2, <1>3, <1>4, <2>1, <2>2, ConnStep DEF Labels
<1> QED BY <1>5, <1>6, <1>7

LEMMA ShutdownInvariant ==
  ASSUME IInv, NEW c \in Conn, shutdown(c)
  PROVE  IInv'
PROOF
<1>1. /\ UNCHANGED <<registryVars, up, name, reaper, clients, view>>
      /\ conn[c].at = "shutdown"
      /\ Does(c, "emptied", conn[c].then, conn[c].name, NoSession)
      /\ shells' = [shells EXCEPT ![conn[c].sess] = "stopped"]
  BY DEF shutdown, At, clientVars
<1>2. /\ Holding(conn[c]) /\ conn[c].then \in Labels
      /\ conn[c].name \in Name \cup {NoName}
      /\ \A d \in Conn : At(d, "insert") => conn[d].sess # NoSession
  BY HeldThen
<1>3. SameBorn
  BY <1>1, <1>2 DEF SameBorn, IInv, TypeOK, Holding
<1>4. Holding([at |-> "emptied", then |-> conn[c].then, name |-> conn[c].name, sess |-> NoSession])
  BY <1>1, <1>2 DEF Holding
<1>5. clients' \subseteq Conn /\ view' \in [Conn -> Name \cup {NoName}]
  BY <1>1 DEF IInv, TypeOK
<1>6. /\ "emptied" \in Labels \ {"insert"} /\ conn[c].at \notin {"insert", "quit"}
      /\ NoSession \in Sessions \cup {NoSession}
      /\ UNCHANGED <<registryVars, up, name, reaper>>
  BY <1>1 DEF Labels
<1> QED BY <1>1, <1>2, <1>3, <1>4, <1>5, <1>6, ConnStep

-----------------------------------------------------------------------------
(* Steps of a session's own goroutines; the registry stays as it is. *)
LEMMA ReaperStep ==
  ASSUME IInv, UNCHANGED <<registryVars, clientVars, up, name, conn>>, SameBorn,
         reaper' \in [Sessions -> [at : {"idle", "emptying", "quitting", "stopped"},
                                   name : Name \cup {NoName}]],
         \A s \in Sessions : reaper'[s].at = "emptying" => reaper'[s].name \in Name,
         \A s \in Sessions : reaper[s].at = "quitting" => reaper'[s] = reaper[s]
  PROVE  IInv'
PROOF
<1> USE DEF IInv
<1>1. UNCHANGED <<sessions, order, clients, view, up, name, conn>>
  BY DEF registryVars, clientVars
<1>2. TypeOK'
  BY <1>1 DEF TypeOK, SameBorn
<1>3. Born'
  BY <1>1 DEF Born, SameBorn, TypeOK
<1>4. Held'
  <2>1. ASSUME NEW d \in Conn PROVE Holding(conn[d])'
    <3>1. Holding(conn[d]) /\ conn'[d] = conn[d] /\ conn[d].sess \in Sessions \cup {NoSession}
      BY <1>1 DEF Held, TypeOK
    <3> QED BY <3>1 DEF Holding, SameBorn
  <2> QED BY <2>1 DEF Held
<1>5. Private' /\ NamesAgree' /\ OrderIsRegistered'
  BY <1>1 DEF Private, NamesAgree, OrderIsRegistered, At
<1>6. StopsWhenEmpty'
  <2>1. \A s \in Sessions : Inserting(s)' <=> Inserting(s)
    BY <1>1 DEF Inserting, At
  <2>2. Registered' = Registered
    BY <1>1 DEF Registered
  <2>3. \A d \in Conn : At(d, "quit")' <=> At(d, "quit")
    BY <1>1 DEF At
  <2> QED BY <1>1, <2>1, <2>2, <2>3 DEF StopsWhenEmpty, SameBorn
<1> QED BY <1>2, <1>3, <1>4, <1>5, <1>6

LEMMA OwnEndInvariant ==
  ASSUME IInv, NEW s \in Sessions, lastExit(s) \/ onEmpty(s) \/ reaperStopped(s)
  PROVE  IInv'
PROOF
<1>0. /\ shells \in [Sessions -> {"unborn", "running", "ended", "stopped"}]
      /\ reaper \in [Sessions -> [at : {"idle", "emptying", "quitting", "stopped"},
                                  name : Name \cup {NoName}]]
      /\ \A r \in Sessions : shells[r] # "unborn" => name[r] \in Name
      /\ \A r \in Sessions : reaper[r].at = "emptying" => reaper[r].name \in Name
  BY DEF IInv, TypeOK, Born, Held
<1>1. UNCHANGED <<registryVars, clientVars, up, name, conn>>
  BY DEF lastExit, onEmpty, reaperStopped, sessionVars
<1>2. SameBorn
  BY <1>0 DEF SameBorn, lastExit, onEmpty, reaperStopped, sessionVars
<1>3. CASE lastExit(s)
  <2>1. reaper' = reaper
    BY <1>3 DEF lastExit
  <2> QED BY <1>0, <1>1, <1>2, <2>1, ReaperStep
<1>4. CASE onEmpty(s)
  <2>1. /\ reaper' = [reaper EXCEPT ![s] = [at |-> "emptying", name |-> name[s]]]
        /\ name[s] \in Name /\ reaper[s].at = "idle"
    BY <1>0, <1>4 DEF onEmpty
  <2> QED BY <1>0, <1>1, <1>2, <2>1, ReaperStep
<1>5. CASE reaperStopped(s)
  <2>1. /\ reaper' = [reaper EXCEPT ![s] = [at |-> "stopped", name |-> NoName]]
        /\ reaper[s].at = "idle"
    BY <1>5 DEF reaperStopped, Reaper
  <2> QED BY <1>0, <1>1, <1>2, <2>1, ReaperStep
<1> QED BY <1>3, <1>4, <1>5

-----------------------------------------------------------------------------
(* quit leaves nothing behind. *)
LEMMA QuitInvariant == IInv /\ quit => IInv'
PROOF
<1> SUFFICES ASSUME IInv, quit PROVE IInv'
  OBVIOUS
<1>1. /\ up' = FALSE /\ order' = <<>> /\ clients' = {} /\ name' = name
      /\ sessions' = [n \in Name |-> NoSession]
      /\ view' = [c \in Conn |-> NoName]
      /\ conn' = [c \in Conn |-> Waiting("off")]
      /\ reaper' = [s \in Sessions |-> Reaper("stopped")]
      /\ shells' = [s \in Sessions |-> IF s \in Registered THEN "stopped" ELSE shells[s]]
  BY DEF quit
<1>2. TypeOK'
  <2>1. conn' \in [Conn -> [at : Labels, then : Labels, name : Name \cup {NoName},
                            sess : Sessions \cup {NoSession}]]
    BY <1>1 DEF Waiting, Labels
  <2>2. reaper' \in [Sessions -> [at : {"idle", "emptying", "quitting", "stopped"},
                                  name : Name \cup {NoName}]]
    BY <1>1 DEF Reaper
  <2>3. order' \in Seq(Name) /\ IsInjective(order')
    BY <1>1 DEF IsInjective
  <2>4. shells' \in [Sessions -> {"unborn", "running", "ended", "stopped"}]
    BY <1>1 DEF IInv, TypeOK
  <2>5. name' \in [Sessions -> Name \cup {NoName}]
    BY <1>1 DEF IInv, TypeOK
  <2> QED BY <1>1, <2>1, <2>2, <2>3, <2>4, <2>5 DEF TypeOK
<1>3. Born'
  <2>1. ASSUME NEW s \in Sessions, shells'[s] # "unborn" PROVE name'[s] \in Name
    <3>1. CASE s \in Registered
      BY <1>1, <3>1 DEF IInv, Born, Registered
    <3>2. CASE s \notin Registered
      BY <1>1, <2>1, <3>2 DEF IInv, Born
    <3> QED BY <3>1, <3>2
  <2> QED BY <1>1, <2>1 DEF Born
<1>4. Held' /\ Private'
  BY <1>1 DEF Held, Holding, Private, At, Waiting, Reaper
<1>5. NamesAgree' /\ OrderIsRegistered' /\ StopsWhenEmpty'
  <2>1. DOMAIN order' = {}
    BY <1>1
  <2> QED BY <1>1, <2>1 DEF NamesAgree, OrderIsRegistered, StopsWhenEmpty
<1> QED BY <1>2, <1>3, <1>4, <1>5 DEF IInv

-----------------------------------------------------------------------------

(* A session is made for the registry, or found in it. *)
LEMMA GetOrCreateInvariant ==
  ASSUME IInv, NEW c \in Conn, NEW n \in Name, NEW then \in {"off", "newClient", "moveClient"},
         conn[c].at \in {"off", "lookup"},
         getOrCreateSession(c, then, n),
         UNCHANGED <<registryVars, clientVars, up, reaper>>
  PROVE  IInv'
PROOF
<1>0. /\ UNCHANGED <<sessions, order, clients, view, up, reaper>>
      /\ TypeOK /\ then \in Labels
  BY DEF registryVars, clientVars, IInv, Labels
<1>1. CASE /\ sessions[n] # NoSession
           /\ IF then \in {"off", "serving"} THEN conn' = [conn EXCEPT ![c] = Waiting(then)]
              ELSE Does(c, then, "serving", NoName, sessions[n])
           /\ UNCHANGED sessionVars
  <2>1. SameBorn /\ UNCHANGED <<registryVars, up, name, reaper>>
        /\ clients' \subseteq Conn /\ view' \in [Conn -> Name \cup {NoName}]
    BY <1>0, <1>1, SameBornUnchanged DEF sessionVars, TypeOK, registryVars
  <2>2. CASE then = "off"
    <3>1. Does(c, "off", "off", NoName, NoSession)
      BY <1>1, <2>2 DEF Does, Waiting
    <3>2. Holding([at |-> "off", then |-> "off", name |-> NoName, sess |-> NoSession])
      BY DEF Holding
    <3>3. \A d \in Conn : At(d, "insert") => conn[d].sess # NoSession
      BY HeldThen
    <3> QED BY <2>1, <3>1, <3>2, <3>3, ConnStep DEF Labels
  <2>3. CASE then # "off"
    <3>1. Does(c, then, "serving", NoName, sessions[n])
      BY <1>1, <2>3
    <3>2. /\ sessions[n] \in Sessions /\ shells[sessions[n]] # "unborn"
          /\ \A d \in Conn : At(d, "insert") => conn[d].sess # sessions[n]
      BY <1>1, FoundSession
    <3>3. Holding([at |-> then, then |-> "serving", name |-> NoName, sess |-> sessions[n]])
      BY <2>3, <3>2 DEF Holding
    <3> QED BY <2>1, <2>3, <3>1, <3>2, <3>3, ConnStep DEF Labels
  <2> QED BY <2>2, <2>3
<1>2. CASE \E s \in Sessions :
             /\ shells[s] = "unborn"
             /\ name' = [name EXCEPT ![s] = n]
             /\ shells' = [shells EXCEPT ![s] = "running"]
             /\ Does(c, "insert", then, n, s)
  <2>1. PICK s \in Sessions :
             /\ shells[s] = "unborn"
             /\ name' = [name EXCEPT ![s] = n]
             /\ shells' = [shells EXCEPT ![s] = "running"]
             /\ Does(c, "insert", then, n, s)
    BY <1>2
  <2>2. /\ conn' \in [Conn -> [at : Labels, then : Labels, name : Name \cup {NoName},
                                sess : Sessions \cup {NoSession}]]
        /\ conn'[c] = [at |-> "insert", then |-> then, name |-> n, sess |-> s]
        /\ \A d \in Conn \ {c} : conn'[d] = conn[d]
    <3>1. "insert" \in Labels
      BY DEF Labels
    <3> QED BY <1>0, <2>1, <3>1, DoesEffect
  <2>3. /\ name[s] \in Name \cup {NoName} /\ s # NoSession
        /\ name'[s] = n /\ \A r \in Sessions \ {s} : name'[r] = name[r]
        /\ shells'[s] = "running" /\ \A r \in Sessions \ {s} : shells'[r] = shells[r]
    BY <1>0, <2>1 DEF TypeOK, Sessions, NoSession
  <2>4. \A m \in Name : sessions[m] # s
    BY <2>1, <2>3 DEF IInv, Born
  <2>5. TypeOK'
    BY <1>0, <2>1, <2>2 DEF TypeOK
  <2>6. Born'
    BY <1>0, <2>3, <2>4 DEF Born, IInv, TypeOK
  <2>7. Held'
    <3>1. Holding(conn[c])'
      BY <2>2, <2>3 DEF Holding
    <3>2. ASSUME NEW d \in Conn \ {c} PROVE Holding(conn[d])'
      <4>1. Holding(conn[d]) /\ conn'[d] = conn[d]
            /\ conn[d].sess \in Sessions \cup {NoSession}
        BY <2>2 DEF IInv, Held, TypeOK
      <4> QED BY <2>3, <4>1 DEF Holding
    <3> QED BY <1>0, <3>1, <3>2 DEF Held, IInv
  <2>8. Private'
    <3>1. \A d \in Conn : At(d, "insert") => conn[d].sess \in Sessions /\ shells[conn[d].sess] # "unborn"
      BY DEF IInv, Held, Holding, At
    <3>2. ASSUME NEW d \in Conn \ {c}, NEW e \in Conn \ {c}, At(d, "insert"), e # d
          PROVE  conn[e].sess # conn[d].sess
      BY <3>2 DEF IInv, Private
    <3>3. ASSUME NEW d \in Conn \ {c}, conn[d].sess = s PROVE FALSE
      <4> QED BY <2>1, <2>3, <3>3 DEF IInv, Held, Holding, TypeOK
    <3> QED BY <1>0, <2>2, <2>3, <2>4, <3>1, <3>2, <3>3 DEF Private, At, IInv
  <2>9. NamesAgree' /\ OrderIsRegistered'
    BY <1>0, <2>3, <2>4 DEF NamesAgree, OrderIsRegistered, IInv, TypeOK
  <2>10. StopsWhenEmpty'
    <3> SUFFICES ASSUME up', Registered' = {} PROVE StopsWhenEmpty'
      BY DEF StopsWhenEmpty
    <3>1. up /\ Registered = {}
      BY <1>0, <2>1 DEF Registered
    <3>2. /\ \A r \in Sessions : Inserting(r) => Inserting(r)'
          /\ \A d \in Conn : At(d, "quit") => At(d, "quit")'
      BY <1>0, <2>2 DEF Inserting, At
    <3>3. Inserting(s)'
      BY <2>2 DEF Inserting, At
    <3>4. CASE \A r \in Sessions : shells[r] = "unborn" \/ Inserting(r)
      BY <2>3, <3>2, <3>3, <3>4 DEF StopsWhenEmpty
    <3>5. CASE \E r \in Sessions : reaper[r].at = "quitting"
      BY <1>0, <2>1, <3>5 DEF StopsWhenEmpty
    <3> QED BY <3>1, <3>2, <3>4, <3>5 DEF StopsWhenEmpty, IInv
  <2> QED BY <2>5, <2>6, <2>7, <2>8, <2>9, <2>10 DEF IInv
<1> QED BY <1>1, <1>2 DEF getOrCreateSession

LEMMA LookupInvariant ==
  ASSUME IInv, NEW c \in Conn, NEW n \in Name, attach(c, n) \/ lookup(c)
  PROVE  IInv'
PROOF
<1>1. CASE attach(c, n)
  BY <1>1, GetOrCreateInvariant DEF attach, At
<1>2. CASE lookup(c)
  <2>1. Holding(conn[c])
    BY HeldThen
  <2>2. conn[c].then \in {"off", "newClient", "moveClient"} /\ conn[c].name \in Name
    BY <1>2, <2>1 DEF lookup, At, Holding
  <2> QED BY <1>2, <2>2, GetOrCreateInvariant DEF lookup, At
<1> QED BY <1>1, <1>2

LEMMA FoundEffect ==
  ASSUME IInv, NEW c \in Conn, At(c, "insert"), NEW s \in Sessions, shells'[s] # "unborn",
         Found(c, s)
  PROVE  /\ conn' \in [Conn -> [at : Labels, then : Labels, name : Name \cup {NoName},
                                sess : Sessions \cup {NoSession}]]
         /\ Holding(conn[c])' /\ ~At(c, "insert")'
         /\ conn'[c].sess \in {s, NoSession}
         /\ \A d \in Conn \ {c} : conn'[d] = conn[d]
PROOF
<1>1. /\ conn[c].then \in {"off", "newClient", "moveClient"}
      /\ TypeOK /\ conn[c].then \in Labels /\ "serving" \in Labels
  BY HeldThen DEF At, Holding, IInv, Labels
<1>2. CASE conn[c].then = "off"
  <2>1. Does(c, "off", "off", NoName, NoSession)
    BY <1>2, ReturnIsDoes DEF Found
  <2>2. /\ conn' \in [Conn -> [at : Labels, then : Labels, name : Name \cup {NoName},
                                sess : Sessions \cup {NoSession}]]
        /\ conn'[c] = [at |-> "off", then |-> "off", name |-> NoName, sess |-> NoSession]
        /\ \A d \in Conn \ {c} : conn'[d] = conn[d]
    <3>1. "off" \in Labels
      BY <1>1, <1>2
    <3> QED BY <1>1, <2>1, <3>1, DoesEffect
  <2> QED BY <2>2 DEF Holding, At
<1>3. CASE conn[c].then # "off"
  <2>1. Does(c, conn[c].then, "serving", NoName, s)
    BY <1>3 DEF Found
  <2>2. /\ conn' \in [Conn -> [at : Labels, then : Labels, name : Name \cup {NoName},
                                sess : Sessions \cup {NoSession}]]
        /\ conn'[c] = [at |-> conn[c].then, then |-> "serving", name |-> NoName, sess |-> s]
        /\ \A d \in Conn \ {c} : conn'[d] = conn[d]
    BY <1>1, <2>1, DoesEffect
  <2> QED BY <1>1, <2>2 DEF Holding, At
<1> QED BY <1>2, <1>3

LEMMA InsertInvariant ==
  ASSUME IInv, NEW c \in Conn, insert(c)
  PROVE  IInv'
PROOF
<1> DEFINE n == conn[c].name
           s == conn[c].sess
<1>0. /\ At(c, "insert") /\ UNCHANGED <<clients, view, up, name, reaper>>
      /\ TypeOK /\ conn[c].at = "insert"
  BY DEF insert, clientVars, IInv, At
<1>1. n \in Name /\ s \in Sessions /\ s # NoSession /\ shells[s] # "unborn"
  BY <1>0, HeldThen DEF Holding
<1>2. /\ name[s] = n
      /\ \A m \in Name : sessions[m] # s
      /\ \A d \in Conn \ {c} : conn[d].sess # s
  BY <1>0 DEF IInv, Private
<1> HIDE DEF n, s
<1>3. PICK r \in Sessions : Found(c, r) /\
        \/ /\ sessions[n] # NoSession /\ r = sessions[n]
           /\ shells' = [shells EXCEPT ![s] = "stopped"]
           /\ UNCHANGED <<sessions, order>>
        \/ /\ sessions[n] = NoSession /\ r = s
           /\ sessions' = [sessions EXCEPT ![n] = s]
           /\ order' = Append(order, n)
           /\ UNCHANGED shells
  <2>1. sessions[n] # NoSession => sessions[n] \in Sessions
    BY <1>0, <1>1 DEF TypeOK
  <2> QED BY <1>1, <2>1 DEF insert, n, s, registryVars
<1>4. shells[r] # "unborn"
  BY <1>1, <1>3, FoundSession
<1>5. SameBorn
  BY <1>0, <1>1, <1>3 DEF SameBorn, TypeOK
<1>6. /\ conn' \in [Conn -> [at : Labels, then : Labels, name : Name \cup {NoName},
                                sess : Sessions \cup {NoSession}]]
      /\ Holding(conn[c])' /\ ~At(c, "insert")'
      /\ conn'[c].sess \in {r, NoSession}
      /\ \A d \in Conn \ {c} : conn'[d] = conn[d]
  <2>1. shells'[r] # "unborn"
    BY <1>4, <1>5 DEF SameBorn
  <2> QED BY <1>0, <1>3, <2>1, FoundEffect
<1>7. Held'
  <2>1. ASSUME NEW d \in Conn \ {c} PROVE Holding(conn[d])'
    <3>1. Holding(conn[d]) /\ conn'[d] = conn[d] /\ conn[d].sess \in Sessions \cup {NoSession}
      BY <1>0, <1>6 DEF IInv, Held, TypeOK
    <3> QED BY <1>5, <3>1 DEF Holding, SameBorn
  <2> QED BY <1>0, <1>6, <2>1 DEF Held, IInv
<1>8. \A d \in Conn : At(d, "insert") => conn[d].sess \in Sessions /\ conn[d].sess # NoSession
  BY HeldThen DEF At, Holding
<1>9. CASE sessions[n] # NoSession
  <2>1. UNCHANGED <<sessions, order>> /\ r = sessions[n]
    BY <1>3, <1>9
  <2>2. TypeOK'
    BY <1>0, <1>5, <1>6, <2>1 DEF TypeOK, SameBorn
  <2>3. Born'
    BY <1>0, <1>5, <2>1 DEF Born, IInv, SameBorn, TypeOK
  <2>4. Private'
    <3>1. \A d \in Conn : At(d, "insert") => conn[d].sess # r
      BY <1>1, <1>9, <2>1, FoundSession
    <3> QED BY <1>0, <1>6, <1>8, <2>1, <3>1 DEF Private, At, IInv
  <2>5. NamesAgree' /\ OrderIsRegistered'
    BY <1>0, <2>1 DEF NamesAgree, OrderIsRegistered, IInv
  <2>6. StopsWhenEmpty'
    BY <1>1, <1>9, <2>1 DEF StopsWhenEmpty, Registered
  <2> QED BY <1>7, <2>2, <2>3, <2>4, <2>5, <2>6 DEF IInv
<1>10. CASE sessions[n] = NoSession
  <2>1. /\ sessions' = [sessions EXCEPT ![n] = s] /\ order' = Append(order, n)
        /\ shells' = shells /\ r = s
    BY <1>3, <1>10
  <2>2. order' \in Seq(Name) /\ IsInjective(order') /\ ToSet(order') = ToSet(order) \cup {n}
    <3>1. n \notin ToSet(order)
      BY <1>10 DEF ToSet, IInv, OrderIsRegistered
    <3>2. n \in Name /\ order \in Seq(Name) /\ order' = Append(order, n)
          /\ \A j, k \in DOMAIN order : order[j] = order[k] => j = k
      BY <1>0, <1>1, <2>1 DEF TypeOK, IsInjective
    <3>3. /\ order' \in Seq(Name) /\ ToSet(order') = ToSet(order) \cup {n}
          /\ \A j, k \in DOMAIN order' : order'[j] = order'[k] => j = k
      BY <3>1, <3>2, AppendDistinct
    <3> QED BY <3>3 DEF IsInjective
  <2>3. TypeOK'
    BY <1>0, <1>1, <1>6, <2>1, <2>2 DEF TypeOK
  <2>4. Born'
    BY <1>0, <1>1, <2>1 DEF Born, IInv, TypeOK
  <2>5. Private'
    <3>1. \A m \in Name : sessions'[m] \in {sessions[m], s}
      BY <1>0, <2>1 DEF TypeOK
    <3> SUFFICES ASSUME NEW d \in Conn \ {c}, conn[d].at = "insert"
                 PROVE  /\ name[conn[d].sess] = conn[d].name
                        /\ \A m \in Name : sessions'[m] # conn[d].sess
                        /\ \A e \in Conn \ {d} : conn'[e].sess # conn[d].sess
      BY <1>0, <1>6 DEF Private, At
    <3>2. /\ name[conn[d].sess] = conn[d].name
          /\ \A m \in Name : sessions[m] # conn[d].sess
          /\ \A e \in Conn \ {d} : conn[e].sess # conn[d].sess
          /\ conn[d].sess # s /\ conn[d].sess # NoSession
      BY <1>2, <1>8 DEF Private, At, IInv
    <3> QED BY <1>6, <2>1, <3>1, <3>2
  <2>6. NamesAgree'
    BY <1>0, <1>2, <2>1 DEF NamesAgree, IInv, TypeOK
  <2>7. OrderIsRegistered'
    <3>1. ASSUME NEW i \in DOMAIN order' PROVE sessions'[order'[i]] # NoSession
      <4>1. order'[i] \in Name
        BY <2>2
      <4>3. order'[i] \in ToSet(order) \cup {n}
        <5>1. order'[i] \in ToSet(order')
          BY DEF ToSet
        <5> QED BY <2>2, <5>1
      <4>2. \A m \in ToSet(order) : sessions[m] # NoSession
        BY DEF ToSet, IInv, OrderIsRegistered
      <4> QED BY <1>0, <1>1, <2>1, <4>1, <4>2, <4>3 DEF TypeOK
    <3> QED BY <3>1 DEF OrderIsRegistered
  <2>8. StopsWhenEmpty'
    <3>1. sessions'[n] = s
      BY <1>0, <1>1, <2>1 DEF TypeOK
    <3> QED BY <1>1, <3>1 DEF StopsWhenEmpty, Registered
  <2> QED BY <1>7, <2>3, <2>4, <2>5, <2>6, <2>7, <2>8 DEF IInv
<1> QED BY <1>9, <1>10

-----------------------------------------------------------------------------
(* Dropping a name. *)
LEMMA DropFromOrder ==
  ASSUME NEW n \in Name, order \in Seq(Name), IsInjective(order)
  PROVE  /\ dropFromOrder(n) \in Seq(Name) /\ IsInjective(dropFromOrder(n))
         /\ ToSet(dropFromOrder(n)) = ToSet(order) \ {n}
PROOF
<1>1. CASE n \in ToSet(order)
  <2> DEFINE i == CHOOSE j \in DOMAIN order : firstAt(n, j)
  <2>1. PICK k \in DOMAIN order : order[k] = n
    BY <1>1 DEF ToSet
  <2>2. firstAt(n, k)
    BY <2>1 DEF firstAt, IsInjective
  <2>3. i \in DOMAIN order /\ order[i] = n
    BY <2>2 DEF firstAt
  <2>4. dropFromOrder(n) = RemoveAt(order, i)
    BY <1>1 DEF dropFromOrder
  <2> HIDE DEF i
  <2>5. \A a, b \in DOMAIN order : order[a] = order[b] => a = b
    BY DEF IsInjective
  <2>6. /\ RemoveAt(order, i) \in Seq(Name)
        /\ ToSet(RemoveAt(order, i)) = ToSet(order) \ {order[i]}
        /\ \A a, b \in DOMAIN RemoveAt(order, i) :
             RemoveAt(order, i)[a] = RemoveAt(order, i)[b] => a = b
    BY <2>3, <2>5, RemoveAtDistinct
  <2> QED BY <2>3, <2>4, <2>6 DEF IsInjective
<1>2. CASE n \notin ToSet(order)
  BY <1>2 DEF dropFromOrder
<1> QED BY <1>1, <1>2

LEMMA DropEffect ==
  ASSUME IInv, NEW n \in Name, sessionEmptied(n)
  PROVE  /\ sessions' \in [Name -> Sessions \cup {NoSession}]
         /\ \A m \in Name : sessions'[m] \in {sessions[m], NoSession}
         /\ order' \in Seq(Name) /\ IsInjective(order') /\ OrderIsRegistered'
         /\ SameBorn /\ clients' \subseteq Conn /\ view' \in [Conn -> Name \cup {NoName}]
         /\ UNCHANGED <<up, name>>
PROOF
<1>0. TypeOK /\ IInv
  BY DEF IInv
<1>1. UNCHANGED <<up, name, clients>>
  BY DEF sessionEmptied
<1>2. view' \in [Conn -> Name \cup {NoName}]
  <2>1. view \in [Conn -> Name \cup {NoName}]
    BY <1>0 DEF TypeOK
  <2> QED BY <2>1 DEF sessionEmptied
<1>3. CASE sessions[n] # NoSession
  <2>1. /\ sessions' = [sessions EXCEPT ![n] = NoSession]
        /\ order' = dropFromOrder(n)
        /\ shells' = [shells EXCEPT ![sessions[n]] = "stopped"]
    BY <1>3 DEF sessionEmptied
  <2>2. /\ order' \in Seq(Name) /\ IsInjective(order')
        /\ ToSet(order') = ToSet(order) \ {n}
    BY <1>0, <2>1, DropFromOrder DEF TypeOK
  <2>3. sessions[n] \in Sessions /\ shells[sessions[n]] # "unborn"
    BY <1>3, FoundSession
  <2>4. SameBorn
    BY <1>0, <2>1, <2>3 DEF SameBorn, TypeOK
  <2>5. OrderIsRegistered'
    <3>1. ASSUME NEW i \in DOMAIN order' PROVE sessions'[order'[i]] # NoSession
      <4>1. order'[i] \in ToSet(order')
        BY DEF ToSet
      <4>2. order'[i] \in Name /\ order'[i] # n /\ order'[i] \in ToSet(order)
        <5>1. order'[i] \in Name
          BY <2>2
        <5> QED BY <2>2, <4>1, <5>1
      <4>3. \A m \in ToSet(order) : sessions[m] # NoSession
        BY DEF ToSet, IInv, OrderIsRegistered
      <4> QED BY <1>0, <2>1, <4>2, <4>3 DEF TypeOK
    <3> QED BY <3>1 DEF OrderIsRegistered
  <2>6. /\ sessions' \in [Name -> Sessions \cup {NoSession}]
        /\ \A m \in Name : sessions'[m] \in {sessions[m], NoSession}
    BY <1>0, <2>1 DEF TypeOK
  <2> QED BY <1>0, <1>1, <1>2, <2>2, <2>4, <2>5, <2>6 DEF TypeOK
<1>4. CASE sessions[n] = NoSession
  <2>1. UNCHANGED <<sessions, order, shells>>
    BY <1>4 DEF sessionEmptied, registryVars
  <2>2. SameBorn
    BY <1>0, <2>1 DEF SameBorn, TypeOK
  <2>3. OrderIsRegistered'
    BY <2>1 DEF OrderIsRegistered, IInv
  <2> QED BY <1>0, <1>1, <1>2, <2>1, <2>2, <2>3 DEF TypeOK
<1> QED BY <1>3, <1>4

(* What remains of the invariant once a name is dropped. *)
LEMMA DropStep ==
  ASSUME IInv, NEW n \in Name, sessionEmptied(n)
  PROVE  Born' /\ NamesAgree' /\ (Registered' = {} => lastOne)
PROOF
<1>1. /\ sessions' \in [Name -> Sessions \cup {NoSession}]
      /\ \A m \in Name : sessions'[m] \in {sessions[m], NoSession}
      /\ SameBorn /\ name' = name
  BY DropEffect
<1>2. Born'
  <2>1. \A s \in Sessions : shells'[s] # "unborn" => name'[s] \in Name
    BY <1>1 DEF SameBorn, IInv, Born
  <2>2. ASSUME NEW m \in Name, sessions'[m] # NoSession PROVE shells'[sessions'[m]] # "unborn"
    BY <1>1, <2>2 DEF SameBorn, IInv, Born, TypeOK
  <2> QED BY <2>1, <2>2 DEF Born
<1>3. NamesAgree'
  BY <1>1 DEF NamesAgree, IInv
<1>4. Registered' = {} => lastOne
  BY DEF Registered, lastOne
<1> QED BY <1>2, <1>3, <1>4

LEMMA EmptiedByKillInvariant ==
  ASSUME IInv, NEW c \in Conn, emptiedByKill(c)
  PROVE  IInv'
PROOF
<1>0. conn[c].at = "emptied" /\ reaper' = reaper /\ sessionEmptied(conn[c].name)
  BY DEF emptiedByKill, At
<1>1. /\ Holding(conn[c]) /\ conn[c].then \in Labels
      /\ \A d \in Conn : At(d, "insert") => conn[d].sess # NoSession
  BY HeldThen
<1>2. conn[c].name \in Name /\ conn[c].then \in {"off", "serving"}
  BY <1>0, <1>1 DEF Holding
<1>3. /\ sessions' \in [Name -> Sessions \cup {NoSession}]
      /\ \A m \in Name : sessions'[m] \in {sessions[m], NoSession}
      /\ order' \in Seq(Name) /\ IsInjective(order') /\ OrderIsRegistered'
      /\ SameBorn /\ clients' \subseteq Conn /\ view' \in [Conn -> Name \cup {NoName}]
      /\ UNCHANGED <<up, name>>
  BY <1>0, <1>2, DropEffect
<1>4. Born' /\ NamesAgree' /\ (Registered' = {} => lastOne)
  BY <1>0, <1>2, DropStep
<1>5. PICK l \in {"quit", "off", "serving"} : /\ Does(c, l, conn[c].then, NoName, NoSession)
                                              /\ lastOne => l = "quit"
  BY <1>2, ReturnIsDoes DEF emptiedByKill
<1>6. /\ conn' \in [Conn -> [at : Labels, then : Labels, name : Name \cup {NoName},
                              sess : Sessions \cup {NoSession}]]
      /\ conn'[c] = [at |-> l, then |-> conn[c].then, name |-> NoName, sess |-> NoSession]
      /\ \A d \in Conn \ {c} : conn'[d] = conn[d]
  <2>1. l \in Labels /\ TypeOK
    BY DEF Labels, IInv
  <2> QED BY <1>1, <1>5, <2>1, DoesEffect
<1>7. TypeOK'
  BY <1>0, <1>3, <1>6 DEF TypeOK, IInv, SameBorn
<1>8. Held'
  <2>1. ASSUME NEW d \in Conn \ {c} PROVE Holding(conn[d])'
    <3>1. Holding(conn[d]) /\ conn'[d] = conn[d] /\ conn[d].sess \in Sessions \cup {NoSession}
      BY <1>6 DEF IInv, Held, TypeOK
    <3> QED BY <1>3, <3>1 DEF Holding, SameBorn
  <2>2. Holding(conn[c])'
    BY <1>2, <1>6 DEF Holding
  <2> QED BY <1>0, <2>1, <2>2 DEF Held, IInv
<1>9. Private'
  <2>1. \A d \in Conn : At(d, "insert")' => d # c /\ At(d, "insert")
    BY <1>6 DEF At
  <2>2. ASSUME NEW d \in Conn, At(d, "insert")'
        PROVE  /\ name'[conn'[d].sess] = conn'[d].name
               /\ \A n \in Name : sessions'[n] # conn'[d].sess
               /\ \A e \in Conn \ {d} : conn'[e].sess # conn'[d].sess
    <3>1. d # c /\ At(d, "insert") /\ conn'[d] = conn[d] /\ conn[d].sess # NoSession
      <4>1. d # c /\ At(d, "insert")
        BY <2>1, <2>2
      <4>2. conn[d].sess # NoSession
        BY <1>1, <4>1
      <4> QED BY <1>6, <4>1, <4>2
    <3>2. /\ name[conn[d].sess] = conn[d].name
          /\ \A n \in Name : sessions[n] # conn[d].sess
          /\ \A e \in Conn \ {d} : conn[e].sess # conn[d].sess
      BY <3>1 DEF Private, IInv
    <3>3. \A e \in Conn \ {d} : conn'[e].sess # conn'[d].sess
      BY <1>6, <3>1, <3>2
    <3> QED BY <1>1, <1>3, <3>1, <3>2, <3>3
  <2> QED BY <2>2 DEF Private
<1>10. StopsWhenEmpty'
  <2>1. Registered' = {} => At(c, "quit")'
    BY <1>4, <1>5, <1>6 DEF At
  <2> QED BY <2>1 DEF StopsWhenEmpty
<1> QED BY <1>3, <1>4, <1>7, <1>8, <1>9, <1>10 DEF IInv

LEMMA EmptiedByReaperInvariant ==
  ASSUME IInv, NEW s \in Sessions, emptiedByReaper(s)
  PROVE  IInv'
PROOF
<1> DEFINE n == reaper[s].name
<1>0. reaper[s].at = "emptying" /\ conn' = conn /\ sessionEmptied(n) /\ n \in Name
  BY DEF emptiedByReaper, IInv, Held
<1>1. \A d \in Conn : At(d, "insert") => conn[d].sess # NoSession
  BY HeldThen
<1> HIDE DEF n
<1>3. /\ sessions' \in [Name -> Sessions \cup {NoSession}]
      /\ \A m \in Name : sessions'[m] \in {sessions[m], NoSession}
      /\ order' \in Seq(Name) /\ IsInjective(order') /\ OrderIsRegistered'
      /\ SameBorn /\ clients' \subseteq Conn /\ view' \in [Conn -> Name \cup {NoName}]
      /\ UNCHANGED <<up, name>>
  BY <1>0, DropEffect
<1>4. Born' /\ NamesAgree' /\ (Registered' = {} => lastOne)
  BY <1>0, DropStep
<1>5. PICK l \in {"quitting", "stopped"} :
        /\ reaper' = [reaper EXCEPT ![s] = [at |-> l, name |-> NoName]]
        /\ lastOne => l = "quitting"
  BY DEF emptiedByReaper, Reaper
<1>6. /\ reaper' \in [Sessions -> [at : {"idle", "emptying", "quitting", "stopped"},
                                   name : Name \cup {NoName}]]
      /\ reaper'[s].at = l
      /\ \A r \in Sessions : reaper'[r].at = "emptying" => reaper'[r].name \in Name
  BY <1>5 DEF IInv, TypeOK, Held
<1>7. TypeOK'
  BY <1>0, <1>3, <1>6 DEF TypeOK, IInv, SameBorn
<1>8. Held'
  <2>1. ASSUME NEW d \in Conn PROVE Holding(conn[d])'
    <3>1. Holding(conn[d]) /\ conn'[d] = conn[d] /\ conn[d].sess \in Sessions \cup {NoSession}
      BY <1>0 DEF IInv, Held, TypeOK
    <3> QED BY <1>3, <3>1 DEF Holding, SameBorn
  <2> QED BY <1>6, <2>1 DEF Held
<1>9. Private'
  <2>1. \A d \in Conn : At(d, "insert")' => At(d, "insert")
    BY <1>0 DEF At
  <2> QED BY <1>0, <1>1, <1>3, <2>1 DEF Private, IInv
<1>10. StopsWhenEmpty'
  <2>1. Registered' = {} => reaper'[s].at = "quitting"
    BY <1>4, <1>5, <1>6
  <2> QED BY <2>1 DEF StopsWhenEmpty
<1> QED BY <1>3, <1>4, <1>7, <1>8, <1>9, <1>10 DEF IInv

-----------------------------------------------------------------------------
(* Giving a session a new name, whatever became of it in the meantime. *)
LEMMA RenameInvariant ==
  ASSUME IInv, NEW c \in Conn, renameSession(c)
  PROVE  IInv'
PROOF
<1> DEFINE s   == conn[c].sess
           old == name[s]
           new == conn[c].name
<1>0. /\ conn[c].at = "rename" /\ Return(c)
      /\ UNCHANGED <<clients, up, shells, reaper>>
  BY DEF renameSession, At
<1>1. s \in Sessions /\ shells[s] # "unborn" /\ new \in Name /\ s # NoSession
  BY <1>0, HeldThen DEF Holding, Sessions, NoSession
<1>2. old \in Name /\ TypeOK /\ SameBorn
  BY <1>0, <1>1, SameBornUnchanged DEF IInv, Born
<1>3. view' \in [Conn -> Name \cup {NoName}] /\ clients' \subseteq Conn
  <2>1. view \in [Conn -> Name \cup {NoName}] /\ clients \subseteq Conn
    BY <1>2 DEF TypeOK
  <2> QED BY <1>0, <1>1, <2>1 DEF renameSession
<1>4. CASE sessions[new] # NoSession
  <2>1. UNCHANGED <<registryVars, name>>
    BY <1>4 DEF renameSession
  <2> QED BY <1>0, <1>2, <1>3, <2>1, ReturnStep
<1>5. CASE sessions[new] = NoSession
  <2>1. /\ sessions' = [sessions EXCEPT ![old] = NoSession, ![new] = s]
        /\ order' = inOrder(old, new)
        /\ name' = [name EXCEPT ![s] = new]
    BY <1>5 DEF renameSession, named
  <2> HIDE DEF s, old, new
  <2>2. /\ sessions' \in [Name -> Sessions \cup {NoSession}]
        /\ sessions'[new] = s
        /\ \A m \in Name \ {new} : sessions'[m] = IF m = old THEN NoSession ELSE sessions[m]
    BY <1>1, <1>2, <2>1 DEF TypeOK
  <2>3. /\ name' \in [Sessions -> Name \cup {NoName}]
        /\ name'[s] = new
        /\ \A r \in Sessions \ {s} : name'[r] = name[r]
    BY <1>1, <1>2, <2>1 DEF TypeOK
  <2>4. /\ \A m \in Name : sessions[m] = s => m = old
        /\ \A i \in DOMAIN order : order[i] # new
    BY <1>1, <1>5 DEF IInv, NamesAgree, OrderIsRegistered, old
  <2>5. /\ order \in Seq(Name) /\ IsInjective(order)
        /\ DOMAIN order' = DOMAIN order
        /\ \A i \in DOMAIN order : order'[i] = IF order[i] = old THEN new ELSE order[i]
    BY <1>2, <2>1 DEF inOrder, TypeOK
  <2>6. order' \in Seq(Name) /\ IsInjective(order')
    <3>1. order' = [i \in 1..Len(order) |-> IF order[i] = old THEN new ELSE order[i]]
      BY <2>1, <2>5 DEF inOrder
    <3>2. \A i \in 1..Len(order) : order[i] \in Name
      BY <2>5
    <3>3. order' \in Seq(Name)
      BY <1>1, <2>5, <3>1, <3>2
    <3> QED BY <2>4, <2>5, <3>3 DEF IsInjective
  <2>7. OrderIsRegistered'
    <3>1. ASSUME NEW i \in DOMAIN order PROVE sessions'[order'[i]] # NoSession
      <4>1. CASE order[i] = old
        BY <1>1, <2>2, <2>5, <4>1
      <4>2. CASE order[i] # old
        <5>1. order'[i] = order[i] /\ order[i] \in Name \ {new} /\ sessions[order[i]] # NoSession
          BY <2>4, <2>5, <4>2 DEF IInv, OrderIsRegistered
        <5> QED BY <2>2, <4>2, <5>1
      <4> QED BY <4>1, <4>2
    <3> QED BY <2>5, <3>1 DEF OrderIsRegistered
  <2>8. NamesAgree'
    <3>1. ASSUME NEW m \in Name, sessions'[m] # NoSession PROVE name'[sessions'[m]] = m
      <4>1. CASE m = new
        BY <2>2, <2>3, <4>1
      <4>2. CASE m # new
        <5>1. m # old /\ sessions'[m] = sessions[m] /\ sessions[m] # NoSession
          BY <2>2, <3>1, <4>2
        <5>2. sessions[m] \in Sessions \ {s} /\ name[sessions[m]] = m
          BY <1>2, <2>4, <5>1 DEF IInv, NamesAgree, TypeOK
        <5> QED BY <2>3, <5>1, <5>2
      <4> QED BY <4>1, <4>2
    <3> QED BY <3>1 DEF NamesAgree
  <2>9. /\ conn' \in [Conn -> [at : Labels, then : Labels, name : Name \cup {NoName},
                              sess : Sessions \cup {NoSession}]]
        /\ Holding(conn[c])' /\ conn'[c].at # "insert" /\ conn'[c].sess = NoSession
        /\ \A d \in Conn \ {c} : conn'[d] = conn[d]
    <3>1. Does(c, conn[c].then, conn[c].then, NoName, NoSession)
          /\ conn[c].then \in Labels /\ conn[c].then \in {"off", "serving"}
      BY <1>0, ReturnIsDoes, HeldThen DEF Holding
    <3>2. /\ conn' \in [Conn -> [at : Labels, then : Labels, name : Name \cup {NoName},
                                sess : Sessions \cup {NoSession}]]
          /\ conn'[c] = [at |-> conn[c].then, then |-> conn[c].then, name |-> NoName,
                         sess |-> NoSession]
          /\ \A d \in Conn \ {c} : conn'[d] = conn[d]
      BY <1>2, <3>1, DoesEffect
    <3> QED BY <3>1, <3>2 DEF Holding
  <2>10. TypeOK'
    BY <1>0, <1>2, <1>3, <2>2, <2>3, <2>6, <2>9 DEF TypeOK
  <2>11. Born'
    BY <1>0, <1>1, <2>2, <2>3 DEF Born, IInv, TypeOK
  <2>12. Held'
    <3>1. ASSUME NEW d \in Conn \ {c} PROVE Holding(conn[d])'
      <4>1. Holding(conn[d]) /\ conn'[d] = conn[d]
        BY <2>9 DEF IInv, Held
      <4> QED BY <1>0, <4>1 DEF Holding
    <3> QED BY <1>0, <2>9, <3>1 DEF Held, IInv
  <2>13. Private'
    <3>1. ASSUME NEW d \in Conn, conn'[d].at = "insert"
          PROVE  /\ name'[conn'[d].sess] = conn'[d].name
                 /\ \A m \in Name : sessions'[m] # conn'[d].sess
                 /\ \A e \in Conn \ {d} : conn'[e].sess # conn'[d].sess
      <4>1. d # c /\ conn'[d] = conn[d] /\ At(d, "insert")
        BY <2>9, <3>1 DEF At
      <4>2. /\ name[conn[d].sess] = conn[d].name
            /\ \A m \in Name : sessions[m] # conn[d].sess
            /\ \A e \in Conn \ {d} : conn[e].sess # conn[d].sess
            /\ conn[d].sess # s /\ conn[d].sess # NoSession /\ conn[d].sess \in Sessions
        BY <4>1, HeldThen DEF Private, IInv, s, Holding, At
      <4> QED BY <2>2, <2>3, <2>9, <4>1, <4>2
    <3> QED BY <3>1 DEF Private, At
  <2>14. StopsWhenEmpty'
    BY <1>1, <2>2 DEF StopsWhenEmpty, Registered
  <2> QED BY <2>7, <2>8, <2>10, <2>11, <2>12, <2>13, <2>14 DEF IInv
<1> QED BY <1>4, <1>5

-----------------------------------------------------------------------------
LEMMA StepInvariant == IInv /\ [Next]_vars => IInv'
PROOF
<1> SUFFICES ASSUME IInv, [Next]_vars PROVE IInv'
  OBVIOUS
<1>1. CASE UNCHANGED vars
  <2>1. UNCHANGED <<registryVars, up, sessionVars, reaper, conn, clients, view>>
    BY <1>1 DEF vars, clientVars
  <2> QED BY <2>1, ViewStep DEF IInv, TypeOK
<1>2. ASSUME NEW c \in Conn, Request(c) PROVE IInv'
  <2>1. CASE stepClientSession(c)
    BY <2>1, StepClientInvariant
  <2>2. CASE removeClient(c)
    BY <2>2, ClientInvariant
  <2>3. CASE killServer(c)
    BY <2>3, QuitInvariant DEF killServer
  <2>4. CASE \E n \in Name : attach(c, n)
    BY <2>4, LookupInvariant
  <2>5. CASE \E n, new \in Name :
               cmdNewSession(c, n) \/ cmdKillSession(c, n) \/ resolveRename(c, n, new)
    BY <2>5, LookingInvariant
  <2> QED BY <1>2, <2>1, <2>2, <2>3, <2>4, <2>5 DEF Request
<1>3. ASSUME NEW c \in Conn, Attaching(c) PROVE IInv'
  <2>1. CASE lookup(c)
    <3>1. conn[c].name \in Name
      BY <2>1, HeldThen DEF lookup, At, Holding
    <3> QED BY <2>1, <3>1, LookupInvariant
  <2>2. CASE insert(c)
    BY <2>2, InsertInvariant
  <2>3. CASE newClient(c) \/ addClient(c) \/ moveClient(c)
    BY <2>3, ClientInvariant
  <2> QED BY <1>3, <2>1, <2>2, <2>3 DEF Attaching
<1>4. ASSUME NEW c \in Conn, Finishing(c) PROVE IInv'
  BY <1>4, ShutdownInvariant, EmptiedByKillInvariant, QuitInvariant, RenameInvariant
  DEF Finishing, quitAfterKill
<1>5. ASSUME NEW s \in Sessions, lastExit(s) \/ Reaping(s) PROVE IInv'
  BY <1>5, OwnEndInvariant, EmptiedByReaperInvariant, QuitInvariant
  DEF Reaping, quitAfterReap
<1> QED BY <1>1, <1>2, <1>3, <1>4, <1>5 DEF Next

LEMMA SpecInvariant == Spec => []IInv
BY InitInvariant, StepInvariant, PTL DEF Spec

(* Every variable of the registry keeps its type, and the order of the     *)
(* sessions never holds a name twice, however their creators race.         *)
THEOREM RegistryTypes == Spec => []TypeOK
PROOF
<1>1. IInv => TypeOK
  BY DEF IInv
<1> QED BY <1>1, SpecInvariant, PTL

(* However attaches, kills, renames and exits interleave, a session is     *)
(* registered under the name it bears and the order has registered names   *)
(* only.                                                                   *)
THEOREM RegistryNames == Spec => []Coherent
PROOF
<1>1. IInv => Coherent
  BY DEF IInv, Coherent
<1> QED BY <1>1, SpecInvariant, PTL

(* A registry that has emptied has a goroutine about to stop the daemon.   *)
THEOREM RegistryStops == Spec => []StopsWhenEmpty
PROOF
<1>1. IInv => StopsWhenEmpty
  BY DEF IInv
<1> QED BY <1>1, SpecInvariant, PTL
=============================================================================
