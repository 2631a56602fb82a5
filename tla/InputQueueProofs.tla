--------------------------- MODULE InputQueueProofs ---------------------------
(* Proofs about InputQueue for any set of callers and any bounds. *)
EXTENDS InputQueue, SequenceTheorems, WellFoundedInduction, TLAPS

-----------------------------------------------------------------------------
(* Induction.  The library's principles have an operator as a parameter,   *)
(* which no prover here can instantiate; the ones below speak of the set   *)
(* of the numbers that have the property instead.                          *)
Less == {p \in Nat \X Nat : p[1] < p[2]}

(* The least-number principle, from the well-foundedness of <. *)
LEMMA LeastNatural ==
  ASSUME NEW T \in SUBSET Nat, T # {}
  PROVE  \E m \in T : \A k \in T : m <= k
PROOF
<1>1. IsWellFoundedOn(Less, Nat)
  BY NatLessThanWellFounded DEF OpToRel, Less
<1>2. PICK m \in T : \A k \in T : ~(<<k, m>> \in Less)
  BY <1>1, WFMin
<1>3. ASSUME NEW k \in T PROVE m <= k
  <2>1. m \in Nat /\ k \in Nat
    OBVIOUS
  <2>2. k < m => <<k, m>> \in Less
    BY <2>1 DEF Less
  <2>3. ~(k < m)
    BY <1>2, <2>2
  <2> QED BY <2>1, <2>3
<1> QED BY <1>3

(* Induction from 0 up to n. *)
LEMMA SetInduction ==
  ASSUME NEW n \in Nat, NEW T, 0 \in T, \A i \in 1..n : i - 1 \in T => i \in T
  PROVE  0..n \subseteq T
PROOF
<1> DEFINE Out == {i \in 0..n : i \notin T}
<1> SUFFICES ASSUME Out # {} PROVE FALSE
  OBVIOUS
<1>0. Out \in SUBSET Nat
  OBVIOUS
<1>1. PICK m \in Out : \A k \in Out : m <= k
  <2> HIDE DEF Out
  <2> QED BY <1>0, LeastNatural
<1>2. m \in 1..n /\ m - 1 \in 0..n
  BY <1>1
<1>3. m - 1 \in Out
  BY <1>1, <1>2
<1> QED BY <1>1, <1>2, <1>3

(* From 0 up to n, h does k further what g does, or keeps its distance. *)
GrowsAlike(g, h, n, k) == \A i \in 1..n : h[i + k] - h[i + k - 1] = g[i] - g[i - 1]
Apart(g, h, n, k, c) == \A i \in 0..n : h[i + k] = g[i] + c

(* Two functions that grow by the same steps stay apart by what they start apart. *)
LEMMA SameSteps ==
  ASSUME NEW n \in Nat, NEW k \in Nat, NEW m \in Nat, n + k <= m, NEW c \in Int,
         NEW g \in [0..n -> Int], NEW h \in [0..m -> Int],
         h[k] = g[0] + c, GrowsAlike(g, h, n, k)
  PROVE  Apart(g, h, n, k, c)
PROOF
<1> DEFINE T == {i \in 0..n : h[i + k] = g[i] + c}
<1>1. 0 \in T
  OBVIOUS
<1>2. ASSUME NEW i \in 1..n, i - 1 \in T PROVE i \in T
  <2> DEFINE p == h[i + k]
             q == h[i + k - 1]
             r == g[i]
             t == g[i - 1]
  <2>1. q = t + c
    <3>1. h[(i - 1) + k] = t + c /\ (i - 1) + k = i + k - 1
      BY <1>2
    <3> QED BY <3>1
  <2>2. i - 1 \in 0..n /\ i + k \in 0..m /\ i + k - 1 \in 0..m /\ i \in 0..n
    OBVIOUS
  <2>3. p \in Int /\ q \in Int /\ r \in Int /\ t \in Int /\ p - q = r - t
    BY <2>2 DEF GrowsAlike
  <2>4. p = r + c
    <3> HIDE DEF p, q, r, t
    <3> QED BY <2>1, <2>3
  <2> QED BY <2>2, <2>4
<1> HIDE DEF T
<1>3. 0..n \subseteq T
  BY <1>1, <1>2, SetInduction
<1> QED BY <1>3 DEF T, Apart

(* A sum of n numbers, defined by recursion, is defined. *)
LEMMA SumIsDefined ==
  ASSUME NEW n \in Nat, NEW v \in [1..n -> Nat]
  PROVE  \E g \in [0..n -> Nat] :
           g = [i \in 0..n |-> IF i = 0 THEN 0 ELSE g[i - 1] + v[i]]
PROOF
<1> DEFINE Sums(g, m) == g = [i \in 0..m |-> IF i = 0 THEN 0 ELSE g[i - 1] + v[i]]
           T == {m \in 0..n : \E g \in [0..m -> Nat] : Sums(g, m)}
<1>1. 0 \in T
  <2>1. [i \in 0..0 |-> 0] \in [0..0 -> Nat] /\ Sums([i \in 0..0 |-> 0], 0)
    OBVIOUS
  <2>2. 0 \in 0..n
    OBVIOUS
  <2> HIDE DEF Sums
  <2> QED BY <2>1, <2>2
<1>2. ASSUME NEW m \in 1..n, m - 1 \in T PROVE m \in T
  <2>1. PICK g \in [0..(m - 1) -> Nat] : Sums(g, m - 1)
    BY <1>2
  <2> DEFINE h == [i \in 0..m |-> IF i = m THEN g[m - 1] + v[m] ELSE g[i]]
  <2>2. m - 1 \in 0..(m - 1) /\ \A i \in 0..m : i # m => i \in 0..(m - 1)
    OBVIOUS
  <2>3. h \in [0..m -> Nat]
    BY <2>2
  <2>4. ASSUME NEW i \in 0..m PROVE h[i] = IF i = 0 THEN 0 ELSE h[i - 1] + v[i]
    <3>1. CASE i = m
      <4>1. h[i] = g[m - 1] + v[m] /\ i # 0 /\ h[i - 1] = g[m - 1]
        BY <3>1
      <4> QED BY <3>1, <4>1
    <3>2. CASE i # m
      <4>1. i \in 0..(m - 1) /\ h[i] = g[i]
        BY <3>2
      <4>2. g[i] = IF i = 0 THEN 0 ELSE g[i - 1] + v[i]
        BY <2>1, <4>1
      <4>3. i # 0 => i - 1 \in 0..m /\ i - 1 # m /\ h[i - 1] = g[i - 1]
        BY <3>2
      <4> HIDE DEF h
      <4> QED BY <4>1, <4>2, <4>3
    <3> QED BY <3>1, <3>2
  <2>5. Sums(h, m)
    <3> HIDE DEF h
    <3> QED BY <2>3, <2>4
  <2>6. m \in 0..n
    OBVIOUS
  <2> HIDE DEF h, Sums
  <2> QED BY <2>3, <2>5, <2>6
<1> HIDE DEF T
<1>3. 0..n \subseteq T
  BY <1>1, <1>2, SetInduction
<1>4. n \in T
  BY <1>3
<1> QED BY <1>4 DEF T

(* And a natural number at each of its steps. *)
LEMMA SumIsNat ==
  ASSUME NEW n \in Nat, NEW v \in [1..n -> Nat], NEW f,
         f = [i \in 0..n |-> IF i = 0 THEN 0 ELSE f[i - 1] + v[i]]
  PROVE  f \in [0..n -> Nat]
PROOF
<1> DEFINE T == {i \in 0..n : f[i] \in Nat}
<1>1. 0 \in T
  OBVIOUS
<1>2. ASSUME NEW i \in 1..n, i - 1 \in T PROVE i \in T
  <2>1. f[i] = f[i - 1] + v[i] /\ f[i - 1] \in Nat /\ v[i] \in Nat
    BY <1>2
  <2> QED BY <2>1
<1> HIDE DEF T
<1>3. 0..n \subseteq T
  BY <1>1, <1>2, SetInduction
<1>4. \A i \in 0..n : f[i] \in Nat
  BY <1>3 DEF T
<1> QED BY <1>4

-----------------------------------------------------------------------------

(* What a goroutine pushed later has a higher number. *)
Sorted(s) ==
  \A i, j \in DOMAIN s : i < j /\ s[i].from = s[j].from => s[i].nth < s[j].nth

Precedes(s, t) ==
  \A i \in DOMAIN s, j \in DOMAIN t : s[i].from = t[j].from => s[i].nth < t[j].nth

Issued(s) == \A i \in DOMAIN s : s[i].nth <= pushed[s[i].from]

Types ==
  /\ chunks \in Seq(Chunk) /\ current \in Seq(Chunk) /\ pty \in Seq(Chunk)
  /\ pushed \in [Caller -> 0..MaxPush]
  /\ caller \in [Caller -> {"ready", "signalling"}]
  /\ started \in BOOLEAN /\ closed \in BOOLEAN

WriterHolds ==
  /\ writer = "writing" => Len(current) = 1
  /\ writer # "none" => started

InLine ==
  /\ Sorted(pty) /\ Sorted(Held) /\ Sorted(chunks)
  /\ Precedes(pty, Held) /\ Precedes(pty, chunks) /\ Precedes(Held, chunks)
  /\ Issued(pty) /\ Issued(Held) /\ Issued(chunks)

IInv == Types /\ WriterHolds /\ NoLostWakeup /\ InLine

-----------------------------------------------------------------------------
LEMMA ChunkFields ==
  ASSUME NEW s \in Seq(Chunk)
  PROVE  \A i \in DOMAIN s : s[i].from \in Caller /\ s[i].nth \in Int
PROOF
<1>1. \A c \in Chunk : c.from \in Caller /\ c.nth \in Int
  BY InputQueueAssumption DEF Chunk
<1> QED BY <1>1

LEMMA HeldType == ASSUME Types PROVE Held \in Seq(Chunk)
BY DEF Types, Held

LEMMA InitInvariant == Init => IInv
PROOF
<1> SUFFICES ASSUME Init PROVE IInv
  OBVIOUS
<1> USE InputQueueAssumption DEF Init
<1>1. chunks = <<>> /\ current = <<>> /\ pty = <<>> /\ Held = <<>>
  BY DEF Held
<1>2. Types
  <2>1. /\ pushed \in [Caller -> 0..MaxPush]
        /\ caller \in [Caller -> {"ready", "signalling"}]
    OBVIOUS
  <2>2. started \in BOOLEAN /\ closed \in BOOLEAN
    BY Zenon
  <2> HIDE DEF Init
  <2> QED BY <1>1, <2>1, <2>2 DEF Types
<1>3. WriterHolds /\ NoLostWakeup
  BY DEF WriterHolds, NoLostWakeup
<1>4. InLine
  BY <1>1 DEF InLine, Sorted, Precedes, Issued
<1> QED BY <1>2, <1>3, <1>4 DEF IInv

(* A step that moves no chunk. *)
LEMMA StillInvariant ==
  ASSUME IInv, UNCHANGED <<chunks, pty, pushed, started>>, Held' = Held,
         current' \in Seq(Chunk), closed' \in BOOLEAN,
         caller' \in [Caller -> {"ready", "signalling"}],
         WriterHolds', NoLostWakeup'
  PROVE  IInv'
PROOF
<1>1. Types'
  BY DEF IInv, Types
<1>2. InLine'
  BY DEF IInv, InLine, Sorted, Precedes, Issued
<1> QED BY <1>1, <1>2 DEF IInv

LEMMA PushInvariant ==
  ASSUME IInv, NEW c \in Caller, NEW n \in Sizes, push(c, n)
  PROVE  IInv'
PROOF
<1> USE DEF push, ptyVars
<1>1. Types /\ WriterHolds /\ NoLostWakeup /\ InLine
  BY DEF IInv
<1>2. /\ pushed' = [pushed EXCEPT ![c] = @ + 1]
      /\ pushed' \in [Caller -> 0..MaxPush] /\ pushed'[c] = pushed[c] + 1
      /\ \A d \in Caller : pushed[d] <= pushed'[d]
      /\ \A d \in Caller : pushed[d] \in Nat /\ pushed'[d] \in Nat
  BY <1>1, InputQueueAssumption DEF Types
<1> DEFINE e == [from |-> c, nth |-> pushed'[c], len |-> n]
<1>3. e \in Chunk
  BY <1>1, <1>2, InputQueueAssumption DEF Chunk, Types
<1>4. UNCHANGED <<current, pty, closed>>
  OBVIOUS
<1>5. CASE ~closed /\ fits(n)
  <2>1. /\ chunks' = Append(chunks, e) /\ started' = TRUE
        /\ writer' = (IF started THEN writer ELSE "checking")
        /\ caller' = [caller EXCEPT ![c] = "signalling"]
    BY <1>5
  <2> HIDE DEF push
  <2>2. Held' = Held
    BY <1>1, <1>4, <2>1 DEF Held, WriterHolds
  <2>3. /\ chunks' \in Seq(Chunk) /\ Len(chunks') = Len(chunks) + 1
        /\ chunks'[Len(chunks) + 1] = e
        /\ \A i \in 1..Len(chunks) : chunks'[i] = chunks[i]
        /\ Len(chunks) \in Nat
        /\ DOMAIN chunks' = 1..(Len(chunks) + 1) /\ DOMAIN chunks = 1..Len(chunks)
    BY <1>1, <1>3, <2>1 DEF Types
  <2>4. e.from = c /\ e.nth = pushed'[c]
    OBVIOUS
  <2> HIDE DEF e
  <2>5. Types'
    BY <1>1, <1>2, <1>4, <2>1, <2>3 DEF Types
  <2>6. WriterHolds' /\ NoLostWakeup'
    <3>1. caller'[c] = "signalling"
      BY <1>1, <2>1 DEF Types
    <3> QED BY <1>1, <1>4, <2>1, <3>1 DEF WriterHolds, NoLostWakeup
  <2>7. ASSUME NEW s \in Seq(Chunk), Issued(s)
        PROVE  \A i \in DOMAIN s : /\ s[i].nth <= pushed'[s[i].from]
                                   /\ s[i].from = c => s[i].nth < pushed'[c]
    <3>1. \A i \in DOMAIN s : s[i].from \in Caller /\ s[i].nth \in Int
      BY ChunkFields
    <3> QED BY <1>1, <1>2, <2>7, <3>1 DEF Issued
  <2>8. Issued(chunks) /\ Issued(Held) /\ Issued(pty) /\ Held \in Seq(Chunk)
        /\ chunks \in Seq(Chunk) /\ pty \in Seq(Chunk)
    BY <1>1, HeldType DEF InLine, Types
  <2>9. Issued(chunks)' /\ Issued(Held)' /\ Issued(pty)'
    <3>1. Issued(Held)' /\ Issued(pty)'
      BY <1>4, <2>2, <2>7, <2>8 DEF Issued
    <3>2. \A i \in DOMAIN chunks : chunks[i].nth <= pushed'[chunks[i].from]
      BY <2>7, <2>8
    <3>3. pushed'[c] <= pushed'[c]
      BY <1>2
    <3> QED BY <2>3, <2>4, <3>1, <3>2, <3>3 DEF Issued
  <2>10. Sorted(chunks)' /\ Sorted(pty)' /\ Sorted(Held)'
    <3>1. Sorted(chunks) /\ Sorted(pty) /\ Sorted(Held)
      BY <1>1 DEF InLine
    <3>2. \A i \in DOMAIN chunks : chunks[i].from = c => chunks[i].nth < pushed'[c]
      BY <2>7, <2>8
    <3>3. Sorted(chunks)'
      <4> SUFFICES ASSUME NEW i \in DOMAIN chunks', NEW j \in DOMAIN chunks',
                          i < j, chunks'[i].from = chunks'[j].from
                   PROVE  chunks'[i].nth < chunks'[j].nth
        BY DEF Sorted
      <4>1. i \in DOMAIN chunks /\ chunks'[i] = chunks[i]
        BY <2>3
      <4>2. CASE j \in DOMAIN chunks
        BY <2>3, <3>1, <4>1, <4>2 DEF Sorted
      <4>3. CASE j = Len(chunks) + 1
        BY <2>3, <2>4, <3>2, <4>1, <4>3
      <4> QED BY <2>3, <4>2, <4>3
    <3> QED BY <1>4, <2>2, <3>1, <3>3 DEF Sorted
  <2>11. Precedes(pty, chunks)' /\ Precedes(pty, Held)' /\ Precedes(Held, chunks)'
    <3>1. Precedes(pty, chunks) /\ Precedes(pty, Held) /\ Precedes(Held, chunks)
      BY <1>1 DEF InLine
    <3>2. \A i \in DOMAIN pty : pty[i].from = c => pty[i].nth < pushed'[c]
      BY <2>7, <2>8
    <3>3. \A i \in DOMAIN Held : Held[i].from = c => Held[i].nth < pushed'[c]
      BY <2>7, <2>8
    <3> QED BY <1>4, <2>2, <2>3, <2>4, <3>1, <3>2, <3>3 DEF Precedes
  <2> QED BY <2>5, <2>6, <2>9, <2>10, <2>11 DEF IInv, InLine
<1>6. CASE ~(~closed /\ fits(n))
  <2>1. UNCHANGED <<chunks, writer, caller, wake, closer, started>>
    BY <1>6
  <2> HIDE DEF push
  <2>2. Held' = Held
    BY <1>4, <2>1 DEF Held
  <2>3. Types' /\ WriterHolds' /\ NoLostWakeup'
    BY <1>1, <1>2, <1>4, <2>1 DEF Types, WriterHolds, NoLostWakeup
  <2>4. ASSUME NEW s \in Seq(Chunk), Issued(s)
        PROVE  \A i \in DOMAIN s : s[i].nth <= pushed'[s[i].from]
    <3>1. \A i \in DOMAIN s : s[i].from \in Caller /\ s[i].nth \in Int
      BY ChunkFields
    <3> QED BY <1>1, <1>2, <2>4, <3>1 DEF Issued
  <2>5. Issued(chunks)' /\ Issued(Held)' /\ Issued(pty)'
    BY <1>1, <1>4, <2>1, <2>2, <2>4, HeldType DEF Issued, InLine, Types
  <2>6. InLine'
    BY <1>1, <1>4, <2>1, <2>2, <2>5 DEF InLine, Sorted, Precedes
  <2> QED BY <2>3, <2>6 DEF IInv
<1> QED BY <1>5, <1>6

LEMMA SignalInvariant ==
  ASSUME IInv, signalClose \/ closePty \/ \E c \in Caller : signalPush(c)
  PROVE  IInv'
PROOF
<1>1. Types /\ WriterHolds /\ NoLostWakeup
  BY DEF IInv
<1>2. UNCHANGED <<queueVars, writerVars, pushed, pty>>
  BY DEF signalClose, closePty, signalPush, callerVars, ptyVars
<1>3. Held' = Held /\ current' \in Seq(Chunk) /\ closed' \in BOOLEAN /\ WriterHolds'
  BY <1>1, <1>2 DEF Held, writerVars, queueVars, Types, WriterHolds
<1>4. caller' \in [Caller -> {"ready", "signalling"}]
  BY <1>1 DEF signalClose, closePty, signalPush, callerVars, Types
<1>5. NoLostWakeup'
  <2>1. CASE wake' = 1
    BY <2>1 DEF NoLostWakeup
  <2>2. CASE closePty
    BY <1>1, <2>2 DEF closePty, NoLostWakeup, queueVars, writerVars, callerVars
  <2> QED BY <2>1, <2>2 DEF signalClose, signalPush, signal
<1> QED BY <1>2, <1>3, <1>4, <1>5, StillInvariant DEF queueVars

LEMMA IdleWriterInvariant ==
  ASSUME IInv, exit \/ sleep \/ awake \/ settle
  PROVE  IInv'
PROOF
<1>1. Types /\ WriterHolds /\ NoLostWakeup
  BY DEF IInv
<1>2. /\ UNCHANGED <<chunks, pty, pushed, started, closed, caller, closer>>
      /\ writer # "writing" /\ writer' # "writing" /\ writer # "none"
      /\ current' \in {current, <<>>}
  BY DEF exit, sleep, awake, settle, queueVars, callerVars, ptyVars
<1>3. Held' = Held /\ WriterHolds'
  BY <1>1, <1>2 DEF Held, WriterHolds
<1>4. current' \in Seq(Chunk) /\ closed' \in BOOLEAN
      /\ caller' \in [Caller -> {"ready", "signalling"}]
  <2>1. current \in Seq(Chunk) /\ <<>> \in Seq(Chunk)
    BY <1>1 DEF Types
  <2>2. current' \in Seq(Chunk)
    BY <1>2, <2>1
  <2> QED BY <1>1, <1>2, <2>2 DEF Types
<1>5. NoLostWakeup'
  <2>1. writer' = "waiting" => sleep
    BY DEF exit, sleep, awake, settle
  <2>2. sleep => ~closed' /\ chunks' = <<>>
    BY DEF sleep, queueVars
  <2> QED BY <2>1, <2>2 DEF NoLostWakeup
<1> QED BY <1>2, <1>3, <1>4, <1>5, StillInvariant

LEMMA TakeInvariant == IInv /\ take => IInv'
PROOF
<1> SUFFICES ASSUME IInv, take PROVE IInv'
  OBVIOUS
<1>1. Types /\ WriterHolds /\ NoLostWakeup /\ InLine
  BY DEF IInv
<1>2. /\ UNCHANGED <<pty, pushed, started, closed, caller>>
      /\ chunks # <<>> /\ writer = "checking" /\ writer' = "writing"
      /\ current' = <<Head(chunks)>> /\ chunks' = Tail(chunks)
  BY DEF take, line, callerVars, ptyVars
<1>3. /\ current' \in Seq(Chunk) /\ Len(current') = 1 /\ current'[1] = chunks[1]
      /\ chunks' \in Seq(Chunk)
      /\ \A i \in DOMAIN chunks' : i + 1 \in DOMAIN chunks /\ chunks'[i] = chunks[i + 1]
      /\ 1 \in DOMAIN chunks /\ DOMAIN chunks' \subseteq Nat \ {0}
  BY <1>1, <1>2 DEF Types
<1>4. Held' = current' /\ DOMAIN Held' = {1} /\ Held'[1] = chunks[1]
  BY <1>2, <1>3 DEF Held
<1>5. Types' /\ WriterHolds' /\ NoLostWakeup'
  BY <1>1, <1>2, <1>3 DEF Types, WriterHolds, NoLostWakeup
<1>6. /\ Sorted(pty) /\ Sorted(chunks) /\ Precedes(pty, chunks)
      /\ Issued(pty) /\ Issued(chunks)
  BY <1>1 DEF InLine
<1>7. Sorted(pty)' /\ Sorted(Held)' /\ Sorted(chunks)'
  BY <1>2, <1>3, <1>4, <1>6 DEF Sorted
<1>8. Precedes(pty, Held)' /\ Precedes(pty, chunks)'
  BY <1>2, <1>3, <1>4, <1>6 DEF Precedes
<1>9. Precedes(Held, chunks)'
  BY <1>3, <1>4, <1>6 DEF Sorted, Precedes
<1>10. Issued(pty)' /\ Issued(Held)' /\ Issued(chunks)'
  BY <1>2, <1>3, <1>4, <1>6 DEF Issued
<1> QED BY <1>5, <1>7, <1>8, <1>9, <1>10 DEF IInv, InLine

LEMMA WriteInvariant == IInv /\ (written \/ writeFailed) => IInv'
PROOF
<1> SUFFICES ASSUME IInv, written \/ writeFailed PROVE IInv'
  OBVIOUS
<1>1. Types /\ WriterHolds /\ NoLostWakeup /\ InLine
  BY DEF IInv
<1>2. /\ UNCHANGED <<chunks, current, pushed, started, closed, caller>>
      /\ writer = "writing" /\ writer' = "settling"
      /\ pty' = pty \o current \/ pty' = pty
  BY DEF written, writeFailed, queueVars, callerVars, ptyVars
<1>3. Held = current /\ Held' = <<>> /\ Len(current) = 1
  BY <1>1, <1>2 DEF Held, WriterHolds
<1>4. /\ Sorted(pty) /\ Sorted(chunks) /\ Precedes(pty, chunks) /\ Precedes(pty, current)
      /\ Precedes(current, chunks) /\ Issued(pty) /\ Issued(chunks) /\ Issued(current)
  BY <1>1, <1>3 DEF InLine
<1>5. /\ pty' \in Seq(Chunk)
      /\ \A i \in DOMAIN pty' : \/ i \in DOMAIN pty /\ pty'[i] = pty[i]
                                \/ i = Len(pty) + 1 /\ pty'[i] = current[1]
      /\ 1 \in DOMAIN current /\ DOMAIN pty = 1..Len(pty) /\ Len(pty) \in Nat
  <2>1. pty \in Seq(Chunk) /\ current \in Seq(Chunk)
    BY <1>1 DEF Types
  <2>2. /\ pty \o current \in Seq(Chunk) /\ Len(pty \o current) = Len(pty) + 1
        /\ \A i \in 1..Len(pty) : (pty \o current)[i] = pty[i]
        /\ (pty \o current)[Len(pty) + 1] = current[1]
    BY <1>3, <2>1, ConcatProperties
  <2> HIDE DEF IInv
  <2>3. CASE pty' = pty \o current
    BY <1>3, <2>1, <2>2, <2>3
  <2>4. CASE pty' = pty
    BY <1>3, <2>1, <2>4
  <2> QED BY <1>2, <2>3, <2>4
<1>6. Types' /\ WriterHolds' /\ NoLostWakeup'
  BY <1>1, <1>2, <1>5 DEF Types, WriterHolds, NoLostWakeup
<1>7. Sorted(pty)'
  <2> SUFFICES ASSUME NEW i \in DOMAIN pty', NEW j \in DOMAIN pty',
                      i < j, pty'[i].from = pty'[j].from
               PROVE  pty'[i].nth < pty'[j].nth
    BY DEF Sorted
  <2>1. i \in DOMAIN pty /\ pty'[i] = pty[i]
    BY <1>5
  <2>2. CASE j \in DOMAIN pty /\ pty'[j] = pty[j]
    BY <1>4, <2>1, <2>2 DEF Sorted
  <2>3. CASE pty'[j] = current[1]
    BY <1>4, <1>5, <2>1, <2>3 DEF Precedes
  <2> QED BY <1>5, <2>2, <2>3
<1>8. Precedes(pty, chunks)'
  <2>1. ASSUME NEW i \in DOMAIN pty', NEW j \in DOMAIN chunks, pty'[i].from = chunks[j].from
        PROVE  pty'[i].nth < chunks[j].nth
    BY <1>4, <1>5, <2>1 DEF Precedes
  <2> QED BY <1>2, <2>1 DEF Precedes
<1>9. Sorted(chunks)' /\ Issued(chunks)' /\ Issued(pty)'
  BY <1>2, <1>4, <1>5 DEF Sorted, Issued
<1>10. Sorted(Held)' /\ Precedes(pty, Held)' /\ Precedes(Held, chunks)' /\ Issued(Held)'
  BY <1>3 DEF Sorted, Precedes, Issued
<1> QED BY <1>6, <1>7, <1>8, <1>9, <1>10 DEF IInv, InLine

LEMMA CloseInvariant == IInv /\ close => IInv'
PROOF
<1> SUFFICES ASSUME IInv, close PROVE IInv'
  OBVIOUS
<1>1. Types /\ WriterHolds /\ NoLostWakeup /\ InLine
  BY DEF IInv
<1>2. /\ UNCHANGED <<started, writer, current, pushed, caller, pty>>
      /\ chunks' = <<>> /\ closed' = TRUE
      /\ closer' = IF started THEN "signalling" ELSE "closing"
  BY DEF close, writerVars, callerVars, ptyVars
<1>3. Held' = Held
  BY <1>2 DEF Held
<1>4. Types'
  <2>1. closed' \in BOOLEAN
    BY <1>2, Zenon
  <2> QED BY <1>1, <1>2, <2>1 DEF Types
<1>5. WriterHolds' /\ NoLostWakeup'
  BY <1>1, <1>2 DEF WriterHolds, NoLostWakeup
<1>6. InLine'
  <2>1. Sorted(chunks)' /\ Precedes(pty, chunks)' /\ Precedes(Held, chunks)' /\ Issued(chunks)'
    BY <1>2 DEF Sorted, Precedes, Issued
  <2>2. Sorted(pty)' /\ Sorted(Held)' /\ Precedes(pty, Held)' /\ Issued(pty)' /\ Issued(Held)'
    BY <1>1, <1>2, <1>3 DEF InLine, Sorted, Precedes, Issued
  <2> QED BY <2>1, <2>2 DEF InLine
<1> QED BY <1>4, <1>5, <1>6 DEF IInv

LEMMA StepInvariant == IInv /\ [Next]_vars => IInv'
PROOF
<1> SUFFICES ASSUME IInv, [Next]_vars PROVE IInv'
  OBVIOUS
<1>1. CASE UNCHANGED vars
  <2>1. Types /\ WriterHolds /\ NoLostWakeup
    BY DEF IInv
  <2>2. UNCHANGED <<queueVars, wake, writerVars, callerVars, closer, ptyVars>>
    BY <1>1 DEF vars
  <2> USE DEF queueVars, writerVars, callerVars, ptyVars
  <2>3. Held' = Held /\ current' \in Seq(Chunk) /\ closed' \in BOOLEAN
        /\ caller' \in [Caller -> {"ready", "signalling"}]
    BY <2>1, <2>2 DEF Held, Types
  <2>4. WriterHolds' /\ NoLostWakeup'
    BY <2>1, <2>2 DEF WriterHolds, NoLostWakeup
  <2> QED BY <2>2, <2>3, <2>4, StillInvariant
<1> QED BY <1>1, PushInvariant, SignalInvariant, IdleWriterInvariant, TakeInvariant,
           WriteInvariant, CloseInvariant DEF Next, Writer, Closer

LEMMA SpecInvariant == Spec => []IInv
BY InitInvariant, StepInvariant, PTL DEF Spec

(* What a goroutine pushes reaches the child in the order it was pushed    *)
(* and no chunk twice, for any number of callers and any sizes.            *)
THEOREM InputOrder == Spec => []CallerOrder
PROOF
<1>1. IInv => CallerOrder
  BY DEF IInv, InLine, Sorted, CallerOrder
<1> QED BY <1>1, SpecInvariant, PTL

(* The writer never sleeps through a chunk or a close. *)
THEOREM InputWakeup == Spec => []NoLostWakeup
PROOF
<1>1. IInv => NoLostWakeup
  BY DEF IInv
<1> QED BY <1>1, SpecInvariant, PTL

-----------------------------------------------------------------------------
(* The byte count.  Its invariant is inductive without the others: what    *)
(* size counts beside the queue is the chunk the writer holds until it has *)
(* settled, so that one must be there exactly while it is written.         *)
InHand ==
  IF writer \in {"writing", "settling"} THEN Len(current) = 1 ELSE current = <<>>

CountInv == QueueOK /\ InHand /\ (writer # "none" => started)

(* What bytes adds up, chunk by chunk. *)
LEMMA BytesUpTo ==
  ASSUME NEW s \in Seq(Chunk)
  PROVE  \E g \in [0..Len(s) -> Nat] :
           /\ g[0] = 0 /\ bytes(s) = g[Len(s)]
           /\ \A i \in 1..Len(s) : g[i] = g[i - 1] + s[i].len
PROOF
<1> DEFINE v == [i \in 1..Len(s) |-> s[i].len]
           f == CHOOSE f : f = [i \in 0..Len(s) |-> IF i = 0 THEN 0 ELSE f[i - 1] + s[i].len]
<1>1. v \in [1..Len(s) -> Nat] /\ Len(s) \in Nat
  <2>1. \A c \in Chunk : c.len \in Nat
    BY InputQueueAssumption DEF Chunk
  <2>2. ASSUME NEW i \in 1..Len(s) PROVE s[i].len \in Nat
    <3>1. s[i] \in Chunk
      OBVIOUS
    <3> QED BY <2>1, <3>1
  <2> QED BY <2>2
<1>2. \A h : [i \in 0..Len(s) |-> IF i = 0 THEN 0 ELSE h[i - 1] + s[i].len]
               = [i \in 0..Len(s) |-> IF i = 0 THEN 0 ELSE h[i - 1] + v[i]]
  <2> HIDE DEF f
  <2> QED BY <1>1
<1>3. PICK g \in [0..Len(s) -> Nat] :
         g = [i \in 0..Len(s) |-> IF i = 0 THEN 0 ELSE g[i - 1] + v[i]]
  <2> HIDE DEF v
  <2> QED BY <1>1, SumIsDefined
<1>4. g = [i \in 0..Len(s) |-> IF i = 0 THEN 0 ELSE g[i - 1] + s[i].len]
  <2> HIDE DEF v, f
  <2> QED BY <1>2, <1>3
<1>5. f = [i \in 0..Len(s) |-> IF i = 0 THEN 0 ELSE f[i - 1] + s[i].len]
  <2> HIDE DEF v
  <2> QED BY <1>4
<1>6. bytes(s) = f[Len(s)]
  BY DEF bytes
<1> HIDE DEF f
<1>7. f = [i \in 0..Len(s) |-> IF i = 0 THEN 0 ELSE f[i - 1] + v[i]]
  <2> HIDE DEF v
  <2> QED BY <1>2, <1>5
<1>8. f \in [0..Len(s) -> Nat]
  <2> HIDE DEF v
  <2> QED BY <1>1, <1>7, SumIsNat
<1>9. f[0] = 0 /\ \A i \in 1..Len(s) : f[i] = f[i - 1] + s[i].len
  BY <1>1, <1>5
<1> QED BY <1>6, <1>8, <1>9

LEMMA BytesType ==
  /\ bytes(<<>>) = 0
  /\ \A s \in Seq(Chunk) : bytes(s) \in Nat
PROOF
<1>1. ASSUME NEW s \in Seq(Chunk) PROVE bytes(s) \in Nat /\ (s = <<>> => bytes(s) = 0)
  <2>1. PICK g \in [0..Len(s) -> Nat] : g[0] = 0 /\ bytes(s) = g[Len(s)]
    BY BytesUpTo
  <2> QED BY <2>1
<1>2. <<>> \in Seq(Chunk)
  OBVIOUS
<1> QED BY <1>1, <1>2

(* When s is the part of r behind its first k entries, the bytes up to each *)
(* entry differ by those of the first k. *)
LEMMA BytesBehind ==
  ASSUME NEW s \in Seq(Chunk), NEW r \in Seq(Chunk), NEW k \in Nat,
         Len(s) + k <= Len(r), \A i \in 1..Len(s) : r[i + k] = s[i]
  PROVE  \E h \in [0..Len(r) -> Nat] :
           /\ h[0] = 0 /\ bytes(r) = h[Len(r)]
           /\ \A i \in 1..Len(r) : h[i] = h[i - 1] + r[i].len
           /\ h[Len(s) + k] = bytes(s) + h[k]
PROOF
<1>1. PICK g \in [0..Len(s) -> Nat] :
         /\ g[0] = 0 /\ bytes(s) = g[Len(s)]
         /\ \A i \in 1..Len(s) : g[i] = g[i - 1] + s[i].len
  BY BytesUpTo
<1>2. PICK h \in [0..Len(r) -> Nat] :
         /\ h[0] = 0 /\ bytes(r) = h[Len(r)]
         /\ \A i \in 1..Len(r) : h[i] = h[i - 1] + r[i].len
  BY BytesUpTo
<1>3. /\ Len(s) \in Nat /\ Len(r) \in Nat /\ h[k] \in Int
      /\ g \in [0..Len(s) -> Int] /\ h \in [0..Len(r) -> Int]
  OBVIOUS
<1>4. ASSUME NEW i \in 1..Len(s) PROVE h[i + k] - h[i + k - 1] = g[i] - g[i - 1]
  <2> DEFINE j == i + k
             a == h[j]
             b == h[j - 1]
             c == g[i]
             d == g[i - 1]
             l == r[j].len
  <2>1. j \in 1..Len(r) /\ j \in 0..Len(r) /\ j - 1 \in 0..Len(r) /\ r[j] = s[i]
        /\ i \in 0..Len(s) /\ i - 1 \in 0..Len(s)
    OBVIOUS
  <2>2. a = b + l /\ c = d + l /\ l = s[i].len
    <3>1. l = s[i].len
      BY <2>1
    <3>2. a = b + l
      <4> HIDE DEF j
      <4> QED BY <1>2, <2>1
    <3>3. c = d + s[i].len
      BY <1>1
    <3> HIDE DEF a, b, c, d, l
    <3> QED BY <3>1, <3>2, <3>3
  <2>3. a \in Int /\ b \in Int /\ c \in Int /\ d \in Int /\ l \in Nat
    <3>1. \A e \in Chunk : e.len \in Nat
      BY InputQueueAssumption DEF Chunk
    <3>2. s[i] \in Chunk
      OBVIOUS
    <3>3. l \in Nat
      <4> HIDE DEF l
      <4> QED BY <2>2, <3>1, <3>2
    <3>4. a \in Nat /\ b \in Nat
      BY <2>1, Zenon
    <3>5. c \in Nat /\ d \in Nat
      BY <2>1, Zenon
    <3> HIDE DEF a, b, c, d
    <3> QED BY <3>3, <3>4, <3>5
  <2>4. a - b = c - d
    <3>1. a = b + l /\ c = d + l
      BY <2>2
    <3> HIDE DEF a, b, c, d, l
    <3> QED BY <2>3, <3>1
  <2> QED BY <2>4
<1>5. h[k] = g[0] + h[k]
  BY <1>1, <1>3
<1>6. \A i \in 0..Len(s) : h[i + k] = g[i] + h[k]
  <2> DEFINE n == Len(s)
             m == Len(r)
             c == h[k]
  <2>1. /\ n \in Nat /\ k \in Nat /\ m \in Nat /\ n + k <= m /\ c \in Int
        /\ g \in [0..n -> Int] /\ h \in [0..m -> Int] /\ h[k] = g[0] + c
    BY <1>3, <1>5
  <2>2. GrowsAlike(g, h, n, k)
    BY <1>4 DEF GrowsAlike
  <2> HIDE DEF n, m, c
  <2>3. Apart(g, h, n, k, c)
    BY <2>1, <2>2, SameSteps
  <2> QED BY <2>3 DEF n, c, Apart
<1>7. h[Len(s) + k] = bytes(s) + h[k]
  <2>1. Len(s) \in 0..Len(s)
    BY <1>3
  <2>2. h[Len(s) + k] = g[Len(s)] + h[k]
    BY <1>6, <2>1
  <2>3. bytes(s) = g[Len(s)]
    BY <1>1
  <2> QED BY <2>2, <2>3
<1> QED BY <1>2, <1>7

LEMMA BytesAppend ==
  ASSUME NEW s \in Seq(Chunk), NEW e \in Chunk
  PROVE  bytes(Append(s, e)) = bytes(s) + e.len
PROOF
<1> DEFINE r == Append(s, e)
<1>1. /\ r \in Seq(Chunk) /\ Len(r) = Len(s) + 1 /\ r[Len(s) + 1] = e /\ Len(s) \in Nat
      /\ 0 \in Nat /\ Len(s) + 0 <= Len(r)
      /\ \A i \in 1..Len(s) : r[i + 0] = s[i]
  OBVIOUS
<1> HIDE DEF r
<1>2. PICK h \in [0..Len(r) -> Nat] :
         /\ h[0] = 0 /\ bytes(r) = h[Len(r)]
         /\ \A i \in 1..Len(r) : h[i] = h[i - 1] + r[i].len
         /\ h[Len(s) + 0] = bytes(s) + h[0]
  BY <1>1, BytesBehind, Zenon
<1>3. bytes(s) \in Nat
  BY BytesType
<1> QED BY <1>1, <1>2, <1>3 DEF r

LEMMA BytesTail ==
  ASSUME NEW s \in Seq(Chunk), s # <<>>
  PROVE  bytes(s) = Head(s).len + bytes(Tail(s))
PROOF
<1> DEFINE t == Tail(s)
<1>1. /\ t \in Seq(Chunk) /\ Len(s) = Len(t) + 1 /\ Len(t) \in Nat /\ Head(s) = s[1]
      /\ 1 \in Nat /\ Len(t) + 1 <= Len(s)
      /\ \A i \in 1..Len(t) : s[i + 1] = t[i]
  OBVIOUS
<1>2. s[1].len \in Nat /\ bytes(t) \in Nat
  <2>1. s[1] \in Chunk
    OBVIOUS
  <2>2. \A e \in Chunk : e.len \in Nat
    BY InputQueueAssumption DEF Chunk
  <2> HIDE DEF t
  <2> QED BY <1>1, <2>1, <2>2, BytesType
<1> HIDE DEF t
<1>3. PICK h \in [0..Len(s) -> Nat] :
         /\ h[0] = 0 /\ bytes(s) = h[Len(s)]
         /\ \A i \in 1..Len(s) : h[i] = h[i - 1] + s[i].len
         /\ h[Len(t) + 1] = bytes(t) + h[1]
  BY <1>1, BytesBehind, Zenon
<1>4. h[1] = s[1].len
  BY <1>1, <1>2, <1>3
<1> QED BY <1>1, <1>2, <1>3, <1>4 DEF t

LEMMA InitCount == Init => CountInv
PROOF
<1> SUFFICES ASSUME Init PROVE CountInv
  OBVIOUS
<1> USE DEF Init
<1>1. pushed \in [Caller -> 0..MaxPush] /\ caller \in [Caller -> {"ready", "signalling"}]
  BY InputQueueAssumption
<1>2. started \in BOOLEAN /\ closed \in BOOLEAN /\ ptyOpen \in BOOLEAN
  BY Zenon
<1>3. TypeOK
  <2>1. /\ chunks \in Seq(Chunk) /\ current \in Seq(Chunk) /\ pty \in Seq(Chunk)
        /\ size \in Int /\ wake \in 0..1 /\ closer = "idle" /\ writer = "none"
    OBVIOUS
  <2> HIDE DEF Init
  <2> QED BY <1>1, <1>2, <2>1 DEF TypeOK
<1>4. SizeCounts
  BY BytesType, InputQueueAssumption DEF SizeCounts
<1> QED BY <1>3, <1>4 DEF CountInv, QueueOK, InHand

(* A step that leaves the chunks and the count alone. *)
LEMMA StillCount ==
  ASSUME CountInv,
         signalClose \/ closePty \/ exit \/ sleep \/ awake
           \/ written \/ writeFailed \/ UNCHANGED vars \/ \E c \in Caller : signalPush(c)
  PROVE  CountInv'
PROOF
<1> USE DEF queueVars, writerVars, callerVars, ptyVars
<1>1. TypeOK /\ SizeCounts /\ InHand /\ (writer # "none" => started)
  BY DEF CountInv, QueueOK
<1>2. UNCHANGED <<chunks, size, current, started, closed, pushed>>
  BY DEF signalClose, closePty, exit, sleep, awake, written, writeFailed, signalPush, vars
<1>3. InHand' /\ (writer' # "none" => started')
  BY <1>1, <1>2 DEF signalClose, closePty, exit, sleep, awake, written, writeFailed,
                    signalPush, vars, InHand
<1>4. SizeCounts'
  BY <1>1, <1>2 DEF SizeCounts
<1>5. TypeOK'
  <2>1. wake' \in 0..1
    BY <1>1 DEF signalClose, closePty, exit, sleep, awake, written, writeFailed,
                signalPush, vars, signal, TypeOK
  <2>2. writer' \in {"none", "checking", "waiting", "writing", "settling", "exited"}
        /\ closer' \in {"idle", "signalling", "closing"}
    BY <1>1 DEF signalClose, closePty, exit, sleep, awake, written, writeFailed,
                signalPush, vars, TypeOK
  <2>3. caller' \in [Caller -> {"ready", "signalling"}]
    BY <1>1 DEF signalClose, closePty, exit, sleep, awake, written, writeFailed,
                signalPush, vars, TypeOK
  <2>4. ptyOpen' \in BOOLEAN
    <3>1. ptyOpen' = ptyOpen \/ ptyOpen' = FALSE
      BY Zenon DEF signalClose, closePty, exit, sleep, awake, written, writeFailed,
                   signalPush, vars
    <3> QED BY <1>1, <3>1, Zenon DEF TypeOK
  <2>5. pty' \in Seq(Chunk)
    <3>1. pty' = pty \o current \/ pty' = pty
      BY DEF signalClose, closePty, exit, sleep, awake, written, writeFailed, signalPush, vars
    <3>2. pty \in Seq(Chunk) /\ current \in Seq(Chunk)
      BY <1>1 DEF TypeOK
    <3>3. pty \o current \in Seq(Chunk)
      BY <3>2
    <3> QED BY <3>1, <3>2, <3>3
  <2> QED BY <1>1, <1>2, <2>1, <2>2, <2>3, <2>4, <2>5 DEF TypeOK
<1> QED BY <1>3, <1>4, <1>5 DEF CountInv, QueueOK

LEMMA PushCount ==
  ASSUME CountInv, NEW c \in Caller, NEW n \in Sizes, push(c, n)
  PROVE  CountInv'
PROOF
<1> USE DEF push, ptyVars
<1>1. TypeOK /\ SizeCounts /\ InHand /\ (writer # "none" => started)
  BY DEF CountInv, QueueOK
<1>2. UNCHANGED <<closed, wake, current, closer, ptyOpen, pty>>
      /\ pushed' \in [Caller -> 0..MaxPush] /\ pushed'[c] \in 1..MaxPush
  BY <1>1, InputQueueAssumption DEF TypeOK
<1>3. CASE ~closed /\ fits(n)
  <2> DEFINE e == [from |-> c, nth |-> pushed'[c], len |-> n]
  <2>1. /\ chunks' = Append(chunks, e) /\ size' = size + n /\ started' = TRUE
        /\ writer' = (IF started THEN writer ELSE "checking")
        /\ caller' = [caller EXCEPT ![c] = "signalling"]
    BY <1>3
  <2>2. e \in Chunk /\ e.len = n
    BY <1>2 DEF Chunk
  <2> HIDE DEF push, e
  <2>3. bytes(chunks)' = bytes(chunks) + n
    BY <1>1, <2>1, <2>2, BytesAppend DEF TypeOK
  <2>4. SizeCounts'
    <3>1. bytes(chunks) \in Nat /\ bytes(current) \in Nat /\ n \in Nat /\ size \in Int
      BY <1>1, BytesType, InputQueueAssumption DEF TypeOK
    <3>2. size + n <= MaxPending
      BY <1>3 DEF fits
    <3>3. bytes(current)' = bytes(current)
      BY <1>2
    <3> QED BY <1>1, <2>1, <2>3, <3>1, <3>2, <3>3 DEF SizeCounts
  <2>5. TypeOK'
    <3>1. chunks' \in Seq(Chunk) /\ caller' \in [Caller -> {"ready", "signalling"}]
      BY <1>1, <2>1, <2>2 DEF TypeOK
    <3>2. size' \in Int
      BY <1>1, <2>1, InputQueueAssumption DEF TypeOK
    <3>3. started' \in BOOLEAN
      BY <2>1, Zenon
    <3> QED BY <1>1, <1>2, <2>1, <3>1, <3>2, <3>3 DEF TypeOK
  <2> QED BY <1>1, <1>2, <2>1, <2>4, <2>5 DEF CountInv, QueueOK, InHand
<1>4. CASE ~(~closed /\ fits(n))
  <2>1. UNCHANGED <<chunks, size, started, writer, caller>>
    BY <1>4
  <2> HIDE DEF push
  <2> QED BY <1>1, <1>2, <2>1 DEF CountInv, QueueOK, TypeOK, SizeCounts, InHand
<1> QED BY <1>3, <1>4

LEMMA TakeCount == CountInv /\ take => CountInv'
PROOF
<1> SUFFICES ASSUME CountInv, take PROVE CountInv'
  OBVIOUS
<1>1. TypeOK /\ SizeCounts /\ InHand /\ (writer # "none" => started)
  BY DEF CountInv, QueueOK
<1>2. /\ UNCHANGED <<size, started, closed, wake, pushed, caller, closer, ptyOpen, pty>>
      /\ writer = "checking" /\ writer' = "writing" /\ chunks # <<>>
      /\ current' = <<Head(chunks)>> /\ chunks' = Tail(chunks)
  BY DEF take, line, callerVars, ptyVars
<1>3. /\ chunks \in Seq(Chunk) /\ Head(chunks) \in Chunk /\ chunks' \in Seq(Chunk)
      /\ current = <<>> /\ current' = Append(<<>>, Head(chunks))
      /\ current' \in Seq(Chunk) /\ Len(current') = 1 /\ <<>> \in Seq(Chunk)
  BY <1>1, <1>2 DEF TypeOK, InHand
<1>4. bytes(chunks) = Head(chunks).len + bytes(chunks')
  BY <1>2, <1>3, BytesTail
<1>5. bytes(current') = 0 + Head(chunks).len /\ bytes(current) = 0
  BY <1>3, BytesAppend, BytesType
<1>6. SizeCounts'
  <2>1. bytes(chunks') \in Nat /\ bytes(current') \in Nat /\ bytes(chunks) \in Nat
        /\ Head(chunks).len \in Nat
    <3>1. \A e \in Chunk : e.len \in Nat
      BY InputQueueAssumption DEF Chunk
    <3>2. Head(chunks).len \in Nat
      BY <1>3, <3>1
    <3> QED BY <1>3, <3>2, BytesType
  <2>2. bytes(current') + bytes(chunks') = bytes(current) + bytes(chunks)
    BY <1>4, <1>5, <2>1
  <2> QED BY <1>1, <1>2, <2>2 DEF SizeCounts
<1>7. TypeOK'
  BY <1>1, <1>2, <1>3 DEF TypeOK
<1> QED BY <1>1, <1>2, <1>3, <1>6, <1>7 DEF CountInv, QueueOK, InHand

LEMMA SettleCount == CountInv /\ settle => CountInv'
PROOF
<1> SUFFICES ASSUME CountInv, settle PROVE CountInv'
  OBVIOUS
<1>1. TypeOK /\ SizeCounts /\ InHand /\ (writer # "none" => started)
  BY DEF CountInv, QueueOK
<1>2. /\ UNCHANGED <<chunks, started, closed, wake, pushed, caller, closer, ptyOpen, pty>>
      /\ writer = "settling" /\ writer' = "checking"
      /\ size' = size - current[1].len /\ current' = <<>>
  BY DEF settle, callerVars, ptyVars
<1>3. /\ current \in Seq(Chunk) /\ current # <<>> /\ Head(current) = current[1]
      /\ Tail(current) = <<>> /\ current[1] \in Chunk /\ <<>> \in Seq(Chunk)
  <2>1. current \in Seq(Chunk) /\ Len(current) = 1
    BY <1>1, <1>2 DEF TypeOK, InHand
  <2>2. /\ Tail(current) \in Seq(Chunk) /\ Len(Tail(current)) = 0
        /\ current # <<>> /\ Head(current) = current[1] /\ current[1] \in Chunk
    BY <2>1
  <2>3. \A s \in Seq(Chunk) : Len(s) = 0 => s = <<>>
    OBVIOUS
  <2>4. Tail(current) = <<>>
    BY <2>2, <2>3
  <2> QED BY <2>1, <2>2, <2>4
<1>4. bytes(current) = current[1].len + 0 /\ bytes(current') = 0
  BY <1>2, <1>3, BytesTail, BytesType
<1>5. current[1].len \in Nat /\ bytes(chunks) \in Nat /\ bytes(current) \in Nat
  <2>1. \A e \in Chunk : e.len \in Nat
    BY InputQueueAssumption DEF Chunk
  <2>2. current[1].len \in Nat
    BY <1>3, <2>1
  <2> QED BY <1>1, <1>3, <2>2, BytesType DEF TypeOK
<1>6. SizeCounts' /\ size' \in Int
  <2>1. bytes(chunks') = bytes(chunks) /\ size \in Int /\ MaxPending \in Int
    BY <1>1, <1>2, InputQueueAssumption DEF TypeOK
  <2> QED BY <1>1, <1>2, <1>4, <1>5, <2>1 DEF SizeCounts
<1>7. TypeOK'
  BY <1>1, <1>2, <1>3, <1>6 DEF TypeOK
<1> QED BY <1>1, <1>2, <1>6, <1>7 DEF CountInv, QueueOK, InHand

LEMMA CloseCount == CountInv /\ close => CountInv'
PROOF
<1> SUFFICES ASSUME CountInv, close PROVE CountInv'
  OBVIOUS
<1>1. TypeOK /\ SizeCounts /\ InHand /\ (writer # "none" => started)
  BY DEF CountInv, QueueOK
<1>2. /\ UNCHANGED <<started, wake, writer, current, pushed, caller, ptyOpen, pty>>
      /\ chunks' = <<>> /\ size' = size - bytes(chunks) /\ closed' = TRUE
      /\ closer' = IF started THEN "signalling" ELSE "closing"
  BY DEF close, writerVars, callerVars, ptyVars
<1>3. SizeCounts' /\ size' \in Int
  <2>1. bytes(chunks) \in Nat /\ bytes(current) \in Nat /\ size \in Int /\ MaxPending \in Int
        /\ bytes(chunks') = 0 /\ bytes(current') = bytes(current)
    BY <1>1, <1>2, BytesType, InputQueueAssumption DEF TypeOK
  <2> QED BY <1>1, <1>2, <2>1 DEF SizeCounts
<1>4. closed' \in BOOLEAN /\ chunks' \in Seq(Chunk) /\ closer' \in {"idle", "signalling", "closing"}
  <2>1. closed' \in BOOLEAN
    BY <1>2, Zenon
  <2> QED BY <1>2, <2>1
<1>5. TypeOK'
  BY <1>1, <1>2, <1>3, <1>4 DEF TypeOK
<1> QED BY <1>1, <1>2, <1>3, <1>5 DEF CountInv, QueueOK, InHand

LEMMA StepCount == CountInv /\ [Next]_vars => CountInv'
BY StillCount, PushCount, TakeCount, SettleCount, CloseCount DEF Next, Writer, Closer

(* size counts the bytes that wait and the chunk in the writer's hands,    *)
(* through refused pushes, failed writes and a close in the middle of a    *)
(* write, and stays within its cap: for any callers, sizes and capacity.   *)
THEOREM InputSize == Spec => []QueueOK
PROOF
<1>1. CountInv => QueueOK
  BY DEF CountInv
<1> QED BY <1>1, InitCount, StepCount, PTL DEF Spec

-----------------------------------------------------------------------------
(* Refinement: the line of chunks, the one being written at its head. *)
Line == Held \o chunks

LEMMA OneInFront ==
  ASSUME NEW S, NEW e \in S, NEW s \in Seq(S)
  PROVE  /\ <<e>> \o s # <<>> /\ Head(<<e>> \o s) = e /\ Tail(<<e>> \o s) = s
         /\ SubSeq(<<e>> \o s, 1, 1) = <<e>> /\ 1 \in 0..Len(<<e>> \o s)
PROOF
<1> DEFINE r == <<e>> \o s
<1>1. /\ r \in Seq(S) /\ Len(r) = Len(s) + 1 /\ r[1] = e
      /\ \A i \in 1..Len(s) : r[i + 1] = s[i]
  <2>1. /\ <<e>> \in Seq(S) /\ Len(<<e>>) = 1 /\ <<e>>[1] = e
        /\ Len(s) \in Nat
    OBVIOUS
  <2>2. /\ r \in Seq(S) /\ Len(r) = 1 + Len(s)
        /\ \A i \in 1..(1 + Len(s)) : r[i] = IF i <= 1 THEN <<e>>[i] ELSE s[i - 1]
    BY <2>1, ConcatProperties
  <2> HIDE DEF r
  <2>3. ASSUME NEW i \in 1..Len(s) PROVE r[i + 1] = s[i]
    BY <2>1, <2>2
  <2> QED BY <2>1, <2>2, <2>3
<1> HIDE DEF r
<1>2. r # <<>> /\ Head(r) = e
  BY <1>1
<1>3. Tail(r) = s
  BY <1>1
<1>4. SubSeq(r, 1, 1) = <<e>>
  <2>1. /\ SubSeq(r, 1, 1) \in Seq(S) /\ Len(SubSeq(r, 1, 1)) = 1
        /\ SubSeq(r, 1, 1)[1] = r[1]
    BY <1>1, SubSeqProperties
  <2>2. <<e>> \in Seq(S) /\ Len(<<e>>) = 1 /\ <<e>>[1] = e
    OBVIOUS
  <2> DEFINE a == SubSeq(r, 1, 1)
             b == <<e>>
  <2>3. a \in Seq(S) /\ b \in Seq(S) /\ Len(a) = 1 /\ Len(b) = 1 /\ a[1] = b[1]
    BY <1>1, <2>1, <2>2
  <2> HIDE DEF a, b
  <2>4. \A i \in 1..Len(a) : a[i] = b[i]
    BY <2>3
  <2>5. a = b
    BY <2>3, <2>4, SeqEqual
  <2> QED BY <2>5 DEF a, b
<1> QED BY <1>1, <1>2, <1>3, <1>4 DEF r

LEMMA InitRefines == Init => Pipe!Init
PROOF
<1> SUFFICES ASSUME Init PROVE Pipe!Init
  OBVIOUS
<1>1. Held = <<>> /\ chunks = <<>> /\ pty = <<>>
  BY DEF Init, Held
<1> QED BY <1>1 DEF Pipe!Init

LEMMA StepRefines == IInv /\ [Next]_vars => [Pipe!Next]_<<Line, pty>>
PROOF
<1> SUFFICES ASSUME IInv, [Next]_vars
             PROVE  Pipe!Next \/ UNCHANGED <<Line, pty>>
  OBVIOUS
<1>1. Types /\ WriterHolds /\ chunks \in Seq(Chunk) /\ current \in Seq(Chunk)
  BY DEF IInv, Types
<1>2. ASSUME Held' = Held, UNCHANGED <<chunks, pty>> PROVE UNCHANGED <<Line, pty>>
  BY <1>2 DEF Line
<1>3. ASSUME NEW c \in Caller, NEW n \in Sizes, push(c, n)
      PROVE  Pipe!Next \/ UNCHANGED <<Line, pty>>
  <2> DEFINE e == [from |-> c, nth |-> pushed'[c], len |-> n]
  <2>1. UNCHANGED <<current, pty>>
    BY <1>3 DEF push, ptyVars
  <2>2. CASE ~closed /\ fits(n)
    <3>1. chunks' = Append(chunks, e) /\ writer' = IF started THEN writer ELSE "checking"
      BY <1>3, <2>2 DEF push
    <3>2. e \in Chunk
      BY <1>1, <1>3, InputQueueAssumption DEF push, Chunk, Types
    <3>3. Held' = Held /\ Held \in Seq(Chunk)
      BY <1>1, <2>1, <3>1, HeldType DEF Held, WriterHolds
    <3> HIDE DEF e
    <3>4. Line' = Append(Line, e)
      BY <1>1, <3>1, <3>2, <3>3 DEF Line
    <3>5. Pipe!Accept
      BY <2>1, <3>2, <3>4 DEF Pipe!Accept, Line
    <3> QED BY <3>5 DEF Pipe!Next
  <2>3. CASE ~(~closed /\ fits(n))
    <3>1. UNCHANGED <<chunks, writer>>
      BY <1>3, <2>3 DEF push
    <3> QED BY <1>2, <2>1, <3>1 DEF Held
  <2> QED BY <2>2, <2>3
<1>4. CASE signalClose \/ closePty \/ \E c \in Caller : signalPush(c)
  <2>1. UNCHANGED <<queueVars, writerVars, pty>>
    BY <1>4 DEF signalClose, closePty, signalPush, callerVars, ptyVars
  <2> QED BY <1>2, <2>1 DEF queueVars, writerVars, Held
<1>5. CASE exit \/ sleep \/ awake \/ settle
  <2>1. UNCHANGED <<chunks, pty>> /\ writer # "writing" /\ writer' # "writing"
    BY <1>5 DEF exit, sleep, awake, settle, queueVars, ptyVars
  <2> QED BY <1>2, <2>1 DEF Held
<1>6. CASE take
  <2>1. /\ UNCHANGED pty /\ chunks # <<>>
        /\ Held = <<>> /\ Held' = <<Head(chunks)>> /\ chunks' = Tail(chunks)
    BY <1>6 DEF take, line, ptyVars, Held
  <2>2. Held \o chunks = chunks
    BY <1>1, <2>1
  <2>3. Held' \o chunks' = chunks
    <3>1. Head(chunks) \in Chunk /\ Tail(chunks) \in Seq(Chunk)
      BY <1>1, <2>1
    <3>2. <<Head(chunks)>> \o Tail(chunks) = chunks
      BY <1>1, <2>1
    <3> QED BY <2>1, <3>2
  <2> QED BY <2>1, <2>2, <2>3 DEF Line
<1>7. CASE written \/ writeFailed
  <2>1. /\ UNCHANGED chunks /\ writer = "writing" /\ writer' = "settling"
        /\ written => pty' = pty \o current
        /\ writeFailed => UNCHANGED pty
    BY <1>7 DEF written, writeFailed, queueVars, ptyVars
  <2>2. PICK e \in Chunk : current = <<e>>
    BY <1>1, <2>1 DEF WriterHolds
  <2>3. Line = <<e>> \o chunks /\ Line' = chunks
    BY <1>1, <2>1, <2>2 DEF Line, Held
  <2>4. Line # <<>> /\ Head(Line) = e /\ Tail(Line) = chunks
    BY <1>1, <2>3, OneInFront
  <2>5. CASE written
    <3>1. pty' = Append(pty, e)
      BY <1>1, <2>1, <2>2, <2>5 DEF Types
    <3>2. Pipe!Deliver
      BY <2>3, <2>4, <3>1 DEF Pipe!Deliver, Line
    <3> QED BY <3>2 DEF Pipe!Next
  <2>6. CASE writeFailed
    <3>1. Pipe!LoseHead
      BY <2>1, <2>3, <2>4, <2>6 DEF Pipe!LoseHead, Line
    <3> QED BY <3>1 DEF Pipe!Next
  <2> QED BY <1>7, <2>5, <2>6
<1>8. CASE close
  <2>1. UNCHANGED <<writer, current, pty>> /\ chunks' = <<>> /\ Held' = Held
    BY <1>8 DEF close, writerVars, ptyVars, Held
  <2>2. \E n \in 0..Len(Line) : Line' = SubSeq(Line, 1, n)
    <3>1. CASE writer = "writing"
      <4>1. PICK e \in Chunk : current = <<e>>
        BY <1>1, <3>1 DEF WriterHolds
      <4>2. Line = <<e>> \o chunks /\ Line' = <<e>>
        BY <2>1, <3>1, <4>1 DEF Line, Held
      <4> QED BY <1>1, <4>2, OneInFront
    <3>2. CASE writer # "writing"
      <4>1. Line = chunks /\ Line' = <<>>
        BY <1>1, <2>1, <3>2 DEF Line, Held
      <4>2. SubSeq(chunks, 1, 0) = <<>> /\ 0 \in 0..Len(chunks)
        BY <1>1
      <4> QED BY <4>1, <4>2
    <3> QED BY <3>1, <3>2
  <2>3. Pipe!Truncate
    BY <2>1, <2>2 DEF Pipe!Truncate, Line
  <2> QED BY <2>3 DEF Pipe!Next
<1>9. CASE UNCHANGED vars
  <2>1. UNCHANGED <<queueVars, writerVars, ptyVars>>
    BY <1>9 DEF vars
  <2> QED BY <1>2, <2>1 DEF queueVars, writerVars, ptyVars, Held
<1> QED BY <1>3, <1>4, <1>5, <1>6, <1>7, <1>8, <1>9 DEF Next, Writer, Closer

(* The queue implements OrderedPipe: for any callers, sizes and capacity,  *)
(* every step of the code accepts a chunk, writes the oldest, loses the    *)
(* oldest to a failed write, or drops the tail when the pane closes.       *)
THEOREM InputIsPipe == Spec => PipeSpec
PROOF
<1>1. Spec => Pipe!Init /\ [][Pipe!Next]_<<Line, pty>>
  BY InitRefines, StepRefines, SpecInvariant, PTL DEF Spec
<1> QED BY <1>1, PTL DEF PipeSpec, Pipe!Spec, Line
=============================================================================
