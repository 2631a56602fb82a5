---------------------------- MODULE TerminalProofs ----------------------------
(***************************************************************************)
(* The emulator, its ring and its frames, for screens of any size, any     *)
(* history limit and any number of steps: the screen keeps its shape, the  *)
(* ring holds the newest rows that scrolled out, no row of text is kept    *)
(* twice, and a synchronized update stays hidden.                          *)
(*                                                                         *)
(* A screen is good when its cursor and region fit it and its rows of text *)
(* are each in one place.  One lemma per handler says that it makes a good *)
(* screen of a good one; the invariant adds the ring and the kept frame.   *)
(***************************************************************************)
EXTENDS Terminal, FiniteSetTheorems, SequenceTheorems, WellFoundedInduction, TLAPS

(* Induction.  The library's principles have an operator as a parameter,   *)
(* which no prover here can instantiate; the ones below speak of the set   *)
(* of the numbers that have the property instead.                          *)
Less == {p \in Nat \X Nat : p[1] < p[2]}

(* The least-number principle, from the well-foundedness of <. *)
LEMMA LeastNatural ==
  ASSUME NEW T \in SUBSET Nat, T # {}
  PROVE  \E m \in T : \A k \in T : m <= k
PROOF
<1>1. IsWellFoundedOn(Less, Nat)
  BY NatLessThanWellFounded DEF OpToRel, Less
<1>2. PICK m \in T : \A k \in T : ~(<<k, m>> \in Less)
  BY <1>1, WFMin
<1>3. ASSUME NEW k \in T PROVE m <= k
  <2>1. m \in Nat /\ k \in Nat
    OBVIOUS
  <2>2. k < m => <<k, m>> \in Less
    BY <2>1 DEF Less
  <2>3. ~(k < m)
    BY <1>2, <2>2
  <2> QED BY <2>1, <2>3
<1> QED BY <1>3

(* Induction from 0 up to n. *)
LEMMA SetInduction ==
  ASSUME NEW n \in Nat, NEW T, 0 \in T, \A i \in 1..n : i - 1 \in T => i \in T
  PROVE  0..n \subseteq T
PROOF
<1> DEFINE Out == {i \in 0..n : i \notin T}
<1> SUFFICES ASSUME Out # {} PROVE FALSE
  OBVIOUS
<1>0. Out \in SUBSET Nat
  OBVIOUS
<1>1. PICK m \in Out : \A k \in Out : m <= k
  <2> HIDE DEF Out
  <2> QED BY <1>0, LeastNatural
<1>2. m \in 1..n /\ m - 1 \in 0..n
  BY <1>1
<1>3. m - 1 \in Out
  BY <1>1, <1>2
<1> QED BY <1>1, <1>2, <1>3

(* The greatest number of a bounded set. *)
LEMMA GreatestNatural ==
  ASSUME NEW n \in Nat, NEW T \in SUBSET (0..n), T # {}
  PROVE  \E m \in T : \A k \in T : k <= m
PROOF
<1> DEFINE U == {n - k : k \in T}
<1>1. U \in SUBSET Nat /\ U # {}
  <2>1. \A k \in T : n - k \in Nat
    OBVIOUS
  <2> QED BY <2>1
<1>2. PICK d \in U : \A e \in U : d <= e
  <2> HIDE DEF U
  <2> QED BY <1>1, LeastNatural
<1>3. PICK m \in T : d = n - m
  BY <1>2
<1>4. ASSUME NEW k \in T PROVE k <= m
  <2>1. n - k \in U /\ k \in Int /\ m \in Int
    OBVIOUS
  <2>2. d <= n - k
    <3> HIDE DEF U
    <3> QED BY <1>2, <2>1
  <2> QED BY <1>3, <2>1, <2>2
<1> QED BY <1>4

(* What is done n times over a domain is defined. *)
Iterates(g, n, D, b, F) ==
  g \in [0..n -> D] /\ g = [i \in 0..n |-> IF i = 0 THEN b ELSE F[i][g[i - 1]]]

LEMMA Iterated ==
  ASSUME NEW n \in Nat, NEW D, NEW b \in D, NEW F \in [1..n -> [D -> D]]
  PROVE  \E g : Iterates(g, n, D, b, F)
PROOF
<1> DEFINE Steps(g, m) == g = [i \in 0..m |-> IF i = 0 THEN b ELSE F[i][g[i - 1]]]
           T == {m \in 0..n : \E g \in [0..m -> D] : Steps(g, m)}
<1>1. 0 \in T
  <2>1. [i \in 0..0 |-> b] \in [0..0 -> D] /\ Steps([i \in 0..0 |-> b], 0)
    OBVIOUS
  <2>2. 0 \in 0..n
    OBVIOUS
  <2> HIDE DEF Steps
  <2> QED BY <2>1, <2>2
<1>2. ASSUME NEW m \in 1..n, m - 1 \in T PROVE m \in T
  <2>1. PICK g \in [0..(m - 1) -> D] : Steps(g, m - 1)
    BY <1>2
  <2> DEFINE h == [i \in 0..m |-> IF i = m THEN F[m][g[m - 1]] ELSE g[i]]
  <2>2. m - 1 \in 0..(m - 1) /\ \A i \in 0..m : i # m => i \in 0..(m - 1)
    OBVIOUS
  <2>3. h \in [0..m -> D]
    <3>1. g[m - 1] \in D /\ F[m] \in [D -> D]
      BY <2>2
    <3>2. F[m][g[m - 1]] \in D
      BY <3>1
    <3> QED BY <2>2, <3>2
  <2>4. ASSUME NEW i \in 0..m PROVE h[i] = IF i = 0 THEN b ELSE F[i][h[i - 1]]
    <3>1. CASE i = m
      <4>1. h[i] = F[m][g[m - 1]] /\ i # 0 /\ h[i - 1] = g[m - 1]
        BY <3>1
      <4> QED BY <3>1, <4>1
    <3>2. CASE i # m
      <4>1. i \in 0..(m - 1) /\ h[i] = g[i]
        BY <3>2
      <4>2. g[i] = IF i = 0 THEN b ELSE F[i][g[i - 1]]
        BY <2>1, <4>1
      <4>3. i # 0 => i - 1 \in 0..m /\ i - 1 # m /\ h[i - 1] = g[i - 1]
        BY <3>2
      <4> HIDE DEF h
      <4> QED BY <4>1, <4>2, <4>3
    <3> QED BY <3>1, <3>2
  <2>5. Steps(h, m)
    <3> HIDE DEF h
    <3> QED BY <2>3, <2>4
  <2>6. m \in 0..n
    OBVIOUS
  <2> HIDE DEF h, Steps
  <2> QED BY <2>3, <2>5, <2>6
<1> HIDE DEF T
<1>3. 0..n \subseteq T
  BY <1>1, <1>2, SetInduction
<1>4. n \in T
  BY <1>3
<1> QED BY <1>4 DEF T, Iterates

-----------------------------------------------------------------------------
(* Screens: the records the handlers work on.  The bounds of their parts   *)
(* are in Framed and Fits; the rows they hold are in Held.                 *)
Grid(n) == [0..(n - 1) -> Int]
Grids == UNION {Grid(n) : n \in Nat}
Cursors == [x : Int, y : Int, wrapNext : BOOLEAN, origin : BOOLEAN]

Screens ==
  [cols : Nat \ {0}, rows : Nat \ {0}, lines : Grids, alt : Grids,
   cur : Cursors, saved : Cursors, top : Int, bottom : Int,
   altOn : BOOLEAN, wrap : BOOLEAN, insert : BOOLEAN, crlf : BOOLEAN, sync : BOOLEAN,
   tabs : SUBSET Int, last : 0..2, fresh : Nat \ {0}, out : Seq(Int),
   hook : {"none", "begin", "end"}]

(* The rows, the scroll region and the tab stops are the screen's.         *)
Framed(t) ==
  /\ t.lines \in Grid(t.rows) /\ t.alt \in Grid(t.rows)
  /\ 0 <= t.top /\ t.top <= t.bottom /\ t.bottom < t.rows
  /\ t.tabs \subseteq 0..(t.cols - 1)

(* So is the cursor, and in origin mode it is inside the region.           *)
Fits(t) == Framed(t) /\ CursorOn(t, t.cur) /\ (t.cur.origin => InRegion(t))

(* Every row of text is in one place: on one of the two screens or among   *)
(* the rows about to be handed over (out), never in the scrollback (P), and *)
(* older than the next row of text (fresh).  AltText is only on the        *)
(* alternate screen, which is alt, or lines while altOn.                   *)
Held(R, lines, alt, altOn, fresh, out, P) ==
  /\ P \subseteq 1..(fresh - 1)
  /\ \A y \in R :
       /\ lines[y] >= AltText /\ lines[y] < fresh /\ lines[y] \notin P
       /\ alt[y] >= AltText /\ alt[y] < fresh /\ alt[y] \notin P
       /\ IF altOn THEN alt[y] # AltText ELSE lines[y] # AltText
  /\ \A y, z \in R :
       /\ lines[y] > Blank => lines[y] # alt[z]
       /\ y # z /\ lines[y] > Blank => lines[y] # lines[z]
       /\ y # z /\ alt[y] > Blank => alt[y] # alt[z]
  /\ \A i \in DOMAIN out :
       /\ out[i] >= Blank /\ out[i] < fresh /\ out[i] \notin P
       /\ out[i] > Blank => /\ \A y \in R : lines[y] # out[i] /\ alt[y] # out[i]
                            /\ \A j \in DOMAIN out : i # j => out[i] # out[j]

Texts(t, P) == Held(Rows(t), t.lines, t.alt, t.altOn, t.fresh, t.out, P)

(* A screen whose cursor is about to be moved, and one whose cursor is in  *)
(* its place.                                                              *)
Loose(P, s) == {t \in Screens : Framed(t) /\ Texts(t, P) /\ t.sync = s /\ t.hook = "none"}
Good(P, s) == {t \in Screens : Fits(t) /\ Texts(t, P) /\ t.sync = s /\ t.hook = "none"}

(* A new cursor leaves the rest alone.                                     *)
LEMMA CursorSet ==
  ASSUME NEW t \in Screens, NEW c \in Cursors
  PROVE  LET u == [t EXCEPT !.cur = c] IN
         /\ u \in Screens /\ u.cur = c
         /\ u.cols = t.cols /\ u.rows = t.rows /\ u.lines = t.lines /\ u.alt = t.alt
         /\ u.saved = t.saved /\ u.top = t.top /\ u.bottom = t.bottom /\ u.altOn = t.altOn
         /\ u.wrap = t.wrap /\ u.insert = t.insert /\ u.crlf = t.crlf /\ u.sync = t.sync
         /\ u.tabs = t.tabs /\ u.last = t.last /\ u.fresh = t.fresh /\ u.out = t.out
         /\ u.hook = t.hook
BY DEF Screens

LEMMA GoodIsLoose ==
  ASSUME NEW P, NEW s, NEW t \in Good(P, s)
  PROVE  t \in Loose(P, s)
BY DEF Good, Loose, Fits

(* Any new cursor leaves a loose screen; one that fits leaves a good one.  *)
LEMMA CursorMoves ==
  ASSUME NEW P, NEW s, NEW t \in Loose(P, s), NEW c \in Cursors
  PROVE  /\ [t EXCEPT !.cur = c] \in Loose(P, s)
         /\ CursorOn(t, c) /\ (c.origin => c.y \in t.top..t.bottom)
              => [t EXCEPT !.cur = c] \in Good(P, s)
PROOF
<1> DEFINE u == [t EXCEPT !.cur = c]
<1>1. t \in Screens /\ Framed(t) /\ Texts(t, P) /\ t.sync = s /\ t.hook = "none"
  BY DEF Loose
<1>2. /\ u \in Screens /\ u.cur = c
      /\ u.cols = t.cols /\ u.rows = t.rows /\ u.lines = t.lines /\ u.alt = t.alt
      /\ u.top = t.top /\ u.bottom = t.bottom /\ u.altOn = t.altOn
      /\ u.sync = t.sync /\ u.tabs = t.tabs /\ u.fresh = t.fresh /\ u.out = t.out
      /\ u.hook = t.hook
  BY <1>1, CursorSet
<1> HIDE DEF u
<1>3. Framed(u)
  BY <1>1, <1>2 DEF Framed
<1>4. Texts(u, P)
  BY <1>1, <1>2 DEF Texts, Rows
<1>5. u \in Loose(P, s)
  BY <1>1, <1>2, <1>3, <1>4 DEF Loose
<1>6. ASSUME CursorOn(t, c), c.origin => c.y \in t.top..t.bottom
      PROVE  u \in Good(P, s)
  <2>1. Fits(u)
    BY <1>2, <1>3, <1>6 DEF Fits, Framed, CursorOn, InRegion
  <2> QED BY <1>1, <1>2, <1>4, <2>1 DEF Good
<1>7. /\ u \in Loose(P, s)
      /\ CursorOn(t, c) /\ (c.origin => c.y \in t.top..t.bottom) => u \in Good(P, s)
  BY <1>5, <1>6
<1> QED BY <1>7 DEF u

(* However a handler left the cursor, a move puts it in its place. *)
LEMMA LooseMoveTo ==
  ASSUME NEW P, NEW s, NEW t \in Loose(P, s), NEW x \in Int, NEW y \in Int
  PROVE  moveTo(t, x, y) \in Good(P, s)
PROOF
<1> DEFINE lo == IF t.cur.origin THEN t.top ELSE 0
           hi == IF t.cur.origin THEN t.bottom ELSE t.rows - 1
           c == [x |-> Clamp(x, 0, t.cols - 1), y |-> Clamp(y, lo, hi),
                 wrapNext |-> FALSE, origin |-> t.cur.origin]
<1>1. t \in Screens /\ Framed(t)
  BY DEF Loose
<1>2. /\ t.cols \in Nat \ {0} /\ t.rows \in Nat \ {0} /\ t.top \in Int /\ t.bottom \in Int
      /\ t.cur.origin \in BOOLEAN
  BY <1>1 DEF Screens, Cursors
<1>3. c \in Cursors /\ CursorOn(t, c) /\ (c.origin => c.y \in t.top..t.bottom)
  BY <1>1, <1>2 DEF Framed, Cursors, CursorOn, Clamp
<1>4. moveTo(t, x, y) = [t EXCEPT !.cur = c]
  BY DEF moveTo
<1> HIDE DEF c
<1> QED BY <1>3, <1>4, CursorMoves

LEMMA MoveTo ==
  ASSUME NEW P, NEW s, NEW t \in Good(P, s), NEW x \in Int, NEW y \in Int
  PROVE  moveTo(t, x, y) \in Good(P, s)
BY GoodIsLoose, LooseMoveTo

LEMMA LooseMoveAbsTo ==
  ASSUME NEW P, NEW s, NEW t \in Loose(P, s), NEW x \in Int, NEW y \in Int
  PROVE  moveAbsTo(t, x, y) \in Good(P, s)
PROOF
<1>1. t.top \in Int
  BY DEF Loose, Screens
<1>2. (IF t.cur.origin THEN y + t.top ELSE y) \in Int
  BY <1>1
<1> QED BY <1>2, LooseMoveTo DEF moveAbsTo

(* New rows leave the rest alone.                                          *)
LEMMA LinesSet ==
  ASSUME NEW t \in Screens, NEW L \in Grids
  PROVE  LET u == [t EXCEPT !.lines = L] IN
         /\ u \in Screens /\ u.lines = L
         /\ u.cols = t.cols /\ u.rows = t.rows /\ u.cur = t.cur /\ u.alt = t.alt
         /\ u.saved = t.saved /\ u.top = t.top /\ u.bottom = t.bottom /\ u.altOn = t.altOn
         /\ u.wrap = t.wrap /\ u.insert = t.insert /\ u.crlf = t.crlf /\ u.sync = t.sync
         /\ u.tabs = t.tabs /\ u.last = t.last /\ u.fresh = t.fresh /\ u.out = t.out
         /\ u.hook = t.hook
BY DEF Screens

LEMMA GoodParts ==
  ASSUME NEW P, NEW s, NEW t \in Good(P, s)
  PROVE  /\ t \in Screens /\ Fits(t) /\ Texts(t, P) /\ t.sync = s /\ t.hook = "none"
         /\ t.cols \in Nat \ {0} /\ t.rows \in Nat \ {0} /\ Rows(t) = 0..(t.rows - 1)
         /\ t.lines \in Grid(t.rows) /\ t.alt \in Grid(t.rows)
         /\ t.cur \in Cursors /\ t.cur.x \in 0..(t.cols - 1) /\ t.cur.y \in Rows(t)
         /\ t.cur.origin \in BOOLEAN /\ t.cur.wrapNext \in BOOLEAN
         /\ t.top \in Rows(t) /\ t.bottom \in Rows(t) /\ t.top <= t.bottom
         /\ t.altOn \in BOOLEAN /\ t.fresh \in Nat \ {0} /\ t.out \in Seq(Int)
         /\ t.tabs \subseteq 0..(t.cols - 1)
PROOF
<1>1. t \in Screens /\ Fits(t) /\ Texts(t, P) /\ t.sync = s /\ t.hook = "none"
  BY DEF Good
<1>2. /\ t.cols \in Nat \ {0} /\ t.rows \in Nat \ {0} /\ t.cur \in Cursors
      /\ t.cur.origin \in BOOLEAN /\ t.cur.wrapNext \in BOOLEAN
      /\ t.top \in Int /\ t.bottom \in Int
      /\ t.altOn \in BOOLEAN /\ t.fresh \in Nat \ {0} /\ t.out \in Seq(Int)
  BY <1>1 DEF Screens, Cursors
<1> QED BY <1>1, <1>2 DEF Fits, Framed, CursorOn, Rows

LEMMA GridIsGrid ==
  ASSUME NEW n \in Nat, NEW g \in Grid(n)
  PROVE  g \in Grids
BY DEF Grids

(* Rows may move, each to one place, and be blanked. *)
LEMMA HeldMoved ==
  ASSUME NEW P, NEW s, NEW t \in Good(P, s),
         NEW L \in Grid(t.rows), NEW m,
         \A y \in Rows(t) : L[y] = Blank \/ (m[y] \in Rows(t) /\ L[y] = t.lines[m[y]]),
         \A y, z \in Rows(t) : y # z /\ L[y] # Blank /\ L[z] # Blank => m[y] # m[z]
  PROVE  Held(Rows(t), L, t.alt, t.altOn, t.fresh, t.out, P)
PROOF
<1> DEFINE R == Rows(t)
           lines == t.lines
           alt == t.alt
           out == t.out
           fresh == t.fresh
           on == t.altOn
<1>0. /\ Held(R, lines, alt, on, fresh, out, P)
      /\ on \in BOOLEAN /\ fresh \in Nat \ {0} /\ \A y \in R : L[y] \in Int
      /\ \A y \in R : lines[y] \in Int /\ alt[y] \in Int
  <2>1. /\ Texts(t, P) /\ t.altOn \in BOOLEAN /\ t.fresh \in Nat \ {0}
        /\ t.lines \in Grid(t.rows) /\ t.alt \in Grid(t.rows) /\ Rows(t) = 0..(t.rows - 1)
    BY GoodParts
  <2>2. /\ \A y \in R : L[y] \in Int /\ lines[y] \in Int /\ alt[y] \in Int
    BY <2>1 DEF Grid
  <2>3. Held(R, lines, alt, on, fresh, out, P)
    BY <2>1 DEF Texts
  <2> QED BY <2>1, <2>2, <2>3
<1>m. /\ \A y \in R : L[y] = Blank \/ (m[y] \in R /\ L[y] = lines[m[y]])
      /\ \A y, z \in R : y # z /\ L[y] # Blank /\ L[z] # Blank => m[y] # m[z]
  OBVIOUS
<1> HIDE DEF R, lines, alt, out, fresh, on
<1>1. P \subseteq 1..(fresh - 1) /\ Blank \notin P
  BY <1>0 DEF Held, Blank
<1>2. ASSUME NEW y \in R
      PROVE  /\ L[y] >= AltText /\ L[y] < fresh /\ L[y] \notin P
             /\ alt[y] >= AltText /\ alt[y] < fresh /\ alt[y] \notin P
             /\ IF on THEN alt[y] # AltText ELSE L[y] # AltText
  BY <1>0, <1>1, <1>m, <1>2 DEF Held, Blank, AltText
<1>3. ASSUME NEW y \in R, NEW z \in R
      PROVE  /\ L[y] > Blank => L[y] # alt[z]
             /\ y # z /\ L[y] > Blank => L[y] # L[z]
             /\ y # z /\ alt[y] > Blank => alt[y] # alt[z]
  <2>1. y # z /\ alt[y] > Blank => alt[y] # alt[z]
    BY <1>0 DEF Held
  <2>2. ASSUME L[y] > Blank
        PROVE  L[y] # alt[z] /\ (y # z => L[y] # L[z])
    <3>1. L[y] # Blank /\ m[y] \in R /\ L[y] = lines[m[y]]
      BY <1>0, <1>m, <2>2 DEF Blank
    <3>2. L[y] # alt[z]
      BY <1>0, <2>2, <3>1 DEF Held
    <3>3. ASSUME y # z, L[z] # Blank PROVE L[y] # L[z]
      <4>1. m[z] \in R /\ L[z] = lines[m[z]] /\ m[y] # m[z]
        BY <1>m, <3>1, <3>3
      <4> QED BY <1>0, <2>2, <3>1, <4>1 DEF Held
    <3> QED BY <3>1, <3>2, <3>3
  <2> QED BY <2>1, <2>2
<1>4. ASSUME NEW i \in DOMAIN out
      PROVE  /\ out[i] >= Blank /\ out[i] < fresh /\ out[i] \notin P
             /\ out[i] > Blank => /\ \A y \in R : L[y] # out[i] /\ alt[y] # out[i]
                                  /\ \A j \in DOMAIN out : i # j => out[i] # out[j]
  BY <1>0, <1>m, <1>4 DEF Held, Blank
<1>5. Held(R, L, alt, on, fresh, out, P)
  BY <1>1, <1>2, <1>3, <1>4 DEF Held
<1> QED BY <1>5 DEF R, lines, alt, out, fresh, on

(* A handler that only moves and blanks rows makes a good screen.          *)
LEMMA LinesMove ==
  ASSUME NEW P, NEW s, NEW t \in Good(P, s),
         NEW L \in Grid(t.rows), NEW m,
         \A y \in Rows(t) : L[y] = Blank \/ (m[y] \in Rows(t) /\ L[y] = t.lines[m[y]]),
         \A y, z \in Rows(t) : y # z /\ L[y] # Blank /\ L[z] # Blank => m[y] # m[z]
  PROVE  [t EXCEPT !.lines = L] \in Good(P, s)
PROOF
<1> DEFINE u == [t EXCEPT !.lines = L]
<1>1. /\ t \in Screens /\ Fits(t) /\ t.sync = s /\ t.hook = "none"
      /\ t.rows \in Nat
  BY GoodParts
<1>2. /\ u \in Screens /\ u.cur = t.cur
      /\ u.cols = t.cols /\ u.rows = t.rows /\ u.lines = L /\ u.alt = t.alt
      /\ u.top = t.top /\ u.bottom = t.bottom /\ u.altOn = t.altOn
      /\ u.sync = t.sync /\ u.tabs = t.tabs /\ u.fresh = t.fresh /\ u.out = t.out
      /\ u.hook = t.hook
  BY <1>1, GridIsGrid, LinesSet
<1> HIDE DEF u
<1>3. Fits(u)
  BY <1>1, <1>2 DEF Fits, Framed, CursorOn, InRegion
<1>4. Held(Rows(t), L, t.alt, t.altOn, t.fresh, t.out, P)
  BY HeldMoved
<1>5. Texts(u, P)
  BY <1>2, <1>4 DEF Texts, Rows
<1>6. u \in Good(P, s)
  BY <1>1, <1>2, <1>3, <1>5 DEF Good
<1> QED BY <1>6 DEF u

(* Identity of the rows that stay, and blanks. *)
LEMMA ClearGood ==
  ASSUME NEW P, NEW s, NEW t \in Good(P, s),
         NEW x0 \in Int, NEW y0 \in Int, NEW x1 \in Int, NEW y1 \in Int
  PROVE  clear(t, x0, y0, x1, y1) \in Good(P, s)
PROOF
<1> DEFINE wide == /\ Clamp(Lesser(x0, x1), 0, t.cols - 1) = 0
                   /\ Clamp(Greater(x0, x1), 0, t.cols - 1) = t.cols - 1
           lo == Clamp(Lesser(y0, y1), 0, t.rows - 1)
           hi == Clamp(Greater(y0, y1), 0, t.rows - 1)
           L == [y \in Rows(t) |-> IF wide /\ y \in lo..hi THEN Blank ELSE t.lines[y]]
           m == [y \in Rows(t) |-> y]
<1>1. clear(t, x0, y0, x1, y1) = [t EXCEPT !.lines = L]
  BY DEF clear
<1> HIDE DEF wide, lo, hi
<1>2. L \in Grid(t.rows)
  BY GoodParts DEF Grid, Blank
<1>3. \A y \in Rows(t) : L[y] = Blank \/ (m[y] \in Rows(t) /\ L[y] = t.lines[m[y]])
  OBVIOUS
<1>4. \A y, z \in Rows(t) : y # z /\ L[y] # Blank /\ L[z] # Blank => m[y] # m[z]
  OBVIOUS
<1> HIDE DEF L, m
<1> QED BY <1>1, <1>2, <1>3, <1>4, LinesMove

(* What an operation on the rows leaves alone. *)
Kept(t, u) ==
  /\ u.cols = t.cols /\ u.rows = t.rows /\ u.cur = t.cur /\ u.alt = t.alt
  /\ u.top = t.top /\ u.bottom = t.bottom /\ u.altOn = t.altOn
  /\ u.wrap = t.wrap /\ u.last = t.last /\ u.fresh = t.fresh /\ u.out = t.out

(* clear blanks rows or leaves them.                                       *)
LEMMA ClearSame ==
  ASSUME NEW P, NEW s, NEW t \in Good(P, s),
         NEW x0 \in Int, NEW y0 \in Int, NEW x1 \in Int, NEW y1 \in Int
  PROVE  Kept(t, clear(t, x0, y0, x1, y1))
PROOF
<1> DEFINE wide == /\ Clamp(Lesser(x0, x1), 0, t.cols - 1) = 0
                   /\ Clamp(Greater(x0, x1), 0, t.cols - 1) = t.cols - 1
           lo == Clamp(Lesser(y0, y1), 0, t.rows - 1)
           hi == Clamp(Greater(y0, y1), 0, t.rows - 1)
           L == [y \in Rows(t) |-> IF wide /\ y \in lo..hi THEN Blank ELSE t.lines[y]]
<1>1. clear(t, x0, y0, x1, y1) = [t EXCEPT !.lines = L]
  BY DEF clear
<1> HIDE DEF wide, lo, hi
<1>2. L \in Grids
  <2>1. t.rows \in Nat /\ t.lines \in Grid(t.rows) /\ Rows(t) = 0..(t.rows - 1)
    BY GoodParts
  <2>2. L \in Grid(t.rows)
    BY <2>1 DEF Grid, Blank
  <2> QED BY <2>1, <2>2, GridIsGrid
<1> HIDE DEF L
<1>3. t \in Screens
  BY GoodParts
<1> DEFINE u == [t EXCEPT !.lines = L]
<1>4. Kept(t, u)
  BY <1>2, <1>3, LinesSet DEF Kept
<1> HIDE DEF u
<1>5. clear(t, x0, y0, x1, y1) = u
  BY <1>1 DEF u
<1> QED BY <1>4, <1>5

(* Rows moved down, and blanks above them.                                 *)
LEMMA ScrollDownGood ==
  ASSUME NEW P, NEW s, NEW t \in Good(P, s),
         NEW orig \in 0..t.bottom, NEW n0 \in Int
  PROVE  scrollDown(t, orig, n0) \in Good(P, s)
PROOF
<1> DEFINE n == Clamp(n0, 0, t.bottom - orig + 1)
           c == clear(t, 0, t.bottom - n + 1, t.cols - 1, t.bottom)
           L == [y \in Rows(t) |->
                   IF y \in (orig + n)..t.bottom THEN c.lines[y - n]
                   ELSE IF y \in orig..(orig + n - 1) THEN Blank ELSE c.lines[y]]
           m == [y \in Rows(t) |-> IF y \in (orig + n)..t.bottom THEN y - n ELSE y]
<1>1. scrollDown(t, orig, n0) = [c EXCEPT !.lines = L]
  BY DEF scrollDown
<1>2. t.cols \in Nat \ {0} /\ t.rows \in Nat \ {0} /\ t.bottom \in Rows(t)
            /\ Rows(t) = 0..(t.rows - 1)
  BY GoodParts
<1>3. n \in 0..(t.bottom - orig + 1)
  BY <1>2 DEF Clamp
<1> HIDE DEF n
<1>4. c \in Good(P, s)
  BY <1>2, <1>3, ClearGood
<1>5. c.rows = t.rows
  BY <1>2, <1>3, ClearSame DEF Kept
<1> HIDE DEF c
<1>6. c.lines \in Grid(t.rows) /\ Rows(c) = Rows(t)
  BY <1>4, <1>5, GoodParts DEF Rows
<1>7. \A y \in Rows(t) : c.lines[y] \in Int
  BY <1>2, <1>6 DEF Grid
<1>a. /\ \A y \in Rows(t) : orig + n <= y /\ y <= t.bottom => y - n \in Rows(t)
            /\ L[y] = c.lines[y - n] /\ m[y] = y - n
      /\ \A y \in Rows(t) : orig <= y /\ y < orig + n => L[y] = Blank
      /\ \A y \in Rows(t) : y < orig \/ t.bottom < y => L[y] = c.lines[y] /\ m[y] = y
  <2> SUFFICES ASSUME NEW y \in Rows(t)
               PROVE  /\ orig + n <= y /\ y <= t.bottom => y - n \in Rows(t)
                           /\ L[y] = c.lines[y - n] /\ m[y] = y - n
                      /\ orig <= y /\ y < orig + n => L[y] = Blank
                      /\ y < orig \/ t.bottom < y => L[y] = c.lines[y] /\ m[y] = y
    OBVIOUS
  <2>1. ASSUME orig + n <= y /\ y <= t.bottom
        PROVE  y - n \in Rows(t) /\ L[y] = c.lines[y - n] /\ m[y] = y - n
    BY <1>2, <1>3, <2>1
  <2>2. ASSUME orig <= y /\ y < orig + n PROVE L[y] = Blank
    BY <1>2, <1>3, <2>2
  <2>3. ASSUME y < orig \/ t.bottom < y PROVE L[y] = c.lines[y] /\ m[y] = y
    BY <1>2, <1>3, <2>3
  <2> QED BY <2>1, <2>2, <2>3
<1>c. \A y \in Rows(t) : \/ orig + n <= y /\ y <= t.bottom
                         \/ orig <= y /\ y < orig + n
                         \/ y < orig \/ t.bottom < y
  BY <1>2, <1>3
<1>d. DOMAIN L = Rows(t)
  OBVIOUS
<1>f. L = [y \in DOMAIN L |-> L[y]]
  OBVIOUS
<1> HIDE DEF L, m
<1>b. \A y \in Rows(t) : L[y] \in Int
  BY <1>7, <1>a, <1>c DEF Blank
<1>g. L \in Grid(c.rows)
  BY <1>2, <1>5, <1>b, <1>d, <1>f DEF Grid
<1>8. \A y \in Rows(c) : L[y] = Blank \/ (m[y] \in Rows(c) /\ L[y] = c.lines[m[y]])
  BY <1>6, <1>a, <1>c
<1>e. \A y \in Rows(t) : L[y] # Blank =>
         \/ orig + n <= y /\ y <= t.bottom /\ m[y] = y - n
         \/ (y < orig \/ t.bottom < y) /\ m[y] = y
  BY <1>a, <1>c
<1>h. \A y, z \in Rows(t) : y # z /\ L[y] # Blank /\ L[z] # Blank => m[y] # m[z]
  <2> SUFFICES ASSUME NEW y \in Rows(t), NEW z \in Rows(t), y # z, L[y] # Blank, L[z] # Blank
               PROVE  m[y] # m[z]
    OBVIOUS
  <2>1. y \in Int /\ z \in Int /\ orig \in Int /\ n \in Nat /\ t.bottom \in Int
    BY <1>2, <1>3
  <2>2. \/ orig + n <= y /\ y <= t.bottom /\ m[y] = y - n
        \/ (y < orig \/ t.bottom < y) /\ m[y] = y
    BY <1>e
  <2>3. \/ orig + n <= z /\ z <= t.bottom /\ m[z] = z - n
        \/ (z < orig \/ t.bottom < z) /\ m[z] = z
    BY <1>e
  <2> QED BY <2>1, <2>2, <2>3
<1>9. \A y, z \in Rows(c) : y # z /\ L[y] # Blank /\ L[z] # Blank => m[y] # m[z]
  BY <1>6, <1>h
<1> QED BY <1>1, <1>4, <1>g, <1>8, <1>9, LinesMove

(* u's rows are t's, some of them blanked.                                 *)
Cleared(t, u) == \A y \in Rows(t) : u.lines[y] = Blank \/ u.lines[y] = t.lines[y]

LEMMA ClearLines ==
  ASSUME NEW P, NEW s, NEW t \in Good(P, s),
         NEW x0 \in Int, NEW y0 \in Int, NEW x1 \in Int, NEW y1 \in Int
  PROVE  Cleared(t, clear(t, x0, y0, x1, y1))
PROOF
<1> DEFINE wide == /\ Clamp(Lesser(x0, x1), 0, t.cols - 1) = 0
                   /\ Clamp(Greater(x0, x1), 0, t.cols - 1) = t.cols - 1
           lo == Clamp(Lesser(y0, y1), 0, t.rows - 1)
           hi == Clamp(Greater(y0, y1), 0, t.rows - 1)
           L == [y \in Rows(t) |-> IF wide /\ y \in lo..hi THEN Blank ELSE t.lines[y]]
           u == [t EXCEPT !.lines = L]
<1>1. clear(t, x0, y0, x1, y1) = u
  BY DEF clear
<1> HIDE DEF wide, lo, hi
<1>2. t \in Screens /\ t.rows \in Nat /\ t.lines \in Grid(t.rows) /\ Rows(t) = 0..(t.rows - 1)
  BY GoodParts
<1>3. \A y \in Rows(t) : L[y] = Blank \/ L[y] = t.lines[y]
  OBVIOUS
<1>4. L \in Grid(t.rows)
  BY <1>2 DEF Grid, Blank
<1> HIDE DEF L
<1>5. u.lines = L
  BY <1>2, <1>4, GridIsGrid, LinesSet
<1> HIDE DEF u
<1> QED BY <1>1, <1>3, <1>5 DEF Cleared

(* Rows moved up, and blanks below; the rows that leave are gone from lines. *)
LEMMA ScrollUpGood ==
  ASSUME NEW P, NEW s, NEW t \in Good(P, s),
         NEW orig \in 0..t.bottom, NEW n0 \in Int
  PROVE  LET u == scrollUp(t, orig, n0) IN
         /\ u \in Good(P, s) /\ Kept(t, u)
         /\ \A y \in Rows(t) : \/ u.lines[y] = Blank
                              \/ \E z \in Rows(t) :
                                   /\ u.lines[y] = t.lines[z]
                                   /\ z < orig \/ z >= orig + Clamp(n0, 0, t.bottom - orig + 1)
PROOF
<1> DEFINE n == Clamp(n0, 0, t.bottom - orig + 1)
           c == clear(t, 0, orig, t.cols - 1, orig + n - 1)
           L == [y \in Rows(t) |->
                   IF y \in orig..(t.bottom - n) THEN c.lines[y + n]
                   ELSE IF y \in (t.bottom - n + 1)..t.bottom THEN Blank ELSE c.lines[y]]
           m == [y \in Rows(t) |-> IF y \in orig..(t.bottom - n) THEN y + n ELSE y]
<1>1. scrollUp(t, orig, n0) = [c EXCEPT !.lines = L]
  BY DEF scrollUp
<1>2. t.cols \in Nat \ {0} /\ t.rows \in Nat \ {0} /\ t.bottom \in Rows(t)
            /\ Rows(t) = 0..(t.rows - 1)
  BY GoodParts
<1>3. n \in 0..(t.bottom - orig + 1)
  BY <1>2 DEF Clamp
<1> HIDE DEF n
<1>4. c \in Good(P, s)
  BY <1>2, <1>3, ClearGood
<1>k. Kept(t, c)
  BY <1>2, <1>3, ClearSame
<1>5. c.rows = t.rows
  BY <1>k DEF Kept
<1>l. \A y \in Rows(t) : c.lines[y] = Blank \/ c.lines[y] = t.lines[y]
  <2>1. Cleared(t, c)
    BY <1>2, <1>3, ClearLines
  <2> QED BY <2>1 DEF Cleared
<1> HIDE DEF c
<1>6. c.lines \in Grid(t.rows) /\ Rows(c) = Rows(t)
  BY <1>4, <1>5, GoodParts DEF Rows
<1>7. \A y \in Rows(t) : c.lines[y] \in Int
  BY <1>2, <1>6 DEF Grid
<1>a. /\ \A y \in Rows(t) : orig <= y /\ y <= t.bottom - n => y + n \in Rows(t)
            /\ L[y] = c.lines[y + n] /\ m[y] = y + n
      /\ \A y \in Rows(t) : t.bottom - n < y /\ y <= t.bottom => L[y] = Blank
      /\ \A y \in Rows(t) : y < orig \/ t.bottom < y => L[y] = c.lines[y] /\ m[y] = y
  <2> SUFFICES ASSUME NEW y \in Rows(t)
               PROVE  /\ orig <= y /\ y <= t.bottom - n => y + n \in Rows(t)
                           /\ L[y] = c.lines[y + n] /\ m[y] = y + n
                      /\ t.bottom - n < y /\ y <= t.bottom => L[y] = Blank
                      /\ y < orig \/ t.bottom < y => L[y] = c.lines[y] /\ m[y] = y
    OBVIOUS
  <2>1. ASSUME orig <= y /\ y <= t.bottom - n
        PROVE  y + n \in Rows(t) /\ L[y] = c.lines[y + n] /\ m[y] = y + n
    BY <1>2, <1>3, <2>1
  <2>2. ASSUME t.bottom - n < y /\ y <= t.bottom PROVE L[y] = Blank
    BY <1>2, <1>3, <2>2
  <2>3. ASSUME y < orig \/ t.bottom < y PROVE L[y] = c.lines[y] /\ m[y] = y
    BY <1>2, <1>3, <2>3
  <2> QED BY <2>1, <2>2, <2>3
<1>c. \A y \in Rows(t) : \/ orig <= y /\ y <= t.bottom - n
                         \/ t.bottom - n < y /\ y <= t.bottom
                         \/ y < orig \/ t.bottom < y
  BY <1>2, <1>3
<1>d. DOMAIN L = Rows(t)
  OBVIOUS
<1>f. L = [y \in DOMAIN L |-> L[y]]
  OBVIOUS
<1> HIDE DEF L, m
<1>b. \A y \in Rows(t) : L[y] \in Int
  BY <1>7, <1>a, <1>c DEF Blank
<1>g. L \in Grid(c.rows)
  BY <1>2, <1>5, <1>b, <1>d, <1>f DEF Grid
<1>8. \A y \in Rows(c) : L[y] = Blank \/ (m[y] \in Rows(c) /\ L[y] = c.lines[m[y]])
  BY <1>6, <1>a, <1>c
<1>e. \A y \in Rows(t) : L[y] # Blank =>
         \/ orig <= y /\ y <= t.bottom - n /\ m[y] = y + n
         \/ (y < orig \/ t.bottom < y) /\ m[y] = y
  BY <1>a, <1>c
<1>h. \A y, z \in Rows(t) : y # z /\ L[y] # Blank /\ L[z] # Blank => m[y] # m[z]
  <2> SUFFICES ASSUME NEW y \in Rows(t), NEW z \in Rows(t), y # z, L[y] # Blank, L[z] # Blank
               PROVE  m[y] # m[z]
    OBVIOUS
  <2>1. y \in Int /\ z \in Int /\ orig \in Int /\ n \in Nat /\ t.bottom \in Int
    BY <1>2, <1>3
  <2>2. \/ orig <= y /\ y <= t.bottom - n /\ m[y] = y + n
        \/ (y < orig \/ t.bottom < y) /\ m[y] = y
    BY <1>e
  <2>3. \/ orig <= z /\ z <= t.bottom - n /\ m[z] = z + n
        \/ (z < orig \/ t.bottom < z) /\ m[z] = z
    BY <1>e
  <2> QED BY <2>1, <2>2, <2>3
<1>9. \A y, z \in Rows(c) : y # z /\ L[y] # Blank /\ L[z] # Blank => m[y] # m[z]
  BY <1>6, <1>h
<1> DEFINE u == [c EXCEPT !.lines = L]
<1>i. u \in Good(P, s)
  BY <1>4, <1>g, <1>8, <1>9, LinesMove
<1>j. Kept(t, u) /\ u.lines = L
  <2>1. c \in Screens /\ L \in Grids
    BY <1>2, <1>4, <1>5, <1>g, GoodParts, GridIsGrid
  <2>2. Kept(c, u) /\ u.lines = L
    BY <2>1, LinesSet DEF Kept
  <2> QED BY <1>k, <2>2 DEF Kept
<1>m. ASSUME NEW y \in Rows(t)
      PROVE  \/ L[y] = Blank
             \/ \E z \in Rows(t) : L[y] = t.lines[z] /\ (z < orig \/ z >= orig + n)
  <2>1. CASE orig <= y /\ y <= t.bottom - n
    <3>1. y + n \in Rows(t) /\ L[y] = c.lines[y + n]
      BY <1>a, <2>1
    <3>2. L[y] = Blank \/ L[y] = t.lines[y + n]
      BY <1>l, <3>1
    <3>3. y + n >= orig + n
      BY <1>2, <1>3, <2>1
    <3> QED BY <3>1, <3>2, <3>3
  <2>2. CASE t.bottom - n < y /\ y <= t.bottom
    BY <1>a, <2>2
  <2>3. CASE y < orig \/ t.bottom < y
    <3>1. L[y] = Blank \/ L[y] = t.lines[y]
      BY <1>a, <1>l, <2>3
    <3>2. y < orig \/ y >= orig + n
      BY <1>2, <1>3, <2>3
    <3> QED BY <3>1, <3>2
  <2> QED BY <1>c, <2>1, <2>2, <2>3
<1>n. scrollUp(t, orig, n0) = u
  BY <1>1 DEF u
<1> HIDE DEF u
<1>o. n = Clamp(n0, 0, t.bottom - orig + 1)
  BY DEF n
<1> QED BY <1>i, <1>j, <1>m, <1>n, <1>o

LEMMA OutSet ==
  ASSUME NEW t \in Screens, NEW O \in Seq(Int)
  PROVE  LET u == [t EXCEPT !.out = O] IN
         /\ u \in Screens /\ u.out = O
         /\ u.cols = t.cols /\ u.rows = t.rows /\ u.cur = t.cur /\ u.lines = t.lines
         /\ u.alt = t.alt /\ u.top = t.top /\ u.bottom = t.bottom /\ u.altOn = t.altOn
         /\ u.sync = t.sync /\ u.tabs = t.tabs /\ u.fresh = t.fresh /\ u.hook = t.hook
BY DEF Screens

(* Rows that left the screen are handed over. *)
LEMMA OutGrows ==
  ASSUME NEW P, NEW s, NEW u \in Good(P, s), NEW N \in Seq(Int),
         \A i \in DOMAIN N : N[i] >= Blank /\ N[i] < u.fresh /\ N[i] \notin P,
         \A i \in DOMAIN N : N[i] > Blank =>
            /\ \A y \in Rows(u) : u.lines[y] # N[i] /\ u.alt[y] # N[i]
            /\ \A j \in DOMAIN u.out : u.out[j] # N[i],
         \A i, j \in DOMAIN N : N[i] > Blank /\ i # j => N[i] # N[j]
  PROVE  [u EXCEPT !.out = u.out \o N] \in Good(P, s)
PROOF
<1> DEFINE O == u.out \o N
           w == [u EXCEPT !.out = O]
           R == Rows(u)
<1>1. /\ u \in Screens /\ Fits(u) /\ Texts(u, P) /\ u.sync = s /\ u.hook = "none"
      /\ u.out \in Seq(Int)
  BY GoodParts
<1>2. O \in Seq(Int)
  BY <1>1
<1>3. /\ w \in Screens /\ w.out = O
      /\ w.cols = u.cols /\ w.rows = u.rows /\ w.cur = u.cur /\ w.lines = u.lines
      /\ w.alt = u.alt /\ w.top = u.top /\ w.bottom = u.bottom /\ w.altOn = u.altOn
      /\ w.sync = u.sync /\ w.tabs = u.tabs /\ w.fresh = u.fresh /\ w.hook = u.hook
  BY <1>1, <1>2, OutSet
<1>4. Fits(w)
  BY <1>1, <1>3 DEF Fits, Framed, CursorOn, InRegion
<1>5. Held(R, u.lines, u.alt, u.altOn, u.fresh, u.out, P)
  BY <1>1 DEF Texts
<1>6. ASSUME NEW i \in DOMAIN O
      PROVE  \/ i \in DOMAIN u.out /\ O[i] = u.out[i]
             \/ i - Len(u.out) \in DOMAIN N /\ O[i] = N[i - Len(u.out)]
  BY <1>1
<1>7. \A i \in DOMAIN O : i \in Int
  BY <1>2
<1>8. Len(u.out) \in Int
  BY <1>1
<1> HIDE DEF O
<1>9. ASSUME NEW i \in DOMAIN O
      PROVE  /\ O[i] >= Blank /\ O[i] < u.fresh /\ O[i] \notin P
             /\ O[i] > Blank => \A y \in R : u.lines[y] # O[i] /\ u.alt[y] # O[i]
  BY <1>5, <1>6 DEF Held
<1>a. ASSUME NEW i \in DOMAIN O, NEW j \in DOMAIN O, i # j, O[i] > Blank
      PROVE  O[i] # O[j]
  <2>1. CASE i \in DOMAIN u.out /\ O[i] = u.out[i]
    <3>1. CASE j \in DOMAIN u.out /\ O[j] = u.out[j]
      BY <1>5, <1>a, <2>1, <3>1 DEF Held
    <3>2. CASE j - Len(u.out) \in DOMAIN N /\ O[j] = N[j - Len(u.out)]
      BY <1>a, <2>1, <3>2
    <3> QED BY <1>6, <3>1, <3>2
  <2>2. CASE i - Len(u.out) \in DOMAIN N /\ O[i] = N[i - Len(u.out)]
    <3>1. CASE j \in DOMAIN u.out /\ O[j] = u.out[j]
      BY <1>a, <2>2, <3>1
    <3>2. CASE j - Len(u.out) \in DOMAIN N /\ O[j] = N[j - Len(u.out)]
      <4>1. i - Len(u.out) # j - Len(u.out)
        BY <1>7, <1>8, <1>a
      <4> QED BY <1>a, <2>2, <3>2, <4>1
    <3> QED BY <1>6, <3>1, <3>2
  <2> QED BY <1>6, <2>1, <2>2
<1>b. Held(R, u.lines, u.alt, u.altOn, u.fresh, O, P)
  BY <1>5, <1>9, <1>a DEF Held
<1> HIDE DEF w
<1>c. Texts(w, P)
  BY <1>3, <1>b DEF Texts, Rows
<1>d. w \in Good(P, s)
  BY <1>1, <1>3, <1>4, <1>c DEF Good
<1> QED BY <1>d DEF w, O

(* What a whole-screen scroll of the main screen loses it hands over.      *)
LEMMA ScrollUpHistoryGood ==
  ASSUME NEW P, NEW s, NEW t \in Good(P, s), NEW n \in Int
  PROVE  scrollUpHistory(t, n) \in Good(P, s)
PROOF
<1> DEFINE k == Clamp(n, 0, t.bottom - t.top + 1)
           emit == IF WholeMain(t) THEN k ELSE 0
           u == scrollUp(t, t.top, n)
           N == TopRows(t, emit)
<1>1. /\ t.rows \in Nat \ {0} /\ Rows(t) = 0..(t.rows - 1) /\ t.altOn \in BOOLEAN
      /\ t.top \in Rows(t) /\ t.bottom \in Rows(t) /\ t.top <= t.bottom /\ t.out \in Seq(Int)
      /\ t.lines \in Grid(t.rows) /\ t.alt \in Grid(t.rows)
  BY GoodParts
<1>2. t.top \in 0..t.bottom
  BY <1>1
<1>3. /\ u \in Good(P, s) /\ Kept(t, u)
      /\ \A y \in Rows(t) : \/ u.lines[y] = Blank
                           \/ \E z \in Rows(t) : u.lines[y] = t.lines[z]
                                /\ (z < t.top \/ z >= t.top + k)
  BY <1>2, ScrollUpGood
<1>4. scrollUpHistory(t, n) = [u EXCEPT !.out = u.out \o N]
  BY <1>3 DEF scrollUpHistory, Kept
<1>5. k \in 0..(t.bottom - t.top + 1)
  BY <1>1 DEF Clamp
<1> HIDE DEF k, u
<1>6. emit \in Nat /\ emit <= t.rows
  BY <1>1, <1>5 DEF WholeMain
<1>7. /\ N \in Seq(Int) /\ DOMAIN N = 1..emit
      /\ \A i \in 1..emit : i - 1 \in Rows(t) /\ N[i] = t.lines[i - 1]
  <2>1. \A i \in 1..emit : i - 1 \in Rows(t)
    BY <1>1, <1>6
  <2>2. \A y \in Rows(t) : t.lines[y] \in Int
    BY <1>1 DEF Grid
  <2>3. N = [i \in 1..emit |-> t.lines[i - 1]]
    BY DEF TopRows
  <2> HIDE DEF N, emit
  <2>4. \A i \in 1..emit : t.lines[i - 1] \in Int
    BY <2>1, <2>2
  <2>5. N \in [1..emit -> Int]
    BY <2>3, <2>4
  <2>6. N \in Seq(Int)
    BY <1>6, <2>5, SeqDef
  <2> QED BY <2>1, <2>3, <2>6
<1>8. 1..emit # {} => ~t.altOn /\ t.top = 0 /\ emit = k
  BY DEF WholeMain
<1>9. Held(Rows(t), t.lines, t.alt, t.altOn, t.fresh, t.out, P)
  BY GoodParts DEF Texts
<1>a. \A y \in Rows(t) : t.lines[y] \in Int /\ t.alt[y] \in Int
  BY <1>1 DEF Grid
<1> HIDE DEF N, emit
<1>b. ASSUME NEW i \in DOMAIN N
      PROVE  N[i] >= Blank /\ N[i] < u.fresh /\ N[i] \notin P
  <2>1. i \in 1..emit /\ i - 1 \in Rows(t) /\ N[i] = t.lines[i - 1] /\ ~t.altOn
    BY <1>7, <1>8
  <2>2. t.lines[i - 1] >= AltText /\ t.lines[i - 1] # AltText /\ t.lines[i - 1] < t.fresh
              /\ t.lines[i - 1] \notin P
    BY <1>9, <2>1 DEF Held
  <2> QED BY <1>3, <1>a, <2>1, <2>2 DEF Kept, Blank, AltText
<1>c. ASSUME NEW i \in DOMAIN N, N[i] > Blank
      PROVE  /\ \A y \in Rows(u) : u.lines[y] # N[i] /\ u.alt[y] # N[i]
             /\ \A j \in DOMAIN u.out : u.out[j] # N[i]
  <2>1. i \in 1..emit /\ i - 1 \in Rows(t) /\ N[i] = t.lines[i - 1] /\ t.top = 0 /\ emit = k
    BY <1>7, <1>8
  <2>2. Rows(u) = Rows(t) /\ u.alt = t.alt /\ u.out = t.out
    BY <1>3 DEF Kept, Rows
  <2>3. ASSUME NEW y \in Rows(t) PROVE u.lines[y] # N[i] /\ t.alt[y] # N[i]
    <3>1. t.alt[y] # N[i]
      BY <1>9, <1>c, <2>1 DEF Held
    <3>2. ASSUME NEW z \in Rows(t), z < t.top \/ z >= t.top + k
          PROVE  t.lines[z] # N[i]
      <4>1. z # i - 1
        BY <1>1, <1>5, <2>1, <3>2
      <4> QED BY <1>9, <1>c, <2>1, <4>1 DEF Held
    <3> QED BY <1>3, <1>c, <3>1, <3>2 DEF Blank
  <2>4. \A j \in DOMAIN t.out : t.out[j] # N[i]
    BY <1>9, <1>c, <2>1 DEF Held
  <2> QED BY <2>2, <2>3, <2>4
<1>d. ASSUME NEW i \in DOMAIN N, NEW j \in DOMAIN N, N[i] > Blank, i # j
      PROVE  N[i] # N[j]
  <2>1. /\ i - 1 \in Rows(t) /\ N[i] = t.lines[i - 1]
        /\ j - 1 \in Rows(t) /\ N[j] = t.lines[j - 1] /\ i \in Int /\ j \in Int
    BY <1>6, <1>7
  <2>2. i - 1 # j - 1
    BY <1>d, <2>1
  <2> QED BY <1>9, <1>d, <2>1, <2>2 DEF Held
<1>e. [u EXCEPT !.out = u.out \o N] \in Good(P, s)
  BY <1>3, <1>7, <1>b, <1>c, <1>d, OutGrows
<1> QED BY <1>4, <1>e DEF N, emit, u

LEMMA CursorIsInt ==
  ASSUME NEW P, NEW s, NEW t \in Good(P, s)
  PROVE  /\ t.cur.x \in Int /\ t.cur.y \in Int /\ t.cols \in Int /\ t.rows \in Int
         /\ t.top \in Int /\ t.bottom \in Int /\ t.top \in 0..t.bottom
BY GoodParts

(* The handlers, one by one.                                               *)
LEMMA NewlineGood ==
  ASSUME NEW P, NEW s, NEW t \in Good(P, s), NEW firstCol
  PROVE  newline(t, firstCol) \in Good(P, s)
PROOF
<1> DEFINE x == IF firstCol THEN 0 ELSE t.cur.x
<1>1. x \in Int /\ t.cur.y \in Int /\ t.cur.y + 1 \in Int
  BY CursorIsInt
<1>2. newline(t, firstCol) = IF t.cur.y = t.bottom THEN moveTo(scrollUpHistory(t, 1), x, t.cur.y)
                                                   ELSE moveTo(t, x, t.cur.y + 1)
  BY DEF newline
<1>3. scrollUpHistory(t, 1) \in Good(P, s)
  BY ScrollUpHistoryGood
<1> HIDE DEF x
<1>4. moveTo(scrollUpHistory(t, 1), x, t.cur.y) \in Good(P, s)
  BY <1>1, <1>3, MoveTo
<1>5. moveTo(t, x, t.cur.y + 1) \in Good(P, s)
  BY <1>1, MoveTo
<1> QED BY <1>2, <1>4, <1>5

LEMMA IndexGood ==
  ASSUME NEW P, NEW s, NEW t \in Good(P, s)
  PROVE  IND(t) \in Good(P, s) /\ RI(t) \in Good(P, s)
PROOF
<1>1. /\ t.cur.x \in Int /\ t.cur.y \in Int /\ t.cur.y + 1 \in Int /\ t.cur.y - 1 \in Int
      /\ t.top \in 0..t.bottom
  BY CursorIsInt
<1>2. scrollUpHistory(t, 1) \in Good(P, s)
  BY ScrollUpHistoryGood
<1>3. scrollDown(t, t.top, 1) \in Good(P, s)
  BY <1>1, ScrollDownGood
<1>4. moveTo(t, t.cur.x, t.cur.y + 1) \in Good(P, s)
  BY <1>1, MoveTo
<1>5. moveTo(t, t.cur.x, t.cur.y - 1) \in Good(P, s)
  BY <1>1, MoveTo
<1> QED BY <1>2, <1>3, <1>4, <1>5 DEF IND, RI

LEMMA ClearAllGood ==
  ASSUME NEW P, NEW s, NEW t \in Good(P, s)
  PROVE  clearAll(t) \in Good(P, s)
PROOF
<1>1. t.cols - 1 \in Int /\ t.rows - 1 \in Int
  BY CursorIsInt
<1> QED BY <1>1, ClearGood DEF clearAll

LEMMA EraseGood ==
  ASSUME NEW P, NEW s, NEW t \in Good(P, s), NEW arg
  PROVE  ED(t, arg) \in Good(P, s) /\ EL(t, arg) \in Good(P, s)
PROOF
<1> DEFINE below == clear(t, t.cur.x, t.cur.y, t.cols - 1, t.cur.y)
           above == IF t.cur.y > 1 THEN clear(t, 0, 0, t.cols - 1, t.cur.y - 1) ELSE t
<1>1. /\ t.cur.x \in Int /\ t.cur.y \in Int /\ t.cur.y + 1 \in Int /\ t.cur.y - 1 \in Int
      /\ t.cols - 1 \in Int /\ t.rows - 1 \in Int
  BY CursorIsInt
<1>2. below \in Good(P, s)
  BY <1>1, ClearGood
<1>3. above \in Good(P, s)
  <2>1. clear(t, 0, 0, t.cols - 1, t.cur.y - 1) \in Good(P, s)
    BY <1>1, ClearGood
  <2> QED BY <2>1
<1>4. EL(t, arg) \in Good(P, s)
  <2>1. /\ (IF arg = 0 THEN t.cur.x ELSE 0) \in Int
        /\ (IF arg = 1 THEN t.cur.x ELSE t.cols - 1) \in Int
    BY <1>1
  <2> QED BY <1>1, <2>1, ClearGood DEF EL
<1>5. ED(t, arg) = IF arg = 0 THEN IF t.cur.y < t.rows - 1
                                   THEN clear(below, 0, t.cur.y + 1, t.cols - 1, t.rows - 1)
                                   ELSE below
                   ELSE IF arg = 1 THEN clear(above, 0, t.cur.y, t.cur.x, t.cur.y)
                   ELSE clearAll(t)
  BY DEF ED
<1> HIDE DEF below, above
<1>6. clear(below, 0, t.cur.y + 1, t.cols - 1, t.rows - 1) \in Good(P, s)
  BY <1>1, <1>2, ClearGood
<1>7. clear(above, 0, t.cur.y, t.cur.x, t.cur.y) \in Good(P, s)
  BY <1>1, <1>3, ClearGood
<1> QED BY <1>2, <1>4, <1>5, <1>6, <1>7, ClearAllGood

LEMMA EditRowGood ==
  ASSUME NEW P, NEW s, NEW t \in Good(P, s), NEW n \in Int
  PROVE  /\ ECH(t, n) \in Good(P, s)
         /\ insertBlanks(t, n) \in Good(P, s)
         /\ deleteChars(t, n) \in Good(P, s)
PROOF
<1> DEFINE k == Clamp(n, 1, t.cols)
           last == IF t.cur.x + k >= t.cols THEN t.cols - 1 ELSE t.cur.x + k - 1
           first == IF t.cur.x + k >= t.cols THEN t.cur.x ELSE t.cols - k
<1>1. t.cur.x \in Int /\ t.cur.y \in Int /\ t.cols \in Int /\ t.cols - 1 \in Int
  BY CursorIsInt
<1>2. k \in Int
  BY <1>1 DEF Clamp
<1>3. last \in Int /\ first \in Int
  BY <1>1, <1>2
<1>4. t.cur.x + Greater(n, 1) - 1 \in Int
  BY <1>1 DEF Greater
<1>5. ECH(t, n) \in Good(P, s)
  BY <1>1, <1>4, ClearGood DEF ECH
<1>6. /\ insertBlanks(t, n) = clear(t, t.cur.x, t.cur.y, last, t.cur.y)
      /\ deleteChars(t, n) = clear(t, first, t.cur.y, t.cols - 1, t.cur.y)
  BY DEF insertBlanks, deleteChars
<1> HIDE DEF last, first
<1>7. clear(t, t.cur.x, t.cur.y, last, t.cur.y) \in Good(P, s)
  BY <1>1, <1>3, ClearGood
<1>8. clear(t, first, t.cur.y, t.cols - 1, t.cur.y) \in Good(P, s)
  BY <1>1, <1>3, ClearGood
<1> QED BY <1>5, <1>6, <1>7, <1>8

LEMMA EditLinesGood ==
  ASSUME NEW P, NEW s, NEW t \in Good(P, s), NEW n \in Int
  PROVE  insertBlankLines(t, n) \in Good(P, s) /\ deleteLines(t, n) \in Good(P, s)
PROOF
<1>1. InRegion(t) => t.cur.y \in 0..t.bottom
  BY GoodParts DEF InRegion
<1>2. ASSUME InRegion(t) PROVE scrollDown(t, t.cur.y, n) \in Good(P, s)
  BY <1>1, <1>2, ScrollDownGood
<1>3. ASSUME InRegion(t) PROVE scrollUp(t, t.cur.y, n) \in Good(P, s)
  BY <1>1, <1>3, ScrollUpGood
<1> QED BY <1>2, <1>3 DEF insertBlankLines, deleteLines

(* The first cell of a row of text. *)
LEMMA SetCharGood ==
  ASSUME NEW P, NEW s, NEW t \in Good(P, s), NEW y \in Rows(t)
  PROVE  setChar(t, y) \in Good(P, s) /\ setChar(t, y).rows = t.rows
PROOF
<1>1. /\ t \in Screens /\ Fits(t) /\ Texts(t, P) /\ t.sync = s /\ t.hook = "none"
      /\ t.rows \in Nat \ {0} /\ Rows(t) = 0..(t.rows - 1)
      /\ t.lines \in Grid(t.rows) /\ t.alt \in Grid(t.rows)
      /\ t.altOn \in BOOLEAN /\ t.fresh \in Nat \ {0}
  BY GoodParts
<1> DEFINE R == Rows(t)
           v == IF t.altOn THEN AltText ELSE t.fresh
           L == [t.lines EXCEPT ![y] = v]
           F == IF t.altOn THEN t.fresh ELSE t.fresh + 1
           u == [t EXCEPT !.lines = L, !.fresh = F]
<1>2. v \in Int /\ F \in Nat \ {0} /\ F >= t.fresh
  BY <1>1 DEF AltText
<1>3. DOMAIN t.lines = R /\ \A z \in R : t.lines[z] \in Int /\ t.alt[z] \in Int
  BY <1>1 DEF Grid
<1>4. L \in Grid(t.rows) /\ \A z \in R : L[z] = IF z = y THEN v ELSE t.lines[z]
  BY <1>1, <1>2, <1>3 DEF Grid
<1>h. Held(R, t.lines, t.alt, t.altOn, t.fresh, t.out, P)
  BY <1>1 DEF Texts
<1>v. IF t.altOn THEN v = AltText /\ F = t.fresh ELSE v = t.fresh /\ F = t.fresh + 1
  OBVIOUS
<1> HIDE DEF L, F, v, R
<1>5. /\ u \in Screens /\ u.cur = t.cur
      /\ u.cols = t.cols /\ u.rows = t.rows /\ u.lines = L /\ u.alt = t.alt
      /\ u.top = t.top /\ u.bottom = t.bottom /\ u.altOn = t.altOn
      /\ u.sync = t.sync /\ u.tabs = t.tabs /\ u.fresh = F /\ u.out = t.out
      /\ u.hook = t.hook
  <2>1. L \in Grids
    BY <1>1, <1>4, GridIsGrid
  <2> QED BY <1>1, <1>2, <2>1 DEF Screens
<1> HIDE DEF u
<1>6. Fits(u)
  BY <1>1, <1>4, <1>5 DEF Fits, Framed, CursorOn, InRegion
<1>b. /\ P \subseteq 1..(F - 1) /\ v \notin P
      /\ v >= AltText /\ v < F /\ v # Blank
      /\ IF t.altOn THEN v = AltText ELSE v = t.fresh /\ v # AltText
  <2>1. P \subseteq 1..(t.fresh - 1)
    BY <1>h DEF Held
  <2>2. CASE t.altOn
    BY <1>1, <1>v, <2>1, <2>2 DEF AltText, Blank
  <2>3. CASE ~t.altOn
    BY <1>1, <1>v, <2>1, <2>3 DEF AltText, Blank
  <2> QED BY <1>1, <2>2, <2>3
<1>c. \A z \in R : t.alt[z] < F /\ t.lines[z] < F
  BY <1>1, <1>2, <1>3, <1>h DEF Held
<1>d. ASSUME NEW z \in R
      PROVE  /\ L[z] >= AltText /\ L[z] < F /\ L[z] \notin P
             /\ t.alt[z] >= AltText /\ t.alt[z] < F /\ t.alt[z] \notin P
             /\ IF t.altOn THEN t.alt[z] # AltText ELSE L[z] # AltText
  BY <1>4, <1>b, <1>c, <1>h DEF Held
<1>e. ASSUME v > Blank
      PROVE  /\ \A z \in R : t.lines[z] # v /\ t.alt[z] # v
             /\ \A i \in DOMAIN t.out : t.out[i] # v
  <2>1. v = t.fresh
    BY <1>b, <1>e DEF AltText, Blank
  <2> QED BY <1>1, <1>h, <2>1 DEF Held
<1>f. ASSUME NEW w \in R, NEW z \in R
      PROVE  /\ L[w] > Blank => L[w] # t.alt[z]
             /\ w # z /\ L[w] > Blank => L[w] # L[z]
             /\ w # z /\ t.alt[w] > Blank => t.alt[w] # t.alt[z]
  <2>1. /\ L[w] = IF w = y THEN v ELSE t.lines[w]
        /\ L[z] = IF z = y THEN v ELSE t.lines[z]
    BY <1>4
  <2>2. L[w] > Blank => L[w] # t.alt[z]
    BY <1>e, <1>h, <2>1 DEF Held
  <2>3. w # z /\ t.alt[w] > Blank => t.alt[w] # t.alt[z]
    BY <1>h DEF Held
  <2>4. ASSUME w # z, L[w] > Blank PROVE L[w] # L[z]
    <3>1. CASE w = y
      BY <1>e, <2>1, <2>4, <3>1
    <3>2. CASE w # y /\ z # y
      BY <1>h, <2>1, <2>4, <3>2 DEF Held
    <3>3. CASE w # y /\ z = y
      <4>1. L[w] = t.lines[w] /\ L[z] = v
        BY <2>1, <3>3
      <4>2. v > Blank => t.lines[w] # v
        BY <1>e
      <4> QED BY <2>4, <4>1, <4>2
    <3> QED BY <3>1, <3>2, <3>3
  <2> QED BY <2>2, <2>3, <2>4
<1>g. t.out \in Seq(Int)
  BY GoodParts
<1>i. ASSUME NEW i \in DOMAIN t.out
      PROVE  /\ t.out[i] >= Blank /\ t.out[i] < F /\ t.out[i] \notin P
             /\ t.out[i] > Blank => /\ \A z \in R : L[z] # t.out[i] /\ t.alt[z] # t.out[i]
                                    /\ \A j \in DOMAIN t.out : i # j => t.out[i] # t.out[j]
  <2>1. t.out[i] \in Int
    BY <1>g
  <2>2. /\ t.out[i] >= Blank /\ t.out[i] < F /\ t.out[i] \notin P
    BY <1>1, <1>2, <1>h, <2>1 DEF Held
  <2>3. ASSUME t.out[i] > Blank
        PROVE  /\ \A z \in R : L[z] # t.out[i] /\ t.alt[z] # t.out[i]
               /\ \A j \in DOMAIN t.out : i # j => t.out[i] # t.out[j]
    BY <1>4, <1>e, <1>h, <2>3 DEF Held
  <2> QED BY <2>2, <2>3
<1>7. Held(R, L, t.alt, t.altOn, F, t.out, P)
  BY <1>b, <1>d, <1>f, <1>i DEF Held
<1>8. Texts(u, P)
  BY <1>5, <1>7 DEF Texts, Rows, R
<1>9. u \in Good(P, s)
  BY <1>1, <1>5, <1>6, <1>8 DEF Good
<1>a. setChar(t, y) = t \/ setChar(t, y) = u
  <2>1. CASE t.lines[y] # Blank
    BY <2>1 DEF setChar
  <2>2. CASE t.lines[y] = Blank /\ t.altOn
    BY <2>2 DEF setChar, u, L, v, F
  <2>3. CASE t.lines[y] = Blank /\ ~t.altOn
    BY <2>3 DEF setChar, u, L, v, F
  <2> QED BY <2>1, <2>2, <2>3
<1> QED BY <1>5, <1>9, <1>a

(* What no handler's correctness rests on may be set to anything. *)
LEMMA GoodSame ==
  ASSUME NEW P, NEW s, NEW t \in Good(P, s), NEW u \in Screens,
         u.cols = t.cols, u.rows = t.rows, u.lines = t.lines, u.alt = t.alt, u.cur = t.cur,
         u.top = t.top, u.bottom = t.bottom, u.altOn = t.altOn, u.tabs = t.tabs,
         u.fresh = t.fresh, u.out = t.out, u.sync = t.sync, u.hook = t.hook
  PROVE  u \in Good(P, s)
PROOF
<1>1. Fits(t) /\ Texts(t, P) /\ t.sync = s /\ t.hook = "none"
  BY DEF Good
<1>2. Fits(u)
  BY <1>1 DEF Fits, Framed, CursorOn, InRegion
<1>3. Texts(u, P)
  BY <1>1 DEF Texts, Rows
<1> QED BY <1>1, <1>2, <1>3 DEF Good

(* The last rune printed.                                                  *)
LEMMA LastGood ==
  ASSUME NEW P, NEW s, NEW t \in Good(P, s), NEW width \in {1, 2}
  PROVE  [t EXCEPT !.last = width] \in Good(P, s)
PROOF
<1> DEFINE u == [t EXCEPT !.last = width]
<1>1. t \in Screens
  BY GoodParts
<1>2. /\ u \in Screens
      /\ u.cols = t.cols /\ u.rows = t.rows /\ u.lines = t.lines /\ u.alt = t.alt
      /\ u.cur = t.cur /\ u.top = t.top /\ u.bottom = t.bottom /\ u.altOn = t.altOn
      /\ u.tabs = t.tabs /\ u.fresh = t.fresh /\ u.out = t.out /\ u.sync = t.sync
      /\ u.hook = t.hook
  BY <1>1 DEF Screens
<1> HIDE DEF u
<1>3. u \in Good(P, s)
  BY <1>2, GoodSame
<1> QED BY <1>3 DEF u

(* Modes that touch nothing else.                                          *)
LEMMA ModesGood ==
  ASSUME NEW P, NEW s, NEW t \in Good(P, s), NEW set \in BOOLEAN
  PROVE  /\ [t EXCEPT !.wrap = set] \in Good(P, s)
         /\ [t EXCEPT !.insert = set] \in Good(P, s)
         /\ [t EXCEPT !.crlf = set] \in Good(P, s)
PROOF
<1> DEFINE a == [t EXCEPT !.wrap = set]
           b == [t EXCEPT !.insert = set]
           c == [t EXCEPT !.crlf = set]
<1>1. t \in Screens
  BY GoodParts
<1>2. /\ a \in Screens
      /\ a.cols = t.cols /\ a.rows = t.rows /\ a.lines = t.lines /\ a.alt = t.alt
      /\ a.cur = t.cur /\ a.top = t.top /\ a.bottom = t.bottom /\ a.altOn = t.altOn
      /\ a.tabs = t.tabs /\ a.fresh = t.fresh /\ a.out = t.out /\ a.sync = t.sync
      /\ a.hook = t.hook
  BY <1>1 DEF Screens
<1>3. /\ b \in Screens
      /\ b.cols = t.cols /\ b.rows = t.rows /\ b.lines = t.lines /\ b.alt = t.alt
      /\ b.cur = t.cur /\ b.top = t.top /\ b.bottom = t.bottom /\ b.altOn = t.altOn
      /\ b.tabs = t.tabs /\ b.fresh = t.fresh /\ b.out = t.out /\ b.sync = t.sync
      /\ b.hook = t.hook
  BY <1>1 DEF Screens
<1>4. /\ c \in Screens
      /\ c.cols = t.cols /\ c.rows = t.rows /\ c.lines = t.lines /\ c.alt = t.alt
      /\ c.cur = t.cur /\ c.top = t.top /\ c.bottom = t.bottom /\ c.altOn = t.altOn
      /\ c.tabs = t.tabs /\ c.fresh = t.fresh /\ c.out = t.out /\ c.sync = t.sync
      /\ c.hook = t.hook
  BY <1>1 DEF Screens
<1> HIDE DEF a, b, c
<1>5. a \in Good(P, s)
  BY <1>2, GoodSame
<1>6. b \in Good(P, s)
  BY <1>3, GoodSame
<1>7. c \in Good(P, s)
  BY <1>4, GoodSame
<1> QED BY <1>5, <1>6, <1>7 DEF a, b, c

(* Tab stops may be any columns of the screen.                             *)
LEMMA TabsGood ==
  ASSUME NEW P, NEW s, NEW t \in Good(P, s), NEW T, T \subseteq 0..(t.cols - 1)
  PROVE  [t EXCEPT !.tabs = T] \in Good(P, s)
PROOF
<1> DEFINE u == [t EXCEPT !.tabs = T]
<1>1. t \in Screens /\ Fits(t) /\ Texts(t, P) /\ t.sync = s /\ t.hook = "none"
  BY GoodParts
<1>2. T \in SUBSET Int
  BY CursorIsInt
<1>3. /\ u \in Screens /\ u.tabs = T
      /\ u.cols = t.cols /\ u.rows = t.rows /\ u.lines = t.lines /\ u.alt = t.alt
      /\ u.cur = t.cur /\ u.top = t.top /\ u.bottom = t.bottom /\ u.altOn = t.altOn
      /\ u.fresh = t.fresh /\ u.out = t.out /\ u.sync = t.sync /\ u.hook = t.hook
  BY <1>1, <1>2 DEF Screens
<1> HIDE DEF u
<1>4. Fits(u)
  BY <1>1, <1>3 DEF Fits, Framed, CursorOn, InRegion
<1>5. Texts(u, P)
  BY <1>1, <1>3 DEF Texts, Rows
<1>6. u \in Good(P, s)
  BY <1>1, <1>3, <1>4, <1>5 DEF Good
<1> QED BY <1>6 DEF u

LEMMA SaveCursorGood ==
  ASSUME NEW P, NEW s, NEW t \in Good(P, s)
  PROVE  saveCursor(t) \in Good(P, s)
PROOF
<1> DEFINE u == [t EXCEPT !.saved = t.cur]
<1>1. t \in Screens
  BY GoodParts
<1>2. /\ u \in Screens
      /\ u.cols = t.cols /\ u.rows = t.rows /\ u.lines = t.lines /\ u.alt = t.alt
      /\ u.cur = t.cur /\ u.top = t.top /\ u.bottom = t.bottom /\ u.altOn = t.altOn
      /\ u.tabs = t.tabs /\ u.fresh = t.fresh /\ u.out = t.out /\ u.sync = t.sync
      /\ u.hook = t.hook
  BY <1>1 DEF Screens
<1> HIDE DEF u
<1>3. u \in Good(P, s)
  BY <1>2, GoodSame
<1> QED BY <1>3 DEF u, saveCursor

LEMMA RestoreCursorGood ==
  ASSUME NEW P, NEW s, NEW t \in Good(P, s)
  PROVE  restoreCursor(t) \in Good(P, s)
PROOF
<1>1. t \in Screens
  BY GoodParts
<1>2. t.saved \in Cursors
  BY <1>1 DEF Screens
<1>3. t.saved.x \in Int /\ t.saved.y \in Int
  BY <1>2 DEF Cursors
<1>4. [t EXCEPT !.cur = t.saved] \in Loose(P, s)
  BY <1>2, GoodIsLoose, CursorMoves
<1> QED BY <1>3, <1>4, LooseMoveTo DEF restoreCursor

LEMMA SetOriginGood ==
  ASSUME NEW P, NEW s, NEW t \in Good(P, s), NEW set \in BOOLEAN
  PROVE  setOrigin(t, set) \in Good(P, s)
PROOF
<1> DEFINE c == [t.cur EXCEPT !.origin = set]
<1>1. t.cur \in Cursors
  BY GoodParts
<1>2. c \in Cursors
  BY <1>1 DEF Cursors
<1> HIDE DEF c
<1>3. [t EXCEPT !.cur = c] \in Loose(P, s)
  BY <1>2, GoodIsLoose, CursorMoves
<1>4. moveAbsTo([t EXCEPT !.cur = c], 0, 0) \in Good(P, s)
  BY <1>3, LooseMoveAbsTo
<1> QED BY <1>4 DEF setOrigin, c

(* A new region leaves the cursor where it is, until the move that follows. *)
LEMMA SetScrollLoose ==
  ASSUME NEW P, NEW s, NEW t \in Loose(P, s), NEW a \in Int, NEW b \in Int
  PROVE  setScroll(t, a, b) \in Loose(P, s)
PROOF
<1> DEFINE p == Clamp(a, 0, t.rows - 1)
           q == Clamp(b, 0, t.rows - 1)
           lo == Lesser(p, q)
           hi == Greater(p, q)
           u == [t EXCEPT !.top = lo, !.bottom = hi]
<1>1. t \in Screens /\ Framed(t) /\ Texts(t, P) /\ t.sync = s /\ t.hook = "none"
  BY DEF Loose
<1>2. t.rows \in Nat \ {0}
  BY <1>1 DEF Screens
<1>3. p \in 0..(t.rows - 1) /\ q \in 0..(t.rows - 1)
  BY <1>2 DEF Clamp
<1> HIDE DEF p, q
<1>4. lo \in Int /\ hi \in Int /\ 0 <= lo /\ lo <= hi /\ hi < t.rows
  BY <1>2, <1>3 DEF Lesser, Greater
<1>5. setScroll(t, a, b) = u
  BY DEF setScroll, p, q
<1> HIDE DEF lo, hi
<1>6. /\ u \in Screens /\ u.top = lo /\ u.bottom = hi
      /\ u.cols = t.cols /\ u.rows = t.rows /\ u.lines = t.lines /\ u.alt = t.alt
      /\ u.altOn = t.altOn /\ u.tabs = t.tabs
      /\ u.fresh = t.fresh /\ u.out = t.out /\ u.sync = t.sync /\ u.hook = t.hook
  BY <1>1, <1>4 DEF Screens
<1> HIDE DEF u
<1>7. Framed(u)
  BY <1>1, <1>4, <1>6 DEF Framed
<1>8. Texts(u, P)
  BY <1>1, <1>6 DEF Texts, Rows
<1> QED BY <1>1, <1>5, <1>6, <1>7, <1>8 DEF Loose

(* The swap of the screens.                                                *)
LEMMA SwapGood ==
  ASSUME NEW P, NEW s, NEW t \in Good(P, s)
  PROVE  swapScreen(t) \in Good(P, s)
PROOF
<1> DEFINE u == [t EXCEPT !.lines = t.alt, !.alt = t.lines, !.altOn = ~t.altOn]
<1>1. /\ t \in Screens /\ Fits(t) /\ Texts(t, P) /\ t.sync = s /\ t.hook = "none"
      /\ t.altOn \in BOOLEAN /\ t.lines \in Grid(t.rows) /\ t.alt \in Grid(t.rows)
  BY GoodParts
<1>2. /\ u \in Screens
      /\ u.lines = t.alt /\ u.alt = t.lines /\ u.altOn = (~t.altOn)
      /\ u.cols = t.cols /\ u.rows = t.rows /\ u.cur = t.cur
      /\ u.top = t.top /\ u.bottom = t.bottom
      /\ u.tabs = t.tabs /\ u.fresh = t.fresh /\ u.out = t.out /\ u.sync = t.sync
      /\ u.hook = t.hook
  BY <1>1 DEF Screens
<1> HIDE DEF u
<1>3. Fits(u)
  BY <1>1, <1>2 DEF Fits, Framed, CursorOn, InRegion
<1>4. Held(Rows(t), t.lines, t.alt, t.altOn, t.fresh, t.out, P)
  BY <1>1 DEF Texts
<1>5. Held(Rows(t), t.alt, t.lines, ~t.altOn, t.fresh, t.out, P)
  <2>1. \A y \in Rows(t) : IF ~t.altOn THEN t.lines[y] # AltText ELSE t.alt[y] # AltText
    BY <1>1, <1>4 DEF Held
  <2>2. \A y, z \in Rows(t) : t.alt[y] > Blank => t.alt[y] # t.lines[z]
    <3> SUFFICES ASSUME NEW y \in Rows(t), NEW z \in Rows(t), t.alt[y] > Blank,
                        t.alt[y] = t.lines[z]
                 PROVE  FALSE
      OBVIOUS
    <3> QED BY <1>4 DEF Held
  <2> QED BY <1>4, <2>1, <2>2 DEF Held
<1>6. Texts(u, P)
  BY <1>2, <1>5 DEF Texts, Rows
<1>7. u \in Good(P, s)
  BY <1>1, <1>2, <1>3, <1>6 DEF Good
<1> QED BY <1>7 DEF u, swapScreen

LEMMA AltGood ==
  ASSUME NEW P, NEW s, NEW t \in Good(P, s), NEW set \in BOOLEAN
  PROVE  /\ setAlt(t, set) \in Good(P, s)
         /\ setSaved(t, set) \in Good(P, s)
         /\ setAltSaved(t, set) \in Good(P, s)
PROOF
<1>1. ASSUME NEW u \in Good(P, s) PROVE setSaved(u, set) \in Good(P, s)
  BY SaveCursorGood, RestoreCursorGood DEF setSaved
<1>2. setAlt(t, set) \in Good(P, s)
  <2> DEFINE c == IF t.altOn THEN clearAll(t) ELSE t
  <2>1. c \in Good(P, s)
    BY ClearAllGood
  <2> HIDE DEF c
  <2>2. swapScreen(c) \in Good(P, s)
    BY <2>1, SwapGood
  <2> QED BY <2>1, <2>2 DEF setAlt, c
<1> QED BY <1>1, <1>2 DEF setAltSaved

(* A rune, with the wrap before it.                                        *)
LEMMA ParseGood ==
  ASSUME NEW P, NEW s, NEW t \in Good(P, s), NEW width \in {1, 2}
  PROVE  parse(t, width) \in Good(P, s)
PROOF
<1> DEFINE w == Wrapped(t, width)
           i == IF w.insert THEN insertBlanks(w, width) ELSE w
           v == setChar(i, i.cur.y)
           r == [v EXCEPT !.last = width]
           step == IF width = 2 /\ r.cur.x + 1 < r.cols THEN 2 ELSE 1
           c == [r.cur EXCEPT !.wrapNext = TRUE]
<1>1. w \in Good(P, s)
  <2> DEFINE a == IF t.wrap /\ t.cur.wrapNext THEN newline(t, TRUE) ELSE t
  <2>1. a \in Good(P, s)
    BY NewlineGood
  <2>2. w = IF width = 2 /\ a.cur.x = a.cols - 1 THEN newline(a, TRUE) ELSE a
    BY DEF Wrapped
  <2> HIDE DEF a, w
  <2> QED BY <2>1, <2>2, NewlineGood
<1> HIDE DEF w
<1>2. i \in Good(P, s)
  BY <1>1, EditRowGood
<1> HIDE DEF i
<1>3. v \in Good(P, s)
  BY <1>2, GoodParts, SetCharGood
<1> HIDE DEF v
<1>4. r \in Good(P, s)
  BY <1>3, LastGood
<1> HIDE DEF r
<1>5. r.cur \in Cursors /\ r.cur.x \in Int /\ r.cur.y \in Int
  BY <1>4, GoodParts, CursorIsInt
<1>6. step \in Int
  OBVIOUS
<1>7. parse(t, width) = IF r.cur.x + step < r.cols THEN moveTo(r, r.cur.x + step, r.cur.y)
                        ELSE [r EXCEPT !.cur = c]
  BY DEF parse, r, v, i, w
<1> HIDE DEF step
<1>8. moveTo(r, r.cur.x + step, r.cur.y) \in Good(P, s)
  BY <1>4, <1>5, <1>6, MoveTo
<1>9. [r EXCEPT !.cur = c] \in Good(P, s)
  <2>1. Fits(r)
    BY <1>4 DEF Good
  <2>2. c \in Cursors /\ c.x = r.cur.x /\ c.y = r.cur.y /\ c.origin = r.cur.origin
    BY <1>5 DEF Cursors
  <2> HIDE DEF c
  <2>3. CursorOn(r, c) /\ (c.origin => c.y \in r.top..r.bottom)
    BY <2>1, <2>2 DEF Fits, CursorOn, InRegion
  <2> QED BY <1>4, <2>2, <2>3, GoodIsLoose, CursorMoves
<1> QED BY <1>7, <1>8, <1>9

(* What is repeated leaves the screen as good as one call does. *)
LEMMA RepeatGood ==
  ASSUME NEW P, NEW s, NEW t \in Good(P, s), t.last # 0, NEW n \in Nat
  PROVE  repeatLast(t, n) \in Good(P, s)
PROOF
<1> DEFINE m == Lesser(n, t.cols * t.rows)
           w == t.last
           D == Good(P, s)
           F == [i \in 1..m |-> [u \in D |-> parse(u, w)]]
           f == CHOOSE f : f = [i \in 0..m |-> IF i = 0 THEN t ELSE parse(f[i - 1], w)]
<1>1. m \in Nat
  <2>1. t.cols \in Nat /\ t.rows \in Nat
    BY GoodParts
  <2>2. t.cols * t.rows \in Nat
    BY <2>1
  <2> QED BY <2>2 DEF Lesser
<1>2. w \in {1, 2}
  BY GoodParts DEF Screens
<1>3. repeatLast(t, n) = f[m]
  BY DEF repeatLast
<1> HIDE DEF m, w, D
<1>t. t \in D
  BY DEF D
<1>4. \A u \in D : parse(u, w) \in D
  BY <1>2, ParseGood DEF D
<1>5. F \in [1..m -> [D -> D]]
  BY <1>4
<1>e. PICK g : Iterates(g, m, D, t, F)
  <2> HIDE DEF F, f
  <2> QED BY <1>t, <1>1, <1>5, Iterated
<1>6. g \in [0..m -> D] /\ g = [i \in 0..m |-> IF i = 0 THEN t ELSE F[i][g[i - 1]]]
  <2> HIDE DEF F, f
  <2> QED BY <1>e DEF Iterates
<1>7. \A i \in 1..m : F[i][g[i - 1]] = parse(g[i - 1], w)
  <2> HIDE DEF F, f
  <2>1. \A i \in 1..m : i - 1 \in 0..m
    BY <1>1
  <2>2. \A i \in 1..m : g[i - 1] \in D
    BY <1>6, <2>1
  <2> QED BY <2>2 DEF F
<1>8. g = [i \in 0..m |-> IF i = 0 THEN t ELSE parse(g[i - 1], w)]
  <2> HIDE DEF F, f
  <2>1. \A i \in 0..m : i = 0 \/ i \in 1..m
    BY <1>1
  <2> QED BY <1>6, <1>7, <2>1
<1>9. f = [i \in 0..m |-> IF i = 0 THEN t ELSE parse(f[i - 1], w)]
  <2> HIDE DEF F
  <2> QED BY <1>8
<1> HIDE DEF F, f
<1> DEFINE T == {i \in 0..m : f[i] \in D}
<1>a. 0 \in T
  BY <1>t, <1>1, <1>9
<1>b. ASSUME NEW i \in 1..m, i - 1 \in T PROVE i \in T
  <2>1. i \in 0..m /\ i # 0 /\ f[i - 1] \in D
    BY <1>1, <1>b
  <2>2. f[i] = parse(f[i - 1], w)
    BY <1>9, <2>1
  <2> QED BY <1>4, <2>1, <2>2
<1> HIDE DEF T
<1>c. 0..m \subseteq T
  BY <1>1, <1>a, <1>b, SetInduction
<1>d. f[m] \in D
  BY <1>1, <1>c DEF T
<1> QED BY <1>3, <1>d DEF D

LEMMA PutTabGood ==
  ASSUME NEW P, NEW s, NEW t \in Good(P, s), NEW forward
  PROVE  putTab(t, forward) \in Good(P, s)
PROOF
<1> DEFINE ahead == {x \in t.tabs : x > t.cur.x} \cup {t.cols}
           behind == {x \in t.tabs : x < t.cur.x} \cup {0}
<1>1. t.cols \in Nat /\ t.cur.x \in Int /\ t.cur.y \in Int /\ t.tabs \subseteq 0..(t.cols - 1)
  BY GoodParts, CursorIsInt
<1>2. ahead \in SUBSET Nat /\ ahead # {}
  BY <1>1
<1>3. behind \in SUBSET (0..t.cols) /\ behind # {}
  BY <1>1
<1>4. putTab(t, forward) = IF forward THEN moveTo(t, Min(ahead), t.cur.y)
                           ELSE IF t.cur.x = 0 THEN t ELSE moveTo(t, Max(behind), t.cur.y)
  BY DEF putTab
<1> HIDE DEF ahead, behind
<1>5. Min(ahead) \in Int
  <2>1. \E m \in ahead : \A k \in ahead : m <= k
    BY <1>2, LeastNatural
  <2>2. Min(ahead) \in ahead
    BY <2>1 DEF Min
  <2>3. \A k \in ahead : k \in Int
    BY <1>2
  <2> QED BY <2>2, <2>3
<1>6. Max(behind) \in Int
  <2>1. \E m \in behind : \A k \in behind : k <= m
    BY <1>1, <1>3, GreatestNatural
  <2>2. \E m \in behind : \A k \in behind : m >= k
    BY <1>1, <1>3, <2>1
  <2>3. Max(behind) \in behind
    BY <2>2 DEF Max
  <2>4. \A k \in behind : k \in Int
    BY <1>1, <1>3
  <2> QED BY <2>3, <2>4
<1>7. moveTo(t, Min(ahead), t.cur.y) \in Good(P, s)
  BY <1>1, <1>5, MoveTo
<1>8. moveTo(t, Max(behind), t.cur.y) \in Good(P, s)
  BY <1>1, <1>6, MoveTo
<1> QED BY <1>4, <1>7, <1>8

LEMMA PutTabsGood ==
  ASSUME NEW P, NEW s, NEW t \in Good(P, s), NEW forward, NEW n \in Nat
  PROVE  putTabs(t, forward, n) \in Good(P, s)
PROOF
<1> DEFINE m == Lesser(n, t.cols)
           D == Good(P, s)
           F == [i \in 1..m |-> [u \in D |-> putTab(u, forward)]]
           f == CHOOSE f : f = [i \in 0..m |-> IF i = 0 THEN t ELSE putTab(f[i - 1], forward)]
<1>1. m \in Nat
  BY GoodParts DEF Lesser
<1>3. putTabs(t, forward, n) = f[m]
  BY DEF putTabs
<1> HIDE DEF m, D
<1>t. t \in D
  BY DEF D
<1>4. \A u \in D : putTab(u, forward) \in D
  BY PutTabGood DEF D
<1>5. F \in [1..m -> [D -> D]]
  BY <1>4
<1>e. PICK g : Iterates(g, m, D, t, F)
  <2> HIDE DEF F, f
  <2> QED BY <1>t, <1>1, <1>5, Iterated
<1>6. g \in [0..m -> D] /\ g = [i \in 0..m |-> IF i = 0 THEN t ELSE F[i][g[i - 1]]]
  <2> HIDE DEF F, f
  <2> QED BY <1>e DEF Iterates
<1>7. \A i \in 1..m : F[i][g[i - 1]] = putTab(g[i - 1], forward)
  <2> HIDE DEF F, f
  <2>1. \A i \in 1..m : i - 1 \in 0..m
    BY <1>1
  <2>2. \A i \in 1..m : g[i - 1] \in D
    BY <1>6, <2>1
  <2> QED BY <2>2 DEF F
<1>8. g = [i \in 0..m |-> IF i = 0 THEN t ELSE putTab(g[i - 1], forward)]
  <2> HIDE DEF F, f
  <2>1. \A i \in 0..m : i = 0 \/ i \in 1..m
    BY <1>1
  <2> QED BY <1>6, <1>7, <2>1
<1>9. f = [i \in 0..m |-> IF i = 0 THEN t ELSE putTab(f[i - 1], forward)]
  <2> HIDE DEF F
  <2> QED BY <1>8
<1> HIDE DEF F, f
<1> DEFINE T == {i \in 0..m : f[i] \in D}
<1>a. 0 \in T
  BY <1>t, <1>1, <1>9
<1>b. ASSUME NEW i \in 1..m, i - 1 \in T PROVE i \in T
  <2>1. i \in 0..m /\ i # 0 /\ f[i - 1] \in D
    BY <1>1, <1>b
  <2>2. f[i] = putTab(f[i - 1], forward)
    BY <1>9, <2>1
  <2> QED BY <1>4, <2>1, <2>2
<1> HIDE DEF T
<1>c. 0..m \subseteq T
  BY <1>1, <1>a, <1>b, SetInduction
<1>d. f[m] \in D
  BY <1>1, <1>c DEF T
<1> QED BY <1>3, <1>d DEF D

LEMMA AlignmentGood ==
  ASSUME NEW P, NEW s, NEW t \in Good(P, s)
  PROVE  alignmentTest(t) \in Good(P, s)
PROOF
<1> DEFINE m == t.rows
           D == {u \in Good(P, s) : u.rows = m}
           F == [i \in 1..m |-> [u \in D |-> setChar(u, i - 1)]]
           f == CHOOSE f : f = [i \in 0..m |-> IF i = 0 THEN t ELSE setChar(f[i - 1], i - 1)]
<1>1. m \in Nat
  BY GoodParts
<1>3. alignmentTest(t) = f[m]
  BY DEF alignmentTest
<1>t. t \in D
  OBVIOUS
<1>4. \A i \in 1..m : \A u \in D : setChar(u, i - 1) \in D
  <2> SUFFICES ASSUME NEW i \in 1..m, NEW u \in D PROVE setChar(u, i - 1) \in D
    OBVIOUS
  <2> HIDE DEF F, f
  <2>1. i - 1 \in Rows(u)
    BY <1>1 DEF Rows
  <2> QED BY <2>1, SetCharGood
<1> HIDE DEF m, D
<1>5. F \in [1..m -> [D -> D]]
  BY <1>4
<1>e. PICK g : Iterates(g, m, D, t, F)
  <2> HIDE DEF F, f
  <2> QED BY <1>t, <1>1, <1>5, Iterated
<1>6. g \in [0..m -> D] /\ g = [i \in 0..m |-> IF i = 0 THEN t ELSE F[i][g[i - 1]]]
  <2> HIDE DEF F, f
  <2> QED BY <1>e DEF Iterates
<1>7. \A i \in 1..m : F[i][g[i - 1]] = setChar(g[i - 1], i - 1)
  <2> HIDE DEF F, f
  <2>1. \A i \in 1..m : i - 1 \in 0..m
    BY <1>1
  <2>2. \A i \in 1..m : g[i - 1] \in D
    BY <1>6, <2>1
  <2> QED BY <2>2 DEF F
<1>8. g = [i \in 0..m |-> IF i = 0 THEN t ELSE setChar(g[i - 1], i - 1)]
  <2> HIDE DEF F, f
  <2>1. \A i \in 0..m : i = 0 \/ i \in 1..m
    BY <1>1
  <2> QED BY <1>6, <1>7, <2>1
<1>9. f = [i \in 0..m |-> IF i = 0 THEN t ELSE setChar(f[i - 1], i - 1)]
  <2> HIDE DEF F
  <2> QED BY <1>8
<1> HIDE DEF F, f
<1> DEFINE T == {i \in 0..m : f[i] \in D}
<1>a. 0 \in T
  BY <1>t, <1>1, <1>9
<1>b. ASSUME NEW i \in 1..m, i - 1 \in T PROVE i \in T
  <2>1. i \in 0..m /\ i # 0 /\ f[i - 1] \in D
    BY <1>1, <1>b
  <2>2. f[i] = setChar(f[i - 1], i - 1)
    BY <1>9, <2>1
  <2> QED BY <1>4, <2>1, <2>2
<1> HIDE DEF T
<1>c. 0..m \subseteq T
  BY <1>1, <1>a, <1>b, SetInduction
<1>d. f[m] \in D
  BY <1>1, <1>c DEF T
<1> QED BY <1>3, <1>d DEF D

(* What the calls of onSync tell: a change of the mode. *)
Told(s0, s1) == IF s1 /\ ~s0 THEN "begin" ELSE IF ~s1 /\ s0 THEN "end" ELSE "none"

(* A screen after handlers that may have changed the mode.                 *)
Written(P, s) == {u \in Screens : Fits(u) /\ Texts(u, P) /\ u.hook = Told(s, u.sync)}

LEMMA GoodIsWritten ==
  ASSUME NEW P, NEW s, NEW t \in Good(P, s)
  PROVE  t \in Written(P, s)
BY DEF Good, Written, Told

LEMMA SetSyncWritten ==
  ASSUME NEW P, NEW s \in BOOLEAN, NEW t \in Good(P, s), NEW set \in BOOLEAN
  PROVE  setSync(t, set) \in Written(P, s)
PROOF
<1> DEFINE h == IF set /\ ~t.sync THEN "begin" ELSE IF ~set /\ t.sync THEN "end" ELSE "none"
           u == [t EXCEPT !.sync = set, !.hook = h]
<1>1. t \in Screens /\ Fits(t) /\ Texts(t, P) /\ t.sync = s
  BY GoodParts
<1>2. h = Told(s, set) /\ h \in {"none", "begin", "end"}
  BY <1>1 DEF Told
<1>3. setSync(t, set) = u
  BY DEF setSync
<1> HIDE DEF h
<1>4. /\ u \in Screens /\ u.sync = set /\ u.hook = h
      /\ u.cols = t.cols /\ u.rows = t.rows /\ u.lines = t.lines /\ u.alt = t.alt
      /\ u.cur = t.cur /\ u.top = t.top /\ u.bottom = t.bottom /\ u.altOn = t.altOn
      /\ u.tabs = t.tabs /\ u.fresh = t.fresh /\ u.out = t.out
  BY <1>1, <1>2 DEF Screens
<1> HIDE DEF u
<1>5. Fits(u)
  BY <1>1, <1>4 DEF Fits, Framed, CursorOn, InRegion
<1>6. Texts(u, P)
  BY <1>1, <1>4 DEF Texts, Rows
<1> QED BY <1>2, <1>3, <1>4, <1>5, <1>6 DEF Written

(* A screen as New makes it. *)
Unused(u, cols, rows) ==
  /\ u \in Screens /\ u.cols = cols /\ u.rows = rows
  /\ u.lines = BlankRows(rows) /\ u.alt = BlankRows(rows)
  /\ u.cur = defaultCursor /\ u.top = 0 /\ u.bottom = rows - 1
  /\ u.altOn = FALSE /\ u.sync = FALSE /\ u.tabs = DefaultTabs(cols)
  /\ u.fresh = 1 /\ u.out = <<>> /\ u.hook = "none"

LEMMA NewScreenIs ==
  ASSUME NEW cols \in Nat \ {0}, NEW rows \in Nat \ {0}
  PROVE  Unused(NewScreen(cols, rows), cols, rows)
PROOF
<1>1. BlankRows(rows) \in Grid(rows) /\ rows \in Nat
  BY DEF BlankRows, Grid, Blank
<1>2. BlankRows(rows) \in Grids
  BY <1>1, GridIsGrid
<1>3. defaultCursor \in Cursors
  BY DEF defaultCursor, Cursors
<1>4. DefaultTabs(cols) \in SUBSET Int /\ rows - 1 \in Int /\ <<>> \in Seq(Int)
  BY DEF DefaultTabs
<1> DEFINE u == NewScreen(cols, rows)
<1>5. /\ u \in Screens /\ u.cols = cols /\ u.rows = rows
      /\ u.lines = BlankRows(rows) /\ u.alt = BlankRows(rows)
      /\ u.cur = defaultCursor /\ u.top = 0 /\ u.bottom = rows - 1
      /\ u.altOn = FALSE /\ u.sync = FALSE /\ u.tabs = DefaultTabs(cols)
      /\ u.fresh = 1 /\ u.out = <<>> /\ u.hook = "none"
  BY <1>2, <1>3, <1>4 DEF NewScreen, Screens
<1> QED BY <1>5 DEF Unused

(* A blank screen holds no text, and its next row of text may be any. *)
LEMMA BlankGood ==
  ASSUME NEW P, NEW F \in Nat \ {0}, P \subseteq 1..(F - 1),
         NEW cols \in Nat \ {0}, NEW rows \in Nat \ {0}
  PROVE  [NewScreen(cols, rows) EXCEPT !.fresh = F] \in Good(P, FALSE)
PROOF
<1> DEFINE n == NewScreen(cols, rows)
           u == [n EXCEPT !.fresh = F]
<1>1. /\ n \in Screens /\ n.cols = cols /\ n.rows = rows
      /\ n.lines = BlankRows(rows) /\ n.alt = BlankRows(rows)
      /\ n.cur = defaultCursor /\ n.top = 0 /\ n.bottom = rows - 1
      /\ n.altOn = FALSE /\ n.sync = FALSE /\ n.tabs = DefaultTabs(cols)
      /\ n.out = <<>> /\ n.hook = "none"
  <2>1. Unused(n, cols, rows)
    BY NewScreenIs
  <2> QED BY <2>1 DEF Unused
<1> HIDE DEF n
<1>2. /\ u \in Screens /\ u.cols = cols /\ u.rows = rows
      /\ u.lines = BlankRows(rows) /\ u.alt = BlankRows(rows)
      /\ u.cur = defaultCursor /\ u.top = 0 /\ u.bottom = rows - 1
      /\ u.altOn = FALSE /\ u.sync = FALSE /\ u.tabs = DefaultTabs(cols)
      /\ u.fresh = F /\ u.out = <<>> /\ u.hook = "none"
  BY <1>1 DEF Screens
<1> HIDE DEF u
<1>3. BlankRows(rows) \in Grid(rows) /\ \A y \in 0..(rows - 1) : BlankRows(rows)[y] = Blank
  BY DEF BlankRows, Grid, Blank
<1>4. DefaultTabs(cols) \subseteq 0..(cols - 1)
  BY DEF DefaultTabs
<1>5. Fits(u)
  BY <1>2, <1>3, <1>4 DEF Fits, Framed, CursorOn, InRegion, defaultCursor
<1>6. Texts(u, P)
  <2>1. Blank \notin P /\ Rows(u) = 0..(rows - 1)
    BY <1>2 DEF Rows, Blank
  <2>2. DOMAIN <<>> = {}
    OBVIOUS
  <2> QED BY <1>2, <1>3, <2>1, <2>2 DEF Texts, Held, Blank, AltText
<1>7. u \in Good(P, FALSE)
  BY <1>2, <1>5, <1>6 DEF Good
<1> QED BY <1>7 DEF u, n

LEMMA ResetWritten ==
  ASSUME NEW P, NEW s \in BOOLEAN, NEW t \in Good(P, s), t.out = <<>>
  PROVE  reset(t) \in Written(P, s)
PROOF
<1> DEFINE n == NewScreen(t.cols, t.rows)
           h == setSync(t, FALSE).hook
           v == [n EXCEPT !.lines = t.lines, !.alt = t.alt, !.fresh = t.fresh, !.hook = h]
           wide == /\ Clamp(Lesser(0, t.cols - 1), 0, t.cols - 1) = 0
                   /\ Clamp(Greater(0, t.cols - 1), 0, t.cols - 1) = t.cols - 1
           lo == Clamp(Lesser(0, t.rows - 1), 0, t.rows - 1)
           hi == Clamp(Greater(0, t.rows - 1), 0, t.rows - 1)
           L == [y \in Rows(v) |-> IF wide /\ y \in lo..hi THEN Blank ELSE v.lines[y]]
           u == [v EXCEPT !.lines = L]
<1>1. /\ t \in Screens /\ t.sync = s /\ t.cols \in Nat \ {0} /\ t.rows \in Nat \ {0}
      /\ t.lines \in Grid(t.rows) /\ t.alt \in Grid(t.rows) /\ t.fresh \in Nat \ {0}
      /\ Rows(t) = 0..(t.rows - 1) /\ Texts(t, P)
  BY GoodParts
<1>2. h = Told(s, FALSE) /\ h \in {"none", "begin", "end"}
  BY <1>1 DEF setSync, Told, Screens
<1>3. /\ n \in Screens /\ n.cols = t.cols /\ n.rows = t.rows
      /\ n.cur = defaultCursor /\ n.top = 0 /\ n.bottom = t.rows - 1
      /\ n.altOn = FALSE /\ n.sync = FALSE /\ n.tabs = DefaultTabs(t.cols)
      /\ n.out = <<>>
  <2>1. Unused(n, t.cols, t.rows)
    BY <1>1, NewScreenIs
  <2> QED BY <2>1 DEF Unused
<1>w. wide /\ lo = 0 /\ hi = t.rows - 1
  BY <1>1 DEF Clamp, Lesser, Greater
<1>r. reset(t) = clearAll(v)
  BY DEF reset
<1> HIDE DEF n, h
<1>4. /\ v \in Screens /\ v.cols = t.cols /\ v.rows = t.rows
      /\ v.cur = defaultCursor /\ v.top = 0 /\ v.bottom = t.rows - 1
      /\ v.altOn = FALSE /\ v.sync = FALSE /\ v.tabs = DefaultTabs(t.cols)
      /\ v.alt = t.alt /\ v.fresh = t.fresh /\ v.out = <<>> /\ v.hook = h
  <2> HIDE DEF wide, lo, hi, L, u
  <2>1. t.lines \in Grids /\ t.alt \in Grids
    BY <1>1, GridIsGrid
  <2>2. v \in Screens
    <3>1. n \in Screens /\ t.fresh \in Nat \ {0} /\ h \in {"none", "begin", "end"}
      BY <1>1, <1>2, <1>3
    <3> QED BY <2>1, <3>1 DEF Screens
  <2>4. /\ v.cols = n.cols /\ v.rows = n.rows /\ v.cur = n.cur /\ v.top = n.top
        /\ v.bottom = n.bottom /\ v.altOn = n.altOn /\ v.sync = n.sync /\ v.tabs = n.tabs
        /\ v.out = n.out
    BY <1>3 DEF Screens
  <2>5. v.alt = t.alt /\ v.fresh = t.fresh /\ v.hook = h
    BY <1>3 DEF Screens
  <2> QED BY <1>3, <2>2, <2>4, <2>5
<1> HIDE DEF v
<1>c. clearAll(v) = u
  BY <1>4 DEF clearAll, clear
<1> HIDE DEF wide, lo, hi
<1>5. Rows(v) = Rows(t)
  BY <1>4 DEF Rows
<1>6. L \in Grid(t.rows) /\ \A y \in Rows(t) : L[y] = Blank
  <2>1. \A y \in Rows(t) : L[y] = Blank
    BY <1>1, <1>5, <1>w
  <2>2. DOMAIN L = Rows(t) /\ L = [y \in DOMAIN L |-> L[y]]
    BY <1>5
  <2> HIDE DEF L
  <2> QED BY <1>1, <2>1, <2>2 DEF Grid, Blank
<1> HIDE DEF L
<1>7. /\ u \in Screens /\ u.lines = L /\ u.cols = t.cols /\ u.rows = t.rows
      /\ u.cur = defaultCursor /\ u.top = 0 /\ u.bottom = t.rows - 1
      /\ u.altOn = FALSE /\ u.sync = FALSE /\ u.tabs = DefaultTabs(t.cols)
      /\ u.alt = t.alt /\ u.fresh = t.fresh /\ u.out = <<>> /\ u.hook = h
  <2>1. L \in Grids
    BY <1>1, <1>6, GridIsGrid
  <2> QED BY <1>4, <2>1, LinesSet
<1> HIDE DEF u
<1>8. DefaultTabs(t.cols) \subseteq 0..(t.cols - 1)
  BY <1>1 DEF DefaultTabs
<1>9. Fits(u)
  BY <1>1, <1>6, <1>7, <1>8 DEF Fits, Framed, CursorOn, InRegion, defaultCursor
<1>a. Texts(u, P)
  <2>1. Held(Rows(t), t.lines, t.alt, t.altOn, t.fresh, t.out, P)
    BY <1>1 DEF Texts
  <2>2. Rows(u) = Rows(t)
    BY <1>7 DEF Rows
  <2>3. DOMAIN <<>> = {}
    OBVIOUS
  <2>4. Blank \notin P
    BY <2>1 DEF Held, Blank
  <2>5. Held(Rows(t), L, t.alt, FALSE, t.fresh, <<>>, P)
    BY <1>1, <1>6, <2>1, <2>3, <2>4 DEF Held, Blank, AltText
  <2> QED BY <1>7, <2>2, <2>5 DEF Texts
<1> QED BY <1>2, <1>7, <1>9, <1>a, <1>r, <1>c DEF Written

(* The tab stops of a resized screen are its own.                          *)
LEMMA TabsAfterIn ==
  ASSUME NEW P, NEW s, NEW t \in Good(P, s), NEW cols \in Nat \ {0}
  PROVE  TabsAfter(t, cols) \subseteq 0..(cols - 1)
PROOF
<1> DEFINE from == IF \E x \in t.tabs : x > 0 THEN Max(t.tabs) ELSE 0
<1>1. t.tabs \subseteq 0..(t.cols - 1) /\ t.cols - 1 \in Nat
  BY GoodParts
<1>2. from \in Nat
  <2>1. CASE \E x \in t.tabs : x > 0
    <3>1. \E m \in t.tabs : \A k \in t.tabs : k <= m
      BY <1>1, <2>1, GreatestNatural
    <3>2. \E m \in t.tabs : \A k \in t.tabs : m >= k
      BY <1>1, <3>1
    <3>3. Max(t.tabs) \in t.tabs
      BY <3>2 DEF Max
    <3>4. \A k \in t.tabs : k \in Nat
      BY <1>1
    <3>5. Max(t.tabs) \in Nat
      BY <3>3, <3>4
    <3> QED BY <2>1, <3>5
  <2>2. CASE ~ \E x \in t.tabs : x > 0
    BY <2>2
  <2> QED BY <2>1, <2>2
<1>3. TabsAfter(t, cols) =
        (t.tabs \cap 0..(cols - 1))
          \cup IF cols > t.cols
               THEN {x \in (from + 1)..(cols - 1) : (x - from) % TabStep = 0} ELSE {}
  BY DEF TabsAfter
<1> HIDE DEF from
<1>4. {x \in (from + 1)..(cols - 1) : (x - from) % TabStep = 0} \subseteq 0..(cols - 1)
  BY <1>2
<1> QED BY <1>3, <1>4

LEMMA MoveSame ==
  ASSUME NEW P, NEW s, NEW t \in Loose(P, s), NEW x \in Int, NEW y \in Int
  PROVE  LET u == moveTo(t, x, y) IN
         /\ u.rows = t.rows /\ u.lines = t.lines /\ u.alt = t.alt /\ u.out = t.out
         /\ u.fresh = t.fresh
BY DEF moveTo, Loose, Screens

LEMMA ResizeGood ==
  ASSUME NEW P, NEW s, NEW t \in Good(P, s), NEW cols \in Nat \ {0}, NEW rows \in Nat \ {0}
  PROVE  resize(t, cols, rows) \in Good(P, s)
PROOF
<1> DEFINE slide == t.cur.y - rows + 1
           by == IF slide > 0 THEN slide ELSE 0
           Slid(b) == [y \in 0..(rows - 1) |-> IF y + by < t.rows THEN b[y + by] ELSE Blank]
           emit == IF t.altOn THEN 0 ELSE by
           tabs == TabsAfter(t, cols)
           lines == Slid(t.lines)
           alt == Slid(t.alt)
           r == [t EXCEPT !.cols = cols, !.rows = rows, !.tabs = tabs,
                          !.lines = lines, !.alt = alt]
           g == setScroll(r, 0, rows - 1)
           u == moveTo(g, t.cur.x, t.cur.y)
           N == TopRows(t, emit)
           R == 0..(rows - 1)
<1>1. /\ t \in Screens /\ t.sync = s /\ t.hook = "none"
      /\ t.cols \in Nat \ {0} /\ t.rows \in Nat \ {0} /\ Rows(t) = 0..(t.rows - 1)
      /\ t.lines \in Grid(t.rows) /\ t.alt \in Grid(t.rows)
      /\ t.cur.x \in Int /\ t.cur.y \in Rows(t) /\ t.altOn \in BOOLEAN
      /\ t.fresh \in Nat \ {0} /\ t.out \in Seq(Int)
  BY GoodParts, CursorIsInt
<1>h. Held(Rows(t), t.lines, t.alt, t.altOn, t.fresh, t.out, P)
  BY GoodParts DEF Texts
<1>2. by \in Nat /\ by < t.rows
  BY <1>1
<1>3. \A y \in Rows(t) : t.lines[y] \in Int /\ t.alt[y] \in Int
  BY <1>1 DEF Grid
<1>4. resize(t, cols, rows) = t \/ resize(t, cols, rows) = [u EXCEPT !.out = t.out \o N]
  BY DEF resize
<1>e. (emit = 0 \/ (emit = by /\ ~t.altOn))
  OBVIOUS
<1> HIDE DEF by, emit
<1>5. /\ lines \in Grid(rows) /\ alt \in Grid(rows)
      /\ \A y \in R : \/ lines[y] = Blank
                      \/ y + by \in Rows(t) /\ lines[y] = t.lines[y + by]
      /\ \A y \in R : \/ alt[y] = Blank
                      \/ y + by \in Rows(t) /\ alt[y] = t.alt[y + by]
  <2> SUFFICES ASSUME NEW b, \A y \in Rows(t) : b[y] \in Int
               PROVE  /\ Slid(b) \in Grid(rows)
                      /\ \A y \in R : \/ Slid(b)[y] = Blank
                                      \/ y + by \in Rows(t) /\ Slid(b)[y] = b[y + by]
    BY <1>3
  <2>1. \A y \in R : y + by < t.rows => y + by \in Rows(t)
    BY <1>1, <1>2
  <2> QED BY <2>1 DEF Grid, Blank
<1>6. tabs \in SUBSET Int /\ tabs \subseteq 0..(cols - 1)
  BY TabsAfterIn
<1> HIDE DEF lines, alt, tabs
<1>7. /\ r \in Screens /\ r.cols = cols /\ r.rows = rows /\ r.tabs = tabs
      /\ r.lines = lines /\ r.alt = alt
      /\ r.altOn = t.altOn /\ r.fresh = t.fresh /\ r.out = t.out
      /\ r.sync = s /\ r.hook = "none"
  <2>1. lines \in Grids /\ alt \in Grids
    BY <1>5, GridIsGrid
  <2> QED BY <1>1, <1>6, <2>1 DEF Screens
<1> HIDE DEF r
<1>8. g = [r EXCEPT !.top = 0, !.bottom = rows - 1]
  <2>1. /\ Clamp(0, 0, r.rows - 1) = 0 /\ Clamp(rows - 1, 0, r.rows - 1) = rows - 1
        /\ Lesser(0, rows - 1) = 0 /\ Greater(0, rows - 1) = rows - 1
    BY <1>7 DEF Clamp, Lesser, Greater
  <2> QED BY <2>1 DEF setScroll
<1> HIDE DEF g
<1>9. /\ g \in Screens /\ g.cols = cols /\ g.rows = rows /\ g.tabs = tabs
      /\ g.lines = lines /\ g.alt = alt /\ g.top = 0 /\ g.bottom = rows - 1
      /\ g.altOn = t.altOn /\ g.fresh = t.fresh /\ g.out = t.out
      /\ g.sync = s /\ g.hook = "none"
  <2> DEFINE q == rows - 1
  <2>1. r \in Screens /\ q \in Int /\ 0 \in Int /\ g = [r EXCEPT !.top = 0, !.bottom = q]
    BY <1>7, <1>8
  <2> HIDE DEF q
  <2>2. /\ g \in Screens /\ g.cols = r.cols /\ g.rows = r.rows /\ g.tabs = r.tabs
        /\ g.lines = r.lines /\ g.alt = r.alt /\ g.top = 0 /\ g.bottom = q
        /\ g.altOn = r.altOn /\ g.fresh = r.fresh /\ g.out = r.out
        /\ g.sync = r.sync /\ g.hook = r.hook
    BY <2>1 DEF Screens
  <2> QED BY <1>7, <2>2 DEF q
<1>a. Framed(g)
  BY <1>5, <1>6, <1>9 DEF Framed
<1>b. Held(R, lines, alt, t.altOn, t.fresh, t.out, P)
  <2>1. P \subseteq 1..(t.fresh - 1) /\ Blank \notin P
    BY <1>h DEF Held, Blank
  <2>2. ASSUME NEW y \in R
        PROVE  /\ lines[y] >= AltText /\ lines[y] < t.fresh /\ lines[y] \notin P
               /\ alt[y] >= AltText /\ alt[y] < t.fresh /\ alt[y] \notin P
               /\ IF t.altOn THEN alt[y] # AltText ELSE lines[y] # AltText
    <3>1. /\ lines[y] >= AltText /\ lines[y] < t.fresh /\ lines[y] \notin P
          /\ ~t.altOn => lines[y] # AltText
      <4>1. CASE lines[y] = Blank
        BY <1>1, <2>1, <4>1 DEF Blank, AltText
      <4>2. CASE y + by \in Rows(t) /\ lines[y] = t.lines[y + by]
        BY <1>h, <1>1, <4>2 DEF Held
      <4> QED BY <1>5, <4>1, <4>2
    <3>2. /\ alt[y] >= AltText /\ alt[y] < t.fresh /\ alt[y] \notin P
          /\ t.altOn => alt[y] # AltText
      <4>1. CASE alt[y] = Blank
        BY <1>1, <2>1, <4>1 DEF Blank, AltText
      <4>2. CASE y + by \in Rows(t) /\ alt[y] = t.alt[y + by]
        BY <1>h, <1>1, <4>2 DEF Held
      <4> QED BY <1>5, <4>1, <4>2
    <3> QED BY <3>1, <3>2
  <2>3. \A y \in R : /\ lines[y] > Blank => y + by \in Rows(t) /\ lines[y] = t.lines[y + by]
                     /\ alt[y] > Blank => y + by \in Rows(t) /\ alt[y] = t.alt[y + by]
    BY <1>5 DEF Blank
  <2>4. \A y, z \in R : y # z => y + by # z + by
    BY <1>2
  <2>5. ASSUME NEW y \in R, NEW z \in R
        PROVE  /\ lines[y] > Blank => lines[y] # alt[z]
               /\ y # z /\ lines[y] > Blank => lines[y] # lines[z]
               /\ y # z /\ alt[y] > Blank => alt[y] # alt[z]
    <3>1. ASSUME lines[y] > Blank, lines[y] = alt[z] PROVE FALSE
      <4>1. y + by \in Rows(t) /\ lines[y] = t.lines[y + by]
        BY <2>3, <3>1
      <4>2. z + by \in Rows(t) /\ alt[z] = t.alt[z + by]
        BY <2>3, <3>1
      <4> QED BY <1>h, <3>1, <4>1, <4>2 DEF Held
    <3>2. ASSUME y # z, lines[y] > Blank, lines[y] = lines[z] PROVE FALSE
      <4>1. y + by \in Rows(t) /\ lines[y] = t.lines[y + by]
        BY <2>3, <3>2
      <4>2. z + by \in Rows(t) /\ lines[z] = t.lines[z + by]
        BY <2>3, <3>2
      <4> QED BY <1>h, <2>4, <3>2, <4>1, <4>2 DEF Held
    <3>3. ASSUME y # z, alt[y] > Blank, alt[y] = alt[z] PROVE FALSE
      <4>1. y + by \in Rows(t) /\ alt[y] = t.alt[y + by]
        BY <2>3, <3>3
      <4>2. z + by \in Rows(t) /\ alt[z] = t.alt[z + by]
        BY <2>3, <3>3
      <4> QED BY <1>h, <2>4, <3>3, <4>1, <4>2 DEF Held
    <3> QED BY <3>1, <3>2, <3>3
  <2>6. ASSUME NEW i \in DOMAIN t.out
        PROVE  /\ t.out[i] >= Blank /\ t.out[i] < t.fresh /\ t.out[i] \notin P
               /\ t.out[i] > Blank => /\ \A y \in R : lines[y] # t.out[i] /\ alt[y] # t.out[i]
                                      /\ \A j \in DOMAIN t.out : i # j => t.out[i] # t.out[j]
    <3>1. /\ t.out[i] >= Blank /\ t.out[i] < t.fresh /\ t.out[i] \notin P
          /\ t.out[i] > Blank => \A j \in DOMAIN t.out : i # j => t.out[i] # t.out[j]
      BY <1>h DEF Held
    <3>2. ASSUME t.out[i] > Blank, NEW y \in R PROVE lines[y] # t.out[i]
      BY <1>h, <2>3, <3>2 DEF Held
    <3>3. ASSUME t.out[i] > Blank, NEW y \in R PROVE alt[y] # t.out[i]
      BY <1>h, <2>3, <3>3 DEF Held
    <3> QED BY <3>1, <3>2, <3>3
  <2> HIDE DEF R
  <2> QED BY <2>1, <2>2, <2>5, <2>6 DEF Held
<1>c. g \in Loose(P, s)
  <2>1. Rows(g) = R
    BY <1>9 DEF Rows
  <2>2. Texts(g, P)
    BY <1>9, <1>b, <2>1 DEF Texts
  <2> QED BY <1>9, <1>a, <2>2 DEF Loose
<1>d. /\ u \in Good(P, s) /\ Rows(u) = R /\ u.lines = lines /\ u.alt = alt
      /\ u.out = t.out /\ u.fresh = t.fresh
  <2>1. u \in Good(P, s)
    BY <1>1, <1>c, LooseMoveTo
  <2>2. u.rows = g.rows /\ u.lines = g.lines /\ u.alt = g.alt /\ u.out = g.out /\ u.fresh = g.fresh
    BY <1>1, <1>c, MoveSame
  <2> QED BY <1>9, <2>1, <2>2 DEF Rows
<1> HIDE DEF u
<1>f. /\ N \in Seq(Int) /\ DOMAIN N = 1..emit /\ emit \in Nat
      /\ \A i \in 1..emit : i - 1 \in Rows(t) /\ N[i] = t.lines[i - 1]
  <2>1. emit \in Nat /\ emit < t.rows
    BY <1>1, <1>2, <1>e
  <2>2. \A i \in 1..emit : i - 1 \in Rows(t)
    BY <1>1, <2>1
  <2>3. N = [i \in 1..emit |-> t.lines[i - 1]]
    BY DEF TopRows
  <2> HIDE DEF N
  <2>4. \A i \in 1..emit : t.lines[i - 1] \in Int
    BY <1>3, <2>2
  <2>5. N \in [1..emit -> Int]
    BY <2>3, <2>4
  <2>6. N \in Seq(Int)
    BY <2>1, <2>5, SeqDef
  <2> QED BY <2>1, <2>2, <2>3, <2>6
<1>g. 1..emit # {} => ~t.altOn /\ emit = by
  BY <1>e
<1> HIDE DEF N
<1>i. ASSUME NEW i \in DOMAIN N
      PROVE  N[i] >= Blank /\ N[i] < u.fresh /\ N[i] \notin P
  <2>1. i \in 1..emit /\ i - 1 \in Rows(t) /\ N[i] = t.lines[i - 1] /\ ~t.altOn
    BY <1>f, <1>g
  <2>2. /\ t.lines[i - 1] >= AltText /\ t.lines[i - 1] # AltText
        /\ t.lines[i - 1] < t.fresh /\ t.lines[i - 1] \notin P
    BY <1>h, <2>1 DEF Held
  <2> QED BY <1>3, <1>d, <2>1, <2>2 DEF Blank, AltText
<1>j. ASSUME NEW i \in DOMAIN N, N[i] > Blank
      PROVE  /\ \A y \in Rows(u) : u.lines[y] # N[i] /\ u.alt[y] # N[i]
             /\ \A j \in DOMAIN u.out : u.out[j] # N[i]
  <2>1. i \in 1..emit /\ i - 1 \in Rows(t) /\ N[i] = t.lines[i - 1] /\ emit = by
    BY <1>f, <1>g
  <2>2. ASSUME NEW y \in R PROVE lines[y] # N[i] /\ alt[y] # N[i]
    <3>1. y + by # i - 1
      BY <1>2, <2>1
    <3>2. lines[y] # N[i]
      BY <1>5, <1>h, <1>j, <2>1, <3>1 DEF Held, Blank
    <3>3. alt[y] # N[i]
      BY <1>5, <1>h, <1>j, <2>1 DEF Held, Blank
    <3> QED BY <3>2, <3>3
  <2>3. \A j \in DOMAIN t.out : t.out[j] # N[i]
    BY <1>h, <1>j, <2>1 DEF Held
  <2> HIDE DEF R
  <2> QED BY <1>d, <2>2, <2>3
<1>k. ASSUME NEW i \in DOMAIN N, NEW j \in DOMAIN N, N[i] > Blank, i # j
      PROVE  N[i] # N[j]
  <2>1. /\ i - 1 \in Rows(t) /\ N[i] = t.lines[i - 1]
        /\ j - 1 \in Rows(t) /\ N[j] = t.lines[j - 1] /\ i \in Int /\ j \in Int
    BY <1>f
  <2>2. i - 1 # j - 1
    BY <1>k, <2>1
  <2> QED BY <1>h, <1>k, <2>1, <2>2 DEF Held
<1>l. [u EXCEPT !.out = u.out \o N] \in Good(P, s)
  BY <1>d, <1>f, <1>i, <1>j, <1>k, OutGrows
<1> QED BY <1>4, <1>d, <1>l

-----------------------------------------------------------------------------
(* The ring of scrollback rows. *)

-----------------------------------------------------------------------------
(* The ring.                                                               *)
LEMMA Remainder ==
  ASSUME NEW c \in Nat \ {0}, NEW h \in 0..(c - 1), NEW i \in 0..c
  PROVE  (h + i) % c = IF h + i < c THEN h + i ELSE h + i - c
OBVIOUS

Rings(c) == [buf : Grid(c), head : Int, len : Int, total : Nat]

(* r holds the newest of the first n rows of Q, as many as c. *)
Newest(r, Q, n, c) ==
  /\ r.total = n /\ r.len = Lesser(c, n) /\ r.head \in 0..(c - 1)
  /\ \A i \in 0..(r.len - 1) : r.buf[(r.head + i) % c] = Q[n - r.len + i + 1]

Holds(r, Q, n, c) ==
  /\ r \in Rings(c)
  /\ c = 0 => r.len = 0 /\ r.total = 0
  /\ c > 0 => Newest(r, Q, n, c)

LEMMA PushIsRing ==
  ASSUME histCap \in Nat, NEW r \in Rings(histCap), NEW row \in Int
  PROVE  push(r, row) \in Rings(histCap)
PROOF
<1>1. /\ r.buf \in Grid(histCap) /\ r.head \in Int /\ r.len \in Int /\ r.total \in Nat
  BY DEF Rings
<1>2. \A k : [r.buf EXCEPT ![k] = row] \in Grid(histCap)
  BY <1>1 DEF Grid
<1>3. histCap # 0 => (r.head + 1) % histCap \in Int
  BY <1>1
<1> HIDE DEF histCap
<1> QED BY <1>1, <1>2, <1>3 DEF push, Rings

(* A push makes the ring hold one row more, the oldest dropped when it is full. *)
LEMMA PushHolds ==
  ASSUME histCap \in Nat, NEW Q, NEW n \in Nat, Q[n + 1] \in Int,
         NEW r, Holds(r, Q, n, histCap)
  PROVE  Holds(push(r, Q[n + 1]), Q, n + 1, histCap)
PROOF
<1> DEFINE c == histCap
           row == Q[n + 1]
           u == push(r, row)
<1>1. /\ r \in Rings(c) /\ r.buf \in Grid(c) /\ r.head \in Int /\ r.len \in Int /\ r.total \in Nat
      /\ c \in Nat
  BY DEF Holds, Rings
<1>2. u \in Rings(c)
  BY <1>1, PushIsRing
<1>3. CASE c = 0
  BY <1>1, <1>3 DEF Holds, push
<1>4. CASE c > 0
  <2> DEFINE h == r.head
             l == r.len
             b == r.buf
  <2>1. /\ r.total = n /\ l = Lesser(c, n) /\ h \in 0..(c - 1)
        /\ \A i \in 0..(l - 1) : b[(h + i) % c] = Q[n - l + i + 1]
    BY <1>4 DEF Holds, Newest
  <2>2. l \in Nat /\ l <= c /\ l <= n /\ (l < c => l = n)
    BY <1>1, <2>1 DEF Lesser
  <2>3. \A i \in 0..(c - 1) : (h + i) % c = IF h + i < c THEN h + i ELSE h + i - c
    <3> SUFFICES ASSUME NEW i \in 0..(c - 1)
                 PROVE  (h + i) % c = IF h + i < c THEN h + i ELSE h + i - c
      OBVIOUS
    <3>1. h \in 0..(c - 1) /\ i \in 0..c /\ c \in Nat \ {0}
      BY <1>1, <1>4, <2>1
    <3> HIDE DEF h, c
    <3> QED BY <3>1, Remainder
  <2>4. DOMAIN b = 0..(c - 1)
    BY <1>1 DEF Grid
  <2>5. CASE l < c
    <3>1. /\ u.buf = [b EXCEPT ![(h + l) % c] = row] /\ u.head = h /\ u.len = l + 1
          /\ u.total = n + 1
      BY <1>4, <2>1, <2>5 DEF push
    <3> HIDE DEF u, h, l, b, c, row
    <3>2. u.len = Lesser(c, n + 1)
      BY <1>1, <2>2, <2>5, <3>1 DEF Lesser
    <3>3. ASSUME NEW i \in 0..(u.len - 1)
          PROVE  u.buf[(u.head + i) % c] = Q[(n + 1) - u.len + i + 1]
      <4>1. i \in 0..l /\ i \in 0..(c - 1) /\ l \in 0..(c - 1)
        BY <1>1, <2>2, <2>5, <3>1
      <4>2. (h + i) % c \in 0..(c - 1) /\ (h + l) % c \in 0..(c - 1)
        BY <1>1, <2>1, <2>3, <4>1
      <4>3. CASE i = l
        <5>1. (n + 1) - u.len + i + 1 = n + 1
          BY <2>2, <3>1, <4>3
        <5> QED BY <2>4, <3>1, <4>2, <4>3, <5>1 DEF row
      <4>4. CASE i # l
        <5>1. (h + i) % c # (h + l) % c
          <6>1. (h + i) % c = IF h + i < c THEN h + i ELSE h + i - c
            BY <2>3, <4>1
          <6>2. (h + l) % c = IF h + l < c THEN h + l ELSE h + l - c
            BY <2>3, <4>1
          <6>3. h \in Int /\ c \in Int /\ i \in Int /\ l \in Int
            BY <1>1, <2>1, <4>1
          <6> DEFINE p == (h + i) % c
                     q == (h + l) % c
          <6>4. /\ p = IF h + i < c THEN h + i ELSE h + i - c
                /\ q = IF h + l < c THEN h + l ELSE h + l - c
            BY <6>1, <6>2
          <6> HIDE DEF p, q
          <6>5. p # q
            BY <4>1, <4>4, <6>3, <6>4
          <6> QED BY <6>5 DEF p, q
        <5>2. i \in 0..(l - 1) /\ (n + 1) - u.len + i + 1 = n - l + i + 1
          BY <2>2, <3>1, <4>1, <4>4
        <5>3. u.buf[(h + i) % c] = b[(h + i) % c]
          BY <2>4, <3>1, <4>2, <5>1
        <5> QED BY <2>1, <3>1, <5>2, <5>3
      <4> QED BY <4>3, <4>4
    <3>4. Holds(u, Q, n + 1, c)
      <4>3. u.head \in 0..(c - 1)
        BY <2>1, <3>1
      <4>1. Newest(u, Q, n + 1, c)
        <5>1. u.total = n + 1
          BY <3>1
        <5>2. \A i \in 0..(u.len - 1) : u.buf[(u.head + i) % c] = Q[(n + 1) - u.len + i + 1]
          BY <3>3
        <5> QED BY <3>2, <4>3, <5>1, <5>2 DEF Newest
      <4>2. c # 0
        BY <1>1, <1>4
      <4> QED BY <1>2, <4>1, <4>2 DEF Holds, c
    <3> QED BY <3>4 DEF u, row, c
  <2>6. CASE l = c
    <3>1. /\ u.buf = [b EXCEPT ![h] = row] /\ u.head = (h + 1) % c /\ u.len = l
          /\ u.total = n + 1
      BY <1>4, <2>1, <2>6 DEF push
    <3>2. u.head = IF h + 1 < c THEN h + 1 ELSE 0
      <4> HIDE DEF u, h, l, b, c, row
      <4>1. h \in 0..(c - 1) /\ 1 \in 0..c /\ c \in Nat \ {0}
        BY <1>1, <1>4, <2>1
      <4>2. (h + 1) % c = IF h + 1 < c THEN h + 1 ELSE h + 1 - c
        BY <4>1, Remainder
      <4> QED BY <1>1, <2>1, <3>1, <4>2
    <3> HIDE DEF u, h, l, b, c, row
    <3>3. u.len = Lesser(c, n + 1)
      BY <1>1, <2>2, <2>6, <3>1 DEF Lesser
    <3>4. ASSUME NEW i \in 0..(u.len - 1)
          PROVE  u.buf[(u.head + i) % c] = Q[(n + 1) - u.len + i + 1]
      <4>1. i \in 0..(c - 1) /\ u.head \in 0..(c - 1)
        BY <1>1, <1>4, <2>1, <2>6, <3>1, <3>2
      <4>2. (u.head + i) % c = IF u.head + i < c THEN u.head + i ELSE u.head + i - c
        <5>1. u.head \in 0..(c - 1) /\ i \in 0..c /\ c \in Nat \ {0}
          BY <1>1, <1>4, <4>1
        <5> QED BY <5>1, Remainder
      <4>3. CASE i = c - 1
        <5>1. (u.head + i) % c = h
          BY <1>1, <1>4, <2>1, <3>2, <4>1, <4>2, <4>3
        <5>2. (n + 1) - u.len + i + 1 = n + 1
          BY <1>1, <2>2, <2>6, <3>1, <4>3
        <5> QED BY <2>1, <2>4, <3>1, <5>1, <5>2 DEF row
      <4>4. CASE i # c - 1
        <5>1. i + 1 \in 0..(c - 1) /\ i + 1 \in 0..(l - 1)
          BY <1>1, <2>6, <4>1, <4>4
        <5>2. (u.head + i) % c = (h + (i + 1)) % c
          <6>1. (h + (i + 1)) % c = IF h + (i + 1) < c THEN h + (i + 1) ELSE h + (i + 1) - c
            BY <2>3, <5>1
          <6> QED BY <1>1, <1>4, <2>1, <3>2, <4>1, <4>2, <5>1, <6>1
        <5>3. (h + (i + 1)) % c \in 0..(c - 1) /\ (h + (i + 1)) % c # h
          <6>1. (h + (i + 1)) % c = IF h + (i + 1) < c THEN h + (i + 1) ELSE h + (i + 1) - c
            BY <2>3, <5>1
          <6> QED BY <1>1, <1>4, <2>1, <5>1, <6>1
        <5>4. u.buf[(h + (i + 1)) % c] = b[(h + (i + 1)) % c]
          BY <2>4, <3>1, <5>3
        <5>5. b[(h + (i + 1)) % c] = Q[n - l + (i + 1) + 1]
          BY <2>1, <5>1
        <5>6. n - l + (i + 1) + 1 = (n + 1) - u.len + i + 1
          BY <1>1, <2>2, <3>1, <4>1
        <5> QED BY <5>2, <5>4, <5>5, <5>6
      <4> QED BY <4>3, <4>4
    <3>5. Holds(u, Q, n + 1, c)
      <4>1. u.head \in 0..(c - 1)
        BY <1>1, <1>4, <2>1, <3>2
      <4>2. Newest(u, Q, n + 1, c)
        <5>1. u.total = n + 1
          BY <3>1
        <5>2. \A i \in 0..(u.len - 1) : u.buf[(u.head + i) % c] = Q[(n + 1) - u.len + i + 1]
          BY <3>4
        <5> QED BY <3>3, <4>1, <5>1, <5>2 DEF Newest
      <4>3. c # 0
        BY <1>1, <1>4
      <4> QED BY <1>2, <4>2, <4>3 DEF Holds, c
    <3> QED BY <3>5 DEF u, row, c
  <2> QED BY <1>1, <2>2, <2>5, <2>6
<1> QED BY <1>1, <1>3, <1>4

-----------------------------------------------------------------------------
(* The inductive invariant. *)

(* The rows of text in the scrollback.                                     *)
Said == ToSet(pushed) \ {Blank}

(* Between two steps the screen is good, and nothing is left to hand over. *)
TermInv == term \in Good(Said, term.sync) /\ term.out = <<>>

(* No row of text was handed over twice.                                   *)
PushedInv ==
  /\ pushed \in Seq(Nat)
  /\ \A i, j \in DOMAIN pushed : i # j /\ pushed[i] # Blank => pushed[i] # pushed[j]

Ring == [buf |-> buf, head |-> head, len |-> len, total |-> scrolledTotal]

(* The ring holds the newest of the rows handed over.                      *)
RingInv ==
  /\ histCap \in Nat
  /\ histCap = 0 => pushed = <<>>
  /\ Holds(Ring, pushed, Len(pushed), histCap)

(* A frame is kept exactly while an update is drawn, the one it began from. *)
FrameInv == frozen = before /\ (~term.sync => frozen = NoFrame)

IInv == TermInv /\ PushedInv /\ RingInv /\ FrameInv

(* The rows one write hands over reach the ring one by one. *)
LEMMA PushKeepsRing ==
  ASSUME RingInv, pushed \in Seq(Nat), NEW rows \in Seq(Int), Push(rows)
  PROVE  /\ RingInv'
         /\ IF histCap = 0 THEN pushed' = pushed ELSE pushed' = pushed \o rows
PROOF
<1> DEFINE m == Len(rows)
           n == Len(pushed)
           Q == pushed \o rows
           c == histCap
           D == Rings(c)
           F == [i \in 1..m |-> [u \in D |-> push(u, rows[i])]]
           f == CHOOSE f : f = [i \in 0..m |-> IF i = 0 THEN Ring ELSE push(f[i - 1], rows[i])]
<1>1. m \in Nat /\ n \in Nat /\ histCap \in Nat
  BY DEF RingInv
<1>2. /\ buf' = f[m].buf /\ head' = f[m].head /\ len' = f[m].len /\ scrolledTotal' = f[m].total
      /\ pushed' = IF histCap = 0 THEN pushed ELSE Q
  BY DEF Push, Ring
<1>3. /\ \A i \in 1..n : Q[i] = pushed[i]
      /\ \A i \in 1..m : Q[n + i] = rows[i] /\ rows[i] \in Int
      /\ Len(Q) = n + m
  OBVIOUS
<1>t. Ring \in D
  BY DEF RingInv, Holds
<1> HIDE DEF m, D
<1>4. \A i \in 1..m : \A u \in D : push(u, rows[i]) \in D
  BY <1>1, <1>3, PushIsRing DEF D
<1>5. F \in [1..m -> [D -> D]]
  BY <1>4
<1>e. PICK g : Iterates(g, m, D, Ring, F)
  <2> HIDE DEF F, f
  <2> QED BY <1>t, <1>1, <1>5, Iterated
<1>6. g \in [0..m -> D] /\ g = [i \in 0..m |-> IF i = 0 THEN Ring ELSE F[i][g[i - 1]]]
  <2> HIDE DEF F, f
  <2> QED BY <1>e DEF Iterates
<1>7. \A i \in 1..m : F[i][g[i - 1]] = push(g[i - 1], rows[i])
  <2> HIDE DEF F, f
  <2>1. \A i \in 1..m : i - 1 \in 0..m
    BY <1>1
  <2>2. \A i \in 1..m : g[i - 1] \in D
    BY <1>6, <2>1
  <2> QED BY <2>2 DEF F
<1>8. g = [i \in 0..m |-> IF i = 0 THEN Ring ELSE push(g[i - 1], rows[i])]
  <2> HIDE DEF F, f
  <2>1. \A i \in 0..m : i = 0 \/ i \in 1..m
    BY <1>1
  <2> QED BY <1>6, <1>7, <2>1
<1>9. f = [i \in 0..m |-> IF i = 0 THEN Ring ELSE push(f[i - 1], rows[i])]
  <2> HIDE DEF F
  <2> QED BY <1>8
<1> HIDE DEF F, f
<1> DEFINE T == {i \in 0..m : f[i] \in D}
<1>a. 0 \in T
  BY <1>t, <1>1, <1>9
<1>b. ASSUME NEW i \in 1..m, i - 1 \in T PROVE i \in T
  <2>1. i \in 0..m /\ i # 0 /\ f[i - 1] \in D
    BY <1>1, <1>b
  <2>2. f[i] = push(f[i - 1], rows[i])
    BY <1>9, <2>1
  <2> QED BY <1>4, <2>1, <2>2
<1> HIDE DEF T
<1>c. 0..m \subseteq T
  BY <1>1, <1>a, <1>b, SetInduction
<1>d. f[m] \in D
  BY <1>1, <1>c DEF T
<1> DEFINE H == {i \in 0..m : Holds(f[i], Q, n + i, c)}
<1>f. ASSUME NEW r, Holds(r, pushed, n, c) PROVE Holds(r, Q, n, c)
  <2>1. ASSUME c > 0, Newest(r, pushed, n, c) PROVE Newest(r, Q, n, c)
    <3>1. \A i \in 0..(r.len - 1) : n - r.len + i + 1 \in 1..n
      <4>1. r.len = Lesser(c, n)
        BY <2>1 DEF Newest
      <4>2. r.len \in Nat /\ r.len <= n
        BY <1>1, <4>1 DEF Lesser
      <4> HIDE DEF n
      <4> QED BY <1>1, <4>2
    <3> HIDE DEF Q, n
    <3> QED BY <1>3, <2>1, <3>1 DEF Newest
  <2> HIDE DEF Q, n
  <2> QED BY <1>f, <2>1 DEF Holds
<1>g. 0 \in H
  <2>1. f[0] = Ring
    BY <1>1, <1>9
  <2>2. Holds(Ring, Q, n, c)
    BY <1>f DEF RingInv
  <2>3. n + 0 = n /\ 0 \in 0..m
    BY <1>1
  <2> HIDE DEF Q, n
  <2> QED BY <2>1, <2>2, <2>3
<1>h. ASSUME NEW i \in 1..m, i - 1 \in H PROVE i \in H
  <2> DEFINE k == n + (i - 1)
  <2>1. i \in 0..m /\ i # 0 /\ k \in Nat /\ k + 1 = n + i
    BY <1>1
  <2>2. f[i] = push(f[i - 1], rows[i])
    BY <1>9, <2>1
  <2>3. Q[k + 1] = rows[i] /\ Q[k + 1] \in Int
    BY <1>3, <2>1
  <2>4. Holds(f[i - 1], Q, k, c)
    BY <1>h
  <2> HIDE DEF k, Q, n
  <2>5. Holds(push(f[i - 1], Q[k + 1]), Q, k + 1, c)
    BY <1>1, <2>1, <2>3, <2>4, PushHolds
  <2>6. Holds(f[i], Q, n + i, c)
    BY <2>1, <2>2, <2>3, <2>5
  <2> QED BY <2>1, <2>6
<1> HIDE DEF H
<1>i. 0..m \subseteq H
  BY <1>1, <1>g, <1>h, SetInduction
<1>j. Holds(f[m], Q, n + m, c)
  BY <1>1, <1>i DEF H
<1>k. f[m] \in Rings(c)
  BY <1>j DEF Holds
<1>l. f[m] = Ring'
  BY <1>2, <1>k DEF Ring, Rings
<1>m. histCap' = c
  <2>1. DOMAIN buf' = DOMAIN buf
    BY <1>2, <1>k, <1>t DEF Rings, Grid, Ring, D
  <2> QED BY <2>1 DEF histCap
<1>n. IF c = 0 THEN pushed' = pushed ELSE pushed' = Q
  BY <1>2
<1>o. c = 0 => pushed = <<>>
  BY DEF RingInv
<1>p. Holds(Ring', pushed', Len(pushed'), c)
  <2>1. CASE c = 0
    <3>1. Holds(f[m], pushed', Len(pushed'), c)
      BY <1>j, <2>1 DEF Holds
    <3> QED BY <1>l, <3>1
  <2>2. CASE c # 0
    <3>1. pushed' = Q /\ Len(pushed') = n + m
      BY <1>3, <1>n, <2>2
    <3> QED BY <1>j, <1>l, <3>1
  <2> QED BY <2>1, <2>2
<1>q. RingInv'
  <2>1. histCap' \in Nat /\ (histCap' = 0 => pushed' = <<>>)
    BY <1>1, <1>m, <1>n, <1>o
  <2>2. Holds(Ring', pushed', Len(pushed'), histCap')
    BY <1>m, <1>p
  <2> QED BY <2>1, <2>2 DEF RingInv
<1> QED BY <1>n, <1>q

(* The rows handed over are the scrollback's from then on. *)
LEMMA Handed ==
  ASSUME NEW P, NEW s, NEW t \in Written(P, s), NEW P2,
         P2 \subseteq P \cup {t.out[i] : i \in DOMAIN t.out}, Blank \notin P2
  PROVE  /\ [t EXCEPT !.out = <<>>, !.hook = "none"] \in Good(P2, t.sync)
         /\ t.hook = "none" => [t EXCEPT !.out = <<>>] \in Good(P2, t.sync)
PROOF
<1>1. /\ t \in Screens /\ Fits(t) /\ Texts(t, P)
      /\ t.fresh \in Nat \ {0} /\ t.lines \in Grid(t.rows) /\ t.alt \in Grid(t.rows)
      /\ t.rows \in Nat /\ t.out \in Seq(Int)
  BY DEF Written, Fits, Framed, Screens
<1> DEFINE R == Rows(t)
<1>h. Held(R, t.lines, t.alt, t.altOn, t.fresh, t.out, P)
  BY <1>1 DEF Texts
<1>2. \A i \in DOMAIN t.out : t.out[i] \in Int
  BY <1>1
<1>3. P2 \subseteq 1..(t.fresh - 1)
  <2> SUFFICES ASSUME NEW p \in P2 PROVE p \in 1..(t.fresh - 1)
    OBVIOUS
  <2>1. CASE p \in P
    BY <1>h, <2>1 DEF Held
  <2>2. CASE p \notin P
    <3>1. PICK i \in DOMAIN t.out : p = t.out[i]
      BY <2>2
    <3>2. p >= Blank /\ p < t.fresh /\ p # Blank /\ p \in Int
      BY <1>2, <1>h, <3>1 DEF Held
    <3> QED BY <1>1, <3>2 DEF Blank
  <2> QED BY <2>1, <2>2
<1>4. ASSUME NEW v, \/ v \in {t.lines[y] : y \in R}
                    \/ v \in {t.alt[y] : y \in R}
      PROVE  v \notin P2
  <2> SUFFICES ASSUME v \in P2 PROVE FALSE
    OBVIOUS
  <2>1. v \notin P
    BY <1>4, <1>h DEF Held
  <2>2. PICK i \in DOMAIN t.out : v = t.out[i]
    BY <2>1
  <2>3. v > Blank
    BY <1>3 DEF Blank
  <2>4. \A y \in R : t.lines[y] # t.out[i] /\ t.alt[y] # t.out[i]
    BY <1>h, <2>2, <2>3 DEF Held
  <2> QED BY <1>4, <2>2, <2>4
<1>5. Held(R, t.lines, t.alt, t.altOn, t.fresh, <<>>, P2)
  <2>1. \A y \in R : t.lines[y] \notin P2 /\ t.alt[y] \notin P2
    BY <1>4
  <2>2. DOMAIN <<>> = {}
    OBVIOUS
  <2> HIDE DEF R
  <2> QED BY <1>3, <1>h, <2>1, <2>2 DEF Held
<1>6. ASSUME NEW u \in Screens,
             u.cols = t.cols, u.rows = t.rows, u.lines = t.lines, u.alt = t.alt, u.cur = t.cur,
             u.top = t.top, u.bottom = t.bottom, u.altOn = t.altOn, u.tabs = t.tabs,
             u.fresh = t.fresh, u.sync = t.sync, u.out = <<>>, u.hook = "none"
      PROVE  u \in Good(P2, t.sync)
  <2>1. Fits(u)
    BY <1>1, <1>6 DEF Fits, Framed, CursorOn, InRegion
  <2>2. Rows(u) = R
    BY <1>6 DEF Rows
  <2>3. Texts(u, P2)
    BY <1>5, <1>6, <2>2 DEF Texts
  <2> QED BY <1>6, <2>1, <2>3 DEF Good
<1> DEFINE a == [t EXCEPT !.out = <<>>, !.hook = "none"]
           b == [t EXCEPT !.out = <<>>]
<1>e. <<>> \in Seq(Int)
  OBVIOUS
<1>7. /\ a \in Screens
      /\ a.cols = t.cols /\ a.rows = t.rows /\ a.lines = t.lines /\ a.alt = t.alt
      /\ a.cur = t.cur /\ a.top = t.top /\ a.bottom = t.bottom /\ a.altOn = t.altOn
      /\ a.tabs = t.tabs /\ a.fresh = t.fresh /\ a.sync = t.sync
      /\ a.out = <<>> /\ a.hook = "none"
  BY <1>1, <1>e DEF Screens
<1>8. /\ b \in Screens
      /\ b.cols = t.cols /\ b.rows = t.rows /\ b.lines = t.lines /\ b.alt = t.alt
      /\ b.cur = t.cur /\ b.top = t.top /\ b.bottom = t.bottom /\ b.altOn = t.altOn
      /\ b.tabs = t.tabs /\ b.fresh = t.fresh /\ b.sync = t.sync
      /\ b.out = <<>> /\ b.hook = t.hook
  BY <1>1, <1>e DEF Screens
<1> HIDE DEF a, b
<1>9. a \in Good(P2, t.sync)
  BY <1>6, <1>7
<1>a. t.hook = "none" => b \in Good(P2, t.sync)
  BY <1>6, <1>8
<1> QED BY <1>9, <1>a DEF a, b

(* The scrollback keeps what it had and takes what was handed over. *)
LEMMA PushKeepsPushed ==
  ASSUME IInv, NEW s, NEW t \in Written(Said, s), Push(t.out)
  PROVE  /\ RingInv' /\ PushedInv'
         /\ Said' \subseteq Said \cup {t.out[i] : i \in DOMAIN t.out}
         /\ Blank \notin Said'
PROOF
<1>1. /\ RingInv /\ PushedInv /\ pushed \in Seq(Nat)
      /\ \A i, j \in DOMAIN pushed : i # j /\ pushed[i] # Blank => pushed[i] # pushed[j]
  BY DEF IInv, PushedInv
<1> DEFINE O == t.out
<1>2. O \in Seq(Int) /\ Held(Rows(t), t.lines, t.alt, t.altOn, t.fresh, O, Said)
  BY DEF Written, Screens, Texts
<1>3. \A i \in DOMAIN O :
        /\ O[i] \in Nat /\ O[i] \notin Said
        /\ O[i] # Blank => \A j \in DOMAIN O : i # j => O[i] # O[j]
  <2>1. \A i \in DOMAIN O : O[i] \in Int
    BY <1>2
  <2> QED BY <1>2, <2>1 DEF Held, Blank
<1>4. /\ RingInv'
      /\ IF histCap = 0 THEN pushed' = pushed ELSE pushed' = pushed \o O
  BY <1>1, <1>2, PushKeepsRing
<1>5. \A i \in DOMAIN pushed : pushed[i] # Blank => pushed[i] \in Said
  BY DEF Said, ToSet
<1>6. CASE pushed' = pushed
  <2>1. PushedInv' /\ Said' = Said
    BY <1>1, <1>6 DEF PushedInv, Said
  <2> QED BY <1>4, <2>1 DEF Said
<1>7. CASE pushed' = pushed \o O
  <2> DEFINE n == Len(pushed)
             Q == pushed \o O
  <2>0. pushed \in Seq(Nat) /\ O \in Seq(Int) /\ n \in Nat
    BY <1>1, <1>2
  <2>1. ASSUME NEW i \in DOMAIN Q
        PROVE  /\ i \in Int
               /\ \/ i \in DOMAIN pushed /\ Q[i] = pushed[i]
                  \/ i - n \in DOMAIN O /\ Q[i] = O[i - n]
    <3> HIDE DEF O
    <3> QED BY <2>0
  <2>2. Q \in Seq(Nat)
    <3>1. O \in Seq(Nat)
      <4>1. Len(O) \in Nat /\ DOMAIN O = 1..Len(O) /\ O = [i \in 1..Len(O) |-> O[i]]
        BY <1>2
      <4>2. O \in [1..Len(O) -> Nat]
        <5> HIDE DEF O
        <5> QED BY <1>3, <4>1
      <4> HIDE DEF O
      <4> QED BY <4>1, <4>2, SeqDef
    <3> QED BY <1>1, <3>1
  <2> HIDE DEF Q, n, O
  <2>3. ASSUME NEW i \in DOMAIN Q, NEW j \in DOMAIN Q, i # j, Q[i] # Blank
        PROVE  Q[i] # Q[j]
    <3>1. CASE i \in DOMAIN pushed /\ Q[i] = pushed[i]
      <4>1. CASE j \in DOMAIN pushed /\ Q[j] = pushed[j]
        BY <1>1, <2>3, <3>1, <4>1
      <4>2. CASE j - n \in DOMAIN O /\ Q[j] = O[j - n]
        BY <1>3, <1>5, <2>3, <3>1, <4>2
      <4> QED BY <2>1, <4>1, <4>2
    <3>2. CASE i - n \in DOMAIN O /\ Q[i] = O[i - n]
      <4>1. CASE j \in DOMAIN pushed /\ Q[j] = pushed[j]
        BY <1>3, <1>5, <2>3, <3>2, <4>1
      <4>2. CASE j - n \in DOMAIN O /\ Q[j] = O[j - n]
        <5>1. i - n # j - n
          BY <2>0, <2>1, <2>3
        <5> QED BY <1>3, <2>3, <3>2, <4>2, <5>1
      <4> QED BY <2>1, <4>1, <4>2
    <3> QED BY <2>1, <3>1, <3>2
  <2>4. PushedInv'
    <3>1. pushed' = Q
      BY <1>7 DEF Q
    <3> QED BY <2>2, <2>3, <3>1 DEF PushedInv
  <2>5. ToSet(Q) \subseteq ToSet(pushed) \cup {O[i] : i \in DOMAIN O}
    BY <2>1 DEF ToSet
  <2>6. Said' = ToSet(Q) \ {Blank}
    BY <1>7 DEF Said, Q
  <2>7. Said' \subseteq Said \cup {O[i] : i \in DOMAIN O} /\ Blank \notin Said'
    BY <2>5, <2>6 DEF Said
  <2> QED BY <1>4, <2>4, <2>7 DEF O
<1> QED BY <1>4, <1>6, <1>7

(* A write whose handlers made t of the screen. *)
LEMMA WroteKeeps ==
  ASSUME IInv, NEW t \in Written(Said, term.sync), Wrote(t)
  PROVE  IInv'
PROOF
<1>1. /\ term' = [t EXCEPT !.out = <<>>, !.hook = "none"]
      /\ Push(t.out) /\ onSync(t.hook) /\ Began(t)
  BY DEF Wrote
<1>2. /\ RingInv' /\ PushedInv'
      /\ Said' \subseteq Said \cup {t.out[i] : i \in DOMAIN t.out}
      /\ Blank \notin Said'
  BY <1>1, PushKeepsPushed
<1>3. term' \in Good(Said', t.sync)
  BY <1>1, <1>2, Handed
<1>4. term'.sync = t.sync
  BY <1>3, GoodParts
<1>5. term'.out = <<>>
  BY <1>1 DEF Written, Screens
<1>6. TermInv'
  BY <1>3, <1>4, <1>5 DEF TermInv
<1>7. FrameInv'
  <2>1. t.sync \in BOOLEAN /\ term.sync \in BOOLEAN /\ t.hook = Told(term.sync, t.sync)
    BY DEF IInv, TermInv, Good, Written, Screens
  <2>2. frozen = before /\ (~term.sync => frozen = NoFrame)
    BY DEF IInv, FrameInv
  <2>3. /\ frozen' = IF t.hook = "begin" THEN Frame(term)
                     ELSE IF t.hook = "end" THEN NoFrame ELSE frozen
        /\ before' = IF t.sync /\ ~term.sync THEN Frame(term)
                     ELSE IF t.sync THEN before ELSE NoFrame
    BY <1>1 DEF onSync, Began
  <2>4. frozen' = before' /\ (~t.sync => frozen' = NoFrame)
    BY <2>1, <2>2, <2>3 DEF Told
  <2> QED BY <1>4, <2>4 DEF FrameInv
<1> QED BY <1>2, <1>6, <1>7 DEF IInv

(* One call of the pump whose handlers keep the screen good. *)
LEMMA GoodWroteKeeps ==
  ASSUME IInv, NEW t \in Good(Said, term.sync), Wrote(t)
  PROVE  IInv'
BY GoodIsWritten, WroteKeeps

LEMMA InitIsGood ==
  ASSUME Init
  PROVE  IInv
PROOF
<1>1. PICK size \in Sizes, cap \in HistLimits :
        /\ term = NewScreen(size[1], size[2])
        /\ buf = [i \in 0..(cap - 1) |-> Blank] /\ head = 0 /\ len = 0 /\ scrolledTotal = 0
        /\ frozen = NoFrame /\ pushed = <<>> /\ before = NoFrame
  BY DEF Init
<1>2. size[1] \in Nat \ {0} /\ size[2] \in Nat \ {0} /\ cap \in Nat
  BY SizesAssumption, BoundsAssumption
<1>3. PushedInv
  BY <1>1 DEF PushedInv
<1>4. Said = {}
  BY <1>1 DEF Said, ToSet
<1>5. Unused(term, size[1], size[2])
  BY <1>1, <1>2, NewScreenIs
<1>6. term \in Good(Said, FALSE)
  <2> DEFINE c == size[1]
             r == size[2]
             w == [NewScreen(c, r) EXCEPT !.fresh = 1]
  <2>1. 1 \in Nat \ {0} /\ Said \subseteq 1..(1 - 1) /\ c \in Nat \ {0} /\ r \in Nat \ {0}
    BY <1>2, <1>4
  <2>2. term = NewScreen(c, r) /\ Unused(term, c, r)
    BY <1>1, <1>5
  <2> HIDE DEF c, r
  <2>3. w \in Good(Said, FALSE)
    BY <2>1, BlankGood
  <2>4. w = [term EXCEPT !.fresh = 1]
    BY <2>2
  <2>5. term \in Screens /\ term.fresh = 1
    BY <2>2 DEF Unused
  <2> HIDE DEF w
  <2>6. /\ w.cols = term.cols /\ w.rows = term.rows /\ w.lines = term.lines /\ w.alt = term.alt
        /\ w.cur = term.cur /\ w.top = term.top /\ w.bottom = term.bottom
        /\ w.altOn = term.altOn /\ w.tabs = term.tabs /\ w.fresh = 1 /\ w.out = term.out
        /\ w.sync = term.sync /\ w.hook = term.hook
    BY <2>4, <2>5 DEF Screens
  <2> QED BY <2>3, <2>5, <2>6, GoodSame
<1>7. TermInv
  <2>1. term.sync = FALSE /\ term.out = <<>>
    BY <1>5 DEF Unused
  <2> QED BY <1>6, <2>1 DEF TermInv
<1>8. RingInv
  <2>1. DOMAIN buf = 0..(cap - 1) /\ buf \in Grid(cap)
    BY <1>1, <1>2 DEF Grid, Blank
  <2>2. histCap = cap
    <3>1. 0 \in Int /\ cap - 1 \in Int
      BY <1>2
    <3>2. Cardinality(0..(cap - 1)) = IF 0 > cap - 1 THEN 0 ELSE (cap - 1) - 0 + 1
      BY <3>1, FS_Interval
    <3>3. Cardinality(0..(cap - 1)) = cap
      BY <1>2, <3>2
    <3> QED BY <2>1, <3>3 DEF histCap
  <2>3. Ring \in Rings(cap)
    BY <1>1, <2>1 DEF Ring, Rings
  <2>4. Len(pushed) = 0
    BY <1>1
  <2>5. cap > 0 => Newest(Ring, pushed, 0, cap)
    BY <1>1, <1>2 DEF Newest, Ring, Lesser
  <2>6. cap = 0 => Ring.len = 0 /\ Ring.total = 0
    BY <1>1 DEF Ring
  <2>7. Holds(Ring, pushed, Len(pushed), cap)
    BY <2>3, <2>4, <2>5, <2>6 DEF Holds
  <2> QED BY <1>1, <1>2, <2>2, <2>7 DEF RingInv
<1>9. FrameInv
  BY <1>1 DEF FrameInv
<1> QED BY <1>3, <1>7, <1>8, <1>9 DEF IInv

(* A program's output. *)
LEMMA OutputKeeps ==
  ASSUME IInv, Text \/ Repeat \/ LineFeed \/ NextLine \/ Index \/ ReverseIndex \/ CursorBy
               \/ CursorTo \/ Tab \/ SetTab \/ ClearTab
  PROVE  IInv'
PROOF
<1>1. term \in Good(Said, term.sync)
  BY DEF IInv, TermInv
<1>n. \A n \in Counts : n \in Nat
  BY BoundsAssumption
<1>c. term.cols \in Int /\ term.rows \in Int
  BY <1>1, CursorIsInt
<1>2. CASE Text
  <2>1. PICK width \in {1, 2} : Wrote(parse(term, width))
    BY <1>2 DEF Text
  <2> QED BY <1>1, <2>1, ParseGood, GoodWroteKeeps
<1>3. CASE Repeat
  <2>1. PICK n \in Counts : term.last # 0 /\ Wrote(repeatLast(term, n))
    BY <1>3 DEF Repeat
  <2>2. repeatLast(term, n) \in Good(Said, term.sync)
    BY <1>1, <1>n, <2>1, RepeatGood
  <2> QED BY <2>1, <2>2, GoodWroteKeeps
<1>4. CASE LineFeed
  BY <1>1, <1>4, NewlineGood, GoodWroteKeeps DEF LineFeed
<1>5. CASE NextLine
  BY <1>1, <1>5, NewlineGood, GoodWroteKeeps DEF NextLine
<1>6. CASE Index
  BY <1>1, <1>6, IndexGood, GoodWroteKeeps DEF Index
<1>7. CASE ReverseIndex
  BY <1>1, <1>7, IndexGood, GoodWroteKeeps DEF ReverseIndex
<1>8. CASE CursorBy
  <2>1. PICK x \in -1..term.cols, y \in -1..term.rows : Wrote(moveTo(term, x, y))
    BY <1>8 DEF CursorBy
  <2>2. x \in Int /\ y \in Int
    BY <1>c
  <2>3. moveTo(term, x, y) \in Good(Said, term.sync)
    BY <1>1, <2>2, MoveTo
  <2> QED BY <2>1, <2>3, GoodWroteKeeps
<1>9. CASE CursorTo
  <2>1. PICK x \in -1..term.cols, y \in -1..term.rows : Wrote(moveAbsTo(term, x, y))
    BY <1>9 DEF CursorTo
  <2>2. x \in Int /\ y \in Int
    BY <1>c
  <2>3. moveAbsTo(term, x, y) \in Good(Said, term.sync)
    BY <1>1, <2>2, GoodIsLoose, LooseMoveAbsTo
  <2> QED BY <2>1, <2>3, GoodWroteKeeps
<1>a. CASE Tab
  <2>1. PICK forward \in BOOLEAN, n \in Counts : Wrote(putTabs(term, forward, n))
    BY <1>a DEF Tab
  <2>2. putTabs(term, forward, n) \in Good(Said, term.sync)
    BY <1>1, <1>n, PutTabsGood
  <2> QED BY <2>1, <2>2, GoodWroteKeeps
<1>t. term.tabs \subseteq 0..(term.cols - 1) /\ term.cur.x \in 0..(term.cols - 1)
  BY <1>1, GoodParts
<1>b. CASE SetTab
  <2> DEFINE T == term.tabs \cup {term.cur.x}
  <2>1. T \subseteq 0..(term.cols - 1)
    BY <1>t
  <2>2. Wrote([term EXCEPT !.tabs = T])
    BY <1>b DEF SetTab
  <2> HIDE DEF T
  <2>3. [term EXCEPT !.tabs = T] \in Good(Said, term.sync)
    BY <1>1, <2>1, TabsGood
  <2> QED BY <2>2, <2>3, GoodWroteKeeps
<1>d. CASE ClearTab
  <2>1. PICK T \in {term.tabs \ {term.cur.x}, {}} : Wrote([term EXCEPT !.tabs = T])
    BY <1>d DEF ClearTab
  <2>2. T \subseteq 0..(term.cols - 1)
    BY <1>t
  <2>3. [term EXCEPT !.tabs = T] \in Good(Said, term.sync)
    BY <1>1, <2>2, TabsGood
  <2> QED BY <2>1, <2>3, GoodWroteKeeps
<1> QED BY <1>2, <1>3, <1>4, <1>5, <1>6, <1>7, <1>8, <1>9, <1>a, <1>b, <1>d

LEMMA EditKeeps ==
  ASSUME IInv, Erase \/ EditRow \/ ScrollUp \/ ScrollDown \/ InsertLines \/ DeleteLines
               \/ Alignment \/ SetRegion \/ SaveCursor \/ RestoreCursor \/ Reset
  PROVE  IInv'
PROOF
<1>1. term \in Good(Said, term.sync) /\ term.out = <<>>
  BY DEF IInv, TermInv
<1>n. \A n \in Counts : n \in Int
  BY BoundsAssumption
<1>c. term.rows \in Int /\ term.top \in 0..term.bottom
  BY <1>1, CursorIsInt
<1>2. CASE Erase
  <2>1. PICK arg \in 0..2 : Wrote(ED(term, arg)) \/ Wrote(EL(term, arg))
    BY <1>2 DEF Erase
  <2>2. ED(term, arg) \in Good(Said, term.sync) /\ EL(term, arg) \in Good(Said, term.sync)
    BY <1>1, EraseGood
  <2> QED BY <2>1, <2>2, GoodWroteKeeps
<1>3. CASE EditRow
  <2>1. PICK n \in Counts : \/ Wrote(ECH(term, n)) \/ Wrote(insertBlanks(term, n))
                            \/ Wrote(deleteChars(term, n))
    BY <1>3 DEF EditRow
  <2>2. /\ ECH(term, n) \in Good(Said, term.sync)
        /\ insertBlanks(term, n) \in Good(Said, term.sync)
        /\ deleteChars(term, n) \in Good(Said, term.sync)
    BY <1>1, <1>n, EditRowGood
  <2> QED BY <2>1, <2>2, GoodWroteKeeps
<1>4. CASE ScrollUp
  <2>1. PICK n \in Counts : Wrote(scrollUpHistory(term, n))
    BY <1>4 DEF ScrollUp
  <2>2. scrollUpHistory(term, n) \in Good(Said, term.sync)
    BY <1>1, <1>n, ScrollUpHistoryGood
  <2> QED BY <2>1, <2>2, GoodWroteKeeps
<1>5. CASE ScrollDown
  <2>1. PICK n \in Counts : Wrote(scrollDown(term, term.top, n))
    BY <1>5 DEF ScrollDown
  <2>2. scrollDown(term, term.top, n) \in Good(Said, term.sync)
    BY <1>1, <1>c, <1>n, ScrollDownGood
  <2> QED BY <2>1, <2>2, GoodWroteKeeps
<1>6. CASE InsertLines
  <2>1. PICK n \in Counts : Wrote(insertBlankLines(term, n))
    BY <1>6 DEF InsertLines
  <2>2. insertBlankLines(term, n) \in Good(Said, term.sync)
    BY <1>1, <1>n, EditLinesGood
  <2> QED BY <2>1, <2>2, GoodWroteKeeps
<1>7. CASE DeleteLines
  <2>1. PICK n \in Counts : Wrote(deleteLines(term, n))
    BY <1>7 DEF DeleteLines
  <2>2. deleteLines(term, n) \in Good(Said, term.sync)
    BY <1>1, <1>n, EditLinesGood
  <2> QED BY <2>1, <2>2, GoodWroteKeeps
<1>8. CASE Alignment
  BY <1>1, <1>8, AlignmentGood, GoodWroteKeeps DEF Alignment
<1>9. CASE SetRegion
  <2>1. PICK a \in -1..(term.rows - 1), b \in -1..(term.rows - 1) :
          Wrote(moveAbsTo(setScroll(term, a, b), 0, 0))
    BY <1>9 DEF SetRegion
  <2>2. a \in Int /\ b \in Int /\ 0 \in Int
    BY <1>c
  <2>3. setScroll(term, a, b) \in Loose(Said, term.sync)
    BY <1>1, <2>2, GoodIsLoose, SetScrollLoose
  <2>4. moveAbsTo(setScroll(term, a, b), 0, 0) \in Good(Said, term.sync)
    BY <2>2, <2>3, LooseMoveAbsTo
  <2> QED BY <2>1, <2>4, GoodWroteKeeps
<1>a. CASE SaveCursor
  BY <1>1, <1>a, SaveCursorGood, GoodWroteKeeps DEF SaveCursor
<1>b. CASE RestoreCursor
  BY <1>1, <1>b, RestoreCursorGood, GoodWroteKeeps DEF RestoreCursor
<1>d. CASE Reset
  <2>1. term.sync \in BOOLEAN
    BY <1>1 DEF Good, Screens
  <2>2. reset(term) \in Written(Said, term.sync)
    BY <1>1, <2>1, ResetWritten
  <2> QED BY <1>d, <2>2, WroteKeeps DEF Reset
<1> QED BY <1>2, <1>3, <1>4, <1>5, <1>6, <1>7, <1>8, <1>9, <1>a, <1>b, <1>d

LEMMA ModeKeeps ==
  ASSUME IInv, NEW set \in BOOLEAN, setMode(set)
  PROVE  IInv'
PROOF
<1>1. term \in Good(Said, term.sync)
  BY DEF IInv, TermInv
<1>2. term.sync \in BOOLEAN
  BY <1>1 DEF Good, Screens
<1>3. setOrigin(term, set) \in Good(Said, term.sync)
  BY <1>1, SetOriginGood
<1>4. /\ [term EXCEPT !.wrap = set] \in Good(Said, term.sync)
      /\ [term EXCEPT !.insert = set] \in Good(Said, term.sync)
      /\ [term EXCEPT !.crlf = set] \in Good(Said, term.sync)
  BY <1>1, ModesGood
<1>5. /\ setAlt(term, set) \in Good(Said, term.sync)
      /\ setSaved(term, set) \in Good(Said, term.sync)
      /\ setAltSaved(term, set) \in Good(Said, term.sync)
  BY <1>1, AltGood
<1>6. setSync(term, set) \in Written(Said, term.sync)
  BY <1>1, <1>2, SetSyncWritten
<1>7. CASE Wrote(setSync(term, set))
  BY <1>6, <1>7, WroteKeeps
<1>8. \/ Wrote(setOrigin(term, set))
      \/ Wrote([term EXCEPT !.wrap = set])
      \/ Wrote([term EXCEPT !.insert = set])
      \/ Wrote([term EXCEPT !.crlf = set])
      \/ Wrote(setSync(term, set))
      \/ Wrote(setAlt(term, set))
      \/ Wrote(setSaved(term, set))
      \/ Wrote(setAltSaved(term, set))
  BY DEF setMode
<1> QED BY <1>3, <1>4, <1>5, <1>7, <1>8, GoodWroteKeeps

(* The scrollback of a step that hands nothing over. *)
LEMMA SameRing ==
  ASSUME IInv, UNCHANGED <<buf, head, len, scrolledTotal, pushed>>
  PROVE  RingInv' /\ PushedInv' /\ Said' = Said
PROOF
<1>1. RingInv /\ PushedInv
  BY DEF IInv
<1>2. Ring' = Ring /\ histCap' = histCap
  BY DEF Ring, histCap
<1>3. RingInv'
  BY <1>1, <1>2 DEF RingInv
<1>4. PushedInv' /\ Said' = Said
  BY <1>1 DEF PushedInv, Said
<1> QED BY <1>3, <1>4

LEMMA PanicKeeps ==
  ASSUME IInv, Panic
  PROVE  IInv'
PROOF
<1>1. /\ term' = [NewScreen(term.cols, term.rows) EXCEPT !.fresh = term.fresh]
      /\ frozen' = NoFrame /\ before' = NoFrame
      /\ UNCHANGED <<buf, head, len, scrolledTotal, pushed>>
  BY DEF Panic
<1>2. RingInv' /\ PushedInv' /\ Said' = Said
  BY <1>1, SameRing
<1>3. term \in Good(Said, term.sync)
  BY DEF IInv, TermInv
<1>4. term.cols \in Nat \ {0} /\ term.rows \in Nat \ {0} /\ term.fresh \in Nat \ {0}
            /\ Texts(term, Said)
  BY <1>3, GoodParts
<1>5. Said \subseteq 1..(term.fresh - 1)
  BY <1>4 DEF Texts, Held
<1>6. term' \in Good(Said, FALSE)
  BY <1>1, <1>4, <1>5, BlankGood
<1>7. term'.sync = FALSE
  BY <1>6, GoodParts
<1>8. term'.out = <<>>
  <2>1. Unused(NewScreen(term.cols, term.rows), term.cols, term.rows)
    BY <1>4, NewScreenIs
  <2> QED BY <1>1, <2>1 DEF Unused, Screens
<1>9. TermInv'
  BY <1>2, <1>6, <1>7, <1>8 DEF TermInv
<1>a. FrameInv'
  BY <1>1 DEF FrameInv
<1> QED BY <1>2, <1>9, <1>a DEF IInv

LEMMA ResizeKeeps ==
  ASSUME IInv, Resize
  PROVE  IInv'
PROOF
<1>1. PICK size \in Sizes : LET t == resize(term, size[1], size[2]) IN
        /\ term' = [t EXCEPT !.out = <<>>] /\ Push(t.out)
        /\ frozen' = NoFrame /\ before' = NoFrame
  BY DEF Resize
<1> DEFINE t == resize(term, size[1], size[2])
<1>2. term \in Good(Said, term.sync)
  BY DEF IInv, TermInv
<1>3. t \in Good(Said, term.sync)
  <2>1. size[1] \in Nat \ {0} /\ size[2] \in Nat \ {0}
    BY SizesAssumption
  <2> QED BY <1>2, <2>1, ResizeGood
<1>4. /\ term' = [t EXCEPT !.out = <<>>] /\ Push(t.out)
      /\ frozen' = NoFrame /\ before' = NoFrame
  BY <1>1
<1> HIDE DEF t
<1>5. t \in Written(Said, term.sync) /\ t.hook = "none"
  BY <1>3, GoodIsWritten, GoodParts
<1>6. /\ RingInv' /\ PushedInv'
      /\ Said' \subseteq Said \cup {t.out[i] : i \in DOMAIN t.out}
      /\ Blank \notin Said'
  BY <1>4, <1>5, PushKeepsPushed
<1>7. term' \in Good(Said', t.sync)
  BY <1>4, <1>5, <1>6, Handed
<1>8. term'.sync = t.sync
  BY <1>7, GoodParts
<1>9. term'.out = <<>>
  BY <1>4, <1>5 DEF Written, Screens
<1>a. TermInv'
  BY <1>7, <1>8, <1>9 DEF TermInv
<1>b. FrameInv'
  BY <1>4 DEF FrameInv
<1> QED BY <1>6, <1>a, <1>b DEF IInv

LEMMA SameKeeps ==
  ASSUME IInv, UNCHANGED <<term, buf, head, len, scrolledTotal, frozen, pushed, before>>
  PROVE  IInv'
PROOF
<1>1. RingInv' /\ PushedInv' /\ Said' = Said
  BY SameRing
<1>2. TermInv'
  BY <1>1 DEF IInv, TermInv
<1>3. FrameInv'
  BY DEF IInv, FrameInv
<1> QED BY <1>1, <1>2, <1>3 DEF IInv

(* IInv is inductive. *)
LEMMA NextKeeps ==
  ASSUME IInv, [Next]_vars
  PROVE  IInv'
PROOF
<1>1. CASE Text \/ Repeat \/ LineFeed \/ NextLine \/ Index \/ ReverseIndex \/ CursorBy
           \/ CursorTo \/ Tab \/ SetTab \/ ClearTab
  BY <1>1, OutputKeeps
<1>2. CASE Erase \/ EditRow \/ ScrollUp \/ ScrollDown \/ InsertLines \/ DeleteLines
           \/ Alignment \/ SetRegion \/ SaveCursor \/ RestoreCursor \/ Reset
  BY <1>2, EditKeeps
<1>3. CASE \E set \in BOOLEAN : setMode(set)
  BY <1>3, ModeKeeps
<1>4. CASE Panic
  BY <1>4, PanicKeeps
<1>5. CASE Resize
  BY <1>5, ResizeKeeps
<1>6. CASE SplitRune \/ SnapshotInto \/ Timeout \/ UNCHANGED vars
  <2>1. UNCHANGED <<term, buf, head, len, scrolledTotal, frozen, pushed, before>>
    BY <1>6 DEF SplitRune, SnapshotInto, Timeout, vars
  <2> QED BY <2>1, SameKeeps
<1> QED BY <1>1, <1>2, <1>3, <1>4, <1>5, <1>6 DEF Next, Write

LEMMA Invariance == Spec => []IInv
PROOF
<1>1. Init => IInv
  BY InitIsGood
<1>2. IInv /\ [Next]_vars => IInv'
  BY NextKeeps
<1> QED BY <1>1, <1>2, PTL DEF Spec

-----------------------------------------------------------------------------
(* The theorems. *)

(* No sequence of controls, modes, resizes and panics makes a handler use  *)
(* a row, a column, a tab stop or a slot of the ring that does not exist,  *)
(* or leaves the cursor outside the scroll region in origin mode.          *)
THEOREM TerminalTypes == Spec => []TypeOK
PROOF
<1>1. IInv => TypeOK
  <2> SUFFICES ASSUME IInv PROVE TypeOK
    OBVIOUS
  <2>1. term \in Good(Said, term.sync)
    BY DEF IInv, TermInv
  <2>2. Fits(term) /\ Rows(term) = 0..(term.rows - 1)
    BY <2>1, GoodParts
  <2>3. DOMAIN term.lines = Rows(term) /\ DOMAIN term.alt = Rows(term)
    BY <2>2 DEF Fits, Framed, Grid
  <2>4. histCap \in Nat /\ Holds(Ring, pushed, Len(pushed), histCap) /\ pushed \in Seq(Nat)
    BY DEF IInv, RingInv, PushedInv
  <2>5. Ring.len = len /\ Ring.head = head
    BY DEF Ring
  <2>6. len \in 0..histCap /\ (histCap = 0 \/ head \in 0..(histCap - 1))
    <3> DEFINE c == histCap
               n == Len(pushed)
    <3>1. c \in Nat /\ n \in Nat /\ Holds(Ring, pushed, n, c)
      BY <2>4
    <3> HIDE DEF c, n
    <3>2. CASE c = 0
      <4>1. len = 0
        BY <2>5, <3>1, <3>2 DEF Holds
      <4>2. len \in 0..c /\ c = 0
        BY <3>2, <4>1
      <4> QED BY <4>2 DEF c
    <3>3. CASE c > 0
      <4>1. len = Lesser(c, n) /\ head \in 0..(c - 1)
        BY <2>5, <3>1, <3>3 DEF Holds, Newest
      <4>2. len \in 0..c
        BY <3>1, <4>1 DEF Lesser
      <4> QED BY <4>1, <4>2 DEF c
    <3> QED BY <3>1, <3>2, <3>3
  <2> QED BY <2>2, <2>3, <2>6 DEF TypeOK, Fits, Framed
<1> QED BY <1>1, Invariance, PTL

(* The ring holds the newest rows that scrolled out, oldest first, as many *)
(* as the history limit allows, however often it went round.               *)
THEOREM TerminalHistory == Spec => []HistoryIsTail
PROOF
<1>1. IInv => HistoryIsTail
  <2> SUFFICES ASSUME IInv PROVE HistoryIsTail
    OBVIOUS
  <2> DEFINE c == histCap
             n == Len(pushed)
  <2>1. /\ c \in Nat /\ Holds(Ring, pushed, n, c) /\ pushed \in Seq(Nat)
        /\ c = 0 => pushed = <<>>
    BY DEF IInv, RingInv, PushedInv
  <2>2. n \in Nat /\ (c = 0 => n = 0)
    BY <2>1
  <2>3. Ring.len = len /\ Ring.head = head /\ Ring.buf = buf /\ Ring.total = scrolledTotal
    BY DEF Ring
  <2>4. \A i \in 0..(len - 1) : historyRow(i) = buf[(head + i) % c]
    BY DEF historyRow
  <2>q. HistoryIsTail <=>
          /\ scrolledTotal = n /\ len = Lesser(c, n)
          /\ \A i \in 0..(len - 1) : historyRow(i) = pushed[n - len + i + 1]
    BY DEF HistoryIsTail
  <2> HIDE DEF c, n
  <2>5. CASE c = 0
    <3>1. len = 0 /\ scrolledTotal = 0
      BY <2>1, <2>3, <2>5 DEF Holds
    <3> QED BY <2>2, <2>5, <2>q, <3>1 DEF Lesser
  <2>6. CASE c > 0
    <3>1. Newest(Ring, pushed, n, c)
      BY <2>1, <2>6 DEF Holds
    <3>2. /\ scrolledTotal = n /\ len = Lesser(c, n)
          /\ \A i \in 0..(len - 1) : buf[(head + i) % c] = pushed[n - len + i + 1]
      BY <2>3, <3>1 DEF Newest
    <3> QED BY <2>4, <2>q, <3>2
  <2> QED BY <2>1, <2>5, <2>6
<1> QED BY <1>1, Invariance, PTL

(* What is printed on the alternate screen never reaches the scrollback,   *)
(* and no row of text is in two places: not twice in the scrollback, not   *)
(* in it and still on the main screen.                                     *)
THEOREM TerminalScrollback == Spec => []ScrollbackIsMain
PROOF
<1>1. IInv => ScrollbackIsMain
  <2> SUFFICES ASSUME IInv PROVE ScrollbackIsMain
    OBVIOUS
  <2>1. /\ pushed \in Seq(Nat)
        /\ \A i, j \in DOMAIN pushed : i # j /\ pushed[i] # Blank => pushed[i] # pushed[j]
    BY DEF IInv, PushedInv
  <2>2. AltText \notin ToSet(pushed)
    <3>1. \A i \in DOMAIN pushed : pushed[i] \in Nat
      BY <2>1
    <3> QED BY <3>1 DEF ToSet, AltText
  <2>3. term \in Good(Said, term.sync)
    BY DEF IInv, TermInv
  <2>4. \A y \in Rows(term) : term.lines[y] \notin Said /\ term.alt[y] \notin Said
    BY <2>3, GoodParts DEF Texts, Held
  <2>5. \A i \in DOMAIN pushed : pushed[i] # Blank => pushed[i] \in Said
    BY DEF Said, ToSet
  <2>6. \A i \in DOMAIN pushed, y \in Rows(term) : pushed[i] # Blank => Main[y] # pushed[i]
    BY <2>4, <2>5 DEF Main
  <2> QED BY <2>1, <2>2, <2>6 DEF ScrollbackIsMain
<1> QED BY <1>1, Invariance, PTL

(* While a synchronized update is drawn a snapshot shows the frame it      *)
(* began from, and outside one the screen as it is, whether the update     *)
(* ended by its sequence, a reset, a resize or a panic.                    *)
THEOREM TerminalUpdates == Spec => UpdateIsHidden
PROOF
<1>1. IInv /\ [Next]_vars =>
        [SnapshotInto => /\ before # NoFrame /\ ~expired => shown' = before
                         /\ ~term.sync => shown' = Frame(term)]_vars
  <2> SUFFICES ASSUME IInv, SnapshotInto
               PROVE  /\ before # NoFrame /\ ~expired => shown' = before
                      /\ ~term.sync => shown' = Frame(term)
    OBVIOUS
  <2>1. frozen = before /\ (~term.sync => frozen = NoFrame)
    BY DEF IInv, FrameInv
  <2>2. shown' = IF frozen # NoFrame /\ ~expired THEN frozen ELSE Frame(term)
    BY DEF SnapshotInto
  <2> QED BY <2>1, <2>2
<1> QED BY <1>1, Invariance, PTL DEF Spec, UpdateIsHidden
===============================================================================
