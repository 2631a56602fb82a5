---------------------------- MODULE SessionProofs ----------------------------
(* Proofs about Session for every value of its constants. *)
EXTENDS Session, SequenceTheorems, FiniteSetTheorems, FunctionTheorems,
        WellFoundedInduction, TLAPS

-----------------------------------------------------------------------------
(* Induction.  The library's principles have an operator as a parameter,   *)
(* which no prover here can instantiate; the ones below speak of the set   *)
(* of the numbers that have the property instead.                          *)
Less == {p \in Nat \X Nat : p[1] < p[2]}

(* The least-number principle, from the well-foundedness of <. *)
LEMMA LeastNatural ==
  ASSUME NEW T \in SUBSET Nat, T # {}
  PROVE  \E m \in T : \A k \in T : m <= k
PROOF
<1>1. IsWellFoundedOn(Less, Nat)
  BY NatLessThanWellFounded DEF OpToRel, Less
<1>2. PICK m \in T : \A k \in T : ~(<<k, m>> \in Less)
  BY <1>1, WFMin
<1>3. ASSUME NEW k \in T PROVE m <= k
  <2>1. m \in Nat /\ k \in Nat
    OBVIOUS
  <2>2. k < m => <<k, m>> \in Less
    BY <2>1 DEF Less
  <2>3. ~(k < m)
    BY <1>2, <2>2
  <2> QED BY <2>1, <2>3
<1> QED BY <1>3

(* Quotients and products. *)
LEMMA Division ==
  ASSUME NEW a \in Nat, NEW b \in Nat \ {0}
  PROVE  a \div b \in Nat /\ b * (a \div b) <= a /\ a < b * (a \div b) + b
OBVIOUS

LEMMA DivisionOnce ==
  ASSUME NEW q \in Nat, NEW b \in Nat \ {0}, NEW m \in 0..(b - 1)
  PROVE  (b * q + m) \div b = q
OBVIOUS

LEMMA ProductGrows ==
  ASSUME NEW x \in Nat, NEW y \in Nat, NEW c \in Nat
  PROVE  /\ x <= y => c * x <= c * y
         /\ c * (x + 1) = c * x + c /\ c * x \in Nat /\ c * x = x * c
OBVIOUS

-----------------------------------------------------------------------------
(* Lists without duplicates: Append and RemoveAt on them. *)

(* RemoveAt, entry by entry. *)
LEMMA RemoveAtProperties ==
  ASSUME NEW S, NEW s \in Seq(S), NEW i \in DOMAIN s
  PROVE  LET r == RemoveAt(s, i) IN
         /\ r \in Seq(S)
         /\ Len(r) = Len(s) - 1
         /\ \A j \in 1..(Len(s) - 1) : r[j] = IF j < i THEN s[j] ELSE s[j + 1]
PROOF
<1> DEFINE n == Len(s)
           a == SubSeq(s, 1, i - 1)
           b == SubSeq(s, i + 1, n)
<1>1. n \in Nat /\ i \in 1..n /\ DOMAIN s = 1..n
  OBVIOUS
<1>2. a \in Seq(S) /\ Len(a) = i - 1 /\ \A k \in 1..(i - 1) : a[k] = s[k]
  BY <1>1, SubSeqProperties
<1>3. b \in Seq(S) /\ Len(b) = n - i /\ \A k \in 1..(n - i) : b[k] = s[i + k]
  BY <1>1, SubSeqProperties
<1>4. RemoveAt(s, i) = a \o b
  BY DEF RemoveAt
<1> HIDE DEF a, b
<1>5. a \o b \in Seq(S) /\ Len(a \o b) = n - 1
  <2>1. a \o b \in Seq(S) /\ Len(a \o b) = Len(a) + Len(b)
    BY <1>2, <1>3, ConcatProperties
  <2> QED BY <1>1, <1>2, <1>3, <2>1
<1>6. ASSUME NEW j \in 1..(n - 1) PROVE (a \o b)[j] = IF j < i THEN s[j] ELSE s[j + 1]
  <2>1. (a \o b)[j] = IF j <= i - 1 THEN a[j] ELSE b[j - (i - 1)]
    BY <1>1, <1>2, <1>3, ConcatProperties
  <2>2. j <= i - 1 => a[j] = s[j]
    BY <1>1, <1>2
  <2>3. ~(j <= i - 1) => b[j - (i - 1)] = s[j + 1]
    <3> DEFINE k == j - (i - 1)
    <3>1. ~(j <= i - 1) => k \in 1..(n - i) /\ i + k = j + 1
      BY <1>1
    <3> HIDE DEF k
    <3>2. ~(j <= i - 1) => b[k] = s[j + 1]
      BY <1>3, <3>1
    <3> QED BY <3>2 DEF k
  <2> QED BY <1>1, <2>1, <2>2, <2>3
<1> QED BY <1>4, <1>5, <1>6

(* What dropping one entry of a list of distinct elements does to it. *)
LEMMA RemoveAtDistinct ==
  ASSUME NEW S, NEW s \in Seq(S), NEW i \in DOMAIN s,
         \A j, k \in DOMAIN s : s[j] = s[k] => j = k
  PROVE  LET r == RemoveAt(s, i) IN
         /\ r \in Seq(S)
         /\ Len(r) = Len(s) - 1
         /\ ToSet(r) = ToSet(s) \ {s[i]}
         /\ \A j, k \in DOMAIN r : r[j] = r[k] => j = k
PROOF
<1> DEFINE n == Len(s)
           r == [j \in 1..(n - 1) |-> IF j < i THEN s[j] ELSE s[j + 1]]
<1>1. n \in Nat /\ i \in 1..n /\ DOMAIN s = 1..n
  OBVIOUS
<1>2. RemoveAt(s, i) = r
  <2>1. /\ RemoveAt(s, i) \in Seq(S) /\ Len(RemoveAt(s, i)) = n - 1
        /\ \A j \in 1..(n - 1) : RemoveAt(s, i)[j] = r[j]
    BY RemoveAtProperties
  <2> QED BY <1>1, <2>1
<1>3. r \in Seq(S) /\ Len(r) = n - 1 /\ DOMAIN r = 1..(n - 1)
  BY <1>1
<1>4. \A j, k \in DOMAIN r : r[j] = r[k] => j = k
  BY <1>1, <1>3
<1>5. ToSet(r) = ToSet(s) \ {s[i]}
  <2>1. ASSUME NEW j \in DOMAIN r PROVE r[j] \in ToSet(s) \ {s[i]}
    BY <1>1, <1>3 DEF ToSet
  <2>2. ASSUME NEW j \in DOMAIN s, s[j] # s[i] PROVE s[j] \in ToSet(r)
    <3>1. CASE j < i
      BY <1>1, <1>3, <3>1, r[j] = s[j] DEF ToSet
    <3>2. CASE j > i
      <4>1. j - 1 \in DOMAIN r /\ r[j - 1] = s[j]
        BY <1>1, <1>3, <3>2
      <4> QED BY <4>1 DEF ToSet
    <3> QED BY <1>1, <2>2, <3>1, <3>2
  <2>3. ToSet(s) = {s[j] : j \in DOMAIN s} /\ ToSet(r) = {r[j] : j \in DOMAIN r}
    BY DEF ToSet
  <2> HIDE DEF r
  <2>4. ToSet(r) \subseteq ToSet(s) \ {s[i]}
    BY <2>1, <2>3
  <2>5. ToSet(s) \ {s[i]} \subseteq ToSet(r)
    BY <2>2, <2>3
  <2> QED BY <2>4, <2>5
<1> QED BY <1>2, <1>3, <1>4, <1>5

LEMMA AppendDistinct ==
  ASSUME NEW S, NEW s \in Seq(S), NEW e \in S, e \notin ToSet(s),
         \A j, k \in DOMAIN s : s[j] = s[k] => j = k
  PROVE  LET r == Append(s, e) IN
         /\ r \in Seq(S)
         /\ Len(r) = Len(s) + 1
         /\ ToSet(r) = ToSet(s) \cup {e}
         /\ \A j, k \in DOMAIN r : r[j] = r[k] => j = k
PROOF
<1> DEFINE n == Len(s)
           r == Append(s, e)
<1>1. n \in Nat /\ DOMAIN s = 1..n /\ r \in Seq(S) /\ Len(r) = n + 1 /\ DOMAIN r = 1..(n + 1)
  OBVIOUS
<1>2. r[n + 1] = e /\ \A j \in 1..n : r[j] = s[j]
  BY <1>1
<1>3. \A j \in 1..n : s[j] # e
  BY <1>1 DEF ToSet
<1>4. \A j, k \in DOMAIN r : r[j] = r[k] => j = k
  BY <1>1, <1>2, <1>3
<1>5. ToSet(r) = ToSet(s) \cup {e}
  <2> HIDE DEF r
  <2> QED BY <1>1, <1>2 DEF ToSet
<1> HIDE DEF r
<1> QED BY <1>1, <1>4, <1>5 DEF r

-----------------------------------------------------------------------------
(* The inductive invariant.  Listing ties the list to the panes: a window  *)
(* is listed exactly while it has one.  The last two conjuncts say which   *)
(* ids are still unused and that a reported pane knows its window.         *)

Housed ==
  \A p \in PaneIds :
    shell[p] \in {"running", "exited"} => \E w \in Listed : p \in window[w].panes

Listing == \A w \in WindowIds : w \in Listed <=> window[w].panes # {}

Distinct == \A i, j \in DOMAIN windows : windows[i] = windows[j] => i = j

FreshIds ==
  /\ \A p \in PaneIds : p > nextPaneID =>
       win[p] = NoWindow /\ pump[p] = "none" /\ shell[p] = "unborn"
  /\ \A w \in Listed : w < nextWindowID

Reported ==
  /\ \A p \in PaneIds : pump[p] # "none" => win[p] \in WindowIds
  /\ \A i \in DOMAIN paneExit : pump[paneExit[i]] # "none"

IInv ==
  /\ TypeOK
  /\ RoutedHome
  /\ Distinct
  /\ Listing
  /\ HasWindow => cur < Len(windows)
  /\ Housed
  /\ FreshIds
  /\ Reported

(* The invariant gives the three properties the runs check. *)
LEMMA InvariantImplies ==
  IInv => RoutedHome /\ NoShellLost /\ ListedWindows
PROOF
<1> SUFFICES ASSUME IInv PROVE NoShellLost /\ ListedWindows
  BY DEF IInv
<1> USE DEF IInv
<1>0. windows \in Seq(WindowIds)
  BY Zenon DEF TypeOK
<1>1. DOMAIN windows = 1..Len(windows) /\ \A i \in DOMAIN windows : windows[i] \in WindowIds
  BY <1>0
<1>2. \A i \in DOMAIN windows : windows[i] \in Listed
  BY DEF Listed, ToSet
<1>3. ListedWindows
  BY <1>1, <1>2 DEF ListedWindows, Listing, Distinct
<1>4. ASSUME NEW p \in PaneIds, shell[p] \in {"running", "exited"}
      PROVE  \E i \in DOMAIN windows : /\ p \in window[windows[i]].panes
                                      /\ \A j \in DOMAIN windows \ {i} :
                                           p \notin window[windows[j]].panes
  <2>1. PICK w \in Listed : p \in window[w].panes
    BY <1>4 DEF Housed
  <2>2. PICK i \in DOMAIN windows : windows[i] = w
    BY DEF Listed, ToSet
  <2>3. \A j \in DOMAIN windows \ {i} : p \notin window[windows[j]].panes
    BY <1>1, <2>1, <2>2 DEF RoutedHome, Distinct
  <2> QED BY <2>1, <2>2, <2>3
<1> QED BY <1>3, <1>4 DEF NoShellLost

LEMMA InitInvariant == Init => IInv
PROOF
<1> SUFFICES ASSUME Init PROVE IInv
  OBVIOUS
<1> USE SessionAssumption DEF Init, PaneIds, WindowIds, NoWindow, NoPane
<1>1. /\ 0 \in WindowIds /\ 1 \in PaneIds
      /\ window[0] = wrapWindow(1)
      /\ \A w \in WindowIds \ {0} : window[w] = Unused
      /\ wrapWindow(1).panes = {1} /\ Unused.panes = {}
  BY DEF wrapWindow, Unused
<1>2. Listed = {0}
  BY DEF Listed, ToSet
<1>3. TypeOK
  <2>1. \A w \in WindowIds : WindowOK(window[w])
    BY <1>1 DEF WindowOK, wrapWindow, Unused
  <2>2. windows \in Seq(WindowIds) /\ cur \in Nat
    BY <1>1
  <2>3. window = [w \in WindowIds |-> window[w]]
    OBVIOUS
  <2>4. /\ nextPaneID \in PaneIds /\ nextWindowID \in 1..MaxWindow
        /\ win \in [PaneIds -> WindowIds \cup {NoWindow}]
        /\ shell \in [PaneIds -> {"unborn", "running", "exited", "closed"}]
        /\ pump \in [PaneIds -> {"none", "reading", "done"}]
    OBVIOUS
  <2>5. /\ paneExit \in Seq(PaneIds) /\ Len(paneExit) <= ExitCap
        /\ reaper \in {"waiting", "notifying", "stopped"}
        /\ dead \in BOOLEAN /\ registered \in BOOLEAN
    <3>1. paneExit = <<>> /\ ExitCap \in Nat
      OBVIOUS
    <3>2. paneExit \in Seq(PaneIds) /\ Len(paneExit) <= ExitCap
      <4> HIDE DEF Init, PaneIds
      <4> QED BY <3>1
    <3>3. dead \in BOOLEAN /\ registered \in BOOLEAN
      BY Zenon
    <3> QED BY <3>2, <3>3
  <2>6. stop \in [Stoppers -> {"idle", "sweep", "deregister", "sweep again", "done"}]
    BY DEF Stoppers
  <2> HIDE DEF Init, PaneIds, WindowIds
  <2> QED BY <2>1, <2>2, <2>3, <2>4, <2>5, <2>6 DEF TypeOK
<1>4. RoutedHome /\ Listing /\ Housed
  BY <1>1, <1>2 DEF RoutedHome, Listing, Housed
<1>5. Distinct /\ FreshIds /\ Reported /\ (HasWindow => cur < Len(windows))
  BY <1>2 DEF Distinct, FreshIds, Reported, HasWindow
<1> QED BY <1>3, <1>4, <1>5 DEF IInv

-----------------------------------------------------------------------------
(* Steps.  Current is a listed window. *)

LEMMA SequenceRange ==
  ASSUME NEW S, NEW s \in Seq(S)
  PROVE  ToSet(s) \subseteq S
BY DEF ToSet

LEMMA CurrentListed ==
  ASSUME IInv, HasWindow
  PROVE  /\ CurrentId \in Listed /\ CurrentId \in WindowIds
         /\ cur + 1 \in DOMAIN windows
         /\ WindowOK(Current) /\ Current.panes # {}
PROOF
<1>1. windows \in Seq(WindowIds) /\ cur \in Nat
  BY Zenon DEF IInv, TypeOK
<1>2. cur < Len(windows)
  BY DEF IInv
<1>3. cur + 1 \in DOMAIN windows
  BY <1>1, <1>2
<1>4. CurrentId \in Listed /\ CurrentId \in WindowIds
  BY <1>1, <1>3 DEF CurrentId, Listed, ToSet
<1> QED BY <1>3, <1>4 DEF IInv, TypeOK, Listing, Current

LEMMA IdTypes ==
  ASSUME IInv
  PROVE  /\ nextPaneID \in PaneIds /\ nextPaneID \in Int /\ PaneIds \subseteq Int
         /\ nextWindowID \in 1..MaxWindow /\ nextWindowID \in Int /\ WindowIds \subseteq Int
PROOF
<1>1. nextPaneID \in PaneIds /\ nextWindowID \in 1..MaxWindow
  BY Zenon DEF IInv, TypeOK
<1> QED BY <1>1, SessionAssumption DEF PaneIds, WindowIds

(* A step that replaces the current window's record by one with the same   *)
(* panes, and may use up a pane id.                                        *)
LEMMA SamePanesInvariant ==
  ASSUME IInv, NEW w, HasWindow, SetCurrent(w), WindowOK(w), w.panes = Current.panes,
         UNCHANGED <<nextWindowID, paneVars, reapVars, stopVars>>,
         nextPaneID' \in PaneIds, nextPaneID' >= nextPaneID
  PROVE  IInv'
PROOF
<1> USE DEF SetCurrent, IInv, paneVars, reapVars, stopVars
<1>1. CurrentId \in WindowIds
  BY CurrentListed
<1>2. /\ window' = [v \in WindowIds |-> window'[v]]
      /\ window'[CurrentId] = w
      /\ \A v \in WindowIds \ {CurrentId} : window'[v] = window[v]
  BY <1>1 DEF TypeOK
<1>3. \A v \in WindowIds : window'[v].panes = window[v].panes
  BY <1>1, <1>2 DEF Current
<1>4. TypeOK'
  BY <1>1, <1>2 DEF TypeOK, WindowOK
<1>5. Listed' = Listed /\ (HasWindow' <=> HasWindow)
  BY DEF Listed, HasWindow
<1>6. RoutedHome' /\ Listing'
  BY <1>3, <1>5 DEF RoutedHome, Listing
<1>7. Housed'
  <2>1. Listed \subseteq WindowIds
    BY SequenceRange DEF TypeOK, Listed
  <2> QED BY <1>3, <1>5, <2>1 DEF Housed
<1>8. FreshIds'
  <2> QED BY <1>5, IdTypes DEF FreshIds
<1>9. Distinct' /\ Reported' /\ (HasWindow => cur < Len(windows))'
  BY <1>5 DEF Distinct, Reported, HasWindow
<1> QED BY <1>4, <1>6, <1>7, <1>8, <1>9

(* A window record is its four fields, and EXCEPT rebuilds it from them. *)
LEMMA RecordOK ==
  ASSUME NEW t, NEW P, P \subseteq PaneIds, NEW a, NEW z
  PROVE  LET v == [tree |-> t, panes |-> P, active |-> a, zoom |-> z]
         IN  WindowOK(v) /\ v.panes = P
BY DEF WindowOK

LEMMA ExceptFields ==
  ASSUME NEW w, WindowOK(w), NEW t, NEW a, NEW z
  PROVE  /\ [w EXCEPT !.active = a] =
              [tree |-> w.tree, panes |-> w.panes, active |-> a, zoom |-> w.zoom]
         /\ [w EXCEPT !.zoom = z] =
              [tree |-> w.tree, panes |-> w.panes, active |-> w.active, zoom |-> z]
         /\ [w EXCEPT !.tree = t] =
              [tree |-> t, panes |-> w.panes, active |-> w.active, zoom |-> w.zoom]
PROOF
<1> DEFINE f == w.tree
           P == w.panes
           b == w.active
           y == w.zoom
           r == [tree |-> f, panes |-> P, active |-> b, zoom |-> y]
<1>1. w = r
  BY DEF WindowOK
<1> HIDE DEF f, P, b, y
<1>2. /\ [r EXCEPT !.active = a] = [tree |-> f, panes |-> P, active |-> a, zoom |-> y]
      /\ [r EXCEPT !.zoom = z] = [tree |-> f, panes |-> P, active |-> b, zoom |-> z]
      /\ [r EXCEPT !.tree = t] = [tree |-> t, panes |-> P, active |-> b, zoom |-> y]
  OBVIOUS
<1> HIDE DEF r
<1> QED BY <1>1, <1>2 DEF f, P, b, y

LEMMA ExceptKeepsPanes ==
  ASSUME NEW w, WindowOK(w), NEW t, NEW a, NEW z
  PROVE  /\ LET v == [w EXCEPT !.active = a] IN WindowOK(v) /\ v.panes = w.panes
         /\ LET v == [w EXCEPT !.zoom = z] IN WindowOK(v) /\ v.panes = w.panes
         /\ LET v == [w EXCEPT !.tree = t] IN WindowOK(v) /\ v.panes = w.panes
PROOF
<1>1. w.panes \subseteq PaneIds
  BY DEF WindowOK
<1>2. LET v == [w EXCEPT !.active = a] IN WindowOK(v) /\ v.panes = w.panes
  <2> DEFINE v == [w EXCEPT !.active = a]
             r == [tree |-> w.tree, panes |-> w.panes, active |-> a, zoom |-> w.zoom]
  <2>1. v = r
    BY ExceptFields
  <2>2. WindowOK(r) /\ r.panes = w.panes
    BY <1>1, RecordOK
  <2> HIDE DEF v, r
  <2> QED BY <2>1, <2>2 DEF v
<1>3. LET v == [w EXCEPT !.zoom = z] IN WindowOK(v) /\ v.panes = w.panes
  <2> DEFINE v == [w EXCEPT !.zoom = z]
             r == [tree |-> w.tree, panes |-> w.panes, active |-> w.active, zoom |-> z]
  <2>1. v = r
    BY ExceptFields
  <2>2. WindowOK(r) /\ r.panes = w.panes
    BY <1>1, RecordOK
  <2> HIDE DEF v, r
  <2> QED BY <2>1, <2>2 DEF v
<1>4. LET v == [w EXCEPT !.tree = t] IN WindowOK(v) /\ v.panes = w.panes
  <2> DEFINE v == [w EXCEPT !.tree = t]
             r == [tree |-> t, panes |-> w.panes, active |-> w.active, zoom |-> w.zoom]
  <2>1. v = r
    BY ExceptFields
  <2>2. WindowOK(r) /\ r.panes = w.panes
    BY <1>1, RecordOK
  <2> HIDE DEF v, r
  <2> QED BY <2>1, <2>2 DEF v
<1> QED BY <1>2, <1>3, <1>4

LEMMA ApplyLayoutKeepsPanes ==
  ASSUME NEW w, WindowOK(w)
  PROVE  WindowOK(applyLayout(w)) /\ applyLayout(w).panes = w.panes
BY ExceptKeepsPanes DEF applyLayout

LEMMA RearrangingOperators ==
  ASSUME NEW w, WindowOK(w)
  PROVE  /\ \A delta : WindowOK(swapActive(w, delta)) /\ swapActive(w, delta).panes = w.panes
         /\ \A delta : /\ WindowOK(focus(unzoom(w), delta))
                       /\ focus(unzoom(w), delta).panes = w.panes
         /\ \A p : LET v == [unzoom(w) EXCEPT !.active = p]
                   IN  WindowOK(v) /\ v.panes = w.panes
         /\ WindowOK(toggleZoom(w)) /\ toggleZoom(w).panes = w.panes
         /\ \A preset : /\ WindowOK(selectLayout(w, preset))
                        /\ selectLayout(w, preset).panes = w.panes
         /\ \A p : WindowOK(splitUnspawned(w, p)) /\ splitUnspawned(w, p).panes = w.panes
PROOF
<1>1. WindowOK(unzoom(w)) /\ unzoom(w).panes = w.panes
  BY ExceptKeepsPanes DEF unzoom
<1>2. \A delta : WindowOK(swapActive(w, delta)) /\ swapActive(w, delta).panes = w.panes
  BY <1>1, ExceptKeepsPanes DEF swapActive
<1>3. \A delta : /\ WindowOK(focus(unzoom(w), delta))
                 /\ focus(unzoom(w), delta).panes = w.panes
  BY <1>1, ExceptKeepsPanes DEF focus
<1>4. \A p : LET v == [unzoom(w) EXCEPT !.active = p]
             IN  WindowOK(v) /\ v.panes = w.panes
  BY <1>1, ExceptKeepsPanes
<1>5. WindowOK(toggleZoom(w)) /\ toggleZoom(w).panes = w.panes
  <2> DEFINE z == IF w.zoom = NoPane /\ Cardinality(w.panes) > 1 THEN w.active ELSE NoPane
             v == [w EXCEPT !.zoom = z]
  <2>1. WindowOK(v) /\ v.panes = w.panes
    BY ExceptKeepsPanes
  <2>2. toggleZoom(w) = applyLayout(v)
    BY DEF toggleZoom
  <2> HIDE DEF v
  <2>3. WindowOK(applyLayout(v)) /\ applyLayout(v).panes = v.panes
    BY <2>1, ApplyLayoutKeepsPanes
  <2> QED BY <2>1, <2>2, <2>3
<1>6. \A preset : WindowOK(selectLayout(w, preset)) /\ selectLayout(w, preset).panes = w.panes
  BY <1>1, ExceptKeepsPanes DEF selectLayout
<1>7. \A p : WindowOK(splitUnspawned(w, p)) /\ splitUnspawned(w, p).panes = w.panes
  BY ExceptKeepsPanes DEF splitUnspawned
<1> QED BY <1>2, <1>3, <1>4, <1>5, <1>6, <1>7

(* The operators that change the set of panes. *)
LEMMA WrapOK ==
  ASSUME NEW p \in PaneIds
  PROVE  WindowOK(wrapWindow(p)) /\ wrapWindow(p).panes = {p}
BY DEF WindowOK, wrapWindow

LEMMA ResizingOperators ==
  ASSUME NEW w, WindowOK(w), NEW p \in PaneIds
  PROVE  /\ WindowOK(split(w, p)) /\ split(w, p).panes = w.panes \cup {p}
         /\ WindowOK(closeAll(w)) /\ closeAll(w).panes = {}
         /\ WindowOK(detachPane(w, p)) /\ detachPane(w, p).panes = w.panes \ {p}
         /\ WindowOK(removePane(w, p)) /\ removePane(w, p).panes = w.panes \ {p}
PROOF
<1>1. w.panes \subseteq PaneIds
  BY DEF WindowOK
<1>3. WindowOK(split(w, p)) /\ split(w, p).panes = w.panes \cup {p}
  BY <1>1 DEF WindowOK, split
<1>4. WindowOK(closeAll(w)) /\ closeAll(w).panes = {}
  BY DEF WindowOK, closeAll
<1>5. WindowOK(fold(w, p)) /\ fold(w, p).panes = w.panes \ {p}
  BY <1>1 DEF WindowOK, fold
<1>6. WindowOK(detachPane(w, p)) /\ detachPane(w, p).panes = w.panes \ {p}
  BY <1>5, ExceptKeepsPanes DEF detachPane, unzoom
<1>7. WindowOK(removePane(w, p)) /\ removePane(w, p).panes = w.panes \ {p}
  <2>1. CASE p \notin w.panes
    BY <2>1 DEF removePane
  <2>2. CASE w.panes = {p}
    BY <2>2, <1>4 DEF removePane
  <2>3. CASE p \in w.panes /\ w.panes # {p}
    <3>1. removePane(w, p) = applyLayout(fold(w, p))
      BY <2>3 DEF removePane
    <3> QED BY <3>1, <1>5, ApplyLayoutKeepsPanes
  <2> QED BY <2>1, <2>2, <2>3
<1> QED BY <1>3, <1>4, <1>6, <1>7

(* The commands that only refocus or rearrange. *)
RearrangeCommand ==
  cmdSwapPane \/ cyclePane \/ cmdSelectPane \/ toggleZoomCmd \/ cmdSelectLayout \/ mouseFocus

LEMMA RearrangedInvariant ==
  ASSUME IInv, HasWindow, NEW w, Rearranged(w), WindowOK(w), w.panes = Current.panes
  PROVE  IInv'
PROOF
<1>1. nextPaneID \in PaneIds /\ nextPaneID \in Int
  BY IdTypes
<1>2. /\ SetCurrent(w) /\ nextPaneID' = nextPaneID
      /\ UNCHANGED <<nextWindowID, paneVars, reapVars, stopVars>>
  BY DEF Rearranged, idVars
<1>3. nextPaneID' \in PaneIds /\ nextPaneID' >= nextPaneID
  BY <1>1, <1>2
<1> QED BY <1>2, <1>3, SamePanesInvariant

LEMMA RearrangeInvariant == IInv /\ RearrangeCommand => IInv'
PROOF
<1> SUFFICES ASSUME IInv, RearrangeCommand PROVE IInv'
  OBVIOUS
<1>1. HasWindow
  BY DEF RearrangeCommand, cmdSwapPane, cyclePane, cmdSelectPane, toggleZoomCmd,
         cmdSelectLayout, mouseFocus
<1>2. WindowOK(Current)
  BY <1>1, CurrentListed
<1>3. CASE cmdSwapPane
  BY <1>1, <1>2, <1>3, RearrangingOperators, RearrangedInvariant DEF cmdSwapPane
<1>4. CASE cyclePane
  BY <1>1, <1>2, <1>4, RearrangingOperators, RearrangedInvariant DEF cyclePane
<1>5. CASE cmdSelectPane
  BY <1>1, <1>2, <1>5, RearrangingOperators, RearrangedInvariant DEF cmdSelectPane
<1>6. CASE toggleZoomCmd
  BY <1>1, <1>2, <1>6, RearrangingOperators, RearrangedInvariant DEF toggleZoomCmd
<1>7. CASE cmdSelectLayout
  BY <1>1, <1>2, <1>7, RearrangingOperators, RearrangedInvariant DEF cmdSelectLayout
<1>8. CASE mouseFocus
  BY <1>1, <1>2, <1>8, ExceptKeepsPanes, RearrangedInvariant DEF mouseFocus
<1> QED BY <1>3, <1>4, <1>5, <1>6, <1>7, <1>8 DEF RearrangeCommand

-----------------------------------------------------------------------------
(* The next pane and window ids are unused. *)
LEMMA FreshPane ==
  ASSUME IInv, takePane
  PROVE  /\ nextPaneID' \in PaneIds /\ nextPaneID' \in Int /\ nextPaneID' > nextPaneID
         /\ \A w \in WindowIds : nextPaneID' \notin window[w].panes
         /\ pump[nextPaneID'] = "none"
PROOF
<1>1. nextPaneID' \in PaneIds /\ nextPaneID' > nextPaneID /\ nextPaneID' \in Int
  BY IdTypes, SessionAssumption DEF takePane, PaneIds
<1>2. win[nextPaneID'] = NoWindow /\ pump[nextPaneID'] = "none"
  BY <1>1 DEF IInv, FreshIds
<1>3. NoWindow \notin WindowIds
  BY SessionAssumption DEF NoWindow, WindowIds
<1> QED BY <1>1, <1>2, <1>3 DEF IInv, RoutedHome

LEMMA FreshWindow ==
  ASSUME IInv, takeWindow
  PROVE  /\ nextWindowID \in WindowIds /\ nextWindowID \in Int
         /\ nextWindowID' \in 1..MaxWindow /\ nextWindowID' > nextWindowID
         /\ nextWindowID \notin Listed /\ window[nextWindowID].panes = {}
PROOF
<1>1. /\ nextWindowID \in WindowIds /\ nextWindowID \in Int
      /\ nextWindowID' \in 1..MaxWindow /\ nextWindowID' > nextWindowID
  BY IdTypes, SessionAssumption DEF takeWindow, WindowIds
<1>2. nextWindowID \notin Listed
  BY <1>1 DEF IInv, FreshIds
<1> QED BY <1>1, <1>2 DEF IInv, Listing

(* The type invariant in the parts that actions leave unchanged together. *)
LayoutType ==
  /\ windows \in Seq(WindowIds) /\ cur \in Nat
  /\ window = [w \in WindowIds |-> window[w]]
  /\ \A w \in WindowIds : WindowOK(window[w])

IdType == nextPaneID \in PaneIds /\ nextWindowID \in 1..MaxWindow

PaneType ==
  /\ win \in [PaneIds -> WindowIds \cup {NoWindow}]
  /\ shell \in [PaneIds -> {"unborn", "running", "exited", "closed"}]
  /\ pump \in [PaneIds -> {"none", "reading", "done"}]

ReapType ==
  /\ paneExit \in Seq(PaneIds) /\ Len(paneExit) <= ExitCap
  /\ reaper \in {"waiting", "notifying", "stopped"}

StopType ==
  /\ dead \in BOOLEAN /\ registered \in BOOLEAN
  /\ stop \in [Stoppers -> {"idle", "sweep", "deregister", "sweep again", "done"}]

LEMMA TypeParts == TypeOK <=> LayoutType /\ IdType /\ PaneType /\ ReapType /\ StopType
BY DEF TypeOK, LayoutType, IdType, PaneType, ReapType, StopType

LEMMA TypePartsPrime ==
  ASSUME LayoutType', IdType', PaneType', ReapType', StopType' PROVE TypeOK'
BY DEF TypeOK, LayoutType, IdType, PaneType, ReapType, StopType

(* A step outside the layout, the panes and the reaper's queue. *)
LEMMA IdsGrowInvariant ==
  ASSUME IInv, UNCHANGED <<layoutVars, paneVars, paneExit>>,
         ReapType', StopType', IdType', nextPaneID' >= nextPaneID, nextWindowID' >= nextWindowID
  PROVE  IInv'
PROOF
<1> USE DEF IInv, layoutVars, paneVars
<1>0. LayoutType /\ PaneType
  BY TypeParts
<1>1. TypeOK'
  <2>1. LayoutType' /\ PaneType'
    BY <1>0 DEF LayoutType, PaneType
  <2> QED BY <2>1, TypePartsPrime
<1>2. Listed' = Listed /\ (HasWindow' <=> HasWindow)
  BY DEF Listed, HasWindow
<1>3. RoutedHome' /\ Listing' /\ Housed' /\ Distinct' /\ Reported'
  BY <1>2 DEF RoutedHome, Listing, Housed, Distinct, Reported
<1>4. FreshIds'
  <2>1. nextPaneID' \in Int /\ nextWindowID' \in Int
    BY IdTypes, SessionAssumption DEF IdType
  <2>2. Listed \subseteq Int
    BY <1>0, IdTypes, SequenceRange DEF Listed, LayoutType
  <2> QED BY <1>2, <2>1, <2>2, IdTypes DEF FreshIds
<1> QED BY <1>1, <1>2, <1>3, <1>4

LEMMA SpawnWindowInvariant == IInv /\ spawnWindow => IInv'
PROOF
<1> SUFFICES ASSUME IInv, spawnWindow PROVE IInv'
  OBVIOUS
<1> DEFINE p == nextPaneID'
           w == nextWindowID
<1> USE DEF spawnWindow, layoutVars, paneVars, reapVars, stopVars
<1>1. takePane /\ takeWindow
  OBVIOUS
<1>2. /\ p \in PaneIds /\ p \in Int /\ p > nextPaneID
      /\ \A v \in WindowIds : p \notin window[v].panes
  BY <1>1, FreshPane
<1>3. /\ w \in WindowIds /\ w \in Int /\ nextWindowID' \in 1..MaxWindow /\ nextWindowID' > w
      /\ w \notin Listed /\ window[w].panes = {}
  BY <1>1, FreshWindow
<1>4. CASE /\ Started(p, w)
           /\ window' = [window EXCEPT ![w] = wrapWindow(p)]
           /\ windows' = Append(windows, w)
           /\ cur' = Len(windows)
  <2> HIDE DEF p, w
  <2> USE <1>2, <1>3, <1>4
  <2>1. WindowOK(wrapWindow(p)) /\ wrapWindow(p).panes = {p}
    BY WrapOK
  <2>2. /\ window' = [v \in WindowIds |-> window'[v]]
        /\ window'[w] = wrapWindow(p)
        /\ \A v \in WindowIds \ {w} : window'[v] = window[v]
    BY DEF IInv, TypeOK
  <2>3. \A v \in WindowIds : window'[v].panes = IF v = w THEN {p} ELSE window[v].panes
    BY <2>1, <2>2
  <2>4. /\ windows' \in Seq(WindowIds) /\ Len(windows') = Len(windows) + 1
        /\ Listed' = Listed \cup {w} /\ Distinct'
    <3>1. windows \in Seq(WindowIds) /\ Distinct
      BY TypeParts DEF IInv, LayoutType
    <3>2. /\ windows \in Seq(WindowIds) /\ w \in WindowIds /\ w \notin ToSet(windows)
          /\ \A j, k \in DOMAIN windows : windows[j] = windows[k] => j = k
          /\ windows' = Append(windows, w)
      BY <3>1 DEF Listed, Distinct
    <3>3. /\ windows' \in Seq(WindowIds) /\ Len(windows') = Len(windows) + 1
          /\ ToSet(windows') = ToSet(windows) \cup {w}
          /\ \A j, k \in DOMAIN windows' : windows'[j] = windows'[k] => j = k
      <4> HIDE <1>2, <1>3, <1>4
      <4> QED BY <3>2, AppendDistinct
    <3> QED BY <3>3 DEF Listed, Distinct
  <2>5. /\ win' = [win EXCEPT ![p] = w] /\ shell' = [shell EXCEPT ![p] = "running"]
        /\ pump' = [pump EXCEPT ![p] = "reading"]
    BY DEF Started
  <2>6. TypeOK'
    <3>1. LayoutType'
      BY <2>1, <2>2, <2>4, TypeParts DEF IInv, LayoutType
    <3>2. IdType' /\ PaneType'
      <4>1. PaneType
        BY TypeParts DEF IInv
      <4>2. IdType'
        BY DEF IdType, p
      <4> QED BY <2>5, <4>1, <4>2 DEF PaneType
    <3>3. ReapType' /\ StopType'
      BY TypeParts DEF IInv, ReapType, StopType
    <3> QED BY <3>1, <3>2, <3>3, TypePartsPrime
  <2>8. RoutedHome' /\ Listing'
    <3>1. RoutedHome /\ Listing /\ PaneType
      BY TypeParts DEF IInv
    <3>2. RoutedHome'
      BY <2>3, <2>5, <3>1 DEF RoutedHome, PaneType
    <3> QED BY <2>3, <2>4, <3>1, <3>2 DEF Listing
  <2>9. Housed'
    <3>1. Housed /\ PaneType /\ Listed \subseteq WindowIds
      BY TypeParts, SequenceRange DEF IInv, LayoutType, Listed
    <3>2. ASSUME NEW q \in PaneIds, shell'[q] \in {"running", "exited"}
          PROVE  \E v \in Listed' : q \in window'[v].panes
      <4>1. CASE q = p
        BY <2>3, <2>4, <4>1
      <4>2. CASE q # p
        <5>1. PICK v \in Listed : q \in window[v].panes
          BY <2>5, <3>1, <3>2, <4>2 DEF Housed, PaneType
        <5> QED BY <2>3, <2>4, <3>1, <5>1
      <4> QED BY <4>1, <4>2
    <3> QED BY <3>2 DEF Housed
  <2>10. FreshIds' /\ Reported'
    <3>1. FreshIds /\ Reported /\ PaneType /\ paneExit \in Seq(PaneIds) /\ paneExit' = paneExit
      BY TypeParts DEF IInv, ReapType
    <3>2. p = nextPaneID' /\ nextPaneID \in Int /\ nextWindowID \in Int /\ PaneIds \subseteq Int
          /\ w = nextWindowID /\ Listed \subseteq Int /\ nextWindowID' \in Int
      BY IdTypes, SequenceRange, TypeParts DEF p, w, IInv, LayoutType, Listed
    <3>3. FreshIds'
      BY <2>4, <2>5, <3>1, <3>2 DEF FreshIds, PaneType
    <3>4. Reported'
      BY <2>5, <3>1 DEF Reported, PaneType
    <3> QED BY <3>3, <3>4
  <2>11. cur' < Len(windows')
    BY <2>4, TypeParts DEF IInv, LayoutType
  <2> QED BY <2>4, <2>6, <2>8, <2>9, <2>10, <2>11 DEF IInv
<1>5. CASE UNCHANGED <<paneVars, layoutVars>>
  <2>1. ReapType' /\ StopType' /\ IdType'
    BY <1>2, <1>3, TypeParts DEF IInv, ReapType, StopType, IdType
  <2> QED BY <1>2, <1>3, <1>5, <2>1, IdTypes, IdsGrowInvariant
<1> QED BY <1>4, <1>5

-----------------------------------------------------------------------------
(* Steps that leave the list of windows, the panes of each and pane.win    *)
(* alone: exits, reports, stops and window selection.                      *)
LEMMA QuietInvariant ==
  ASSUME IInv, UNCHANGED <<windows, window, win, idVars>>,
         PaneType', ReapType', StopType', cur' \in Nat, HasWindow => cur' < Len(windows),
         \A p \in PaneIds :
           /\ shell'[p] \in {"running", "exited"} => shell[p] \in {"running", "exited"}
           /\ p > nextPaneID => shell'[p] = "unborn"
           /\ pump'[p] = "none" <=> pump[p] = "none",
         \A i \in DOMAIN paneExit' : pump'[paneExit'[i]] # "none"
  PROVE  IInv'
PROOF
<1> USE DEF IInv, idVars
<1>1. TypeOK'
  <2>1. LayoutType /\ IdType
    BY TypeParts
  <2>2. LayoutType' /\ IdType'
    BY <2>1 DEF LayoutType, IdType
  <2> QED BY <2>2, TypePartsPrime
<1>2. Listed' = Listed /\ (HasWindow' <=> HasWindow)
  BY DEF Listed, HasWindow
<1>3. RoutedHome' /\ Listing' /\ Distinct'
  BY <1>2 DEF RoutedHome, Listing, Distinct
<1>4. Housed' /\ FreshIds' /\ Reported'
  BY <1>2 DEF Housed, FreshIds, Reported
<1>5. (HasWindow => cur < Len(windows))'
  BY <1>2
<1> QED BY <1>1, <1>2, <1>3, <1>4, <1>5

LEMMA KillPaneInvariant == IInv /\ cmdKillPane => IInv'
PROOF
<1> SUFFICES ASSUME IInv, cmdKillPane PROVE IInv'
  OBVIOUS
<1> USE DEF cmdKillPane, layoutVars, reapVars, stopVars
<1>1. CurrentId \in WindowIds /\ Current.panes \subseteq PaneIds
  BY CurrentListed DEF WindowOK
<1>2. LayoutType /\ PaneType /\ ReapType /\ StopType /\ Reported /\ RoutedHome
  BY TypeParts DEF IInv
<1>3. \A p \in PaneIds : p > nextPaneID => p \notin Current.panes /\ shell[p] = "unborn"
  <2>1. NoWindow \notin WindowIds
    BY SessionAssumption DEF NoWindow, WindowIds
  <2> QED BY <1>1, <1>2, <2>1 DEF RoutedHome, Current, IInv, FreshIds
<1>4. \A p \in PaneIds : shell'[p] = IF p \in {Current.active} \cap Current.panes
                                     THEN "closed" ELSE shell[p]
  BY DEF Close
<1>5. PaneType' /\ UNCHANGED <<win, pump>>
  BY <1>2 DEF PaneType, Close
<1>6. ReapType' /\ StopType'
  BY <1>2 DEF ReapType, StopType
<1>7. cur \in Nat /\ (HasWindow => cur < Len(windows))
  BY <1>2 DEF LayoutType, IInv
<1>8. \A i \in DOMAIN paneExit' : pump'[paneExit'[i]] # "none"
  BY <1>2, <1>5 DEF Reported
<1> QED BY <1>3, <1>4, <1>5, <1>6, <1>7, <1>8, QuietInvariant

LEMMA SelectWindowInvariant == IInv /\ (selectWindow \/ stepWindow) => IInv'
PROOF
<1> SUFFICES ASSUME IInv, selectWindow \/ stepWindow PROVE IInv'
  OBVIOUS
<1> USE DEF selectWindow, stepWindow, paneVars, reapVars, stopVars
<1>1. LayoutType /\ PaneType /\ ReapType /\ StopType /\ Reported
  BY TypeParts DEF IInv
<1>2. cur' \in Nat /\ cur' < Len(windows)
  BY <1>1 DEF LayoutType, HasWindow
<1>3. PaneType' /\ ReapType' /\ StopType'
  BY <1>1 DEF PaneType, ReapType, StopType
<1>4. \A i \in DOMAIN paneExit' : pump'[paneExit'[i]] # "none"
  BY <1>1 DEF Reported
<1> QED BY <1>2, <1>3, <1>4, QuietInvariant DEF IInv, FreshIds

LEMMA ExitInvariant ==
  ASSUME IInv, NEW p \in PaneIds, childExit(p) \/ reportExit(p)
  PROVE  IInv'
PROOF
<1>1. LayoutType /\ PaneType /\ ReapType /\ StopType /\ Reported
  BY TypeParts DEF IInv
<1>2. HasWindow => cur < Len(windows)
  BY DEF IInv
<1>3. CASE childExit(p)
  <2> USE <1>3 DEF childExit, layoutVars, reapVars, stopVars
  <2>1. PaneType' /\ ReapType' /\ StopType'
    BY <1>1 DEF PaneType, ReapType, StopType
  <2>2. \A i \in DOMAIN paneExit' : pump'[paneExit'[i]] # "none"
    BY <1>1 DEF Reported
  <2>3. \A q \in PaneIds : shell'[q] = IF q = p THEN "exited" ELSE shell[q]
    BY <1>1 DEF PaneType
  <2> QED BY <1>1, <1>2, <2>1, <2>2, <2>3, QuietInvariant DEF LayoutType, IInv, FreshIds
<1>4. CASE reportExit(p)
  <2> USE <1>4 DEF reportExit, layoutVars, reapVars, stopVars
  <2>1. \A q \in PaneIds : pump'[q] = IF q = p THEN "done" ELSE pump[q]
    BY <1>1 DEF PaneType
  <2>2. PaneType' /\ StopType'
    BY <1>1 DEF PaneType, StopType
  <2>3. /\ ReapType'
        /\ \A i \in DOMAIN paneExit' : paneExit'[i] = p \/ 
              (i \in DOMAIN paneExit /\ paneExit'[i] = paneExit[i])
    <3>1. CASE UNCHANGED paneExit
      BY <1>1, <3>1 DEF ReapType
    <3>2. CASE Len(paneExit) < ExitCap /\ paneExit' = Append(paneExit, p)
      BY <1>1, <3>2, SessionAssumption DEF ReapType
    <3> QED BY <3>1, <3>2
  <2>4. \A i \in DOMAIN paneExit' : pump'[paneExit'[i]] # "none"
    <3>1. \A i \in DOMAIN paneExit : paneExit[i] \in PaneIds
      BY <1>1 DEF ReapType
    <3> QED BY <1>1, <2>1, <2>3, <3>1 DEF Reported
  <2> QED BY <1>1, <1>2, <2>1, <2>2, <2>3, <2>4, QuietInvariant DEF LayoutType, IInv, FreshIds
<1> QED BY <1>3, <1>4

LEMMA OtherStopsInvariant ==
  ASSUME IInv, reapDead \/ notify \/ killSession \/ \E g \in Stoppers : sessionEmptied(g)
  PROVE  IInv'
PROOF
<1>1. LayoutType /\ PaneType /\ ReapType /\ StopType /\ IdType
  BY TypeParts DEF IInv
<1>2. nextPaneID' >= nextPaneID /\ nextWindowID' >= nextWindowID /\ IdType'
  <2>1. UNCHANGED idVars
    BY DEF reapDead, notify, killSession, sessionEmptied
  <2> QED BY <1>1, <2>1, IdTypes DEF idVars, IdType
<1>3. ReapType' /\ UNCHANGED <<layoutVars, paneVars, paneExit>>
  BY <1>1 DEF reapDead, notify, killSession, sessionEmptied, ReapType, reapVars
<1>4. StopType'
  <2>1. CASE reapDead
    BY <1>1, <2>1 DEF reapDead, stopVars, StopType
  <2>2. CASE notify
    BY <1>1, <2>2 DEF notify, StopType
  <2>3. CASE killSession
    BY <1>1, <2>3 DEF killSession, StopType
  <2>4. ASSUME NEW g \in Stoppers, sessionEmptied(g) PROVE StopType'
    <3>1. stop' \in [Stoppers -> {"idle", "sweep", "deregister", "sweep again", "done"}]
      BY <1>1, <2>4 DEF sessionEmptied, StopType
    <3>2. dead' \in BOOLEAN /\ registered' \in BOOLEAN
      BY <1>1, <2>4, Zenon DEF sessionEmptied, StopType
    <3> QED BY <3>1, <3>2 DEF StopType
  <2> QED BY <2>1, <2>2, <2>3, <2>4
<1> QED BY <1>2, <1>3, <1>4, IdsGrowInvariant

-----------------------------------------------------------------------------
(* Steps that change which panes a window has. *)
LEMMA SplitWindowInvariant == IInv /\ cmdSplitWindow => IInv'
PROOF
<1> SUFFICES ASSUME IInv, cmdSplitWindow PROVE IInv'
  OBVIOUS
<1> DEFINE p == nextPaneID'
           w == CurrentId
<1>1. HasWindow /\ takePane /\ UNCHANGED <<nextWindowID, reapVars, stopVars>>
  BY DEF cmdSplitWindow
<1>2. /\ p \in PaneIds /\ p \in Int /\ p > nextPaneID
      /\ \A v \in WindowIds : p \notin window[v].panes
  BY <1>1, FreshPane
<1>3. w \in WindowIds /\ w \in Listed /\ WindowOK(Current) /\ Current = window[w]
  BY <1>1, CurrentListed DEF Current
<1>4. LayoutType /\ PaneType /\ ReapType /\ StopType /\ IdType
  BY TypeParts DEF IInv
<1>5. ReapType' /\ StopType' /\ IdType'
  BY <1>1, <1>2, <1>4 DEF reapVars, stopVars, ReapType, StopType, IdType
<1>6. CASE SetCurrent(split(Current, p)) /\ Started(p, w)
  <2> HIDE DEF p, w
  <2>1. WindowOK(split(Current, p)) /\ split(Current, p).panes = window[w].panes \cup {p}
    BY <1>2, <1>3, ResizingOperators
  <2>2. /\ window' = [v \in WindowIds |-> window'[v]]
        /\ window'[w] = split(Current, p)
        /\ \A v \in WindowIds \ {w} : window'[v] = window[v]
    BY <1>3, <1>4, <1>6 DEF SetCurrent, LayoutType, w
  <2>3. \A v \in WindowIds :
          window'[v].panes = IF v = w THEN window[w].panes \cup {p} ELSE window[v].panes
    BY <2>1, <2>2
  <2>4. /\ win' = [win EXCEPT ![p] = w] /\ shell' = [shell EXCEPT ![p] = "running"]
        /\ pump' = [pump EXCEPT ![p] = "reading"]
    BY <1>6 DEF Started
  <2>5. UNCHANGED <<windows, cur>> /\ Listed' = Listed /\ (HasWindow' <=> HasWindow)
    BY <1>6 DEF SetCurrent, Listed, HasWindow
  <2>6. LayoutType' /\ PaneType'
    BY <1>2, <1>3, <1>4, <2>1, <2>2, <2>4, <2>5 DEF LayoutType, PaneType
  <2>7. TypeOK'
    BY <1>5, <2>6, TypePartsPrime
  <2>8. RoutedHome'
    BY <1>2, <1>4, <2>3, <2>4 DEF RoutedHome, PaneType, IInv
  <2>9. Listing' /\ Distinct' /\ (HasWindow => cur < Len(windows))'
    BY <1>3, <2>3, <2>5 DEF Listing, Distinct, IInv
  <2>10. Housed'
    <3>1. Listed \subseteq WindowIds
      BY <1>4, SequenceRange DEF Listed, LayoutType
    <3> QED BY <1>3, <1>4, <2>3, <2>4, <2>5, <3>1 DEF Housed, PaneType, IInv
  <2>11. FreshIds'
    BY <1>1, <1>2, <1>4, <2>4, <2>5, IdTypes DEF FreshIds, PaneType, IInv, p
  <2>12. Reported'
    BY <1>1, <1>3, <1>4, <2>4 DEF Reported, PaneType, IInv, reapVars, ReapType
  <2> QED BY <2>7, <2>8, <2>9, <2>10, <2>11, <2>12 DEF IInv
<1>7. CASE UNCHANGED <<layoutVars, paneVars>>
  BY <1>1, <1>2, <1>5, <1>7, IdTypes, IdsGrowInvariant DEF reapVars
<1>8. CASE SetCurrent(splitUnspawned(Current, p)) /\ UNCHANGED paneVars
  BY <1>1, <1>2, <1>3, <1>8, IdTypes, RearrangingOperators, SamePanesInvariant
<1> QED BY <1>6, <1>7, <1>8 DEF cmdSplitWindow

(* A step that closes the panes of S and takes windows off the list. *)
LEMMA ShrinkInvariant ==
  ASSUME IInv, NEW S,
         \/ UNCHANGED <<idVars, win, pump, stopVars>>
         \/ UNCHANGED <<idVars, win, pump>> /\ StopType',
         shell' = [p \in PaneIds |-> IF p \in S THEN "closed" ELSE shell[p]],
         LayoutType', ReapType', Distinct', Listing', (HasWindow => cur < Len(windows))',
         Listed' \subseteq Listed,
         \A w \in WindowIds : /\ window'[w].panes \subseteq window[w].panes
                              /\ w \in Listed => window[w].panes \ window'[w].panes \subseteq S,
         \A p \in S : \E w \in WindowIds : p \in window[w].panes,
         \A i \in DOMAIN paneExit' : pump[paneExit'[i]] # "none"
  PROVE  IInv'
PROOF
<1>1. LayoutType /\ PaneType /\ StopType /\ IdType /\ Reported /\ FreshIds /\ RoutedHome
  BY TypeParts DEF IInv
<1>2. TypeOK'
  <2>1. StopType' /\ IdType' /\ PaneType'
    BY <1>1 DEF StopType, IdType, PaneType, idVars, stopVars
  <2> QED BY <2>1, TypePartsPrime
<1>3. UNCHANGED <<win, pump, nextPaneID, nextWindowID>>
  BY DEF idVars
<1>4. RoutedHome' /\ Reported'
  BY <1>1, <1>3 DEF RoutedHome, Reported
<1>5. FreshIds'
  <2>1. NoWindow \notin WindowIds
    BY SessionAssumption DEF NoWindow, WindowIds
  <2>2. \A p \in PaneIds : p > nextPaneID => p \notin S
    BY <1>1, <2>1 DEF FreshIds, RoutedHome
  <2> QED BY <1>1, <1>3, <2>2 DEF FreshIds
<1>6. Housed'
  <2>1. ASSUME NEW p \in PaneIds, shell'[p] \in {"running", "exited"}
        PROVE  \E w \in Listed' : p \in window'[w].panes
    <3>1. p \notin S /\ shell[p] \in {"running", "exited"}
      BY <2>1
    <3>2. PICK w \in Listed : p \in window[w].panes
      BY <3>1 DEF IInv, Housed
    <3>3. w \in WindowIds
      BY <1>1, SequenceRange DEF LayoutType, Listed
    <3>4. p \in window'[w].panes
      BY <3>1, <3>2, <3>3
    <3> QED BY <3>3, <3>4 DEF Listing
  <2> QED BY <2>1 DEF Housed
<1> QED BY <1>2, <1>4, <1>5, <1>6 DEF IInv

LEMMA RemoveListed ==
  ASSUME IInv, NEW i \in DOMAIN windows, removeWindowAt(i)
  PROVE  /\ windows' \in Seq(WindowIds) /\ cur' \in Nat
         /\ Listed' = Listed \ {windows[i]} /\ Distinct'
         /\ (HasWindow => cur < Len(windows))'
PROOF
<1>1. windows \in Seq(WindowIds) /\ cur \in Nat /\ Distinct
  BY TypeParts DEF IInv, LayoutType
<1>2. /\ windows' \in Seq(WindowIds) /\ Len(windows') = Len(windows) - 1
      /\ Listed' = Listed \ {windows[i]} /\ Distinct'
  BY <1>1, RemoveAtDistinct DEF removeWindowAt, Listed, Distinct
<1>3. cur' \in Nat /\ (HasWindow' => cur' < Len(windows'))
  BY <1>1, <1>2 DEF removeWindowAt, ClampCur, HasWindow
<1> QED BY <1>2, <1>3

LEMMA KillWindowInvariant == IInv /\ cmdKillWindow => IInv'
PROOF
<1> SUFFICES ASSUME IInv, cmdKillWindow PROVE IInv'
  OBVIOUS
<1> DEFINE w == CurrentId
<1>1. HasWindow /\ UNCHANGED <<idVars, win, pump, reapVars, stopVars>>
  BY DEF cmdKillWindow, Close
<1>2. /\ w \in WindowIds /\ w \in Listed /\ WindowOK(Current) /\ Current = window[w]
      /\ cur + 1 \in DOMAIN windows /\ w = windows[cur + 1]
  BY <1>1, CurrentListed DEF Current, CurrentId
<1>3. /\ windows' \in Seq(WindowIds) /\ cur' \in Nat
      /\ Listed' = Listed \ {w} /\ Distinct'
      /\ (HasWindow => cur < Len(windows))'
  BY <1>2, RemoveListed DEF cmdKillWindow
<1>4. LayoutType /\ PaneType /\ ReapType /\ StopType /\ Reported /\ Listing
  BY TypeParts DEF IInv
<1>5. WindowOK(closeAll(Current)) /\ closeAll(Current).panes = {}
  BY DEF WindowOK, closeAll
<1>6. /\ window' = [v \in WindowIds |-> window'[v]]
      /\ window'[w] = closeAll(Current)
      /\ \A v \in WindowIds \ {w} : window'[v] = window[v]
  BY <1>2, <1>4 DEF cmdKillWindow, LayoutType
<1> HIDE DEF w
<1>7. LayoutType'
  BY <1>3, <1>4, <1>5, <1>6 DEF LayoutType
<1>8. \A v \in WindowIds : window'[v].panes = IF v = w THEN {} ELSE window[v].panes
  BY <1>5, <1>6
<1>9. Listing'
  BY <1>3, <1>4, <1>8 DEF Listing
<1>10. shell' = [p \in PaneIds |-> IF p \in Current.panes THEN "closed" ELSE shell[p]]
  BY DEF cmdKillWindow, Close
<1>11. ReapType' /\ \A i \in DOMAIN paneExit' : pump[paneExit'[i]] # "none"
  BY <1>1, <1>4 DEF ReapType, reapVars, Reported
<1>12. /\ Listed' \subseteq Listed
       /\ \A v \in WindowIds : /\ window'[v].panes \subseteq window[v].panes
                               /\ v \in Listed => window[v].panes \ window'[v].panes
                                                     \subseteq Current.panes
       /\ \A p \in Current.panes : \E v \in WindowIds : p \in window[v].panes
  BY <1>2, <1>3, <1>8
<1>13. UNCHANGED <<idVars, win, pump, stopVars>>
  BY <1>1
<1> QED BY <1>3, <1>7, <1>9, <1>10, <1>11, <1>12, <1>13, ShrinkInvariant

LEMMA SweepInvariant == IInv /\ (\E g \in Stoppers : sweep(g)) => IInv'
PROOF
<1> SUFFICES ASSUME IInv, NEW g \in Stoppers, sweep(g) PROVE IInv'
  OBVIOUS
<1>1. UNCHANGED <<idVars, win, pump, cur, reapVars, dead, registered>> /\ windows' = <<>>
  BY DEF sweep, Close
<1>2. LayoutType /\ PaneType /\ ReapType /\ StopType /\ Reported /\ Listing
  BY TypeParts DEF IInv
<1>3. \A v \in WindowIds :
        window'[v] = IF v \in Listed THEN closeAll(window[v]) ELSE window[v]
  BY DEF sweep, Listed
<1>4. \A v \in WindowIds : WindowOK(closeAll(window[v])) /\ closeAll(window[v]).panes = {}
  BY DEF WindowOK, closeAll
<1>5. \A v \in WindowIds : window'[v].panes = {} /\ WindowOK(window'[v])
  BY <1>2, <1>3, <1>4 DEF LayoutType, Listing
<1>6. windows' \in Seq(WindowIds) /\ Listed' = {} /\ Distinct' /\ ~HasWindow'
  BY <1>1 DEF Listed, ToSet, Distinct, HasWindow
<1>7. LayoutType'
  <2>1. window' = [v \in WindowIds |-> window'[v]]
    BY DEF sweep
  <2> QED BY <1>1, <1>2, <1>5, <1>6, <2>1 DEF LayoutType
<1>8. Listing'
  BY <1>5, <1>6 DEF Listing
<1>9. StopType'
  BY <1>1, <1>2 DEF StopType, sweep
<1>10. ReapType' /\ \A i \in DOMAIN paneExit' : pump[paneExit'[i]] # "none"
  BY <1>1, <1>2 DEF ReapType, reapVars, Reported
<1> DEFINE S == UNION {window[w].panes : w \in Listed}
<1>11. shell' = [p \in PaneIds |-> IF p \in S THEN "closed" ELSE shell[p]]
  BY DEF sweep, Close, Listed
<1>12. Listed \subseteq WindowIds
  BY <1>2, SequenceRange DEF LayoutType, Listed
<1>13. /\ \A p \in S : \E w \in WindowIds : p \in window[w].panes
       /\ \A w \in Listed : window[w].panes \subseteq S
  BY <1>12
<1> HIDE DEF S
<1> QED BY <1>1, <1>5, <1>6, <1>7, <1>8, <1>9, <1>10, <1>11, <1>13, ShrinkInvariant

LEMMA ReapOneInvariant == IInv /\ reapOne => IInv'
PROOF
<1> SUFFICES ASSUME IInv, reapOne PROVE IInv'
  OBVIOUS
<1> DEFINE p == Head(paneExit)
           w == win[p]
           r == removePane(window[w], p)
           S == {p} \cap window[w].panes
<1>1. UNCHANGED <<idVars, win, pump, stopVars>>
  BY DEF reapOne, Close, paneVars
<1>2. LayoutType /\ PaneType /\ ReapType /\ StopType /\ Reported /\ Listing /\ Distinct
  BY TypeParts DEF IInv
<1>3. /\ p \in PaneIds /\ w \in WindowIds
      /\ paneExit' = Tail(paneExit) /\ paneExit' \in Seq(PaneIds)
      /\ Len(paneExit') <= ExitCap
      /\ \A i \in DOMAIN paneExit' : i + 1 \in DOMAIN paneExit /\ paneExit'[i] = paneExit[i + 1]
  <2>1. paneExit \in Seq(PaneIds) /\ paneExit # <<>> /\ paneExit' = Tail(paneExit)
        /\ Len(paneExit) <= ExitCap
    BY <1>2 DEF reapOne, ReapType
  <2>2. p \in PaneIds /\ p = paneExit[1] /\ 1 \in DOMAIN paneExit
    BY <2>1
  <2>3. w \in WindowIds
    BY <1>2, <2>2 DEF Reported
  <2> QED BY <2>1, <2>2, <2>3, SessionAssumption
<1>4. WindowOK(window[w]) /\ WindowOK(r) /\ r.panes = window[w].panes \ {p}
  BY <1>2, <1>3, ResizingOperators DEF LayoutType
<1>5. /\ window' = [v \in WindowIds |-> window'[v]]
      /\ window'[w] = r
      /\ \A v \in WindowIds \ {w} : window'[v] = window[v]
  BY <1>2, <1>3 DEF reapOne, LayoutType
<1>6. shell' = [q \in PaneIds |-> IF q \in S THEN "closed" ELSE shell[q]]
  <2>1. IF p \in window[w].panes THEN Close({p}) ELSE UNCHANGED paneVars
    BY DEF reapOne
  <2> QED BY <1>2, <2>1 DEF Close, paneVars, PaneType
<1>7. /\ windows' \in Seq(WindowIds) /\ cur' \in Nat /\ Distinct'
      /\ (HasWindow => cur < Len(windows))'
      /\ Listed' = IF r.panes = {} THEN Listed \ {w} ELSE Listed
  <2>1. CASE r.panes = {} /\ w \in Listed
    <3>1. removeWindowAt(IndexOf(w))
      BY <2>1 DEF reapOne, Listed
    <3>2. IndexOf(w) \in DOMAIN windows /\ windows[IndexOf(w)] = w
      BY <2>1 DEF IndexOf, Listed, ToSet
    <3> QED BY <2>1, <3>1, <3>2, RemoveListed
  <2>2. CASE ~(r.panes = {} /\ w \in Listed)
    <3>1. UNCHANGED <<windows, cur>>
      BY <2>2 DEF reapOne, Listed
    <3>2. Listed' = Listed /\ Distinct' /\ (HasWindow => cur < Len(windows))'
      BY <1>2, <3>1 DEF Listed, Distinct, HasWindow, IInv
    <3> QED BY <1>2, <2>2, <3>1, <3>2 DEF LayoutType
  <2> QED BY <2>1, <2>2
<1>8. ReapType'
  <2>1. reaper' \in {"waiting", "notifying", "stopped"}
    BY DEF reapOne
  <2> QED BY <1>3, <2>1 DEF ReapType
<1>9. \A i \in DOMAIN paneExit' : pump[paneExit'[i]] # "none"
  BY <1>2, <1>3 DEF Reported
<1> HIDE DEF p, w, r
<1>10. LayoutType'
  BY <1>2, <1>4, <1>5, <1>7 DEF LayoutType
<1>11. \A v \in WindowIds :
         window'[v].panes = IF v = w THEN window[v].panes \ {p} ELSE window[v].panes
  BY <1>4, <1>5
<1>12. Listing'
  BY <1>2, <1>3, <1>4, <1>5, <1>7, <1>11 DEF Listing
<1>13. /\ Listed' \subseteq Listed
       /\ \A v \in WindowIds : /\ window'[v].panes \subseteq window[v].panes
                               /\ v \in Listed => window[v].panes \ window'[v].panes \subseteq S
       /\ \A q \in S : \E v \in WindowIds : q \in window[v].panes
  BY <1>3, <1>7, <1>11
<1> HIDE DEF S
<1> QED BY <1>1, <1>6, <1>7, <1>8, <1>9, <1>10, <1>12, <1>13, ShrinkInvariant

(* A step that moves pane p from window a to window b and leaves the       *)
(* shells alone.                                                           *)
LEMMA MoveInvariant ==
  ASSUME IInv, NEW a \in WindowIds, NEW b \in WindowIds, a # b, NEW p \in window[a].panes,
         UNCHANGED <<nextPaneID, shell, pump, reapVars, stopVars>>, moveTo(p, b),
         LayoutType', IdType', nextWindowID' >= nextWindowID,
         Distinct', Listing', (HasWindow => cur < Len(windows))',
         \A w \in Listed' : w < nextWindowID',
         \A w \in WindowIds : window'[w].panes = IF w = a THEN window[a].panes \ {p}
                                                 ELSE IF w = b THEN window[b].panes \cup {p}
                                                 ELSE window[w].panes
  PROVE  IInv'
PROOF
<1>1. LayoutType /\ PaneType /\ ReapType /\ StopType /\ Reported /\ FreshIds /\ RoutedHome
  BY TypeParts DEF IInv
<1>2. p \in PaneIds
  BY <1>1 DEF LayoutType, WindowOK
<1>3. win' = [win EXCEPT ![p] = b]
  BY DEF moveTo
<1>4. TypeOK'
  <2>1. PaneType' /\ ReapType' /\ StopType'
    BY <1>1, <1>2, <1>3 DEF PaneType, ReapType, StopType, reapVars, stopVars
  <2> QED BY <2>1, TypePartsPrime
<1>5. RoutedHome'
  BY <1>1, <1>2, <1>3 DEF RoutedHome, PaneType
<1>6. Reported'
  BY <1>1, <1>2, <1>3 DEF Reported, PaneType, reapVars
<1>7. FreshIds'
  <2>1. NoWindow \notin WindowIds /\ win[p] = a
    BY <1>1, <1>2, SessionAssumption DEF NoWindow, WindowIds, RoutedHome
  <2>2. ~(p > nextPaneID)
    BY <1>1, <1>2, <2>1 DEF FreshIds
  <2> QED BY <1>1, <1>2, <1>3, <2>2 DEF FreshIds, PaneType
<1>8. Housed'
  <2>1. ASSUME NEW q \in PaneIds, shell'[q] \in {"running", "exited"}
        PROVE  \E w \in Listed' : q \in window'[w].panes
    <3>1. PICK w \in Listed : q \in window[w].panes
      BY <2>1 DEF IInv, Housed
    <3>2. w \in WindowIds
      BY <1>1, SequenceRange DEF LayoutType, Listed
    <3>3. \E v \in WindowIds : q \in window'[v].panes
      BY <3>1, <3>2
    <3> QED BY <3>3 DEF Listing
  <2> QED BY <2>1 DEF Housed
<1> QED BY <1>4, <1>5, <1>6, <1>7, <1>8 DEF IInv

LEMMA BreakPaneInvariant == IInv /\ breakPane => IInv'
PROOF
<1> SUFFICES ASSUME IInv, breakPane PROVE IInv'
  OBVIOUS
<1> DEFINE a == CurrentId
           b == nextWindowID
           p == Current.active
<1>1. /\ HasWindow /\ takeWindow
      /\ UNCHANGED <<nextPaneID, shell, pump, reapVars, stopVars>> /\ moveTo(p, b)
      /\ p \in Current.panes /\ Current.panes # {p}
      /\ windows' = Append(windows, b) /\ cur' = Len(windows)
      /\ window' = [window EXCEPT ![a] = detachPane(Current, p), ![b] = wrapWindow(p)]
  BY DEF breakPane
<1>2. /\ a \in WindowIds /\ a \in Listed /\ WindowOK(Current) /\ Current = window[a]
  BY <1>1, CurrentListed DEF Current
<1>3. /\ b \in WindowIds /\ b \in Int /\ nextWindowID' \in 1..MaxWindow /\ nextWindowID' > b
      /\ b \notin Listed /\ window[b].panes = {}
  BY <1>1, FreshWindow
<1>4. LayoutType /\ IdType /\ Listing /\ Distinct /\ FreshIds
  BY TypeParts DEF IInv
<1>5. p \in PaneIds
  BY <1>1, <1>2 DEF WindowOK
<1>6. /\ WindowOK(detachPane(Current, p)) /\ detachPane(Current, p).panes = window[a].panes \ {p}
      /\ WindowOK(wrapWindow(p)) /\ wrapWindow(p).panes = {p}
  BY <1>2, <1>5, ResizingOperators, WrapOK
<1> HIDE DEF a, b, p
<1>7. /\ window' = [v \in WindowIds |-> window'[v]]
      /\ window'[a] = detachPane(Current, p) /\ window'[b] = wrapWindow(p)
      /\ \A v \in WindowIds \ {a, b} : window'[v] = window[v]
  BY <1>1, <1>2, <1>3, <1>4 DEF LayoutType
<1>8. /\ windows' \in Seq(WindowIds) /\ Len(windows') = Len(windows) + 1
      /\ Listed' = Listed \cup {b} /\ Distinct'
  <2>1. /\ windows \in Seq(WindowIds) /\ b \in WindowIds /\ b \notin ToSet(windows)
        /\ \A j, k \in DOMAIN windows : windows[j] = windows[k] => j = k
    BY <1>3, <1>4 DEF Listed, Distinct, LayoutType
  <2>2. windows' = Append(windows, b)
    BY <1>1
  <2>3. /\ windows' \in Seq(WindowIds) /\ Len(windows') = Len(windows) + 1
        /\ ToSet(windows') = ToSet(windows) \cup {b}
        /\ \A j, k \in DOMAIN windows' : windows'[j] = windows'[k] => j = k
    BY <2>1, <2>2, AppendDistinct
  <2> QED BY <2>3 DEF Listed, Distinct
<1>9. LayoutType' /\ IdType'
  BY <1>1, <1>3, <1>4, <1>6, <1>7, <1>8 DEF LayoutType, IdType
<1>10. \A w \in WindowIds : window'[w].panes = IF w = a THEN window[a].panes \ {p}
                                               ELSE IF w = b THEN window[b].panes \cup {p}
                                               ELSE window[w].panes
  BY <1>2, <1>3, <1>6, <1>7
<1>11. Listing'
  <2>1. window[a].panes \ {p} # {}
    BY <1>1, <1>2
  <2>2. \A w \in WindowIds : window'[w].panes # {} <=> w = b \/ window[w].panes # {}
    BY <1>2, <1>10, <2>1
  <2> QED BY <1>4, <1>8, <2>2 DEF Listing
<1>12. \A w \in Listed' : w < nextWindowID'
  <2>1. Listed \subseteq Int /\ nextWindowID' \in Int /\ b = nextWindowID
    BY <1>3, <1>4, IdTypes, SequenceRange DEF LayoutType, Listed, b
  <2> QED BY <1>3, <1>4, <1>8, <2>1 DEF FreshIds
<1>13. cur' < Len(windows')
  BY <1>1, <1>4, <1>8 DEF LayoutType
<1>14. a # b /\ nextWindowID' >= nextWindowID
  BY <1>2, <1>3, IdTypes DEF b
<1>15. p \in window[a].panes /\ (HasWindow => cur < Len(windows))'
  BY <1>1, <1>2, <1>13
<1>16. UNCHANGED <<nextPaneID, shell, pump, reapVars, stopVars>> /\ moveTo(p, b)
  BY <1>1
<1>17. a \in WindowIds /\ b \in WindowIds /\ Distinct'
  BY <1>2, <1>3, <1>8
<1> QED BY <1>9, <1>10, <1>11, <1>12, <1>14, <1>15, <1>16, <1>17, MoveInvariant

LEMMA JoinPaneInvariant == IInv /\ joinPane => IInv'
PROOF
<1> SUFFICES ASSUME IInv, joinPane PROVE IInv'
  OBVIOUS
<1> DEFINE b == CurrentId
<1>1. HasWindow /\ UNCHANGED <<idVars, shell, pump, reapVars, stopVars>>
  BY DEF joinPane
<1>2. b \in WindowIds /\ b \in Listed /\ cur + 1 \in DOMAIN windows /\ b = windows[cur + 1]
  BY <1>1, CurrentListed DEF CurrentId
<1>3. LayoutType /\ IdType /\ Listing /\ Distinct /\ FreshIds
  BY TypeParts DEF IInv
<1>4. PICK i \in DOMAIN windows :
        LET a == windows[i]
            p == window[a].active
            last == window[a].panes = {p}
        IN  /\ a # b
            /\ p \in window[a].panes
            /\ window' = [window EXCEPT
                 ![b] = adoptPane(window[b], p),
                 ![a] = IF last THEN closeAll(window[a]) ELSE detachPane(window[a], p)]
            /\ moveTo(p, b)
            /\ IF last
               THEN /\ windows' = RemoveAt(windows, i)
                    /\ cur' = IF i <= cur THEN cur - 1 ELSE cur
               ELSE UNCHANGED <<windows, cur>>
  BY <1>2 DEF joinPane
<1> DEFINE a == windows[i]
           p == window[a].active
           last == window[a].panes = {p}
<1>5. /\ a # b /\ p \in window[a].panes /\ moveTo(p, b)
      /\ window' = [window EXCEPT
           ![b] = adoptPane(window[b], p),
           ![a] = IF last THEN closeAll(window[a]) ELSE detachPane(window[a], p)]
  BY <1>4
<1>6. /\ last => windows' = RemoveAt(windows, i) /\ cur' = IF i <= cur THEN cur - 1 ELSE cur
      /\ ~last => UNCHANGED <<windows, cur>>
  BY <1>4
<1>7. a \in WindowIds /\ a \in Listed /\ windows \in Seq(WindowIds) /\ cur \in Nat
  BY <1>3 DEF LayoutType, Listed, ToSet
<1>8. WindowOK(window[a]) /\ WindowOK(window[b]) /\ p \in PaneIds
  BY <1>2, <1>3, <1>5, <1>7 DEF LayoutType, WindowOK
<1>9. /\ WindowOK(split(window[b], p)) /\ split(window[b], p).panes = window[b].panes \cup {p}
      /\ WindowOK(closeAll(window[a])) /\ closeAll(window[a]).panes = {}
      /\ WindowOK(detachPane(window[a], p))
      /\ detachPane(window[a], p).panes = window[a].panes \ {p}
  BY <1>8, ResizingOperators
<1>10. /\ windows' \in Seq(WindowIds) /\ cur' \in Nat /\ Distinct'
       /\ (HasWindow => cur < Len(windows))'
       /\ Listed' = IF last THEN Listed \ {a} ELSE Listed
  <2>1. CASE last
    <3>1. /\ windows' \in Seq(WindowIds) /\ Len(windows') = Len(windows) - 1
          /\ Listed' = Listed \ {a} /\ Distinct'
      BY <1>3, <1>6, <1>7, <2>1, RemoveAtDistinct DEF Listed, Distinct
    <3>2. i # cur + 1 /\ i \in 1..Len(windows) /\ cur + 1 \in 1..Len(windows)
      BY <1>2, <1>5, <1>7
    <3>3. cur' \in Nat /\ cur' < Len(windows')
      BY <1>6, <1>7, <2>1, <3>1, <3>2
    <3> QED BY <2>1, <3>1, <3>3
  <2>2. CASE ~last
    <3>1. UNCHANGED <<windows, cur>>
      BY <1>6, <2>2
    <3>2. Listed' = Listed /\ Distinct' /\ (HasWindow => cur < Len(windows))'
      BY <1>3, <3>1 DEF Listed, Distinct, HasWindow, IInv
    <3> QED BY <1>7, <2>2, <3>1, <3>2
  <2> QED BY <2>1, <2>2
<1> HIDE DEF a, b, p
<1>11. /\ window' = [v \in WindowIds |-> window'[v]]
       /\ window'[b] = split(window[b], p)
       /\ window'[a] = IF last THEN closeAll(window[a]) ELSE detachPane(window[a], p)
       /\ \A v \in WindowIds \ {a, b} : window'[v] = window[v]
  BY <1>2, <1>3, <1>5, <1>7 DEF LayoutType, adoptPane
<1>12. \A w \in WindowIds : window'[w].panes = IF w = a THEN window[a].panes \ {p}
                                               ELSE IF w = b THEN window[b].panes \cup {p}
                                               ELSE window[w].panes
  BY <1>5, <1>9, <1>11
<1>13. LayoutType'
  <2>1. \A v \in WindowIds : WindowOK(window'[v])
    BY <1>3, <1>9, <1>11 DEF LayoutType
  <2> QED BY <1>10, <1>11, <2>1 DEF LayoutType
<1>14. Listing'
  <2>1. window[a].panes \ {p} # {} <=> ~last
    BY <1>5
  <2>2. \A w \in WindowIds :
          window'[w].panes # {} <=> \/ w = b
                                    \/ w = a /\ ~last
                                    \/ w # a /\ window[w].panes # {}
    <3> HIDE DEF last
    <3>1. ASSUME NEW w \in WindowIds, w = a
          PROVE  w # b /\ (window'[w].panes # {} <=> ~last)
      BY <1>5, <1>12, <2>1, <3>1
    <3>2. ASSUME NEW w \in WindowIds, w = b
          PROVE  window'[w].panes # {}
      <4>1. w # a /\ window'[w].panes = window[b].panes \cup {p}
        BY <1>5, <1>12, <3>2
      <4> QED BY <4>1
    <3>3. ASSUME NEW w \in WindowIds, w # a, w # b
          PROVE  window'[w].panes = window[w].panes
      BY <1>12, <3>3
    <3> QED BY <3>1, <3>2, <3>3
  <2> QED BY <1>2, <1>3, <1>5, <1>7, <1>10, <2>2 DEF Listing
<1>15. UNCHANGED <<nextPaneID, nextWindowID>> /\ IdType' /\ nextWindowID' >= nextWindowID
  BY <1>1, <1>3, IdTypes DEF idVars, IdType
<1>16. \A w \in Listed' : w < nextWindowID'
  BY <1>3, <1>10, <1>15 DEF FreshIds
<1> HIDE DEF last
<1>17. p \in window[a].panes /\ a \in WindowIds /\ b \in WindowIds /\ a # b /\ moveTo(p, b)
  BY <1>2, <1>5, <1>7
<1>18. UNCHANGED <<nextPaneID, shell, pump, reapVars, stopVars>>
  BY <1>1, <1>15
<1> QED BY <1>10, <1>12, <1>13, <1>14, <1>15, <1>16, <1>17, <1>18, MoveInvariant

-----------------------------------------------------------------------------
LEMMA CommandInvariant == IInv /\ Command => IInv'
BY SpawnWindowInvariant, SplitWindowInvariant, KillPaneInvariant, KillWindowInvariant,
   RearrangeInvariant, SelectWindowInvariant, BreakPaneInvariant, JoinPaneInvariant
   DEF Command, RearrangeCommand

LEMMA StutterInvariant == IInv /\ UNCHANGED vars => IInv'
PROOF
<1> SUFFICES ASSUME IInv, UNCHANGED vars PROVE IInv'
  OBVIOUS
<1>1. UNCHANGED <<layoutVars, paneVars, reapVars, stopVars, idVars>>
  BY DEF vars
<1>2. ReapType' /\ StopType' /\ IdType'
  BY <1>1, TypeParts DEF IInv, ReapType, StopType, IdType, reapVars, stopVars, idVars
<1> QED BY <1>1, <1>2, IdTypes, IdsGrowInvariant DEF reapVars, idVars

LEMMA StepInvariant == IInv /\ [Next]_vars => IInv'
PROOF
<1> SUFFICES ASSUME IInv, [Next]_vars PROVE IInv'
  OBVIOUS
<1>1. CASE Command
  BY <1>1, CommandInvariant
<1>2. CASE \E p \in PaneIds : childExit(p) \/ reportExit(p)
  BY <1>2, ExitInvariant
<1>3. CASE Reap
  BY <1>3, ReapOneInvariant, OtherStopsInvariant DEF Reap
<1>4. CASE killSession
  BY <1>4, OtherStopsInvariant
<1>5. CASE \E g \in Stoppers : Stop(g)
  BY <1>5, SweepInvariant, OtherStopsInvariant DEF Stop
<1>6. CASE UNCHANGED vars
  BY <1>6, StutterInvariant
<1> QED BY <1>1, <1>2, <1>3, <1>4, <1>5, <1>6 DEF Next

LEMMA SpecInvariant == Spec => []IInv
BY InitInvariant, StepInvariant, PTL DEF Spec

(* The variables keep their types whatever the bounds are. *)
THEOREM SessionTypes == Spec => []TypeOK
PROOF
<1>1. IInv => TypeOK
  BY DEF IInv
<1> QED BY <1>1, SpecInvariant, PTL

(* A pane is routed to the window that shows it, no shell is lost track    *)
(* of, and cur points at a listed window that has a pane: for any number   *)
(* of panes and windows, any capacity of the paneExit channel, and shells  *)
(* that may fail to start, along every interleaving of the commands, the   *)
(* exits, the reaper and the two ways a session is stopped.                *)
THEOREM SessionOwnership == Spec => []PanesAreHome
PROOF
<1>1. IInv => PanesAreHome
  BY InvariantImplies DEF PanesAreHome
<1> QED BY <1>1, SpecInvariant, PTL
-----------------------------------------------------------------------------
(* Split trees.  A tree is well formed when its paths are sequences of      *)
(* turns, every two of them part, and every turn of one has another that   *)
(* parts from it there.  Split, RemoveLeaf, SwapPanes and the presets keep *)
(* it so, and add or drop no other leaf than the one they name.            *)
(* Two paths part at turn i: the same turns before it, different ones there. *)
Parts(a, b, i) ==
  /\ i \in DOMAIN a \cap DOMAIN b
  /\ a[i] # b[i]
  /\ \A j \in 1..(i - 1) : a[j] = b[j]

Turn == {0, 1}

Separate(t) ==
  \A p, q \in Leaves(t) : p # q => \E i \in DOMAIN t[p] : Parts(t[p], t[q], i)

Binary(t) ==
  \A p \in Leaves(t) : \A i \in DOMAIN t[p] : \E q \in Leaves(t) : Parts(t[p], t[q], i)

TreeOK(t) ==
  /\ \A p \in Leaves(t) : t[p] \in Seq(Turn)
  /\ Separate(t) /\ Binary(t)

LEMMA PartsTwoWays ==
  ASSUME NEW a \in Seq(Turn), NEW b \in Seq(Turn), NEW i, Parts(a, b, i)
  PROVE  /\ i \in 1..Len(a) /\ i \in 1..Len(b) /\ i \in Nat
         /\ Parts(b, a, i)
BY DEF Parts

LEMMA PartsOnce ==
  ASSUME NEW a \in Seq(Turn), NEW b \in Seq(Turn), NEW i, NEW k, Parts(a, b, i), Parts(a, b, k)
  PROVE  i = k
PROOF
<1>1. i \in Nat /\ k \in Nat /\ i >= 1 /\ k >= 1
  BY PartsTwoWays
<1>2. ~(i < k) /\ ~(k < i)
  BY <1>1 DEF Parts
<1> QED BY <1>1, <1>2

LEMMA NewLeafTree ==
  ASSUME NEW p
  PROVE  TreeOK(NewLeaf(p)) /\ Leaves(NewLeaf(p)) = {p}
BY DEF TreeOK, NewLeaf, Leaves, Separate, Binary

LEMMA NoTreeTree == TreeOK(NoTree) /\ Leaves(NoTree) = {}
BY DEF TreeOK, NoTree, Leaves, Separate, Binary

LEMMA SplitTreeOK ==
  ASSUME NEW t, TreeOK(t), NEW target \in Leaves(t), NEW new, new \notin Leaves(t)
  PROVE  TreeOK(Split(t, target, new)) /\ Leaves(Split(t, target, new)) = Leaves(t) \cup {new}
PROOF
<1> DEFINE u == Split(t, target, new)
           a == t[target]
           n == Len(a)
<1>1. a \in Seq(Turn) /\ n \in Nat /\ DOMAIN a = 1..n
  BY DEF TreeOK
<1>2. Leaves(u) = Leaves(t) \cup {new}
  BY DEF Leaves, Split
<1>3. /\ u[new] = Append(a, 1) /\ u[target] = Append(a, 0)
      /\ \A p \in Leaves(t) \ {target} : u[p] = t[p]
  BY DEF Leaves, Split
<1> HIDE DEF u
<1>4. /\ u[new] \in Seq(Turn) /\ Len(u[new]) = n + 1 /\ u[new][n + 1] = 1
      /\ \A j \in 1..n : u[new][j] = a[j]
      /\ u[target] \in Seq(Turn) /\ Len(u[target]) = n + 1 /\ u[target][n + 1] = 0
      /\ \A j \in 1..n : u[target][j] = a[j]
  BY <1>1, <1>3 DEF Turn
<1>5. \A p \in Leaves(u) : u[p] \in Seq(Turn)
  BY <1>2, <1>3, <1>4 DEF TreeOK
<1>6. Parts(u[target], u[new], n + 1) /\ Parts(u[new], u[target], n + 1)
  BY <1>1, <1>4 DEF Parts
<1>7. ASSUME NEW p \in Leaves(t) \ {target}, NEW i, Parts(a, t[p], i), NEW q \in {target, new}
      PROVE  Parts(u[q], u[p], i) /\ Parts(u[p], u[q], i)
  <2>1. t[p] \in Seq(Turn) /\ u[p] = t[p]
    BY <1>3 DEF TreeOK
  <2>2. i \in 1..n /\ i \in DOMAIN t[p] /\ a[i] # t[p][i] /\ \A j \in 1..(i - 1) : a[j] = t[p][j]
    BY <1>1, <1>7 DEF Parts
  <2>3. DOMAIN u[q] = 1..(n + 1) /\ \A j \in 1..n : u[q][j] = a[j]
    BY <1>4
  <2> QED BY <1>1, <2>1, <2>2, <2>3 DEF Parts
<1>8. Separate(u)
  <2>1. ASSUME NEW p \in Leaves(u), NEW q \in Leaves(u), p # q
        PROVE  \E i \in Nat : Parts(u[p], u[q], i)
    <3>1. CASE p \in {target, new} /\ q \in {target, new}
      BY <1>1, <1>6, <2>1, <3>1
    <3>2. CASE p \in {target, new} /\ q \notin {target, new}
      <4>1. q \in Leaves(t) \ {target}
        BY <1>2, <3>2
      <4>2. PICK i \in DOMAIN a : Parts(a, t[q], i)
        BY <4>1 DEF TreeOK, Separate
      <4>3. i \in Nat
        BY <1>1, <4>2
      <4>4. Parts(u[p], u[q], i)
        BY <1>7, <3>2, <4>1, <4>2
      <4> QED BY <4>3, <4>4
    <3>3. CASE p \notin {target, new} /\ q \in {target, new}
      <4>1. p \in Leaves(t) \ {target}
        BY <1>2, <3>3
      <4>2. PICK i \in DOMAIN a : Parts(a, t[p], i)
        BY <4>1 DEF TreeOK, Separate
      <4>3. i \in Nat
        BY <1>1, <4>2
      <4>4. Parts(u[p], u[q], i)
        BY <1>7, <3>3, <4>1, <4>2
      <4> QED BY <4>3, <4>4
    <3>4. CASE p \notin {target, new} /\ q \notin {target, new}
      <4>1. p \in Leaves(t) \ {target} /\ q \in Leaves(t) \ {target}
        BY <1>2, <3>4
      <4>2. PICK i \in DOMAIN t[p] : Parts(t[p], t[q], i)
        BY <2>1, <4>1 DEF TreeOK, Separate
      <4>3. i \in Nat
        BY <4>1, <4>2, PartsTwoWays DEF TreeOK
      <4> QED BY <1>3, <4>1, <4>2, <4>3
    <3> QED BY <3>1, <3>2, <3>3, <3>4
  <2> QED BY <2>1 DEF Separate, Parts
<1>9. Binary(u)
  <2>1. ASSUME NEW p \in Leaves(u), NEW i \in DOMAIN u[p]
        PROVE  \E q \in Leaves(u) : Parts(u[p], u[q], i)
    <3>1. CASE p \in {target, new}
      <4>1. i \in 1..(n + 1)
        BY <1>4, <3>1
      <4>2. CASE i = n + 1
        BY <1>2, <1>6, <3>1, <4>2
      <4>3. CASE i # n + 1
        <5>1. i \in DOMAIN a
          BY <1>1, <4>1, <4>3
        <5>2. PICK q \in Leaves(t) : Parts(a, t[q], i)
          BY <5>1 DEF TreeOK, Binary
        <5>3. q # target
          BY <5>2 DEF Parts
        <5> QED BY <1>2, <1>7, <3>1, <5>2, <5>3
      <4> QED BY <4>2, <4>3
    <3>2. CASE p \notin {target, new}
      <4>1. p \in Leaves(t) \ {target} /\ u[p] = t[p]
        BY <1>2, <1>3, <3>2
      <4>2. PICK q \in Leaves(t) : Parts(t[p], t[q], i)
        BY <2>1, <4>1 DEF TreeOK, Binary
      <4>3. CASE q = target
        BY <1>1, <1>2, <1>7, <4>1, <4>2, <4>3, PartsTwoWays DEF TreeOK
      <4>4. CASE q # target
        BY <1>2, <1>3, <4>1, <4>2, <4>4
      <4> QED BY <4>3, <4>4
    <3> QED BY <3>1, <3>2
  <2> QED BY <2>1 DEF Binary
<1> QED BY <1>2, <1>5, <1>8, <1>9 DEF TreeOK, u

(* The siblings of p are the leaves that part from it at its last turn. *)
LEMMA SiblingsPart ==
  ASSUME NEW t, TreeOK(t), NEW p \in Leaves(t), NEW q \in Leaves(t)
  PROVE  q \in Siblings(t, p) <=> Parts(t[p], t[q], Len(t[p]))
PROOF
<1> DEFINE a == t[p]
           b == t[q]
           n == Len(a)
<1>1. a \in Seq(Turn) /\ b \in Seq(Turn) /\ n \in Nat /\ DOMAIN a = 1..n /\ DOMAIN b = 1..Len(b)
  BY DEF TreeOK
<1>2. q \in Siblings(t, p) <=> q # p /\ IsPrefix(Front(a), b)
  BY DEF Siblings
<1>3. q # p => \E i \in 1..n : Parts(a, b, i)
  BY <1>1 DEF TreeOK, Separate
<1> HIDE DEF a, b
<1>4. ASSUME n >= 1
      PROVE  IsPrefix(Front(a), b) <=> Len(b) >= n - 1 /\ \A j \in 1..(n - 1) : a[j] = b[j]
  <2> DEFINE f == SubSeq(a, 1, n - 1)
  <2>1. f \in Seq(Turn) /\ Len(f) = n - 1 /\ \A j \in 1..(n - 1) : f[j] = a[j]
    BY <1>1, <1>4, SubSeqProperties
  <2>2. ASSUME Len(b) >= n - 1
        PROVE  SubSeq(f, 1, n - 1) = SubSeq(b, 1, n - 1) <=> \A j \in 1..(n - 1) : a[j] = b[j]
    <3> DEFINE x == SubSeq(f, 1, n - 1)
               y == SubSeq(b, 1, n - 1)
    <3>1. x \in Seq(Turn) /\ Len(x) = n - 1 /\ \A j \in 1..(n - 1) : x[j] = f[j]
      BY <1>1, <1>4, <2>1, SubSeqProperties
    <3>2. y \in Seq(Turn) /\ Len(y) = n - 1 /\ \A j \in 1..(n - 1) : y[j] = b[j]
      BY <1>1, <1>4, <2>2, SubSeqProperties
    <3> HIDE DEF x, y, f
    <3>3. x = y <=> \A j \in 1..(n - 1) : x[j] = y[j]
      BY <1>1, <3>1, <3>2
    <3> QED BY <2>1, <3>1, <3>2, <3>3 DEF x, y
  <2>3. Front(a) = f
    BY DEF Front
  <2> HIDE DEF f
  <2> QED BY <1>1, <2>1, <2>2, <2>3 DEF IsPrefix
<1>5. ASSUME q \in Siblings(t, p) PROVE Parts(a, b, n)
  <2>1. PICK i \in 1..n : Parts(a, b, i)
    BY <1>2, <1>3, <1>5
  <2>2. \A j \in 1..(n - 1) : a[j] = b[j]
    BY <1>1, <1>2, <1>4, <1>5, <2>1
  <2>3. i = n
    BY <1>1, <2>1, <2>2 DEF Parts
  <2> QED BY <2>1, <2>3
<1>6. ASSUME Parts(a, b, n) PROVE q \in Siblings(t, p)
  <2>1. n \in 1..n /\ n \in 1..Len(b) /\ a[n] # b[n] /\ \A j \in 1..(n - 1) : a[j] = b[j]
    BY <1>1, <1>6 DEF Parts
  <2>2. q # p
    BY <2>1 DEF a, b
  <2> QED BY <1>1, <1>2, <1>4, <2>1, <2>2
<1> QED BY <1>5, <1>6 DEF a, b

(* A leaf beside another has a sibling. *)
LEMMA SiblingExists ==
  ASSUME NEW t, TreeOK(t), NEW p \in Leaves(t), Leaves(t) # {p}
  PROVE  /\ Len(t[p]) >= 1
         /\ \E q \in Leaves(t) : Parts(t[p], t[q], Len(t[p])) /\ q \in Siblings(t, p)
PROOF
<1>1. PICK q \in Leaves(t) : q # p
  OBVIOUS
<1>2. t[p] \in Seq(Turn)
  BY DEF TreeOK
<1>3. PICK i \in DOMAIN t[p] : Parts(t[p], t[q], i)
  BY <1>1 DEF TreeOK, Separate
<1>4. Len(t[p]) \in DOMAIN t[p]
  BY <1>2, <1>3
<1>5. \E r \in Leaves(t) : Parts(t[p], t[r], Len(t[p]))
  BY <1>4 DEF TreeOK, Binary
<1> QED BY <1>2, <1>4, <1>5, SiblingsPart

LEMMA RemoveLeafTree ==
  ASSUME NEW t, TreeOK(t), NEW p \in Leaves(t), Leaves(t) # {p}
  PROVE  TreeOK(RemoveLeaf(t, p)) /\ Leaves(RemoveLeaf(t, p)) = Leaves(t) \ {p}
PROOF
<1> DEFINE u == RemoveLeaf(t, p)
           a == t[p]
           n == Len(a)
           S == Siblings(t, p)
           L == Leaves(t) \ {p}
<1>1. a \in Seq(Turn) /\ n \in Nat /\ n >= 1 /\ DOMAIN a = 1..n
  BY SiblingExists DEF TreeOK
<1>2. Leaves(u) = L /\ \A q \in L : u[q] = IF q \in S THEN RemoveAt(t[q], n) ELSE t[q]
  BY DEF Leaves, RemoveLeaf
<1>3. S \subseteq L /\ \A q \in L : t[q] \in Seq(Turn)
  BY DEF Siblings, TreeOK
<1>4. \A q \in L : q \in S <=> Parts(a, t[q], n)
  BY SiblingsPart
<1>5. PICK s \in L : s \in S
  BY <1>3, SiblingExists
<1>6. \A q \in L : a # t[q] /\ \E i \in 1..n : Parts(a, t[q], i)
  <2>1. \A q \in L : \E i \in 1..n : Parts(a, t[q], i)
    BY <1>1 DEF TreeOK, Separate
  <2> QED BY <2>1 DEF Parts
<1>7. \A q \in L : \A r \in L : q # r => \E i \in DOMAIN t[q] : Parts(t[q], t[r], i)
  BY DEF TreeOK, Separate
<1>8. \A q \in L : \A i \in DOMAIN t[q] : Parts(t[q], a, i) \/ \E r \in L : Parts(t[q], t[r], i)
  <2>1. \A q \in Leaves(t) : \A i \in DOMAIN t[q] : \E r \in Leaves(t) : Parts(t[q], t[r], i)
    BY DEF TreeOK, Binary
  <2> QED BY <2>1
<1>9. ASSUME NEW q \in S
      PROVE  /\ u[q] \in Seq(Turn) /\ Len(u[q]) = Len(t[q]) - 1 /\ Len(t[q]) >= n
             /\ \A j \in 1..(Len(t[q]) - 1) : u[q][j] = IF j < n THEN t[q][j] ELSE t[q][j + 1]
             /\ \A j \in 1..(n - 1) : t[q][j] = a[j]
             /\ t[q][n] = 1 - a[n]
  <2>1. q \in L /\ t[q] \in Seq(Turn) /\ u[q] = RemoveAt(t[q], n) /\ Parts(a, t[q], n)
    BY <1>2, <1>3, <1>4
  <2>2. n \in DOMAIN t[q] /\ n \in 1..Len(t[q]) /\ t[q][n] # a[n]
        /\ \A j \in 1..(n - 1) : t[q][j] = a[j]
    BY <2>1 DEF Parts
  <2>3. t[q][n] = 1 - a[n]
    BY <1>1, <2>1, <2>2 DEF Turn
  <2>4. /\ u[q] \in Seq(Turn) /\ Len(u[q]) = Len(t[q]) - 1
        /\ \A j \in 1..(Len(t[q]) - 1) : u[q][j] = IF j < n THEN t[q][j] ELSE t[q][j + 1]
    <3> HIDE DEF u, n
    <3> QED BY <2>1, <2>2, RemoveAtProperties
  <2>5. Len(t[q]) >= n
    <3> HIDE DEF u, n
    <3> QED BY <1>1, <2>1, <2>2
  <2> QED BY <2>2, <2>3, <2>4, <2>5
<1>10. \A q \in L \ S : u[q] = t[q] /\ u[q] \in Seq(Turn)
  BY <1>2, <1>3
<1> HIDE DEF u, S, L, n, a
(* A leaf that is no sibling parts from the siblings above the removed turn. *)
<1>11. ASSUME NEW q \in S, NEW r \in L \ S, NEW i, Parts(t[q], t[r], i)
       PROVE  i \in 1..(n - 1) /\ Parts(u[q], u[r], i) /\ Parts(u[r], u[q], i)
  <2>1. q \in L /\ t[q] \in Seq(Turn) /\ t[r] \in Seq(Turn) /\ i \in Nat /\ i >= 1
    BY <1>3, <1>11, PartsTwoWays
  <2>2. PICK k \in 1..n : Parts(a, t[r], k)
    BY <1>6
  <2>3. k # n
    BY <1>4, <2>2
  <2>4. i \in DOMAIN t[q] /\ i \in DOMAIN t[r] /\ t[q][i] # t[r][i]
        /\ \A j \in 1..(i - 1) : t[q][j] = t[r][j]
    BY <1>11 DEF Parts
  <2>5. k \in DOMAIN a /\ k \in DOMAIN t[r] /\ a[k] # t[r][k]
    BY <2>2 DEF Parts
  <2>6. i <= k
    BY <1>1, <1>9, <2>1, <2>2, <2>3, <2>4, <2>5
  <2>7. i \in 1..(n - 1) /\ i \in 1..Len(t[q]) /\ i \in 1..Len(t[r])
    BY <1>1, <2>1, <2>2, <2>3, <2>4, <2>6
  <2>8. u[r] = t[r] /\ i \in DOMAIN u[q] /\ \A j \in 1..i : u[q][j] = t[q][j]
    <3>1. /\ u[q] \in Seq(Turn) /\ Len(u[q]) = Len(t[q]) - 1 /\ Len(t[q]) >= n
          /\ \A j \in 1..(Len(t[q]) - 1) : u[q][j] = IF j < n THEN t[q][j] ELSE t[q][j + 1]
      BY <1>9
    <3>2. i \in DOMAIN u[q]
      BY <1>1, <2>1, <2>7, <3>1
    <3>3. ASSUME NEW j \in 1..i PROVE u[q][j] = t[q][j]
      <4>1. j \in 1..(Len(t[q]) - 1) /\ j < n
        BY <1>1, <2>1, <2>7, <3>1
      <4> QED BY <3>1, <4>1
    <3> QED BY <1>10, <3>2, <3>3
  <2>9. Parts(u[q], u[r], i)
    BY <2>1, <2>4, <2>8 DEF Parts
  <2> QED BY <1>9, <1>10, <2>7, <2>9, PartsTwoWays
(* Two siblings part below it. *)
<1>12. ASSUME NEW q \in S, NEW r \in S, NEW i, Parts(t[q], t[r], i)
       PROVE  i > n /\ i \in Nat /\ Parts(u[q], u[r], i - 1)
  <2>1. t[q] \in Seq(Turn) /\ t[r] \in Seq(Turn) /\ i \in Nat /\ i >= 1
    BY <1>3, <1>12, PartsTwoWays
  <2>2. i \in 1..Len(t[q]) /\ i \in 1..Len(t[r]) /\ t[q][i] # t[r][i]
        /\ \A j \in 1..(i - 1) : t[q][j] = t[r][j]
    BY <1>12, <2>1 DEF Parts
  <2>3. i > n
    BY <1>1, <1>9, <2>1, <2>2
  <2>4. i - 1 \in DOMAIN u[q] /\ i - 1 \in DOMAIN u[r]
    BY <1>1, <1>9, <2>1, <2>2, <2>3
  <2>5. u[q][i - 1] = t[q][i] /\ u[r][i - 1] = t[r][i]
    BY <1>1, <1>9, <2>1, <2>2, <2>3
  <2>6. ASSUME NEW j \in 1..((i - 1) - 1) PROVE u[q][j] = u[r][j]
    <3>1. j \in 1..(Len(t[q]) - 1) /\ j \in 1..(Len(t[r]) - 1)
      BY <2>1, <2>2
    <3>2. /\ u[q][j] = IF j < n THEN t[q][j] ELSE t[q][j + 1]
          /\ u[r][j] = IF j < n THEN t[r][j] ELSE t[r][j + 1]
      BY <1>9, <3>1
    <3>3. j \in 1..(i - 1) /\ j + 1 \in 1..(i - 1)
      BY <2>1
    <3> QED BY <2>2, <3>2, <3>3
  <2> QED BY <2>1, <2>2, <2>3, <2>4, <2>5, <2>6 DEF Parts
<1>13. \A q \in L : u[q] \in Seq(Turn)
  BY <1>9, <1>10
<1>14. Separate(u)
  <2>1. ASSUME NEW q \in L, NEW r \in L, q # r PROVE \E i \in DOMAIN u[q] : Parts(u[q], u[r], i)
    <3>1. PICK i \in DOMAIN t[q] : Parts(t[q], t[r], i)
      BY <1>7, <2>1
    <3>2. Parts(t[r], t[q], i)
      BY <1>3, <3>1, PartsTwoWays
    <3>3. \E k : Parts(u[q], u[r], k)
      BY <1>10, <1>11, <1>12, <3>1, <3>2
    <3> QED BY <3>3 DEF Parts
  <2> QED BY <1>2, <2>1 DEF Separate
<1>15. Binary(u)
  <2>1. ASSUME NEW q \in S, NEW i \in DOMAIN u[q] PROVE \E r \in L : Parts(u[q], u[r], i)
    <3>1. q \in L /\ i \in 1..(Len(t[q]) - 1) /\ t[q] \in Seq(Turn) /\ Len(t[q]) \in Nat
      BY <1>3, <1>9, <2>1
    <3>2. CASE i < n
      <4>1. i \in DOMAIN t[q] /\ ~Parts(t[q], a, i)
        BY <1>1, <1>9, <3>1, <3>2 DEF Parts
      <4>2. PICK r \in L : Parts(t[q], t[r], i)
        BY <1>8, <3>1, <4>1
      <4>3. r \notin S
        BY <1>1, <1>12, <3>1, <3>2, <4>2
      <4> QED BY <1>11, <4>2, <4>3
    <3>3. CASE i >= n
      <4>1. i + 1 \in DOMAIN t[q] /\ ~Parts(t[q], a, i + 1)
        <5>1. i + 1 \notin DOMAIN a
          BY <1>1, <3>1, <3>3
        <5> QED BY <3>1, <5>1 DEF Parts
      <4>2. PICK r \in L : Parts(t[q], t[r], i + 1)
        BY <1>8, <3>1, <4>1
      <4>3. r \in S
        <5>1. r \notin S => i + 1 \in 1..(n - 1)
          BY <1>11, <4>2
        <5> QED BY <1>1, <3>1, <3>3, <5>1
      <4>4. Parts(u[q], u[r], (i + 1) - 1) /\ (i + 1) - 1 = i
        BY <1>12, <3>1, <4>2, <4>3
      <4> QED BY <4>2, <4>4
    <3> QED BY <1>1, <3>1, <3>2, <3>3
  <2>2. ASSUME NEW q \in L \ S, NEW i \in DOMAIN u[q] PROVE \E r \in L : Parts(u[q], u[r], i)
    <3>1. t[q] \in Seq(Turn) /\ i \in DOMAIN t[q] /\ u[q] = t[q]
      BY <1>10, <2>2
    <3>2. CASE Parts(t[q], a, i)
      <4>1. Parts(a, t[q], i) /\ i \in 1..n
        BY <1>1, <3>1, <3>2, PartsTwoWays
      <4>2. i # n
        BY <1>4, <4>1
      <4>3. Parts(t[s], t[q], i)
        <5>1. /\ i \in DOMAIN t[q] /\ a[i] # t[q][i]
              /\ \A j \in 1..(i - 1) : a[j] = t[q][j]
          BY <4>1 DEF Parts
        <5>2. /\ t[s] \in Seq(Turn) /\ Len(t[s]) >= n
              /\ \A j \in 1..(n - 1) : t[s][j] = a[j]
          BY <1>3, <1>5, <1>9
        <5>3. i \in DOMAIN t[s] /\ \A j \in 1..i : t[s][j] = a[j]
          BY <1>1, <4>1, <4>2, <5>2
        <5> QED BY <1>1, <4>1, <5>1, <5>3 DEF Parts
      <4> QED BY <1>5, <1>11, <4>3
    <3>3. CASE \E r \in L : Parts(t[q], t[r], i)
      <4>1. PICK r \in L : Parts(t[q], t[r], i)
        BY <3>3
      <4>2. Parts(t[r], t[q], i)
        BY <1>3, <4>1, PartsTwoWays
      <4> QED BY <1>10, <1>11, <4>1, <4>2
    <3> QED BY <1>8, <3>1, <3>2, <3>3
  <2> QED BY <1>2, <2>1, <2>2 DEF Binary
<1> QED BY <1>2, <1>13, <1>14, <1>15 DEF TreeOK, u, L

-----------------------------------------------------------------------------
(* Before is a total order on the leaves of a tree. *)
LEMMA BeforeParts ==
  ASSUME NEW a \in Seq(Turn), NEW b \in Seq(Turn)
  PROVE  Before(a, b) <=> \E i \in DOMAIN a : Parts(a, b, i) /\ a[i] < b[i]
PROOF
<1>1. ASSUME NEW i \in DOMAIN a \cap DOMAIN b
      PROVE  a[i] < b[i] => a[i] # b[i]
  <2>1. a[i] \in Turn /\ b[i] \in Turn
    OBVIOUS
  <2> QED BY <2>1 DEF Turn
<1> QED BY <1>1 DEF Before, Parts

LEMMA BeforeOrders ==
  ASSUME NEW t, TreeOK(t), NEW p \in Leaves(t), NEW q \in Leaves(t), NEW r \in Leaves(t)
  PROVE  /\ ~Before(t[p], t[p])
         /\ p # q => Before(t[p], t[q]) \/ Before(t[q], t[p])
         /\ Before(t[p], t[q]) /\ Before(t[q], t[r]) => Before(t[p], t[r])
PROOF
<1> DEFINE a == t[p]
           b == t[q]
           c == t[r]
<1>1. a \in Seq(Turn) /\ b \in Seq(Turn) /\ c \in Seq(Turn)
  BY DEF TreeOK
<1>2. /\ \A i \in DOMAIN a : a[i] \in Turn
      /\ \A i \in DOMAIN b : b[i] \in Turn
      /\ \A i \in DOMAIN c : c[i] \in Turn
  BY <1>1
<1>3. p # q => \E i \in DOMAIN a : Parts(a, b, i)
  BY DEF TreeOK, Separate
<1> HIDE DEF a, b, c
<1>4. ~Before(a, a)
  BY <1>1, BeforeParts DEF Parts
<1>5. ASSUME p # q PROVE Before(a, b) \/ Before(b, a)
  <2>1. PICK i \in DOMAIN a : Parts(a, b, i)
    BY <1>3, <1>5
  <2>2. Parts(b, a, i) /\ i \in DOMAIN b /\ a[i] # b[i]
    BY <1>1, <2>1, PartsTwoWays DEF Parts
  <2>3. a[i] < b[i] \/ b[i] < a[i]
    BY <1>2, <2>1, <2>2 DEF Turn
  <2> QED BY <1>1, <2>1, <2>2, <2>3, BeforeParts
<1>6. ASSUME Before(a, b), Before(b, c) PROVE Before(a, c)
  <2>1. PICK i \in DOMAIN a : Parts(a, b, i) /\ a[i] < b[i]
    BY <1>1, <1>6, BeforeParts
  <2>2. PICK k \in DOMAIN b : Parts(b, c, k) /\ b[k] < c[k]
    BY <1>1, <1>6, BeforeParts
  <2>3. /\ i \in 1..Len(a) /\ i \in 1..Len(b) /\ k \in 1..Len(b) /\ k \in 1..Len(c)
        /\ i \in Nat /\ k \in Nat /\ Len(a) \in Nat /\ Len(b) \in Nat /\ Len(c) \in Nat
        /\ DOMAIN a = 1..Len(a) /\ DOMAIN b = 1..Len(b) /\ DOMAIN c = 1..Len(c)
    BY <1>1, <2>1, <2>2, PartsTwoWays
  <2>4. /\ \A j \in 1..(i - 1) : a[j] = b[j]
        /\ \A j \in 1..(k - 1) : b[j] = c[j]
    BY <2>1, <2>2 DEF Parts
  <2>5. CASE i < k
    <3>1. b[i] = c[i] /\ i \in DOMAIN c /\ \A j \in 1..(i - 1) : a[j] = c[j]
      BY <2>3, <2>4, <2>5
    <3> QED BY <2>1, <2>3, <3>1 DEF Before
  <2>6. CASE k < i
    <3>1. a[k] = b[k] /\ k \in DOMAIN a /\ \A j \in 1..(k - 1) : a[j] = c[j]
      BY <2>3, <2>4, <2>6
    <3> QED BY <2>2, <2>3, <3>1 DEF Before
  <2>7. i # k
    <3>1. a[i] \in Turn /\ b[i] \in Turn /\ b[k] \in Turn /\ c[k] \in Turn
      BY <1>2, <2>3
    <3> QED BY <2>1, <2>2, <3>1 DEF Turn
  <2> QED BY <2>3, <2>5, <2>6, <2>7
<1> QED BY <1>4, <1>5, <1>6 DEF a, b, c

(* Ranks number the leaves of a finite tree from 0 on. *)
LEMMA RankOrders ==
  ASSUME NEW t, TreeOK(t), IsFiniteSet(Leaves(t))
  PROVE  /\ Cardinality(Leaves(t)) \in Nat
         /\ \A p \in Leaves(t) : Rank(t, p) \in 0..(Cardinality(Leaves(t)) - 1)
         /\ \A p, q \in Leaves(t) : Before(t[p], t[q]) => Rank(t, p) < Rank(t, q)
PROOF
<1> DEFINE L == Leaves(t)
           B(p) == {q \in L : Before(t[q], t[p])}
<1>1. Cardinality(L) \in Nat
  BY FS_CardinalityType
<1>2. ASSUME NEW p \in L
      PROVE  /\ IsFiniteSet(B(p)) /\ Cardinality(B(p)) \in Nat /\ Rank(t, p) = Cardinality(B(p))
             /\ Cardinality(B(p)) < Cardinality(L)
  <2>1. B(p) \in SUBSET L /\ p \notin B(p)
    BY BeforeOrders
  <2>2. /\ IsFiniteSet(B(p)) /\ Cardinality(B(p)) <= Cardinality(L)
        /\ Cardinality(B(p)) # Cardinality(L)
    <3> HIDE DEF B
    <3> QED BY <2>1, FS_Subset
  <2>3. Cardinality(B(p)) \in Nat
    BY <2>2, FS_CardinalityType
  <2> QED BY <1>1, <2>2, <2>3 DEF Rank
<1>3. ASSUME NEW p \in L, NEW q \in L, Before(t[p], t[q])
      PROVE  Cardinality(B(p)) < Cardinality(B(q))
  <2>1. B(p) \in SUBSET B(q) /\ p \in B(q) /\ p \notin B(p)
    BY <1>3, BeforeOrders
  <2>2. /\ IsFiniteSet(B(q)) /\ Cardinality(B(q)) \in Nat /\ Cardinality(B(p)) \in Nat
    BY <1>2
  <2> HIDE DEF B
  <2>3. Cardinality(B(p)) <= Cardinality(B(q)) /\ Cardinality(B(p)) # Cardinality(B(q))
    BY <2>1, <2>2, FS_Subset
  <2> QED BY <2>2, <2>3
<1> HIDE DEF B
<1>4. \A p \in L : Rank(t, p) \in 0..(Cardinality(L) - 1)
  BY <1>1, <1>2
<1>5. \A p, q \in L : Before(t[p], t[q]) => Rank(t, p) < Rank(t, q)
  BY <1>2, <1>3
<1> QED BY <1>1, <1>4, <1>5

(* Panes lists the leaves, each once and in the order of their ranks. *)
LEMMA PanesListLeaves ==
  ASSUME NEW t, TreeOK(t), IsFiniteSet(Leaves(t))
  PROVE  LET n == Cardinality(Leaves(t)) IN
         /\ n \in Nat
         /\ Panes(t) \in [1..n -> Leaves(t)]
         /\ \A k \in 1..n : Rank(t, Panes(t)[k]) = k - 1
         /\ \A p \in Leaves(t) : Rank(t, p) + 1 \in 1..n /\ Panes(t)[Rank(t, p) + 1] = p
PROOF
<1> DEFINE L == Leaves(t)
           n == Cardinality(L)
           f == [p \in L |-> Rank(t, p)]
           N == 0..(n - 1)
<1>1. n \in Nat /\ f \in [L -> N]
  BY RankOrders
<1>2. ASSUME NEW p \in L, NEW q \in L, p # q PROVE Rank(t, p) # Rank(t, q)
  <2>1. Before(t[p], t[q]) \/ Before(t[q], t[p])
    BY <1>2, BeforeOrders
  <2>2. Rank(t, p) \in Int /\ Rank(t, q) \in Int
    BY <1>1, RankOrders
  <2>3. Rank(t, p) < Rank(t, q) \/ Rank(t, q) < Rank(t, p)
    BY <2>1, RankOrders
  <2> QED BY <2>2, <2>3
<1>3. f \in Injection(L, N)
  <2>1. \A p, q \in L : f[p] = f[q] => p = q
    BY <1>2
  <2> HIDE DEF f
  <2> QED BY <1>1, <2>1, Fun_IsInj
<1>4. IsFiniteSet(N) /\ Cardinality(N) = n
  <2>1. n - 1 \in Int /\ 0 \in Int
    BY <1>1
  <2>2. IsFiniteSet(N) /\ Cardinality(N) = IF 0 > n - 1 THEN 0 ELSE (n - 1) - 0 + 1
    BY <2>1, FS_Interval
  <2> QED BY <1>1, <2>2
<1>5. f \in Surjection(L, N)
  <2> HIDE DEF f, N
  <2> QED BY <1>3, <1>4, FS_Injection
<1>6. ASSUME NEW k \in 1..n PROVE Panes(t)[k] \in L /\ Rank(t, Panes(t)[k]) = k - 1
  <2>1. k - 1 \in N
    BY <1>1
  <2>2. \E p \in L : f[p] = k - 1
    <3> HIDE DEF f, N
    <3> QED BY <1>5, <2>1 DEF Surjection
  <2>3. \E p \in L : Rank(t, p) = k - 1
    BY <2>2
  <2>4. Panes(t)[k] = CHOOSE p \in L : Rank(t, p) = k - 1
    BY DEF Panes
  <2> QED BY <2>3, <2>4
<1>7. Panes(t) \in [1..n -> L]
  <2>1. Panes(t) = [k \in 1..n |-> Panes(t)[k]]
    BY DEF Panes
  <2> QED BY <1>6, <2>1
<1>8. ASSUME NEW p \in L PROVE Rank(t, p) + 1 \in 1..n /\ Panes(t)[Rank(t, p) + 1] = p
  <2>1. Rank(t, p) \in 0..(n - 1)
    BY RankOrders
  <2>2. Rank(t, p) + 1 \in 1..n /\ (Rank(t, p) + 1) - 1 = Rank(t, p)
    BY <1>1, <2>1
  <2>3. Panes(t)[Rank(t, p) + 1] \in L /\ Rank(t, Panes(t)[Rank(t, p) + 1]) = Rank(t, p)
    BY <1>6, <2>2
  <2> QED BY <1>2, <2>2, <2>3
<1> QED BY <1>1, <1>6, <1>7, <1>8

(* The next or previous leaf is a leaf. *)
LEMMA NeighborIsLeaf ==
  ASSUME NEW t, TreeOK(t), IsFiniteSet(Leaves(t)), NEW p \in Leaves(t), NEW delta \in Int
  PROVE  Neighbor(t, p, delta) \in Leaves(t)
PROOF
<1> DEFINE n == Cardinality(Leaves(t))
           k == Rank(t, p)
           m == (k + delta + n) % n
<1>1. n \in Nat /\ Panes(t) \in [1..n -> Leaves(t)] /\ k + 1 \in 1..n
  BY PanesListLeaves
<1>2. k \in Int /\ n # 0
  <2>1. k \in 0..(n - 1)
    BY RankOrders
  <2> QED BY <1>1, <2>1
<1>3. Neighbor(t, p, delta) = Panes(t)[m + 1]
  BY <1>2 DEF Neighbor
<1>4. m \in 0..(n - 1)
  <2> DEFINE x == k + delta + n
  <2>1. x \in Int
    BY <1>1, <1>2
  <2> HIDE DEF x, n
  <2>2. x % n \in 0..(n - 1)
    BY <1>1, <1>2, <2>1
  <2> QED BY <2>2 DEF x
<1>5. m + 1 \in 1..n
  <2> HIDE DEF m, n
  <2> QED BY <1>1, <1>4
<1> HIDE DEF m, n
<1> QED BY <1>1, <1>3, <1>5

(* Remove hands the focus to a leaf that stays. *)
LEMMA FocusAfterStays ==
  ASSUME NEW t, TreeOK(t), IsFiniteSet(Leaves(t)), NEW p \in Leaves(t), Leaves(t) # {p}
  PROVE  FocusAfter(t, p) \in Leaves(t) \ {p}
PROOF
<1> DEFINE S == Siblings(t, p)
           R == {Rank(t, q) : q \in S}
<1>1. S \subseteq Leaves(t) \ {p} /\ S # {}
  BY SiblingExists DEF Siblings
<1>2. \A q \in S : Rank(t, q) \in Nat
  <2>1. \A q \in S : Rank(t, q) \in 0..(Cardinality(Leaves(t)) - 1)
    BY <1>1, RankOrders
  <2> QED BY <2>1
<1>3. R \in SUBSET Nat /\ R # {}
  BY <1>1, <1>2
<1>4. PICK m \in R : \A k \in R : m <= k
  <2> HIDE DEF R
  <2> QED BY <1>3, LeastNatural
<1>5. PICK q \in S : \A r \in S : Rank(t, q) <= Rank(t, r)
  BY <1>4
<1>6. ASSUME NEW r \in S \ {q} PROVE Before(t[q], t[r])
  <2>1. Before(t[q], t[r]) \/ Before(t[r], t[q])
    BY <1>1, <1>6, BeforeOrders
  <2>2. Before(t[r], t[q]) => Rank(t, r) < Rank(t, q)
    BY <1>1, RankOrders
  <2>3. Rank(t, q) <= Rank(t, r) /\ Rank(t, q) \in Nat /\ Rank(t, r) \in Nat
    BY <1>2, <1>5
  <2> QED BY <2>1, <2>2, <2>3
<1>7. FocusAfter(t, p) \in S
  BY <1>6 DEF FocusAfter
<1> QED BY <1>1, <1>7

LEMMA SwapPanesTree ==
  ASSUME NEW t, TreeOK(t), NEW a \in Leaves(t), NEW b \in Leaves(t)
  PROVE  TreeOK(SwapPanes(t, a, b)) /\ Leaves(SwapPanes(t, a, b)) = Leaves(t)
PROOF
<1> DEFINE u == SwapPanes(t, a, b)
           h(p) == IF p = a THEN b ELSE IF p = b THEN a ELSE p
<1>1. Leaves(u) = Leaves(t) /\ \A p \in Leaves(t) : u[p] = t[h(p)]
  BY DEF SwapPanes, Leaves
<1>2. \A p \in Leaves(t) : h(p) \in Leaves(t) /\ h(h(p)) = p
  OBVIOUS
<1>3. \A p, q \in Leaves(t) : p # q => h(p) # h(q)
  OBVIOUS
<1> HIDE DEF u, h
<1>4. \A p \in Leaves(u) : u[p] \in Seq(Turn)
  BY <1>1, <1>2 DEF TreeOK
<1>5. Separate(u)
  BY <1>1, <1>2, <1>3 DEF TreeOK, Separate
<1>6. Binary(u)
  <2>1. ASSUME NEW p \in Leaves(t), NEW i \in DOMAIN u[p]
        PROVE  \E q \in Leaves(t) : Parts(u[p], u[q], i)
    <3>1. PICK q \in Leaves(t) : Parts(t[h(p)], t[q], i)
      BY <1>1, <1>2, <2>1 DEF TreeOK, Binary
    <3>2. u[h(q)] = t[q] /\ h(q) \in Leaves(t) /\ u[p] = t[h(p)]
      BY <1>1, <1>2
    <3> QED BY <3>1, <3>2
  <2> QED BY <1>1, <2>1 DEF Binary
<1> QED BY <1>1, <1>4, <1>5, <1>6 DEF TreeOK, u

-----------------------------------------------------------------------------
(* The presets. *)
(* Paths given by position to a list without duplicates. *)
PathsFit(path, n) ==
  /\ \A k \in 1..n : path[k] \in Seq(Turn)
  /\ \A j, k \in 1..n : j # k => \E i \in DOMAIN path[j] : Parts(path[j], path[k], i)
  /\ \A k \in 1..n : \A i \in DOMAIN path[k] : \E j \in 1..n : Parts(path[k], path[j], i)

Placed(ids, path) == [p \in ToSet(ids) |-> path[CHOOSE k \in DOMAIN ids : ids[k] = p]]

LEMMA PlacedTree ==
  ASSUME NEW L, NEW ids \in Seq(L), NEW path, PathsFit(path, Len(ids)),
         \A j, k \in DOMAIN ids : ids[j] = ids[k] => j = k
  PROVE  TreeOK(Placed(ids, path)) /\ Leaves(Placed(ids, path)) = ToSet(ids)
PROOF
<1> DEFINE n == Len(ids)
           t == Placed(ids, path)
<1> USE DEF PathsFit, Placed
<1>1. n \in Nat /\ DOMAIN ids = 1..n /\ ToSet(ids) = {ids[k] : k \in 1..n}
  BY DEF ToSet
<1>2. ASSUME NEW k \in 1..n PROVE ids[k] \in ToSet(ids) /\ t[ids[k]] = path[k]
  <2>1. ids[k] \in ToSet(ids)
    BY <1>1
  <2>2. (CHOOSE j \in DOMAIN ids : ids[j] = ids[k]) = k
    BY <1>1
  <2> QED BY <2>1, <2>2
<1>3. Leaves(t) = {ids[k] : k \in 1..n}
  BY <1>1 DEF Leaves
<1> HIDE DEF Placed
<1>4. \A p \in Leaves(t) : t[p] \in Seq(Turn)
  BY <1>2, <1>3
<1>5. Separate(t)
  <2>1. ASSUME NEW p \in Leaves(t), NEW q \in Leaves(t), p # q
        PROVE  \E i \in DOMAIN t[p] : Parts(t[p], t[q], i)
    <3>1. PICK j \in 1..n : ids[j] = p
      BY <1>3
    <3>2. PICK k \in 1..n : ids[k] = q
      BY <1>3
    <3>3. j # k /\ t[p] = path[j] /\ t[q] = path[k]
      BY <1>2, <2>1, <3>1, <3>2
    <3> QED BY <3>3
  <2> QED BY <2>1 DEF Separate
<1>6. Binary(t)
  <2>1. ASSUME NEW p \in Leaves(t), NEW i \in DOMAIN t[p]
        PROVE  \E q \in Leaves(t) : Parts(t[p], t[q], i)
    <3>1. PICK k \in 1..n : ids[k] = p
      BY <1>3
    <3>2. t[p] = path[k]
      BY <1>2, <3>1
    <3>3. PICK j \in 1..n : Parts(path[k], path[j], i)
      BY <2>1, <3>2
    <3>4. ids[j] \in Leaves(t) /\ t[ids[j]] = path[j]
      BY <1>2, <1>3
    <3> QED BY <3>2, <3>3, <3>4
  <2> QED BY <2>1 DEF Binary
<1> QED BY <1>1, <1>3, <1>4, <1>5, <1>6 DEF TreeOK

(* The leaves of a chain. *)
LEMMA ChainPaths ==
  ASSUME NEW n \in Nat
  PROVE  PathsFit([k \in 1..n |-> Link(k, n)], n)
PROOF
<1> DEFINE len(k) == IF k = n THEN n - 1 ELSE k
<1>1. ASSUME NEW k \in 1..n
      PROVE  /\ Link(k, n) \in Seq(Turn) /\ DOMAIN Link(k, n) = 1..len(k) /\ len(k) \in Nat
             /\ \A i \in 1..len(k) : Link(k, n)[i] = IF i < k THEN 1 ELSE 0
  <2>1. len(k) \in Nat
    OBVIOUS
  <2>2. Link(k, n) = [i \in 1..len(k) |-> IF i < k THEN 1 ELSE 0]
    BY DEF Link
  <2> HIDE DEF len
  <2>3. [i \in 1..len(k) |-> IF i < k THEN 1 ELSE 0] \in Seq(Turn)
    BY <2>1 DEF Turn
  <2> QED BY <2>1, <2>2, <2>3
<1>2. ASSUME NEW j \in 1..n, NEW k \in 1..n, j < k
      PROVE  Parts(Link(j, n), Link(k, n), j) /\ Parts(Link(k, n), Link(j, n), j)
  <2>1. j \in 1..len(j) /\ j \in 1..len(k)
    BY <1>2
  <2>2. Link(j, n)[j] = 0 /\ Link(k, n)[j] = 1
    BY <1>1, <1>2, <2>1
  <2>3. \A i \in 1..(j - 1) : Link(j, n)[i] = 1 /\ Link(k, n)[i] = 1
    <3>1. ASSUME NEW i \in 1..(j - 1)
          PROVE  i \in 1..len(j) /\ i \in 1..len(k) /\ i < j /\ i < k
      BY <1>2
    <3> HIDE DEF len
    <3> QED BY <1>1, <3>1
  <2> HIDE DEF len
  <2> QED BY <1>1, <2>1, <2>2, <2>3 DEF Parts
<1>3. ASSUME NEW k \in 1..n, NEW i \in DOMAIN Link(k, n)
      PROVE  \E j \in 1..n : Parts(Link(k, n), Link(j, n), i)
  <2>1. i \in 1..len(k)
    BY <1>1
  <2>2. i \in 1..n /\ i <= k /\ (i = k => k + 1 \in 1..n)
    BY <2>1
  <2>3. CASE i < k
    BY <1>2, <2>2, <2>3
  <2>4. CASE i = k
    <3>1. k + 1 \in 1..n /\ k < k + 1
      BY <2>2, <2>4
    <3> QED BY <1>2, <2>4, <3>1
  <2> QED BY <2>2, <2>3, <2>4
<1>4. ASSUME NEW j \in 1..n, NEW k \in 1..n, j # k
      PROVE  \E i \in DOMAIN Link(j, n) : Parts(Link(j, n), Link(k, n), i)
  <2>1. j < k \/ k < j
    BY <1>4
  <2>2. \E i : Parts(Link(j, n), Link(k, n), i)
    BY <1>2, <2>1
  <2> QED BY <2>2 DEF Parts
<1> HIDE DEF len
<1> QED BY <1>1, <1>3, <1>4 DEF PathsFit

LEMMA ChainedTree ==
  ASSUME NEW L, NEW ids \in Seq(L), \A j, k \in DOMAIN ids : ids[j] = ids[k] => j = k
  PROVE  TreeOK(Chained(ids)) /\ Leaves(Chained(ids)) = ToSet(ids)
PROOF
<1> DEFINE n == Len(ids)
           path == [k \in 1..n |-> Link(k, n)]
<1>1. n \in Nat /\ DOMAIN ids = 1..n
  OBVIOUS
<1>2. Chained(ids) = Placed(ids, path)
  <2>1. ASSUME NEW p \in ToSet(ids) PROVE (CHOOSE k \in DOMAIN ids : ids[k] = p) \in 1..n
    BY <1>1, <2>1 DEF ToSet
  <2> QED BY <1>1, <2>1 DEF Chained, Placed
<1>3. PathsFit(path, n)
  BY <1>1, ChainPaths
<1> HIDE DEF path
<1> QED BY <1>2, <1>3, PlacedTree

LEMMA ConcatParts ==
  ASSUME NEW a \in Seq(Turn), NEW b \in Seq(Turn), NEW c \in Seq(Turn), NEW d \in Seq(Turn)
  PROVE  /\ \A i : Parts(a, c, i) => Parts(a \o b, c \o d, i)
         /\ \A i : Parts(b, d, i) => Parts(a \o b, a \o d, Len(a) + i)
PROOF
<1>1. ASSUME NEW x \in Seq(Turn), NEW y \in Seq(Turn)
      PROVE  /\ x \o y \in Seq(Turn) /\ Len(x \o y) = Len(x) + Len(y)
             /\ DOMAIN (x \o y) = 1..(Len(x) + Len(y))
             /\ \A i \in 1..Len(x) : (x \o y)[i] = x[i]
             /\ \A i \in 1..Len(y) : (x \o y)[Len(x) + i] = y[i]
             /\ Len(x) \in Nat /\ Len(y) \in Nat
  OBVIOUS
<1>2. ASSUME NEW i, Parts(a, c, i) PROVE Parts(a \o b, c \o d, i)
  <2>1. i \in Nat /\ i \in 1..Len(a) /\ i \in 1..Len(c) /\ a[i] # c[i]
        /\ \A j \in 1..(i - 1) : a[j] = c[j]
    BY <1>2, PartsTwoWays DEF Parts
  <2>2. (a \o b)[i] = a[i] /\ (c \o d)[i] = c[i]
    BY <1>1, <2>1
  <2>3. i \in 1..(Len(a) + Len(b)) /\ i \in 1..(Len(c) + Len(d))
    BY <1>1, <2>1
  <2>4. ASSUME NEW j \in 1..(i - 1) PROVE (a \o b)[j] = (c \o d)[j]
    <3>1. j \in 1..Len(a) /\ j \in 1..Len(c)
      BY <1>1, <2>1
    <3>2. (a \o b)[j] = a[j] /\ (c \o d)[j] = c[j]
      BY <1>1, <3>1
    <3> QED BY <2>1, <3>2
  <2> QED BY <1>1, <2>1, <2>2, <2>3, <2>4 DEF Parts
<1>3. ASSUME NEW i, Parts(b, d, i) PROVE Parts(a \o b, a \o d, Len(a) + i)
  <2>1. i \in Nat /\ i \in 1..Len(b) /\ i \in 1..Len(d) /\ b[i] # d[i]
        /\ \A j \in 1..(i - 1) : b[j] = d[j]
    BY <1>3, PartsTwoWays DEF Parts
  <2>2. (a \o b)[Len(a) + i] = b[i] /\ (a \o d)[Len(a) + i] = d[i]
    BY <1>1, <2>1
  <2>3. Len(a) + i \in 1..(Len(a) + Len(b)) /\ Len(a) + i \in 1..(Len(a) + Len(d))
    BY <1>1, <2>1
  <2>4. ASSUME NEW j \in 1..((Len(a) + i) - 1) PROVE (a \o b)[j] = (a \o d)[j]
    <3>1. CASE j <= Len(a)
      <4>1. j \in 1..Len(a)
        BY <1>1, <2>1, <3>1
      <4> QED BY <1>1, <4>1
    <3>2. CASE j > Len(a)
      <4> DEFINE k == j - Len(a)
      <4>1. k \in 1..(i - 1) /\ k \in 1..Len(b) /\ k \in 1..Len(d) /\ j = Len(a) + k
        BY <1>1, <2>1, <3>2
      <4> HIDE DEF k
      <4>2. (a \o b)[Len(a) + k] = b[k] /\ (a \o d)[Len(a) + k] = d[k]
        BY <1>1, <4>1
      <4> QED BY <2>1, <4>1, <4>2
    <3> QED BY <1>1, <2>1, <3>1, <3>2
  <2> QED BY <1>1, <2>1, <2>2, <2>3, <2>4 DEF Parts
<1> QED BY <1>2, <1>3

(* A grid of n cells in rows of cols: cell k is in row (k - 1) \div cols,   *)
(* and only the last row may be shorter.                                   *)
RowLength(n, cols, rows, r) == IF r = rows - 1 THEN n - r * cols ELSE cols

GridFits(n, cols, rows) ==
  /\ rows \in Nat
  /\ \A k \in 1..n : LET r == (k - 1) \div cols IN
       r \in 0..(rows - 1) /\ k - r * cols \in 1..RowLength(n, cols, rows, r)
  /\ \A r \in 0..(rows - 1) :
       /\ RowLength(n, cols, rows, r) \in Nat \ {0} /\ r * cols \in Nat
       /\ \A c \in 1..RowLength(n, cols, rows, r) :
            /\ r * cols + c \in 1..n /\ ((r * cols + c) - 1) \div cols = r

LEMMA Grid ==
  ASSUME NEW n \in Nat \ {0}, NEW cols \in 1..n, NEW rows, rows = (n + cols - 1) \div cols
  PROVE  GridFits(n, cols, rows)
PROOF
<1> DEFINE Length(r) == RowLength(n, cols, rows, r)
<1> USE DEF RowLength
<1>1. rows \in Nat /\ cols \in Nat \ {0} /\ n \in Nat
  BY Division
<1>2. cols * rows >= n
  <2>1. cols * rows <= n + cols - 1 /\ n + cols - 1 < cols * rows + cols
    BY Division
  <2> QED BY <1>1, <2>1, ProductGrows
<1>3. rows >= 1
  <2>1. rows = 0 => cols * rows = 0
    BY <1>1
  <2> QED BY <1>1, <1>2, <2>1
<1>4. rows - 1 \in Nat /\ cols * (rows - 1) < n
  <2>1. cols * rows <= n + cols - 1
    BY Division
  <2>2. rows - 1 \in Nat
    BY <1>1, <1>3
  <2>3. cols * ((rows - 1) + 1) = cols * (rows - 1) + cols /\ cols * (rows - 1) \in Nat
    BY <1>1, <2>2, ProductGrows
  <2>4. (rows - 1) + 1 = rows
    BY <1>1
  <2> DEFINE x == cols * (rows - 1)
             y == cols * rows
  <2>5. y = x + cols /\ x \in Nat /\ y <= n + cols - 1
    BY <2>1, <2>3, <2>4
  <2>6. x < n
    <3> HIDE DEF x, y
    <3> QED BY <1>1, <2>5
  <2> QED BY <2>2, <2>6
<1>5. ASSUME NEW k \in 1..n
      PROVE  LET r == (k - 1) \div cols IN
               r \in 0..(rows - 1) /\ k - r * cols \in 1..Length(r)
  <2> DEFINE r == (k - 1) \div cols
             x == cols * r
  <2>1. r \in Nat /\ x <= k - 1 /\ k - 1 < x + cols
    BY <1>1, Division
  <2> HIDE DEF r
  <2>2. x \in Nat /\ x = r * cols
    BY <1>1, <2>1, ProductGrows
  <2>3. r <= rows - 1
    <3>1. rows <= r => cols * rows <= x
      BY <1>1, <2>1, ProductGrows
    <3>2. ~(rows <= r)
      <4> DEFINE y == cols * rows
      <4>1. y >= n /\ (rows <= r => y <= x)
        BY <1>2, <3>1
      <4>2. y \in Nat
        BY <1>1, ProductGrows
      <4> HIDE DEF x, y
      <4> QED BY <1>1, <2>1, <2>2, <4>1, <4>2
    <3> QED BY <1>1, <2>1, <3>2
  <2>4. k - x \in 1..Length(r)
    <3>1. Length(r) = IF r = rows - 1 THEN n - x ELSE cols
      BY <2>2
    <3> HIDE DEF x, Length
    <3> QED BY <1>1, <2>1, <2>2, <3>1
  <2>5. r \in 0..(rows - 1) /\ k - r * cols \in 1..Length(r)
    BY <1>1, <2>1, <2>2, <2>3, <2>4
  <2> QED BY <2>5 DEF r
<1>6. ASSUME NEW r \in 0..(rows - 1)
      PROVE  /\ Length(r) \in Nat \ {0} /\ r * cols \in Nat
             /\ \A c \in 1..Length(r) :
                  /\ r * cols + c \in 1..n /\ ((r * cols + c) - 1) \div cols = r
  <2> DEFINE x == cols * r
  <2>1. r \in Nat /\ x \in Nat /\ x = r * cols
    BY <1>1, ProductGrows
  <2>2. r # rows - 1 => x + cols < n
    <3>1. r # rows - 1 => r + 1 <= rows - 1
      BY <1>1, <2>1
    <3>2. r # rows - 1 => cols * (r + 1) <= cols * (rows - 1)
      BY <1>1, <1>4, <2>1, <3>1, ProductGrows
    <3>3. cols * (r + 1) = x + cols
      BY <1>1, <2>1, ProductGrows
    <3> DEFINE y == cols * (rows - 1)
    <3>4. y \in Nat /\ y < n /\ (r # rows - 1 => x + cols <= y)
      BY <1>1, <1>4, <3>2, <3>3, ProductGrows
    <3> HIDE DEF x, y
    <3> QED BY <1>1, <2>1, <3>4
  <2>3. r = rows - 1 => x < n
    BY <1>4
  <2>4. Length(r) = IF r = rows - 1 THEN n - x ELSE cols
    BY <2>1
  <2>5. Length(r) \in Nat \ {0} /\ Length(r) <= n - x
    <3> HIDE DEF x, Length
    <3> QED BY <1>1, <2>1, <2>2, <2>3, <2>4
  <2>6. Length(r) <= cols
    <3>1. r = rows - 1 => n - x <= cols
      <4>1. (rows - 1) + 1 = rows
        BY <1>1
      <4>2. r = rows - 1 => cols * rows = x + cols
        BY <1>1, <2>1, <4>1, ProductGrows
      <4> DEFINE y == cols * rows
      <4>3. y \in Nat /\ y >= n /\ (r = rows - 1 => y = x + cols)
        BY <1>1, <1>2, <4>2, ProductGrows
      <4> HIDE DEF x, y
      <4> QED BY <1>1, <2>1, <4>3
    <3> HIDE DEF x, Length
    <3> QED BY <1>1, <2>4, <3>1
  <2>7. ASSUME NEW c \in 1..Length(r) PROVE x + c \in 1..n /\ ((x + c) - 1) \div cols = r
    <3>1. x + c \in 1..n /\ c - 1 \in 0..(cols - 1) /\ (x + c) - 1 = x + (c - 1)
      <4> HIDE DEF x, Length
      <4> QED BY <1>1, <2>1, <2>5, <2>6
    <3>2. (cols * r + (c - 1)) \div cols = r
      BY <1>1, <2>1, <3>1, DivisionOnce
    <3> QED BY <3>1, <3>2
  <2> HIDE DEF Length
  <2> QED BY <2>1, <2>5, <2>7
<1> QED BY <1>1, <1>5, <1>6 DEF GridFits

LEMMA ChainLinks ==
  ASSUME NEW n \in Nat
  PROVE  /\ \A k \in 1..n : Link(k, n) \in Seq(Turn)
         /\ \A j, k \in 1..n : j # k =>
              \E i \in DOMAIN Link(j, n) : Parts(Link(j, n), Link(k, n), i)
         /\ \A k \in 1..n : \A i \in DOMAIN Link(k, n) :
              \E j \in 1..n : Parts(Link(k, n), Link(j, n), i)
BY ChainPaths DEF PathsFit

LEMMA TiledTree ==
  ASSUME NEW L, NEW ids \in Seq(L), \A j, k \in DOMAIN ids : ids[j] = ids[k] => j = k
  PROVE  TreeOK(Tiled(ids)) /\ Leaves(Tiled(ids)) = ToSet(ids)
PROOF
<1> DEFINE n == Len(ids)
           cols == CHOOSE c \in 1..n : c * c >= n /\ \A d \in 1..(c - 1) : d * d < n
           rows == (n + cols - 1) \div cols
           Length(r) == RowLength(n, cols, rows, r)
           PathOf(k) == LET r == (k - 1) \div cols
                        IN  Link(r + 1, rows) \o Link(k - r * cols, Length(r))
           path == [k \in 1..n |-> PathOf(k)]
           t == Placed(ids, path)
<1>1. n \in Nat /\ DOMAIN ids = 1..n
  OBVIOUS
<1>2. Tiled(ids) = t
  <2>1. ASSUME NEW p \in ToSet(ids) PROVE (CHOOSE k \in DOMAIN ids : ids[k] = p) \in 1..n
    BY <1>1, <2>1 DEF ToSet
  <2>2. Tiled(ids) = [p \in ToSet(ids) |-> PathOf(CHOOSE k \in DOMAIN ids : ids[k] = p)]
    BY DEF Tiled, RowLength
  <2>3. \A k \in 1..n : path[k] = PathOf(k)
    OBVIOUS
  <2> HIDE DEF path, PathOf
  <2> QED BY <2>1, <2>2, <2>3 DEF Placed
<1>3. CASE n = 0
  <2>1. ToSet(ids) = {}
    BY <1>1, <1>3 DEF ToSet
  <2>2. Leaves(t) = {}
    BY <2>1 DEF Leaves, Placed
  <2> HIDE DEF t
  <2>3. TreeOK(t)
    BY <2>2 DEF TreeOK, Separate, Binary
  <2> QED BY <1>2, <2>1, <2>2, <2>3
<1>4. CASE n # 0
  <2>1. cols \in 1..n
    <3> DEFINE C == {c \in 1..n : c * c >= n}
    <3>1. n * n >= n
      BY <1>4
    <3>2. C \in SUBSET Nat /\ n \in C
      BY <1>4, <3>1
    <3>3. PICK c \in C : \A d \in C : c <= d
      <4> HIDE DEF C
      <4> QED BY <3>2, LeastNatural
    <3>4. ASSUME NEW d \in 1..(c - 1) PROVE d * d < n
      <4>1. d \in 1..n /\ ~(c <= d)
        BY <3>3
      <4>2. ~(d * d >= n)
        BY <3>3, <4>1
      <4>3. d * d \in Nat
        BY <4>1, ProductGrows
      <4> DEFINE y == d * d
      <4> HIDE DEF y
      <4>4. y < n
        BY <4>2, <4>3 DEF y
      <4> QED BY <4>4 DEF y
    <3>5. c \in 1..n /\ c * c >= n
      BY <3>3
    <3> HIDE DEF C
    <3> QED BY <3>4, <3>5
  <2> HIDE DEF cols
  <2>2. /\ rows \in Nat
        /\ \A k \in 1..n : LET r == (k - 1) \div cols IN
             r \in 0..(rows - 1) /\ k - r * cols \in 1..Length(r)
        /\ \A r \in 0..(rows - 1) :
             /\ Length(r) \in Nat \ {0} /\ r * cols \in Nat
             /\ \A c \in 1..Length(r) :
                  /\ r * cols + c \in 1..n /\ ((r * cols + c) - 1) \div cols = r
    <3>1. n \in Nat \ {0} /\ rows = (n + cols - 1) \div cols
      BY <1>4
    <3> HIDE DEF rows, n
    <3>2. GridFits(n, cols, rows)
      BY <2>1, <3>1, Grid
    <3> QED BY <3>2 DEF GridFits
  <2> DEFINE Row(k) == (k - 1) \div cols
             Col(k) == k - Row(k) * cols
             Cell(r, c) == r * cols + c
             a(r) == Link(r + 1, rows)
             b(r, c) == Link(c, Length(r))
  <2>3. \A k \in 1..n : path[k] = a(Row(k)) \o b(Row(k), Col(k))
    BY DEF PathOf
  <2>4. \A k \in 1..n : Row(k) \in 0..(rows - 1) /\ Col(k) \in 1..Length(Row(k))
    BY <2>2
  <2>5. \A r \in 0..(rows - 1) : Length(r) \in Nat /\ 1 \in 1..Length(r)
    <3> HIDE DEF Length, rows
    <3> QED BY <2>2
  <2>6. ASSUME NEW r \in 0..(rows - 1), NEW c \in 1..Length(r)
        PROVE  Cell(r, c) \in 1..n /\ Row(Cell(r, c)) = r /\ Col(Cell(r, c)) = c
    <3>1. Cell(r, c) \in 1..n /\ Row(Cell(r, c)) = r /\ r * cols \in Nat /\ Length(r) \in Nat
      BY <2>2, <2>5
    <3> DEFINE x == r * cols
    <3>2. Cell(r, c) = x + c /\ Col(Cell(r, c)) = Cell(r, c) - x
      BY <3>1
    <3>3. x \in Nat /\ c \in Nat
      BY <3>1
    <3> HIDE DEF x, Col, Cell, Row, Length
    <3>4. Col(Cell(r, c)) = c
      BY <3>2, <3>3
    <3> QED BY <3>1, <3>4
  <2>7. ASSUME NEW j \in 1..n, NEW k \in 1..n, j # k
        PROVE  Row(j) # Row(k) \/ Col(j) # Col(k)
    <3> DEFINE x == Row(j) * cols
               y == Row(k) * cols
    <3>1. Col(j) = j - x /\ Col(k) = k - y /\ (Row(j) = Row(k) => x = y)
      OBVIOUS
    <3>2. x \in Nat
      BY <2>2, <2>4
    <3> HIDE DEF x, y, Row, Col
    <3> QED BY <2>7, <3>1, <3>2
  <2>8. \A r \in 0..(rows - 1) : r + 1 \in 1..rows /\ r \in Int
    <3> HIDE DEF rows
    <3> QED BY <2>2
  <2> HIDE DEF path, Row, Col, Cell, Length, rows
  <2>9. ASSUME NEW r \in 0..(rows - 1), NEW c \in 1..Length(r)
        PROVE  a(r) \in Seq(Turn) /\ b(r, c) \in Seq(Turn)
    BY <2>2, <2>5, <2>8, ChainLinks
  <2>10. ASSUME NEW j \in 1..n, NEW k \in 1..n, j # k
         PROVE  \E i \in DOMAIN path[j] : Parts(path[j], path[k], i)
    <3>1. /\ a(Row(j)) \in Seq(Turn) /\ b(Row(j), Col(j)) \in Seq(Turn)
          /\ a(Row(k)) \in Seq(Turn) /\ b(Row(k), Col(k)) \in Seq(Turn)
      BY <2>4, <2>9
    <3>2. CASE Row(j) # Row(k)
      <4>1. Row(j) + 1 \in 1..rows /\ Row(k) + 1 \in 1..rows /\ Row(j) + 1 # Row(k) + 1
        BY <2>4, <2>8, <3>2
      <4>2. PICK i \in DOMAIN a(Row(j)) : Parts(a(Row(j)), a(Row(k)), i)
        BY <2>2, <4>1, ChainLinks
      <4> DEFINE f == a(Row(j))
                 g == b(Row(j), Col(j))
                 x == a(Row(k))
                 y == b(Row(k), Col(k))
      <4>3. Parts(path[j], path[k], i)
        <5>1. path[j] = f \o g /\ path[k] = x \o y
          BY <2>3
        <5> HIDE DEF f, g, x, y
        <5>2. f \in Seq(Turn) /\ g \in Seq(Turn) /\ x \in Seq(Turn) /\ y \in Seq(Turn)
              /\ Parts(f, x, i)
          BY <3>1, <4>2 DEF f, g, x, y
        <5> QED BY <5>1, <5>2, ConcatParts
      <4> QED BY <4>3 DEF Parts
    <3>3. CASE Row(j) = Row(k)
      <4>1. Col(j) # Col(k) /\ Col(j) \in 1..Length(Row(j)) /\ Col(k) \in 1..Length(Row(j))
            /\ Length(Row(j)) \in Nat
        BY <2>4, <2>5, <2>7, <2>10, <3>3
      <4>2. PICK i : Parts(b(Row(j), Col(j)), b(Row(j), Col(k)), i)
        BY <4>1, ChainLinks
      <4>3. Parts(path[j], path[k], Len(a(Row(j))) + i)
        <5>1. path[j] = a(Row(j)) \o b(Row(j), Col(j)) /\ path[k] = a(Row(j)) \o b(Row(j), Col(k))
          BY <2>3, <3>3
        <5> HIDE DEF a, b
        <5> QED BY <3>1, <3>3, <4>2, <5>1, ConcatParts
      <4> QED BY <4>3 DEF Parts
    <3> QED BY <3>2, <3>3
  <2>11. ASSUME NEW k \in 1..n, NEW i \in DOMAIN path[k]
         PROVE  \E j \in 1..n : Parts(path[k], path[j], i)
    <3> DEFINE f == a(Row(k))
               g == b(Row(k), Col(k))
    <3>1. /\ f \in Seq(Turn) /\ g \in Seq(Turn)
          /\ path[k] = f \o g
      BY <2>3, <2>4, <2>9
    <3>2. i \in 1..Len(f) \/ \E m \in 1..Len(g) : i = Len(f) + m
      <4> HIDE DEF f, g
      <4>1. i \in 1..(Len(f) + Len(g)) /\ Len(f) \in Nat /\ Len(g) \in Nat
        BY <2>11, <3>1
      <4>2. i > Len(f) => i - Len(f) \in 1..Len(g) /\ i = Len(f) + (i - Len(f))
        BY <4>1
      <4>3. i <= Len(f) => i \in 1..Len(f)
        BY <4>1
      <4> QED BY <4>1, <4>2, <4>3
    <3>3. CASE i \in 1..Len(f)
      <4>1. i \in DOMAIN f /\ Row(k) + 1 \in 1..rows
        BY <2>4, <2>8, <3>1, <3>3
      <4>2. PICK s \in 1..rows : Parts(f, Link(s, rows), i)
        BY <2>2, <4>1, ChainLinks
      <4>3. s - 1 \in 0..(rows - 1) /\ (s - 1) + 1 = s
        BY <2>2
      <4> DEFINE r == s - 1
      <4>4. /\ Cell(r, 1) \in 1..n /\ path[Cell(r, 1)] = a(r) \o b(r, 1)
            /\ a(r) \in Seq(Turn) /\ b(r, 1) \in Seq(Turn) /\ a(r) = Link(s, rows)
        <5>1. r \in 0..(rows - 1) /\ 1 \in 1..Length(r)
          BY <2>5, <4>3
        <5>2. Cell(r, 1) \in 1..n /\ Row(Cell(r, 1)) = r /\ Col(Cell(r, 1)) = 1
          BY <2>6, <5>1
        <5>3. path[Cell(r, 1)] = a(r) \o b(r, 1)
          <6> HIDE DEF a, b, r
          <6> QED BY <2>3, <5>2
        <5>4. a(r) = Link(s, rows)
          BY <4>3
        <5> HIDE DEF r
        <5> QED BY <2>9, <5>1, <5>2, <5>3, <5>4
      <4>5. Parts(path[k], path[Cell(r, 1)], i)
        <5> HIDE DEF a, b, f, g, r
        <5> QED BY <3>1, <4>2, <4>4, ConcatParts
      <4> QED BY <4>4, <4>5
    <3>4. CASE \E m \in 1..Len(g) : i = Len(f) + m
      <4>1. PICK m \in 1..Len(g) : i = Len(f) + m
        BY <3>4
      <4>2. m \in DOMAIN g /\ Length(Row(k)) \in Nat /\ Col(k) \in 1..Length(Row(k))
            /\ Row(k) \in 0..(rows - 1)
        BY <2>4, <2>5, <3>1
      <4>3. PICK c \in 1..Length(Row(k)) : Parts(g, b(Row(k), c), m)
        BY <4>2, ChainLinks
      <4>4. /\ Cell(Row(k), c) \in 1..n /\ path[Cell(Row(k), c)] = f \o b(Row(k), c)
            /\ b(Row(k), c) \in Seq(Turn)
        BY <2>3, <2>6, <2>9, <4>2
      <4>5. Parts(path[k], path[Cell(Row(k), c)], i)
        <5> HIDE DEF a, b, f, g
        <5> QED BY <3>1, <4>1, <4>3, <4>4, ConcatParts
      <4> QED BY <4>4, <4>5
    <3> QED BY <3>2, <3>3, <3>4
  <2>12. ASSUME NEW k \in 1..n PROVE path[k] \in Seq(Turn)
    <3> DEFINE f == a(Row(k))
               g == b(Row(k), Col(k))
    <3>1. f \in Seq(Turn) /\ g \in Seq(Turn) /\ path[k] = f \o g
      BY <2>3, <2>4, <2>9
    <3> HIDE DEF f, g
    <3> QED BY <3>1
  <2>13. PathsFit(path, n)
    BY <2>10, <2>11, <2>12 DEF PathsFit
  <2> QED BY <1>2, <2>13, PlacedTree
<1> QED BY <1>3, <1>4

LEMMA ArrangeTree ==
  ASSUME NEW t, TreeOK(t), IsFiniteSet(Leaves(t)), NEW preset
  PROVE  /\ TreeOK(Arrange(Panes(t), preset))
         /\ Leaves(Arrange(Panes(t), preset)) = Leaves(t)
PROOF
<1> DEFINE n == Cardinality(Leaves(t))
           ids == Panes(t)
<1>1. /\ n \in Nat /\ ids \in [1..n -> Leaves(t)]
      /\ \A k \in 1..n : Rank(t, ids[k]) = k - 1
      /\ \A p \in Leaves(t) : Rank(t, p) + 1 \in 1..n /\ ids[Rank(t, p) + 1] = p
  BY PanesListLeaves
<1> HIDE DEF n, ids
<1>2. ids \in Seq(Leaves(t)) /\ DOMAIN ids = 1..n
  BY <1>1
<1>3. \A j, k \in DOMAIN ids : ids[j] = ids[k] => j = k
  BY <1>1, <1>2
<1>4. ToSet(ids) = Leaves(t)
  <2>1. ToSet(ids) = {ids[k] : k \in 1..n}
    BY <1>2 DEF ToSet
  <2> QED BY <1>1, <2>1
<1>5. TreeOK(Tiled(ids)) /\ Leaves(Tiled(ids)) = ToSet(ids)
  BY <1>2, <1>3, TiledTree
<1>6. TreeOK(Chained(ids)) /\ Leaves(Chained(ids)) = ToSet(ids)
  BY <1>2, <1>3, ChainedTree
<1> QED BY <1>4, <1>5, <1>6 DEF Arrange, ids

-----------------------------------------------------------------------------
(* A window's record fits when its tree is well formed and shows its panes, *)
(* and beyond them only leaves of G; when it has panes its focus is on a    *)
(* leaf and a zoom is on the focus.                                         *)
Fit(w, G) ==
  /\ w.panes \subseteq Leaves(w.tree) /\ Leaves(w.tree) \ w.panes \subseteq G
  /\ TreeOK(w.tree)
  /\ w.panes # {} => /\ w.active \in Leaves(w.tree)
                     /\ w.zoom # NoPane => w.zoom = w.active /\ w.zoom \in w.panes

(* The leaves without a pane: those of splits whose shell did not start. *)
Ghosts == {p \in PaneIds : SpawnFails /\ win[p] = NoWindow /\ p <= nextPaneID}

AllFit == \A w \in WindowIds : Fit(window[w], Ghosts)

LEMMA PanesAreFinite ==
  ASSUME NEW S \in SUBSET PaneIds
  PROVE  IsFiniteSet(S)
PROOF
<1>1. IsFiniteSet(PaneIds)
  BY SessionAssumption, FS_Interval DEF PaneIds
<1> QED BY <1>1, FS_Subset

LEMMA FitGrows ==
  ASSUME NEW w, NEW G, NEW H, G \subseteq H, Fit(w, G)
  PROVE  Fit(w, H)
BY DEF Fit

LEMMA FitFields ==
  ASSUME NEW t, NEW P, NEW a, NEW z, NEW G,
         P \subseteq Leaves(t), Leaves(t) \ P \subseteq G, TreeOK(t),
         P # {} => a \in Leaves(t) /\ (z # NoPane => z = a /\ z \in P)
  PROVE  Fit([tree |-> t, panes |-> P, active |-> a, zoom |-> z], G)
BY DEF Fit

LEMMA FitLeaves ==
  ASSUME NEW w, WindowOK(w), NEW G \in SUBSET PaneIds, Fit(w, G)
  PROVE  /\ IsFiniteSet(Leaves(w.tree)) /\ Leaves(w.tree) \subseteq PaneIds
         /\ TreeOK(w.tree) /\ w.panes \subseteq Leaves(w.tree) /\ NoPane \notin w.panes
PROOF
<1>1. w.panes \subseteq PaneIds /\ Leaves(w.tree) \subseteq w.panes \cup G
  BY DEF Fit, WindowOK
<1>2. NoPane \notin PaneIds
  BY SessionAssumption DEF PaneIds, NoPane
<1> QED BY <1>1, <1>2, PanesAreFinite DEF Fit

LEMMA FitExcept ==
  ASSUME NEW w, WindowOK(w), NEW G, Fit(w, G)
  PROVE  /\ \A a \in Leaves(w.tree) :
              w.zoom \in {NoPane, a} => Fit([w EXCEPT !.active = a], G)
         /\ Fit([w EXCEPT !.zoom = NoPane], G)
         /\ w.active \in w.panes => Fit([w EXCEPT !.zoom = w.active], G)
         /\ \A t : /\ TreeOK(t) /\ Leaves(t) = Leaves(w.tree)
                   => Fit([w EXCEPT !.tree = t], G)
PROOF
<1> DEFINE f == w.tree
           P == w.panes
           b == w.active
           y == w.zoom
<1>1. /\ P \subseteq Leaves(f) /\ Leaves(f) \ P \subseteq G /\ TreeOK(f)
      /\ P # {} => b \in Leaves(f) /\ (y # NoPane => y = b /\ y \in P)
  BY DEF Fit
<1>2. \A t, a, z :
        /\ [w EXCEPT !.active = a] = [tree |-> f, panes |-> P, active |-> a, zoom |-> y]
        /\ [w EXCEPT !.zoom = z] = [tree |-> f, panes |-> P, active |-> b, zoom |-> z]
        /\ [w EXCEPT !.tree = t] = [tree |-> t, panes |-> P, active |-> b, zoom |-> y]
  BY ExceptFields, Zenon
<1>3. [w EXCEPT !.zoom = w.active] = [tree |-> f, panes |-> P, active |-> b, zoom |-> b]
  BY <1>2, Zenon
<1> HIDE DEF f, P, b, y
<1>4. ASSUME NEW a \in Leaves(f), y \in {NoPane, a}
      PROVE  Fit([w EXCEPT !.active = a], G)
  <2>1. Fit([tree |-> f, panes |-> P, active |-> a, zoom |-> y], G)
    BY <1>1, <1>4, FitFields
  <2> QED BY <1>2, <2>1, Zenon
<1>5. Fit([w EXCEPT !.zoom = NoPane], G)
  <2>1. Fit([tree |-> f, panes |-> P, active |-> b, zoom |-> NoPane], G)
    BY <1>1, FitFields
  <2> QED BY <1>2, <2>1, Zenon
<1>6. ASSUME b \in P PROVE Fit([w EXCEPT !.zoom = w.active], G)
  <2>1. Fit([tree |-> f, panes |-> P, active |-> b, zoom |-> b], G)
    BY <1>1, <1>6, FitFields
  <2> QED BY <1>3, <2>1, Zenon
<1>7. ASSUME NEW t, TreeOK(t), Leaves(t) = Leaves(f)
      PROVE  Fit([w EXCEPT !.tree = t], G)
  <2>1. Fit([tree |-> t, panes |-> P, active |-> b, zoom |-> y], G)
    BY <1>1, <1>7, FitFields
  <2> QED BY <1>2, <2>1, Zenon
<1> QED BY <1>4, <1>5, <1>6, <1>7 DEF f, P, b, y

(* What a change of the zoom leaves of a window. *)
LEMMA ZoomFields ==
  ASSUME NEW w, WindowOK(w), NEW z
  PROVE  LET v == [w EXCEPT !.zoom = z] IN
         /\ WindowOK(v) /\ v.panes = w.panes /\ v.zoom = z
         /\ v.tree = w.tree /\ v.active = w.active
         /\ [v EXCEPT !.zoom = NoPane] = [w EXCEPT !.zoom = NoPane]
PROOF
<1> DEFINE f == w.tree
           P == w.panes
           b == w.active
           v == [w EXCEPT !.zoom = z]
<1>1. WindowOK(v)
  BY ExceptKeepsPanes, Zenon
<1>2. v = [tree |-> f, panes |-> P, active |-> b, zoom |-> z]
  BY ExceptFields, Zenon
<1>3. [w EXCEPT !.zoom = NoPane] = [tree |-> f, panes |-> P, active |-> b, zoom |-> NoPane]
  BY ExceptFields, Zenon
<1> HIDE DEF v, f, P, b
<1>4. v.tree = f /\ v.panes = P /\ v.active = b /\ v.zoom = z
  BY <1>2
<1>5. [v EXCEPT !.zoom = NoPane] = [tree |-> f, panes |-> P, active |-> b, zoom |-> NoPane]
  BY <1>2
<1> QED BY <1>1, <1>3, <1>4, <1>5 DEF v, f, P, b

LEMMA UnzoomFits ==
  ASSUME NEW w, WindowOK(w), NEW G, Fit(w, G)
  PROVE  /\ Fit(unzoom(w), G) /\ WindowOK(unzoom(w)) /\ unzoom(w).zoom = NoPane
         /\ unzoom(w).tree = w.tree /\ unzoom(w).active = w.active /\ unzoom(w).panes = w.panes
PROOF
<1> DEFINE v == [w EXCEPT !.zoom = NoPane]
<1>1. Fit(v, G)
  BY FitExcept, Zenon
<1>2. /\ WindowOK(v) /\ v.panes = w.panes /\ v.zoom = NoPane
      /\ v.tree = w.tree /\ v.active = w.active
  BY ZoomFields, Zenon
<1>3. unzoom(w) = v
  BY DEF unzoom
<1> HIDE DEF v
<1> QED BY <1>1, <1>2, <1>3

LEMMA RearrangingFits ==
  ASSUME NEW w, WindowOK(w), NEW G \in SUBSET PaneIds, Fit(w, G), w.panes # {}
  PROVE  /\ \A delta \in {-1, 1} : Fit(swapActive(w, delta), G)
         /\ \A delta \in {-1, 1} : Fit(focus(unzoom(w), delta), G)
         /\ \A p \in Leaves(w.tree) : Fit([unzoom(w) EXCEPT !.active = p], G)
         /\ Fit(toggleZoom(w), G)
         /\ \A preset : Fit(selectLayout(w, preset), G)
PROOF
<1>1. /\ IsFiniteSet(Leaves(w.tree)) /\ TreeOK(w.tree) /\ w.active \in Leaves(w.tree)
      /\ NoPane \notin w.panes
  BY FitLeaves DEF Fit
<1> DEFINE u == unzoom(w)
<1>2. /\ Fit(u, G) /\ WindowOK(u) /\ u.zoom = NoPane
      /\ u.tree = w.tree /\ u.active = w.active /\ u.panes = w.panes
  BY UnzoomFits
<1> HIDE DEF u
<1>3. ASSUME NEW delta \in {-1, 1} PROVE Neighbor(w.tree, w.active, delta) \in Leaves(w.tree)
  <2>1. delta \in Int
    OBVIOUS
  <2> QED BY <1>1, <2>1, NeighborIsLeaf
<1>4. ASSUME NEW delta \in {-1, 1} PROVE Fit(swapActive(w, delta), G)
  <2> DEFINE other == Neighbor(w.tree, w.active, delta)
             t == SwapPanes(w.tree, w.active, other)
  <2>1. TreeOK(t) /\ Leaves(t) = Leaves(w.tree)
    BY <1>1, <1>3, SwapPanesTree
  <2>2. swapActive(w, delta) = IF other = w.active THEN w ELSE [u EXCEPT !.tree = t]
    BY DEF swapActive, u
  <2> HIDE DEF t
  <2>3. Fit([u EXCEPT !.tree = t], G)
    BY <1>2, <2>1, FitExcept
  <2> QED BY <2>2, <2>3
<1>5. ASSUME NEW p \in Leaves(w.tree) PROVE Fit([u EXCEPT !.active = p], G)
  BY <1>2, FitExcept
<1>6. ASSUME NEW delta \in {-1, 1} PROVE Fit(focus(u, delta), G)
  BY <1>2, <1>3, <1>5 DEF focus
<1>7. Fit(toggleZoom(w), G)
  <2> DEFINE on == w.zoom = NoPane /\ Cardinality(w.panes) > 1
             z == IF on THEN w.active ELSE NoPane
             v == [w EXCEPT !.zoom = z]
  <2>1. toggleZoom(w) = applyLayout(v)
    BY DEF toggleZoom
  <2>2. /\ WindowOK(v) /\ v.panes = w.panes /\ v.zoom = z
        /\ [v EXCEPT !.zoom = NoPane] = [w EXCEPT !.zoom = NoPane]
    <3> HIDE DEF z
    <3> QED BY ZoomFields, Zenon
  <2>3. /\ Fit([w EXCEPT !.zoom = NoPane], G)
        /\ w.active \in w.panes => Fit([w EXCEPT !.zoom = w.active], G)
    BY FitExcept, Zenon
  <2>4. on => v = [w EXCEPT !.zoom = w.active]
    BY Zenon
  <2> HIDE DEF v, on
  <2> QED BY <1>1, <2>1, <2>2, <2>3, <2>4 DEF applyLayout
<1>8. ASSUME NEW preset PROVE Fit(selectLayout(w, preset), G)
  <2> DEFINE t == Arrange(Panes(w.tree), preset)
  <2>1. TreeOK(t) /\ Leaves(t) = Leaves(w.tree)
    BY <1>1, ArrangeTree
  <2>2. selectLayout(w, preset) = [u EXCEPT !.tree = t]
    BY DEF selectLayout, u
  <2> HIDE DEF t
  <2>3. Leaves(t) = Leaves(u.tree)
    BY <1>2, <2>1
  <2>4. Fit([u EXCEPT !.tree = t], G)
    BY <1>2, <2>1, <2>3, FitExcept, Zenon
  <2> QED BY <2>2, <2>4
<1> QED BY <1>4, <1>5, <1>6, <1>7, <1>8 DEF u

LEMMA ResizingFits ==
  ASSUME NEW w, WindowOK(w), NEW G \in SUBSET PaneIds, Fit(w, G), w.panes # {}
  PROVE  /\ \A p \in PaneIds \ Leaves(w.tree) : Fit(split(w, p), G)
         /\ \A p \in PaneIds \ Leaves(w.tree) : Fit(splitUnspawned(w, p), G \cup {p})
         /\ \A p \in w.panes : w.panes # {p} =>
              Fit(detachPane(w, p), G) /\ Fit(removePane(w, p), G)
PROOF
<1>1. /\ IsFiniteSet(Leaves(w.tree)) /\ TreeOK(w.tree) /\ w.active \in Leaves(w.tree)
      /\ NoPane \notin w.panes /\ w.panes \subseteq Leaves(w.tree)
      /\ Leaves(w.tree) \ w.panes \subseteq G
      /\ w.zoom # NoPane => w.zoom = w.active /\ w.zoom \in w.panes
  BY FitLeaves DEF Fit
<1>2. ASSUME NEW p \in PaneIds \ Leaves(w.tree)
      PROVE  Fit(split(w, p), G) /\ Fit(splitUnspawned(w, p), G \cup {p})
  <2> DEFINE t == Split(w.tree, w.active, p)
  <2>1. TreeOK(t) /\ Leaves(t) = Leaves(w.tree) \cup {p}
    BY <1>1, SplitTreeOK
  <2>2. split(w, p) = [tree |-> t, panes |-> w.panes \cup {p}, active |-> p, zoom |-> NoPane]
    BY DEF split
  <2>3. splitUnspawned(w, p) =
          [tree |-> t, panes |-> w.panes, active |-> w.active, zoom |-> w.zoom]
    BY ExceptFields DEF splitUnspawned
  <2> HIDE DEF t
  <2>4. Fit(split(w, p), G)
    BY <1>1, <2>1, <2>2, FitFields
  <2>5. Fit(splitUnspawned(w, p), G \cup {p})
    BY <1>1, <2>1, <2>3, FitFields
  <2> QED BY <2>4, <2>5
<1>3. ASSUME NEW p \in w.panes, w.panes # {p}
      PROVE  Fit(detachPane(w, p), G) /\ Fit(removePane(w, p), G)
  <2> DEFINE t == RemoveLeaf(w.tree, p)
             P == w.panes \ {p}
             a == IF w.active = p THEN FocusAfter(w.tree, p) ELSE w.active
  <2>1. p \in Leaves(w.tree) /\ Leaves(w.tree) # {p} /\ P # {}
    BY <1>1, <1>3
  <2>2. TreeOK(t) /\ Leaves(t) = Leaves(w.tree) \ {p}
    BY <1>1, <2>1, RemoveLeafTree
  <2>3. a \in Leaves(w.tree) \ {p} /\ (w.active # p => a = w.active)
    BY <1>1, <2>1, FocusAfterStays
  <2>4. fold(w, p) = [tree |-> t, panes |-> P, active |-> a, zoom |-> w.zoom]
    BY DEF fold
  <2>5. WindowOK(fold(w, p)) /\ fold(w, p).panes = P /\ fold(w, p).zoom = w.zoom
    <3>1. P \subseteq PaneIds
      BY DEF WindowOK
    <3> HIDE DEF t, P, a
    <3> QED BY <2>4, <3>1, RecordOK
  <2>6. [fold(w, p) EXCEPT !.zoom = NoPane] =
          [tree |-> t, panes |-> P, active |-> a, zoom |-> NoPane]
    <3> HIDE DEF t, P, a
    <3> QED BY <2>4
  <2>7. P \subseteq Leaves(t) /\ Leaves(t) \ P \subseteq G
    <3> HIDE DEF t
    <3> QED BY <1>1, <2>2
  <2> HIDE DEF t, P, a
  <2>8. Fit([tree |-> t, panes |-> P, active |-> a, zoom |-> NoPane], G)
    BY <2>2, <2>3, <2>7, FitFields
  <2>9. Fit(detachPane(w, p), G)
    BY <2>6, <2>8 DEF detachPane, unzoom
  <2>10. w.zoom \in P => Fit(fold(w, p), G)
    <3>1. ASSUME w.zoom \in P PROVE w.zoom = a
      BY <1>1, <2>3, <3>1 DEF P
    <3> QED BY <2>2, <2>3, <2>4, <2>7, <3>1, FitFields
  <2>11. removePane(w, p) = applyLayout(fold(w, p))
    BY <1>3 DEF removePane
  <2>12. Fit(removePane(w, p), G)
    BY <2>5, <2>6, <2>8, <2>10, <2>11 DEF applyLayout
  <2> QED BY <2>9, <2>12
<1> QED BY <1>2, <1>3

LEMMA ClosedFits ==
  ASSUME NEW w, NEW G
  PROVE  Fit(closeAll(w), G)
PROOF
<1>1. TreeOK(NoTree) /\ Leaves(NoTree) = {}
  BY NoTreeTree
<1> QED BY <1>1, FitFields DEF closeAll

LEMMA WrappedFits ==
  ASSUME NEW p, NEW G
  PROVE  Fit(wrapWindow(p), G)
PROOF
<1>1. TreeOK(NewLeaf(p)) /\ Leaves(NewLeaf(p)) = {p}
  BY NewLeafTree
<1> QED BY <1>1, FitFields DEF wrapWindow

-----------------------------------------------------------------------------
(* Steps. *)
LEMMA GhostsAre ==
  ASSUME IInv
  PROVE  /\ Ghosts \in SUBSET PaneIds
         /\ \A w \in WindowIds : \A p \in window[w].panes : p \notin Ghosts /\ p \in PaneIds
         /\ \A p \in Ghosts : p <= nextPaneID
PROOF
<1>1. NoWindow \notin WindowIds
  BY SessionAssumption DEF NoWindow, WindowIds
<1>2. RoutedHome /\ LayoutType
  BY TypeParts DEF IInv
<1> QED BY <1>1, <1>2 DEF Ghosts, RoutedHome, LayoutType, WindowOK

(* Ghosts stay ghosts: a step gives a window only to a pane that has, or   *)
(* never had, one.                                                         *)
LEMMA GhostsStay ==
  ASSUME IInv, nextPaneID' \in Int, nextPaneID' >= nextPaneID,
         NEW p, p \notin Ghosts,
         \/ UNCHANGED win
         \/ \E w : win' = [win EXCEPT ![p] = w]
  PROVE  Ghosts \subseteq Ghosts'
PROOF
<1>1. nextPaneID \in Int /\ PaneIds \subseteq Int /\ win \in [PaneIds -> WindowIds \cup {NoWindow}]
  BY IdTypes, TypeParts DEF IInv, PaneType
<1>2. ASSUME NEW q \in Ghosts
      PROVE  q \in PaneIds /\ SpawnFails /\ win'[q] = NoWindow /\ q <= nextPaneID'
  <2>1. q \in PaneIds /\ SpawnFails /\ win[q] = NoWindow /\ q <= nextPaneID /\ q # p
    BY DEF Ghosts
  <2>2. win'[q] = win[q]
    BY <1>1, <2>1
  <2> QED BY <1>1, <2>1, <2>2
<1> QED BY <1>2 DEF Ghosts

LEMMA FitInit == Init => AllFit
PROOF
<1> SUFFICES ASSUME Init, NEW w \in WindowIds PROVE Fit(window[w], Ghosts)
  BY DEF AllFit
<1>1. window[w] = IF w = 0 THEN wrapWindow(1) ELSE Unused
  BY DEF Init
<1>2. Fit(wrapWindow(1), Ghosts)
  BY WrappedFits
<1>3. Fit(Unused, Ghosts)
  <2>1. TreeOK(NoTree) /\ Leaves(NoTree) = {}
    BY NoTreeTree
  <2> QED BY <2>1, FitFields DEF Unused
<1> QED BY <1>1, <1>2, <1>3

(* A step that leaves the layout and the routing alone. *)
LEMMA FitQuiet ==
  ASSUME IInv, AllFit, UNCHANGED <<window, win>>,
         nextPaneID' \in Int, nextPaneID' >= nextPaneID
  PROVE  AllFit'
PROOF
<1>1. \E p : p \notin Ghosts
  <2>1. nextPaneID \in Int /\ nextPaneID + 1 \notin Ghosts
    BY IdTypes DEF Ghosts
  <2> QED BY <2>1
<1>2. Ghosts \subseteq Ghosts'
  BY <1>1, GhostsStay
<1> QED BY <1>2, FitGrows DEF AllFit

(* A step that gives window a another record and changes nothing else of   *)
(* the layout, but for pane p, which may be given a window.                *)
LEMMA FitOne ==
  ASSUME IInv, AllFit, NEW a \in WindowIds, NEW r, window' = [window EXCEPT ![a] = r],
         nextPaneID' \in Int, nextPaneID' >= nextPaneID, NEW p, p \notin Ghosts,
         UNCHANGED win \/ \E w : win' = [win EXCEPT ![p] = w],
         Fit(r, Ghosts')
  PROVE  AllFit'
PROOF
<1>1. window = [w \in WindowIds |-> window[w]]
  BY TypeParts DEF IInv, LayoutType
<1>2. window'[a] = r /\ \A w \in WindowIds \ {a} : window'[w] = window[w]
  BY <1>1
<1>3. Ghosts \subseteq Ghosts'
  BY GhostsStay
<1>4. ASSUME NEW w \in WindowIds PROVE Fit(window'[w], Ghosts')
  <2>1. Fit(window[w], Ghosts')
    BY <1>3, FitGrows DEF AllFit
  <2> QED BY <1>2, <2>1
<1> QED BY <1>4 DEF AllFit

LEMMA FitSpawn == IInv /\ AllFit /\ spawnWindow => AllFit'
PROOF
<1> SUFFICES ASSUME IInv, AllFit, spawnWindow PROVE AllFit'
  OBVIOUS
<1> DEFINE p == nextPaneID'
           w == nextWindowID
<1>1. takePane /\ takeWindow
  BY DEF spawnWindow
<1>2. /\ p \in PaneIds /\ p \in Int /\ p > nextPaneID /\ nextPaneID \in Int
  BY <1>1, FreshPane, IdTypes
<1>3. w \in WindowIds
  BY <1>1, FreshWindow
<1>4. p \notin Ghosts /\ p >= nextPaneID
  BY <1>2, GhostsAre
<1>5. CASE Started(p, w) /\ window' = [window EXCEPT ![w] = wrapWindow(p)]
  <2>1. Fit(wrapWindow(p), Ghosts')
    BY WrappedFits
  <2>2. \E v : win' = [win EXCEPT ![p] = v]
    BY <1>5 DEF Started
  <2> QED BY <1>2, <1>3, <1>4, <1>5, <2>1, <2>2, FitOne
<1>6. CASE UNCHANGED <<paneVars, layoutVars>>
  BY <1>2, <1>4, <1>6, FitQuiet DEF paneVars, layoutVars
<1> QED BY <1>5, <1>6 DEF spawnWindow

(* The current window, and any listed one, fits and has panes. *)
LEMMA ListedFits ==
  ASSUME IInv, AllFit, NEW w \in Listed
  PROVE  /\ w \in WindowIds /\ WindowOK(window[w]) /\ Fit(window[w], Ghosts)
         /\ window[w].panes # {} /\ Leaves(window[w].tree) \subseteq PaneIds
PROOF
<1>1. w \in WindowIds /\ WindowOK(window[w]) /\ window[w].panes # {}
  BY TypeParts, SequenceRange DEF IInv, LayoutType, Listing, Listed
<1>2. Fit(window[w], Ghosts)
  BY <1>1 DEF AllFit
<1> QED BY <1>1, <1>2, GhostsAre, FitLeaves

LEMMA FitSplit == IInv /\ AllFit /\ cmdSplitWindow => AllFit'
PROOF
<1> SUFFICES ASSUME IInv, AllFit, cmdSplitWindow PROVE AllFit'
  OBVIOUS
<1> DEFINE p == nextPaneID'
           a == CurrentId
<1>1. takePane /\ HasWindow
  BY DEF cmdSplitWindow
<1>2. /\ p \in PaneIds /\ p \in Int /\ p > nextPaneID /\ nextPaneID \in Int
      /\ \A v \in WindowIds : p \notin window[v].panes
  BY <1>1, FreshPane, IdTypes
<1>3. p \notin Ghosts /\ p >= nextPaneID
  BY <1>2, GhostsAre
<1>4. /\ a \in WindowIds /\ WindowOK(Current) /\ Fit(Current, Ghosts) /\ Current.panes # {}
      /\ Current = window[a]
  BY <1>1, CurrentListed, ListedFits DEF Current
<1>5. p \in PaneIds \ Leaves(Current.tree)
  BY <1>2, <1>3, <1>4 DEF Fit
<1>6. Ghosts \in SUBSET PaneIds
  BY GhostsAre
<1>7. Fit(split(Current, p), Ghosts) /\ Fit(splitUnspawned(Current, p), Ghosts \cup {p})
  BY <1>4, <1>5, <1>6, ResizingFits
<1>8. CASE SetCurrent(split(Current, p)) /\ Started(p, a)
  <2>1. \E v : win' = [win EXCEPT ![p] = v]
    BY <1>8 DEF Started
  <2>2. Ghosts \subseteq Ghosts'
    BY <1>2, <1>3, <2>1, GhostsStay
  <2>3. Fit(split(Current, p), Ghosts')
    BY <1>7, <2>2, FitGrows
  <2>4. window' = [window EXCEPT ![a] = split(Current, p)]
    BY <1>8 DEF SetCurrent
  <2> QED BY <1>2, <1>3, <1>4, <2>1, <2>3, <2>4, FitOne
<1>9. CASE UNCHANGED <<layoutVars, paneVars>>
  BY <1>2, <1>3, <1>9, FitQuiet DEF paneVars, layoutVars
<1>10. CASE SpawnFails /\ SetCurrent(splitUnspawned(Current, p)) /\ UNCHANGED paneVars
  <2>1. UNCHANGED win
    BY <1>10 DEF paneVars
  <2>2. Ghosts \subseteq Ghosts'
    BY <1>2, <1>3, <2>1, GhostsStay
  <2>3. win[p] = NoWindow
    BY <1>2 DEF IInv, FreshIds
  <2>4. p \in Ghosts'
    BY <1>2, <1>10, <2>1, <2>3 DEF Ghosts
  <2>5. Fit(splitUnspawned(Current, p), Ghosts')
    BY <1>7, <2>2, <2>4, FitGrows
  <2>6. window' = [window EXCEPT ![a] = splitUnspawned(Current, p)]
    BY <1>10 DEF SetCurrent
  <2> QED BY <1>2, <1>3, <1>4, <2>1, <2>5, <2>6, FitOne
<1> QED BY <1>8, <1>9, <1>10 DEF cmdSplitWindow

LEMMA FitRearranged ==
  ASSUME IInv, AllFit, HasWindow, NEW r, Rearranged(r), Fit(r, Ghosts)
  PROVE  AllFit'
PROOF
<1>1. /\ window' = [window EXCEPT ![CurrentId] = r] /\ UNCHANGED <<win, nextPaneID>>
  BY DEF Rearranged, SetCurrent, paneVars, idVars
<1>2. CurrentId \in WindowIds /\ nextPaneID \in Int
  BY CurrentListed, IdTypes
<1>3. Ghosts' = Ghosts
  BY <1>1 DEF Ghosts
<1>4. nextPaneID + 1 \notin Ghosts
  BY <1>2 DEF Ghosts
<1>5. nextPaneID' \in Int /\ nextPaneID' >= nextPaneID
  BY <1>1, <1>2
<1> QED BY <1>1, <1>2, <1>3, <1>4, <1>5, FitOne

LEMMA FitRearrange == IInv /\ AllFit /\ RearrangeCommand => AllFit'
PROOF
<1> SUFFICES ASSUME IInv, AllFit, RearrangeCommand PROVE AllFit'
  OBVIOUS
<1>1. HasWindow
  BY DEF RearrangeCommand, cmdSwapPane, cyclePane, cmdSelectPane, toggleZoomCmd,
         cmdSelectLayout, mouseFocus
<1>2. /\ WindowOK(Current) /\ Fit(Current, Ghosts) /\ Current.panes # {}
      /\ Ghosts \in SUBSET PaneIds
  BY <1>1, CurrentListed, ListedFits, GhostsAre DEF Current
<1>3. /\ \A delta \in {-1, 1} : Fit(swapActive(Current, delta), Ghosts)
      /\ \A delta \in {-1, 1} : Fit(focus(unzoom(Current), delta), Ghosts)
      /\ \A p \in Leaves(Current.tree) : Fit([unzoom(Current) EXCEPT !.active = p], Ghosts)
      /\ Fit(toggleZoom(Current), Ghosts)
      /\ \A preset : Fit(selectLayout(Current, preset), Ghosts)
  BY <1>2, RearrangingFits
<1>4. \A p \in Leaves(Current.tree) :
        Current.zoom \in {NoPane, p} => Fit([Current EXCEPT !.active = p], Ghosts)
  BY <1>2, FitExcept
<1>5. \E r : Rearranged(r) /\ Fit(r, Ghosts)
  BY <1>3, <1>4 DEF RearrangeCommand, cmdSwapPane, cyclePane, cmdSelectPane, toggleZoomCmd,
         cmdSelectLayout, mouseFocus
<1> QED BY <1>1, <1>5, FitRearranged

LEMMA FitKillWindow == IInv /\ AllFit /\ cmdKillWindow => AllFit'
PROOF
<1> SUFFICES ASSUME IInv, AllFit, cmdKillWindow PROVE AllFit'
  OBVIOUS
<1>1. /\ HasWindow /\ window' = [window EXCEPT ![CurrentId] = closeAll(Current)]
      /\ UNCHANGED <<win, nextPaneID>>
  BY DEF cmdKillWindow, Close, idVars
<1>2. CurrentId \in WindowIds /\ nextPaneID \in Int /\ nextPaneID + 1 \notin Ghosts
  BY <1>1, CurrentListed, IdTypes DEF Ghosts
<1>3. nextPaneID' \in Int /\ nextPaneID' >= nextPaneID
  BY <1>1, <1>2
<1>4. Fit(closeAll(Current), Ghosts')
  BY ClosedFits
<1> QED BY <1>1, <1>2, <1>3, <1>4, FitOne

(* Moving pane p from window a to window b. *)
LEMMA FitMove ==
  ASSUME IInv, AllFit, NEW a \in WindowIds, NEW b \in WindowIds, a # b, NEW ra, NEW rb,
         \/ window' = [window EXCEPT ![a] = ra, ![b] = rb]
         \/ window' = [window EXCEPT ![b] = rb, ![a] = ra],
         NEW p \in window[a].panes, moveTo(p, b), UNCHANGED nextPaneID,
         Fit(ra, Ghosts), Fit(rb, Ghosts)
  PROVE  AllFit'
PROOF
<1>1. window = [w \in WindowIds |-> window[w]]
  BY TypeParts DEF IInv, LayoutType
<1>2. /\ window'[a] = ra /\ window'[b] = rb
      /\ \A w \in WindowIds \ {a, b} : window'[w] = window[w]
  BY <1>1
<1>3. Ghosts \subseteq Ghosts'
  <2>1. p \notin Ghosts /\ \E w : win' = [win EXCEPT ![p] = w]
    BY GhostsAre DEF moveTo
  <2>2. nextPaneID' \in Int /\ nextPaneID' >= nextPaneID
    BY IdTypes
  <2> QED BY <2>1, <2>2, GhostsStay
<1>4. ASSUME NEW w \in WindowIds PROVE Fit(window'[w], Ghosts')
  <2>1. Fit(window[w], Ghosts') /\ Fit(ra, Ghosts') /\ Fit(rb, Ghosts')
    BY <1>3, FitGrows DEF AllFit
  <2> QED BY <1>2, <2>1
<1> QED BY <1>4 DEF AllFit

LEMMA FitBreak == IInv /\ AllFit /\ breakPane => AllFit'
PROOF
<1> SUFFICES ASSUME IInv, AllFit, breakPane PROVE AllFit'
  OBVIOUS
<1> DEFINE a == CurrentId
           b == nextWindowID
           p == Current.active
<1>1. /\ HasWindow /\ takeWindow /\ UNCHANGED nextPaneID /\ moveTo(p, b)
      /\ p \in Current.panes /\ Current.panes # {p}
      /\ window' = [window EXCEPT ![a] = detachPane(Current, p), ![b] = wrapWindow(p)]
  BY DEF breakPane
<1>2. /\ a \in Listed /\ a \in WindowIds /\ WindowOK(Current) /\ Fit(Current, Ghosts)
      /\ Current = window[a] /\ Ghosts \in SUBSET PaneIds
  BY <1>1, CurrentListed, ListedFits, GhostsAre DEF Current
<1>3. b \in WindowIds /\ a # b
  BY <1>1, <1>2, FreshWindow
<1>4. Fit(detachPane(Current, p), Ghosts) /\ Fit(wrapWindow(p), Ghosts)
  BY <1>1, <1>2, ResizingFits, WrappedFits
<1> HIDE DEF a, b, p
<1> QED BY <1>1, <1>2, <1>3, <1>4, FitMove

LEMMA FitJoin == IInv /\ AllFit /\ joinPane => AllFit'
PROOF
<1> SUFFICES ASSUME IInv, AllFit, joinPane PROVE AllFit'
  OBVIOUS
<1> DEFINE b == CurrentId
<1>1. HasWindow /\ UNCHANGED nextPaneID
  BY DEF joinPane, idVars
<1>2. /\ b \in WindowIds /\ WindowOK(window[b]) /\ Fit(window[b], Ghosts)
      /\ window[b].panes # {} /\ Ghosts \in SUBSET PaneIds
  BY <1>1, CurrentListed, ListedFits, GhostsAre
<1>3. PICK i \in DOMAIN windows :
        LET a == windows[i]
            p == window[a].active
            last == window[a].panes = {p}
        IN  /\ a # b
            /\ p \in window[a].panes
            /\ window' = [window EXCEPT
                 ![b] = adoptPane(window[b], p),
                 ![a] = IF last THEN closeAll(window[a]) ELSE detachPane(window[a], p)]
            /\ moveTo(p, b)
  BY <1>2 DEF joinPane
<1> DEFINE a == windows[i]
           p == window[a].active
           last == window[a].panes = {p}
           ra == IF last THEN closeAll(window[a]) ELSE detachPane(window[a], p)
           rb == adoptPane(window[b], p)
<1>4. /\ a # b /\ p \in window[a].panes /\ moveTo(p, b)
      /\ window' = [window EXCEPT ![b] = rb, ![a] = ra]
  BY <1>3
<1>5. /\ a \in WindowIds /\ WindowOK(window[a]) /\ Fit(window[a], Ghosts)
  <2>1. a \in Listed
    BY DEF Listed, ToSet
  <2> QED BY <2>1, ListedFits
<1>6. p \in PaneIds \ Leaves(window[b].tree)
  <2>1. p \in PaneIds /\ p \notin Ghosts
    BY <1>4, <1>5, GhostsAre
  <2>2. p \notin window[b].panes
    BY <1>2, <1>4, <1>5 DEF IInv, RoutedHome
  <2> QED BY <1>2, <2>1, <2>2 DEF Fit
<1>7. Fit(rb, Ghosts)
  BY <1>2, <1>6, ResizingFits DEF adoptPane
<1>8. Fit(ra, Ghosts)
  <2>1. Fit(closeAll(window[a]), Ghosts)
    BY ClosedFits
  <2>2. ~last => Fit(detachPane(window[a], p), Ghosts)
    BY <1>2, <1>4, <1>5, ResizingFits
  <2> QED BY <2>1, <2>2
<1> HIDE DEF a, b, p, ra, rb
<1> QED BY <1>1, <1>2, <1>4, <1>5, <1>7, <1>8, FitMove

(* The reaper's window of the pane it takes, and the record it leaves. *)
LEMMA ReapedWindow ==
  ASSUME IInv, reapOne
  PROVE  LET p == Head(paneExit) IN
         /\ p \in PaneIds /\ win[p] \in WindowIds /\ WindowOK(window[win[p]])
         /\ window' = [window EXCEPT ![win[p]] = removePane(window[win[p]], p)]
PROOF
<1> DEFINE p == Head(paneExit)
<1>1. LayoutType /\ ReapType /\ Reported
  BY TypeParts DEF IInv
<1>2. paneExit \in Seq(PaneIds) /\ paneExit # <<>>
  BY <1>1 DEF reapOne, ReapType
<1>3. p \in PaneIds /\ p = paneExit[1] /\ 1 \in DOMAIN paneExit
  BY <1>2
<1>4. win[p] \in WindowIds
  BY <1>1, <1>3 DEF Reported
<1> QED BY <1>1, <1>3, <1>4 DEF reapOne, LayoutType

LEMMA FitReap == IInv /\ AllFit /\ reapOne => AllFit'
PROOF
<1> SUFFICES ASSUME IInv, AllFit, reapOne PROVE AllFit'
  OBVIOUS
<1> DEFINE p == Head(paneExit)
           a == win[p]
           r == removePane(window[a], p)
<1>1. /\ p \in PaneIds /\ a \in WindowIds /\ WindowOK(window[a])
      /\ window' = [window EXCEPT ![a] = r]
  BY ReapedWindow
<1>2. UNCHANGED <<win, nextPaneID>>
  BY DEF reapOne, Close, paneVars, idVars
<1>3. nextPaneID \in Int /\ nextPaneID + 1 \notin Ghosts
  BY IdTypes DEF Ghosts
<1>4. nextPaneID' \in Int /\ nextPaneID' >= nextPaneID
  BY <1>2, <1>3
<1>5. Fit(window[a], Ghosts) /\ Ghosts \in SUBSET PaneIds
  BY <1>1, GhostsAre DEF AllFit
<1>6. Fit(r, Ghosts)
  <2>1. CASE p \notin window[a].panes
    BY <1>5, <2>1 DEF removePane
  <2>2. CASE window[a].panes = {p}
    <3>1. r = closeAll(window[a])
      BY <2>2 DEF removePane
    <3> QED BY <3>1, ClosedFits
  <2>3. CASE p \in window[a].panes /\ window[a].panes # {p}
    BY <1>1, <1>5, <2>3, ResizingFits
  <2> QED BY <2>1, <2>2, <2>3
<1>7. Ghosts' = Ghosts
  BY <1>2 DEF Ghosts
<1> HIDE DEF a, p, r
<1> QED BY <1>1, <1>2, <1>3, <1>4, <1>6, <1>7, FitOne

LEMMA FitSweep == IInv /\ AllFit /\ (\E g \in Stoppers : sweep(g)) => AllFit'
PROOF
<1> SUFFICES ASSUME IInv, AllFit, NEW g \in Stoppers, sweep(g) PROVE AllFit'
  OBVIOUS
<1>1. /\ \A w \in WindowIds : window'[w] = IF w \in Listed THEN closeAll(window[w]) ELSE window[w]
      /\ UNCHANGED <<win, nextPaneID>>
  BY DEF sweep, Close, idVars, Listed
<1>2. Ghosts' = Ghosts
  BY <1>1 DEF Ghosts
<1>3. \A w \in WindowIds : Fit(window[w], Ghosts) /\ Fit(closeAll(window[w]), Ghosts)
  BY ClosedFits DEF AllFit
<1> QED BY <1>1, <1>2, <1>3 DEF AllFit

LEMMA FitStep == IInv /\ AllFit /\ [Next]_vars => AllFit'
PROOF
<1> SUFFICES ASSUME IInv, AllFit, [Next]_vars PROVE AllFit'
  OBVIOUS
<1>1. UNCHANGED <<window, win, nextPaneID>> => AllFit'
  <2>1. UNCHANGED nextPaneID => nextPaneID' \in Int /\ nextPaneID' >= nextPaneID
    BY IdTypes
  <2> QED BY <2>1, FitQuiet
<1>2. CASE Command
  <2>1. CASE cmdKillPane \/ selectWindow \/ stepWindow
    BY <1>1, <2>1 DEF cmdKillPane, selectWindow, stepWindow, Close, idVars, layoutVars, paneVars
  <2> QED BY <1>2, <2>1, FitSpawn, FitSplit, FitKillWindow, FitRearrange, FitBreak, FitJoin
          DEF Command, RearrangeCommand
<1>3. CASE \E p \in PaneIds : childExit(p) \/ reportExit(p)
  BY <1>1, <1>3 DEF childExit, reportExit, idVars, layoutVars
<1>4. CASE Reap
  <2>1. CASE reapDead \/ notify
    BY <1>1, <2>1 DEF reapDead, notify, idVars, layoutVars, paneVars
  <2> QED BY <1>4, <2>1, FitReap DEF Reap
<1>5. CASE killSession
  BY <1>1, <1>5 DEF killSession, idVars, layoutVars, paneVars
<1>6. CASE \E g \in Stoppers : Stop(g)
  <2>1. CASE \E g \in Stoppers : sessionEmptied(g)
    BY <1>1, <2>1 DEF sessionEmptied, idVars, layoutVars, paneVars
  <2> QED BY <1>6, <2>1, FitSweep DEF Stop
<1>7. CASE UNCHANGED vars
  BY <1>1, <1>7 DEF vars, idVars, layoutVars, paneVars
<1> QED BY <1>2, <1>3, <1>4, <1>5, <1>6, <1>7 DEF Next

LEMMA SpecFit == Spec => [](IInv /\ AllFit)
PROOF
<1>1. Init => IInv /\ AllFit
  BY InitInvariant, FitInit
<1>2. IInv /\ AllFit /\ [Next]_vars => (IInv /\ AllFit)'
  BY StepInvariant, FitStep
<1> QED BY <1>1, <1>2, PTL DEF Spec

(* What the invariant says of the trees and of the focus. *)
LEMMA FitImplies ==
  ASSUME IInv, AllFit
  PROVE  /\ TreesAreBinary /\ ZoomIsFocus
         /\ ~SpawnFails => TreeHoldsPanes /\ FocusOnPane
PROOF
<1>1. TreesAreBinary
  BY DEF AllFit, Fit, TreeOK, Binary, Parts, TreesAreBinary
<1>2. ZoomIsFocus
  BY ListedFits DEF ZoomIsFocus, Fit
<1>3. ASSUME ~SpawnFails PROVE TreeHoldsPanes
  <2>1. Ghosts = {}
    BY <1>3 DEF Ghosts
  <2> QED BY <2>1 DEF TreeHoldsPanes, AllFit, Fit
<1>4. ASSUME ~SpawnFails PROVE FocusOnPane
  <2>1. Ghosts = {}
    BY <1>4 DEF Ghosts
  <2> QED BY <2>1, ListedFits DEF FocusOnPane, Fit
<1> QED BY <1>1, <1>2, <1>3, <1>4

LEMMA ReapStep ==
  IInv /\ [Next]_vars =>
    [reapOne => \A w \in Listed \cap ToSet(windows') :
       window'[w].active # window[w].active => window[w].active = Head(paneExit)]_vars
PROOF
<1> SUFFICES ASSUME IInv, reapOne, NEW w \in Listed,
                    window'[w].active # window[w].active
             PROVE  window[w].active = Head(paneExit)
  OBVIOUS
<1> DEFINE p == Head(paneExit)
           a == win[p]
           r == removePane(window[a], p)
<1>1. /\ a \in WindowIds /\ WindowOK(window[a]) /\ p \in PaneIds
      /\ window' = [window EXCEPT ![a] = r]
  BY ReapedWindow
<1>2. w \in WindowIds /\ window = [v \in WindowIds |-> window[v]]
  BY TypeParts, SequenceRange DEF IInv, LayoutType, Listed
<1>3. w = a /\ r.active # window[a].active
  BY <1>1, <1>2
<1> DEFINE f == fold(window[a], p)
<1>4. CASE p \notin window[a].panes \/ window[a].panes = {p}
  BY <1>3, <1>4 DEF removePane, closeAll
<1>5. CASE p \in window[a].panes /\ window[a].panes # {p}
  <2>1. r = applyLayout(f)
    BY <1>5 DEF removePane
  <2>2. f.active = IF window[a].active = p THEN FocusAfter(window[a].tree, p) ELSE window[a].active
    BY DEF fold
  <2>3. [f EXCEPT !.zoom = NoPane].active = f.active
    BY DEF fold
  <2> HIDE DEF f
  <2> QED BY <1>3, <2>1, <2>2, <2>3 DEF applyLayout
<1> QED BY <1>4, <1>5, <1>3

-----------------------------------------------------------------------------
(* What holds of trees and focus when shells may fail to start: a split    *)
(* that fails leaves its leaf behind (window.split grafts it first), so a  *)
(* tree has a leaf for every pane and beyond them only leaves that never   *)
(* had a shell, and a focus may be on such a leaf.                         *)
TreesShowPanes ==
  \A w \in WindowIds :
    /\ window[w].panes \subseteq Leaves(window[w].tree)
    /\ \A p \in Leaves(window[w].tree) \ window[w].panes : win[p] = NoWindow

FocusOnLeaf == \A w \in Listed : window[w].active \in Leaves(window[w].tree)

(* Through splits that succeed or fail, swaps, presets, moves, kills and   *)
(* reaps, for any number of panes and windows: no pane is missing from the *)
(* tree of its window, the focus is on a leaf of it, every leaf has a      *)
(* sibling to promote, and a zoom is on the focused pane.                  *)
THEOREM SessionShapes ==
  Spec => [](TreesShowPanes /\ FocusOnLeaf /\ TreesAreBinary /\ ZoomIsFocus)
PROOF
<1>1. IInv /\ AllFit => TreesShowPanes
  BY DEF AllFit, Fit, Ghosts, TreesShowPanes
<1>2. IInv /\ AllFit => FocusOnLeaf
  BY ListedFits DEF Fit, FocusOnLeaf
<1>3. IInv /\ AllFit => TreesAreBinary /\ ZoomIsFocus
  BY FitImplies
<1> QED BY <1>1, <1>2, <1>3, SpecFit, PTL

(* Where every shell starts, the tree a window draws is the tree of its    *)
(* panes and has a sibling to promote for every pane that leaves.          *)
THEOREM SessionTrees ==
  ASSUME SpawnFails = FALSE
  PROVE  Spec => []TreesFit
PROOF
<1>1. IInv /\ AllFit => TreesFit
  BY FitImplies DEF TreesFit
<1> QED BY <1>1, SpecFit, PTL

(* Where every shell starts, keys go to a pane that exists and that the    *)
(* window shows: through splits, swaps, presets, zooms, moves between      *)
(* windows, kills and reaps.                                               *)
THEOREM SessionFocus ==
  ASSUME SpawnFails = FALSE
  PROVE  Spec => []FocusIsShown
PROOF
<1>1. IInv /\ AllFit => FocusIsShown
  BY FitImplies DEF FocusIsShown
<1> QED BY <1>1, SpecFit, PTL

(* A reap moves a window's focus only off the pane it removes, also when   *)
(* shells fail to start.                                                   *)
THEOREM SessionReapKeepsFocus == Spec => ReapKeepsFocus
BY SpecInvariant, ReapStep, PTL DEF Spec, ReapKeepsFocus
=============================================================================
