----------------------------- MODULE RouterProofs -----------------------------
(***************************************************************************)
(* Theorems about Router, for every set of methods, texts and names and    *)
(* every number of routes and of parts.                                    *)
(*                                                                         *)
(* splitPath() and match() go along a sequence: both are functions defined *)
(* by recursion on how far they have come, and what they compute is shown  *)
(* by induction on sets of positions.                                      *)
(***************************************************************************)
EXTENDS Router, TLAPS, WellFoundedInduction

LEMMA LeastNat ==
  ASSUME NEW T, T \subseteq Nat, T # {}
  PROVE  \E n \in T : \A m \in T : n <= m
<1>1. PICK R : R = {p \in Nat \X Nat : p[1] < p[2]}
  OBVIOUS
<1>2. IsWellFoundedOn(R, Nat)
  BY <1>1, NatLessThanWellFounded DEF OpToRel
<1>3. PICK x \in T : \A y \in T : ~(<<y, x>> \in R)
  BY <1>2, WFMin
<1>4. ASSUME NEW y \in T
      PROVE  x <= y
  <2>1. ~(<<y, x>> \in Nat \X Nat /\ y < x)
    BY <1>1, <1>3
  <2>2. y \in Nat /\ x \in Nat
    OBVIOUS
  <2> QED
    BY <2>1, <2>2
<1> QED
  BY <1>4

(* A set of positions that has the first and, with each, the next has them all. *)
LEMMA AllPositions ==
  ASSUME NEW n \in Nat, NEW T, 0 \in T, \A k \in 1..n : k - 1 \in T => k \in T
  PROVE  \A k \in 0..n : k \in T
<1> SUFFICES ASSUME ~ \A k \in 0..n : k \in T
             PROVE  FALSE
  OBVIOUS
<1>1. PICK U : U = {k \in 0..n : k \notin T} /\ U \subseteq Nat /\ U # {}
  <2>1. {k \in 0..n : k \notin T} \subseteq Nat
    OBVIOUS
  <2> QED
    BY <2>1
<1>2. PICK k \in U : \A m \in U : k <= m
  BY <1>1, LeastNat
<1>3. k \in 1..n
  BY <1>1, <1>2
<1>4. k - 1 \in T
  BY <1>1, <1>2, <1>3
<1> QED
  BY <1>1, <1>2, <1>3, <1>4

(* A function given step by step, in a set its steps do not leave, exists. *)
Stepwise(f, n, base, step) == f[0] = base /\ \A k \in 1..n : f[k] = step[<<k, f[k - 1]>>]

LEMMA StepsDefine ==
  ASSUME NEW n \in Nat, NEW D, NEW base \in D, NEW step \in [(1..n) \X D -> D]
  PROVE  \E f \in [0..n -> D] : Stepwise(f, n, base, step)
<1> USE DEF Stepwise
<1>1. PICK T : T = {m \in 0..n : \E f \in [0..m -> D] : Stepwise(f, m, base, step)}
  OBVIOUS
<1>2. 0 \in T
  <2>1. PICK f : f = [k \in 0..0 |-> base]
    OBVIOUS
  <2>2. f \in [0..0 -> D] /\ Stepwise(f, 0, base, step)
    BY <2>1
  <2> QED
    BY <1>1, <2>2
<1>3. ASSUME NEW m \in 1..n, m - 1 \in T
      PROVE  m \in T
  <2>1. PICK f \in [0..m - 1 -> D] : Stepwise(f, m - 1, base, step)
    BY <1>1, <1>3
  <2>2. f[m - 1] \in D /\ step[<<m, f[m - 1]>>] \in D
    BY <2>1
  <2>3. PICK g : g = [k \in 0..m |-> IF k = m THEN step[<<m, f[m - 1]>>] ELSE f[k]]
    OBVIOUS
  <2>4. g \in [0..m -> D]
    BY <2>1, <2>2, <2>3
  <2>5. \A k \in 0..m - 1 : g[k] = f[k]
    BY <2>3
  <2>6. g[0] = base
    BY <2>1, <2>5
  <2>7. ASSUME NEW k \in 1..m
        PROVE  g[k] = step[<<k, g[k - 1]>>]
    <3>1. k - 1 \in 0..m - 1 /\ g[k - 1] = f[k - 1]
      BY <2>5
    <3>2. CASE k = m
      <4>1. g[m] = step[<<m, f[m - 1]>>]
        BY <2>3
      <4> QED
        BY <3>1, <3>2, <4>1
    <3>3. CASE k # m
      <4>1. k \in 1..m - 1
        BY <3>3
      <4> QED
        BY <2>1, <2>5, <3>1, <4>1
    <3> QED
      BY <3>2, <3>3
  <2> QED
    BY <1>1, <2>4, <2>6, <2>7
<1>4. n \in T
  BY <1>2, <1>3, AllPositions
<1> QED
  BY <1>1, <1>4

-----------------------------------------------------------------------------
(* splitPath() *)

StaticParts == {Static(x) : x \in Texts \ {Empty}}
Parts == StaticParts \cup {Param(n) : n \in Names}

(* What splitPath() makes of a path, or of the pattern of a route, has no empty part. *)
LEMMA SplitParts ==
  ASSUME NEW path \in Paths \cup Patterns
  PROVE  /\ splitPath(path) \in Seq(Parts)
         /\ path \in Paths => splitPath(path) \in Seq(StaticParts)
<1>1. PICK All, Kept :
        /\ path \in Seq(All) /\ Kept \subseteq Parts
        /\ path \in Paths => Kept = StaticParts
        /\ \A part \in All : part.text # Empty => part \in Kept
  <2>1. CASE path \in Paths
    <3> DEFINE All == {Static(x) : x \in Texts \cup {Empty}}
    <3>1. path \in Seq(All)
      BY <2>1 DEF Paths, SeqOf
    <3>2. \A part \in All : part.text # Empty => part \in StaticParts
      BY DEF StaticParts, Static
    <3> QED
      BY <3>1, <3>2 DEF Parts
  <2>2. CASE path \in Patterns /\ path \notin Paths
    <3> DEFINE All == {Static(x) : x \in Texts \cup {Empty}} \cup {Param(n) : n \in Names}
    <3>1. path \in Seq(All)
      BY <2>2 DEF Patterns, SeqOf
    <3>2. \A part \in All : part.text # Empty => part \in Parts
      BY DEF Parts, StaticParts, Static, Param
    <3> QED
      BY <2>2, <3>1, <3>2
  <2> QED
    BY <2>1, <2>2
<1>2. PICK n \in Nat : n = Len(path)
  BY <1>1
<1> DEFINE Next1(k, s) == IF path[k].text = Empty THEN s ELSE Append(s, path[k])
           kept == CHOOSE g : g = [k \in 0..n |-> IF k = 0 THEN <<>> ELSE Next1(k, g[k - 1])]
<1>3. \A k \in 1..n, s \in Seq(Kept) : Next1(k, s) \in Seq(Kept)
  BY <1>1, <1>2
<1>4. PICK step : step = [p \in (1..n) \X Seq(Kept) |-> Next1(p[1], p[2])]
  OBVIOUS
<1>5. step \in [(1..n) \X Seq(Kept) -> Seq(Kept)]
  BY <1>3, <1>4
<1>6. PICK f \in [0..n -> Seq(Kept)] : f[0] = <<>> /\ \A k \in 1..n : f[k] = step[<<k, f[k - 1]>>]
  <2>1. PICK D : D = Seq(Kept)
    OBVIOUS
  <2>2. PICK base : base = <<>>
    OBVIOUS
  <2>3. base \in D /\ step \in [(1..n) \X D -> D]
    BY <1>5, <2>1, <2>2
  <2>4. \E f \in [0..n -> D] : Stepwise(f, n, base, step)
    BY <2>3, StepsDefine
  <2> QED
    BY <2>1, <2>2, <2>4 DEF Stepwise
<1>7. f = [k \in 0..n |-> IF k = 0 THEN <<>> ELSE Next1(k, f[k - 1])]
  <2>1. ASSUME NEW k \in 1..n
        PROVE  f[k] = Next1(k, f[k - 1])
    <3>1. f[k - 1] \in Seq(Kept)
      BY <1>6
    <3>2. step[<<k, f[k - 1]>>] = Next1(k, f[k - 1])
      BY <1>4, <3>1
    <3> QED
      BY <1>6, <3>2
  <2> HIDE DEF Next1
  <2>2. \A k \in 0..n : f[k] = IF k = 0 THEN <<>> ELSE Next1(k, f[k - 1])
    <3>1. \A k \in 0..n : k = 0 \/ k \in 1..n
      OBVIOUS
    <3> QED
      BY <1>6, <2>1, <3>1
  <2> QED
    BY <1>6, <2>2
<1>8. kept = [k \in 0..n |-> IF k = 0 THEN <<>> ELSE Next1(k, kept[k - 1])]
  BY <1>7
<1>9. PICK g : g = kept
  OBVIOUS
<1>10. PICK T : T = {k \in 0..n : g[k] \in Seq(Kept)}
  OBVIOUS
<1>11. g[n] \in Seq(Kept)
  <2> HIDE DEF Next1, kept
  <2>1. 0 \in T
    BY <1>8, <1>9, <1>10
  <2>2. ASSUME NEW k \in 1..n, k - 1 \in T
        PROVE  k \in T
    <3>1. g[k] = Next1(k, g[k - 1])
      BY <1>8, <1>9
    <3>2. g[k - 1] \in Seq(Kept)
      BY <1>10, <2>2
    <3> QED
      BY <1>3, <1>10, <3>1, <3>2
  <2>3. \A k \in 0..n : k \in T
    BY <2>1, <2>2, AllPositions
  <2> QED
    BY <1>10, <2>3
<1>12. splitPath(path) = g[n]
  BY <1>2, <1>9 DEF splitPath
<1>13. Seq(Kept) \subseteq Seq(Parts)
  BY <1>1
<1> QED
  BY <1>1, <1>11, <1>12, <1>13

-----------------------------------------------------------------------------
(* match(): the walk down a trie, which is written with the trie it is in, for the
   walks before and after a registration. *)

DownIn(tr, node, part) ==
  IF Append(node, part) \in DOMAIN tr THEN Append(node, part)
  ELSE IF Append(node, ParamChild) \in DOMAIN tr THEN Append(node, ParamChild)
  ELSE Nowhere

WalkIn(tr, parts) ==
  LET node[k \in 0..Len(parts)] == IF k = 0 THEN Root ELSE DownIn(tr, node[k - 1], parts[k])
  IN node[Len(parts)]

IsWalk(w, tr, parts) ==
  w[0] = Root /\ \A k \in 1..Len(parts) : w[k] = DownIn(tr, w[k - 1], parts[k])

Edges == StaticParts \cup {ParamChild}
NoEdge == Nowhere[1]

LEMMA Prefix ==
  ASSUME NEW S, NEW s \in Seq(S), NEW k \in 0..Len(s)
  PROVE  /\ Upto(s, k) \in Seq(S)
         /\ Len(Upto(s, k)) = k
         /\ \A j \in 1..k : Upto(s, k)[j] = s[j]
         /\ k = 0 => Upto(s, k) = <<>>
         /\ k = Len(s) => Upto(s, k) = s
         /\ k > 0 => Upto(s, k) = Append(Upto(s, k - 1), s[k])
         /\ \A j \in 0..k : Upto(Upto(s, k), j) = Upto(s, j)
<1>1. PICK n \in Nat : n = Len(s) /\ s \in [1..n -> S]
  OBVIOUS
<1>2. \A j \in 0..n : /\ Upto(s, j) \in Seq(S) /\ Len(Upto(s, j)) = j
                      /\ \A i \in 1..j : Upto(s, j)[i] = s[i]
  BY <1>1 DEF Upto
<1>3. k = 0 => Upto(s, k) = <<>>
  BY <1>2
<1>4. k = Len(s) => Upto(s, k) = s
  BY <1>1, <1>2, SMTT(30)
<1>5. k > 0 => Upto(s, k) = Append(Upto(s, k - 1), s[k])
  BY <1>1, <1>2 DEF Upto
<1>6. ASSUME NEW j \in 0..k
      PROVE  Upto(Upto(s, k), j) = Upto(s, j)
  BY <1>1, <1>2 DEF Upto
<1> QED
  BY <1>1, <1>2, <1>3, <1>4, <1>5, <1>6

LEMMA WalkDefined ==
  ASSUME NEW tr, NEW parts \in Seq(StaticParts)
  PROVE  \E w : IsWalk(w, tr, parts) /\ WalkIn(tr, parts) = w[Len(parts)]
<1>1. PICK n \in Nat : n = Len(parts)
  OBVIOUS
<1>2. PICK D : D = Seq(Edges \cup {NoEdge})
  OBVIOUS
<1>3. \A k \in 1..n, node \in D : DownIn(tr, node, parts[k]) \in D
  <2>1. \A k \in 1..n : parts[k] \in Edges
    BY <1>1 DEF Edges
  <2>2. ParamChild \in Edges
    BY DEF Edges
  <2>3. Nowhere \in D
    BY <1>2 DEF NoEdge, Nowhere
  <2>4. \A node \in D, e \in Edges : Append(node, e) \in D
    BY <1>2
  <2> QED
    BY <2>1, <2>2, <2>3, <2>4 DEF DownIn
<1>4. PICK base : base = Root
  OBVIOUS
<1>5. base \in D
  BY <1>2, <1>4 DEF Root
<1>6. PICK step : step = [p \in (1..n) \X D |-> DownIn(tr, p[2], parts[p[1]])]
  OBVIOUS
<1>7. step \in [(1..n) \X D -> D]
  BY <1>3, <1>6
<1>8. PICK f \in [0..n -> D] : Stepwise(f, n, base, step)
  BY <1>5, <1>7, StepsDefine
<1>9. f[0] = Root /\ \A k \in 1..n : f[k] = DownIn(tr, f[k - 1], parts[k])
  <2>1. ASSUME NEW k \in 1..n
        PROVE  f[k] = DownIn(tr, f[k - 1], parts[k])
    <3>1. f[k - 1] \in D
      BY <1>8
    <3>2. step[<<k, f[k - 1]>>] = DownIn(tr, f[k - 1], parts[k])
      BY <1>6, <3>1
    <3> QED
      BY <1>8, <3>2 DEF Stepwise
  <2> QED
    BY <1>4, <1>8, <2>1 DEF Stepwise
<1> DEFINE node == CHOOSE g : g = [k \in 0..Len(parts) |->
                                     IF k = 0 THEN Root ELSE DownIn(tr, g[k - 1], parts[k])]
<1>10. f = [k \in 0..n |-> IF k = 0 THEN Root ELSE DownIn(tr, f[k - 1], parts[k])]
  <2>1. \A k \in 0..n : k = 0 \/ k \in 1..n
    OBVIOUS
  <2>2. \A k \in 0..n : f[k] = IF k = 0 THEN Root ELSE DownIn(tr, f[k - 1], parts[k])
    BY <1>9, <2>1
  <2> QED
    BY <1>8, <2>2
<1>11. node = [k \in 0..n |-> IF k = 0 THEN Root ELSE DownIn(tr, node[k - 1], parts[k])]
  BY <1>1, <1>10
<1>12. PICK g : g = node
  OBVIOUS
<1>13. IsWalk(g, tr, parts)
  <2> HIDE DEF node
  <2>1. g = [k \in 0..n |-> IF k = 0 THEN Root ELSE DownIn(tr, g[k - 1], parts[k])]
    BY <1>11, <1>12
  <2>2. g[0] = Root
    BY <2>1
  <2>3. \A k \in 1..n : g[k] = DownIn(tr, g[k - 1], parts[k])
    BY <2>1
  <2> QED
    BY <1>1, <2>2, <2>3 DEF IsWalk
<1>14. WalkIn(tr, parts) = g[Len(parts)]
  BY <1>12 DEF WalkIn
<1> QED
  BY <1>13, <1>14

(* A walk goes on from where the walk along a shorter path has come. *)
LEMMA WalkUpto ==
  ASSUME NEW tr, NEW parts \in Seq(StaticParts)
  PROVE  \E w : /\ IsWalk(w, tr, parts)
                /\ \A k \in 0..Len(parts) : WalkIn(tr, Upto(parts, k)) = w[k]
<1>1. PICK w : IsWalk(w, tr, parts)
  BY WalkDefined
<1>2. ASSUME NEW k \in 0..Len(parts)
      PROVE  WalkIn(tr, Upto(parts, k)) = w[k]
  <2>1. PICK p : p = Upto(parts, k)
    OBVIOUS
  <2>2. p \in Seq(StaticParts) /\ Len(p) = k /\ \A j \in 1..k : p[j] = parts[j]
    BY <2>1, Prefix
  <2>3. PICK v : IsWalk(v, tr, p) /\ WalkIn(tr, p) = v[Len(p)]
    BY <2>2, WalkDefined
  <2>4. PICK T : T = {j \in 0..k : v[j] = w[j]}
    OBVIOUS
  <2>5. k \in Nat /\ 0 \in T
    BY <1>1, <2>3, <2>4 DEF IsWalk
  <2>6. ASSUME NEW j \in 1..k, j - 1 \in T
        PROVE  j \in T
    <3>1. v[j] = DownIn(tr, v[j - 1], p[j])
      BY <2>2, <2>3 DEF IsWalk
    <3>2. w[j] = DownIn(tr, w[j - 1], parts[j])
      BY <1>1 DEF IsWalk
    <3>3. v[j - 1] = w[j - 1] /\ p[j] = parts[j]
      BY <2>2, <2>4, <2>6
    <3> QED
      BY <2>4, <3>1, <3>2, <3>3
  <2>7. \A j \in 0..k : j \in T
    BY <2>5, <2>6, AllPositions
  <2> QED
    BY <2>1, <2>2, <2>3, <2>4, <2>7
<1> QED
  BY <1>1, <1>2

(* The nodes of a trie. *)
Nodes(tr) == /\ DOMAIN tr \subseteq Seq(Edges)
             /\ Root \in DOMAIN tr
             /\ \A node \in DOMAIN tr : \A k \in 0..Len(node) : Upto(node, k) \in DOMAIN tr

LEMMA NowhereIsNoNode ==
  ASSUME NEW tr, Nodes(tr)
  PROVE  /\ Nowhere \notin DOMAIN tr
         /\ \A part : Append(Nowhere, part) \notin DOMAIN tr
<1>1. NoEdge \notin Edges
  BY DEF NoEdge, Nowhere, Edges, StaticParts, Static, ParamChild, Param
<1>2. Nowhere[1] = NoEdge /\ Len(Nowhere) = 1
  BY DEF NoEdge, Nowhere
<1>3. Nowhere \notin Seq(Edges)
  BY <1>1, <1>2
<1>4. ASSUME NEW part
      PROVE  Append(Nowhere, part) \notin Seq(Edges)
  <2>1. Append(Nowhere, part)[1] = NoEdge /\ Len(Append(Nowhere, part)) = 2
    BY DEF NoEdge, Nowhere
  <2> QED
    BY <1>1, <2>1
<1> QED
  BY <1>3, <1>4 DEF Nodes

(* One step of a walk: it stays nowhere, or comes to a child of its node. *)
LEMMA StepDown ==
  ASSUME NEW tr, Nodes(tr), NEW parts \in Seq(StaticParts), NEW w, IsWalk(w, tr, parts),
         NEW k \in 1..Len(parts)
  PROVE  IF w[k] = Nowhere
         THEN Append(w[k - 1], parts[k]) \notin DOMAIN tr /\ Append(w[k - 1], ParamChild) \notin DOMAIN tr
         ELSE /\ w[k - 1] # Nowhere
              /\ w[k] \in DOMAIN tr
              /\ \/ w[k] = Append(w[k - 1], parts[k])
                 \/ /\ w[k] = Append(w[k - 1], ParamChild)
                    /\ Append(w[k - 1], parts[k]) \notin DOMAIN tr
<1>1. w[k] = DownIn(tr, w[k - 1], parts[k])
  BY DEF IsWalk
<1>2. Nowhere \notin DOMAIN tr /\ \A part : Append(Nowhere, part) \notin DOMAIN tr
  BY NowhereIsNoNode
<1> QED
  BY <1>1, <1>2 DEF DownIn

(* Where a walk has come is the sequence of the edges it took. *)
LEMMA WalkPasses ==
  ASSUME NEW tr, Nodes(tr), NEW parts \in Seq(StaticParts), NEW w, IsWalk(w, tr, parts),
         NEW k \in 0..Len(parts), w[k] # Nowhere
  PROVE  /\ w[k] \in DOMAIN tr /\ w[k] \in Seq(Edges) /\ Len(w[k]) = k
         /\ \A j \in 0..k : w[j] = Upto(w[k], j) /\ w[j] # Nowhere
         /\ \A j \in 1..k : w[k][j] \in {parts[j], ParamChild}
<1> DEFINE Passes(i) == /\ w[i] \in DOMAIN tr /\ Len(w[i]) = i
                        /\ \A j \in 0..i : w[j] = Upto(w[i], j) /\ w[j] # Nowhere
                        /\ \A j \in 1..i : w[i][j] \in {parts[j], ParamChild}
<1>1. PICK T : T = {i \in 0..Len(parts) : w[i] # Nowhere => Passes(i)}
  OBVIOUS
<1>2. DOMAIN tr \subseteq Seq(Edges)
  BY DEF Nodes
<1>3. 0 \in T
  <2>1. w[0] = <<>> /\ w[0] \in DOMAIN tr
    BY DEF IsWalk, Nodes, Root
  <2>2. Upto(w[0], 0) = <<>> /\ Len(w[0]) = 0
    BY <2>1 DEF Upto
  <2>3. w[0] # Nowhere
    BY <2>1 DEF Nowhere
  <2>4. Passes(0)
    BY <2>1, <2>2, <2>3
  <2> QED
    BY <1>1, <2>4
<1>4. ASSUME NEW i \in 1..Len(parts), i - 1 \in T
      PROVE  i \in T
  <2> SUFFICES ASSUME w[i] # Nowhere
               PROVE  Passes(i)
    BY <1>1
  <2>1. PICK e \in {parts[i], ParamChild} :
             w[i - 1] # Nowhere /\ w[i] \in DOMAIN tr /\ w[i] = Append(w[i - 1], e)
    BY StepDown
  <2>2. Passes(i - 1)
    BY <1>1, <1>4, <2>1
  <2>3. PICK q \in Seq(Edges) : q = w[i - 1] /\ Len(q) = i - 1
    BY <1>2, <2>2
  <2>4. PICK r \in Seq(Edges) : r = w[i]
    BY <1>2, <2>1
  <2>5. r = Append(q, e)
    BY <2>1, <2>3, <2>4
  <2>6. Len(r) = i /\ r[i] = e /\ \A j \in 1..i - 1 : r[j] = q[j]
    BY <2>3, <2>5
  <2>7. \A j \in 0..i - 1 : Upto(r, j) = Upto(q, j)
    BY <2>3, <2>4, <2>6 DEF Upto
  <2>8. Upto(r, i) = r
    BY <2>6, Prefix
  <2>9. \A j \in 0..i : w[j] = Upto(r, j) /\ w[j] # Nowhere
    <3>1. \A j \in 0..i : j = i \/ j \in 0..i - 1
      OBVIOUS
    <3> QED
      BY <2>2, <2>3, <2>4, <2>7, <2>8, <3>1
  <2>10. \A j \in 1..i : r[j] \in {parts[j], ParamChild}
    <3>1. \A j \in 1..i : j = i \/ j \in 1..i - 1
      OBVIOUS
    <3> QED
      BY <2>1, <2>2, <2>3, <2>6, <3>1
  <2> QED
    BY <2>1, <2>4, <2>6, <2>9, <2>10
<1>5. \A i \in 0..Len(parts) : i \in T
  <2> HIDE DEF Passes
  <2>1. Len(parts) \in Nat
    OBVIOUS
  <2> QED
    BY <1>3, <1>4, <2>1, AllPositions
<1> QED
  BY <1>1, <1>2, <1>5

-----------------------------------------------------------------------------
(* What registerHandler() keeps. *)

Calls == [method : Methods, parts : Seq(Parts), inserted : BOOLEAN]
Table == [name : Names \cup {Empty}, handlers : [Methods -> Nat]]

(* The call j renames nothing that the call i has named at its k-th part. *)
KeepsName(calls, j, i, k) ==
  (k <= Len(calls[j].parts)
     /\ NodeOf(Upto(calls[j].parts, k)) = NodeOf(Upto(calls[i].parts, k)))
  => calls[j].parts[k] = calls[i].parts[k]

(* The trie has the nodes on the way to the routes, and no others. *)
Grown(tr, calls) ==
  /\ \A i \in 1..Len(calls) : \A k \in 0..Len(calls[i].parts) :
       NodeOf(Upto(calls[i].parts, k)) \in DOMAIN tr
  /\ \A node \in DOMAIN tr \ {Root} :
       \E i \in 1..Len(calls) : \E k \in 1..Len(calls[i].parts) :
         node = NodeOf(Upto(calls[i].parts, k))

(* The handler at a node is that of the call which put it there. *)
Handled(tr, calls) ==
  /\ \A node \in DOMAIN tr, m \in Methods :
       LET h == tr[node].handlers[m] IN
       h # NoHandler => /\ h \in 1..Len(calls) /\ calls[h].inserted = TRUE
                        /\ calls[h].method = m /\ NodeOf(calls[h].parts) = node
  /\ \A i \in 1..Len(calls) :
       calls[i].inserted = TRUE => tr[NodeOf(calls[i].parts)].handlers[calls[i].method] = i

(* A parameter's node has the name of the last call that came through. *)
Named(tr, calls) ==
  \A i \in 1..Len(calls) : \A k \in 1..Len(calls[i].parts) :
    calls[i].parts[k].kind = "param" /\ (\A j \in i + 1..Len(calls) : KeepsName(calls, j, i, k))
    => tr[NodeOf(Upto(calls[i].parts, k))].name = calls[i].parts[k].text

TrieOf(tr, calls) ==
  /\ calls \in Seq(Calls)
  /\ tr \in [DOMAIN tr -> Table]
  /\ Nodes(tr) /\ Grown(tr, calls) /\ Handled(tr, calls) /\ Named(tr, calls)

RouterInv == TrieOf(trie, routes)

LEMMA EdgeOfPart ==
  /\ ParamChild \in Edges /\ ParamChild \notin StaticParts
  /\ \A part \in Parts : /\ Edge(part) \in Edges
                         /\ part.kind = "param" <=> Edge(part) = ParamChild
                         /\ part.kind # "param" => part \in StaticParts /\ Edge(part) = part
                                                   /\ part.kind = "static"
  /\ \A part \in StaticParts : Edge(part) = part /\ part \in Parts /\ part.kind = "static"
<1>1. ParamChild \in Edges
  BY DEF Edges
<1>2. ParamChild.kind = "param"
  BY DEF ParamChild, Param
<1>3. \A part \in StaticParts : part.kind = "static"
  BY DEF StaticParts, Static
<1>4. \A part \in StaticParts : Edge(part) = part /\ part # ParamChild
  BY <1>2, <1>3 DEF Edge
<1>5. \A n \in Names : Param(n).kind = "param"
  BY DEF Param
<1>6. ASSUME NEW part \in Parts
      PROVE  /\ Edge(part) \in Edges
             /\ part.kind = "param" <=> Edge(part) = ParamChild
             /\ part.kind # "param" => part \in StaticParts
  <2>1. CASE part \in StaticParts
    BY <1>3, <1>4, <2>1 DEF Edges
  <2>2. CASE part \notin StaticParts
    <3>1. part.kind = "param"
      BY <1>5, <2>2 DEF Parts
    <3> QED
      BY <1>1, <3>1 DEF Edge
  <2> QED
    BY <2>1, <2>2
<1>7. \A part \in StaticParts : part \in Parts
  BY DEF Parts
<1> QED
  BY <1>1, <1>3, <1>4, <1>6, <1>7

(* The nodes on the way to a route. *)
LEMMA NodesOfParts ==
  ASSUME NEW parts \in Seq(Parts)
  PROVE  /\ NodeOf(parts) \in Seq(Edges) /\ Len(NodeOf(parts)) = Len(parts)
         /\ \A k \in 1..Len(parts) : NodeOf(parts)[k] = Edge(parts[k])
         /\ \A k \in 0..Len(parts) : /\ NodeOf(Upto(parts, k)) = Upto(NodeOf(parts), k)
                                     /\ NodeOf(Upto(parts, k)) \in Seq(Edges)
                                     /\ Len(NodeOf(Upto(parts, k))) = k
         /\ NodeOf(Upto(parts, Len(parts))) = NodeOf(parts)
<1>1. PICK n \in Nat : n = Len(parts) /\ parts \in [1..n -> Parts] /\ DOMAIN parts = 1..n
  OBVIOUS
<1>2. \A k \in 1..n : Edge(parts[k]) \in Edges
  BY <1>1, EdgeOfPart
<1>3. NodeOf(parts) = [k \in 1..n |-> Edge(parts[k])]
  BY <1>1 DEF NodeOf
<1>4. NodeOf(parts) \in Seq(Edges) /\ Len(NodeOf(parts)) = n
  BY <1>2, <1>3
<1>5. \A k \in 1..n : NodeOf(parts)[k] = Edge(parts[k])
  BY <1>3
<1>6. ASSUME NEW k \in 0..n
      PROVE  NodeOf(Upto(parts, k)) = Upto(NodeOf(parts), k)
  <2>1. PICK p \in Seq(Parts) : p = Upto(parts, k)
    BY <1>1, Prefix
  <2>2. Len(p) = k /\ \A j \in 1..k : p[j] = parts[j]
    BY <1>1, <2>1, Prefix
  <2>3. NodeOf(p) = [j \in 1..k |-> Edge(p[j])]
    BY <2>2 DEF NodeOf
  <2>4. PICK q \in Seq(Edges) : q = NodeOf(parts)
    BY <1>4
  <2>5. PICK r \in Seq(Edges) : r = Upto(q, k)
    BY <1>1, <1>4, <2>4, Prefix
  <2>6. Len(r) = k /\ \A j \in 1..k : r[j] = q[j]
    <3>1. k \in 0..Len(q)
      BY <1>1, <1>4, <2>4
    <3> QED
      BY <2>5, <3>1, Prefix, ZenonT(40)
  <2>7. r = [j \in 1..k |-> r[j]]
    BY <2>6
  <2>8. \A j \in 1..k : r[j] = Edge(p[j])
    BY <1>1, <1>5, <2>2, <2>4, <2>6
  <2>9. [j \in 1..k |-> r[j]] = [j \in 1..k |-> Edge(p[j])]
    BY <2>8
  <2> QED
    BY <2>1, <2>3, <2>4, <2>5, <2>7, <2>9
<1>7. \A k \in 0..n : Upto(NodeOf(parts), k) \in Seq(Edges) /\ Len(Upto(NodeOf(parts), k)) = k
  BY <1>1, <1>4, Prefix
<1>8. Upto(parts, n) = parts
  BY <1>1, Prefix
<1> QED
  BY <1>1, <1>4, <1>5, <1>6, <1>7, <1>8

(* registerHandler(), with the tries and the calls before and after it. *)
AtIn(tr, node) == IF node \in DOMAIN tr THEN tr[node] ELSE NewNode

Passed(parts) == {Upto(NodeOf(parts), k) : k \in 0..Len(NodeOf(parts))}

NameIn(tr, node, parts) ==
  IF node \in Passed(parts) /\ node # Root /\ Last(node) = ParamChild THEN parts[Len(node)].text
  ELSE AtIn(tr, node).name

HandlersIn(tr, calls, node, method, parts) ==
  IF node = NodeOf(parts)
  THEN [AtIn(tr, node).handlers EXCEPT ![method] = IF @ = NoHandler THEN Len(calls) + 1 ELSE @]
  ELSE AtIn(tr, node).handlers

Registers(tr, calls, tr2, calls2, method, parts) ==
  /\ tr2 = [node \in DOMAIN tr \cup Passed(parts) |->
              [name |-> NameIn(tr, node, parts),
               handlers |-> HandlersIn(tr, calls, node, method, parts)]]
  /\ calls2 = Append(calls, [method |-> method, parts |-> parts,
                             inserted |-> AtIn(tr, NodeOf(parts)).handlers[method] = NoHandler])

LEMMA NextRegisters ==
  ASSUME Next
  PROVE  \E method \in Methods, parts \in Seq(Parts) :
           Registers(trie, routes, trie', routes', method, parts)
<1>1. PICK method \in Methods, path \in Patterns : registerHandler(method, path)
  BY DEF Next
<1>2. PICK parts \in Seq(Parts) : parts = splitPath(path)
  BY SplitParts
<1>3. \A node : At(node) = AtIn(trie, node)
  BY DEF At, AtIn
<1>4. \A node : IF node \in Passed(parts) THEN Renamed(node, parts) = NameIn(trie, node, parts)
                                          ELSE At(node).name = NameIn(trie, node, parts)
  BY <1>3 DEF Renamed, NameIn
<1>5. \A node : IF node = NodeOf(parts)
                THEN PutHandler(node, method) = HandlersIn(trie, routes, node, method, parts)
                ELSE At(node).handlers = HandlersIn(trie, routes, node, method, parts)
  BY <1>3 DEF PutHandler, HandlersIn
<1>6. PICK passed : passed = Passed(parts)
  OBVIOUS
<1>7. trie' = [node \in DOMAIN trie \cup passed |->
                 [name |-> IF node \in passed THEN Renamed(node, parts) ELSE At(node).name,
                  handlers |-> IF node = NodeOf(parts) THEN PutHandler(node, method)
                               ELSE At(node).handlers]]
  BY <1>1, <1>2, <1>6 DEF registerHandler, Passed
<1>8. trie' = [node \in DOMAIN trie \cup passed |->
                 [name |-> NameIn(trie, node, parts),
                  handlers |-> HandlersIn(trie, routes, node, method, parts)]]
  BY <1>4, <1>5, <1>6, <1>7
<1>9. routes' = Append(routes, [method |-> method, parts |-> parts,
                                inserted |-> AtIn(trie, NodeOf(parts)).handlers[method] = NoHandler])
  BY <1>1, <1>2, <1>3 DEF registerHandler
<1> QED
  BY <1>6, <1>8, <1>9 DEF Registers

Registration(tr, calls, tr2, calls2, method, parts) ==
  /\ TrieOf(tr, calls) /\ method \in Methods /\ parts \in Seq(Parts)
  /\ Registers(tr, calls, tr2, calls2, method, parts)

(* What the calls and the nodes are after a registration. *)
CallsAfter(tr, calls, calls2, method, parts) ==
  /\ Len(calls) \in Nat /\ Len(calls2) = Len(calls) + 1 /\ calls2 \in Seq(Calls)
  /\ \A i \in 1..Len(calls) : calls2[i] = calls[i] /\ calls[i].parts \in Seq(Parts)
                              /\ calls[i].method \in Methods
  /\ calls2[Len(calls) + 1].method = method
  /\ calls2[Len(calls) + 1].parts = parts
  /\ calls2[Len(calls) + 1].inserted = TRUE
       <=> AtIn(tr, NodeOf(parts)).handlers[method] = NoHandler

NodesAfter(tr, calls, tr2, method, parts) ==
  /\ DOMAIN tr2 = DOMAIN tr \cup Passed(parts)
  /\ \A node \in DOMAIN tr2 :
       /\ tr2[node].name = NameIn(tr, node, parts)
       /\ tr2[node].handlers = HandlersIn(tr, calls, node, method, parts)
  /\ tr2 \in [DOMAIN tr2 -> Table]

LEMMA AfterCall ==
  ASSUME NEW tr, NEW calls, NEW tr2, NEW calls2, NEW method, NEW parts,
         Registration(tr, calls, tr2, calls2, method, parts)
  PROVE  CallsAfter(tr, calls, calls2, method, parts)
<1> TrieOf(tr, calls) /\ method \in Methods /\ parts \in Seq(Parts)
  BY DEF Registration
<1>1. PICK n \in Nat : n = Len(calls)
  BY DEF TrieOf
<1>2. PICK new : new = [method |-> method, parts |-> parts,
                        inserted |-> AtIn(tr, NodeOf(parts)).handlers[method] = NoHandler]
  OBVIOUS
<1>3. new \in Calls
  BY <1>2 DEF Calls
<1>4. calls \in Seq(Calls) /\ calls2 = Append(calls, new)
  BY <1>2 DEF TrieOf, Registration, Registers
<1>5. /\ calls2 \in Seq(Calls) /\ Len(calls2) = n + 1 /\ calls2[n + 1] = new
      /\ \A i \in 1..n : calls2[i] = calls[i] /\ calls[i] \in Calls
  BY <1>1, <1>3, <1>4
<1>6. \A call \in Calls : call.parts \in Seq(Parts) /\ call.method \in Methods
  BY DEF Calls
<1>7. new.method = method /\ new.parts = parts
      /\ (new.inserted = TRUE <=> AtIn(tr, NodeOf(parts)).handlers[method] = NoHandler)
  BY <1>2
<1> QED
  BY <1>1, <1>5, <1>6, <1>7 DEF CallsAfter

LEMMA PassedNodes ==
  ASSUME NEW parts \in Seq(Parts)
  PROVE  /\ \A node \in Passed(parts) :
              \E k \in 0..Len(parts) : node = NodeOf(Upto(parts, k)) /\ node = Upto(NodeOf(parts), k)
         /\ \A k \in 0..Len(parts) : NodeOf(Upto(parts, k)) \in Passed(parts)
         /\ NodeOf(parts) \in Passed(parts)
  BY NodesOfParts DEF Passed

LEMMA AfterNodes ==
  ASSUME NEW tr, NEW calls, NEW tr2, NEW calls2, NEW method, NEW parts,
         Registration(tr, calls, tr2, calls2, method, parts)
  PROVE  NodesAfter(tr, calls, tr2, method, parts)
<1> TrieOf(tr, calls) /\ method \in Methods /\ parts \in Seq(Parts)
  BY DEF Registration
<1>1. DOMAIN tr2 = DOMAIN tr \cup Passed(parts)
  BY DEF Registration, Registers
<1>2. \A node \in DOMAIN tr2 :
        tr2[node] = [name |-> NameIn(tr, node, parts),
                     handlers |-> HandlersIn(tr, calls, node, method, parts)]
  BY DEF Registration, Registers
<1>3. \A node : AtIn(tr, node) \in Table
  BY DEF AtIn, TrieOf, Table, NewNode, NoHandler
<1>4. \A node : NameIn(tr, node, parts) \in Names \cup {Empty}
  <2> SUFFICES ASSUME NEW node \in Passed(parts), node # Root, Last(node) = ParamChild
               PROVE  parts[Len(node)].text \in Names \cup {Empty}
    BY <1>3 DEF NameIn, Table
  <2>1. PICK k \in 0..Len(parts) : node = Upto(NodeOf(parts), k)
    BY PassedNodes
  <2>2. PICK q \in Seq(Edges) : q = NodeOf(parts) /\ Len(q) = Len(parts)
    BY NodesOfParts
  <2>3. Len(node) = k /\ (\A j \in 1..k : node[j] = q[j]) /\ (k = 0 => node = <<>>)
    <3>1. k \in 0..Len(q) /\ node = Upto(q, k)
      BY <2>1, <2>2
    <3> QED
      BY <3>1, Prefix, ZenonT(40)
  <2>4. k \in 1..Len(parts)
    BY <2>3 DEF Root
  <2>5. Edge(parts[k]) = ParamChild
    BY <2>2, <2>3, <2>4, NodesOfParts DEF Last
  <2>6. parts[k] \in Parts
    BY <2>4
  <2>7. parts[k] \notin StaticParts
    BY <2>5, EdgeOfPart
  <2> QED
    BY <2>3, <2>6, <2>7 DEF Parts, Param
<1>5. \A node : HandlersIn(tr, calls, node, method, parts) \in [Methods -> Nat]
  <2>1. Len(calls) + 1 \in Nat
    BY AfterCall DEF CallsAfter
  <2>2. \A node : AtIn(tr, node).handlers \in [Methods -> Nat]
    BY <1>3 DEF Table
  <2> QED
    BY <2>1, <2>2 DEF HandlersIn
<1>6. tr2 \in [DOMAIN tr2 -> Table]
  <2>1. \A node \in DOMAIN tr2 : tr2[node] \in Table
    BY <1>2, <1>4, <1>5 DEF Table
  <2>2. tr2 = [node \in DOMAIN tr2 |-> tr2[node]]
    BY DEF Registration, Registers
  <2> QED
    BY <2>1, <2>2
<1>7. \A node \in DOMAIN tr2 : /\ tr2[node].name = NameIn(tr, node, parts)
                              /\ tr2[node].handlers = HandlersIn(tr, calls, node, method, parts)
  BY <1>2
<1> QED
  BY <1>1, <1>6, <1>7 DEF NodesAfter

(* The new nodes lead to the new route; no prefix of a node is missing. *)
LEMMA RegisterGrows ==
  ASSUME NEW tr, NEW calls, NEW tr2, NEW calls2, NEW method, NEW parts,
         Registration(tr, calls, tr2, calls2, method, parts)
  PROVE  Nodes(tr2) /\ Grown(tr2, calls2)
<1> TrieOf(tr, calls) /\ method \in Methods /\ parts \in Seq(Parts)
  BY DEF Registration
<1> CallsAfter(tr, calls, calls2, method, parts)
  BY AfterCall
<1> NodesAfter(tr, calls, tr2, method, parts)
  BY AfterNodes
<1>1. PICK n \in Nat : n = Len(calls) /\ Len(calls2) = n + 1 /\ calls2[n + 1].parts = parts
                       /\ \A i \in 1..n : calls2[i] = calls[i]
  BY DEF CallsAfter
<1>2. DOMAIN tr2 = DOMAIN tr \cup Passed(parts)
  BY DEF NodesAfter
<1>3. Nodes(tr2)
  <2>1. DOMAIN tr \subseteq Seq(Edges) /\ Root \in DOMAIN tr
    BY DEF TrieOf, Nodes
  <2>2. ASSUME NEW node \in Passed(parts)
        PROVE  node \in Seq(Edges) /\ \A j \in 0..Len(node) : Upto(node, j) \in Passed(parts)
    <3>1. PICK k \in 0..Len(parts) : node = Upto(NodeOf(parts), k)
      BY PassedNodes
    <3>2. PICK q \in Seq(Edges) : q = NodeOf(parts) /\ Len(q) = Len(parts)
      BY NodesOfParts
    <3>3. k \in 0..Len(q) /\ node = Upto(q, k)
      BY <3>1, <3>2
    <3>4. node \in Seq(Edges) /\ Len(node) = k /\ \A j \in 0..k : Upto(node, j) = Upto(q, j)
      BY <3>3, Prefix
    <3>5. \A j \in 0..k : j \in 0..Len(q)
      BY <3>3
    <3>6. \A j \in 0..Len(q) : Upto(q, j) \in Passed(parts)
      BY <3>2 DEF Passed
    <3> QED
      BY <3>4, <3>5, <3>6
  <2>3. \A node \in DOMAIN tr : \A j \in 0..Len(node) : Upto(node, j) \in DOMAIN tr
    BY DEF TrieOf, Nodes
  <2> QED
    BY <1>2, <2>1, <2>2, <2>3 DEF Nodes
<1>4. ASSUME NEW i \in 1..Len(calls2), NEW k \in 0..Len(calls2[i].parts)
      PROVE  NodeOf(Upto(calls2[i].parts, k)) \in DOMAIN tr2
  <2>1. CASE i = n + 1
    BY <1>1, <1>2, <2>1, PassedNodes
  <2>2. CASE i # n + 1
    <3>1. i \in 1..n /\ calls2[i] = calls[i]
      BY <1>1, <2>2
    <3> QED
      BY <1>1, <1>2, <3>1 DEF TrieOf, Grown
  <2> QED
    BY <2>1, <2>2
<1>5. ASSUME NEW node \in DOMAIN tr2 \ {Root}
      PROVE  \E i \in 1..Len(calls2) : \E k \in 1..Len(calls2[i].parts) :
               node = NodeOf(Upto(calls2[i].parts, k))
  <2>1. CASE node \in DOMAIN tr
    <3>1. PICK i \in 1..n : \E k \in 1..Len(calls[i].parts) : node = NodeOf(Upto(calls[i].parts, k))
      BY <1>1, <1>5, <2>1 DEF TrieOf, Grown
    <3>2. i \in 1..Len(calls2) /\ calls2[i] = calls[i]
      BY <1>1
    <3> QED
      BY <3>1, <3>2
  <2>2. CASE node \in Passed(parts)
    <3>1. PICK k \in 0..Len(parts) : node = NodeOf(Upto(parts, k)) /\ node = Upto(NodeOf(parts), k)
      BY <2>2, PassedNodes
    <3>2. k # 0
      <4>1. NodeOf(parts) \in Seq(Edges) /\ Upto(NodeOf(parts), 0) = <<>>
        BY NodesOfParts DEF Upto
      <4> QED
        BY <1>5, <3>1, <4>1 DEF Root
    <3>3. n + 1 \in 1..Len(calls2) /\ k \in 1..Len(calls2[n + 1].parts)
      BY <1>1, <3>1, <3>2
    <3> QED
      BY <1>1, <3>1, <3>3
  <2> QED
    BY <1>2, <2>1, <2>2
<1> QED
  BY <1>3, <1>4, <1>5 DEF Grown

(* A handler that is there stays, and the new one comes where there was none. *)
LEMMA RegisterHandles ==
  ASSUME NEW tr, NEW calls, NEW tr2, NEW calls2, NEW method, NEW parts,
         Registration(tr, calls, tr2, calls2, method, parts)
  PROVE  Handled(tr2, calls2)
<1> TrieOf(tr, calls) /\ method \in Methods /\ parts \in Seq(Parts)
  BY DEF Registration
<1> CallsAfter(tr, calls, calls2, method, parts)
  BY AfterCall
<1> NodesAfter(tr, calls, tr2, method, parts)
  BY AfterNodes
<1>1. PICK n \in Nat : n = Len(calls) /\ Len(calls2) = n + 1
                       /\ calls2[n + 1].parts = parts /\ calls2[n + 1].method = method
                       /\ \A i \in 1..n : calls2[i] = calls[i] /\ calls[i].parts \in Seq(Parts)
                                          /\ calls[i].method \in Methods
  BY DEF CallsAfter
<1>2. PICK end : end = NodeOf(parts)
  OBVIOUS
<1>3. PICK old \in Nat : old = AtIn(tr, end).handlers[method]
  BY DEF AtIn, TrieOf, Table, NewNode, NoHandler
<1>4. calls2[n + 1].inserted = TRUE <=> old = NoHandler
  BY <1>1, <1>2, <1>3 DEF CallsAfter
<1>5. DOMAIN tr2 = DOMAIN tr \cup Passed(parts) /\ end \in DOMAIN tr2
  BY <1>2, PassedNodes DEF NodesAfter
<1>6. \A node \in DOMAIN tr2, m \in Methods :
        tr2[node].handlers[m] =
          IF node = end /\ m = method /\ old = NoHandler THEN n + 1
          ELSE IF node \in DOMAIN tr THEN tr[node].handlers[m] ELSE NoHandler
  <2> SUFFICES ASSUME NEW node \in DOMAIN tr2, NEW m \in Methods
               PROVE  tr2[node].handlers[m] =
                        IF node = end /\ m = method /\ old = NoHandler THEN n + 1
                        ELSE IF node \in DOMAIN tr THEN tr[node].handlers[m] ELSE NoHandler
    OBVIOUS
  <2>1. tr2[node].handlers = HandlersIn(tr, calls, node, method, parts)
    BY DEF NodesAfter
  <2>2. PICK hs \in [Methods -> Nat] : hs = AtIn(tr, node).handlers
    <3>1. AtIn(tr, node) \in Table
      BY DEF AtIn, TrieOf, Table, NewNode, NoHandler
    <3> QED
      BY <3>1 DEF Table
  <2>3. hs[m] = IF node \in DOMAIN tr THEN tr[node].handlers[m] ELSE NoHandler
    BY <2>2 DEF AtIn, NewNode
  <2>4. CASE node = end
    <3>1. tr2[node].handlers = [hs EXCEPT ![method] = IF @ = NoHandler THEN n + 1 ELSE @]
      BY <1>1, <1>2, <2>1, <2>2, <2>4 DEF HandlersIn
    <3>2. hs[method] = old
      BY <1>3, <2>2, <2>4
    <3> QED
      BY <2>3, <2>4, <3>1, <3>2
  <2>5. CASE node # end
    BY <1>2, <2>1, <2>2, <2>3, <2>5 DEF HandlersIn
  <2> QED
    BY <2>4, <2>5
<1>7. ASSUME NEW node \in DOMAIN tr2, NEW m \in Methods, tr2[node].handlers[m] # NoHandler
      PROVE  LET h == tr2[node].handlers[m] IN
             /\ h \in 1..n + 1 /\ calls2[h].inserted = TRUE
             /\ calls2[h].method = m /\ NodeOf(calls2[h].parts) = node
  <2>1. CASE node = end /\ m = method /\ old = NoHandler
    BY <1>1, <1>2, <1>4, <1>6, <2>1
  <2>2. CASE ~(node = end /\ m = method /\ old = NoHandler)
    <3>1. node \in DOMAIN tr /\ tr2[node].handlers[m] = tr[node].handlers[m]
      BY <1>6, <1>7, <2>2
    <3>2. PICK h : h = tr[node].handlers[m]
      OBVIOUS
    <3>3. /\ h \in 1..n /\ calls[h].inserted = TRUE
          /\ calls[h].method = m /\ NodeOf(calls[h].parts) = node
      BY <1>1, <1>7, <3>1, <3>2 DEF TrieOf, Handled
    <3> QED
      BY <1>1, <3>1, <3>2, <3>3
  <2> QED
    BY <2>1, <2>2
<1>8. ASSUME NEW i \in 1..n + 1, calls2[i].inserted = TRUE
      PROVE  tr2[NodeOf(calls2[i].parts)].handlers[calls2[i].method] = i
  <2>1. CASE i = n + 1
    BY <1>1, <1>2, <1>4, <1>5, <1>6, <1>8, <2>1
  <2>2. CASE i # n + 1
    <3>1. i \in 1..n /\ calls2[i] = calls[i] /\ calls[i].parts \in Seq(Parts)
          /\ calls[i].method \in Methods
      BY <1>1, <2>2
    <3>2. PICK node, m : node = NodeOf(calls[i].parts) /\ m = calls[i].method
      OBVIOUS
    <3>3. node \in DOMAIN tr
      <4>1. Len(calls[i].parts) \in 0..Len(calls[i].parts)
        BY <3>1
      <4>2. NodeOf(Upto(calls[i].parts, Len(calls[i].parts))) \in DOMAIN tr
        BY <1>1, <3>1, <4>1 DEF TrieOf, Grown
      <4> QED
        BY <3>1, <3>2, <4>2, NodesOfParts
    <3>4. tr[node].handlers[m] = i
      BY <1>1, <1>8, <3>1, <3>2 DEF TrieOf, Handled
    <3>5. ~(node = end /\ m = method /\ old = NoHandler)
      BY <1>3, <3>1, <3>3, <3>4 DEF AtIn, NoHandler
    <3> QED
      BY <1>5, <1>6, <3>1, <3>2, <3>3, <3>4, <3>5
  <2> QED
    BY <2>1, <2>2
<1>9. \A node \in DOMAIN tr2, m \in Methods :
        LET h == tr2[node].handlers[m] IN
        h # NoHandler => /\ h \in 1..Len(calls2) /\ calls2[h].inserted = TRUE
                         /\ calls2[h].method = m /\ NodeOf(calls2[h].parts) = node
  BY <1>1, <1>7
<1>10. \A i \in 1..Len(calls2) :
         calls2[i].inserted = TRUE => tr2[NodeOf(calls2[i].parts)].handlers[calls2[i].method] = i
  BY <1>1, <1>8
<1> QED
  BY <1>9, <1>10 DEF Handled

(* The name a node has is that of the last call that came through. *)
LEMMA RegisterNames ==
  ASSUME NEW tr, NEW calls, NEW tr2, NEW calls2, NEW method, NEW parts,
         Registration(tr, calls, tr2, calls2, method, parts)
  PROVE  Named(tr2, calls2)
<1> TrieOf(tr, calls) /\ method \in Methods /\ parts \in Seq(Parts)
  BY DEF Registration
<1> CallsAfter(tr, calls, calls2, method, parts)
  BY AfterCall
<1> NodesAfter(tr, calls, tr2, method, parts)
  BY AfterNodes
<1>1. PICK n \in Nat : n = Len(calls) /\ Len(calls2) = n + 1 /\ calls2[n + 1].parts = parts
                       /\ \A i \in 1..n : calls2[i] = calls[i] /\ calls[i].parts \in Seq(Parts)
  BY DEF CallsAfter
<1>2. /\ DOMAIN tr2 = DOMAIN tr \cup Passed(parts)
      /\ \A node \in DOMAIN tr2 : tr2[node].name = NameIn(tr, node, parts)
  BY DEF NodesAfter
(* A node of a parameter that the call comes through. *)
<1>3. ASSUME NEW k \in 1..Len(parts), parts[k].kind = "param"
      PROVE  tr2[NodeOf(Upto(parts, k))].name = parts[k].text
  <2>1. PICK node : node = NodeOf(Upto(parts, k))
    OBVIOUS
  <2>2. node \in Passed(parts) /\ node \in DOMAIN tr2
    BY <1>2, <2>1, PassedNodes
  <2>3. node \in Seq(Edges) /\ Len(node) = k /\ node = Upto(NodeOf(parts), k)
    BY <2>1, NodesOfParts
  <2>4. PICK q \in Seq(Edges) : q = NodeOf(parts) /\ Len(q) = Len(parts)
                                /\ \A j \in 1..Len(parts) : q[j] = Edge(parts[j])
    BY NodesOfParts
  <2>5. k \in 0..Len(q) /\ node = Upto(q, k)
    BY <2>3, <2>4
  <2>6. node[k] = q[k]
    BY <2>5, Prefix
  <2>7. node[k] = ParamChild
    BY <1>3, <2>4, <2>6 DEF Edge
  <2>8. Last(node) = ParamChild /\ node # Root
    BY <2>3, <2>7 DEF Last, Root
  <2> QED
    BY <1>2, <2>1, <2>2, <2>3, <2>8 DEF NameIn
<1>4. ASSUME NEW i \in 1..n + 1, NEW k \in 1..Len(calls2[i].parts),
             calls2[i].parts[k].kind = "param",
             \A j \in i + 1..n + 1 : KeepsName(calls2, j, i, k)
      PROVE  tr2[NodeOf(Upto(calls2[i].parts, k))].name = calls2[i].parts[k].text
  <2>1. CASE i = n + 1
    BY <1>1, <1>3, <1>4, <2>1
  <2>2. CASE i # n + 1
    <3>1. i \in 1..n /\ calls2[i] = calls[i] /\ calls[i].parts \in Seq(Parts)
          /\ k \in 1..Len(calls[i].parts) /\ n + 1 \in i + 1..n + 1
      BY <1>1, <2>2
    <3>2. PICK node : node = NodeOf(Upto(calls[i].parts, k))
      OBVIOUS
    <3>3. \A j \in i + 1..n : KeepsName(calls, j, i, k)
      <4>1. \A j \in i + 1..n : j \in i + 1..n + 1 /\ calls2[j] = calls[j]
        BY <1>1, <3>1
      <4> QED
        BY <1>4, <3>1, <4>1 DEF KeepsName
    <3>4. tr[node].name = calls[i].parts[k].text
      BY <1>1, <1>4, <3>1, <3>2, <3>3 DEF TrieOf, Named
    <3>5. node \in DOMAIN tr
      <4>1. k \in 0..Len(calls[i].parts)
        BY <3>1
      <4> QED
        BY <1>1, <3>1, <3>2, <4>1 DEF TrieOf, Grown
    <3>6. tr2[node].name = NameIn(tr, node, parts)
      BY <1>2, <3>5
    <3>7. CASE node \in Passed(parts)
      <4>1. PICK m \in 0..Len(parts) : node = NodeOf(Upto(parts, m))
        BY <3>7, PassedNodes
      <4>2. Len(node) = m
        BY <4>1, NodesOfParts
      <4>3. Len(node) = k
        BY <3>1, <3>2, NodesOfParts
      <4>4. m = k /\ k \in 1..Len(parts)
        BY <3>1, <4>1, <4>2, <4>3
      <4>5. KeepsName(calls2, n + 1, i, k)
        BY <1>4, <3>1
      <4>6. parts[k] = calls[i].parts[k]
        BY <1>1, <3>1, <3>2, <4>1, <4>4, <4>5 DEF KeepsName
      <4> QED
        BY <1>3, <1>4, <3>1, <3>2, <4>1, <4>4, <4>6
    <3>8. CASE node \notin Passed(parts)
      BY <3>1, <3>2, <3>4, <3>5, <3>6, <3>8 DEF NameIn, AtIn
    <3> QED
      BY <3>7, <3>8
  <2> QED
    BY <2>1, <2>2
<1> QED
  BY <1>1, <1>4 DEF Named

LEMMA InitRouterInv == Init => RouterInv
<1> SUFFICES ASSUME Init
             PROVE  RouterInv
  OBVIOUS
<1>1. trie = [node \in {Root} |-> NewNode] /\ routes = <<>> /\ DOMAIN trie = {Root}
  BY DEF Init
<1>2. routes \in Seq(Calls) /\ \A i \in 1..Len(routes) : FALSE
  BY <1>1
<1>3. trie \in [DOMAIN trie -> Table]
  BY <1>1 DEF Table, NewNode, NoHandler
<1>4. Nodes(trie)
  <2>1. Root \in Seq(Edges) /\ Len(Root) = 0 /\ Upto(Root, 0) = Root
    BY DEF Root, Upto
  <2> QED
    BY <1>1, <2>1 DEF Nodes
<1>5. Grown(trie, routes)
  BY <1>1, <1>2 DEF Grown
<1>6. Handled(trie, routes)
  <2>1. \A node \in DOMAIN trie, m \in Methods : trie[node].handlers[m] = NoHandler
    BY <1>1 DEF NewNode
  <2> QED
    BY <1>2, <2>1 DEF Handled
<1>7. Named(trie, routes)
  BY <1>2 DEF Named
<1> QED
  BY <1>2, <1>3, <1>4, <1>5, <1>6, <1>7 DEF RouterInv, TrieOf

LEMMA NextRouterInv == RouterInv /\ [Next]_vars => RouterInv'
<1> SUFFICES ASSUME RouterInv, [Next]_vars
             PROVE  RouterInv'
  OBVIOUS
<1>1. CASE Next
  <2>1. PICK method \in Methods, parts \in Seq(Parts) :
               Registers(trie, routes, trie', routes', method, parts)
    BY <1>1, NextRegisters
  <2>2. Registration(trie, routes, trie', routes', method, parts)
    BY <2>1 DEF RouterInv, Registration
  <2>3. Nodes(trie') /\ Grown(trie', routes')
    BY <2>2, RegisterGrows
  <2>4. Handled(trie', routes') /\ Named(trie', routes')
    BY <2>2, RegisterHandles, RegisterNames
  <2>5. routes' \in Seq(Calls) /\ trie' \in [DOMAIN trie' -> Table]
    BY <2>2, AfterCall, AfterNodes DEF CallsAfter, NodesAfter
  <2> QED
    BY <2>3, <2>4, <2>5 DEF RouterInv, TrieOf
<1>2. CASE UNCHANGED vars
  <2>1. trie' = trie /\ routes' = routes
    BY <1>2 DEF vars
  <2> QED
    BY <2>1 DEF RouterInv
<1> QED
  BY <1>1, <1>2

(* The trie and the calls of registerHandler() stay what the trie is built for:
   its nodes are those on the way to the routes, each handler is that of the call
   which put it there, and each parameter has the name of the last call that came
   through. *)
THEOREM TrieIsOfItsRoutes == Spec => []RouterInv
  BY InitRouterInv, NextRouterInv, PTL DEF Spec

-----------------------------------------------------------------------------
(* Which route answers. *)

(* The last edge on the way to a node, if it is that of a part of a request. *)
Takes(parts, k, node, part) == NodeOf(Upto(parts, k)) = Append(node, part)
Came(parts, k, node, part)  == NodeOf(Upto(parts, k - 1)) = node /\ parts[k] = part

LEMMA EdgeTaken ==
  ASSUME NEW parts \in Seq(Parts), NEW k \in 1..Len(parts), NEW node \in Seq(Edges),
         NEW part \in StaticParts, Takes(parts, k, node, part)
  PROVE  Came(parts, k, node, part)
<1> USE DEF Takes, Came
<1>1. PICK q \in Seq(Edges) : q = NodeOf(parts) /\ Len(q) = Len(parts) /\ q[k] = Edge(parts[k])
  BY NodesOfParts
<1>2. k \in 0..Len(q) /\ k - 1 \in 0..Len(q) /\ k > 0
  BY <1>1
<1>3. Upto(q, k) = Append(Upto(q, k - 1), q[k]) /\ Upto(q, k - 1) \in Seq(Edges)
      /\ Len(Upto(q, k - 1)) = k - 1 /\ Len(Upto(q, k)) = k
  BY <1>2, Prefix
<1>4. Upto(q, k) = NodeOf(Upto(parts, k)) /\ Upto(q, k - 1) = NodeOf(Upto(parts, k - 1))
  BY <1>1, <1>2, NodesOfParts
<1>5. PICK p \in Seq(Edges) : p = Upto(q, k - 1)
  BY <1>3
<1>6. Append(p, q[k]) = Append(node, part)
  BY <1>3, <1>4, <1>5
<1>7. p = node /\ q[k] = part
  <2>1. Len(Append(p, q[k])) = Len(p) + 1 /\ Len(Append(node, part)) = Len(node) + 1
    OBVIOUS
  <2>2. Len(p) = Len(node)
    BY <1>6, <2>1
  <2>3. Append(p, q[k])[Len(p) + 1] = q[k] /\ Append(node, part)[Len(node) + 1] = part
    OBVIOUS
  <2>4. \A j \in 1..Len(p) : Append(p, q[k])[j] = p[j] /\ Append(node, part)[j] = node[j]
    BY <2>2
  <2>5. \A j \in 1..Len(p) : p[j] = node[j]
    BY <1>6, <2>4
  <2>6. p = [j \in 1..Len(p) |-> p[j]] /\ node = [j \in 1..Len(node) |-> node[j]]
    OBVIOUS
  <2>7. [j \in 1..Len(p) |-> p[j]] = [j \in 1..Len(p) |-> node[j]]
    BY <2>5
  <2> QED
    BY <1>6, <2>2, <2>3, <2>6, <2>7
<1>8. parts[k] = part
  <2>1. parts[k] \in Parts /\ Edge(parts[k]) = part /\ part # ParamChild
    BY <1>1, <1>7, EdgeOfPart
  <2> QED
    BY <2>1, EdgeOfPart
<1> QED
  BY <1>4, <1>5, <1>7, <1>8

LEMMA WalkIsWalkIn ==
  /\ \A parts : Walk(parts) = WalkIn(trie, parts)
  /\ \A node : At(node) = AtIn(trie, node)
  BY DEF Walk, WalkIn, Down, DownIn, At, AtIn

(* A walk that misses a route it fits takes a part of the request where the route
   has a parameter. *)
LEMMA WalkTurnsOff ==
  ASSUME NEW tr, NEW calls, TrieOf(tr, calls), NEW parts \in Seq(StaticParts),
         NEW w, IsWalk(w, tr, parts), NEW i \in 1..Len(calls), FitsParts(calls[i], parts),
         w[Len(parts)] # NodeOf(calls[i].parts)
  PROVE  \E k \in 1..Len(parts) :
           /\ calls[i].parts[k].kind = "param"
           /\ w[k - 1] = NodeOf(Upto(calls[i].parts, k - 1)) /\ w[k - 1] \in Seq(Edges)
           /\ w[k] = Append(w[k - 1], parts[k]) /\ w[k] \in DOMAIN tr
<1>1. PICK n \in Nat : n = Len(parts) /\ DOMAIN parts = 1..n
  OBVIOUS
<1>2. PICK r \in Seq(Parts) : r = calls[i].parts /\ Len(r) = n
  <2>1. calls[i] \in Calls
    BY DEF TrieOf
  <2> QED
    BY <1>1, <2>1 DEF Calls, FitsParts
<1>3. \A k \in 1..n : r[k].kind = "static" => r[k] = parts[k]
  BY <1>1, <1>2 DEF FitsParts
<1>4. Nodes(tr) /\ \A k \in 0..n : NodeOf(Upto(r, k)) \in DOMAIN tr
  BY <1>2 DEF TrieOf, Grown
<1>5. PICK q \in Seq(Edges) : q = NodeOf(r) /\ Len(q) = n
  BY <1>2, NodesOfParts
<1>6. \A k \in 0..n : NodeOf(Upto(r, k)) = Upto(q, k)
  BY <1>2, <1>5, NodesOfParts
<1>7. PICK T : T = {k \in 0..n : w[k] = Upto(q, k)}
  OBVIOUS
<1>8. 0 \in T
  BY <1>5, <1>7, Prefix DEF IsWalk, Root
<1>9. n \notin T
  BY <1>1, <1>2, <1>5, <1>7, Prefix
<1>10. PICK k \in 1..n : k - 1 \in T /\ k \notin T
  <2> SUFFICES ASSUME \A k \in 1..n : k - 1 \in T => k \in T
               PROVE  FALSE
    OBVIOUS
  <2>1. \A k \in 0..n : k \in T
    BY <1>8, AllPositions
  <2> QED
    BY <1>9, <2>1
<1>11. w[k - 1] = Upto(q, k - 1) /\ w[k] # Upto(q, k)
  BY <1>7, <1>10
<1>12. PICK node \in Seq(Edges) : node = w[k - 1]
  BY <1>5, <1>11, Prefix
<1>13. Upto(q, k) = Append(node, q[k]) /\ Upto(q, k) \in DOMAIN tr
  <2>1. k \in 0..Len(q) /\ k > 0 /\ k \in 0..n
    BY <1>5
  <2>2. Upto(q, k) = Append(Upto(q, k - 1), q[k])
    BY <2>1, Prefix
  <2>3. Upto(q, k) \in DOMAIN tr
    BY <1>4, <1>6, <2>1
  <2> QED
    BY <1>11, <1>12, <2>2, <2>3
<1>14. q[k] = Edge(r[k]) /\ r[k] \in Parts
  <2>1. \A j \in 1..Len(r) : NodeOf(r)[j] = Edge(r[j])
    BY <1>2, NodesOfParts
  <2>2. k \in 1..Len(r)
    BY <1>2
  <2> QED
    BY <1>2, <1>5, <2>1, <2>2
<1>15. /\ IF w[k] = Nowhere
          THEN Append(node, parts[k]) \notin DOMAIN tr /\ Append(node, ParamChild) \notin DOMAIN tr
          ELSE /\ w[k] \in DOMAIN tr
               /\ \/ w[k] = Append(node, parts[k])
                  \/ w[k] = Append(node, ParamChild) /\ Append(node, parts[k]) \notin DOMAIN tr
  <2>1. k \in 1..Len(parts)
    BY <1>1
  <2>2. IF w[k] = Nowhere
        THEN Append(w[k - 1], parts[k]) \notin DOMAIN tr /\ Append(w[k - 1], ParamChild) \notin DOMAIN tr
        ELSE /\ w[k - 1] # Nowhere
             /\ w[k] \in DOMAIN tr
             /\ \/ w[k] = Append(w[k - 1], parts[k])
                \/ /\ w[k] = Append(w[k - 1], ParamChild)
                   /\ Append(w[k - 1], parts[k]) \notin DOMAIN tr
    BY <1>4, <2>1, StepDown
  <2> QED
    BY <1>12, <2>2
<1>16. r[k].kind = "param"
  <2> SUFFICES ASSUME r[k].kind # "param"
               PROVE  FALSE
    OBVIOUS
  <2>1. q[k] = parts[k]
    BY <1>3, <1>14, EdgeOfPart
  <2> QED
    BY <1>11, <1>13, <1>15, <2>1
<1>17. q[k] = ParamChild
  BY <1>14, <1>16, EdgeOfPart
<1>18. w[k] = Append(node, parts[k]) /\ w[k] \in DOMAIN tr
  BY <1>11, <1>13, <1>15, <1>17
<1>19. node = NodeOf(Upto(r, k - 1))
  BY <1>6, <1>11, <1>12
<1> QED
  BY <1>1, <1>2, <1>12, <1>16, <1>18, <1>19

(* Where it turns off, every route with the node it comes to shadows the one missed. *)
LEMMA TurnShadows ==
  ASSUME NEW s, s.parts \in Seq(Parts), NEW r, r.parts \in Seq(Parts),
         NEW parts \in Seq(StaticParts), NEW k \in 1..Len(parts),
         k \in 1..Len(r.parts), k \in 1..Len(s.parts), r.parts[k].kind = "param",
         NodeOf(Upto(r.parts, k - 1)) \in Seq(Edges),
         NodeOf(Upto(s.parts, k)) = Append(NodeOf(Upto(r.parts, k - 1)), parts[k])
  PROVE  Shadows(s, r, parts)
<1>1. PICK sp \in Seq(Parts), node \in Seq(Edges) :
           sp = s.parts /\ node = NodeOf(Upto(r.parts, k - 1))
  OBVIOUS
<1>2. parts[k] \in StaticParts /\ k \in DOMAIN parts
  OBVIOUS
<1>3. NodeOf(Upto(sp, k - 1)) = node /\ sp[k] = parts[k]
  <2>1. PICK part \in StaticParts : part = parts[k]
    BY <1>2
  <2>2. k \in 1..Len(sp) /\ Takes(sp, k, node, part)
    BY <1>1, <2>1 DEF Takes
  <2>3. Came(sp, k, node, part)
    BY <2>2, EdgeTaken
  <2> QED
    BY <2>1, <2>3 DEF Came
<1> QED
  BY <1>1, <1>2, <1>3 DEF Shadows

LEMMA PartsOfCall ==
  ASSUME NEW tr, NEW calls, TrieOf(tr, calls), NEW i \in 1..Len(calls)
  PROVE  calls[i].parts \in Seq(Parts)
<1>1. calls[i] \in Calls
  BY DEF TrieOf
<1> QED
  BY <1>1 DEF Calls

(* The call whose handler is found is of the method, and fits. *)
Answers(calls, h, m, parts, node) ==
  /\ h \in 1..Len(calls) /\ calls[h].inserted = TRUE /\ calls[h].method = m
  /\ NodeOf(calls[h].parts) = node /\ calls[h].parts \in Seq(Parts)
  /\ FitsParts(calls[h], parts) /\ node # Nowhere

LEMMA FoundFits ==
  ASSUME NEW tr, NEW calls, TrieOf(tr, calls), NEW parts \in Seq(StaticParts), NEW m \in Methods,
         NEW w, IsWalk(w, tr, parts), NEW h, h = AtIn(tr, w[Len(parts)]).handlers[m],
         h # NoHandler
  PROVE  Answers(calls, h, m, parts, w[Len(parts)])
<1>1. PICK n \in Nat : n = Len(parts) /\ DOMAIN parts = 1..n
  OBVIOUS
<1>2. PICK node : node = w[n]
  OBVIOUS
<1>3. node \in DOMAIN tr /\ h = tr[node].handlers[m]
  BY <1>1, <1>2 DEF AtIn, NewNode
<1>4. h \in 1..Len(calls) /\ calls[h].inserted = TRUE /\ calls[h].method = m
      /\ NodeOf(calls[h].parts) = node
  BY <1>3 DEF TrieOf, Handled
<1>5. PICK r \in Seq(Parts) : r = calls[h].parts
  <2>1. calls[h] \in Calls
    BY <1>4 DEF TrieOf
  <2> QED
    BY <2>1 DEF Calls
<1>6. w[n] # Nowhere /\ Nodes(tr)
  BY <1>2, <1>3, NowhereIsNoNode DEF TrieOf
<1>7. Len(node) = n /\ \A j \in 1..n : node[j] \in {parts[j], ParamChild}
  <2>1. n \in 0..Len(parts)
    BY <1>1
  <2> QED
    BY <1>2, <1>6, <2>1, WalkPasses
<1>8. Len(r) = n /\ \A j \in 1..n : node[j] = Edge(r[j])
  BY <1>4, <1>5, <1>7, NodesOfParts
<1>9. ASSUME NEW j \in 1..n, r[j].kind = "static"
      PROVE  r[j] = parts[j]
  <2>1. r[j] \in Parts
    BY <1>8
  <2>2. Edge(r[j]) = r[j] /\ r[j] # ParamChild
    BY <1>9, <2>1, EdgeOfPart
  <2> QED
    BY <1>7, <1>8, <2>2
<1>10. FitsParts(calls[h], parts)
  BY <1>1, <1>5, <1>8, <1>9 DEF FitsParts
<1> QED
  BY <1>1, <1>2, <1>4, <1>5, <1>6, <1>10 DEF Answers

(* Where a walk has turned off a route it misses, every call that came through the
   node there shadows the route. *)
LEMMA CallsThereShadow ==
  ASSUME NEW tr, NEW calls, TrieOf(tr, calls), NEW parts \in Seq(StaticParts),
         NEW i \in 1..Len(calls), FitsParts(calls[i], parts), NEW k \in 1..Len(parts),
         calls[i].parts[k].kind = "param", NEW node \in Seq(Edges),
         node = NodeOf(Upto(calls[i].parts, k - 1)), NEW s, s.parts \in Seq(Parts),
         k \in 1..Len(s.parts), NodeOf(Upto(s.parts, k)) = Append(node, parts[k])
  PROVE  Shadows(s, calls[i], parts)
<1>1. PICK r : r = calls[i]
  OBVIOUS
<1>2. r.parts \in Seq(Parts)
  BY <1>1, PartsOfCall
<1>3. k \in 1..Len(r.parts)
  BY <1>1 DEF FitsParts
<1> QED
  BY <1>1, <1>2, <1>3, TurnShadows

(* Any other route that fits is shadowed by the one that answers. *)
LEMMA OthersAreShadowed ==
  ASSUME NEW tr, NEW calls, TrieOf(tr, calls), NEW parts \in Seq(StaticParts), NEW m \in Methods,
         NEW w, IsWalk(w, tr, parts), NEW h, h = AtIn(tr, w[Len(parts)]).handlers[m],
         h # NoHandler, NEW i \in 1..Len(calls), calls[i].inserted = TRUE, calls[i].method = m,
         FitsParts(calls[i], parts), i # h
  PROVE  Shadows(calls[h], calls[i], parts)
<1>1. PICK n \in Nat : n = Len(parts)
  OBVIOUS
<1>2. /\ h \in 1..Len(calls) /\ calls[h].inserted = TRUE /\ calls[h].method = m
      /\ NodeOf(calls[h].parts) = w[n] /\ calls[h].parts \in Seq(Parts)
      /\ FitsParts(calls[h], parts) /\ w[n] # Nowhere
  <2>1. Answers(calls, h, m, parts, w[Len(parts)])
    BY FoundFits
  <2> QED
    BY <1>1, <2>1 DEF Answers
<1>3. w[n] # NodeOf(calls[i].parts)
  <2>1. tr[NodeOf(calls[i].parts)].handlers[m] = i /\ tr[NodeOf(calls[h].parts)].handlers[m] = h
    BY <1>2 DEF TrieOf, Handled
  <2> QED
    BY <1>2, <2>1
<1>4. PICK k \in 1..n :
           /\ calls[i].parts[k].kind = "param"
           /\ w[k - 1] = NodeOf(Upto(calls[i].parts, k - 1)) /\ w[k - 1] \in Seq(Edges)
           /\ w[k] = Append(w[k - 1], parts[k]) /\ w[k] \in DOMAIN tr
  BY <1>1, <1>3, WalkTurnsOff
<1>5. PICK s, q : s = calls[h] /\ s.parts \in Seq(Parts) /\ q = w[n]
  BY <1>2
<1>6. PICK sp \in Seq(Parts) : sp = s.parts
  BY <1>5
<1>7. Len(sp) = n /\ NodeOf(sp) = q
  BY <1>1, <1>2, <1>5, <1>6 DEF FitsParts
<1>8. NodeOf(Upto(sp, k)) = w[k]
  <2>1. k \in 0..Len(sp) /\ n \in 0..Len(parts) /\ k \in 0..n
    BY <1>1, <1>7
  <2>2. NodeOf(Upto(sp, k)) = Upto(q, k)
    BY <1>7, <2>1, NodesOfParts
  <2>3. Nodes(tr)
    BY DEF TrieOf
  <2>4. \A j \in 0..n : w[j] = Upto(w[n], j)
    BY <1>2, <2>1, <2>3, WalkPasses
  <2> QED
    BY <1>5, <2>1, <2>2, <2>4
<1>9. PICK node \in Seq(Edges) : node = w[k - 1]
  BY <1>4
<1>10. k \in 1..Len(parts) /\ k \in 1..Len(s.parts) /\ s.parts \in Seq(Parts)
  BY <1>1, <1>5, <1>6, <1>7
<1>11. /\ calls[i].parts[k].kind = "param" /\ node = NodeOf(Upto(calls[i].parts, k - 1))
       /\ NodeOf(Upto(s.parts, k)) = Append(node, parts[k])
  BY <1>4, <1>5, <1>6, <1>8, <1>9
<1>12. Shadows(s, calls[i], parts)
  BY <1>10, <1>11, CallsThereShadow
<1> QED
  BY <1>5, <1>12

(* A node that is not the root is one a call came through. *)
LEMMA SomeCallCame ==
  ASSUME NEW tr, NEW calls, TrieOf(tr, calls), NEW node \in DOMAIN tr, NEW k \in Nat \ {0},
         Len(node) = k
  PROVE  \E j \in 1..Len(calls) : /\ calls[j].parts \in Seq(Parts)
                                  /\ k \in 1..Len(calls[j].parts)
                                  /\ NodeOf(Upto(calls[j].parts, k)) = node
<1>1. node # Root
  BY DEF Root
<1>2. PICK j \in 1..Len(calls) : \E i \in 1..Len(calls[j].parts) :
                                   node = NodeOf(Upto(calls[j].parts, i))
  BY <1>1 DEF TrieOf, Grown
<1>3. PICK jp \in Seq(Parts) : jp = calls[j].parts
  BY PartsOfCall
<1>4. PICK i \in 1..Len(jp) : node = NodeOf(Upto(jp, i))
  BY <1>2, <1>3
<1>5. Len(node) = i
  <2>1. i \in 0..Len(jp)
    OBVIOUS
  <2> QED
    BY <1>4, <2>1, NodesOfParts
<1> QED
  BY <1>3, <1>4, <1>5

(* A route that fits a request without an answer is shadowed by another. *)
LEMMA MissedIsShadowed ==
  ASSUME NEW tr, NEW calls, TrieOf(tr, calls), NEW parts \in Seq(StaticParts), NEW m \in Methods,
         NEW w, IsWalk(w, tr, parts), AtIn(tr, w[Len(parts)]).handlers[m] = NoHandler,
         NEW i \in 1..Len(calls), calls[i].inserted = TRUE, calls[i].method = m,
         FitsParts(calls[i], parts)
  PROVE  \E j \in 1..Len(calls) : Shadows(calls[j], calls[i], parts)
<1>1. w[Len(parts)] # NodeOf(calls[i].parts)
  <2>1. PICK r \in Seq(Parts) : r = calls[i].parts
    BY PartsOfCall
  <2>2. Len(r) \in 0..Len(r)
    BY <2>1
  <2>3. NodeOf(Upto(r, Len(r))) \in DOMAIN tr
    BY <2>1, <2>2 DEF TrieOf, Grown
  <2>4. NodeOf(r) \in DOMAIN tr
    BY <2>1, <2>3, NodesOfParts
  <2>5. tr[NodeOf(r)].handlers[m] = i
    BY <2>1 DEF TrieOf, Handled
  <2> QED
    BY <2>1, <2>4, <2>5 DEF AtIn, NoHandler
<1>2. PICK k \in 1..Len(parts) :
           /\ calls[i].parts[k].kind = "param"
           /\ w[k - 1] = NodeOf(Upto(calls[i].parts, k - 1)) /\ w[k - 1] \in Seq(Edges)
           /\ w[k] = Append(w[k - 1], parts[k]) /\ w[k] \in DOMAIN tr
  BY <1>1, WalkTurnsOff
<1>3. PICK node \in Seq(Edges) : node = w[k - 1]
  BY <1>2
<1>4. Len(w[k]) = k
  <2>1. Nodes(tr) /\ Nowhere \notin DOMAIN tr
    BY NowhereIsNoNode DEF TrieOf
  <2>2. k \in 0..Len(parts)
    OBVIOUS
  <2>3. w[k] # Nowhere
    BY <1>2, <2>1
  <2> QED
    BY <2>1, <2>2, <2>3, WalkPasses
<1>5. PICK there : there = w[k] /\ there \in DOMAIN tr /\ Len(there) = k /\ k \in Nat \ {0}
  <2>1. k \in Nat \ {0}
    OBVIOUS
  <2> QED
    BY <1>2, <1>4, <2>1
<1>6. PICK j \in 1..Len(calls) : /\ calls[j].parts \in Seq(Parts)
                                 /\ k \in 1..Len(calls[j].parts)
                                 /\ NodeOf(Upto(calls[j].parts, k)) = there
  BY <1>5, SomeCallCame
<1>7. PICK s : s = calls[j]
  OBVIOUS
<1>8. /\ calls[i].parts[k].kind = "param" /\ node = NodeOf(Upto(calls[i].parts, k - 1))
      /\ s.parts \in Seq(Parts) /\ k \in 1..Len(s.parts)
      /\ NodeOf(Upto(s.parts, k)) = Append(node, parts[k])
  BY <1>2, <1>3, <1>5, <1>6, <1>7
<1>9. Shadows(s, calls[i], parts)
  BY <1>8, CallsThereShadow
<1> QED
  BY <1>7, <1>9

(* A registration that takes a request away from its route has put a new node in its
   way: the new route is inserted, and shadows the old one. *)
TakenBy(s, r, parts) == s.inserted = TRUE /\ Shadows(s, r, parts)

LEMMA TakenIsShadowed ==
  ASSUME NEW tr, NEW calls, NEW tr2, NEW calls2, NEW method, NEW new,
         Registration(tr, calls, tr2, calls2, method, new), TrieOf(tr2, calls2),
         NEW parts \in Seq(StaticParts), NEW m \in Methods,
         NEW w, IsWalk(w, tr, parts), NEW w2, IsWalk(w2, tr2, parts),
         NEW h, h = AtIn(tr, w[Len(parts)]).handlers[m], h # NoHandler,
         AtIn(tr2, w2[Len(parts)]).handlers[m] # h
  PROVE  TakenBy(calls2[Len(calls2)], calls[h], parts)
<1> /\ TrieOf(tr, calls) /\ method \in Methods /\ new \in Seq(Parts) /\ Nodes(tr) /\ Nodes(tr2)
  BY DEF Registration, TrieOf
<1>1. PICK n \in Nat : n = Len(parts)
  OBVIOUS
<1>2. /\ h \in 1..Len(calls) /\ calls[h].inserted = TRUE /\ calls[h].method = m
      /\ NodeOf(calls[h].parts) = w[n] /\ calls[h].parts \in Seq(Parts)
      /\ FitsParts(calls[h], parts) /\ w[n] # Nowhere
  <2>1. Answers(calls, h, m, parts, w[Len(parts)])
    BY FoundFits
  <2> QED
    BY <1>1, <2>1 DEF Answers
<1>3. PICK last \in Nat : /\ last = Len(calls2) /\ last = Len(calls) + 1
                          /\ calls2[last].parts = new
                          /\ calls2[last].inserted = TRUE
                               <=> AtIn(tr, NodeOf(new)).handlers[method] = NoHandler
                          /\ \A i \in 1..Len(calls) : calls2[i] = calls[i]
  <2>1. CallsAfter(tr, calls, calls2, method, new)
    BY AfterCall
  <2> QED
    BY <2>1 DEF CallsAfter
<1>4. PICK old, r : old = calls[h] /\ r = old.parts /\ r \in Seq(Parts) /\ old = calls2[h]
  BY <1>2, <1>3
<1>5. /\ h \in 1..Len(calls2) /\ FitsParts(old, parts) /\ Len(r) = n
      /\ NodeOf(r) = w[n] /\ old.inserted = TRUE /\ old.method = m
  <2>1. h \in 1..Len(calls2)
    BY <1>2, <1>3
  <2>2. FitsParts(old, parts) /\ old.inserted = TRUE /\ old.method = m /\ NodeOf(r) = w[n]
    BY <1>2, <1>4
  <2>3. Len(r) = n
    BY <1>1, <1>4, <2>2 DEF FitsParts
  <2> QED
    BY <2>1, <2>2, <2>3
<1>6. w2[n] # NodeOf(r)
  <2>1. NodeOf(r) \in DOMAIN tr2
    <3>1. n \in 0..Len(r)
      BY <1>1, <1>5
    <3>2. NodeOf(Upto(r, n)) \in DOMAIN tr2
      BY <1>4, <1>5, <3>1 DEF TrieOf, Grown
    <3> QED
      BY <1>4, <1>5, <3>2, NodesOfParts
  <2>2. tr2[NodeOf(r)].handlers[m] = h
    <3>1. \A i \in 1..Len(calls2) : calls2[i].inserted = TRUE =>
            tr2[NodeOf(calls2[i].parts)].handlers[calls2[i].method] = i
      BY DEF TrieOf, Handled
    <3> QED
      BY <1>4, <1>5, <3>1
  <2> QED
    BY <1>1, <2>1, <2>2 DEF AtIn
<1>7. PICK k \in 1..n :
           /\ r[k].kind = "param"
           /\ w2[k - 1] = NodeOf(Upto(r, k - 1)) /\ w2[k - 1] \in Seq(Edges)
           /\ w2[k] = Append(w2[k - 1], parts[k]) /\ w2[k] \in DOMAIN tr2
  <2>1. FitsParts(calls2[h], parts)
    BY <1>4, <1>5
  <2>2. w2[Len(parts)] # NodeOf(calls2[h].parts)
    BY <1>1, <1>4, <1>6
  <2>3. \E k \in 1..Len(parts) :
           /\ calls2[h].parts[k].kind = "param"
           /\ w2[k - 1] = NodeOf(Upto(calls2[h].parts, k - 1)) /\ w2[k - 1] \in Seq(Edges)
           /\ w2[k] = Append(w2[k - 1], parts[k]) /\ w2[k] \in DOMAIN tr2
    BY <1>5, <2>1, <2>2, WalkTurnsOff
  <2> QED
    BY <1>1, <1>4, <2>3
<1>8. PICK node \in Seq(Edges), part \in StaticParts : node = w2[k - 1] /\ part = parts[k]
  BY <1>1, <1>7
<1>9. k \in 0..n /\ k - 1 \in 0..n /\ k \in 1..Len(parts) /\ k \in 1..Len(r) /\ k \in Nat
  BY <1>1, <1>5
<1>10. w[k - 1] = node /\ w[k] = NodeOf(Upto(r, k)) /\ w[k] # Nowhere
  <2>1. n \in 0..Len(parts)
    BY <1>1
  <2>2. \A j \in 0..n : w[j] = Upto(w[n], j) /\ w[j] # Nowhere
    BY <1>2, <2>1, WalkPasses, SMTT(30)
  <2>3. \A j \in 0..n : NodeOf(Upto(r, j)) = Upto(NodeOf(r), j)
    BY <1>4, <1>5, NodesOfParts
  <2> QED
    BY <1>5, <1>7, <1>8, <1>9, <2>2, <2>3
<1>11. Append(node, part) \notin DOMAIN tr
  <2> SUFFICES ASSUME Append(node, part) \in DOMAIN tr
               PROVE  FALSE
    OBVIOUS
  <2>1. w[k] = DownIn(tr, node, part)
    BY <1>8, <1>9, <1>10 DEF IsWalk
  <2>2. Takes(r, k, node, part)
    BY <1>10, <2>1 DEF DownIn, Takes
  <2>3. Came(r, k, node, part)
    BY <1>4, <1>9, <2>2, EdgeTaken
  <2>4. r[k] \in StaticParts
    BY <2>3 DEF Came
  <2> QED
    BY <1>7, <2>4, EdgeOfPart
<1>12. Append(node, part) \in Passed(new)
  <2>1. DOMAIN tr2 = DOMAIN tr \cup Passed(new)
    <3>1. NodesAfter(tr, calls, tr2, method, new)
      BY AfterNodes
    <3> QED
      BY <3>1 DEF NodesAfter
  <2> QED
    BY <1>7, <1>8, <1>11, <2>1
<1>13. PICK i \in 0..Len(new) : /\ NodeOf(Upto(new, i)) = Append(node, part)
                                /\ Upto(NodeOf(new), i) = Append(node, part)
  BY <1>12, PassedNodes
<1>14. i = k
  <2>1. Len(NodeOf(Upto(new, i))) = i
    BY NodesOfParts
  <2>2. Len(node) = k - 1
    <3>1. Len(NodeOf(Upto(r, k - 1))) = k - 1
      BY <1>4, <1>5, <1>9, NodesOfParts
    <3> QED
      BY <1>7, <1>8, <3>1
  <2>3. Len(Append(node, part)) = Len(node) + 1
    OBVIOUS
  <2> QED
    BY <1>9, <1>13, <2>1, <2>2, <2>3
<1>15. calls2[last].inserted = TRUE
  <2>1. PICK q : q = NodeOf(new) /\ Len(q) = Len(new)
    BY NodesOfParts
  <2>2. Upto(q, k) \notin DOMAIN tr /\ k \in 0..Len(q)
    BY <1>11, <1>13, <1>14, <2>1
  <2>3. q \notin DOMAIN tr
    BY <2>2 DEF Nodes
  <2>4. AtIn(tr, q).handlers[method] = NoHandler
    BY <2>3 DEF AtIn, NewNode
  <2> QED
    BY <1>3, <2>1, <2>4
<1>16. PICK s : s = calls2[last] /\ s.parts = new
  BY <1>3
<1>17. Shadows(s, old, parts)
  <2>1. s.parts \in Seq(Parts) /\ k \in 1..Len(s.parts)
    BY <1>9, <1>13, <1>14, <1>16
  <2>2. node = NodeOf(Upto(calls2[h].parts, k - 1)) /\ calls2[h].parts[k].kind = "param"
    BY <1>4, <1>7, <1>8
  <2>3. NodeOf(Upto(s.parts, k)) = Append(node, parts[k])
    BY <1>8, <1>13, <1>14, <1>16
  <2>4. FitsParts(calls2[h], parts)
    BY <1>4, <1>5
  <2>5. Shadows(s, calls2[h], parts)
    BY <1>5, <1>9, <2>1, <2>2, <2>3, <2>4, CallsThereShadow
  <2> QED
    BY <1>4, <2>5
<1> QED
  BY <1>3, <1>4, <1>15, <1>16, <1>17 DEF TakenBy

-----------------------------------------------------------------------------
(* The properties. *)

HandlerIn(tr, method, parts) == AtIn(tr, WalkIn(tr, parts)).handlers[method]

(* A request, its parts and the walk along them. *)
Walks(tr, path, parts, w) ==
  /\ parts = splitPath(path) /\ DOMAIN parts = 1..Len(parts)
  /\ IsWalk(w, tr, parts)
  /\ \A k \in 0..Len(parts) : WalkIn(tr, Upto(parts, k)) = w[k]
  /\ \A method : HandlerIn(tr, method, parts) = AtIn(tr, w[Len(parts)]).handlers[method]

LEMMA Request ==
  ASSUME NEW tr, NEW path \in Paths
  PROVE  \E parts \in Seq(StaticParts) : \E w : Walks(tr, path, parts, w)
<1>1. PICK parts \in Seq(StaticParts) : parts = splitPath(path)
  BY SplitParts
<1>2. PICK w : IsWalk(w, tr, parts) /\ \A k \in 0..Len(parts) : WalkIn(tr, Upto(parts, k)) = w[k]
  BY WalkUpto
<1>3. PICK n \in Nat : n = Len(parts) /\ n \in 0..Len(parts) /\ DOMAIN parts = 1..n
                       /\ Upto(parts, n) = parts
  BY Prefix
<1>4. WalkIn(tr, parts) = w[n]
  BY <1>2, <1>3
<1>5. \A method : HandlerIn(tr, method, parts) = AtIn(tr, w[Len(parts)]).handlers[method]
  BY <1>3, <1>4 DEF HandlerIn
<1>6. Walks(tr, path, parts, w)
  BY <1>1, <1>2, <1>3, <1>5 DEF Walks
<1> QED
  BY <1>6

LEMMA HandlerIsHandlerIn ==
  \A method, path : Handler(method, path) = HandlerIn(trie, method, splitPath(path))
  BY WalkIsWalkIn DEF Handler, HandlerIn

LEMMA HandlerAfter ==
  ASSUME NEW m, NEW path
  PROVE  Handler(m, path)' = HandlerIn(trie', m, splitPath(path))
<1>1. \A parts : Walk(parts)' = WalkIn(trie', parts)
  BY DEF Walk, WalkIn, Down, DownIn
<1>2. \A node : At(node)' = AtIn(trie', node)
  BY DEF At, AtIn
<1>3. PICK parts : parts = splitPath(path)
  OBVIOUS
<1>4. Handler(m, path)' = At(Walk(parts))'.handlers[m]
  BY <1>3 DEF Handler
<1>5. At(Walk(parts))' = AtIn(trie', Walk(parts)')
  BY DEF At, AtIn
<1> QED
  BY <1>1, <1>3, <1>4, <1>5 DEF HandlerIn

LEMMA FittingCalls ==
  ASSUME RouterInv, NEW method, NEW parts, NEW i
  PROVE  i \in Fitting(method, parts)
           <=> /\ i \in 1..Len(routes) /\ routes[i].inserted = TRUE
               /\ routes[i].method = method /\ FitsParts(routes[i], parts)
<1>1. routes \in Seq(Calls) /\ DOMAIN routes = 1..Len(routes)
  BY DEF RouterInv, TrieOf
<1>2. \A j \in 1..Len(routes) : routes[j].inserted \in BOOLEAN
  <2>1. \A j \in 1..Len(routes) : routes[j] \in Calls
    BY <1>1
  <2>2. \A call \in Calls : call.inserted \in BOOLEAN
    BY DEF Calls
  <2> QED
    BY <2>1, <2>2
<1> QED
  BY <1>1, <1>2 DEF Fitting

(* A request is answered by a route it fits, and wherever another that fits first
   differs from that route, the answer has the text and the other a parameter: the
   static child is tried before the parameter (router.cc:59). *)
THEOREM BestRouteAlwaysAnswers == Spec => []BestRouteAnswers
<1>1. RouterInv => BestRouteAnswers
  <2> SUFFICES ASSUME RouterInv, NEW method \in Methods, NEW path \in Paths,
                      Handler(method, path) # NoHandler
               PROVE  LET parts == splitPath(path)
                          h == Handler(method, path)
                      IN /\ h \in Fitting(method, parts)
                         /\ \A i \in Fitting(method, parts) \ {h} :
                              Shadows(routes[h], routes[i], parts)
    BY DEF BestRouteAnswers
  <2>0. PICK parts \in Seq(StaticParts) : \E w : Walks(trie, path, parts, w)
    BY Request
  <2>1. PICK w : /\ parts = splitPath(path) /\ IsWalk(w, trie, parts)
                 /\ HandlerIn(trie, method, parts) = AtIn(trie, w[Len(parts)]).handlers[method]
    BY <2>0 DEF Walks
  <2>2. PICK h : h = Handler(method, path) /\ h # NoHandler
                 /\ h = AtIn(trie, w[Len(parts)]).handlers[method]
    BY <2>1, HandlerIsHandlerIn
  <2>3. TrieOf(trie, routes)
    BY DEF RouterInv
  <2>4. h \in Fitting(method, parts)
    <3>1. Answers(routes, h, method, parts, w[Len(parts)])
      BY <2>1, <2>2, <2>3, FoundFits
    <3> QED
      BY <3>1, FittingCalls DEF Answers
  <2>5. ASSUME NEW i \in Fitting(method, parts), i # h
        PROVE  Shadows(routes[h], routes[i], parts)
    <3>1. /\ i \in 1..Len(routes) /\ routes[i].inserted = TRUE
          /\ routes[i].method = method /\ FitsParts(routes[i], parts)
      BY FittingCalls
    <3> QED
      BY <2>1, <2>2, <2>3, <2>5, <3>1, OthersAreShadowed
  <2> QED
    BY <2>1, <2>2, <2>4, <2>5
<1> QED
  BY <1>1, TrieIsOfItsRoutes, PTL

(* A request that fits a route and is not answered has been led away from it by a
   route that shadows it: match() does not go back (router.cc:61). *)
THEOREM MissesAlwaysShadowed == Spec => []MissesAreShadowed
<1>1. RouterInv => MissesAreShadowed
  <2> SUFFICES ASSUME RouterInv, NEW method \in Methods, NEW path \in Paths,
                      Handler(method, path) = NoHandler,
                      NEW i \in Fitting(method, splitPath(path))
               PROVE  \E j \in DOMAIN routes : Shadows(routes[j], routes[i], splitPath(path))
    BY DEF MissesAreShadowed
  <2>0. PICK parts \in Seq(StaticParts) : \E w : Walks(trie, path, parts, w)
    BY Request
  <2>1. PICK w : /\ parts = splitPath(path) /\ IsWalk(w, trie, parts)
                 /\ HandlerIn(trie, method, parts) = AtIn(trie, w[Len(parts)]).handlers[method]
    BY <2>0 DEF Walks
  <2>2. AtIn(trie, w[Len(parts)]).handlers[method] = NoHandler
    BY <2>1, HandlerIsHandlerIn
  <2>3. TrieOf(trie, routes) /\ DOMAIN routes = 1..Len(routes)
    BY DEF RouterInv, TrieOf
  <2>4. /\ i \in 1..Len(routes) /\ routes[i].inserted = TRUE
        /\ routes[i].method = method /\ FitsParts(routes[i], parts)
    BY <2>1, FittingCalls
  <2>5. \E j \in 1..Len(routes) : Shadows(routes[j], routes[i], parts)
    BY <2>1, <2>2, <2>3, <2>4, MissedIsShadowed
  <2> QED
    BY <2>1, <2>3, <2>5
<1> QED
  BY <1>1, TrieIsOfItsRoutes, PTL

(* Registering a route takes a request away from its handler only where the new
   route, inserted, shadows the old one; a call that is refused (router.cc:35)
   takes none. *)
THEOREM RegistrationAlwaysShadows == Spec => RegistrationShadowsOnly
<1>1. RouterInv /\ RouterInv' /\ [Next]_vars =>
        [\A method \in Methods, path \in Paths :
           LET h == Handler(method, path) IN
           h # NoHandler /\ Handler(method, path)' # h =>
             /\ routes'[Len(routes')].inserted
             /\ Shadows(routes'[Len(routes')], routes[h], splitPath(path))]_vars
  <2> SUFFICES ASSUME RouterInv, RouterInv', Next, NEW m \in Methods, NEW path \in Paths,
                      Handler(m, path) # NoHandler, Handler(m, path)' # Handler(m, path)
               PROVE  /\ routes'[Len(routes')].inserted
                      /\ Shadows(routes'[Len(routes')], routes[Handler(m, path)], splitPath(path))
    OBVIOUS
  <2>1. PICK method \in Methods, new \in Seq(Parts) :
               Registers(trie, routes, trie', routes', method, new)
    BY NextRegisters
  <2>2. Registration(trie, routes, trie', routes', method, new) /\ TrieOf(trie', routes')
    BY <2>1 DEF RouterInv, Registration
  <2>8. PICK parts \in Seq(StaticParts) : \E w : Walks(trie, path, parts, w)
    BY Request
  <2>3. PICK w : /\ parts = splitPath(path) /\ IsWalk(w, trie, parts)
                 /\ HandlerIn(trie, m, parts) = AtIn(trie, w[Len(parts)]).handlers[m]
    BY <2>8 DEF Walks
  <2>4. PICK w2 : /\ IsWalk(w2, trie', parts)
                  /\ HandlerIn(trie', m, parts) = AtIn(trie', w2[Len(parts)]).handlers[m]
    <3>1. PICK again \in Seq(StaticParts) : \E w2 : Walks(trie', path, again, w2)
      BY Request
    <3>2. PICK w2 : Walks(trie', path, again, w2)
      BY <3>1
    <3>3. again = parts
      BY <2>3, <3>2 DEF Walks
    <3> QED
      BY <3>2, <3>3 DEF Walks
  <2>5. Handler(m, path)' = HandlerIn(trie', m, parts)
    BY <2>3, HandlerAfter
  <2>6. PICK h : h = Handler(m, path) /\ h # NoHandler
                 /\ h = AtIn(trie, w[Len(parts)]).handlers[m]
                 /\ AtIn(trie', w2[Len(parts)]).handlers[m] # h
    BY <2>3, <2>4, <2>5, HandlerIsHandlerIn
  <2>7. TakenBy(routes'[Len(routes')], routes[h], parts)
    BY <2>2, <2>3, <2>4, <2>6, TakenIsShadowed
  <2> QED
    BY <2>3, <2>6, <2>7 DEF TakenBy
<1> QED
  BY <1>1, TrieIsOfItsRoutes, PTL DEF Spec, RegistrationShadowsOnly

LEMMA ParamIsItsText ==
  ASSUME NEW a \in Parts, NEW b \in Parts, a.kind = "param", b.kind = "param", a.text = b.text
  PROVE  a = b
<1>1. \A part \in Parts : part.kind = "param" => \E n \in Names : part = Param(n)
  BY DEF Parts, StaticParts, Static
<1>2. PICK n \in Names : a = Param(n)
  BY <1>1
<1>3. PICK m \in Names : b = Param(m)
  BY <1>1
<1> QED
  BY <1>2, <1>3 DEF Param

(* The handler finds each parameter of its route under the name it has there, unless
   it has been named otherwise by a call that came later, refused or not: the names
   are set on the way down (router.cc:22), before try_emplace() refuses (router.cc:35). *)
THEOREM ParamsAlwaysBoundUnlessRenamed == Spec => []ParamsBoundUnlessRenamed
<1>1. RouterInv => ParamsBoundUnlessRenamed
  <2> SUFFICES ASSUME RouterInv, NEW method \in Methods, NEW path \in Paths,
                      NEW p, p = splitPath(path), NEW h, h = Handler(method, path),
                      h # NoHandler,
                      \A j \in h + 1..Len(routes), k \in DOMAIN p : ~Renames(j, h, k),
                      NEW k \in DOMAIN p, ParamAt(routes[h], k)
               PROVE  BoundTo(p, routes[h].parts[k].text, k)
    BY DEF ParamsBoundUnlessRenamed
  <2>1. PICK parts \in Seq(StaticParts) : \E w : Walks(trie, path, parts, w)
    BY Request
  <2>2. PICK w : /\ parts = p /\ IsWalk(w, trie, parts)
                 /\ \A j \in 0..Len(parts) : Walk(Upto(parts, j)) = w[j]
                 /\ HandlerIn(trie, method, parts) = AtIn(trie, w[Len(parts)]).handlers[method]
    BY <2>1, WalkIsWalkIn DEF Walks
  <2>3. PICK n \in Nat : n = Len(parts) /\ DOMAIN parts = 1..n /\ n \in 0..Len(parts)
    OBVIOUS
  <2>4. TrieOf(trie, routes) /\ Nodes(trie)
    BY DEF RouterInv, TrieOf
  <2>5. /\ h \in 1..Len(routes) /\ NodeOf(routes[h].parts) = w[n] /\ w[n] # Nowhere
        /\ routes[h].parts \in Seq(Parts) /\ FitsParts(routes[h], parts)
    <3>1. h = AtIn(trie, w[Len(parts)]).handlers[method]
      BY <2>2, HandlerIsHandlerIn
    <3>2. Answers(routes, h, method, parts, w[Len(parts)])
      BY <2>2, <2>4, <3>1, FoundFits
    <3> QED
      BY <2>3, <3>2 DEF Answers
  <2>6. PICK r \in Seq(Parts) : r = routes[h].parts /\ Len(r) = n /\ DOMAIN r = 1..n
    BY <2>3, <2>5 DEF FitsParts
  <2>7. PICK q \in Seq(Edges) : q = NodeOf(r) /\ q = w[n] /\ Len(q) = n
                                /\ \A j \in 1..n : q[j] = Edge(r[j])
    BY <2>5, <2>6, NodesOfParts
  <2>8. ASSUME NEW j \in 1..n
        PROVE  /\ w[j] # Nowhere /\ Last(w[j]) = Edge(r[j]) /\ w[j] = NodeOf(Upto(r, j))
               /\ Walk(Upto(parts, j)) = w[j]
    <3>1. j \in 0..n /\ j \in 0..Len(q) /\ j \in 0..Len(r) /\ j \in 0..Len(parts)
      BY <2>3, <2>6, <2>7
    <3>2. w[j] = Upto(q, j) /\ w[j] # Nowhere
      <4>1. \A i \in 0..n : w[i] = Upto(w[n], i) /\ w[i] # Nowhere
        BY <2>2, <2>3, <2>4, <2>5, WalkPasses, SMTT(30)
      <4> QED
        BY <2>7, <3>1, <4>1
    <3>3. PICK s \in Seq(Edges) : s = w[j] /\ Len(s) = j /\ s[j] = q[j]
      BY <3>1, <3>2, Prefix
    <3>4. Last(w[j]) = Edge(r[j])
      BY <2>7, <3>3 DEF Last
    <3>5. w[j] = NodeOf(Upto(r, j))
      <4>1. NodeOf(Upto(r, j)) = Upto(NodeOf(r), j)
        BY <3>1, NodesOfParts
      <4> QED
        BY <2>7, <3>2, <4>1
    <3> QED
      BY <2>2, <3>1, <3>2, <3>4, <3>5
  <2>9. ASSUME NEW j \in 1..n, r[j].kind = "param"
        PROVE  trie[w[j]].name = r[j].text
    <3>1. \A i \in h + 1..Len(routes) : KeepsName(routes, i, h, j)
      <4>1. \A i \in h + 1..Len(routes) : ~Renames(i, h, j)
        BY <2>2, <2>3
      <4> QED
        BY <4>1 DEF Renames, KeepsName
    <3>2. j \in 1..Len(routes[h].parts) /\ routes[h].parts[j].kind = "param"
      BY <2>6, <2>9
    <3>3. trie[NodeOf(Upto(routes[h].parts, j))].name = routes[h].parts[j].text
      BY <2>4, <2>5, <3>1, <3>2 DEF TrieOf, Named
    <3> QED
      BY <2>6, <2>8, <3>3
  <2>10. \A j \in 1..n : Binds(parts, j) <=> r[j].kind = "param"
    <3>1. \A j \in 1..n : r[j] \in Parts
      BY <2>6
    <3> QED
      BY <2>8, <3>1, EdgeOfPart DEF Binds
  <2>11. r[k].kind = "param" /\ k \in 1..n /\ \A j \in 1..n \ {k} : r[j] # r[k]
    BY <2>2, <2>3, <2>6 DEF ParamAt
  <2>12. Binds(parts, k) /\ trie[Walk(Upto(parts, k))].name = r[k].text
    BY <2>8, <2>9, <2>10, <2>11
  <2>13. ASSUME NEW j \in k + 1..Len(parts), Binds(parts, j),
                trie[Walk(Upto(parts, j))].name = r[k].text
         PROVE  FALSE
    <3>1. j \in 1..n /\ j # k
      BY <2>3, <2>11
    <3>2. r[j].kind = "param" /\ r[j].text = r[k].text
      BY <2>8, <2>9, <2>10, <2>13, <3>1
    <3>3. r[j] \in Parts /\ r[k] \in Parts
      BY <2>6, <2>11, <3>1
    <3>4. r[j] = r[k]
      BY <2>11, <3>2, <3>3, ParamIsItsText
    <3> QED
      BY <2>11, <3>1, <3>4
  <2> QED
    BY <2>2, <2>6, <2>12, <2>13 DEF BoundTo
<1> QED
  BY <1>1, TrieIsOfItsRoutes, PTL

=============================================================================
