---------------------------- MODULE GraphProofs ----------------------------
(***************************************************************************)
(* The generator of data graphs, proved for every tree of spawns, every    *)
(* set of writes and every number of both.  GraphInv is the inductive      *)
(* invariant: the shape of the two graphs (Shape), where the breadth-first *)
(* traversal is (Walk), where the search for the common ancestor is        *)
(* (Search), which spawns carry which pipes (Pipes) and what the lists of  *)
(* dag::Data hold (Lists).                                                 *)
(***************************************************************************)
EXTENDS DataGraph, InductionProofs

-----------------------------------------------------------------------------
(* The tree of spawns *)

(* The tree is complete, and every node came after its parent. *)
Tree == parent \in Seq(NodeIndex) /\ Len(parent) = GraphSpawns
        /\ \A n \in 1 .. GraphSpawns : parent[n] \in NodeIndex /\ parent[n] < n

LEMMA UpIn ==
    ASSUME Tree
    PROVE  /\ \A n \in NodeIndex : Up(n) \in NodeIndex /\ (n # Root => Up(n) < n)
           /\ Up(Root) = Root /\ Root \in NodeIndex /\ NodeIndex \subseteq Nat
           /\ 1 .. GraphSpawns = NodeIndex \ {Root} /\ GraphSpawns \in Nat
  BY GraphAssumption DEF Tree, Up, NodeIndex, Root

LEMMA ClimbedIs ==
    ASSUME Tree
    PROVE  /\ climbed \in [Nat -> [NodeIndex -> NodeIndex]]
           /\ \A n \in NodeIndex : climbed[0][n] = n
           /\ \A k \in Nat, n \in NodeIndex : climbed[k + 1][n] = Up(climbed[k][n])
  <1> DEFINE X == [NodeIndex -> NodeIndex]
             id == [n \in NodeIndex |-> n]
             F == [k \in Nat |-> [f \in X |-> [n \in NodeIndex |-> Up(f[n])]]]
  <1>1. id \in X /\ F \in [Nat -> [X -> X]]
    BY UpIn
  <1>2. PICK g : Recursion(g, X, id, F)
    <2> HIDE DEF X, id, F
    <2> QED BY <1>1, Iterates
  <1>3. ASSUME NEW k \in Nat
        PROVE  g[k] = [n \in NodeIndex |-> IF k = 0 THEN n ELSE Up(g[k - 1][n])]
    <2>1. CASE k = 0
      BY <1>2, <2>1 DEF Recursion
    <2>2. CASE k # 0
      <3>1. k - 1 \in Nat /\ (k - 1) + 1 = k
        BY <2>2
      <3>2. g[k] = F[k][g[k - 1]] /\ g[k - 1] \in X
        <4> HIDE DEF X, F, id
        <4> QED BY <1>2, <3>1 DEF Recursion
      <3>3. F[k][g[k - 1]] = [n \in NodeIndex |-> Up(g[k - 1][n])]
        BY <3>2
      <3> HIDE DEF F
      <3> QED BY <2>2, <3>2, <3>3
    <2> QED BY <2>1, <2>2
  <1> DEFINE P(h) == h = [k \in Nat |-> [n \in NodeIndex |-> IF k = 0 THEN n ELSE Up(h[k - 1][n])]]
  <1>4. P(g)
    BY <1>2, <1>3 DEF Recursion
  <1>5. P(CHOOSE h : P(h))
    <2> HIDE DEF P
    <2> QED BY <1>4, Zenon
  <1>6. P(climbed)
    BY <1>5, Zenon DEF climbed
  <1>7. \A n \in NodeIndex : climbed[0][n] = n
    BY <1>6
  <1>8. \A k \in Nat, n \in NodeIndex : climbed[k + 1][n] = Up(climbed[k][n])
    <2> SUFFICES ASSUME NEW k \in Nat, NEW n \in NodeIndex PROVE climbed[k + 1][n] = Up(climbed[k][n])
      OBVIOUS
    <2>1. k + 1 \in Nat /\ k + 1 # 0 /\ (k + 1) - 1 = k
      OBVIOUS
    <2> QED BY <1>6, <2>1
  <1>9. climbed \in [Nat -> X]
    <2> DEFINE S == {k \in Nat : climbed[k] \in X}
    <2>1. 0 \in S
      BY <1>6, <1>7
    <2>2. ASSUME NEW k \in Nat, k \in S PROVE k + 1 \in S
      <3>0. k + 1 \in Nat
        OBVIOUS
      <3>1. climbed[k + 1] = [n \in NodeIndex |-> climbed[k + 1][n]]
        BY <1>6, <3>0
      <3> QED BY <1>8, <2>2, <3>1, UpIn
    <2>3. Nat \subseteq S
      <3> HIDE DEF S
      <3> QED BY <2>1, <2>2, Induct
    <2>4. climbed = [k \in Nat |-> climbed[k]]
      BY <1>6
    <2> QED BY <2>3, <2>4
  <1> QED BY <1>7, <1>8, <1>9

LEMMA ClimbIn ==
    ASSUME Tree, NEW k \in Nat, NEW n \in NodeIndex
    PROVE  climbed[k][n] \in NodeIndex /\ climbed[k][n] \in Nat
  <1>1. climbed[k][n] \in NodeIndex
    BY ClimbedIs
  <1> QED BY <1>1, UpIn

LEMMA ClimbAdd ==
    ASSUME Tree, NEW j \in Nat, NEW n \in NodeIndex
    PROVE  \A i \in Nat : climbed[i + j][n] = climbed[i][climbed[j][n]]
  <1> DEFINE S == {i \in Nat : climbed[i + j][n] = climbed[i][climbed[j][n]]}
  <1>0. climbed[j][n] \in NodeIndex
    BY ClimbedIs
  <1>1. 0 \in S
    BY <1>0, ClimbedIs
  <1>2. ASSUME NEW i \in Nat, i \in S PROVE i + 1 \in S
    <2>1. (i + 1) + j = (i + j) + 1 /\ i + j \in Nat
      OBVIOUS
    <2>2. climbed[(i + j) + 1][n] = Up(climbed[i + j][n])
      BY <2>1, ClimbedIs
    <2>3. climbed[i + 1][climbed[j][n]] = Up(climbed[i][climbed[j][n]])
      BY <1>0, ClimbedIs
    <2> QED BY <1>2, <2>1, <2>2, <2>3
  <1>3. Nat \subseteq S
    <2> HIDE DEF S
    <2> QED BY <1>1, <1>2, Induct
  <1> QED BY <1>3

LEMMA ClimbOn ==
    ASSUME Tree, NEW n \in NodeIndex, NEW i \in Nat, NEW j \in Nat, i <= j
    PROVE  climbed[j][n] = climbed[j - i][climbed[i][n]]
  <1>1. j - i \in Nat /\ (j - i) + i = j
    OBVIOUS
  <1>2. \A k \in Nat : climbed[k + i][n] = climbed[k][climbed[i][n]]
    BY ClimbAdd
  <1> QED BY <1>1, <1>2

(* Each step up is to a smaller node, until the root. *)
LEMMA ClimbDown ==
    ASSUME Tree, NEW n \in NodeIndex
    PROVE  \A k \in Nat : climbed[k][n] = Root \/ climbed[k][n] + k <= n
  <1> DEFINE S == {k \in Nat : climbed[k][n] = Root \/ climbed[k][n] + k <= n}
  <1>1. 0 \in S
    BY ClimbedIs, UpIn
  <1>2. ASSUME NEW k \in Nat, k \in S PROVE k + 1 \in S
    <2>1. climbed[k][n] \in NodeIndex /\ climbed[k + 1][n] = Up(climbed[k][n])
      BY ClimbedIs
    <2>2. CASE climbed[k][n] = Root
      BY <2>1, <2>2, UpIn
    <2>3. CASE climbed[k][n] # Root
      <3>1. climbed[k][n] + k <= n /\ Up(climbed[k][n]) < climbed[k][n]
        BY <1>2, <2>1, <2>3, UpIn
      <3>2. climbed[k][n] \in Nat /\ Up(climbed[k][n]) \in Nat /\ n \in Nat
        BY <2>1, UpIn
      <3> QED BY <2>1, <3>1, <3>2
    <2> QED BY <2>2, <2>3
  <1>3. Nat \subseteq S
    <2> HIDE DEF S
    <2> QED BY <1>1, <1>2, Induct
  <1> QED BY <1>3

LEMMA ClimbStrict ==
    ASSUME Tree, NEW n \in NodeIndex, NEW i \in Nat, NEW j \in Nat, i < j, climbed[i][n] # Root
    PROVE  climbed[j][n] < climbed[i][n]
  <1>1. climbed[i][n] \in NodeIndex /\ j - i \in Nat /\ (j - i) + i = j /\ j - i >= 1
    BY ClimbedIs
  <1>2. climbed[j][n] = climbed[j - i][climbed[i][n]] /\ climbed[j][n] \in Nat /\ climbed[i][n] \in Nat
    BY ClimbOn, ClimbIn
  <1>3. climbed[j][n] = Root \/ climbed[j][n] + (j - i) <= climbed[i][n]
    BY <1>1, <1>2, ClimbDown
  <1> QED BY <1>1, <1>2, <1>3 DEF Root

LEMMA AboveAll ==
    ASSUME Tree, NEW n \in NodeIndex, NEW k \in Nat
    PROVE  climbed[k][n] \in Above(n) /\ climbed[k][n] \in NodeIndex
  <1>0. climbed[k][n] \in NodeIndex /\ GraphSpawns \in NodeIndex
    BY ClimbIn, GraphAssumption DEF NodeIndex
  <1>1. CASE k <= GraphSpawns
    BY <1>0, <1>1 DEF Above, NodeIndex
  <1>2. CASE k > GraphSpawns
    <2>1. n <= GraphSpawns /\ n \in Nat /\ GraphSpawns \in Nat
      BY GraphAssumption DEF NodeIndex
    <2>2. climbed[k][n] \in Nat /\ climbed[GraphSpawns][n] \in Nat
      BY <2>1, ClimbIn
    <2>3. climbed[k][n] = Root /\ climbed[GraphSpawns][n] = Root
      BY <1>2, <2>1, <2>2, ClimbDown DEF Root
    <2> QED BY <1>0, <2>3 DEF Above
  <1> QED BY <1>0, <1>1, <1>2, GraphAssumption

LEMMA AboveIs ==
    ASSUME Tree, NEW n \in NodeIndex, NEW x \in Above(n)
    PROVE  x \in NodeIndex /\ \E k \in Nat : x = climbed[k][n]
  BY ClimbedIs, UpIn DEF Above

(* PathTo takes the shortest way. *)
LEMMA PathIs ==
    ASSUME Tree, NEW n \in NodeIndex, NEW top \in Above(n)
    PROVE  \E s \in Nat : /\ climbed[s][n] = top
                          /\ PathTo(n, top) = {climbed[k][n] : k \in 0 .. s - 1}
                          /\ \A k \in 0 .. s - 1 : climbed[k][n] \notin {top, Root}
  <1> DEFINE above == {k \in NodeIndex : climbed[k][n] = top}
             Least(k) == k \in above /\ \A j \in above : k <= j
             s == CHOOSE k \in above : \A j \in above : k <= j
  <1>1. above # {} /\ above \subseteq Nat
    BY UpIn DEF Above
  <1>2. \E k \in above : \A j \in above : k <= j
    <2> HIDE DEF above
    <2> QED BY <1>1, LeastOf
  <1>3. s \in above /\ \A j \in above : s <= j
    <2> HIDE DEF above
    <2> QED BY <1>2
  <1>4. PathTo(n, top) = {climbed[k][n] : k \in 0 .. s - 1}
    BY DEF PathTo
  <1> HIDE DEF s
  <1>5. s \in NodeIndex /\ s \in Nat /\ climbed[s][n] = top
    BY <1>1, <1>3
  <1>6. ASSUME NEW k \in 0 .. s - 1 PROVE climbed[k][n] # top
    <2>1. k \in NodeIndex /\ k < s
      BY <1>5, GraphAssumption DEF NodeIndex
    <2>2. k \notin above
      BY <1>3, <1>5, <2>1, UpIn
    <2> QED BY <2>1, <2>2
  <1>7. ASSUME NEW k \in 0 .. s - 1 PROVE climbed[k][n] # Root
    <2>1. SUFFICES ASSUME climbed[k][n] = Root PROVE FALSE
      OBVIOUS
    <2>2. s - k \in Nat /\ k \in Nat /\ k <= s
      BY <1>5
    <2>3. climbed[s][n] = climbed[s - k][Root]
      BY <1>5, <2>1, <2>2, ClimbOn
    <2>4. climbed[s - k][Root] \in Nat /\ Root \in NodeIndex
      BY <2>2, ClimbIn, UpIn
    <2>5. climbed[s - k][Root] = Root
      BY <2>2, <2>4, ClimbDown DEF Root
    <2> QED BY <1>5, <1>6, <2>1, <2>3, <2>5
  <1> QED BY <1>4, <1>5, <1>6, <1>7

(* The spawns along a path hand something down from top to n, one to the   *)
(* next and to no one else.                                                *)
LEMMA PathHands ==
    ASSUME Tree, NEW n \in NodeIndex, NEW top \in Above(n)
    PROVE  LET path == PathTo(n, top)
           IN  /\ path \subseteq 1 .. GraphSpawns
               /\ \A x \in path : parent[x] \in {top} \cup path /\ parent[x] # n
               /\ {top} \cup path = {parent[x] : x \in path} \cup {n}
               /\ \A x, y \in path : parent[x] = parent[y] => x = y
  <1> DEFINE path == PathTo(n, top)
             c(k) == climbed[k][n]
  <1>1. PICK s \in Nat : /\ c(s) = top
                         /\ path = {c(k) : k \in 0 .. s - 1}
                         /\ \A k \in 0 .. s - 1 : c(k) \notin {top, Root}
    BY PathIs
  <1>2. \A k \in Nat : c(k) \in NodeIndex /\ c(k) \in Nat
    BY ClimbIn
  <1>3. c(0) = n
    BY ClimbedIs
  <1>4. ASSUME NEW k \in 0 .. s - 1
        PROVE  k \in Nat /\ k + 1 \in Nat /\ c(k) \in 1 .. GraphSpawns /\ parent[c(k)] = c(k + 1)
    <2>1. k \in Nat /\ k + 1 \in Nat
      OBVIOUS
    <2>2. c(k) \in 1 .. GraphSpawns
      BY <1>1, <1>2, <2>1, UpIn
    <2>3. c(k + 1) = Up(c(k))
      BY <2>1, ClimbedIs
    <2> QED BY <1>1, <2>1, <2>2, <2>3 DEF Up
  <1>5. \A i, j \in Nat : i < j /\ i < s => c(j) < c(i)
    <2> SUFFICES ASSUME NEW i \in Nat, NEW j \in Nat, i < j, i < s PROVE c(j) < c(i)
      OBVIOUS
    <2>1. i \in 0 .. s - 1
      OBVIOUS
    <2> QED BY <1>1, <2>1, ClimbStrict
  <1>a. \A x \in path : \E k \in 0 .. s - 1 : x = c(k)
    BY <1>1
  <1>b. \A k \in 0 .. s - 1 : c(k) \in path
    BY <1>1
  <1> HIDE DEF c, path
  <1>6. path \subseteq 1 .. GraphSpawns
    BY <1>1, <1>4
  <1>7. ASSUME NEW x \in path PROVE parent[x] \in {top} \cup path /\ parent[x] # n
    <2>1. PICK k \in 0 .. s - 1 : x = c(k)
      BY <1>a
    <2>2. parent[x] = c(k + 1)
      BY <1>4, <2>1
    <2>3. c(k + 1) \in {top} \cup path
      <3>1. k + 1 = s \/ k + 1 \in 0 .. s - 1
        OBVIOUS
      <3> QED BY <1>1, <1>b, <3>1
    <2>4. 0 \in Nat /\ k + 1 \in Nat /\ 0 < k + 1 /\ 0 < s
      OBVIOUS
    <2>5. c(k + 1) < c(0) /\ c(0) \in Nat /\ c(k + 1) \in Nat
      BY <1>2, <1>5, <2>4
    <2> QED BY <1>3, <2>2, <2>3, <2>5
  <1>8. {top} \cup path = {parent[x] : x \in path} \cup {n}
    <2>1. n \in {top} \cup path
      <3>1. s = 0 \/ 0 \in 0 .. s - 1
        OBVIOUS
      <3> QED BY <1>1, <1>3, <1>b, <3>1
    <2>2. ASSUME NEW k \in 0 .. s PROVE c(k) \in {parent[x] : x \in path} \cup {n}
      <3>1. CASE k = 0
        BY <1>3, <3>1
      <3>2. CASE k # 0
        <4>1. k - 1 \in 0 .. s - 1 /\ (k - 1) + 1 = k
          BY <3>2
        <4>2. c(k - 1) \in path /\ parent[c(k - 1)] = c(k)
          BY <1>4, <1>b, <4>1
        <4> QED BY <4>2
      <3> QED BY <3>1, <3>2
    <2>3. \A x \in {top} \cup path : \E k \in 0 .. s : x = c(k)
      <3>1. s \in 0 .. s /\ \A k \in 0 .. s - 1 : k \in 0 .. s
        OBVIOUS
      <3> QED BY <1>1, <1>a, <3>1
    <2>4. {top} \cup path \subseteq {parent[x] : x \in path} \cup {n}
      BY <2>2, <2>3
    <2>5. {parent[x] : x \in path} \cup {n} \subseteq {top} \cup path
      BY <1>7, <2>1
    <2> QED BY <2>4, <2>5
  <1>9. ASSUME NEW x \in path, NEW y \in path, parent[x] = parent[y] PROVE x = y
    <2>1. PICK i \in 0 .. s - 1, j \in 0 .. s - 1 : x = c(i) /\ y = c(j)
      BY <1>a
    <2>2. c(i + 1) = c(j + 1) /\ c(i + 1) \in Nat /\ c(j + 1) \in Nat
      BY <1>2, <1>4, <1>9, <2>1
    <2>3. ASSUME NEW k \in 0 .. s - 1, NEW l \in 0 .. s - 1, k < l, c(k + 1) = c(l + 1) PROVE FALSE
      <3>1. k + 1 \in Nat /\ l + 1 \in Nat /\ k + 1 < l + 1 /\ k + 1 < s
        BY <2>3
      <3>2. c(l + 1) < c(k + 1) /\ c(k + 1) \in Nat
        BY <1>2, <1>5, <3>1
      <3> QED BY <2>3, <3>2
    <2>4. ~(i < j) /\ ~(j < i)
      BY <2>2, <2>3
    <2>5. i = j
      BY <2>4
    <2> QED BY <2>1, <2>5
  <1> QED BY <1>6, <1>7, <1>8, <1>9 DEF path

-----------------------------------------------------------------------------
(* The children of a node *)

Once(s) == \A i, j \in DOMAIN s : s[i] = s[j] => i = j

(* Two sequences, one after the other. *)
LEMMA Joined ==
    ASSUME NEW T, NEW s \in Seq(T), NEW t \in Seq(T)
    PROVE  /\ s \o t \in Seq(T) /\ Len(s \o t) = Len(s) + Len(t)
           /\ \A i \in 1 .. Len(s) : (s \o t)[i] = s[i]
           /\ \A i \in 1 .. Len(t) : (s \o t)[Len(s) + i] = t[i]
           /\ Listed(s \o t) = Listed(s) \cup Listed(t)
           /\ Once(s) /\ Once(t) /\ Listed(s) \cap Listed(t) = {} => Once(s \o t)
  <1> DEFINE u == s \o t
             m == Len(s)
             n == Len(t)
  <1>1. /\ m \in Nat /\ n \in Nat /\ DOMAIN s = 1 .. m /\ DOMAIN t = 1 .. n
        /\ u \in Seq(T) /\ Len(u) = m + n /\ DOMAIN u = 1 .. m + n
    OBVIOUS
  <1>2. /\ \A i \in 1 .. m : u[i] = s[i]
        /\ \A i \in 1 .. n : u[m + i] = t[i]
    OBVIOUS
  <1> HIDE DEF u, m, n
  <1>3. \A i \in 1 .. m + n : i \in 1 .. m \/ \E k \in 1 .. n : i = m + k
    <2> SUFFICES ASSUME NEW i \in 1 .. m + n, i \notin 1 .. m PROVE \E k \in 1 .. n : i = m + k
      OBVIOUS
    <2>1. i - m \in 1 .. n /\ i = m + (i - m)
      BY <1>1
    <2> QED BY <2>1
  <1>4. \A i \in 1 .. n : m + i \in 1 .. m + n
    BY <1>1
  <1>5. \A i \in 1 .. m : i \in 1 .. m + n
    BY <1>1
  <1>6. Listed(u) = Listed(s) \cup Listed(t)
    <2>1. Listed(u) \subseteq Listed(s) \cup Listed(t)
      <3> SUFFICES ASSUME NEW i \in 1 .. m + n PROVE u[i] \in Listed(s) \cup Listed(t)
        BY <1>1 DEF Listed
      <3>1. CASE i \in 1 .. m
        BY <1>1, <1>2, <3>1 DEF Listed
      <3>2. ASSUME NEW k \in 1 .. n, i = m + k PROVE u[i] \in Listed(t)
        BY <1>1, <1>2, <3>2 DEF Listed
      <3> QED BY <1>3, <3>1, <3>2
    <2>2. Listed(s) \subseteq Listed(u)
      BY <1>1, <1>2, <1>5 DEF Listed
    <2>3. Listed(t) \subseteq Listed(u)
      BY <1>1, <1>2, <1>4 DEF Listed
    <2> QED BY <2>1, <2>2, <2>3
  <1>7. ASSUME Once(s), Once(t), Listed(s) \cap Listed(t) = {} PROVE Once(u)
    <2>1. SUFFICES ASSUME NEW i \in 1 .. m + n, NEW j \in 1 .. m + n, u[i] = u[j] PROVE i = j
      BY <1>1 DEF Once
    <2>2. \A k \in 1 .. m : s[k] \in Listed(s)
      BY <1>1 DEF Listed
    <2>3. \A k \in 1 .. n : t[k] \in Listed(t)
      BY <1>1 DEF Listed
    <2>4. CASE i \in 1 .. m /\ j \in 1 .. m
      BY <1>1, <1>2, <1>7, <2>1, <2>4 DEF Once
    <2>5. ASSUME NEW k \in 1 .. n, i \in 1 .. m, j = m + k PROVE FALSE
      <3>1. u[i] = s[i] /\ u[j] = t[k]
        BY <1>2, <2>5
      <3> QED BY <1>7, <2>1, <2>2, <2>3, <2>5, <3>1
    <2>6. ASSUME NEW k \in 1 .. n, i = m + k, j \in 1 .. m PROVE FALSE
      <3>1. u[j] = s[j] /\ u[i] = t[k]
        BY <1>2, <2>6
      <3> QED BY <1>7, <2>1, <2>2, <2>3, <2>6, <3>1
    <2>7. ASSUME NEW k \in 1 .. n, NEW l \in 1 .. n, i = m + k, j = m + l PROVE i = j
      <3>1. t[k] = t[l]
        BY <1>2, <2>1, <2>7
      <3>2. k = l
        BY <1>1, <1>7, <3>1 DEF Once
      <3> QED BY <2>7, <3>2
    <2> QED BY <1>3, <2>4, <2>5, <2>6, <2>7
  <1> QED BY <1>1, <1>2, <1>6, <1>7 DEF u, m, n

LEMMA Appended ==
    ASSUME NEW T, NEW s \in Seq(T), NEW x \in T
    PROVE  /\ Append(s, x) \in Seq(T) /\ Len(Append(s, x)) = Len(s) + 1
           /\ \A i \in 1 .. Len(s) : Append(s, x)[i] = s[i]
           /\ Append(s, x)[Len(s) + 1] = x
           /\ Listed(Append(s, x)) = Listed(s) \cup {x}
  <1>1. /\ Append(s, x) \in Seq(T) /\ Len(Append(s, x)) = Len(s) + 1 /\ Len(s) \in Nat
        /\ \A i \in 1 .. Len(s) : Append(s, x)[i] = s[i]
        /\ Append(s, x)[Len(s) + 1] = x
        /\ DOMAIN s = 1 .. Len(s) /\ DOMAIN Append(s, x) = 1 .. Len(s) + 1
    OBVIOUS
  <1> DEFINE t == Append(s, x)
             n == Len(s)
  <1>2. /\ \A i \in 1 .. n : t[i] = s[i]
        /\ t[n + 1] = x /\ DOMAIN s = 1 .. n /\ DOMAIN t = 1 .. n + 1
    BY <1>1
  <1>3. 1 .. n + 1 = (1 .. n) \cup {n + 1}
    BY <1>1
  <1> HIDE DEF t, n
  <1>4. Listed(t) = Listed(s) \cup {x}
    BY <1>2, <1>3 DEF Listed
  <1> QED BY <1>1, <1>4 DEF t

LEMMA ChildrenUptoIs ==
    /\ \A n \in NodeIndex : children_upto[0][n] = <<>>
    /\ \A k \in Nat, n \in NodeIndex :
          children_upto[k + 1][n] =
             children_upto[k][n] \o (IF parent[k + 1] = n THEN <<k + 1>> ELSE <<>>)
  <1> DEFINE X == [NodeIndex -> Seq(Nat)]
             none == [n \in NodeIndex |-> <<>>]
             own(k, n) == IF parent[k] = n THEN <<k>> ELSE <<>>
             F == [k \in Nat |-> [f \in X |-> [n \in NodeIndex |-> f[n] \o own(k, n)]]]
  <1>1. none \in X /\ F \in [Nat -> [X -> X]]
    <2>1. \A k \in Nat, n \in NodeIndex : own(k, n) \in Seq(Nat)
      OBVIOUS
    <2> HIDE DEF own
    <2>2. \A f \in X, k \in Nat, n \in NodeIndex : f[n] \o own(k, n) \in Seq(Nat)
      BY <2>1
    <2> QED BY <2>2
  <1>2. PICK g : Recursion(g, X, none, F)
    <2> HIDE DEF X, none, F, own
    <2>1. none \in X /\ F \in [Nat -> [X -> X]]
      BY <1>1
    <2> QED BY <2>1, Iterates
  <1>3. ASSUME NEW k \in Nat
        PROVE  g[k] = [n \in NodeIndex |-> IF k = 0 THEN <<>> ELSE g[k - 1][n] \o own(k, n)]
    <2> HIDE DEF own
    <2>1. CASE k = 0
      BY <1>2, <2>1 DEF Recursion
    <2>2. CASE k # 0
      <3>1. k - 1 \in Nat /\ (k - 1) + 1 = k
        BY <2>2
      <3>2. g[k] = F[k][g[k - 1]] /\ g[k - 1] \in X
        <4> HIDE DEF X, F, none
        <4> QED BY <1>2, <3>1 DEF Recursion
      <3>3. F[k][g[k - 1]] = [n \in NodeIndex |-> g[k - 1][n] \o own(k, n)]
        BY <3>2
      <3> HIDE DEF F
      <3> QED BY <2>2, <3>2, <3>3
    <2> QED BY <2>1, <2>2
  <1> DEFINE P(h) == h = [k \in Nat |-> [n \in NodeIndex |->
                            IF k = 0 THEN <<>> ELSE h[k - 1][n] \o own(k, n)]]
  <1>4. P(g)
    BY <1>2, <1>3 DEF Recursion
  <1>5. P(CHOOSE h : P(h))
    <2> HIDE DEF P
    <2> QED BY <1>4, Zenon
  <1>6. P(children_upto)
    BY <1>5, Zenon DEF children_upto
  <1> HIDE DEF own
  <1>7. \A n \in NodeIndex : children_upto[0][n] = <<>>
    BY <1>6
  <1>8. ASSUME NEW k \in Nat, NEW n \in NodeIndex
        PROVE  children_upto[k + 1][n] = children_upto[k][n] \o own(k + 1, n)
    <2>1. k + 1 \in Nat /\ k + 1 # 0 /\ (k + 1) - 1 = k
      OBVIOUS
    <2>2. children_upto[k + 1] = [m \in NodeIndex |->
              IF k + 1 = 0 THEN <<>> ELSE children_upto[(k + 1) - 1][m] \o own(k + 1, m)]
      BY ONLY <1>6, <2>1
    <2>3. children_upto[k + 1][n] =
              IF k + 1 = 0 THEN <<>> ELSE children_upto[(k + 1) - 1][n] \o own(k + 1, n)
      BY ONLY <2>2, n \in NodeIndex, Zenon
    <2> QED BY <2>1, <2>3
  <1> QED BY <1>7, <1>8 DEF own

(* Children lists each child of a node once. *)
LEMMA ChildrenAre ==
    ASSUME Tree, NEW n \in NodeIndex
    PROVE  /\ Children(n) \in Seq(1 .. GraphSpawns) /\ Once(Children(n))
           /\ Listed(Children(n)) = {i \in 1 .. GraphSpawns : parent[i] = n}
  <1> DEFINE c(k) == children_upto[k][n]
             Good(k, s) == /\ s \in Seq(1 .. k) /\ Once(s)
                           /\ Listed(s) = {i \in 1 .. k : parent[i] = n}
             S == {k \in Nat : Good(k, c(k))}
  <1>1. 0 \in S
    <2>1. c(0) = <<>>
      BY ChildrenUptoIs
    <2>2. Good(0, <<>>)
      BY DEF Once, Listed
    <2> QED BY <2>1, <2>2
  <1>2. ASSUME NEW k \in Nat, k \in S PROVE k + 1 \in S
    <2>0. Good(k, c(k)) /\ \A i \in 1 .. k : i \in 1 .. k + 1
      BY <1>2
    <2>1. CASE parent[k + 1] # n
      <3>1. c(k + 1) = c(k) \o <<>>
        BY <2>1, ChildrenUptoIs
      <3>2. c(k + 1) = c(k) /\ c(k) \in Seq(1 .. k + 1)
        <4> HIDE DEF c
        <4> QED BY <2>0, <3>1
      <3>3. {i \in 1 .. k + 1 : parent[i] = n} = {i \in 1 .. k : parent[i] = n}
        BY <2>1
      <3> HIDE DEF c
      <3>4. Good(k + 1, c(k + 1))
        BY <2>0, <3>2, <3>3
      <3> QED BY <3>4
    <2>2. CASE parent[k + 1] = n
      <3>1. c(k + 1) = c(k) \o <<k + 1>>
        BY <2>2, ChildrenUptoIs
      <3> HIDE DEF c
      <3>2. c(k) \in Seq(1 .. k + 1) /\ <<k + 1>> \in Seq(1 .. k + 1)
        BY <2>0
      <3>3. Listed(<<k + 1>>) = {k + 1} /\ Once(<<k + 1>>)
        BY DEF Listed, Once
      <3>4. Listed(c(k)) \cap Listed(<<k + 1>>) = {}
        BY <2>0, <3>3
      <3>a. Once(c(k))
        BY <2>0
      <3>5. c(k + 1) \in Seq(1 .. k + 1) /\ Once(c(k + 1)) /\ Listed(c(k + 1)) = Listed(c(k)) \cup {k + 1}
        <4> DEFINE T == 1 .. k + 1
                   t == <<k + 1>>
        <4>1. c(k) \in Seq(T) /\ t \in Seq(T) /\ Once(t) /\ Listed(c(k)) \cap Listed(t) = {} /\ Listed(t) = {k + 1}
          BY <3>2, <3>3, <3>4
        <4> HIDE DEF T, t
        <4>2. c(k) \o t \in Seq(T) /\ Listed(c(k) \o t) = Listed(c(k)) \cup Listed(t) /\ Once(c(k) \o t)
          BY ONLY <4>1, <3>a, Joined
        <4> QED BY <4>1, <4>2, <3>1 DEF T, t
      <3>6. Listed(c(k + 1)) = Listed(c(k)) \cup {k + 1}
        BY <3>5
      <3>7. {i \in 1 .. k + 1 : parent[i] = n} = {i \in 1 .. k : parent[i] = n} \cup {k + 1}
        BY <2>2
      <3>8. Good(k + 1, c(k + 1))
        BY <2>0, <3>5, <3>6, <3>7
      <3> QED BY <3>8
    <2> QED BY <2>1, <2>2
  <1>3. Nat \subseteq S
    <2> HIDE DEF S
    <2> QED BY <1>1, <1>2, Induct
  <1>4. GraphSpawns \in Nat /\ Len(parent) = GraphSpawns
    BY GraphAssumption DEF Tree
  <1> QED BY <1>3, <1>4 DEF Children

-----------------------------------------------------------------------------
(* The two graphs as they grow *)

Ready == gpc \in {"climb", "pass", "each_edge", "generated"}

(* The tree and the write edges are what the loops that make them say, and *)
(* the edge being given its pipes is one of the write edges.               *)
Shape ==
    /\ gpc \in {"spawns", "writes", "traverse", "climb", "pass", "each_edge", "generated"}
    /\ parent \in Seq(NodeIndex) /\ Len(parent) <= GraphSpawns
    /\ \A n \in 1 .. Len(parent) : parent[n] < n
    /\ gpc # "spawns" => Len(parent) = GraphSpawns
    /\ write_edges \in Seq(NodeIndex \X NodeIndex)
    /\ \A i \in 1 .. Len(write_edges) : write_edges[i][1] # write_edges[i][2]
    /\ gpc = "spawns" => write_edges = <<>>
    /\ edge \in 1 .. Len(write_edges) + 1
    /\ gpc \in {"spawns", "writes", "traverse"} => edge = 1
    /\ gpc \in {"climb", "pass"} => edge <= Len(write_edges)
    /\ gpc = "generated" => edge = Len(write_edges) + 1

LEMMA ShapeInit == GraphInit => Shape
  BY GraphAssumption DEF GraphInit, Shape, NodeIndex

LEMMA ShapeStep == Shape /\ [GraphNext]_graph_vars => Shape'
  <1> SUFFICES ASSUME Shape, [GraphNext]_graph_vars PROVE Shape'
    OBVIOUS
  <1>0. Len(parent) \in Nat /\ Len(write_edges) \in Nat /\ GraphSpawns \in Nat
    BY GraphAssumption DEF Shape
  <1>1. ASSUME NEW n \in NodeIndex, add_node(n) PROVE Shape'
    <2>0. n \in {0} \cup 1 .. Len(parent)
      BY <1>1 DEF add_node, Shape, Nodes, Root
    <2>1. parent' \in Seq(NodeIndex) /\ Len(parent') = Len(parent) + 1 /\ Len(parent') <= GraphSpawns
      BY <1>0, <1>1 DEF add_node, Shape
    <2>2. ASSUME NEW k \in 1 .. Len(parent') PROVE parent'[k] < k
      <3>1. CASE k \in 1 .. Len(parent)
        BY <1>0, <1>1, <3>1 DEF add_node, Shape
      <3>2. CASE k = Len(parent) + 1
        <4>1. parent'[k] = n
          BY <1>0, <1>1, <3>2 DEF add_node, Shape
        <4> QED BY <1>0, <2>0, <3>2, <4>1
      <3> QED BY <1>0, <2>1, <3>1, <3>2
    <2> QED BY <1>1, <2>1, <2>2 DEF add_node, Shape
  <1>2. ASSUME NEW n \in NodeIndex, NEW m \in NodeIndex, add_edge(n, m) PROVE Shape'
    <2>1. CASE UNCHANGED write_edges
      BY <1>2, <2>1 DEF add_edge, Shape
    <2>2. CASE write_edges' = Append(write_edges, <<n, m>>)
      <3>1. /\ write_edges' \in Seq(NodeIndex \X NodeIndex)
            /\ Len(write_edges') = Len(write_edges) + 1
        BY <2>2 DEF Shape
      <3>2. ASSUME NEW i \in 1 .. Len(write_edges') PROVE write_edges'[i][1] # write_edges'[i][2]
        <4>1. CASE i \in 1 .. Len(write_edges)
          <5>1. write_edges'[i] = write_edges[i]
            BY <1>0, <2>2, <4>1 DEF Shape
          <5> QED BY <4>1, <5>1 DEF Shape
        <4>2. CASE i = Len(write_edges) + 1
          <5>1. write_edges'[i] = <<n, m>>
            BY <1>0, <2>2, <4>2 DEF Shape
          <5> QED BY <1>2, <5>1 DEF add_edge
        <4> QED BY <1>0, <3>1, <4>1, <4>2
      <3> QED BY <1>0, <1>2, <3>1, <3>2 DEF add_edge, Shape
    <2> QED BY <1>2, <2>1, <2>2 DEF add_edge
  <1>3. CASE nodes_added
    BY <1>0, <1>3 DEF nodes_added, Shape, tree
  <1>4. CASE edges_added
    BY <1>4 DEF edges_added, Shape, tree
  <1>5. CASE traverse
    BY <1>5 DEF traverse, Shape
  <1>6. CASE next_edge
    BY <1>0, <1>6 DEF next_edge, EachEdge, Shape, tree
  <1>7. CASE climb
    BY <1>7 DEF climb, Shape, tree
  <1>8. CASE pass
    BY <1>0, <1>8 DEF pass, Shape, tree
  <1>9. CASE build
    BY <1>0, <1>9 DEF build, EachEdge, Shape, tree
  <1>10. CASE UNCHANGED graph_vars
    BY <1>10 DEF graph_vars, Shape, tree
  <1> QED
    BY <1>1, <1>2, <1>3, <1>4, <1>5, <1>6, <1>7, <1>8, <1>9, <1>10 DEF GraphNext, generate_data_graph

LEMMA ShapeTree == Shape /\ gpc # "spawns" => Tree
  <1> SUFFICES ASSUME Shape, gpc # "spawns" PROVE Tree
    OBVIOUS
  <1>1. parent \in Seq(NodeIndex) /\ Len(parent) = GraphSpawns
    BY DEF Shape
  <1>2. \A n \in 1 .. GraphSpawns : parent[n] \in NodeIndex
    BY <1>1
  <1>3. \A n \in 1 .. GraphSpawns : parent[n] < n
    BY <1>1 DEF Shape
  <1> QED BY <1>1, <1>2, <1>3 DEF Tree

-----------------------------------------------------------------------------
(* The traversal *)

LEMMA Dequeued ==
    ASSUME NEW T, NEW q \in Seq(T), q # <<>>, Once(q)
    PROVE  /\ Head(q) \in T /\ Tail(q) \in Seq(T) /\ Once(Tail(q))
           /\ Head(q) \in Listed(q) /\ Listed(Tail(q)) = Listed(q) \ {Head(q)}
  <1> DEFINE t == Tail(q)
             n == Len(q)
  <1>1. /\ n \in Nat /\ n >= 1 /\ DOMAIN q = 1 .. n /\ Head(q) = q[1] /\ q[1] \in T
        /\ t \in Seq(T) /\ Len(t) = n - 1 /\ DOMAIN t = 1 .. n - 1
    OBVIOUS
  <1>2. \A i \in 1 .. n - 1 : t[i] = q[i + 1]
    OBVIOUS
  <1> HIDE DEF t, n
  <1>3. \A i \in 1 .. n - 1 : i + 1 \in 1 .. n /\ i + 1 # 1
    BY <1>1
  <1>4. \A i \in 1 .. n : i = 1 \/ \E k \in 1 .. n - 1 : i = k + 1
    <2> SUFFICES ASSUME NEW i \in 1 .. n, i # 1 PROVE \E k \in 1 .. n - 1 : i = k + 1
      OBVIOUS
    <2>1. i - 1 \in 1 .. n - 1 /\ i = (i - 1) + 1
      BY <1>1
    <2> QED BY <2>1
  <1>5. Once(t)
    <2> SUFFICES ASSUME NEW i \in 1 .. n - 1, NEW j \in 1 .. n - 1, t[i] = t[j] PROVE i = j
      BY <1>1 DEF Once
    <2>1. q[i + 1] = q[j + 1] /\ i + 1 \in DOMAIN q /\ j + 1 \in DOMAIN q
      BY <1>1, <1>2, <1>3
    <2>2. i + 1 = j + 1
      BY <2>1 DEF Once
    <2> QED BY <2>2
  <1>6. 1 \in 1 .. n
    BY <1>1
  <1>7. Listed(t) \subseteq Listed(q) \ {Head(q)}
    <2> SUFFICES ASSUME NEW i \in 1 .. n - 1 PROVE t[i] \in Listed(q) /\ t[i] # Head(q)
      BY <1>1 DEF Listed
    <2>1. t[i] = q[i + 1] /\ i + 1 \in DOMAIN q /\ i + 1 # 1 /\ 1 \in DOMAIN q
      BY <1>1, <1>2, <1>3, <1>6
    <2>2. q[i + 1] # q[1]
      BY <2>1 DEF Once
    <2> QED BY <1>1, <2>1, <2>2 DEF Listed
  <1>8. Listed(q) \ {Head(q)} \subseteq Listed(t)
    <2> SUFFICES ASSUME NEW i \in 1 .. n, q[i] # q[1] PROVE q[i] \in Listed(t)
      BY <1>1 DEF Listed
    <2>1. PICK k \in 1 .. n - 1 : i = k + 1
      BY <1>4
    <2>2. q[i] = t[k] /\ k \in DOMAIN t
      BY <1>1, <1>2, <2>1
    <2> QED BY <2>2 DEF Listed
  <1>9. Head(q) \in Listed(q)
    BY <1>1, <1>6 DEF Listed
  <1> QED BY <1>1, <1>5, <1>7, <1>8, <1>9 DEF t

Visited == DOMAIN pipes_ops

(* Every node is visited, waits in the queue or is not met yet, and the    *)
(* spawns listed are those out of the visited nodes, each after the spawn  *)
(* of the node it is out of.                                               *)
Walk ==
    /\ processing \in Seq(NodeIndex) /\ Once(processing)
    /\ spawn_edges \in Seq(1 .. GraphSpawns) /\ Once(spawn_edges)
    /\ gpc \in {"spawns", "writes"} => spawn_edges = <<>> /\ pipes_ops = <<>>
    /\ Ready => processing = <<>>
    /\ Visited \cap Listed(processing) = {}
    /\ Visited \cup Listed(processing) = {Root} \cup Listed(spawn_edges)
    /\ Listed(spawn_edges) = {i \in 1 .. Len(parent) : parent[i] \in Visited}
    /\ DOMAIN spawn_ops = Listed(spawn_edges)
    /\ \A i \in 1 .. Len(spawn_edges) :
          parent[spawn_edges[i]] \in {Root} \cup {spawn_edges[j] : j \in 1 .. i - 1}

LEMMA WalkInit == GraphInit => Walk
  <1> SUFFICES ASSUME GraphInit PROVE Walk
    OBVIOUS
  <1>1. /\ processing = <<Root>> /\ spawn_edges = <<>> /\ pipes_ops = <<>> /\ spawn_ops = <<>>
        /\ parent = <<>> /\ ~Ready
    BY DEF GraphInit, Ready
  <1>2. Listed(processing) = {Root} /\ Listed(spawn_edges) = {} /\ Visited = {}
    BY <1>1 DEF Listed, Visited
  <1>3. Once(processing) /\ Once(spawn_edges) /\ Root \in NodeIndex
    BY <1>1, GraphAssumption DEF Once, NodeIndex, Root
  <1> QED BY <1>1, <1>2, <1>3 DEF Walk

(* What the traversal leaves alone. *)
LEMMA WalkSame ==
    ASSUME Walk, UNCHANGED <<processing, spawn_edges>>, Len(parent') >= Len(parent),
           Shape, Shape', \A i \in 1 .. Len(parent) : parent'[i] = parent[i],
           gpc = "spawns" \/ parent' = parent,
           gpc' \in {"spawns", "writes"} => gpc \in {"spawns", "writes"} /\ pipes_ops' = pipes_ops,
           Ready' => Ready \/ processing = <<>>,
           DOMAIN pipes_ops' = DOMAIN pipes_ops, DOMAIN spawn_ops' = DOMAIN spawn_ops
    PROVE  Walk'
  <1>0. Len(parent) \in Nat /\ Len(parent') \in Nat
    BY DEF Shape
  <1>1. Visited' = Visited /\ Listed(spawn_edges)' = Listed(spawn_edges) /\ Listed(processing)' = Listed(processing)
    BY DEF Visited, Listed
  <1>2. Once(processing)' /\ Once(spawn_edges)'
    BY DEF Walk, Once
  <1>3. Listed(spawn_edges) = {i \in 1 .. Len(parent') : parent'[i] \in Visited}
    <2>1. CASE parent' = parent
      BY <2>1 DEF Walk
    <2>2. CASE gpc = "spawns"
      <3>1. Visited = {}
        BY <2>2 DEF Walk, Visited
      <3> QED BY <3>1 DEF Walk
    <2> QED BY <2>1, <2>2
  <1>4. ASSUME NEW i \in 1 .. Len(spawn_edges)
        PROVE  parent'[spawn_edges[i]] \in {Root} \cup {spawn_edges[j] : j \in 1 .. i - 1}
    <2>1. CASE parent' = parent
      BY <2>1 DEF Walk
    <2>2. CASE gpc = "spawns"
      <3>1. spawn_edges = <<>>
        BY <2>2 DEF Walk
      <3> QED BY <3>1
    <2> QED BY <2>1, <2>2
  <1>5. gpc' \in {"spawns", "writes"} => spawn_edges' = <<>> /\ pipes_ops' = <<>>
    BY DEF Walk
  <1>6. Ready' => processing' = <<>>
    BY DEF Walk
  <1>7. /\ processing' \in Seq(NodeIndex) /\ spawn_edges' \in Seq(1 .. GraphSpawns)
        /\ Visited' \cap Listed(processing)' = {}
        /\ Visited' \cup Listed(processing)' = {Root} \cup Listed(spawn_edges)'
        /\ DOMAIN spawn_ops' = Listed(spawn_edges)'
    BY <1>1 DEF Walk
  <1> QED BY <1>1, <1>2, <1>3, <1>4, <1>5, <1>6, <1>7 DEF Walk

LEMMA WalkTraverse ==
    ASSUME Shape, Walk, traverse
    PROVE  Walk'
  <1> DEFINE node == Head(processing)
             C == Children(node)
             rest == Tail(processing)
  <1>0. Tree /\ parent' = parent /\ gpc' = gpc /\ ~Ready /\ gpc = "traverse"
    BY ShapeTree DEF traverse, Ready
  <1>1. /\ node \in NodeIndex /\ rest \in Seq(NodeIndex) /\ Once(rest) /\ node \in Listed(processing)
        /\ Listed(rest) = Listed(processing) \ {node}
    BY Dequeued DEF Walk, traverse
  <1>2. /\ C \in Seq(1 .. GraphSpawns) /\ Once(C)
        /\ Listed(C) = {i \in 1 .. GraphSpawns : parent[i] = node}
    BY <1>0, <1>1, ChildrenAre
  <1>3. /\ processing' = rest \o C /\ spawn_edges' = spawn_edges \o C
        /\ DOMAIN spawn_ops' = DOMAIN spawn_ops \cup {i \in 1 .. GraphSpawns : parent[i] = node}
        /\ DOMAIN pipes_ops' = DOMAIN pipes_ops \cup {node}
    BY <1>0 DEF traverse, Extend, Queued, Tree
  <1> HIDE DEF node, C, rest
  <1>4. C \in Seq(NodeIndex)
    <2>1. 1 .. GraphSpawns \subseteq NodeIndex
      BY <1>0, UpIn
    <2> QED BY <1>2, <2>1, Widened
  <1>5. node \notin Visited /\ node \notin Listed(C) /\ Root \notin Listed(C)
    <2>1. node \notin Visited
      BY <1>1 DEF Walk
    <2>2. \A i \in 1 .. GraphSpawns : parent[i] < i /\ i # Root
      BY <1>0 DEF Tree, Root
    <2>3. node \in Nat
      BY <1>0, <1>1, UpIn
    <2> QED BY <1>2, <2>1, <2>2, <2>3
  <1>6. Listed(C) \cap Listed(spawn_edges) = {}
    BY <1>2, <1>5 DEF Walk
  <1>7. Listed(C) \cap Listed(rest) = {} /\ Listed(C) \cap Visited = {}
    BY <1>1, <1>5, <1>6 DEF Walk
  <1>8. processing' \in Seq(NodeIndex) /\ Once(processing') /\ Listed(processing') = Listed(rest) \cup Listed(C)
    BY <1>1, <1>2, <1>3, <1>4, <1>7, Joined
  <1>9. /\ spawn_edges' \in Seq(1 .. GraphSpawns) /\ Listed(spawn_edges') = Listed(spawn_edges) \cup Listed(C)
        /\ Len(spawn_edges') = Len(spawn_edges) + Len(C)
        /\ \A i \in 1 .. Len(spawn_edges) : spawn_edges'[i] = spawn_edges[i]
        /\ \A i \in 1 .. Len(C) : spawn_edges'[Len(spawn_edges) + i] = C[i]
        /\ Once(spawn_edges')
    <2> DEFINE T == 1 .. GraphSpawns
    <2>1. spawn_edges \in Seq(T) /\ Once(spawn_edges) /\ C \in Seq(T)
      BY <1>2 DEF Walk
    <2> HIDE DEF T
    <2>2. spawn_edges' \in Seq(T)
      BY <1>3, <2>1, Joined
    <2>3. Listed(spawn_edges') = Listed(spawn_edges) \cup Listed(C) /\ Once(spawn_edges')
      BY <1>2, <1>3, <1>6, <2>1, Joined
    <2>4. /\ Len(spawn_edges') = Len(spawn_edges) + Len(C)
          /\ \A i \in 1 .. Len(spawn_edges) : spawn_edges'[i] = spawn_edges[i]
          /\ \A i \in 1 .. Len(C) : spawn_edges'[Len(spawn_edges) + i] = C[i]
      BY <1>3, <2>1, Joined
    <2> QED BY <2>2, <2>3, <2>4 DEF T
  <1>10. Visited' = Visited \cup {node}
    BY <1>3 DEF Visited
  <1>11. /\ Visited' \cap Listed(processing') = {}
         /\ Visited' \cup Listed(processing') = {Root} \cup Listed(spawn_edges')
    <2>1. Visited \cap Listed(processing) = {} /\ Visited \cup Listed(processing) = {Root} \cup Listed(spawn_edges)
      BY DEF Walk
    <2> QED BY <1>1, <1>5, <1>7, <1>8, <1>9, <1>10, <2>1
  <1>12. Listed(spawn_edges') = {i \in 1 .. Len(parent') : parent'[i] \in Visited'}
    <2>1. Listed(spawn_edges) = {i \in 1 .. GraphSpawns : parent[i] \in Visited}
      BY <1>0 DEF Walk, Tree
    <2>2. Len(parent') = GraphSpawns
      BY <1>0 DEF Tree
    <2> QED BY <1>0, <1>2, <1>9, <1>10, <2>1, <2>2
  <1>13. DOMAIN spawn_ops' = Listed(spawn_edges')
    BY <1>2, <1>3, <1>9 DEF Walk
  <1>14. ASSUME NEW i \in 1 .. Len(spawn_edges')
         PROVE  parent'[spawn_edges'[i]] \in {Root} \cup {spawn_edges'[j] : j \in 1 .. i - 1}
    <2> DEFINE m == Len(spawn_edges)
               n == Len(C)
    <2>0. m \in Nat /\ n \in Nat /\ DOMAIN spawn_edges = 1 .. m /\ DOMAIN C = 1 .. n
      BY <1>2 DEF Walk
    <2>1. CASE i \in 1 .. m
      <3>1. \A j \in 1 .. i - 1 : j \in 1 .. m
        BY <2>0, <2>1
      <3>2. spawn_edges'[i] = spawn_edges[i] /\ \A j \in 1 .. i - 1 : spawn_edges'[j] = spawn_edges[j]
        BY <1>9, <2>1, <3>1
      <3>3. parent[spawn_edges[i]] \in {Root} \cup {spawn_edges[j] : j \in 1 .. i - 1}
        BY <2>1 DEF Walk
      <3> QED BY <1>0, <3>2, <3>3
    <2>2. CASE i \notin 1 .. m
      <3> HIDE DEF m, n
      <3>1. i - m \in 1 .. n /\ i = m + (i - m)
        BY <1>9, <2>0, <2>2 DEF m, n
      <3>2. spawn_edges'[i] = C[i - m]
        BY <1>9, <3>1 DEF m, n
      <3>3. C[i - m] \in Listed(C)
        BY <2>0, <3>1 DEF Listed
      <3>4. parent'[spawn_edges'[i]] = node
        BY <1>0, <1>2, <3>2, <3>3
      <3>5. node \in {Root} \cup Listed(spawn_edges)
        BY <1>1 DEF Walk
      <3>6. ASSUME NEW k \in 1 .. m, node = spawn_edges[k]
            PROVE  node \in {spawn_edges'[j] : j \in 1 .. i - 1}
        <4>1. k \in 1 .. i - 1 /\ spawn_edges'[k] = spawn_edges[k]
          BY <1>9, <2>0, <3>1 DEF m
        <4> QED BY <3>6, <4>1
      <3> QED BY <2>0, <3>4, <3>5, <3>6 DEF Listed
    <2> QED BY <2>1, <2>2
  <1>15. gpc' \notin {"spawns", "writes"} /\ ~Ready'
    BY <1>0 DEF Ready
  <1>16. /\ Visited' \cap Listed(processing)' = {}
         /\ Visited' \cup Listed(processing)' = {Root} \cup Listed(spawn_edges)'
         /\ Listed(spawn_edges)' = {i \in 1 .. Len(parent') : parent'[i] \in Visited'}
         /\ DOMAIN spawn_ops' = Listed(spawn_edges)'
         /\ Once(processing)' /\ Once(spawn_edges)'
    BY <1>8, <1>9, <1>11, <1>12, <1>13 DEF Listed, Once
  <1> QED BY <1>8, <1>9, <1>14, <1>15, <1>16 DEF Walk

LEMMA WalkStep == Shape /\ Walk /\ [GraphNext]_graph_vars => Walk'
  <1> SUFFICES ASSUME Shape, Walk, [GraphNext]_graph_vars PROVE Walk'
    OBVIOUS
  <1>0. Shape'
    BY ShapeStep
  <1>1. ASSUME NEW n \in NodeIndex, add_node(n) PROVE Walk'
    <2>1. Len(parent') >= Len(parent) /\ \A i \in 1 .. Len(parent) : parent'[i] = parent[i]
      BY <1>1 DEF add_node, Shape
    <2> QED BY <1>0, <1>1, <2>1, WalkSame DEF add_node, Ready
  <1> DEFINE Still == /\ UNCHANGED <<parent, processing, spawn_edges>>
                      /\ DOMAIN pipes_ops' = DOMAIN pipes_ops /\ DOMAIN spawn_ops' = DOMAIN spawn_ops
                      /\ gpc' \in {"spawns", "writes"} => gpc \in {"spawns", "writes"} /\ pipes_ops' = pipes_ops
                      /\ Ready' => Ready \/ processing = <<>>
  <1>2. Still => Walk'
    <2>1. Len(parent) >= Len(parent)
      BY DEF Shape
    <2>2. SUFFICES ASSUME Still PROVE Walk'
      OBVIOUS
    <2> QED BY <1>0, <2>1, <2>2, WalkSame
  <1>3. ASSUME NEW n \in NodeIndex, NEW m \in NodeIndex, add_edge(n, m) PROVE Still
    BY <1>3 DEF add_edge, Ready
  <1>4. CASE nodes_added
    BY <1>2, <1>4 DEF nodes_added, tree, Ready
  <1>5. CASE edges_added
    BY <1>2, <1>5 DEF edges_added, tree, Ready
  <1>6. CASE traverse
    BY <1>6, WalkTraverse
  <1>7. CASE next_edge
    BY <1>2, <1>7 DEF next_edge, EachEdge, tree, Ready
  <1>8. CASE climb
    BY <1>2, <1>8 DEF climb, tree, Ready
  <1>9. CASE pass
    BY <1>2, <1>9 DEF pass, PassDown, tree, Ready
  <1>10. CASE build
    BY <1>2, <1>10 DEF build, EachEdge, tree, Ready
  <1>11. CASE UNCHANGED graph_vars
    BY <1>2, <1>11 DEF graph_vars, tree, Ready
  <1> HIDE DEF Still
  <1> QED
    BY <1>1, <1>2, <1>3, <1>4, <1>5, <1>6, <1>7, <1>8, <1>9, <1>10, <1>11 DEF GraphNext, generate_data_graph

(* When the queue is empty, every node has been visited. *)
LEMMA WalkDone ==
    ASSUME Shape, Walk, gpc # "spawns", processing = <<>>
    PROVE  Visited = NodeIndex /\ Listed(spawn_edges) = 1 .. GraphSpawns
  <1>0. Tree /\ Len(parent) = GraphSpawns
    BY ShapeTree DEF Shape
  <1>1. Visited = {Root} \cup Listed(spawn_edges)
    BY DEF Walk, Listed
  <1>2. Listed(spawn_edges) = {i \in 1 .. GraphSpawns : parent[i] \in Visited}
    BY <1>0 DEF Walk
  <1>3. Visited \subseteq NodeIndex
    BY <1>0, <1>1, <1>2, UpIn
  <1> DEFINE T == NodeIndex \ Visited
  <1>4. ASSUME T # {} PROVE FALSE
    <2>1. T \in SUBSET Nat
      BY <1>0, UpIn
    <2>2. PICK x \in T : \A y \in T : x <= y
      <3> HIDE DEF T
      <3> QED BY <1>4, <2>1, LeastOf
    <2>3. x \in 1 .. GraphSpawns
      BY <1>0, <1>1, <2>2, UpIn
    <2>4. parent[x] \in NodeIndex /\ parent[x] < x /\ x \in Nat /\ parent[x] \in Nat
      BY <1>0, <2>1, <2>3, UpIn DEF Tree
    <2>5. parent[x] \in Visited
      BY <2>2, <2>4
    <2> QED BY <1>1, <1>2, <2>2, <2>3, <2>5
  <1>5. Visited = NodeIndex
    BY <1>3, <1>4
  <1>6. \A i \in 1 .. GraphSpawns : parent[i] \in NodeIndex
    BY <1>0 DEF Tree
  <1> QED BY <1>2, <1>5, <1>6

(* A list that names each of 1 .. n once is n long. *)
LEMMA OnceLength ==
    ASSUME NEW n \in Nat, NEW s \in Seq(1 .. n), Once(s), Listed(s) = 1 .. n
    PROVE  Len(s) = n
  <1>1. Len(s) \in Nat /\ DOMAIN s = 1 .. Len(s) /\ s \in [1 .. Len(s) -> 1 .. n]
    OBVIOUS
  <1>2. s \in Bijection(1 .. Len(s), 1 .. n)
    <2>1. s \in Injection(1 .. Len(s), 1 .. n)
      BY <1>1 DEF Once, Injection, IsInjective
    <2>2. \A y \in 1 .. n : \E x \in 1 .. Len(s) : s[x] = y
      BY <1>1 DEF Listed
    <2>3. s \in Surjection(1 .. Len(s), 1 .. n)
      BY <1>1, <2>2 DEF Surjection
    <2> QED BY <2>1, <2>3 DEF Bijection
  <1>a. \A k \in Nat : IsFiniteSet(1 .. k) /\ Cardinality(1 .. k) = k
    <2> SUFFICES ASSUME NEW k \in Nat PROVE IsFiniteSet(1 .. k) /\ Cardinality(1 .. k) = k
      OBVIOUS
    <2>1. 1 \in Int /\ k \in Int
      OBVIOUS
    <2>2. IsFiniteSet(1 .. k) /\ Cardinality(1 .. k) = IF 1 > k THEN 0 ELSE k - 1 + 1
      BY ONLY <2>1, FS_Interval
    <2> QED BY <2>2
  <1>3. IsFiniteSet(1 .. Len(s)) /\ Cardinality(1 .. Len(s)) = Len(s)
    BY <1>1, <1>a
  <1>4. IsFiniteSet(1 .. n) /\ Cardinality(1 .. n) = n
    BY <1>a
  <1>5. ExistsBijection(1 .. Len(s), 1 .. n)
    BY <1>2, Fun_ExistsBij
  <1>6. Cardinality(1 .. Len(s)) = Cardinality(1 .. n)
    <2> DEFINE A == 1 .. Len(s)
               B == 1 .. n
    <2>1. IsFiniteSet(A) /\ ExistsBijection(A, B)
      BY <1>3, <1>5
    <2> HIDE DEF A, B
    <2>2. Cardinality(A) = Cardinality(B)
      BY <2>1, FS_Bijection
    <2> QED BY <2>2 DEF A, B
  <1> QED BY <1>3, <1>4, <1>6

-----------------------------------------------------------------------------
(* The lists returned *)

(* pipes_upto lists the pairs of every node. *)
LEMMA PipesListed ==
    ASSUME pipes_ops \in [NodeIndex -> Seq(Nat \X Nat)]
    PROVE  \A x : x \in Listed(pipes_upto[GraphSpawns]) <=>
                     \E n \in NodeIndex : \E i \in DOMAIN pipes_ops[n] : x = PipeOf(n, pipes_ops[n][i])
  <1> DEFINE U == [vm : NodeIndex, read_pipe : Nat, write_pipe : Nat]
             X == Seq(U)
             own(n) == [i \in DOMAIN pipes_ops[n] |-> PipeOf(n, pipes_ops[n][i])]
             F == [n \in Nat |-> [s \in X |-> IF n \in NodeIndex THEN s \o own(n) ELSE s]]
             P(h) == h = [n \in NodeIndex |-> (IF n = 0 THEN <<>> ELSE h[n - 1]) \o own(n)]
  <1>0. /\ 0 \in NodeIndex /\ GraphSpawns \in NodeIndex /\ GraphSpawns \in Nat
        /\ \A n \in NodeIndex : n \in Nat /\ (n # 0 => n - 1 \in NodeIndex)
        /\ \A n \in Nat : n + 1 \in NodeIndex => n \in NodeIndex
    BY GraphAssumption DEF NodeIndex
  <1>1. ASSUME NEW n \in NodeIndex PROVE own(n) \in X
    <2> DEFINE p == pipes_ops[n]
    <2>1. p \in Seq(Nat \X Nat) /\ Len(p) \in Nat /\ DOMAIN p = 1 .. Len(p)
      OBVIOUS
    <2>2. ASSUME NEW i \in 1 .. Len(p) PROVE PipeOf(n, p[i]) \in U
      <3>1. p[i] \in Nat \X Nat
        BY <2>1
      <3> QED BY <3>1 DEF PipeOf
    <2> HIDE DEF U, p
    <2>3. own(n) \in [1 .. Len(p) -> U]
      BY <2>1, <2>2 DEF p
    <2> HIDE DEF own
    <2> QED BY <2>1, <2>3, ListOf
  <1> HIDE DEF U
  <1>2. <<>> \o own(0) \in X /\ F \in [Nat -> [X -> X]]
    <2>1. \A s \in X, n \in NodeIndex : s \o own(n) \in X
      <3> HIDE DEF own
      <3> QED BY <1>1
    <2>2. <<>> \in X
      OBVIOUS
    <2> HIDE DEF X, own
    <2> QED BY <1>0, <2>1, <2>2
  <1>3. PICK g : Recursion(g, X, <<>> \o own(0), F)
    <2> DEFINE x0 == <<>> \o own(0)
    <2>1. x0 \in X /\ F \in [Nat -> [X -> X]]
      BY <1>2
    <2> HIDE DEF X, F, x0
    <2>2. \E g : Recursion(g, X, x0, F)
      BY <2>1, Iterates
    <2> QED BY <2>2 DEF x0
  <1> DEFINE r == [n \in NodeIndex |-> g[n]]
  <1>4. ASSUME NEW n \in NodeIndex
        PROVE  r[n] = (IF n = 0 THEN <<>> ELSE r[n - 1]) \o own(n)
    <2>1. CASE n = 0
      <3> HIDE DEF own, X, F
      <3> QED BY <1>3, <2>1 DEF Recursion
    <2>2. CASE n # 0
      <3>1. n - 1 \in Nat /\ (n - 1) + 1 = n /\ n - 1 \in NodeIndex /\ n \in Nat
        BY <1>0, <2>2
      <3>2. g[n] = F[n][g[n - 1]] /\ g[n - 1] \in X
        <4> HIDE DEF X, F, own
        <4> QED BY <1>3, <3>1 DEF Recursion
      <3>3. F[n][g[n - 1]] = g[n - 1] \o own(n)
        <4> HIDE DEF X, own
        <4> QED BY <3>1, <3>2
      <3> HIDE DEF F, own
      <3> QED BY <2>2, <3>1, <3>2, <3>3
    <2> QED BY <2>1, <2>2
  <1>5. P(r)
    <2> DEFINE q == [n \in NodeIndex |-> (IF n = 0 THEN <<>> ELSE r[n - 1]) \o own(n)]
    <2>1. \A n \in NodeIndex : r[n] = q[n]
      <3> HIDE DEF own, r
      <3> QED BY <1>4
    <2>2. r = [n \in NodeIndex |-> r[n]] /\ q = [n \in NodeIndex |-> q[n]]
      OBVIOUS
    <2>3. r = q
      <3> HIDE DEF r, q
      <3> QED BY <2>1, <2>2
    <2> HIDE DEF r
    <2> QED BY <2>3
  <1>6. P(CHOOSE h : P(h))
    <2> HIDE DEF P, r
    <2> QED BY <1>5, Zenon
  <1>7. P(pipes_upto)
    BY <1>6, Zenon DEF pipes_upto
  <1> HIDE DEF r
  <1> DEFINE S == {k \in Nat : k \in NodeIndex => /\ pipes_upto[k] \in X
                                  /\ \A x : x \in Listed(pipes_upto[k]) <=> \E j \in 0 .. k : x \in Listed(own(j))}
  <1>8. 0 \in S
    <2> HIDE DEF own
    <2>1. pipes_upto[0] = <<>> \o own(0)
      BY <1>0, <1>7
    <2>2. <<>> \o own(0) = own(0) /\ own(0) \in X
      BY <1>0, <1>1
    <2>3. \A x : x \in Listed(own(0)) <=> \E j \in 0 .. 0 : x \in Listed(own(j))
      <3>1. 0 .. 0 = {0}
        OBVIOUS
      <3> QED BY <3>1
    <2> HIDE DEF X
    <2> QED BY <2>1, <2>2, <2>3
  <1>9. ASSUME NEW k \in Nat, k \in S PROVE k + 1 \in S
    <2> HIDE DEF own
    <2> SUFFICES ASSUME k + 1 \in NodeIndex
                 PROVE  /\ pipes_upto[k + 1] \in X
                        /\ \A x : x \in Listed(pipes_upto[k + 1]) <=> \E j \in 0 .. k + 1 : x \in Listed(own(j))
      OBVIOUS
    <2>0. k \in NodeIndex /\ k + 1 # 0 /\ (k + 1) - 1 = k
      BY <1>0
    <2>1. pipes_upto[k + 1] = pipes_upto[k] \o own(k + 1)
      <3>1. pipes_upto[k + 1] = (IF k + 1 = 0 THEN <<>> ELSE pipes_upto[(k + 1) - 1]) \o own(k + 1)
        BY ONLY <1>7, k + 1 \in NodeIndex, Zenon
      <3> QED BY <2>0, <3>1
    <2>2. /\ pipes_upto[k] \in Seq(U) /\ own(k + 1) \in Seq(U)
          /\ \A x : x \in Listed(pipes_upto[k]) <=> \E j \in 0 .. k : x \in Listed(own(j))
      BY <1>1, <1>9, <2>0
    <2>3. /\ pipes_upto[k] \o own(k + 1) \in Seq(U)
          /\ Listed(pipes_upto[k] \o own(k + 1)) = Listed(pipes_upto[k]) \cup Listed(own(k + 1))
      BY <2>2, Joined
    <2>4. 0 .. k + 1 = (0 .. k) \cup {k + 1}
      OBVIOUS
    <2>5. \A x : (\E j \in 0 .. k + 1 : x \in Listed(own(j)))
                   <=> (\E j \in 0 .. k : x \in Listed(own(j))) \/ x \in Listed(own(k + 1))
      BY ONLY <2>4, Zenon
    <2> QED BY <2>1, <2>2, <2>3, <2>5
  <1>10. Nat \subseteq S
    <2> HIDE DEF S
    <2> QED BY <1>8, <1>9, Induct
  <1>11. \A x : x \in Listed(pipes_upto[GraphSpawns]) <=> \E j \in NodeIndex : x \in Listed(own(j))
    <2> HIDE DEF own
    <2> QED BY <1>0, <1>10 DEF NodeIndex
  <1>12. \A n \in NodeIndex : \A x : x \in Listed(own(n)) <=> \E i \in DOMAIN pipes_ops[n] : x = PipeOf(n, pipes_ops[n][i])
    BY DEF Listed
  <1> HIDE DEF own
  <1> QED BY <1>11, <1>12

-----------------------------------------------------------------------------
(* The search for the ancestor *)

(* The path of a node depends on the tree alone. *)
LEMMA ClimbSame ==
    ASSUME parent' = parent
    PROVE  climbed' = climbed
  <1> DEFINE Q(p) == CHOOSE f : f = [k \in Nat |-> [n \in NodeIndex |->
                        IF k = 0 THEN n ELSE IF f[k - 1][n] = Root THEN Root ELSE p[f[k - 1][n]]]]
  <1>1. climbed = Q(parent)
    BY Zenon DEF climbed, Up
  <1>2. climbed' = Q(parent')
    BY Zenon DEF climbed, Up
  <1> HIDE DEF Q
  <1> QED BY <1>1, <1>2

LEMMA PathSame ==
    ASSUME parent' = parent
    PROVE  \A n, top : Above(n)' = Above(n) /\ PathTo(n, top)' = PathTo(n, top)
  <1> SUFFICES ASSUME NEW n, NEW top PROVE Above(n)' = Above(n) /\ PathTo(n, top)' = PathTo(n, top)
    OBVIOUS
  <1> DEFINE Q(c) == LET above == {k \in NodeIndex : c[k][n] = top}
                         steps == CHOOSE k \in above : \A j \in above : k <= j
                     IN  {c[k][n] : k \in 0 .. steps - 1}
             V(c) == {c[k][n] : k \in NodeIndex}
  <1>1. PathTo(n, top) = Q(climbed) /\ Above(n) = V(climbed)
    BY Zenon DEF PathTo, Above
  <1>2. PathTo(n, top)' = Q(climbed') /\ Above(n)' = V(climbed')
    BY Zenon DEF PathTo, Above
  <1> HIDE DEF Q, V
  <1> QED BY <1>1, <1>2, ClimbSame

(* The nodes met in k steps up from n. *)
Met(n, k) == {climbed[j][n] : j \in 0 .. k}

Lowest(n, m, x) ==
    /\ x \in Above(n) \cap Above(m)
    /\ \A y \in Above(n) \cap Above(m) : y \in Above(x)

(* Where a path first meets the other, it meets it at its lowest. *)
LEMMA FirstMeeting ==
    ASSUME Tree, NEW n \in NodeIndex, NEW m \in NodeIndex, NEW k \in Nat,
           Met(n, k) \cap Met(m, k) = {}, climbed[k + 1][n] \in Met(m, k + 1)
    PROVE  Lowest(n, m, climbed[k + 1][n]) /\ Lowest(m, n, climbed[k + 1][n])
  <1> DEFINE x == climbed[k + 1][n]
  <1>1. PICK j \in 0 .. k + 1 : x = climbed[j][m]
    BY DEF Met
  <1>0. j \in Nat /\ k + 1 \in Nat
    OBVIOUS
  <1>2. x \in Above(n) /\ x \in Above(m) /\ x \in NodeIndex
    BY <1>0, <1>1, AboveAll
  <1>3. ASSUME NEW y \in Above(n) \cap Above(m) PROVE y \in Above(x)
    <2>1. PICK i \in Nat : y = climbed[i][n]
      BY AboveIs
    <2>2. PICK l \in Nat : y = climbed[l][m]
      BY AboveIs
    <2>3. CASE i >= k + 1
      <3>1. y = climbed[i - (k + 1)][x] /\ i - (k + 1) \in Nat
        BY <1>0, <2>1, <2>3, ClimbOn
      <3> QED BY <1>2, <3>1, AboveAll
    <2>4. CASE l >= k + 1
      <3>1. y = climbed[l - j][climbed[j][m]] /\ l - j \in Nat
        BY <1>0, <2>2, <2>4, ClimbOn
      <3> QED BY <1>1, <1>2, <3>1, AboveAll
    <2>5. CASE i <= k /\ l <= k
      <3>1. i \in 0 .. k /\ l \in 0 .. k
        BY <2>5
      <3>2. y \in Met(n, k) /\ y \in Met(m, k)
        BY <2>1, <2>2, <3>1 DEF Met
      <3> QED BY <3>2
    <2> QED BY <2>3, <2>4, <2>5
  <1> HIDE DEF x
  <1>4. Lowest(n, m, x) /\ Lowest(m, n, x)
    BY <1>2, <1>3 DEF Lowest
  <1> QED BY <1>4 DEF x

LEMMA MetNext ==
    ASSUME Tree, NEW n \in NodeIndex, NEW k \in Nat
    PROVE  /\ Met(n, k + 1) = Met(n, k) \cup {Up(climbed[k][n])}
           /\ climbed[k + 1][n] = Up(climbed[k][n]) /\ climbed[k][n] \in Met(n, k)
           /\ Met(n, 0) = {n} /\ climbed[0][n] = n
  <1>1. climbed[k + 1][n] = Up(climbed[k][n]) /\ climbed[0][n] = n
    BY ClimbedIs
  <1>2. 0 .. k + 1 = (0 .. k) \cup {k + 1} /\ 0 .. 0 = {0} /\ k \in 0 .. k
    OBVIOUS
  <1>3. Met(n, k + 1) = Met(n, k) \cup {climbed[k + 1][n]}
    BY <1>2 DEF Met
  <1>4. climbed[k][n] \in Met(n, k) /\ Met(n, 0) = {climbed[0][n]}
    BY <1>2 DEF Met
  <1> QED BY <1>1, <1>3, <1>4

(* The search has looked at the same number of steps up on both sides, and *)
(* met no node twice; when it stops, it has found the lowest.              *)
Searched(k) ==
    /\ a = climbed[k][writer] /\ b = climbed[k][reader]
    /\ set_a = Met(writer, k) /\ set_b = Met(reader, k)
Search ==
    /\ gpc = "climb" => set_a \cap set_b = {} /\ \E k \in Nat : Searched(k)
    /\ gpc = "pass" => Lowest(writer, reader, ancestor)

LEMMA EdgeEnds ==
    ASSUME Shape, edge <= Len(write_edges)
    PROVE  writer \in NodeIndex /\ reader \in NodeIndex /\ writer # reader
  <1>1. edge \in 1 .. Len(write_edges) /\ write_edges[edge] \in NodeIndex \X NodeIndex
    BY DEF Shape
  <1> QED BY <1>1 DEF Shape, writer, reader

LEMMA SearchClimb ==
    ASSUME Shape, Search, climb
    PROVE  Search'
  <1>0. Tree /\ parent' = parent /\ writer' = writer /\ reader' = reader /\ gpc = "climb"
    BY ShapeTree DEF climb, tree, writer, reader
  <1>1. writer \in NodeIndex /\ reader \in NodeIndex
    BY EdgeEnds DEF climb, Shape
  <1>2. PICK k \in Nat : Searched(k)
    BY <1>0 DEF Search
  <1>3. set_a \cap set_b = {}
    BY <1>0 DEF Search
  <1> DEFINE pa == Up(a)
             pb == Up(b)
             A == Met(writer, k + 1)
             B == Met(reader, k + 1)
  <1>4. /\ A = set_a \cup {pa} /\ pa = climbed[k + 1][writer] /\ a \in set_a
        /\ B = set_b \cup {pb} /\ pb = climbed[k + 1][reader] /\ b \in set_b
    BY <1>0, <1>1, <1>2, MetNext DEF Searched
  <1>5. a' = pa /\ b' = pb /\ set_a' = A /\ set_b' = B
    BY <1>4 DEF climb
  <1>6. \/ Meets(pa, a, B) /\ ancestor' = pa /\ gpc' = "pass"
        \/ Meets(pb, b, A) /\ ancestor' = pb /\ gpc' = "pass"
        \/ ~Meets(pa, a, B) /\ ~Meets(pb, b, A) /\ gpc' = gpc
    BY <1>4 DEF climb
  <1>7. \A n, m, x : Lowest(n, m, x) => Lowest(n, m, x)'
    BY <1>0, PathSame DEF Lowest
  <1>8. \A n, j : Met(n, j)' = Met(n, j)
    BY <1>0, ClimbSame DEF Met
  <1>9. Met(writer, k) \cap Met(reader, k) = {} /\ Met(reader, k) \cap Met(writer, k) = {}
    BY <1>2, <1>3 DEF Searched
  <1> HIDE DEF pa, pb, A, B
  <1>10. CASE Meets(pa, a, B) /\ ancestor' = pa /\ gpc' = "pass"
    <2>1. climbed[k + 1][writer] \in Met(reader, k + 1)
      BY <1>4, <1>10 DEF Meets, B
    <2>2. Lowest(writer, reader, pa)
      BY <1>0, <1>1, <1>4, <1>9, <2>1, FirstMeeting
    <2> QED BY <1>0, <1>7, <1>10, <2>2 DEF Search
  <1>11. CASE Meets(pb, b, A) /\ ancestor' = pb /\ gpc' = "pass"
    <2>1. climbed[k + 1][reader] \in Met(writer, k + 1)
      BY <1>4, <1>11 DEF Meets, A
    <2>2. Lowest(writer, reader, pb)
      BY <1>0, <1>1, <1>4, <1>9, <2>1, FirstMeeting
    <2> QED BY <1>0, <1>7, <1>11, <2>2 DEF Search
  <1>12. CASE ~Meets(pa, a, B) /\ ~Meets(pb, b, A) /\ gpc' = gpc
    <2>1. pa \in B => a = Root
      BY <1>12 DEF Meets
    <2>2. pb \in A => b = Root
      BY <1>12 DEF Meets
    <2>3. (a = Root => pa = Root) /\ (b = Root => pb = Root)
      BY DEF pa, pb, Up
    <2>4. A \cap B = {}
      BY <1>3, <1>4, <2>1, <2>2, <2>3
    <2>5. Searched(k + 1)'
      BY <1>0, <1>4, <1>5, <1>8, ClimbSame DEF Searched, A, B
    <2>6. k + 1 \in Nat
      OBVIOUS
    <2> QED BY <1>0, <1>5, <1>12, <2>4, <2>5, <2>6 DEF Search
  <1> QED BY <1>6, <1>10, <1>11, <1>12

LEMMA SearchInit == GraphInit => Search
  BY DEF GraphInit, Search

LEMMA SearchStep == Shape /\ Search /\ [GraphNext]_graph_vars => Search'
  <1> SUFFICES ASSUME Shape, Search, [GraphNext]_graph_vars PROVE Search'
    OBVIOUS
  <1>1. CASE next_edge
    <2>1. /\ Tree /\ UNCHANGED <<parent, write_edges, edge>> /\ gpc' = "climb"
          /\ a' = writer /\ b' = reader /\ set_a' = {writer} /\ set_b' = {reader}
          /\ edge <= Len(write_edges)
      BY <1>1, ShapeTree DEF next_edge, EachEdge, tree
    <2>2. writer \in NodeIndex /\ reader \in NodeIndex /\ writer # reader
      BY <2>1, EdgeEnds
    <2>3. writer' = writer /\ reader' = reader
      BY <2>1 DEF writer, reader
    <2>4. /\ Met(writer, 0) = {writer} /\ climbed[0][writer] = writer
          /\ Met(reader, 0) = {reader} /\ climbed[0][reader] = reader
      BY <2>1, <2>2, MetNext
    <2>5. Met(writer, 0)' = {writer} /\ Met(reader, 0)' = {reader} /\ climbed' = climbed
      BY <2>1, <2>3, <2>4, ClimbSame DEF Met
    <2>6. Searched(0)'
      BY <2>1, <2>3, <2>4, <2>5 DEF Searched
    <2> QED BY <2>1, <2>2, <2>6 DEF Search
  <1>2. CASE climb
    BY <1>2, SearchClimb
  <1>3. CASE gpc' \notin {"climb", "pass"}
    BY <1>3 DEF Search
  <1>4. CASE UNCHANGED graph_vars
    <2>1. UNCHANGED <<gpc, parent, write_edges, edge, a, b, set_a, set_b, ancestor>>
      BY <1>4 DEF graph_vars, tree, search
    <2>2. writer' = writer /\ reader' = reader
      BY <2>1 DEF writer, reader
    <2>3. \A n, m, x : Lowest(n, m, x) => Lowest(n, m, x)'
      BY <2>1, PathSame DEF Lowest
    <2>4. \A n, j : Met(n, j)' = Met(n, j)
      BY <2>1, ClimbSame DEF Met
    <2>5. \A k \in Nat : Searched(k) => Searched(k)'
      BY <2>1, <2>2, <2>4, ClimbSame DEF Searched
    <2> QED BY <2>1, <2>2, <2>3, <2>5 DEF Search
  <1>5. next_edge \/ climb \/ gpc' \notin {"climb", "pass"} \/ UNCHANGED graph_vars
    BY DEF GraphNext, generate_data_graph, add_node, add_edge, nodes_added, edges_added, traverse, pass, build, Shape
  <1> QED BY <1>1, <1>2, <1>3, <1>4, <1>5

(* The search finds the lowest common ancestor, for every tree and every   *)
(* write, and never runs into its assertion.                               *)
THEOREM LowestAncestorHolds == GraphSpec => []LowestAncestor
  <1>1. Shape /\ Search => LowestAncestor
    <2> SUFFICES ASSUME Shape, Search PROVE LowestAncestor
      OBVIOUS
    <2>1. ASSUME gpc = "climb" PROVE {a, b} # {Root}
      <3>1. Tree /\ writer \in NodeIndex /\ reader \in NodeIndex
        BY <2>1, ShapeTree, EdgeEnds DEF Shape
      <3>2. PICK k \in Nat : Searched(k)
        BY <2>1 DEF Search
      <3>3. a \in set_a /\ b \in set_b
        BY <3>1, <3>2, MetNext DEF Searched
      <3> QED BY <2>1, <3>3 DEF Search
    <2> QED BY <2>1 DEF LowestAncestor, Search, Lowest
  <1> QED BY <1>1, ShapeInit, ShapeStep, SearchInit, SearchStep, PTL DEF GraphSpec

-----------------------------------------------------------------------------
(* The pipes *)

WriterOf(e) == write_edges[e][1]
ReaderOf(e) == write_edges[e][2]

(* The ends of edge e, made by x, that the spawn of n carries. *)
Carries(n, p, e, x) ==
    \/ p = writer_pipe_index(e) /\ n \in PathTo(WriterOf(e), x)
    \/ p = reader_pipe_index(e) /\ n \in PathTo(ReaderOf(e), x)

(* anc[e] is where edge e was given its pipes. *)
Passed(anc) ==
    /\ anc \in [1 .. edge - 1 -> NodeIndex]
    /\ \A e \in 1 .. edge - 1 : anc[e] \in Above(WriterOf(e)) \cap Above(ReaderOf(e))
    /\ \A n \in DOMAIN spawn_ops :
          /\ spawn_ops[n] \in Seq(Nat) /\ Once(spawn_ops[n])
          /\ \A p : p \in Listed(spawn_ops[n]) <=> \E e \in 1 .. edge - 1 : Carries(n, p, e, anc[e])
    /\ \A n \in DOMAIN pipes_ops :
          /\ pipes_ops[n] \in Seq(Nat \X Nat)
          /\ \A q : q \in Listed(pipes_ops[n]) <=>
                \E e \in 1 .. edge - 1 : anc[e] = n /\ q = <<reader_pipe_index(e), writer_pipe_index(e)>>

(* Nothing is passed before the traversal is over; after it, what is       *)
(* passed is what the ancestors found so far account for.                  *)
Pipes ==
    /\ pipes_ops = [n \in DOMAIN pipes_ops |-> pipes_ops[n]]
    /\ ~Ready => /\ \A n \in DOMAIN spawn_ops : spawn_ops[n] = <<>>
                 /\ \A n \in DOMAIN pipes_ops : pipes_ops[n] = <<>>
    /\ Ready => \E anc : Passed(anc)

(* No two ends have the same index. *)
LEMMA EndIndices ==
    ASSUME NEW e \in Nat \ {0}, NEW f \in Nat \ {0}
    PROVE  /\ writer_pipe_index(e) \in Nat /\ reader_pipe_index(e) \in Nat
           /\ writer_pipe_index(e) # reader_pipe_index(f)
           /\ writer_pipe_index(e) = writer_pipe_index(f) => e = f
           /\ reader_pipe_index(e) = reader_pipe_index(f) => e = f
  BY DEF writer_pipe_index, reader_pipe_index

LEMMA FreshPassed ==
    ASSUME Shape, Pipes, gpc = "traverse"
    PROVE  \E anc : Passed(anc)
  <1>1. /\ edge = 1 /\ 1 .. edge - 1 = {}
        /\ \A n \in DOMAIN spawn_ops : spawn_ops[n] = <<>>
        /\ \A n \in DOMAIN pipes_ops : pipes_ops[n] = <<>>
    BY DEF Shape, Pipes, Ready
  <1>2. Listed(<<>>) = {} /\ Once(<<>>) /\ <<>> \in Seq(Nat) /\ <<>> \in Seq(Nat \X Nat)
    BY DEF Listed, Once
  <1>3. Passed([e \in {} |-> Root])
    BY <1>1, <1>2 DEF Passed
  <1> QED BY <1>3

LEMMA PipesSame ==
    ASSUME Pipes, UNCHANGED <<spawn_ops, pipes_ops>>,
           Ready' => UNCHANGED <<parent, write_edges, edge>> /\ \E anc : Passed(anc),
           ~Ready' => ~Ready
    PROVE  Pipes'
  <1>1. CASE ~Ready'
    BY <1>1 DEF Pipes
  <1>2. CASE Ready'
    <2>1. PICK anc : Passed(anc)
      BY <1>2
    <2>2. \A n, p, e, x : Carries(n, p, e, x)' <=> Carries(n, p, e, x)
      BY <1>2, PathSame DEF Carries, WriterOf, ReaderOf, writer_pipe_index, reader_pipe_index
    <2>3. \A e : Above(WriterOf(e))' = Above(WriterOf(e)) /\ Above(ReaderOf(e))' = Above(ReaderOf(e))
      BY <1>2, PathSame DEF WriterOf, ReaderOf
    <2>4. \A s : (Once(s)' <=> Once(s)) /\ Listed(s)' = Listed(s)
      BY DEF Once, Listed
    <2>5. Passed(anc)'
      <3>1. /\ anc \in [1 .. edge' - 1 -> NodeIndex]
            /\ \A e \in 1 .. edge' - 1 : anc[e] \in Above(WriterOf(e))' \cap Above(ReaderOf(e))'
        BY <1>2, <2>1, <2>3 DEF Passed
      <3>2. \A n \in DOMAIN spawn_ops' :
               /\ spawn_ops'[n] \in Seq(Nat) /\ Once(spawn_ops[n])'
               /\ \A p : p \in Listed(spawn_ops[n])' <=> \E e \in 1 .. edge' - 1 : Carries(n, p, e, anc[e])'
        <4>1. \A n : Once(spawn_ops[n])' = Once(spawn_ops[n]) /\ Listed(spawn_ops[n])' = Listed(spawn_ops[n])
          BY DEF Once, Listed
        <4> QED BY <1>2, <2>1, <2>2, <4>1 DEF Passed
      <3>3. \A n \in DOMAIN pipes_ops' :
               /\ pipes_ops'[n] \in Seq(Nat \X Nat)
               /\ \A q : q \in Listed(pipes_ops[n])' <=>
                     \E e \in 1 .. edge' - 1 : anc[e] = n /\ q = <<reader_pipe_index(e), writer_pipe_index(e)>>
        <4>1. \A n : Listed(pipes_ops[n])' = Listed(pipes_ops[n])
          BY DEF Listed
        <4> QED BY <1>2, <2>1, <4>1 DEF Passed
      <3> QED BY <3>1, <3>2, <3>3 DEF Passed
    <2> QED BY <1>2, <2>5 DEF Pipes
  <1> QED BY <1>1, <1>2

LEMMA PipesTraverse ==
    ASSUME Pipes, traverse
    PROVE  Pipes'
  <1>1. gpc = "traverse" /\ ~Ready /\ ~Ready'
    BY DEF traverse, Ready
  <1>2. PICK S, D : spawn_ops' = Extend(spawn_ops, S, <<>>) /\ pipes_ops' = Extend(pipes_ops, D, <<>>)
    BY DEF traverse
  <1>3. pipes_ops' = [n \in DOMAIN pipes_ops' |-> pipes_ops'[n]]
    BY <1>2 DEF Extend
  <1> QED BY <1>1, <1>2, <1>3 DEF Pipes, Extend

LEMMA PipesPass ==
    ASSUME Shape, Walk, Search, Pipes, pass
    PROVE  Pipes'
  <1> DEFINE x == ancestor
             w == writer_pipe_index(edge)
             r == reader_pipe_index(edge)
             pw == PathTo(writer, x)
             pr == PathTo(reader, x)
             pair == <<r, w>>
             X(n) == IF n \in pw THEN <<w>> ELSE <<>>
             Y(n) == IF n \in pr THEN <<r>> ELSE <<>>
  <1>0. /\ gpc = "pass" /\ Ready /\ Ready' /\ edge \in Nat \ {0} /\ edge <= Len(write_edges)
        /\ edge' = edge + 1 /\ UNCHANGED <<parent, write_edges>> /\ Tree
    BY ShapeTree DEF pass, Ready, Shape, tree
  <1>1. PICK anc : Passed(anc)
    BY <1>0 DEF Pipes
  <1>2. x \in Above(writer) /\ x \in Above(reader) /\ writer \in NodeIndex /\ reader \in NodeIndex
    BY <1>0, EdgeEnds DEF Search, Lowest
  <1>3. x \in NodeIndex /\ Visited = NodeIndex
    BY <1>0, <1>2, AboveIs, WalkDone DEF Walk
  <1>4. writer = WriterOf(edge) /\ reader = ReaderOf(edge)
    BY DEF writer, reader, WriterOf, ReaderOf
  <1>5. /\ w \in Nat /\ r \in Nat /\ w # r
        /\ \A e \in 1 .. edge - 1 : writer_pipe_index(e) \notin {w, r} /\ reader_pipe_index(e) \notin {w, r}
    <2>1. \A e \in 1 .. edge - 1 : e \in Nat \ {0} /\ e # edge
      BY <1>0
    <2> QED BY <1>0, <2>1, EndIndices
  <1>6. /\ DOMAIN spawn_ops' = DOMAIN spawn_ops
        /\ \A n \in DOMAIN spawn_ops : spawn_ops'[n] = (spawn_ops[n] \o X(n)) \o Y(n)
    BY <1>4 DEF pass, PassDown
  <1>7. /\ DOMAIN pipes_ops' = DOMAIN pipes_ops /\ pipes_ops' = [n \in DOMAIN pipes_ops' |-> pipes_ops'[n]]
        /\ pipes_ops'[x] = Append(pipes_ops[x], pair)
        /\ \A n \in DOMAIN pipes_ops : n # x => pipes_ops'[n] = pipes_ops[n]
    BY <1>3 DEF pass, Pipes, Visited
  <1>8. \A n : /\ X(n) \in Seq(Nat) /\ Once(X(n)) /\ Listed(X(n)) = IF n \in pw THEN {w} ELSE {}
               /\ Y(n) \in Seq(Nat) /\ Once(Y(n)) /\ Listed(Y(n)) = IF n \in pr THEN {r} ELSE {}
    <2>1. \A v \in Nat : <<v>> \in Seq(Nat) /\ Once(<<v>>) /\ Listed(<<v>>) = {v}
      BY DEF Once, Listed
    <2>2. <<>> \in Seq(Nat) /\ Once(<<>>) /\ Listed(<<>>) = {}
      BY DEF Once, Listed
    <2> HIDE DEF pw, pr, w, r
    <2> QED BY <1>5, <2>1, <2>2
  <1> HIDE DEF X, Y
  <1>a. PICK new : new = [e \in 1 .. edge |-> IF e = edge THEN x ELSE anc[e]]
    OBVIOUS
  <1>9. /\ \A e \in 1 .. edge - 1 : e \in 1 .. edge /\ new[e] = anc[e]
        /\ new[edge] = x /\ edge' - 1 = edge /\ edge \in 1 .. edge
        /\ \A e \in 1 .. edge : e = edge \/ e \in 1 .. edge - 1
    BY <1>0, <1>a
  <1>10. new \in [1 .. edge -> NodeIndex]
    BY <1>1, <1>3, <1>9, <1>a DEF Passed
  <1>11. \A n, p, e, y : Carries(n, p, e, y)' <=> Carries(n, p, e, y)
    BY <1>0, PathSame DEF Carries, WriterOf, ReaderOf, writer_pipe_index, reader_pipe_index
  <1>12. \A e \in 1 .. edge : new[e] \in Above(WriterOf(e))' \cap Above(ReaderOf(e))'
    <2>1. \A e : Above(WriterOf(e))' = Above(WriterOf(e)) /\ Above(ReaderOf(e))' = Above(ReaderOf(e))
      BY <1>0, PathSame DEF WriterOf, ReaderOf
    <2>2. \A e \in 1 .. edge - 1 : new[e] \in Above(WriterOf(e)) \cap Above(ReaderOf(e))
      BY <1>1, <1>9 DEF Passed
    <2>3. new[edge] \in Above(WriterOf(edge)) \cap Above(ReaderOf(edge))
      BY <1>2, <1>4, <1>9
    <2> QED BY <1>9, <2>1, <2>2, <2>3
  <1>13. ASSUME NEW n \in DOMAIN spawn_ops
         PROVE  /\ spawn_ops'[n] \in Seq(Nat) /\ Once(spawn_ops'[n])
                /\ \A p : p \in Listed(spawn_ops'[n]) <=> \E e \in 1 .. edge : Carries(n, p, e, new[e])
    <2> DEFINE s == spawn_ops[n]
               t == s \o X(n)
    <2>1. /\ s \in Seq(Nat) /\ Once(s)
          /\ \A p : p \in Listed(s) <=> \E e \in 1 .. edge - 1 : Carries(n, p, e, anc[e])
      BY <1>1 DEF Passed
    <2>2. w \notin Listed(s) /\ r \notin Listed(s)
      BY <1>5, <2>1 DEF Carries
    <2> HIDE DEF s
    <2>3. t \in Seq(Nat) /\ Listed(t) = Listed(s) \cup Listed(X(n)) /\ Once(t)
      <3>1. Listed(s) \cap Listed(X(n)) = {}
        BY <1>8, <2>2
      <3> QED BY <1>8, <2>1, <3>1, Joined
    <2> HIDE DEF t
    <2>4. t \o Y(n) \in Seq(Nat) /\ Listed(t \o Y(n)) = Listed(t) \cup Listed(Y(n)) /\ Once(t \o Y(n))
      <3>1. Listed(t) \cap Listed(Y(n)) = {}
        BY <1>5, <1>8, <2>2, <2>3
      <3> QED BY <1>8, <2>3, <3>1, Joined
    <2>5. spawn_ops'[n] = t \o Y(n)
      BY <1>6 DEF t, s
    <2>6. \A p : p \in Listed(spawn_ops'[n]) <=> p \in Listed(s) \/ Carries(n, p, edge, x)
      <3>1. \A p : Carries(n, p, edge, x) <=> (p = w /\ n \in pw) \/ (p = r /\ n \in pr)
        BY <1>4 DEF Carries
      <3> HIDE DEF w, r, pw, pr, x
      <3> QED BY <1>8, <2>3, <2>4, <2>5, <3>1
    <2>7. \A p : (\E e \in 1 .. edge : Carries(n, p, e, new[e]))
                   <=> (\E e \in 1 .. edge - 1 : Carries(n, p, e, anc[e])) \/ Carries(n, p, edge, x)
      BY <1>9, Zenon
    <2> QED BY <2>1, <2>4, <2>5, <2>6, <2>7
  <1>14. ASSUME NEW n \in DOMAIN pipes_ops
         PROVE  /\ pipes_ops'[n] \in Seq(Nat \X Nat)
                /\ \A q : q \in Listed(pipes_ops'[n]) <=>
                      \E e \in 1 .. edge : new[e] = n /\ q = <<reader_pipe_index(e), writer_pipe_index(e)>>
    <2>1. /\ pipes_ops[n] \in Seq(Nat \X Nat)
          /\ \A q : q \in Listed(pipes_ops[n]) <=>
                \E e \in 1 .. edge - 1 : anc[e] = n /\ q = <<reader_pipe_index(e), writer_pipe_index(e)>>
      BY <1>1 DEF Passed
    <2>2. \A q : (\E e \in 1 .. edge : new[e] = n /\ q = <<reader_pipe_index(e), writer_pipe_index(e)>>)
                   <=> \/ \E e \in 1 .. edge - 1 : anc[e] = n /\ q = <<reader_pipe_index(e), writer_pipe_index(e)>>
                       \/ x = n /\ q = pair
      BY <1>9, Zenon
    <2>3. CASE n = x
      <3> DEFINE T == Nat \X Nat
      <3>1. pair \in T /\ pipes_ops[n] \in Seq(T)
        BY <1>5, <2>1
      <3> HIDE DEF T, pair
      <3>2. Append(pipes_ops[n], pair) \in Seq(T) /\ Listed(Append(pipes_ops[n], pair)) = Listed(pipes_ops[n]) \cup {pair}
        BY <3>1, Appended
      <3> QED BY <1>7, <2>1, <2>2, <2>3, <3>2 DEF T
    <2>4. CASE n # x
      BY <1>7, <2>1, <2>2, <2>4
    <2> QED BY <2>3, <2>4
  <1>15. Passed(new)'
    <2>1. /\ new \in [1 .. edge' - 1 -> NodeIndex]
          /\ \A e \in 1 .. edge' - 1 : new[e] \in Above(WriterOf(e))' \cap Above(ReaderOf(e))'
      BY <1>9, <1>10, <1>12
    <2>2. \A n : /\ Once(spawn_ops[n])' <=> Once(spawn_ops'[n])
                 /\ Listed(spawn_ops[n])' = Listed(spawn_ops'[n])
                 /\ Listed(pipes_ops[n])' = Listed(pipes_ops'[n])
      BY DEF Once, Listed
    <2>3. \A n \in DOMAIN spawn_ops' :
             /\ spawn_ops'[n] \in Seq(Nat) /\ Once(spawn_ops[n])'
             /\ \A p : p \in Listed(spawn_ops[n])' <=> \E e \in 1 .. edge' - 1 : Carries(n, p, e, new[e])'
      BY <1>6, <1>9, <1>11, <1>13, <2>2
    <2>4. \A n \in DOMAIN pipes_ops' :
             /\ pipes_ops'[n] \in Seq(Nat \X Nat)
             /\ \A q : q \in Listed(pipes_ops[n])' <=>
                   \E e \in 1 .. edge' - 1 : new[e] = n /\ q = <<reader_pipe_index(e), writer_pipe_index(e)>>
      BY <1>7, <1>9, <1>14, <2>2
    <2> QED BY <2>1, <2>3, <2>4 DEF Passed
  <1> QED BY <1>0, <1>7, <1>15 DEF Pipes

LEMMA PipesInit == GraphInit => Pipes
  BY DEF GraphInit, Pipes, Ready

LEMMA PipesStep == Shape /\ Walk /\ Search /\ Pipes /\ [GraphNext]_graph_vars => Pipes'
  <1> SUFFICES ASSUME Shape, Walk, Search, Pipes, [GraphNext]_graph_vars PROVE Pipes'
    OBVIOUS
  <1> DEFINE Still == /\ UNCHANGED <<spawn_ops, pipes_ops>>
                      /\ Ready' => UNCHANGED <<parent, write_edges, edge>> /\ \E anc : Passed(anc)
                      /\ ~Ready' => ~Ready
  <1>0. Still => Pipes'
    BY PipesSame
  <1>1. ASSUME NEW n \in NodeIndex, add_node(n) PROVE Still
    BY <1>1 DEF add_node, Ready
  <1>2. ASSUME NEW n \in NodeIndex, NEW m \in NodeIndex, add_edge(n, m) PROVE Still
    BY <1>2 DEF add_edge, Ready
  <1>3. CASE nodes_added \/ edges_added
    <2>1. Still
      BY <1>3 DEF nodes_added, edges_added, tree, Ready
    <2> QED BY <1>0, <2>1
  <1>4. CASE traverse
    BY <1>4, PipesTraverse
  <1>5. (gpc = "traverse" \/ Ready) => \E anc : Passed(anc)
    BY FreshPassed DEF Pipes
  <1>6. CASE next_edge
    <2>1. Still
      BY <1>5, <1>6 DEF next_edge, EachEdge, tree, Ready
    <2> QED BY <1>0, <2>1
  <1>7. CASE climb
    <2>1. Still
      BY <1>5, <1>7 DEF climb, tree, Ready
    <2> QED BY <1>0, <2>1
  <1>8. CASE pass
    BY <1>8, PipesPass
  <1>9. CASE build
    <2>1. Still
      BY <1>5, <1>9 DEF build, EachEdge, tree, Ready
    <2> QED BY <1>0, <2>1
  <1>10. CASE UNCHANGED graph_vars
    <2>1. Still
      BY <1>5, <1>10 DEF graph_vars, tree, Ready
    <2> QED BY <1>0, <2>1
  <1> HIDE DEF Still
  <1> QED
    BY <1>0, <1>1, <1>2, <1>3, <1>4, <1>6, <1>7, <1>8, <1>9, <1>10 DEF GraphNext, generate_data_graph

-----------------------------------------------------------------------------
(* The lists of dag::Data *)

WriteData ==
    [from : NodeIndex, from_pipe : Nat, to : NodeIndex, to_pipe : Nat, length : DataLength]

WriteOf(d, e) ==
    /\ d.from = WriterOf(e) /\ d.from_pipe = writer_pipe_index(e)
    /\ d.to = ReaderOf(e) /\ d.to_pipe = reader_pipe_index(e)

(* What the lists of dag::Data hold: the edges met so far and, at the end, *)
(* the spawns of the traversal and the pairs of every node.                *)
Lists ==
    /\ data = [spawns |-> data.spawns, pipes |-> data.pipes, writes |-> data.writes]
    /\ data.writes \in Seq(WriteData)
    /\ Len(data.writes) = IF gpc \in {"climb", "pass"} THEN edge ELSE edge - 1
    /\ \A e \in 1 .. Len(data.writes) : WriteOf(data.writes[e], e)
    /\ Generated =>
          /\ data.spawns = [i \in DOMAIN spawn_edges |-> SpawnOf(spawn_edges[i])]
          /\ \A x : x \in Listed(data.pipes) <=>
                \E n \in NodeIndex : \E i \in DOMAIN pipes_ops[n] : x = PipeOf(n, pipes_ops[n][i])

LEMMA ListsInit == GraphInit => Lists
  BY DEF GraphInit, Lists, NoData, Generated

LEMMA ListsNextEdge ==
    ASSUME Shape, Lists, next_edge
    PROVE  Lists'
  <1>0. /\ edge \in Nat \ {0} /\ edge <= Len(write_edges) /\ gpc \notin {"climb", "pass"}
        /\ gpc' = "climb" /\ UNCHANGED <<write_edges, edge>>
    BY DEF Shape, next_edge, EachEdge, tree
  <1>1. writer \in NodeIndex /\ reader \in NodeIndex
    BY <1>0, EdgeEnds
  <1>2. writer_pipe_index(edge) \in Nat /\ reader_pipe_index(edge) \in Nat
    BY <1>0, EndIndices
  <1>3. PICK n \in DataLength :
            data' = [data EXCEPT !.writes = Append(@,
                        [from |-> writer, from_pipe |-> writer_pipe_index(edge),
                         to |-> reader, to_pipe |-> reader_pipe_index(edge), length |-> n])]
    BY DEF next_edge
  <1> DEFINE d == [from |-> writer, from_pipe |-> writer_pipe_index(edge),
                   to |-> reader, to_pipe |-> reader_pipe_index(edge), length |-> n]
             ws == data.writes
  <1>4. d \in WriteData
    BY <1>1, <1>2 DEF WriteData
  <1>5. WriteOf(d, edge)
    BY <1>0 DEF WriteOf, WriterOf, ReaderOf, writer, reader, writer_pipe_index, reader_pipe_index
  <1>6. ws \in Seq(WriteData) /\ Len(ws) = edge - 1 /\ \A e \in 1 .. Len(ws) : WriteOf(ws[e], e)
    BY <1>0 DEF Lists
  <1>7. data' = [spawns |-> data.spawns, pipes |-> data.pipes, writes |-> Append(ws, d)]
    BY <1>3 DEF Lists
  <1>8. data'.writes = Append(ws, d) /\ data' = [spawns |-> data'.spawns, pipes |-> data'.pipes, writes |-> data'.writes]
    BY <1>7
  <1> HIDE DEF d, ws
  <1>9. /\ Append(ws, d) \in Seq(WriteData) /\ Len(Append(ws, d)) = edge
        /\ \A e \in 1 .. edge - 1 : Append(ws, d)[e] = ws[e]
        /\ Append(ws, d)[edge] = d
    <2>1. /\ Append(ws, d) \in Seq(WriteData) /\ Len(Append(ws, d)) = Len(ws) + 1
          /\ \A i \in 1 .. Len(ws) : Append(ws, d)[i] = ws[i]
          /\ Append(ws, d)[Len(ws) + 1] = d
      BY <1>4, <1>6, Appended
    <2>2. Len(ws) + 1 = edge
      BY <1>0, <1>6
    <2> QED BY <1>6, <2>1, <2>2
  <1>10. ASSUME NEW e \in 1 .. edge PROVE WriteOf(data.writes[e], e)'
    <2>1. CASE e = edge
      <3>1. data'.writes[e] = d
        BY <1>8, <1>9, <2>1
      <3> QED BY <1>0, <1>5, <2>1, <3>1 DEF WriteOf, WriterOf, ReaderOf, writer_pipe_index, reader_pipe_index
    <2>2. CASE e # edge
      <3>1. e \in 1 .. edge - 1
        BY <1>0, <2>2
      <3>2. data'.writes[e] = ws[e] /\ WriteOf(ws[e], e)
        BY <1>6, <1>8, <1>9, <3>1
      <3> QED BY <1>0, <3>2 DEF WriteOf, WriterOf, ReaderOf, writer_pipe_index, reader_pipe_index
    <2> QED BY <2>1, <2>2
  <1> QED BY <1>0, <1>8, <1>9, <1>10 DEF Lists, Generated

LEMMA ListsBuild ==
    ASSUME Shape, Walk, Pipes, Lists, build
    PROVE  Lists'
  <1>0. /\ gpc # "spawns" /\ processing = <<>> /\ gpc \notin {"climb", "pass"} /\ gpc' = "generated"
        /\ UNCHANGED <<parent, write_edges, spawn_edges, spawn_ops, pipes_ops, edge>>
    BY DEF build, EachEdge, Walk, Ready, tree
  <1>1. Visited = NodeIndex
    BY <1>0, WalkDone
  <1>2. pipes_ops \in [NodeIndex -> Seq(Nat \X Nat)]
    <2>1. \E anc : Passed(anc)
      BY <1>0, FreshPassed DEF build, EachEdge, Pipes, Ready
    <2>2. \A n \in DOMAIN pipes_ops : pipes_ops[n] \in Seq(Nat \X Nat)
      BY <2>1 DEF Passed
    <2>3. pipes_ops = [n \in DOMAIN pipes_ops |-> pipes_ops[n]] /\ DOMAIN pipes_ops = NodeIndex
      BY <1>1 DEF Pipes, Visited
    <2> QED BY <2>2, <2>3
  <1>3. /\ data' = [spawns |-> [i \in DOMAIN spawn_edges |-> SpawnOf(spawn_edges[i])],
                    pipes |-> pipes_upto[GraphSpawns], writes |-> data.writes]
    BY DEF build, Lists
  <1>4. /\ data'.writes = data.writes /\ data'.pipes = pipes_upto[GraphSpawns]
        /\ data'.spawns = [i \in DOMAIN spawn_edges |-> SpawnOf(spawn_edges[i])]
        /\ data' = [spawns |-> data'.spawns, pipes |-> data'.pipes, writes |-> data'.writes]
    BY <1>3
  <1>5. data'.spawns = [i \in DOMAIN spawn_edges |-> SpawnOf(spawn_edges[i])]'
    BY <1>0, <1>4 DEF SpawnOf
  <1>6. \A x : x \in Listed(data'.pipes) <=>
                \E n \in NodeIndex : \E i \in DOMAIN pipes_ops'[n] : x = PipeOf(n, pipes_ops'[n][i])
    BY <1>0, <1>2, <1>4, PipesListed
  <1>7. Listed(data.pipes)' = Listed(data'.pipes) /\ \A n, q : PipeOf(n, q)' = PipeOf(n, q)
    BY DEF Listed, PipeOf
  <1>8. \A x : x \in Listed(data.pipes)' <=>
                \E n \in NodeIndex : \E i \in DOMAIN pipes_ops'[n] : x = PipeOf(n, pipes_ops[n][i])'
    BY <1>6, <1>7 DEF PipeOf
  <1>9. \A e \in 1 .. Len(data.writes) : WriteOf(data.writes[e], e)'
    BY <1>0, <1>4 DEF Lists, WriteOf, WriterOf, ReaderOf, writer_pipe_index, reader_pipe_index
  <1>10. data.writes \in Seq(WriteData) /\ Len(data.writes) = edge - 1
    BY <1>0 DEF Lists
  <1> QED BY <1>0, <1>4, <1>5, <1>8, <1>9, <1>10 DEF Lists

LEMMA ListsStep == Shape /\ Walk /\ Pipes /\ Lists /\ [GraphNext]_graph_vars => Lists'
  <1> SUFFICES ASSUME Shape, Walk, Pipes, Lists, [GraphNext]_graph_vars PROVE Lists'
    OBVIOUS
  <1>1. CASE next_edge
    BY <1>1, ListsNextEdge
  <1>2. CASE build
    BY <1>2, ListsBuild
  <1>3. CASE UNCHANGED graph_vars
    <2>1. UNCHANGED <<gpc, parent, write_edges, edge, data, spawn_edges, spawn_ops, pipes_ops>>
      BY <1>3 DEF graph_vars, tree
    <2>2. \A d, e : WriteOf(d, e)' <=> WriteOf(d, e)
      BY <2>1 DEF WriteOf, WriterOf, ReaderOf, writer_pipe_index, reader_pipe_index
    <2>3. \A e : WriteOf(data.writes[e], e)' <=> WriteOf(data.writes[e], e)
      BY <2>1 DEF WriteOf, WriterOf, ReaderOf, writer_pipe_index, reader_pipe_index
    <2>4. \A e : SpawnOf(e)' = SpawnOf(e)
      BY <2>1 DEF SpawnOf
    <2>5. Listed(data.pipes)' = Listed(data.pipes)
      BY <2>1 DEF Listed
    <2> QED BY <2>1, <2>3, <2>4, <2>5 DEF Lists, Generated, PipeOf, SpawnOf
  <1>4. ASSUME data' = data, gpc' # "generated",
               (IF gpc' \in {"climb", "pass"} THEN edge' ELSE edge' - 1)
                  = (IF gpc \in {"climb", "pass"} THEN edge ELSE edge - 1),
               data.writes = <<>> \/ write_edges' = write_edges
        PROVE  Lists'
    <2>1. \A e \in 1 .. Len(data.writes) : WriteOf(data.writes[e], e)'
      <3>1. CASE data.writes = <<>>
        BY <3>1
      <3>2. CASE write_edges' = write_edges
        BY <1>4, <3>2 DEF Lists, WriteOf, WriterOf, ReaderOf, writer_pipe_index, reader_pipe_index
      <3> QED BY <1>4, <3>1, <3>2
    <2> QED BY <1>4, <2>1 DEF Lists, Generated
  <1>5. ASSUME NEW n \in NodeIndex, add_node(n) PROVE Lists'
    BY <1>4, <1>5 DEF add_node
  <1>6. ASSUME NEW n \in NodeIndex, NEW m \in NodeIndex, add_edge(n, m) PROVE Lists'
    <2>1. gpc = "writes" /\ edge = 1 /\ UNCHANGED <<gpc, edge, data>>
      BY <1>6 DEF add_edge, Shape
    <2>2. data.writes = <<>>
      BY <2>1 DEF Lists
    <2> QED BY <1>4, <2>1, <2>2
  <1>7. CASE nodes_added
    BY <1>4, <1>7 DEF nodes_added, tree
  <1>8. CASE edges_added
    BY <1>4, <1>8 DEF edges_added, tree
  <1>9. CASE traverse
    BY <1>4, <1>9 DEF traverse
  <1>10. CASE climb
    BY <1>4, <1>10 DEF climb, tree
  <1>11. CASE pass
    <2>1. (edge + 1) - 1 = edge
      BY DEF Shape
    <2> QED BY <1>4, <1>11, <2>1 DEF pass, tree
  <1> QED
    BY <1>1, <1>2, <1>3, <1>5, <1>6, <1>7, <1>8, <1>9, <1>10, <1>11 DEF GraphNext, generate_data_graph

(* What the generator keeps true of the graph it builds. *)
GraphInv == Shape /\ Walk /\ Search /\ Pipes /\ Lists

LEMMA GraphInvHolds == GraphSpec => []GraphInv
  <1>1. GraphInit => GraphInv
    BY ShapeInit, WalkInit, SearchInit, PipesInit, ListsInit DEF GraphInv
  <1>2. GraphInv /\ [GraphNext]_graph_vars => GraphInv'
    BY ShapeStep, WalkStep, SearchStep, PipesStep, ListsStep DEF GraphInv
  <1> QED BY <1>1, <1>2, PTL DEF GraphSpec

(* Every VM but the root is spawned exactly once, by a VM spawned before.  *)
THEOREM SpawnedOnceHolds == GraphSpec => []SpawnedOnce
  <1>1. GraphInv => SpawnedOnce
    <2> SUFFICES ASSUME GraphInv, Generated
                 PROVE  /\ {data.spawns[i].child : i \in DOMAIN data.spawns} = 1 .. GraphSpawns
                        /\ Len(data.spawns) = GraphSpawns
                        /\ \A i \in DOMAIN data.spawns :
                              data.spawns[i].from \in {Root} \cup {data.spawns[j].child : j \in 1 .. i - 1}
      BY DEF SpawnedOnce
    <2> DEFINE se == spawn_edges
    <2>1. /\ data.spawns = [i \in DOMAIN se |-> SpawnOf(se[i])]
          /\ se \in Seq(1 .. GraphSpawns) /\ Once(se) /\ DOMAIN se = 1 .. Len(se) /\ Len(se) \in Nat
      BY DEF GraphInv, Lists, Walk
    <2>2. Listed(se) = 1 .. GraphSpawns
      BY WalkDone DEF GraphInv, Walk, Generated, Ready
    <2>3. Len(se) = GraphSpawns
      BY <2>1, <2>2, OnceLength, GraphAssumption
    <2>4. /\ DOMAIN data.spawns = 1 .. Len(se)
          /\ \A i \in 1 .. Len(se) : data.spawns[i].child = se[i] /\ data.spawns[i].from = parent[se[i]]
      BY <2>1 DEF SpawnOf
    <2>5. Len(data.spawns) = Len(se)
      <3> DEFINE T == {SpawnOf(n) : n \in 1 .. GraphSpawns}
      <3>0. \A i \in 1 .. Len(se) : se[i] \in 1 .. GraphSpawns
        BY <2>1, <2>2 DEF Listed
      <3>1. \A i \in 1 .. Len(se) : SpawnOf(se[i]) \in T
        BY <3>0
      <3> HIDE DEF T
      <3>2. data.spawns \in [1 .. Len(se) -> T]
        BY <2>1, <3>1
      <3> QED BY <2>1, <3>2, ListOf
    <2>6. {data.spawns[i].child : i \in DOMAIN data.spawns} = Listed(se)
      BY <2>1, <2>4 DEF Listed
    <2>7. ASSUME NEW i \in 1 .. Len(se)
          PROVE  data.spawns[i].from \in {Root} \cup {data.spawns[j].child : j \in 1 .. i - 1}
      <3>1. \A j \in 1 .. i - 1 : j \in 1 .. Len(se)
        BY <2>1
      <3>2. parent[se[i]] \in {Root} \cup {se[j] : j \in 1 .. i - 1}
        BY DEF GraphInv, Walk
      <3> HIDE DEF se
      <3>3. {data.spawns[j].child : j \in 1 .. i - 1} = {se[j] : j \in 1 .. i - 1}
        BY <2>4, <3>1
      <3> QED BY <2>4, <3>2, <3>3
    <2> QED BY <2>2, <2>3, <2>4, <2>5, <2>6, <2>7
  <1> QED BY <1>1, GraphInvHolds, PTL

(* One end p of edge e, needed by u: the spawns that carry it are those of *)
(* the path from the node that made the pair down to u.                    *)
LEMMA EndTravels ==
    ASSUME GraphInv, Generated, NEW anc, Passed(anc), NEW e \in 1 .. edge - 1, NEW p, NEW u,
           \/ p = writer_pipe_index(e) /\ u = WriterOf(e)
           \/ p = reader_pipe_index(e) /\ u = ReaderOf(e)
    PROVE  /\ u \in NodeIndex /\ anc[e] \in Above(u) /\ anc[e] \in NodeIndex
           /\ {x.vm : x \in PipeMakers(p)} = {anc[e]}
           /\ Carrying(p) = {SpawnOf(n) : n \in PathTo(u, anc[e])}
           /\ \A n \in PathTo(u, anc[e]) :
                 Cardinality({i \in DOMAIN spawn_ops[n] : spawn_ops[n][i] = p}) = 1
  <1> DEFINE m == anc[e]
             path == PathTo(u, m)
  <1>0. /\ Shape /\ Walk /\ Lists /\ Tree /\ Visited = NodeIndex /\ Listed(spawn_edges) = 1 .. GraphSpawns
        /\ DOMAIN spawn_ops = 1 .. GraphSpawns /\ DOMAIN pipes_ops = NodeIndex
        /\ edge - 1 = Len(write_edges) /\ edge \in Nat
    <2>1. Shape /\ Walk /\ Lists /\ gpc = "generated" /\ processing = <<>>
      BY DEF GraphInv, Generated, Walk, Ready
    <2>2. Tree /\ Visited = NodeIndex /\ Listed(spawn_edges) = 1 .. GraphSpawns
      BY <2>1, ShapeTree, WalkDone
    <2>3. edge = Len(write_edges) + 1 /\ Len(write_edges) \in Nat
      BY <2>1 DEF Shape
    <2> QED BY <2>1, <2>2, <2>3 DEF Walk, Visited
  <1>1. m \in NodeIndex /\ m \in Above(WriterOf(e)) /\ m \in Above(ReaderOf(e))
    BY DEF Passed
  <1>2. WriterOf(e) \in NodeIndex /\ ReaderOf(e) \in NodeIndex
    <2>1. write_edges[e] \in NodeIndex \X NodeIndex
      BY <1>0 DEF Shape
    <2> QED BY <2>1 DEF WriterOf, ReaderOf
  <1>3. u \in NodeIndex /\ m \in Above(u)
    BY <1>1, <1>2
  <1>4. \A f \in 1 .. edge - 1 : /\ writer_pipe_index(f) = p => f = e /\ u = WriterOf(e)
                                 /\ reader_pipe_index(f) = p => f = e /\ u = ReaderOf(e)
    <2>1. \A f \in 1 .. edge - 1 : f \in Nat \ {0}
      BY <1>0
    <2> QED BY <2>1, EndIndices
  <1>5. \A n \in 1 .. GraphSpawns : p \in Listed(spawn_ops[n]) <=> n \in path
    <2> SUFFICES ASSUME NEW n \in 1 .. GraphSpawns PROVE p \in Listed(spawn_ops[n]) <=> n \in path
      OBVIOUS
    <2>1. p \in Listed(spawn_ops[n]) <=> \E f \in 1 .. edge - 1 : Carries(n, p, f, anc[f])
      BY <1>0 DEF Passed
    <2>2. \A f \in 1 .. edge - 1 : Carries(n, p, f, anc[f]) => n \in path
      BY <1>4 DEF Carries
    <2>3. n \in path => Carries(n, p, e, anc[e])
      BY DEF Carries
    <2> HIDE DEF path
    <2> QED BY <2>1, <2>2, <2>3
  <1>6. path \subseteq 1 .. GraphSpawns
    BY <1>0, <1>3, PathHands
  <1>7. Listed(data.spawns) = {SpawnOf(n) : n \in 1 .. GraphSpawns}
    <2>1. data.spawns = [i \in DOMAIN spawn_edges |-> SpawnOf(spawn_edges[i])]
      BY <1>0 DEF Lists
    <2>2. /\ DOMAIN data.spawns = DOMAIN spawn_edges
          /\ \A i \in DOMAIN spawn_edges : data.spawns[i] = SpawnOf(spawn_edges[i])
      BY <2>1
    <2>3. \A n : n \in 1 .. GraphSpawns <=> \E i \in DOMAIN spawn_edges : n = spawn_edges[i]
      BY <1>0 DEF Listed
    <2>4. \A x \in Listed(data.spawns) : \E n \in 1 .. GraphSpawns : x = SpawnOf(n)
      <3> SUFFICES ASSUME NEW i \in DOMAIN spawn_edges
                   PROVE  \E n \in 1 .. GraphSpawns : data.spawns[i] = SpawnOf(n)
        BY <2>2 DEF Listed
      <3>1. spawn_edges[i] \in 1 .. GraphSpawns
        BY <2>3
      <3> QED BY <2>2, <3>1
    <2>5. \A n \in 1 .. GraphSpawns : SpawnOf(n) \in Listed(data.spawns)
      <3> SUFFICES ASSUME NEW n \in 1 .. GraphSpawns PROVE SpawnOf(n) \in Listed(data.spawns)
        OBVIOUS
      <3>1. PICK i \in DOMAIN spawn_edges : n = spawn_edges[i]
        BY <2>3
      <3>2. i \in DOMAIN data.spawns /\ data.spawns[i] = SpawnOf(n)
        BY <2>2, <3>1
      <3> QED BY <3>2 DEF Listed
    <2> QED BY <2>4, <2>5
  <1>8. Carrying(p) = {SpawnOf(n) : n \in path}
    <2>1. \A n : SpawnOf(n).pipes = spawn_ops[n]
      BY DEF SpawnOf
    <2> HIDE DEF path
    <2> QED BY <1>5, <1>6, <1>7, <2>1 DEF Carrying
  <1>9. {x.vm : x \in PipeMakers(p)} = {m}
    <2>1. \A x : x \in Listed(data.pipes) <=>
             \E n \in NodeIndex : \E i \in DOMAIN pipes_ops[n] : x = PipeOf(n, pipes_ops[n][i])
      BY <1>0 DEF Lists
    <2>2. ASSUME NEW x \in PipeMakers(p) PROVE x.vm = m
      <3>1. PICK n \in NodeIndex : \E i \in DOMAIN pipes_ops[n] : x = PipeOf(n, pipes_ops[n][i])
        BY <2>1 DEF PipeMakers
      <3>2. PICK i \in DOMAIN pipes_ops[n] : x = PipeOf(n, pipes_ops[n][i])
        BY <3>1
      <3>3. pipes_ops[n][i] \in Listed(pipes_ops[n])
        BY DEF Listed
      <3>a. \A q : q \in Listed(pipes_ops[n]) <=>
               \E f \in 1 .. edge - 1 : anc[f] = n /\ q = <<reader_pipe_index(f), writer_pipe_index(f)>>
        BY <1>0 DEF Passed
      <3>4. PICK f \in 1 .. edge - 1 : anc[f] = n /\ pipes_ops[n][i] = <<reader_pipe_index(f), writer_pipe_index(f)>>
        BY ONLY <3>3, <3>a, Zenon
      <3>5. x.vm = n /\ x.read_pipe = reader_pipe_index(f) /\ x.write_pipe = writer_pipe_index(f)
        BY <3>2, <3>4 DEF PipeOf
      <3>6. f = e
        BY <1>4, <3>5 DEF PipeMakers
      <3> QED BY <3>4, <3>5, <3>6
    <2> DEFINE q == <<reader_pipe_index(e), writer_pipe_index(e)>>
    <2>3. PipeOf(m, q) \in PipeMakers(p) /\ PipeOf(m, q).vm = m
      <3>1. q \in Listed(pipes_ops[m])
        BY <1>0, <1>1 DEF Passed
      <3>2. PICK i \in DOMAIN pipes_ops[m] : q = pipes_ops[m][i]
        BY <3>1 DEF Listed
      <3>3. PipeOf(m, q) \in Listed(data.pipes)
        BY <1>1, <2>1, <3>2
      <3>4. PipeOf(m, q).vm = m /\ p \in {PipeOf(m, q).read_pipe, PipeOf(m, q).write_pipe}
        BY DEF PipeOf
      <3> QED BY <3>3, <3>4 DEF PipeMakers
    <2> HIDE DEF m, q
    <2> QED BY <2>2, <2>3
  <1>10. ASSUME NEW n \in path PROVE Cardinality({i \in DOMAIN spawn_ops[n] : spawn_ops[n][i] = p}) = 1
    <2>1. n \in DOMAIN spawn_ops /\ p \in Listed(spawn_ops[n])
      BY <1>0, <1>5, <1>6
    <2>2. Once(spawn_ops[n])
      BY <2>1 DEF Passed
    <2>3. PICK i \in DOMAIN spawn_ops[n] : spawn_ops[n][i] = p
      BY <2>1 DEF Listed
    <2>4. {j \in DOMAIN spawn_ops[n] : spawn_ops[n][j] = p} = {i}
      BY <2>2, <2>3 DEF Once
    <2> QED BY <2>4, FS_Singleton
  <1> QED BY <1>1, <1>3, <1>8, <1>9, <1>10

(* Every end of every pipe comes down the tree, spawn by spawn, to the VM  *)
(* that uses it.                                                           *)
THEOREM PipesReachTheirUsersHolds == GraphSpec => []PipesReachTheirUsers
  <1>1. GraphInv => PipesReachTheirUsers
    <2> DEFINE Travels(p, u, maker) ==
                 LET carrying == Carrying(p)
                     given == {s.child : s \in carrying}
                 IN  /\ {x.vm : x \in PipeMakers(p)} = {maker}
                     /\ \A s \in carrying : s.from \in {maker} \cup given
                     /\ {maker} \cup given = {s.from : s \in carrying} \cup {u}
                     /\ \A s \in carrying :
                           /\ s.from # u
                           /\ Cardinality({i \in DOMAIN s.pipes : s.pipes[i] = p}) = 1
                           /\ \A t \in carrying : t.from = s.from => t = s
    <2> SUFFICES ASSUME GraphInv, Generated, NEW w \in Listed(data.writes), NEW end \in Ends(w)
                 PROVE  \E maker \in NodeIndex : Travels(end[1], end[2], maker)
      BY DEF PipesReachTheirUsers
    <2>1. PICK e \in 1 .. edge - 1 : w = data.writes[e] /\ WriteOf(w, e)
      <3>1. Lists /\ gpc = "generated"
        BY DEF GraphInv, Generated
      <3>2. DOMAIN data.writes = 1 .. edge - 1 /\ \A e \in 1 .. edge - 1 : WriteOf(data.writes[e], e)
        BY <3>1 DEF Lists
      <3> QED BY <3>2 DEF Listed
    <2>2. PICK anc : Passed(anc)
      BY DEF GraphInv, Pipes, Generated, Ready
    <2>3. PICK p, u : end = <<p, u>> /\ \/ p = writer_pipe_index(e) /\ u = WriterOf(e)
                                        \/ p = reader_pipe_index(e) /\ u = ReaderOf(e)
      BY <2>1 DEF Ends, WriteOf
    <2> DEFINE m == anc[e]
               path == PathTo(u, m)
    <2>4. /\ u \in NodeIndex /\ m \in Above(u) /\ m \in NodeIndex
          /\ {x.vm : x \in PipeMakers(p)} = {m}
          /\ Carrying(p) = {SpawnOf(n) : n \in path}
          /\ \A n \in path : Cardinality({i \in DOMAIN spawn_ops[n] : spawn_ops[n][i] = p}) = 1
      BY <2>2, <2>3, EndTravels
    <2>5. /\ \A x \in path : parent[x] \in {m} \cup path /\ parent[x] # u
          /\ {m} \cup path = {parent[x] : x \in path} \cup {u}
          /\ \A x, y \in path : parent[x] = parent[y] => x = y
      <3>1. Tree
        BY ShapeTree DEF GraphInv, Generated
      <3> QED BY <2>4, <3>1, PathHands
    <2>6. \A n : SpawnOf(n).from = parent[n] /\ SpawnOf(n).child = n /\ SpawnOf(n).pipes = spawn_ops[n]
      BY DEF SpawnOf
    <2> HIDE DEF m, path
    <2> DEFINE C == Carrying(p)
    <2>7. {s.child : s \in C} = path
      BY <2>4, <2>6
    <2>8. {s.from : s \in C} = {parent[x] : x \in path}
      BY <2>4, <2>6
    <2>9. \A s \in C : \E n \in path : s = SpawnOf(n)
      BY <2>4
    <2> HIDE DEF C
    <2>10. \A s \in C : s.from \in {m} \cup path /\ s.from # u
      BY <2>5, <2>6, <2>9
    <2>11. \A s \in C : Cardinality({i \in DOMAIN s.pipes : s.pipes[i] = p}) = 1
      <3> SUFFICES ASSUME NEW s \in C PROVE Cardinality({i \in DOMAIN s.pipes : s.pipes[i] = p}) = 1
        OBVIOUS
      <3>1. PICK n \in path : s = SpawnOf(n)
        BY <2>9
      <3>2. s.pipes = spawn_ops[n]
        BY <2>6, <3>1
      <3> QED BY <2>4, <3>2
    <2>12. \A s, t \in C : t.from = s.from => t = s
      <3> SUFFICES ASSUME NEW s \in C, NEW t \in C, t.from = s.from PROVE t = s
        OBVIOUS
      <3>1. PICK x \in path, y \in path : s = SpawnOf(x) /\ t = SpawnOf(y)
        BY <2>9
      <3>2. parent[x] = parent[y]
        BY <2>6, <3>1
      <3> QED BY <2>5, <3>1, <3>2
    <2>13. Travels(p, u, m)
      BY <2>4, <2>5, <2>7, <2>8, <2>10, <2>11, <2>12 DEF C
    <2>14. end[1] = p /\ end[2] = u
      BY <2>3
    <2> HIDE DEF Travels
    <2> QED BY <2>4, <2>13, <2>14
  <1> QED BY <1>1, GraphInvHolds, PTL

=============================================================================
