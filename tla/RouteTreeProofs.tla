--------------------------- MODULE RouteTreeProofs ---------------------------
(***************************************************************************)
(* What the operators of RouteTree return, for any set of segments: the    *)
(* loops of src/src/router.c are recursive functions over a counter, and   *)
(* induction on the counter is by the least one that would be wrong.       *)
(***************************************************************************)
EXTENDS RouteTree, FiniteSetTheorems, WellFoundedInduction, SequenceTheorems, TLAPS

LEMMA LeastOf ==
  \A S \in SUBSET Nat : S # {} => Least(S) \in S /\ \A j \in S : Least(S) <= j
<1> SUFFICES ASSUME NEW S \in SUBSET Nat, S # {} PROVE Least(S) \in S /\ \A j \in S : Least(S) <= j
  OBVIOUS
<1>1. PICK i \in S : \A j \in S : ~(<<j, i>> \in OpToRel(<, Nat))
  BY NatLessThanWellFounded, WFMin
<1>2. \A j \in S : i <= j
  <2> SUFFICES ASSUME NEW j \in S PROVE i <= j
    OBVIOUS
  <2>1. i \in Nat /\ j \in Nat /\ ~(<<j, i>> \in OpToRel(<, Nat))
    BY <1>1
  <2> QED BY <2>1 DEF OpToRel
<1> QED BY <1>2 DEF Least

LEMMA LeastIs ==
  ASSUME NEW S \in SUBSET Nat, NEW i \in S, \A j \in S : i <= j
  PROVE  Least(S) = i
<1>1. Least(S) \in S /\ Least(S) <= i
  BY LeastOf
<1>2. i <= Least(S) /\ i \in Nat /\ Least(S) \in Nat
  BY <1>1
<1> QED BY <1>1, <1>2

(* Induction up to n, for the set of the numbers that a property holds for.  *)
LEMMA CountUp ==
  \A T : \A n \in Nat : 0 \in T /\ (\A i \in 1 .. n : i - 1 \in T => i \in T) => 0 .. n \subseteq T
<1> SUFFICES ASSUME NEW n \in Nat, NEW T, 0 \in T, \A i \in 1 .. n : i - 1 \in T => i \in T, ~(0 .. n \subseteq T)
             PROVE  FALSE
  OBVIOUS
<1> DEFINE Left == (0 .. n) \ T
<1>1. Left \in SUBSET Nat /\ Left # {}
  OBVIOUS
<1> HIDE DEF Left
<1>2. PICK i \in Left : \A j \in Left : i <= j
  BY <1>1, LeastOf
<1>3. i \in 0 .. n /\ i \notin T /\ \A j \in 0 .. n : j \notin T => i <= j
  BY <1>2 DEF Left
<1>4. i \in 1 .. n /\ i - 1 \in 0 .. n /\ ~(i <= i - 1)
  BY <1>3
<1> QED BY <1>3, <1>4

(* A loop of n steps over the values of S, and the values it goes through.   *)
Steps(n, S) == [1 .. n -> [S -> S]]
Loop(f, n, S, start, step) ==
  f \in [0 .. n -> S] /\ f[0] = start /\ \A i \in 1 .. n : f[i] = step[i][f[i - 1]]

LEMMA LoopExists ==
  \A S : \A n \in Nat : \A start \in S : \A step \in Steps(n, S) : \E f : Loop(f, n, S, start, step)
<1> SUFFICES ASSUME NEW S, NEW n \in Nat, NEW start \in S, NEW step \in Steps(n, S)
             PROVE  \E f : Loop(f, n, S, start, step)
  OBVIOUS
<1> USE DEF Steps
<1> DEFINE Values(k, f) == f \in [0 .. k -> S] /\ f[0] = start /\ \A i \in 1 .. k : f[i] = step[i][f[i - 1]]
           T == {k \in 0 .. n : \E f : Values(k, f)}
<1>1. 0 \in T
  <2> DEFINE g == [i \in 0 .. 0 |-> start]
  <2>1. g \in [0 .. 0 -> S] /\ g[0] = start /\ 1 .. 0 = {}
    OBVIOUS
  <2> HIDE DEF g
  <2>2. Values(0, g)
    BY <2>1
  <2>3. \E f : Values(0, f)
    BY <2>2
  <2> HIDE DEF Values
  <2> QED BY <2>3
<1>2. ASSUME NEW k \in 1 .. n, k - 1 \in T PROVE k \in T
  <2>1. PICK f : Values(k - 1, f)
    BY <1>2
  <2> DEFINE last == step[k][f[k - 1]]
             g == [i \in 0 .. k |-> IF i = k THEN last ELSE f[i]]
  <2>2. k - 1 \in 0 .. k - 1 /\ f[k - 1] \in S
    BY <2>1
  <2>3. last \in S
    BY <2>2
  <2>4. \A i \in 0 .. k : i # k => i \in 0 .. k - 1 /\ f[i] \in S
    <3>1. \A i \in 0 .. k : i # k => i \in 0 .. k - 1
      OBVIOUS
    <3> QED BY <2>1, <3>1
  <2>5. \A i \in 1 .. k - 1 : f[i] = step[i][f[i - 1]]
    BY <2>1
  <2>6. f[0] = start
    BY <2>1
  <2> HIDE DEF Values, T
  <2>7. g \in [0 .. k -> S] /\ g[k] = last /\ \A i \in 0 .. k : i # k => g[i] = f[i]
    <3> HIDE DEF last
    <3> QED BY <2>3, <2>4
  <2>8. 0 \in 0 .. k /\ 0 # k
    OBVIOUS
  <2>9. g[0] = start
    BY <2>6, <2>7, <2>8
  <2>10. ASSUME NEW i \in 1 .. k PROVE g[i] = step[i][g[i - 1]]
    <3> HIDE DEF g
    <3>1. i - 1 \in 0 .. k /\ i - 1 # k /\ i \in 0 .. k
      OBVIOUS
    <3>2. g[i - 1] = f[i - 1]
      BY <2>7, <3>1
    <3>3. CASE i = k
      <4>1. g[k] = last
        BY <2>7
      <4> QED BY <3>2, <3>3, <4>1
    <3>4. CASE i # k
      <4>1. i \in 1 .. k - 1 /\ g[i] = f[i]
        BY <2>7, <3>1, <3>4
      <4> QED BY <2>5, <3>2, <4>1
    <3> QED BY <3>3, <3>4
  <2> HIDE DEF g
  <2>11. Values(k, g)
    BY <2>7, <2>9, <2>10 DEF Values
  <2>12. \E h : Values(k, h)
    BY <2>11
  <2> QED BY <2>12 DEF T
<1>3. 0 .. n \subseteq T
  <2> HIDE DEF T
  <2> QED BY <1>1, <1>2, CountUp
<1>4. n \in T
  <2> HIDE DEF T
  <2> QED BY <1>3
<1> HIDE DEF Values
<1>5. \E f : Values(n, f)
  BY <1>4
<1> QED BY <1>5 DEF Values, Loop
-----------------------------------------------------------------------------
(* c_rest_router_add and match_route see the segments that are not empty.    *)
LEMMA SignificantType ==
  ASSUME NEW S, NEW path \in Seq(S)
  PROVE  Significant(path) \in Seq(S \ {Empty})
<1> DEFINE n == Len(path)
           T == Seq(S \ {Empty})
           Keep(f) == [i \in 0 .. n |-> IF i = 0 THEN <<>>
                                       ELSE IF path[i] = Empty THEN f[i - 1] ELSE Append(f[i - 1], path[i])]
           kept == CHOOSE f : f = Keep(f)
           step == [i \in 1 .. n |-> [s \in T |-> IF path[i] = Empty THEN s ELSE Append(s, path[i])]]
<1>1. n \in Nat /\ \A i \in 1 .. n : path[i] \in S
  BY LenProperties, ElementOfSeq
<1>2. <<>> \in T
  BY EmptySeq
<1>3. \A i \in 1 .. n, s \in T : path[i] # Empty => Append(s, path[i]) \in T
  BY <1>1, AppendProperties
<1>4. step \in [1 .. n -> [T -> T]]
  BY <1>3
<1> HIDE DEF T
<1>5. \A i \in 1 .. n, s \in T : step[i][s] = IF path[i] = Empty THEN s ELSE Append(s, path[i])
  OBVIOUS
<1> HIDE DEF step, n
<1>6. PICK g \in [0 .. n -> T] : g[0] = <<>> /\ \A i \in 1 .. n : g[i] = step[i][g[i - 1]]
  <2>1. PICK e \in T : e = <<>>
    BY <1>2
  <2>2. n \in Nat /\ step \in Steps(n, T)
    BY <1>1, <1>4 DEF Steps
  <2>3. PICK g : Loop(g, n, T, e, step)
    BY <2>2, LoopExists
  <2> QED BY <2>1, <2>3 DEF Loop
<1>7. g = Keep(g)
  <2>1. \A i \in 1 .. n : i - 1 \in 0 .. n /\ i \in 0 .. n
    BY <1>1
  <2>2. \A i \in 1 .. n : g[i] = IF path[i] = Empty THEN g[i - 1] ELSE Append(g[i - 1], path[i])
    BY <1>5, <1>6, <2>1
  <2>3. \A i \in 0 .. n : i # 0 => i \in 1 .. n
    BY <1>1
  <2> QED BY <1>6, <2>2, <2>3
<1> HIDE DEF Keep
<1>8. kept = Keep(kept)
  BY <1>7
<1>9. Significant(path) = kept[n]
  BY DEF Significant, Keep, n
<1> HIDE DEF kept
<1>10. kept[0] = <<>> /\ \A i \in 1 .. n : kept[i] = IF path[i] = Empty THEN kept[i - 1] ELSE Append(kept[i - 1], path[i])
  <2>1. 0 \in 0 .. n /\ \A i \in 1 .. n : i \in 0 .. n /\ i # 0
    BY <1>1
  <2> DEFINE h == kept
  <2>2. h = Keep(kept)
    BY <1>8
  <2> HIDE DEF h
  <2>3. h[0] = <<>> /\ \A i \in 1 .. n : h[i] = IF path[i] = Empty THEN kept[i - 1] ELSE Append(kept[i - 1], path[i])
    BY <2>1, <2>2 DEF Keep
  <2> QED BY <2>3 DEF h
<1> DEFINE Good == {i \in 0 .. n : kept[i] \in T}
<1>11. \A i \in 1 .. n : i - 1 \in Good => i \in Good
  BY <1>1, <1>3, <1>10
<1>12. 0 \in Good
  BY <1>1, <1>2, <1>10
<1> HIDE DEF Good
<1>13. n \in Good
  <2>1. 0 .. n \subseteq Good
    BY <1>1, <1>11, <1>12, CountUp
  <2> QED BY <1>1, <2>1
<1> QED BY <1>9, <1>13 DEF Good, T
-----------------------------------------------------------------------------
(* The trees that c_rest_router_add can make, with handlers from Runs: a     *)
(* node is there when its parent lists it, and is listed once.               *)
HandlerEntries(Runs) == [method : Methods, run : Runs]

Shapes(Runs) ==
  UNION {[kids : [N -> Seq(Segments)], handlers : [N -> Seq(HandlerEntries(Runs))]] : N \in SUBSET Seq(Segments)}

Listed(t) ==
  \A n \in Seq(Segments), s \in Segments :
    Append(n, s) \in NodesOf(t) <=> n \in NodesOf(t) /\ s \in Elems(t.kids[n])

OnceEach(t) == \A n \in NodesOf(t) : \A i, j \in DOMAIN t.kids[n] : t.kids[n][i] = t.kids[n][j] => i = j

Trees(Runs) == {t \in Shapes(Runs) : <<>> \in NodesOf(t) /\ Listed(t) /\ OnceEach(t)}

(* u has the nodes of t, with their handlers, and others without any.        *)
Grown(t, u) ==
  /\ NodesOf(t) \subseteq NodesOf(u)
  /\ \A n \in NodesOf(u) : u.handlers[n] = IF n \in NodesOf(t) THEN t.handlers[n] ELSE <<>>

(* The children of n in u are those it has in t, but for one more in front.  *)
KidsIn(t, n) == IF n \in NodesOf(t) THEN t.kids[n] ELSE <<>>

NewChild(t, u, n) == \E s \in Segments : Append(n, s) \notin NodesOf(t) /\ u.kids[n] = <<s>> \o KidsIn(t, n)

(* At most the nodes above level k have a new child.                         *)
Sprouted(t, u, k) == \A n \in NodesOf(u) : u.kids[n] = KidsIn(t, n) \/ (Len(n) < k /\ NewChild(t, u, n))

LEMMA ShapeOf ==
  ASSUME NEW Runs, NEW t \in Shapes(Runs)
  PROVE  /\ NodesOf(t) \subseteq Seq(Segments)
         /\ t \in [kids : [NodesOf(t) -> Seq(Segments)], handlers : [NodesOf(t) -> Seq(HandlerEntries(Runs))]]
<1>1. PICK N \in SUBSET Seq(Segments) : t \in [kids : [N -> Seq(Segments)], handlers : [N -> Seq(HandlerEntries(Runs))]]
  BY DEF Shapes
<1>2. NodesOf(t) = N
  BY <1>1 DEF NodesOf
<1> QED BY <1>1, <1>2

LEMMA MoreRuns ==
  ASSUME NEW A, NEW B, A \subseteq B
  PROVE  Trees(A) \subseteq Trees(B)
<1>1. HandlerEntries(A) \subseteq HandlerEntries(B)
  BY DEF HandlerEntries
<1>2. Seq(HandlerEntries(A)) \subseteq Seq(HandlerEntries(B))
  BY <1>1, SeqMonotonic
<1>3. Shapes(A) \subseteq Shapes(B)
  <2> SUFFICES ASSUME NEW t \in Shapes(A) PROVE t \in Shapes(B)
    OBVIOUS
  <2>1. /\ NodesOf(t) \subseteq Seq(Segments)
        /\ t \in [kids : [NodesOf(t) -> Seq(Segments)], handlers : [NodesOf(t) -> Seq(HandlerEntries(A))]]
    BY ShapeOf
  <2> DEFINE N == NodesOf(t)
             X == Seq(HandlerEntries(A))
             Y == Seq(HandlerEntries(B))
  <2> HIDE DEF N, X, Y
  <2>2. t \in [kids : [N -> Seq(Segments)], handlers : [N -> X]] /\ X \subseteq Y
    BY <1>2, <2>1 DEF N, X, Y
  <2>3. t \in [kids : [N -> Seq(Segments)], handlers : [N -> Y]]
    <3>1. [N -> X] \subseteq [N -> Y]
      BY <2>2
    <3> QED BY <2>2, <3>1
  <2> QED BY <2>1, <2>3 DEF Shapes, N, Y
<1> QED BY <1>3 DEF Trees

LEMMA AppendIsInjective ==
  ASSUME NEW S, NEW m \in Seq(S), NEW n \in Seq(S), NEW a \in S, NEW b \in S
  PROVE  /\ Append(m, a) = Append(n, b) => m = n /\ a = b
         /\ Append(m, a) # m /\ Append(m, a) # <<>>
<1>1. /\ Len(m) \in Nat /\ Len(n) \in Nat
      /\ Append(m, a) \in Seq(S) /\ Append(n, b) \in Seq(S)
      /\ Len(Append(m, a)) = Len(m) + 1 /\ Len(Append(n, b)) = Len(n) + 1
      /\ Append(m, a)[Len(m) + 1] = a /\ Append(n, b)[Len(n) + 1] = b
      /\ \A i \in 1 .. Len(m) : Append(m, a)[i] = m[i]
      /\ \A i \in 1 .. Len(n) : Append(n, b)[i] = n[i]
  BY LenProperties, AppendProperties
<1>2. ASSUME Append(m, a) = Append(n, b) PROVE m = n /\ a = b
  <2>1. Len(m) = Len(n)
    BY <1>1, <1>2
  <2>2. \A i \in 1 .. Len(m) : m[i] = n[i]
    BY <1>1, <1>2, <2>1
  <2>3. m = n
    BY <2>1, <2>2, SeqEqual
  <2> QED BY <1>1, <1>2, <2>1, <2>3
<1>3. Append(m, a) # m
  BY <1>1
<1>4. Append(m, a) # <<>>
  <2>1. Len(<<>>) = 0
    BY EmptySeq
  <2> QED BY <1>1, <2>1
<1> QED BY <1>2, <1>3, <1>4

LEMMA FindOrAddChildType ==
  ASSUME NEW Runs, NEW t \in Trees(Runs), NEW parent \in NodesOf(t), NEW s \in Segments
  PROVE  /\ FindOrAddChild(t, parent, s) \in Trees(Runs)
         /\ Append(parent, s) \in NodesOf(FindOrAddChild(t, parent, s))
         /\ Grown(t, FindOrAddChild(t, parent, s))
         /\ \A n \in NodesOf(FindOrAddChild(t, parent, s)) :
              \/ FindOrAddChild(t, parent, s).kids[n] = KidsIn(t, n)
              \/ n = parent /\ NewChild(t, FindOrAddChild(t, parent, s), n)
<1> DEFINE N == NodesOf(t)
           c == Append(parent, s)
           u == FindOrAddChild(t, parent, s)
<1>1. /\ N \subseteq Seq(Segments) /\ <<>> \in N /\ Listed(t) /\ OnceEach(t)
      /\ t \in [kids : [N -> Seq(Segments)], handlers : [N -> Seq(HandlerEntries(Runs))]]
  BY ShapeOf DEF Trees
<1>2. parent \in Seq(Segments) /\ c \in Seq(Segments) /\ c # parent /\ c # <<>>
  <2>1. parent \in Seq(Segments)
    BY <1>1
  <2> QED BY <2>1, AppendIsInjective, AppendProperties
<1>3. CASE s \in Elems(t.kids[parent])
  <2>1. u = t
    BY <1>3 DEF FindOrAddChild
  <2>2. c \in N
    BY <1>1, <1>2, <1>3 DEF Listed
  <2>3. Grown(t, t) /\ \A n \in NodesOf(t) : t.kids[n] = KidsIn(t, n)
    BY DEF Grown, KidsIn
  <2> QED BY <2>1, <2>2, <2>3
<1>4. CASE s \notin Elems(t.kids[parent])
  <2> DEFINE K == t.kids[parent]
             M == N \cup {c}
             kids == [n \in M |-> IF n = parent THEN <<s>> \o K ELSE IF n = c THEN <<>> ELSE t.kids[n]]
             hands == [n \in M |-> IF n = c THEN <<>> ELSE t.handlers[n]]
  <2>1. c \notin N
    BY <1>1, <1>2, <1>4 DEF Listed
  <2>2. K \in Seq(Segments) /\ <<s>> \in Seq(Segments) /\ <<s>> \o K \in Seq(Segments) /\ Len(<<s>>) = 1
    <3>1. K \in Seq(Segments)
      BY <1>1
    <3> QED BY <3>1, ConcatProperties
  <2>3. u = [kids |-> kids, handlers |-> hands]
    <3>1. WithNode(t.handlers, c) = hands
      BY <1>1, <2>1 DEF WithNode, NodesOf
    <3>2. [WithNode(t.kids, c) EXCEPT ![parent] = PutChild(@, s)] = kids
      <4>1. WithNode(t.kids, c) = [n \in M |-> IF n = c THEN <<>> ELSE t.kids[n]]
        BY <1>1 DEF WithNode, NodesOf
      <4>2. parent \in M /\ parent # c
        BY <1>2
      <4> QED BY <4>1, <4>2 DEF PutChild
    <3> QED BY <1>4, <3>1, <3>2 DEF FindOrAddChild
  <2>4. /\ \A n \in N : n # parent => kids[n] = t.kids[n]
        /\ kids[parent] = <<s>> \o K /\ kids[c] = <<>>
        /\ \A n \in N : hands[n] = t.handlers[n]
        /\ hands[c] = <<>>
    BY <1>2, <2>1
  <2>5. kids \in [M -> Seq(Segments)] /\ hands \in [M -> Seq(HandlerEntries(Runs))] /\ M \in SUBSET Seq(Segments)
    <3>1. <<>> \in Seq(Segments) /\ <<>> \in Seq(HandlerEntries(Runs))
      BY EmptySeq
    <3> QED BY <1>1, <1>2, <2>2, <3>1
  <2> HIDE DEF K, M, kids, hands
  <2>6. u.kids = kids /\ u.handlers = hands /\ NodesOf(u) = M
    BY <2>3, <2>5 DEF NodesOf
  <2>7. u \in Shapes(Runs)
    BY <2>3, <2>5 DEF Shapes
  <2>8. Elems(<<s>> \o K) = {s} \cup Elems(K) /\ Elems(<<>>) = {}
    <3>1. Len(K) \in Nat /\ DOMAIN K = 1 .. Len(K) /\ <<s>>[1] = s
      BY <2>2, LenProperties
    <3>2. /\ Len(<<s>> \o K) = 1 + Len(K)
          /\ \A i \in 1 .. 1 + Len(K) : (<<s>> \o K)[i] = IF i <= 1 THEN <<s>>[i] ELSE K[i - 1]
      BY <2>2, ConcatProperties
    <3> DEFINE L == <<s>> \o K
    <3>3. DOMAIN L = 1 .. 1 + Len(K)
      BY <2>2, <3>2, LenProperties
    <3>4. L[1] = s /\ \A i \in 1 .. Len(K) : L[i + 1] = K[i]
      BY <3>1, <3>2
    <3> HIDE DEF L
    <3>5. \A i \in 1 .. 1 + Len(K) : i = 1 \/ (i - 1 \in 1 .. Len(K) /\ i = (i - 1) + 1)
      BY <3>1
    <3>6. \A x \in Elems(L) : x \in {s} \cup Elems(K)
      <4>1. \A i \in DOMAIN L : L[i] = s \/ \E j \in DOMAIN K : L[i] = K[j]
        <5> SUFFICES ASSUME NEW i \in DOMAIN L PROVE L[i] = s \/ \E j \in DOMAIN K : L[i] = K[j]
          OBVIOUS
        <5>1. CASE i = 1
          BY <3>4, <5>1
        <5>2. CASE i - 1 \in 1 .. Len(K) /\ i = (i - 1) + 1
          <6>1. L[i] = K[i - 1]
            BY <3>4, <5>2
          <6> QED BY <3>1, <5>2, <6>1
        <5> QED BY <3>3, <3>5, <5>1, <5>2
      <4> QED BY <4>1 DEF Elems
    <3>7. \A x \in {s} \cup Elems(K) : x \in Elems(L)
      <4>1. 1 \in DOMAIN L /\ \A i \in DOMAIN K : i + 1 \in DOMAIN L
        BY <3>1, <3>3
      <4> QED BY <3>1, <3>4, <4>1 DEF Elems
    <3>8. Elems(L) = {s} \cup Elems(K)
      BY <3>6, <3>7
    <3>9. Elems(<<>>) = {}
      BY DEF Elems
    <3> QED BY <3>8, <3>9 DEF L
  <2>9. Listed(u)
    <3> SUFFICES ASSUME NEW n \in Seq(Segments), NEW x \in Segments
                 PROVE  Append(n, x) \in M <=> n \in M /\ x \in Elems(kids[n])
      BY <2>6 DEF Listed
    <3>1. Append(n, x) \in N <=> n \in N /\ x \in Elems(t.kids[n])
      BY <1>1 DEF Listed
    <3>2. Append(n, x) = c <=> n = parent /\ x = s
      BY <1>2, AppendIsInjective
    <3>3. Append(c, x) # c
      BY <1>2, AppendIsInjective
    <3>4. CASE n = parent
      BY <2>4, <2>8, <3>1, <3>2, <3>4 DEF M, K
    <3>5. CASE n = c
      BY <1>2, <2>1, <2>4, <2>8, <3>1, <3>3, <3>5 DEF M
    <3>6. CASE n # parent /\ n # c
      BY <2>4, <3>1, <3>2, <3>6 DEF M
    <3> QED BY <3>4, <3>5, <3>6
  <2>10. OnceEach(u)
    <3> SUFFICES ASSUME NEW n \in M, NEW i \in DOMAIN kids[n], NEW j \in DOMAIN kids[n], kids[n][i] = kids[n][j]
                 PROVE  i = j
      BY <2>6 DEF OnceEach
    <3>1. CASE n = parent
      <4>1. Len(K) \in Nat /\ DOMAIN K = 1 .. Len(K) /\ <<s>>[1] = s
        BY <2>2, LenProperties
      <4> DEFINE L == <<s>> \o K
      <4>2. /\ Len(L) = 1 + Len(K) /\ L \in Seq(Segments)
            /\ \A k \in 1 .. 1 + Len(K) : L[k] = IF k <= 1 THEN <<s>>[k] ELSE K[k - 1]
        BY <2>2, ConcatProperties
      <4>3. L = kids[n]
        BY <2>4, <3>1
      <4> HIDE DEF L
      <4>4. DOMAIN L = 1 .. 1 + Len(K)
        BY <4>2, LenProperties
      <4>5. L[1] = s /\ \A k \in 2 .. 1 + Len(K) : L[k] = K[k - 1] /\ k - 1 \in DOMAIN K
        BY <4>1, <4>2
      <4>6. \A k \in DOMAIN K : K[k] # s
        BY <1>4 DEF K, Elems
      <4>7. \A k, l \in DOMAIN K : K[k] = K[l] => k = l
        BY <1>1 DEF OnceEach, K
      <4>8. i \in 1 .. 1 + Len(K) /\ j \in 1 .. 1 + Len(K) /\ L[i] = L[j]
        BY <4>3, <4>4
      <4>9. CASE i = 1 \/ j = 1
        BY <4>1, <4>5, <4>6, <4>8, <4>9
      <4>10. CASE i \in 2 .. 1 + Len(K) /\ j \in 2 .. 1 + Len(K)
        <5>1. i - 1 = j - 1
          BY <4>5, <4>7, <4>8, <4>10
        <5> QED BY <4>1, <4>10, <5>1
      <4> QED BY <4>1, <4>8, <4>9, <4>10
    <3>2. CASE n = c
      BY <1>2, <2>4, <3>2
    <3>3. CASE n # parent /\ n # c
      BY <1>1, <2>4, <3>3 DEF OnceEach, M
    <3> QED BY <3>1, <3>2, <3>3
  <2>11. Grown(t, u)
    BY <2>1, <2>4, <2>6 DEF Grown, M
  <2>12. c \in NodesOf(u) /\ <<>> \in NodesOf(u)
    BY <1>1, <2>6 DEF M
  <2>13. \A n \in NodesOf(u) : u.kids[n] = KidsIn(t, n) \/ (n = parent /\ NewChild(t, u, n))
    <3> SUFFICES ASSUME NEW n \in M PROVE kids[n] = KidsIn(t, n) \/ (n = parent /\ NewChild(t, u, n))
      BY <2>6
    <3>1. CASE n = parent
      <4>1. KidsIn(t, n) = K
        BY <3>1 DEF KidsIn, K
      <4>2. Append(n, s) \notin NodesOf(t) /\ u.kids[n] = <<s>> \o KidsIn(t, n)
        BY <2>1, <2>4, <2>6, <3>1, <4>1
      <4> QED BY <3>1, <4>2 DEF NewChild
    <3>2. CASE n = c
      BY <2>1, <2>4, <3>2 DEF KidsIn
    <3>3. CASE n # parent /\ n # c
      BY <2>4, <3>3 DEF KidsIn, M
    <3> QED BY <3>1, <3>2, <3>3
  <2> QED BY <2>7, <2>9, <2>10, <2>11, <2>12, <2>13 DEF Trees
<1> QED BY <1>3, <1>4

LEMMA Prefixes ==
  ASSUME NEW S, NEW p \in Seq(S)
  PROVE  /\ SubSeq(p, 1, 0) = <<>> /\ SubSeq(p, 1, Len(p)) = p
         /\ \A i \in 1 .. Len(p) :
              /\ SubSeq(p, 1, i - 1) \in Seq(S) /\ Len(SubSeq(p, 1, i - 1)) = i - 1
              /\ SubSeq(p, 1, i) = Append(SubSeq(p, 1, i - 1), p[i])
<1>1. Len(p) \in Nat /\ \A j \in 1 .. Len(p) : p[j] \in S
  BY LenProperties, ElementOfSeq
<1>2. \A k \in 0 .. Len(p) : /\ SubSeq(p, 1, k) \in Seq(S) /\ Len(SubSeq(p, 1, k)) = k
                             /\ \A j \in 1 .. k : SubSeq(p, 1, k)[j] = p[j]
  <2> SUFFICES ASSUME NEW k \in 0 .. Len(p)
               PROVE  /\ SubSeq(p, 1, k) \in Seq(S) /\ Len(SubSeq(p, 1, k)) = k
                      /\ \A j \in 1 .. k : SubSeq(p, 1, k)[j] = p[j]
    OBVIOUS
  <2>1. \A j \in 1 .. k : p[j] \in S
    BY <1>1
  <2>2. /\ SubSeq(p, 1, k) \in Seq(S) /\ Len(SubSeq(p, 1, k)) = IF 1 <= k THEN k - 1 + 1 ELSE 0
        /\ \A j \in 1 .. k - 1 + 1 : SubSeq(p, 1, k)[j] = p[1 + j - 1]
    BY <2>1, SubSeqProperties
  <2>3. Len(SubSeq(p, 1, k)) = k /\ k - 1 + 1 = k /\ \A j \in 1 .. k : 1 + j - 1 = j
    BY <1>1, <2>2
  <2> QED BY <2>2, <2>3
<1>3. SubSeq(p, 1, 0) = <<>>
  <2>1. 0 \in 0 .. Len(p)
    BY <1>1
  <2> QED BY <1>2, <2>1, EmptySeq
<1>4. ASSUME NEW i \in 1 .. Len(p)
      PROVE  /\ SubSeq(p, 1, i - 1) \in Seq(S) /\ Len(SubSeq(p, 1, i - 1)) = i - 1
             /\ SubSeq(p, 1, i) = Append(SubSeq(p, 1, i - 1), p[i])
  <2> DEFINE a == SubSeq(p, 1, i - 1)
             b == SubSeq(p, 1, i)
  <2>1. i - 1 \in 0 .. Len(p) /\ i \in 0 .. Len(p) /\ p[i] \in S
    BY <1>1
  <2>2. /\ a \in Seq(S) /\ Len(a) = i - 1 /\ \A j \in 1 .. i - 1 : a[j] = p[j]
        /\ b \in Seq(S) /\ Len(b) = i /\ \A j \in 1 .. i : b[j] = p[j]
    BY <1>2, <2>1
  <2> HIDE DEF a, b
  <2>3. /\ Append(a, p[i]) \in Seq(S) /\ Len(Append(a, p[i])) = i - 1 + 1
        /\ \A j \in 1 .. i - 1 : Append(a, p[i])[j] = a[j]
        /\ Append(a, p[i])[i - 1 + 1] = p[i]
    BY <2>1, <2>2, AppendProperties
  <2>4. Len(Append(a, p[i])) = Len(b) /\ \A j \in 1 .. i : Append(a, p[i])[j] = b[j]
    <3>1. \A j \in 1 .. i : j \in 1 .. i - 1 \/ j = i - 1 + 1
      BY <1>1
    <3>2. \A j \in 1 .. i - 1 : j \in 1 .. i
      BY <1>1
    <3>3. i - 1 + 1 = i /\ i \in 1 .. i
      BY <1>1
    <3>4. \A j \in 1 .. i - 1 : Append(a, p[i])[j] = b[j]
      BY <2>2, <2>3, <3>2
    <3>5. Append(a, p[i])[i] = b[i]
      BY <2>2, <2>3, <3>3
    <3> QED BY <2>2, <2>3, <3>1, <3>3, <3>4, <3>5
  <2>5. Append(a, p[i]) = b
    BY <2>2, <2>3, <2>4, SeqEqual
  <2> QED BY <2>2, <2>5 DEF a, b
<1> QED BY <1>3, <1>4, SubSeqFull

LEMMA GrownChains ==
  ASSUME NEW t, NEW u, NEW v, Grown(t, u), Grown(u, v)
  PROVE  Grown(t, v)
BY DEF Grown

LEMMA SproutedChains ==
  ASSUME NEW t, NEW u, NEW v, NEW i \in Nat \ {0}, NEW parent,
         Grown(t, u), Grown(u, v), Sprouted(t, u, i - 1),
         \A n \in NodesOf(u) : Len(n) \in Nat, Len(parent) = i - 1, parent \in NodesOf(u),
         \A n \in NodesOf(v) : v.kids[n] = KidsIn(u, n) \/ (n = parent /\ NewChild(u, v, n))
  PROVE  Sprouted(t, v, i)
<1> SUFFICES ASSUME NEW n \in NodesOf(v) PROVE v.kids[n] = KidsIn(t, n) \/ (Len(n) < i /\ NewChild(t, v, n))
  BY DEF Sprouted
<1>1. NodesOf(t) \subseteq NodesOf(u) /\ NodesOf(u) \subseteq NodesOf(v)
  BY DEF Grown
<1>2. CASE v.kids[n] = KidsIn(u, n) /\ n \in NodesOf(u)
  <2>1. v.kids[n] = u.kids[n] /\ Len(n) \in Nat
    BY <1>2 DEF KidsIn
  <2>2. u.kids[n] = KidsIn(t, n) \/ (Len(n) < i - 1 /\ NewChild(t, u, n))
    BY <1>2 DEF Sprouted
  <2>3. NewChild(t, u, n) => NewChild(t, v, n)
    BY <2>1 DEF NewChild
  <2>4. Len(n) < i - 1 => Len(n) < i
    BY <2>1
  <2> QED BY <2>1, <2>2, <2>3, <2>4
<1>3. CASE v.kids[n] = KidsIn(u, n) /\ n \notin NodesOf(u)
  BY <1>1, <1>3 DEF KidsIn
<1>4. CASE n = parent /\ NewChild(u, v, n)
  <2>1. u.kids[n] = KidsIn(t, n)
    <3>1. ~(Len(n) < i - 1)
      BY <1>4
    <3> QED BY <1>4, <3>1 DEF Sprouted
  <2>2. KidsIn(u, n) = KidsIn(t, n)
    BY <1>4, <2>1 DEF KidsIn
  <2>3. NewChild(t, v, n)
    BY <1>1, <1>4, <2>2 DEF NewChild
  <2>4. Len(n) < i
    BY <1>4
  <2> QED BY <2>3, <2>4
<1> QED BY <1>2, <1>3, <1>4

(* c_rest_router_add makes a node for every beginning of its path, and no    *)
(* handler of another node is touched on the way.                            *)
LEMMA GrowType ==
  ASSUME NEW Runs, NEW t \in Trees(Runs), NEW p \in Seq(Segments), NEW k \in 0 .. Len(p)
  PROVE  /\ Grow(t, p, k) \in Trees(Runs)
         /\ SubSeq(p, 1, k) \in NodesOf(Grow(t, p, k))
         /\ Grown(t, Grow(t, p, k))
         /\ Sprouted(t, Grow(t, p, k), k)
<1> DEFINE T == Trees(Runs)
           Before(i) == SubSeq(p, 1, i - 1)
           Body(f) == [i \in 0 .. k |-> IF i = 0 THEN t ELSE FindOrAddChild(f[i - 1], Before(i), p[i])]
           grown == CHOOSE f : f = Body(f)
           step == [i \in 1 .. k |-> [u \in T |-> IF Before(i) \in NodesOf(u) THEN FindOrAddChild(u, Before(i), p[i]) ELSE u]]
<1>1. k \in Nat /\ \A i \in 1 .. k : p[i] \in Segments /\ i \in 1 .. Len(p)
  BY LenProperties, ElementOfSeq
<1>2. /\ SubSeq(p, 1, 0) = <<>>
      /\ \A i \in 1 .. k : /\ Before(i) \in Seq(Segments) /\ Len(Before(i)) = i - 1
                           /\ SubSeq(p, 1, i) = Append(Before(i), p[i])
  BY <1>1, Prefixes
<1> HIDE DEF Before
<1>3. \A i \in 1 .. k, u \in T :
        Before(i) \in NodesOf(u) =>
          /\ FindOrAddChild(u, Before(i), p[i]) \in T
          /\ SubSeq(p, 1, i) \in NodesOf(FindOrAddChild(u, Before(i), p[i]))
          /\ Grown(u, FindOrAddChild(u, Before(i), p[i]))
          /\ \A n \in NodesOf(FindOrAddChild(u, Before(i), p[i])) :
               \/ FindOrAddChild(u, Before(i), p[i]).kids[n] = KidsIn(u, n)
               \/ n = Before(i) /\ NewChild(u, FindOrAddChild(u, Before(i), p[i]), n)
  <2> SUFFICES ASSUME NEW i \in 1 .. k, NEW u \in T, Before(i) \in NodesOf(u)
               PROVE  LET v == FindOrAddChild(u, Before(i), p[i]) IN
                      /\ v \in T /\ Append(Before(i), p[i]) \in NodesOf(v) /\ Grown(u, v)
                      /\ \A n \in NodesOf(v) : v.kids[n] = KidsIn(u, n) \/ (n = Before(i) /\ NewChild(u, v, n))
    BY <1>2
  <2>1. p[i] \in Segments
    BY <1>1
  <2> QED BY <2>1, FindOrAddChildType
<1>4. /\ step \in Steps(k, T)
      /\ \A i \in 1 .. k, u \in T : Before(i) \in NodesOf(u) => step[i][u] = FindOrAddChild(u, Before(i), p[i])
  BY <1>3 DEF Steps
<1> HIDE DEF T, step
<1>5. PICK g : Loop(g, k, T, t, step)
  BY <1>1, <1>4, LoopExists DEF T
<1>6. \A i \in 1 .. k : i - 1 \in 0 .. k /\ i \in 0 .. k
  BY <1>1
<1> DEFINE Good == {i \in 0 .. k : SubSeq(p, 1, i) \in NodesOf(g[i]) /\ Grown(t, g[i]) /\ Sprouted(t, g[i], i)}
<1>7. 0 \in Good
  <2>1. g[0] = t /\ <<>> \in NodesOf(t) /\ Grown(t, t) /\ Sprouted(t, t, 0) /\ 0 \in 0 .. k
    BY <1>1, <1>5 DEF Loop, Trees, Grown, Sprouted, KidsIn
  <2> QED BY <1>2, <2>1
<1>8. ASSUME NEW i \in 1 .. k, i - 1 \in Good
      PROVE  i \in Good /\ Before(i) \in NodesOf(g[i - 1])
  <2>1. g[i - 1] \in T /\ g[i] = step[i][g[i - 1]]
    BY <1>5, <1>6 DEF Loop
  <2>2. Before(i) \in NodesOf(g[i - 1]) /\ Grown(t, g[i - 1]) /\ Sprouted(t, g[i - 1], i - 1)
    BY <1>8 DEF Before
  <2>3. g[i] = FindOrAddChild(g[i - 1], Before(i), p[i])
    BY <1>4, <2>1, <2>2
  <2>4. SubSeq(p, 1, i) \in NodesOf(g[i]) /\ Grown(g[i - 1], g[i])
    BY <1>3, <2>1, <2>2, <2>3
  <2>5. Grown(t, g[i])
    BY <2>2, <2>4, GrownChains
  <2>6. \A n \in NodesOf(g[i]) :
          g[i].kids[n] = KidsIn(g[i - 1], n) \/ (n = Before(i) /\ NewChild(g[i - 1], g[i], n))
    BY <1>3, <2>1, <2>2, <2>3
  <2>7. \A n \in NodesOf(g[i - 1]) : Len(n) \in Nat
    BY <2>1, ShapeOf, LenProperties DEF T, Trees
  <2>8. Sprouted(t, g[i], i)
    <3>1. i \in Nat \ {0} /\ Len(Before(i)) = i - 1
      BY <1>1, <1>2
    <3> QED BY <2>2, <2>4, <2>6, <2>7, <3>1, SproutedChains
  <2> QED BY <1>6, <2>2, <2>4, <2>5, <2>8
<1> HIDE DEF Good
<1>9. 0 .. k \subseteq Good
  BY <1>1, <1>7, <1>8, CountUp
<1>10. \A i \in 1 .. k : g[i] = FindOrAddChild(g[i - 1], Before(i), p[i])
  <2> SUFFICES ASSUME NEW i \in 1 .. k PROVE g[i] = FindOrAddChild(g[i - 1], Before(i), p[i])
    OBVIOUS
  <2>1. i - 1 \in Good /\ g[i - 1] \in T /\ g[i] = step[i][g[i - 1]]
    BY <1>5, <1>6, <1>9 DEF Loop
  <2> QED BY <1>4, <1>8, <2>1
<1>11. g = Body(g)
  <2>1. \A i \in 0 .. k : i # 0 => i \in 1 .. k
    BY <1>1
  <2>2. g \in [0 .. k -> T] /\ g[0] = t
    BY <1>5 DEF Loop
  <2> QED BY <1>10, <2>1, <2>2
<1> HIDE DEF Body
<1>12. grown = Body(grown)
  BY <1>11
<1>13. Grow(t, p, k) = grown[k]
  BY DEF Grow, Body, Before
<1> HIDE DEF grown
<1>14. grown[0] = t /\ \A i \in 1 .. k : grown[i] = FindOrAddChild(grown[i - 1], Before(i), p[i])
  <2> DEFINE h == grown
  <2>1. h = Body(grown)
    BY <1>12
  <2>2. 0 \in 0 .. k /\ \A i \in 1 .. k : i # 0
    BY <1>1
  <2> HIDE DEF h
  <2>3. h[0] = t /\ \A i \in 1 .. k : h[i] = FindOrAddChild(grown[i - 1], Before(i), p[i])
    BY <1>6, <2>1, <2>2 DEF Body
  <2> QED BY <2>3 DEF h
<1> DEFINE Same == {i \in 0 .. k : grown[i] = g[i]}
<1>15. 0 \in Same /\ \A i \in 1 .. k : i - 1 \in Same => i \in Same
  BY <1>1, <1>5, <1>6, <1>10, <1>14 DEF Loop
<1> HIDE DEF Same
<1>16. k \in Same
  <2>1. 0 .. k \subseteq Same
    BY <1>1, <1>15, CountUp
  <2> QED BY <1>1, <2>1
<1>17. grown[k] = g[k] /\ g[k] \in T /\ k \in Good
  <2>1. k \in 0 .. k
    BY <1>1
  <2> QED BY <1>5, <1>9, <1>16, <2>1 DEF Same, Loop
<1> QED BY <1>13, <1>17 DEF Good, T

LEMMA SegmentsOfPattern ==
  ASSUME NEW path \in Seq(Segments \cup {Empty})
  PROVE  Significant(path) \in Seq(Segments)
<1>1. Significant(path) \in Seq((Segments \cup {Empty}) \ {Empty})
  BY SignificantType
<1>2. (Segments \cup {Empty}) \ {Empty} = Segments
  BY SegmentsAssumption
<1> QED BY <1>1, <1>2

LEMMA EmptyTreeType ==
  ASSUME NEW Runs
  PROVE  EmptyTree \in Trees(Runs) /\ NodesOf(EmptyTree) = {<<>>} /\ EmptyTree.handlers[<<>>] = <<>>
<1> DEFINE N == {<<>>}
           e == [n \in N |-> <<>>]
<1>1. <<>> \in Seq(Segments) /\ <<>> \in Seq(HandlerEntries(Runs)) /\ N \in SUBSET Seq(Segments)
  BY EmptySeq
<1>2. e \in [N -> Seq(Segments)] /\ e \in [N -> Seq(HandlerEntries(Runs))] /\ e[<<>>] = <<>>
  BY <1>1
<1>3. EmptyTree = [kids |-> e, handlers |-> e]
  BY DEF EmptyTree
<1> HIDE DEF N, e
<1>4. EmptyTree.kids = e /\ EmptyTree.handlers = e /\ NodesOf(EmptyTree) = N
  BY <1>2, <1>3 DEF NodesOf
<1>5. EmptyTree \in Shapes(Runs)
  BY <1>1, <1>2, <1>3 DEF Shapes
<1>6. DOMAIN <<>> = {} /\ Elems(<<>>) = {}
  BY DEF Elems
<1>7. Listed(EmptyTree)
  <2> SUFFICES ASSUME NEW n \in Seq(Segments), NEW s \in Segments
               PROVE  Append(n, s) \in N <=> n \in N /\ s \in Elems(e[n])
    BY <1>4 DEF Listed
  <2>1. Append(n, s) # <<>>
    BY AppendIsInjective
  <2> QED BY <1>2, <1>6, <2>1 DEF N
<1>8. OnceEach(EmptyTree)
  BY <1>2, <1>4, <1>6 DEF OnceEach, N
<1> QED BY <1>2, <1>4, <1>5, <1>7, <1>8 DEF Trees, N

(* c_rest_router_add makes a tree of a tree: the pattern has its node, the   *)
(* new handler is the first there, and the other handlers stay.              *)
HandlersIn(t, n) == IF n \in NodesOf(t) THEN t.handlers[n] ELSE <<>>

LEMMA AddRouteType ==
  ASSUME NEW Runs, NEW t \in Trees(Runs), NEW method \in Methods,
         NEW path \in Seq(Segments \cup {Empty}), NEW run \in Runs
  PROVE  /\ AddRoute(t, method, path, run) \in Trees(Runs)
         /\ \A n \in NodesOf(AddRoute(t, method, path, run)) :
              \/ AddRoute(t, method, path, run).kids[n] = KidsIn(t, n)
              \/ NewChild(t, AddRoute(t, method, path, run), n)
         /\ NodesOf(t) \subseteq NodesOf(AddRoute(t, method, path, run))
         /\ Significant(path) \in NodesOf(AddRoute(t, method, path, run))
         /\ \A n \in NodesOf(AddRoute(t, method, path, run)) :
              AddRoute(t, method, path, run).handlers[n] =
                IF n = Significant(path) THEN <<[method |-> method, run |-> run]>> \o HandlersIn(t, n)
                ELSE HandlersIn(t, n)
<1> DEFINE p == Significant(path)
           g == Grow(t, p, Len(p))
           u == AddRoute(t, method, path, run)
           entry == [method |-> method, run |-> run]
           hands == [g.handlers EXCEPT ![p] = <<entry>> \o @]
<1>1. p \in Seq(Segments) /\ Len(p) \in 0 .. Len(p) /\ SubSeq(p, 1, Len(p)) = p
  <2>1. p \in Seq(Segments)
    BY SegmentsOfPattern
  <2>2. Len(p) \in Nat
    BY <2>1, LenProperties
  <2>3. SubSeq(p, 1, Len(p)) = p
    BY <2>1, Prefixes
  <2> HIDE DEF p
  <2> QED BY <2>1, <2>2, <2>3
<1> HIDE DEF p
<1>2. g \in Trees(Runs) /\ p \in NodesOf(g) /\ Grown(t, g) /\ Sprouted(t, g, Len(p))
  BY <1>1, GrowType
<1>3. u = [g EXCEPT !.handlers[p] = <<entry>> \o @]
  BY DEF AddRoute, p
<1> HIDE DEF g, u
<1>4. /\ NodesOf(g) \subseteq Seq(Segments) /\ <<>> \in NodesOf(g) /\ Listed(g) /\ OnceEach(g)
      /\ g \in [kids : [NodesOf(g) -> Seq(Segments)], handlers : [NodesOf(g) -> Seq(HandlerEntries(Runs))]]
  BY <1>2, ShapeOf DEF Trees
<1>5. u = [kids |-> g.kids, handlers |-> hands]
  BY <1>3, <1>4
<1>6. entry \in HandlerEntries(Runs) /\ <<entry>> \in Seq(HandlerEntries(Runs))
  <2>1. entry \in HandlerEntries(Runs)
    BY DEF HandlerEntries
  <2> HIDE DEF entry
  <2> QED BY <2>1
<1> HIDE DEF entry
<1>7. <<entry>> \o g.handlers[p] \in Seq(HandlerEntries(Runs))
  BY <1>2, <1>4, <1>6, ConcatProperties
<1>8. /\ hands \in [NodesOf(g) -> Seq(HandlerEntries(Runs))]
      /\ \A n \in NodesOf(g) : hands[n] = IF n = p THEN <<entry>> \o g.handlers[n] ELSE g.handlers[n]
  BY <1>2, <1>4, <1>7
<1> HIDE DEF hands
<1>9. u.kids = g.kids /\ u.handlers = hands /\ NodesOf(u) = NodesOf(g)
  BY <1>5 DEF NodesOf
<1>10. u \in Shapes(Runs)
  BY <1>4, <1>5, <1>8 DEF Shapes
<1>11. Listed(u) /\ OnceEach(u)
  BY <1>4, <1>9 DEF Listed, OnceEach
<1>12. u \in Trees(Runs)
  BY <1>4, <1>9, <1>10, <1>11 DEF Trees
<1>13. NodesOf(t) \subseteq NodesOf(g) /\ \A n \in NodesOf(g) : g.handlers[n] = HandlersIn(t, n)
  BY <1>2 DEF Grown, HandlersIn
<1>14. \A n \in NodesOf(u) : u.handlers[n] = IF n = p THEN <<entry>> \o HandlersIn(t, n) ELSE HandlersIn(t, n)
  BY <1>8, <1>9, <1>13
<1>15. \A n \in NodesOf(u) : u.kids[n] = KidsIn(t, n) \/ NewChild(t, u, n)
  BY <1>2, <1>9 DEF Sprouted, NewChild
<1> QED BY <1>2, <1>9, <1>12, <1>13, <1>14, <1>15 DEF p, u, entry
-----------------------------------------------------------------------------
(* What match_route can answer at the nodes of t.                            *)
Bindings == [node : Seq(Segments), value : Segments]
Matches(t) == [node : NodesOf(t), vars : Seq(Bindings), found : BOOLEAN]

AtEnd(t) == [n \in NodesOf(t) |-> [node |-> n, vars |-> <<>>, found |-> TRUE]]
Level(t, s, rest) == [n \in NodesOf(t) |-> MatchAt(t, n, s, rest)]

(* The children that the loop stops at.                                      *)
Stops(t, n, s, rest) ==
  {k \in DOMAIN t.kids[n] : t.kids[n][k] \in WildSegs \/ Enters(t.kids[n][k], s, rest[Append(n, t.kids[n][k])])}

LEMMA ChildrenAreNodes ==
  ASSUME NEW Runs, NEW t \in Trees(Runs), NEW n \in NodesOf(t), NEW k \in DOMAIN t.kids[n]
  PROVE  /\ n \in Seq(Segments) /\ t.kids[n] \in Seq(Segments) /\ t.kids[n][k] \in Segments
         /\ Append(n, t.kids[n][k]) \in NodesOf(t)
<1>1. t \in Shapes(Runs) /\ Listed(t)
  BY DEF Trees
<1>2. n \in Seq(Segments) /\ t.kids[n] \in Seq(Segments)
  BY <1>1, ShapeOf
<1>3. k \in 1 .. Len(t.kids[n])
  BY <1>2, LenProperties
<1>4. t.kids[n][k] \in Segments
  BY <1>2, <1>3, ElementOfSeq
<1>5. t.kids[n][k] \in Elems(t.kids[n])
  BY DEF Elems
<1> QED BY <1>1, <1>2, <1>4, <1>5 DEF Listed

LEMMA StopsAt ==
  ASSUME NEW Runs, NEW t \in Trees(Runs), NEW n \in NodesOf(t), NEW s, NEW rest
  PROVE  /\ Stops(t, n, s, rest) \in SUBSET Nat
         /\ Stops(t, n, s, rest) # {} =>
              /\ Least(Stops(t, n, s, rest)) \in Stops(t, n, s, rest)
              /\ \A j \in Stops(t, n, s, rest) : Least(Stops(t, n, s, rest)) <= j
<1>1. t \in Shapes(Runs)
  BY DEF Trees
<1>2. t.kids[n] \in Seq(Segments)
  BY <1>1, ShapeOf
<1>3. DOMAIN t.kids[n] \subseteq Nat
  <2>1. DOMAIN t.kids[n] = 1 .. Len(t.kids[n]) /\ Len(t.kids[n]) \in Nat
    BY <1>2, LenProperties
  <2> QED BY <2>1
<1>4. Stops(t, n, s, rest) \in SUBSET Nat
  BY <1>3 DEF Stops
<1> QED BY <1>4, LeastOf

LEMMA MatchAtCases ==
  ASSUME NEW t, NEW n, NEW s, NEW rest
  PROVE  /\ Stops(t, n, s, rest) = {} => MatchAt(t, n, s, rest) = NoMatch
         /\ Stops(t, n, s, rest) # {} =>
              MatchAt(t, n, s, rest) =
                LET child == t.kids[n][Least(Stops(t, n, s, rest))]
                    sub == rest[Append(n, child)]
                IN  IF child \in WildSegs THEN [node |-> Append(n, child), vars |-> <<>>, found |-> TRUE]
                    ELSE IF child \in VarSegs THEN [sub EXCEPT !.vars = Bind([node |-> Append(n, child), value |-> s], @)]
                    ELSE sub
BY DEF MatchAt, Stops

LEMMA MatchAtType ==
  ASSUME NEW Runs, NEW t \in Trees(Runs), NEW n \in NodesOf(t), NEW s \in Segments,
         NEW rest \in [NodesOf(t) -> Matches(t)]
  PROVE  MatchAt(t, n, s, rest) \in Matches(t)
<1> DEFINE stops == Stops(t, n, s, rest)
           k == Least(stops)
           child == t.kids[n][k]
           sub == rest[Append(n, child)]
<1>1. <<>> \in NodesOf(t) /\ <<>> \in Seq(Bindings)
  BY EmptySeq DEF Trees
<1>2. CASE stops = {}
  <2>1. MatchAt(t, n, s, rest) = NoMatch
    BY <1>2, MatchAtCases
  <2> QED BY <1>1, <2>1 DEF NoMatch, Matches
<1>3. CASE stops # {}
  <2>1. k \in DOMAIN t.kids[n]
    <3>1. k \in stops
      BY <1>3, StopsAt
    <3> QED BY <3>1 DEF Stops
  <2>2. child \in Segments /\ Append(n, child) \in NodesOf(t)
    BY <2>1, ChildrenAreNodes
  <2>3. MatchAt(t, n, s, rest) =
          IF child \in WildSegs THEN [node |-> Append(n, child), vars |-> <<>>, found |-> TRUE]
          ELSE IF child \in VarSegs THEN [sub EXCEPT !.vars = Bind([node |-> Append(n, child), value |-> s], @)]
          ELSE sub
    BY <1>3, MatchAtCases
  <2> HIDE DEF child
  <2>4. sub \in Matches(t)
    BY <2>2
  <2> DEFINE b == [node |-> Append(n, child), value |-> s]
  <2>5. b \in Bindings
    <3>1. Append(n, child) \in Seq(Segments)
      BY <2>2, ShapeOf DEF Trees
    <3> QED BY <3>1 DEF Bindings
  <2>6. Bind(b, sub.vars) \in Seq(Bindings)
    <3> HIDE DEF b, sub
    <3>1. <<b>> \in Seq(Bindings) /\ sub.vars \in Seq(Bindings)
      BY <2>4, <2>5 DEF Matches
    <3> QED BY <3>1, ConcatProperties DEF Bind
  <2> HIDE DEF b, sub
  <2>7. [sub EXCEPT !.vars = Bind(b, @)] \in Matches(t)
    BY <2>4, <2>6 DEF Matches
  <2>8. [node |-> Append(n, child), vars |-> <<>>, found |-> TRUE] \in Matches(t)
    BY <1>1, <2>2 DEF Matches
  <2> QED BY <2>3, <2>4, <2>7, <2>8 DEF b
<1> QED BY <1>2, <1>3

(* match_route by the number of segments that are left.                      *)
LEMMA MatchLevels ==
  ASSUME NEW Runs, NEW t \in Trees(Runs), NEW path \in Seq(Segments \cup {Empty})
  PROVE  \E g \in [0 .. Len(Significant(path)) -> [NodesOf(t) -> Matches(t)]] :
           /\ g[0] = AtEnd(t)
           /\ \A left \in 1 .. Len(Significant(path)) :
                g[left] = Level(t, Significant(path)[Len(Significant(path)) + 1 - left], g[left - 1])
           /\ Match(t, path) = g[Len(Significant(path))][<<>>]
<1> DEFINE p == Significant(path)
           n == Len(p)
           N == NodesOf(t)
           S == [N -> Matches(t)]
           Seg(i) == p[n + 1 - i]
           Body(f) == [i \in 0 .. n |-> IF i = 0 THEN AtEnd(t) ELSE Level(t, Seg(i), f[i - 1])]
           match == CHOOSE f : f = Body(f)
           step == [i \in 1 .. n |-> [rest \in S |-> Level(t, Seg(i), rest)]]
<1>1. Match(t, path) = match[n][<<>>]
  BY DEF Match, Level, AtEnd
<1>2. p \in Seq(Segments) /\ n \in Nat /\ \A i \in 1 .. n : Seg(i) \in Segments
  <2>1. p \in Seq(Segments)
    BY SegmentsOfPattern
  <2> HIDE DEF p
  <2>2. n \in Nat /\ \A i \in 1 .. n : p[i] \in Segments
    BY <2>1, LenProperties, ElementOfSeq
  <2>3. \A i \in 1 .. n : n + 1 - i \in 1 .. n
    BY <2>2
  <2> QED BY <2>1, <2>2, <2>3
<1> HIDE DEF p, n, Seg
<1>3. AtEnd(t) \in S
  BY EmptySeq DEF AtEnd, Matches
<1>4. \A i \in 1 .. n, rest \in S : Level(t, Seg(i), rest) \in S
  BY <1>2, MatchAtType DEF Level
<1> HIDE DEF S
<1>5. step \in Steps(n, S) /\ \A i \in 1 .. n, rest \in S : step[i][rest] = Level(t, Seg(i), rest)
  BY <1>4 DEF Steps
<1> HIDE DEF step
<1>6. PICK g : Loop(g, n, S, AtEnd(t), step)
  <2>1. PICK e \in S : e = AtEnd(t)
    BY <1>3
  <2>2. \E g : Loop(g, n, S, e, step)
    BY <1>2, <1>5, LoopExists
  <2> QED BY <2>1, <2>2
<1>7. \A i \in 1 .. n : i - 1 \in 0 .. n /\ i \in 0 .. n
  BY <1>2
<1>8. g \in [0 .. n -> S] /\ g[0] = AtEnd(t) /\ \A i \in 1 .. n : g[i] = Level(t, Seg(i), g[i - 1])
  <2>1. g \in [0 .. n -> S] /\ g[0] = AtEnd(t) /\ \A i \in 1 .. n : g[i] = step[i][g[i - 1]]
    BY <1>6 DEF Loop
  <2> QED BY <1>5, <1>7, <2>1
<1>9. g = Body(g)
  <2>1. \A i \in 0 .. n : i # 0 => i \in 1 .. n
    BY <1>2
  <2> QED BY <1>8, <2>1
<1> HIDE DEF Body
<1>10. match = Body(match)
  BY <1>9
<1> HIDE DEF match
<1>11. match[0] = AtEnd(t) /\ \A i \in 1 .. n : match[i] = Level(t, Seg(i), match[i - 1])
  <2> DEFINE h == match
  <2>1. h = Body(match)
    BY <1>10
  <2>2. 0 \in 0 .. n /\ \A i \in 1 .. n : i # 0
    BY <1>2
  <2> HIDE DEF h
  <2>3. h[0] = AtEnd(t) /\ \A i \in 1 .. n : h[i] = Level(t, Seg(i), match[i - 1])
    BY <1>7, <2>1, <2>2 DEF Body
  <2> QED BY <2>3 DEF h
<1> DEFINE Same == {i \in 0 .. n : match[i] = g[i]}
<1>12. 0 \in Same /\ \A i \in 1 .. n : i - 1 \in Same => i \in Same
  BY <1>2, <1>7, <1>8, <1>11
<1> HIDE DEF Same
<1>13. n \in Same
  <2>1. 0 .. n \subseteq Same
    BY <1>2, <1>12, CountUp
  <2> QED BY <1>2, <2>1
<1>14. Match(t, path) = g[n][<<>>]
  BY <1>1, <1>13 DEF Same
<1>15. \A left \in 1 .. n : g[left] = Level(t, p[n + 1 - left], g[left - 1])
  BY <1>8 DEF Seg
<1> QED BY <1>8, <1>14, <1>15 DEF S, p, n

LEMMA MatchType ==
  ASSUME NEW Runs, NEW t \in Trees(Runs), NEW path \in Seq(Segments \cup {Empty})
  PROVE  Match(t, path) \in Matches(t)
<1>1. PICK g \in [0 .. Len(Significant(path)) -> [NodesOf(t) -> Matches(t)]] :
           Match(t, path) = g[Len(Significant(path))][<<>>]
  BY MatchLevels
<1>2. Len(Significant(path)) \in Nat
  BY SegmentsOfPattern, LenProperties
<1>3. Len(Significant(path)) \in 0 .. Len(Significant(path)) /\ <<>> \in NodesOf(t)
  <2> DEFINE n == Len(Significant(path))
  <2> HIDE DEF n
  <2>1. n \in Nat => n \in 0 .. n
    OBVIOUS
  <2> QED BY <1>2, <2>1 DEF Trees, n
<1> QED BY <1>1, <1>3

LEMMA FirstHandler ==
  ASSUME NEW Runs, NEW t \in Trees(Runs), NEW n \in NodesOf(t), NEW method
  PROVE  HandlersFor(t, n, method) # {} =>
           /\ Least(HandlersFor(t, n, method)) \in HandlersFor(t, n, method)
           /\ \A j \in HandlersFor(t, n, method) : Least(HandlersFor(t, n, method)) <= j
           /\ t.handlers[n][Least(HandlersFor(t, n, method))] \in HandlerEntries(Runs)
<1> DEFINE hs == HandlersFor(t, n, method)
<1>1. t.handlers[n] \in Seq(HandlerEntries(Runs))
  <2>1. t \in Shapes(Runs)
    BY DEF Trees
  <2> QED BY <2>1, ShapeOf
<1>2. /\ DOMAIN t.handlers[n] = 1 .. Len(t.handlers[n]) /\ Len(t.handlers[n]) \in Nat
      /\ \A i \in 1 .. Len(t.handlers[n]) : t.handlers[n][i] \in HandlerEntries(Runs)
  BY <1>1, LenProperties, ElementOfSeq
<1>3. hs \subseteq DOMAIN t.handlers[n]
  BY DEF HandlersFor
<1> HIDE DEF hs
<1>4. hs \in SUBSET Nat
  BY <1>2, <1>3
<1>5. hs # {} => Least(hs) \in hs /\ \A j \in hs : Least(hs) <= j
  BY <1>4, LeastOf
<1> QED BY <1>2, <1>3, <1>5 DEF hs

LEMMA ResolveCases ==
  ASSUME NEW t, NEW path, NEW method
  PROVE  LET m == Match(t, path)
             hs == HandlersFor(t, m.node, method)
         IN  /\ ~m.found => Resolve(t, path, method) = [kind |-> "notFound"]
             /\ m.found /\ hs = {} => Resolve(t, path, method) = [kind |-> "noMethod"]
             /\ m.found /\ hs # {} =>
                  Resolve(t, path, method) = [kind |-> "handler", run |-> t.handlers[m.node][Least(hs)].run]
BY DEF Resolve

(* c_rest_router_dispatch answers 404, 405, or runs a handler that was added. *)
LEMMA ResolveType ==
  ASSUME NEW Runs, NEW t \in Trees(Runs), NEW path \in Seq(Segments \cup {Empty}), NEW method
  PROVE  /\ Resolve(t, path, method).kind \in {"notFound", "noMethod", "handler"}
         /\ Resolve(t, path, method).kind = "handler" => Resolve(t, path, method).run \in Runs
<1> DEFINE m == Match(t, path)
           hs == HandlersFor(t, m.node, method)
           r == Resolve(t, path, method)
<1>1. m.node \in NodesOf(t) /\ m.found \in BOOLEAN
  BY MatchType DEF Matches
<1> HIDE DEF m
<1>2. hs # {} => t.handlers[m.node][Least(hs)].run \in Runs
  BY <1>1, FirstHandler DEF HandlerEntries
<1>3. /\ ~m.found => r = [kind |-> "notFound"]
      /\ m.found /\ hs = {} => r = [kind |-> "noMethod"]
      /\ m.found /\ hs # {} => r = [kind |-> "handler", run |-> t.handlers[m.node][Least(hs)].run]
  BY ResolveCases DEF m
<1> SUFFICES r.kind \in {"notFound", "noMethod", "handler"} /\ (r.kind = "handler" => r.run \in Runs)
  BY DEF r
<1> HIDE DEF hs, r
<1>4. CASE ~m.found
  BY <1>3, <1>4
<1>5. CASE m.found /\ hs = {}
  BY <1>3, <1>5
<1>6. CASE m.found /\ hs # {}
  BY <1>2, <1>3, <1>6
<1> QED BY <1>1, <1>4, <1>5, <1>6
-----------------------------------------------------------------------------
(* What match_route is to find at node n, where the segments of the path up  *)
(* to n are used up: a node below n whose segments from there on fit.        *)
Below(m, n) == Len(n) <= Len(m) /\ \A i \in 1 .. Len(n) : m[i] = n[i]

FitsAfter(b, m, p) ==
  /\ Len(m) <= Len(p)
  /\ \A i \in b + 1 .. Len(m) : m[i] \in WildSegs \/ m[i] \in VarSegs \/ m[i] = p[i]
  /\ \A i \in b + 1 .. Len(m) : m[i] \in WildSegs => i = Len(m)
  /\ Len(m) < Len(p) => b < Len(m) /\ m[Len(m)] \in WildSegs

Fitting(t, n, p) == {m \in NodesOf(t) : Below(m, n) /\ FitsAfter(Len(n), m, p)}

(* Where m and n part, the child that leads to m is ahead in the list.       *)
Ahead(t, m, n) ==
  \E q \in NodesOf(t) :
    /\ Below(m, q) /\ Below(n, q) /\ Len(q) < Len(m) /\ Len(q) < Len(n)
    /\ \E k, l \in DOMAIN t.kids[q] : k < l /\ t.kids[q][k] = m[Len(q) + 1] /\ t.kids[q][l] = n[Len(q) + 1]

Right(t, n, p, r) ==
  /\ r.found <=> Fitting(t, n, p) # {}
  /\ r.found => r.node \in Fitting(t, n, p) /\ \A m \in Fitting(t, n, p) \ {r.node} : Ahead(t, r.node, m)

LEMMA BelowChild ==
  ASSUME NEW S, NEW n \in Seq(S), NEW x \in S, NEW m \in Seq(S)
  PROVE  /\ Append(n, x) \in Seq(S) /\ Len(Append(n, x)) = Len(n) + 1 /\ Append(n, x)[Len(n) + 1] = x
         /\ Below(Append(n, x), n)
         /\ Below(m, Append(n, x)) <=> Below(m, n) /\ Len(n) < Len(m) /\ m[Len(n) + 1] = x
         /\ Below(m, Append(n, x)) /\ Len(m) = Len(n) + 1 => m = Append(n, x)
<1> DEFINE c == Append(n, x)
<1>1. /\ Len(n) \in Nat /\ Len(m) \in Nat /\ c \in Seq(S) /\ Len(c) = Len(n) + 1 /\ c[Len(n) + 1] = x
      /\ \A i \in 1 .. Len(n) : c[i] = n[i]
  BY LenProperties, AppendProperties
<1> HIDE DEF c
<1>2. Below(c, n)
  BY <1>1 DEF Below
<1>3. \A i \in 1 .. Len(c) : i \in 1 .. Len(n) \/ i = Len(n) + 1
  BY <1>1
<1>4. Below(m, c) => Below(m, n) /\ Len(n) < Len(m) /\ m[Len(n) + 1] = x
  <2> SUFFICES ASSUME Below(m, c) PROVE Below(m, n) /\ Len(n) < Len(m) /\ m[Len(n) + 1] = x
    OBVIOUS
  <2>1. Len(n) + 1 <= Len(m) /\ \A i \in 1 .. Len(n) + 1 : m[i] = c[i]
    BY <1>1 DEF Below
  <2>2. Len(n) + 1 \in 1 .. Len(n) + 1 /\ \A i \in 1 .. Len(n) : i \in 1 .. Len(n) + 1
    BY <1>1
  <2> QED BY <1>1, <2>1, <2>2 DEF Below
<1>5. Below(m, n) /\ Len(n) < Len(m) /\ m[Len(n) + 1] = x => Below(m, c)
  BY <1>1, <1>3 DEF Below
<1>6. Below(m, c) /\ Len(m) = Len(n) + 1 => m = c
  <2> SUFFICES ASSUME Below(m, c), Len(m) = Len(n) + 1 PROVE m = c
    OBVIOUS
  <2>1. Len(m) = Len(c) /\ \A i \in 1 .. Len(m) : m[i] = c[i]
    BY <1>1 DEF Below
  <2> QED BY <1>1, <2>1, SeqEqual
<1> QED BY <1>1, <1>2, <1>4, <1>5, <1>6 DEF c

LEMMA BelowIsPrefix ==
  ASSUME NEW S, NEW m \in Seq(S), NEW n \in Seq(S), Below(m, n)
  PROVE  SubSeq(m, 1, Len(n)) = n
<1>1. /\ Len(m) \in Nat /\ Len(n) \in Nat /\ \A i \in 1 .. Len(m) : m[i] \in S
      /\ Len(n) <= Len(m) /\ \A i \in 1 .. Len(n) : m[i] = n[i]
  BY LenProperties, ElementOfSeq DEF Below
<1>2. \A i \in 1 .. Len(n) : m[i] \in S
  BY <1>1
<1>3. /\ SubSeq(m, 1, Len(n)) \in Seq(S)
      /\ Len(SubSeq(m, 1, Len(n))) = IF 1 <= Len(n) THEN Len(n) - 1 + 1 ELSE 0
      /\ \A i \in 1 .. Len(n) - 1 + 1 : SubSeq(m, 1, Len(n))[i] = m[1 + i - 1]
  BY <1>1, <1>2, SubSeqProperties
<1>4. Len(SubSeq(m, 1, Len(n))) = Len(n) /\ Len(n) - 1 + 1 = Len(n) /\ \A i \in 1 .. Len(n) : 1 + i - 1 = i
  BY <1>1, <1>3
<1>5. \A i \in 1 .. Len(n) : SubSeq(m, 1, Len(n))[i] = n[i]
  BY <1>1, <1>3, <1>4
<1> QED BY <1>3, <1>4, <1>5, SeqEqual

(* With a node, the nodes that lead to it are there.                         *)
LEMMA NodesAbove ==
  ASSUME NEW Runs, NEW t \in Trees(Runs), NEW m \in NodesOf(t), NEW n \in Seq(Segments), Below(m, n)
  PROVE  n \in NodesOf(t)
<1> DEFINE N == NodesOf(t)
           T == {j \in 0 .. Len(m) : SubSeq(m, 1, Len(m) - j) \in N}
<1>1. m \in Seq(Segments) /\ Len(m) \in Nat /\ Len(n) \in Nat /\ Listed(t)
  BY ShapeOf, LenProperties DEF Trees
<1>2. /\ SubSeq(m, 1, Len(m)) = m
      /\ \A i \in 1 .. Len(m) : /\ SubSeq(m, 1, i - 1) \in Seq(Segments) /\ m[i] \in Segments
                                /\ SubSeq(m, 1, i) = Append(SubSeq(m, 1, i - 1), m[i])
  BY <1>1, Prefixes, ElementOfSeq
<1>3. 0 \in T
  <2>1. 0 \in 0 .. Len(m) /\ Len(m) - 0 = Len(m)
    BY <1>1
  <2> QED BY <1>2, <2>1
<1>4. ASSUME NEW j \in 1 .. Len(m), j - 1 \in T PROVE j \in T
  <2> DEFINE i == Len(m) - (j - 1)
  <2>1. i \in 1 .. Len(m) /\ i - 1 = Len(m) - j /\ SubSeq(m, 1, i) \in N
    BY <1>1, <1>4
  <2> HIDE DEF i
  <2> DEFINE q == SubSeq(m, 1, i - 1)
  <2>2. q \in Seq(Segments) /\ m[i] \in Segments /\ Append(q, m[i]) \in N
    BY <1>2, <2>1
  <2>3. q \in N
    <3> HIDE DEF q
    <3> QED BY <1>1, <2>2 DEF Listed
  <2> QED BY <1>1, <2>1, <2>3
<1> HIDE DEF T
<1>5. 0 .. Len(m) \subseteq T
  BY <1>1, <1>3, <1>4, CountUp
<1>6. Len(n) <= Len(m) /\ \A i \in 1 .. Len(n) : m[i] = n[i]
  BY DEF Below
<1>7. Len(m) - Len(n) \in 0 .. Len(m) /\ Len(m) - (Len(m) - Len(n)) = Len(n)
  BY <1>1, <1>6
<1>8. SubSeq(m, 1, Len(n)) \in N
  BY <1>5, <1>7 DEF T
<1>9. SubSeq(m, 1, Len(n)) = n
  BY <1>1, BelowIsPrefix
<1> QED BY <1>8, <1>9

LEMMA FittingIsWild ==
  ASSUME NEW Runs, NEW t \in Trees(Runs), NEW n \in NodesOf(t), NEW p \in Seq(Segments), Len(n) < Len(p),
         NEW k \in DOMAIN t.kids[n], t.kids[n][k] \in WildSegs
  PROVE  Append(n, t.kids[n][k]) \in Fitting(t, n, p)
<1> DEFINE x == t.kids[n][k]
           c == Append(n, x)
<1>1. n \in Seq(Segments) /\ x \in Segments /\ c \in NodesOf(t)
  BY ChildrenAreNodes
<1> HIDE DEF x
<1>2. Len(c) = Len(n) + 1 /\ c[Len(n) + 1] = x /\ Below(c, n) /\ Len(n) \in Nat /\ Len(p) \in Nat
  BY <1>1, BelowChild, LenProperties
<1>3. \A i \in Len(n) + 1 .. Len(c) : i = Len(c)
  BY <1>2
<1> HIDE DEF c
<1>4. x \in WildSegs
  BY DEF x
<1>5. FitsAfter(Len(n), c, p)
  BY <1>2, <1>3, <1>4 DEF FitsAfter
<1> QED BY <1>1, <1>2, <1>5 DEF Fitting, c, x

LEMMA FittingFrom ==
  ASSUME NEW Runs, NEW t \in Trees(Runs), NEW n \in NodesOf(t), NEW p \in Seq(Segments), Len(n) < Len(p),
         NEW k \in DOMAIN t.kids[n], t.kids[n][k] \notin WildSegs,
         t.kids[n][k] \in VarSegs \/ t.kids[n][k] = p[Len(n) + 1],
         NEW m \in Fitting(t, Append(n, t.kids[n][k]), p)
  PROVE  m \in Fitting(t, n, p)
<1> DEFINE x == t.kids[n][k]
           c == Append(n, x)
<1>1. n \in Seq(Segments) /\ x \in Segments /\ m \in NodesOf(t) /\ m \in Seq(Segments)
  BY ChildrenAreNodes, ShapeOf DEF Fitting, Trees
<1>2. x \notin WildSegs /\ (x \in VarSegs \/ x = p[Len(n) + 1]) /\ m \in Fitting(t, c, p)
  OBVIOUS
<1> HIDE DEF x
<1>3. Len(c) = Len(n) + 1 /\ Len(n) \in Nat /\ Len(m) \in Nat /\ Len(p) \in Nat
  BY <1>1, BelowChild, LenProperties
<1>4. Below(m, n) /\ Len(n) < Len(m) /\ m[Len(n) + 1] = x
  BY <1>1, <1>2, BelowChild DEF Fitting
<1>5. FitsAfter(Len(n) + 1, m, p)
  BY <1>2, <1>3 DEF Fitting
<1>6. \A i \in Len(n) + 1 .. Len(m) : i = Len(n) + 1 \/ i \in Len(n) + 1 + 1 .. Len(m)
  BY <1>3
<1>7. FitsAfter(Len(n), m, p)
  BY <1>2, <1>3, <1>4, <1>5, <1>6 DEF FitsAfter
<1> QED BY <1>1, <1>4, <1>7 DEF Fitting

LEMMA FittingVia ==
  ASSUME NEW Runs, NEW t \in Trees(Runs), NEW n \in NodesOf(t), NEW p \in Seq(Segments), Len(n) < Len(p),
         NEW m \in Fitting(t, n, p)
  PROVE  \E k \in DOMAIN t.kids[n] :
           /\ Below(m, n) /\ Len(n) < Len(m) /\ t.kids[n][k] = m[Len(n) + 1]
           /\ \/ t.kids[n][k] \in WildSegs /\ m = Append(n, t.kids[n][k])
              \/ /\ t.kids[n][k] \notin WildSegs
                 /\ t.kids[n][k] \in VarSegs \/ t.kids[n][k] = p[Len(n) + 1]
                 /\ m \in Fitting(t, Append(n, t.kids[n][k]), p)
<1> DEFINE x == m[Len(n) + 1]
           c == Append(n, x)
<1>1. /\ n \in Seq(Segments) /\ m \in NodesOf(t) /\ m \in Seq(Segments) /\ Listed(t)
      /\ Len(n) \in Nat /\ Len(m) \in Nat /\ Len(p) \in Nat
  BY ShapeOf, LenProperties DEF Fitting, Trees
<1>2. Below(m, n) /\ FitsAfter(Len(n), m, p)
  BY DEF Fitting
<1>3. Len(n) < Len(m)
  BY <1>1, <1>2 DEF Below, FitsAfter
<1>4. x \in Segments
  <2>1. Len(n) + 1 \in 1 .. Len(m)
    BY <1>1, <1>3
  <2> QED BY <1>1, <2>1, ElementOfSeq
<1>5. /\ c \in Seq(Segments) /\ Len(c) = Len(n) + 1 /\ Below(m, c)
      /\ Len(m) = Len(n) + 1 => m = c
  BY <1>1, <1>2, <1>3, <1>4, BelowChild
<1>6. c \in NodesOf(t)
  BY <1>1, <1>5, NodesAbove
<1>7. PICK k \in DOMAIN t.kids[n] : t.kids[n][k] = x
  <2>1. x \in Elems(t.kids[n])
    BY <1>1, <1>4, <1>6 DEF Listed
  <2> QED BY <2>1 DEF Elems
<1>8. Len(n) + 1 \in Len(n) + 1 .. Len(m)
  BY <1>1, <1>3
<1> HIDE DEF x
<1>9. x \in WildSegs => m = c
  BY <1>1, <1>2, <1>5, <1>8 DEF FitsAfter, x
<1>10. x \notin WildSegs => (x \in VarSegs \/ x = p[Len(n) + 1]) /\ m \in Fitting(t, c, p)
  <2> SUFFICES ASSUME x \notin WildSegs PROVE (x \in VarSegs \/ x = p[Len(n) + 1]) /\ m \in Fitting(t, c, p)
    OBVIOUS
  <2>1. x \in VarSegs \/ x = p[Len(n) + 1]
    BY <1>2, <1>8 DEF FitsAfter, x
  <2>2. \A i \in Len(n) + 1 + 1 .. Len(m) : i \in Len(n) + 1 .. Len(m)
    BY <1>1
  <2>3. Len(m) < Len(p) => Len(n) + 1 < Len(m)
    <3> SUFFICES ASSUME Len(m) < Len(p), Len(m) = Len(n) + 1 PROVE FALSE
      BY <1>1, <1>3
    <3> QED BY <1>2 DEF FitsAfter, x
  <2>4. FitsAfter(Len(n) + 1, m, p)
    BY <1>2, <2>2, <2>3 DEF FitsAfter
  <2> HIDE DEF c
  <2> QED BY <1>1, <1>5, <2>1, <2>4 DEF Fitting
<1> QED BY <1>2, <1>3, <1>7, <1>9, <1>10 DEF x

LEMMA MatchAtFound ==
  ASSUME NEW Runs, NEW t \in Trees(Runs), NEW n \in NodesOf(t), NEW s \in Segments,
         NEW rest \in [NodesOf(t) -> Matches(t)], Stops(t, n, s, rest) # {}
  PROVE  LET k == Least(Stops(t, n, s, rest))
             child == t.kids[n][k]
             sub == rest[Append(n, child)]
             r == MatchAt(t, n, s, rest)
         IN  /\ k \in Stops(t, n, s, rest) /\ \A j \in Stops(t, n, s, rest) : k <= j
             /\ child \in WildSegs => r.found /\ r.node = Append(n, child)
             /\ child \notin WildSegs => /\ (child \in VarSegs \/ child = s) /\ sub.found
                                         /\ r.found /\ r.node = sub.node
<1> DEFINE stops == Stops(t, n, s, rest)
           k == Least(stops)
           child == t.kids[n][k]
           sub == rest[Append(n, child)]
           r == MatchAt(t, n, s, rest)
<1>1. k \in stops /\ \A j \in stops : k <= j
  BY StopsAt
<1>2. k \in DOMAIN t.kids[n] /\ (child \in WildSegs \/ Enters(child, s, sub))
  BY <1>1 DEF Stops
<1>3. Append(n, child) \in NodesOf(t)
  BY <1>2, ChildrenAreNodes
<1>4. r = IF child \in WildSegs THEN [node |-> Append(n, child), vars |-> <<>>, found |-> TRUE]
          ELSE IF child \in VarSegs THEN [sub EXCEPT !.vars = Bind([node |-> Append(n, child), value |-> s], @)]
          ELSE sub
  BY MatchAtCases
<1>5. sub \in Matches(t)
  BY <1>3
<1> HIDE DEF stops, k, child, sub, r
<1>6. CASE child \in WildSegs
  <2>1. r.found /\ r.node = Append(n, child)
    BY <1>4, <1>6
  <2> QED BY <1>1, <1>6, <2>1 DEF stops, k, child, sub, r
<1>7. CASE child \notin WildSegs
  <2>1. (child \in VarSegs \/ child = s) /\ sub.found
    BY <1>2, <1>7 DEF Enters
  <2> DEFINE v == Bind([node |-> Append(n, child), value |-> s], sub.vars)
  <2>2. r = IF child \in VarSegs THEN [sub EXCEPT !.vars = v] ELSE sub
    BY <1>4, <1>7
  <2> HIDE DEF v
  <2>3. r.found = sub.found /\ r.node = sub.node
    BY <1>5, <2>2 DEF Matches
  <2>4. r.found
    BY <2>1, <2>3
  <2> QED BY <1>1, <1>7, <2>1, <2>3, <2>4 DEF stops, k, child, sub, r
<1> QED BY <1>6, <1>7

LEMMA AheadAt ==
  ASSUME NEW t, NEW n \in NodesOf(t), NEW k \in DOMAIN t.kids[n], NEW l \in DOMAIN t.kids[n], k < l,
         NEW a, NEW b, Below(a, n), Below(b, n), Len(n) < Len(a), Len(n) < Len(b),
         a[Len(n) + 1] = t.kids[n][k], b[Len(n) + 1] = t.kids[n][l]
  PROVE  Ahead(t, a, b)
BY DEF Ahead

(* If the recursion is right about the children, the loop is about the node. *)
LEMMA MatchAtRight ==
  ASSUME NEW Runs, NEW t \in Trees(Runs), NEW n \in NodesOf(t), NEW p \in Seq(Segments), Len(n) < Len(p),
         NEW rest \in [NodesOf(t) -> Matches(t)],
         \A c \in NodesOf(t) : Len(c) = Len(n) + 1 => Right(t, c, p, rest[c])
  PROVE  Right(t, n, p, MatchAt(t, n, p[Len(n) + 1], rest))
<1> DEFINE s == p[Len(n) + 1]
           K == t.kids[n]
           stops == Stops(t, n, s, rest)
           r == MatchAt(t, n, s, rest)
<1>1. n \in Seq(Segments) /\ Len(n) \in Nat /\ Len(p) \in Nat
  BY ShapeOf, LenProperties DEF Trees
<1>2. s \in Segments
  <2>1. Len(n) + 1 \in 1 .. Len(p)
    BY <1>1
  <2> QED BY <2>1, ElementOfSeq
<1>3. \A k \in DOMAIN K : /\ K[k] \in Segments /\ Append(n, K[k]) \in NodesOf(t)
                          /\ Len(Append(n, K[k])) = Len(n) + 1
                          /\ Right(t, Append(n, K[k]), p, rest[Append(n, K[k])])
  <2> SUFFICES ASSUME NEW k \in DOMAIN K
               PROVE  /\ K[k] \in Segments /\ Append(n, K[k]) \in NodesOf(t)
                      /\ Len(Append(n, K[k])) = Len(n) + 1
                      /\ Right(t, Append(n, K[k]), p, rest[Append(n, K[k])])
    OBVIOUS
  <2>1. K[k] \in Segments /\ Append(n, K[k]) \in NodesOf(t)
    BY ChildrenAreNodes
  <2>2. Len(Append(n, K[k])) = Len(n) + 1
    BY <1>1, <2>1, BelowChild
  <2> QED BY <2>1, <2>2
<1>4. ASSUME NEW m \in Fitting(t, n, p)
      PROVE  \E k \in stops :
               /\ k \in DOMAIN K /\ Below(m, n) /\ Len(n) < Len(m) /\ K[k] = m[Len(n) + 1]
               /\ \/ K[k] \in WildSegs /\ m = Append(n, K[k])
                  \/ K[k] \notin WildSegs /\ m \in Fitting(t, Append(n, K[k]), p)
  <2>1. PICK k \in DOMAIN K :
               /\ Below(m, n) /\ Len(n) < Len(m) /\ K[k] = m[Len(n) + 1]
               /\ \/ K[k] \in WildSegs /\ m = Append(n, K[k])
                  \/ K[k] \notin WildSegs /\ (K[k] \in VarSegs \/ K[k] = s) /\ m \in Fitting(t, Append(n, K[k]), p)
    BY FittingVia
  <2>2. K[k] \notin WildSegs => Enters(K[k], s, rest[Append(n, K[k])])
    <3> SUFFICES ASSUME K[k] \notin WildSegs PROVE Enters(K[k], s, rest[Append(n, K[k])])
      OBVIOUS
    <3>1. rest[Append(n, K[k])].found
      BY <1>3, <2>1 DEF Right
    <3> QED BY <2>1, <3>1 DEF Enters
  <2>3. k \in stops
    BY <2>2 DEF Stops
  <2> QED BY <2>1, <2>3
<1>5. CASE stops = {}
  <2>1. r = NoMatch
    BY <1>5, MatchAtCases
  <2>2. ~r.found
    BY <2>1 DEF NoMatch
  <2> HIDE DEF stops, r
  <2>3. Fitting(t, n, p) = {}
    BY <1>4, <1>5
  <2> QED BY <2>2, <2>3 DEF Right, r
<1>6. CASE stops # {}
  <2> DEFINE k == Least(stops)
             x == K[k]
             c == Append(n, x)
             sub == rest[c]
  <2>1. /\ k \in stops /\ \A j \in stops : k <= j
        /\ x \in WildSegs => r.found /\ r.node = c
        /\ x \notin WildSegs => (x \in VarSegs \/ x = s) /\ sub.found /\ r.found /\ r.node = sub.node
    BY <1>2, <1>6, MatchAtFound
  <2>2. k \in DOMAIN K /\ stops \subseteq DOMAIN K /\ stops \in SUBSET Nat
    BY <2>1, StopsAt DEF Stops
  <2>3. x \in Segments /\ c \in NodesOf(t) /\ Right(t, c, p, sub)
    BY <1>3, <2>2
  <2>4. Below(c, n) /\ Len(c) = Len(n) + 1 /\ c[Len(n) + 1] = x
    BY <1>1, <2>3, BelowChild
  <2>5. x \in WildSegs => c \in Fitting(t, n, p)
    BY <2>2, FittingIsWild
  <2>6. \A m \in Fitting(t, c, p) :
          /\ x \notin WildSegs /\ (x \in VarSegs \/ x = s) => m \in Fitting(t, n, p)
          /\ Below(m, n) /\ Len(n) < Len(m) /\ m[Len(n) + 1] = x
    <3> SUFFICES ASSUME NEW m \in Fitting(t, c, p)
                 PROVE  /\ x \notin WildSegs /\ (x \in VarSegs \/ x = s) => m \in Fitting(t, n, p)
                        /\ Below(m, n) /\ Len(n) < Len(m) /\ m[Len(n) + 1] = x
      OBVIOUS
    <3>1. x \notin WildSegs /\ (x \in VarSegs \/ x = s) => m \in Fitting(t, n, p)
      BY <2>2, FittingFrom
    <3>2. m \in Seq(Segments) /\ Below(m, c)
      BY ShapeOf DEF Fitting, Trees
    <3> QED BY <1>1, <2>3, <3>1, <3>2, BelowChild
  <2>7. ASSUME NEW m \in Fitting(t, n, p), NEW a, Below(a, n), Len(n) < Len(a), a[Len(n) + 1] = x
        PROVE  Ahead(t, a, m) \/ (IF x \in WildSegs THEN m = c ELSE m \in Fitting(t, c, p))
    <3>1. PICK j \in stops :
               /\ j \in DOMAIN K /\ Below(m, n) /\ Len(n) < Len(m) /\ K[j] = m[Len(n) + 1]
               /\ \/ K[j] \in WildSegs /\ m = Append(n, K[j])
                  \/ K[j] \notin WildSegs /\ m \in Fitting(t, Append(n, K[j]), p)
      BY <1>4
    <3>2. k <= j /\ k \in Nat /\ j \in Nat
      BY <2>1, <2>2
    <3>3. CASE j = k
      BY <3>1, <3>3
    <3>4. CASE k < j
      BY <2>2, <2>7, <3>1, <3>4, AheadAt
    <3> QED BY <3>2, <3>3, <3>4
  <2> HIDE DEF stops, k, x, c, sub, r
  <2>8. CASE x \in WildSegs
    <3>1. r.found /\ r.node = c /\ c \in Fitting(t, n, p)
      BY <2>1, <2>5, <2>8
    <3>2. Len(n) < Len(c)
      BY <1>1, <2>4
    <3>3. \A m \in Fitting(t, n, p) \ {c} : Ahead(t, c, m)
      BY <2>4, <2>7, <2>8, <3>2
    <3> QED BY <3>1, <3>3 DEF Right, r
  <2>9. CASE x \notin WildSegs
    <3>1. (x \in VarSegs \/ x = s) /\ sub.found /\ r.found /\ r.node = sub.node
      BY <2>1, <2>9
    <3>2. sub.node \in Fitting(t, c, p) /\ \A m \in Fitting(t, c, p) \ {sub.node} : Ahead(t, sub.node, m)
      BY <2>3, <3>1 DEF Right
    <3>3. sub.node \in Fitting(t, n, p) /\ Below(sub.node, n) /\ Len(n) < Len(sub.node) /\ sub.node[Len(n) + 1] = x
      BY <2>6, <2>9, <3>1, <3>2
    <3>4. \A m \in Fitting(t, n, p) \ {sub.node} : Ahead(t, sub.node, m)
      BY <2>7, <2>9, <3>2, <3>3
    <3> QED BY <3>1, <3>3, <3>4 DEF Right, r
  <2> QED BY <2>8, <2>9
<1> QED BY <1>5, <1>6

(* A child at which the loop stops, and what it makes of it.                 *)
Stop(child, n, s, rest) == child \in WildSegs \/ Enters(child, s, rest[Append(n, child)])

Via(child, n, s, rest) ==
  LET sub == rest[Append(n, child)] IN
  IF child \in WildSegs THEN [node |-> Append(n, child), vars |-> <<>>, found |-> TRUE]
  ELSE IF child \in VarSegs THEN [sub EXCEPT !.vars = Bind([node |-> Append(n, child), value |-> s], @)]
  ELSE sub

LEMMA StopsFirst ==
  ASSUME NEW Runs, NEW t \in Trees(Runs), NEW n \in NodesOf(t), NEW s, NEW rest, NEW k \in DOMAIN t.kids[n],
         Stop(t.kids[n][k], n, s, rest), \A j \in DOMAIN t.kids[n] : j < k => ~Stop(t.kids[n][j], n, s, rest)
  PROVE  MatchAt(t, n, s, rest) = Via(t.kids[n][k], n, s, rest)
<1> DEFINE stops == Stops(t, n, s, rest)
<1>1. t.kids[n] \in Seq(Segments)
  BY ChildrenAreNodes
<1>2. DOMAIN t.kids[n] = 1 .. Len(t.kids[n]) /\ Len(t.kids[n]) \in Nat
  BY <1>1, LenProperties
<1>3. stops = {j \in DOMAIN t.kids[n] : Stop(t.kids[n][j], n, s, rest)}
  BY DEF Stops, Stop
<1>4. stops \in SUBSET Nat /\ k \in stops
  BY <1>2, <1>3
<1>5. \A j \in stops : k <= j
  BY <1>2, <1>3
<1> HIDE DEF stops
<1>6. Least(stops) = k
  BY <1>4, <1>5, LeastIs
<1>7. stops # {}
  BY <1>4
<1> QED BY <1>6, <1>7, MatchAtCases DEF Via, stops

LEMMA StopsNowhere ==
  ASSUME NEW t, NEW n, NEW s, NEW rest, \A j \in DOMAIN t.kids[n] : ~Stop(t.kids[n][j], n, s, rest)
  PROVE  MatchAt(t, n, s, rest) = NoMatch
<1>1. Stops(t, n, s, rest) = {}
  BY DEF Stops, Stop
<1> QED BY <1>1, MatchAtCases

LEMMA FirstStop ==
  ASSUME NEW Runs, NEW t \in Trees(Runs), NEW n \in NodesOf(t), NEW s, NEW rest
  PROVE  \/ \A j \in DOMAIN t.kids[n] : ~Stop(t.kids[n][j], n, s, rest)
         \/ \E k \in DOMAIN t.kids[n] : /\ Stop(t.kids[n][k], n, s, rest)
                                        /\ \A j \in DOMAIN t.kids[n] : j < k => ~Stop(t.kids[n][j], n, s, rest)
<1> DEFINE stops == Stops(t, n, s, rest)
           k == Least(stops)
<1>1. stops = {j \in DOMAIN t.kids[n] : Stop(t.kids[n][j], n, s, rest)}
  BY DEF Stops, Stop
<1>2. stops \in SUBSET Nat /\ (stops # {} => k \in stops /\ \A j \in stops : k <= j)
  BY StopsAt
<1> HIDE DEF stops, k
<1>3. CASE stops = {}
  BY <1>1, <1>3
<1>4. CASE stops # {}
  <2>1. t.kids[n] \in Seq(Segments)
    BY ShapeOf DEF Trees
  <2>2. DOMAIN t.kids[n] = 1 .. Len(t.kids[n]) /\ Len(t.kids[n]) \in Nat
    BY <2>1, LenProperties
  <2>3. k \in stops /\ k \in DOMAIN t.kids[n] /\ Stop(t.kids[n][k], n, s, rest)
    BY <1>1, <1>2, <1>4
  <2>4. \A j \in DOMAIN t.kids[n] : j < k => j \notin stops
    BY <1>2, <1>4, <2>2, <2>3
  <2>5. \A j \in DOMAIN t.kids[n] : j < k => ~Stop(t.kids[n][j], n, s, rest)
    BY <1>1, <2>4
  <2> QED BY <2>3, <2>5
<1> QED BY <1>3, <1>4

LEMMA ViaType ==
  ASSUME NEW t, NEW child, NEW n, NEW s, NEW rest, rest[Append(n, child)] \in Matches(t)
  PROVE  /\ child \in WildSegs => Via(child, n, s, rest).found /\ Via(child, n, s, rest).node = Append(n, child)
         /\ child \notin WildSegs => /\ Via(child, n, s, rest).found = rest[Append(n, child)].found
                                     /\ Via(child, n, s, rest).node = rest[Append(n, child)].node
<1> DEFINE sub == rest[Append(n, child)]
           v == Bind([node |-> Append(n, child), value |-> s], sub.vars)
           r == Via(child, n, s, rest)
<1>1. r = IF child \in WildSegs THEN [node |-> Append(n, child), vars |-> <<>>, found |-> TRUE]
          ELSE IF child \in VarSegs THEN [sub EXCEPT !.vars = v] ELSE sub
  BY DEF Via
<1> HIDE DEF v, r, sub
<1>2. sub \in Matches(t)
  BY DEF sub
<1>3. CASE child \in WildSegs
  <2>1. r.found /\ r.node = Append(n, child)
    BY <1>1, <1>3
  <2> QED BY <1>3, <2>1 DEF r
<1>4. CASE child \notin WildSegs
  <2>1. r = [sub EXCEPT !.vars = v] \/ r = sub
    BY <1>1, <1>4
  <2>2. r.found = sub.found /\ r.node = sub.node
    BY <1>2, <2>1 DEF Matches
  <2> QED BY <1>4, <2>2 DEF r, sub
<1> QED BY <1>3, <1>4

LEMMA ViaNode ==
  ASSUME NEW t, NEW child, NEW n, NEW s, NEW rest, rest[Append(n, child)] \in Matches(t)
  PROVE  Via(child, n, s, rest).node =
           IF child \in WildSegs THEN Append(n, child) ELSE rest[Append(n, child)].node
<1>1. CASE child \in WildSegs
  <2>1. Via(child, n, s, rest) = [node |-> Append(n, child), vars |-> <<>>, found |-> TRUE]
    BY <1>1 DEF Via
  <2> QED BY <1>1, <2>1
<1>2. CASE child \notin WildSegs
  <2>1. Via(child, n, s, rest).node = rest[Append(n, child)].node
    BY <1>2, ViaType
  <2> QED BY <1>2, <2>1
<1> QED BY <1>1, <1>2

LEMMA ViaVars ==
  ASSUME NEW t, NEW child, NEW n, NEW s, NEW rest, rest[Append(n, child)] \in Matches(t)
  PROVE  Via(child, n, s, rest).vars =
           IF child \in WildSegs THEN <<>>
           ELSE IF child \in VarSegs THEN Bind([node |-> Append(n, child), value |-> s], rest[Append(n, child)].vars)
           ELSE rest[Append(n, child)].vars
<1> DEFINE sub == rest[Append(n, child)]
           v == Bind([node |-> Append(n, child), value |-> s], sub.vars)
           r == Via(child, n, s, rest)
<1>1. r = IF child \in WildSegs THEN [node |-> Append(n, child), vars |-> <<>>, found |-> TRUE]
          ELSE IF child \in VarSegs THEN [sub EXCEPT !.vars = v] ELSE sub
  BY DEF Via
<1>2. sub \in Matches(t)
  OBVIOUS
<1> HIDE DEF v, r, sub
<1>3. r.vars = IF child \in WildSegs THEN <<>> ELSE IF child \in VarSegs THEN v ELSE sub.vars
  BY <1>1, <1>2 DEF Matches
<1> QED BY <1>3 DEF r, v, sub

(* The variables of m after position b, and the bindings that they get from  *)
(* p, in their order.                                                        *)
VarsAfter(b, m) == {i \in b + 1 .. Len(m) : m[i] \in VarSegs}
Rank(S, i) == Cardinality({j \in S : j <= i})

Binds(b, m, p, vars) ==
  /\ Len(vars) = Cardinality(VarsAfter(b, m))
  /\ \A i \in VarsAfter(b, m) : vars[Rank(VarsAfter(b, m), i)] = [node |-> SubSeq(m, 1, i), value |-> p[i]]

Bound(n, p, r) == r.found => Binds(Len(n), r.node, p, r.vars)

LEMMA NothingBound ==
  ASSUME NEW b, NEW m, NEW p, VarsAfter(b, m) = {}
  PROVE  Binds(b, m, p, <<>>)
BY FS_EmptySet, EmptySeq DEF Binds

LEMMA BindsFront ==
  ASSUME NEW m \in Seq(Segments), NEW b \in Nat, b < Len(m), NEW p, NEW s \in Segments, p[b + 1] = s,
         NEW vars \in Seq(Bindings), Binds(b + 1, m, p, vars)
  PROVE  /\ m[b + 1] \notin VarSegs => Binds(b, m, p, vars)
         /\ m[b + 1] \in VarSegs => Binds(b, m, p, Bind([node |-> SubSeq(m, 1, b + 1), value |-> s], vars))
<1> DEFINE old == VarsAfter(b + 1, m)
           new == VarsAfter(b, m)
           e == [node |-> SubSeq(m, 1, b + 1), value |-> s]
<1>1. Len(m) \in Nat /\ b + 1 \in 1 .. Len(m) /\ m[b + 1] \in Segments
  <2>1. Len(m) \in Nat
    BY LenProperties
  <2>2. b + 1 \in 1 .. Len(m)
    BY <2>1
  <2> QED BY <2>1, <2>2, ElementOfSeq
<1>2. IsFiniteSet(old) /\ \A i \in old : i \in Int /\ b + 2 <= i
  <2>1. IsFiniteSet(b + 1 + 1 .. Len(m))
    BY <1>1, FS_Interval
  <2>2. old \subseteq b + 1 + 1 .. Len(m)
    BY DEF VarsAfter
  <2> QED BY <1>1, <2>1, <2>2, FS_Subset
<1>3. new = IF m[b + 1] \in VarSegs THEN old \cup {b + 1} ELSE old
  <2>1. \A i : i \in b + 1 .. Len(m) <=> i \in b + 1 + 1 .. Len(m) \/ i = b + 1
    BY <1>1
  <2> QED BY <2>1 DEF VarsAfter
<1>4. Len(vars) = Cardinality(old) /\ \A i \in old : vars[Rank(old, i)] = [node |-> SubSeq(m, 1, i), value |-> p[i]]
  BY DEF Binds
<1>5. CASE m[b + 1] \notin VarSegs
  BY <1>3, <1>4, <1>5 DEF Binds
<1>6. CASE m[b + 1] \in VarSegs
  <2> DEFINE L == Bind(e, vars)
  <2>1. Len(vars) \in Nat /\ Len(L) = 1 + Len(vars) /\ L[1] = e /\ \A i \in 1 .. Len(vars) : L[i + 1] = vars[i]
    <3>1. e \in Bindings
      <4>1. SubSeq(m, 1, b + 1) \in Seq(Segments)
        BY <1>1, Prefixes
      <4> QED BY <4>1 DEF Bindings
    <3> HIDE DEF e
    <3>2. PICK M \in Seq(Bindings) : M = <<e>> /\ Len(M) = 1 /\ M[1] = e
      <4>1. <<e>> \in Seq(Bindings) /\ Len(<<e>>) = 1 /\ <<e>>[1] = e
        BY <3>1
      <4> QED BY <4>1
    <3>3. /\ Len(M \o vars) = 1 + Len(vars)
          /\ \A i \in 1 .. 1 + Len(vars) : (M \o vars)[i] = IF i <= 1 THEN M[i] ELSE vars[i - 1]
      BY <3>2, ConcatProperties
    <3>4. L = M \o vars /\ Len(vars) \in Nat
      BY <3>2, LenProperties DEF Bind
    <3> HIDE DEF L
    <3>5. Len(L) = 1 + Len(vars) /\ \A i \in 1 .. 1 + Len(vars) : L[i] = IF i <= 1 THEN M[i] ELSE vars[i - 1]
      BY <3>3, <3>4
    <3>6. \A i \in 1 .. Len(vars) : i + 1 \in 1 .. 1 + Len(vars) /\ ~(i + 1 <= 1) /\ (i + 1) - 1 = i
      BY <3>4
    <3>7. 1 \in 1 .. 1 + Len(vars)
      BY <3>4
    <3> QED BY <3>2, <3>4, <3>5, <3>6, <3>7
  <2> HIDE DEF old, new, L
  <2>2. new = old \cup {b + 1} /\ b + 1 \notin old
    BY <1>2, <1>3, <1>6
  <2>3. Cardinality(new) = Cardinality(old) + 1
    BY <1>2, <2>2, FS_AddElement
  <2>4. Rank(new, b + 1) = 1
    <3>1. {j \in new : j <= b + 1} = {b + 1}
      BY <1>2, <2>2
    <3> QED BY <3>1, FS_Singleton DEF Rank
  <2>5. ASSUME NEW i \in old
        PROVE  Rank(new, i) = Rank(old, i) + 1 /\ Rank(old, i) \in 1 .. Len(vars)
    <3> DEFINE upTo == {j \in old : j <= i}
    <3>1. IsFiniteSet(upTo) /\ upTo \subseteq old /\ i \in upTo /\ b + 1 \notin upTo
      <4>1. upTo \subseteq old /\ i \in upTo /\ b + 1 \notin upTo
        BY <1>2, <2>2
      <4> QED BY <1>2, <4>1, FS_Subset
    <3>2. {j \in new : j <= i} = upTo \cup {b + 1}
      BY <1>2, <2>2
    <3> HIDE DEF upTo
    <3>3. Cardinality(upTo \cup {b + 1}) = Cardinality(upTo) + 1
      BY <3>1, FS_AddElement
    <3>4. Cardinality(upTo) \in Nat /\ Cardinality(upTo) <= Cardinality(old) /\ Cardinality(upTo) # 0
      BY <1>2, <3>1, FS_CardinalityType, FS_Subset, FS_EmptySet
    <3>5. Cardinality(upTo) \in 1 .. Len(vars)
      BY <1>4, <2>1, <3>4
    <3> QED BY <3>2, <3>3, <3>5 DEF Rank, upTo
  <2>6. Len(L) = Cardinality(new)
    BY <1>4, <2>1, <2>3
  <2>7. \A i \in new : L[Rank(new, i)] = [node |-> SubSeq(m, 1, i), value |-> p[i]]
    <3>1. L[Rank(new, b + 1)] = [node |-> SubSeq(m, 1, b + 1), value |-> p[b + 1]]
      BY <2>1, <2>4 DEF e
    <3>2. \A i \in old : L[Rank(new, i)] = vars[Rank(old, i)]
      BY <2>1, <2>5
    <3> QED BY <1>4, <2>2, <3>1, <3>2
  <2> QED BY <1>6, <2>6, <2>7 DEF Binds, new, L, e
<1> QED BY <1>5, <1>6

(* The loop binds a variable when its subtree has matched.                   *)
LEMMA MatchAtBound ==
  ASSUME NEW Runs, NEW t \in Trees(Runs), NEW n \in NodesOf(t), NEW p \in Seq(Segments), Len(n) < Len(p),
         NEW rest \in [NodesOf(t) -> Matches(t)],
         \A c \in NodesOf(t) : Len(c) = Len(n) + 1 => Right(t, c, p, rest[c]) /\ Bound(c, p, rest[c])
  PROVE  Bound(n, p, MatchAt(t, n, p[Len(n) + 1], rest))
<1> DEFINE s == p[Len(n) + 1]
           K == t.kids[n]
           r == MatchAt(t, n, s, rest)
<1>1. n \in Seq(Segments) /\ Len(n) \in Nat /\ Len(p) \in Nat
  BY ShapeOf, LenProperties DEF Trees
<1>2. s \in Segments
  <2>1. Len(n) + 1 \in 1 .. Len(p)
    BY <1>1
  <2> QED BY <2>1, ElementOfSeq
<1>3. CASE \A j \in DOMAIN K : ~Stop(K[j], n, s, rest)
  <2>1. r = NoMatch
    BY <1>3, StopsNowhere
  <2>2. ~r.found
    BY <2>1 DEF NoMatch
  <2> QED BY <2>2 DEF Bound
<1>4. ASSUME NEW k \in DOMAIN K, Stop(K[k], n, s, rest), \A j \in DOMAIN K : j < k => ~Stop(K[j], n, s, rest)
      PROVE  Bound(n, p, r)
  <2> DEFINE x == K[k]
             c == Append(n, x)
             sub == rest[c]
  <2>1. r = Via(x, n, s, rest)
    BY <1>4, StopsFirst
  <2>2. x \in Segments /\ c \in NodesOf(t)
    BY ChildrenAreNodes
  <2>3. Len(c) = Len(n) + 1 /\ c[Len(n) + 1] = x
    BY <1>1, <2>2, BelowChild
  <2>4. sub \in Matches(t) /\ Right(t, c, p, sub) /\ Bound(c, p, sub)
    BY <2>2, <2>3
  <2>5. r.node = IF x \in WildSegs THEN c ELSE sub.node
    <3>1. rest[Append(n, x)] \in Matches(t)
      BY <2>4
    <3> HIDE DEF r, s, x
    <3>2. Via(x, n, s, rest).node = IF x \in WildSegs THEN Append(n, x) ELSE rest[Append(n, x)].node
      BY <3>1, ViaNode
    <3> QED BY <2>1, <3>2
  <2>6. r.vars = IF x \in WildSegs THEN <<>>
                 ELSE IF x \in VarSegs THEN Bind([node |-> c, value |-> s], sub.vars) ELSE sub.vars
    BY <2>1, <2>4, ViaVars
  <2>7. x \notin WildSegs => sub.found
    BY <1>4 DEF Stop, Enters
  <2> HIDE DEF x, c, sub, r, s
  <2>8. CASE x \in WildSegs
    <3>1. VarsAfter(Len(n), c) = {}
      <4>1. \A i \in Len(n) + 1 .. Len(c) : i = Len(n) + 1
        BY <1>1, <2>3
      <4>2. x \notin VarSegs
        BY <2>8, SegmentsAssumption
      <4> QED BY <2>3, <4>1, <4>2 DEF VarsAfter
    <3>2. Binds(Len(n), c, p, <<>>)
      BY <3>1, NothingBound
    <3> QED BY <2>5, <2>8, <2>6, <3>2 DEF Bound
  <2>9. CASE x \notin WildSegs
    <3>1. sub.node \in Fitting(t, c, p) /\ Binds(Len(n) + 1, sub.node, p, sub.vars) /\ sub.vars \in Seq(Bindings)
      BY <2>3, <2>4, <2>7, <2>9 DEF Right, Bound, Matches
    <3>2. sub.node \in Seq(Segments) /\ Below(sub.node, c)
      BY <3>1, ShapeOf DEF Fitting, Trees
    <3>3. Len(n) < Len(sub.node) /\ sub.node[Len(n) + 1] = x
      BY <1>1, <2>2, <3>2, BelowChild DEF c
    <3>4. p[Len(n) + 1] = s /\ SubSeq(sub.node, 1, Len(n) + 1) = c
      <4>1. SubSeq(sub.node, 1, Len(c)) = c
        BY <2>2, <3>2, ShapeOf, BelowIsPrefix DEF Trees
      <4> QED BY <2>3, <4>1 DEF s
    <3>5. /\ x \notin VarSegs => Binds(Len(n), sub.node, p, sub.vars)
          /\ x \in VarSegs => Binds(Len(n), sub.node, p, Bind([node |-> c, value |-> s], sub.vars))
      BY <1>1, <1>2, <3>1, <3>2, <3>3, <3>4, BindsFront
    <3>6. Binds(Len(n), sub.node, p, r.vars)
      BY <2>9, <2>6, <3>5
    <3> QED BY <2>5, <2>9, <3>6 DEF Bound
  <2> QED BY <2>8, <2>9
<1> QED BY <1>3, <1>4, FirstStop

(* match_route finds a node exactly when one fits, the one ahead of all, and *)
(* binds the variables on the way to it.                                     *)
LEMMA MatchIsRight ==
  ASSUME NEW Runs, NEW t \in Trees(Runs), NEW path \in Seq(Segments \cup {Empty})
  PROVE  Right(t, <<>>, Significant(path), Match(t, path)) /\ Bound(<<>>, Significant(path), Match(t, path))
<1> DEFINE p == Significant(path)
           n == Len(p)
           N == NodesOf(t)
<1>1. PICK g \in [0 .. n -> [N -> Matches(t)]] :
           /\ g[0] = AtEnd(t)
           /\ \A left \in 1 .. n : g[left] = Level(t, p[n + 1 - left], g[left - 1])
           /\ Match(t, path) = g[n][<<>>]
  BY MatchLevels
<1>2. p \in Seq(Segments) /\ n \in Nat
  BY SegmentsOfPattern, LenProperties
<1>3. /\ \A m \in N : m \in Seq(Segments) /\ Len(m) \in Nat
      /\ <<>> \in N /\ Len(<<>>) = 0
  BY ShapeOf, LenProperties, EmptySeq DEF Trees
<1> HIDE DEF p, N
<1> DEFINE Good == {left \in 0 .. n : \A m \in N : Len(m) = n - left => Right(t, m, p, g[left][m]) /\ Bound(m, p, g[left][m])}
<1>4. 0 \in Good
  <2> SUFFICES ASSUME NEW m \in N, Len(m) = n PROVE Right(t, m, p, g[0][m]) /\ Bound(m, p, g[0][m])
    <3>1. 0 \in 0 .. n /\ n - 0 = n
      BY <1>2
    <3> QED BY <3>1
  <2>1. g[0][m] = [node |-> m, vars |-> <<>>, found |-> TRUE]
    BY <1>1 DEF AtEnd, N
  <2>2. g[0][m].found /\ g[0][m].node = m /\ g[0][m].vars = <<>>
    BY <2>1
  <2>3. Below(m, m)
    BY <1>3 DEF Below
  <2>4. FitsAfter(Len(m), m, p)
    <3>1. Len(m) <= Len(p) /\ ~(Len(m) < Len(p)) /\ Len(m) + 1 .. Len(m) = {}
      BY <1>2, <1>3
    <3> QED BY <3>1 DEF FitsAfter
  <2>5. \A l \in Fitting(t, m, p) : l = m
    <3> SUFFICES ASSUME NEW l \in Fitting(t, m, p) PROVE l = m
      OBVIOUS
    <3>1. l \in N /\ Len(m) <= Len(l) /\ Len(l) <= Len(p) /\ \A i \in 1 .. Len(m) : l[i] = m[i]
      BY DEF Fitting, Below, FitsAfter, N
    <3>2. Len(l) = Len(m) /\ l \in Seq(Segments) /\ m \in Seq(Segments)
      BY <1>2, <1>3, <3>1
    <3> QED BY <3>1, <3>2, SeqEqual
  <2>6. m \in Fitting(t, m, p)
    BY <2>3, <2>4 DEF Fitting, N
  <2>7. Binds(Len(m), m, p, <<>>)
    <3>1. Len(m) + 1 .. Len(m) = {}
      BY <1>3
    <3> QED BY <3>1, NothingBound DEF VarsAfter
  <2> QED BY <2>2, <2>5, <2>6, <2>7 DEF Right, Bound
<1>5. ASSUME NEW left \in 1 .. n, left - 1 \in Good PROVE left \in Good
  <2> SUFFICES ASSUME NEW m \in N, Len(m) = n - left PROVE Right(t, m, p, g[left][m]) /\ Bound(m, p, g[left][m])
    <3>1. left \in 0 .. n
      BY <1>2
    <3> QED BY <3>1
  <2>1. left - 1 \in 0 .. n /\ n + 1 - left = Len(m) + 1 /\ n - (left - 1) = Len(m) + 1 /\ Len(m) < Len(p)
    BY <1>2
  <2>2. g[left - 1] \in [N -> Matches(t)]
    BY <1>1, <2>1
  <2>3. g[left][m] = MatchAt(t, m, p[Len(m) + 1], g[left - 1])
    <3>1. g[left] = Level(t, p[Len(m) + 1], g[left - 1])
      BY <1>1, <2>1
    <3> QED BY <3>1 DEF Level, N
  <2>4. \A c \in N : Len(c) = Len(m) + 1 => Right(t, c, p, g[left - 1][c]) /\ Bound(c, p, g[left - 1][c])
    BY <1>5, <2>1
  <2>5. Right(t, m, p, g[left][m])
    BY <1>2, <2>1, <2>2, <2>3, <2>4, MatchAtRight DEF N
  <2>6. Bound(m, p, g[left][m])
    BY <1>2, <2>1, <2>2, <2>3, <2>4, MatchAtBound DEF N
  <2> QED BY <2>5, <2>6
<1> HIDE DEF Good
<1>6. 0 .. n \subseteq Good
  BY <1>2, <1>4, <1>5, CountUp
<1>7. n \in Good /\ n - n = 0
  BY <1>2, <1>6
<1>8. Right(t, <<>>, p, g[n][<<>>]) /\ Bound(<<>>, p, g[n][<<>>])
  BY <1>3, <1>7 DEF Good
<1> QED BY <1>1, <1>8 DEF p
-----------------------------------------------------------------------------
(* u is t after a registration: no child moved, and a node may have one more *)
(* in front.                                                                 *)
Extended(t, u) ==
  NodesOf(t) \subseteq NodesOf(u) /\ \A n \in NodesOf(u) : u.kids[n] = KidsIn(t, n) \/ NewChild(t, u, n)

(* The answer changed only to a node that t does not have.                   *)
Local(t, before, after) == after # before => after.found /\ after.node \notin NodesOf(t)

(* Where the children of a node of t are in u.                               *)
LEMMA ChildrenMoved ==
  ASSUME NEW Runs, NEW t \in Trees(Runs), NEW u \in Trees(Runs), Extended(t, u), NEW n \in NodesOf(t)
  PROVE  \E d \in {0, 1} :
           /\ \A i \in DOMAIN t.kids[n] : i + d \in DOMAIN u.kids[n] /\ u.kids[n][i + d] = t.kids[n][i]
           /\ \A k \in DOMAIN u.kids[n] : k <= d => Append(n, u.kids[n][k]) \notin NodesOf(t)
           /\ \A k \in DOMAIN u.kids[n] : k > d => k - d \in DOMAIN t.kids[n] /\ (k - d) + d = k
<1> DEFINE K == t.kids[n]
           L == u.kids[n]
<1>1. K \in Seq(Segments) /\ L \in Seq(Segments) /\ n \in NodesOf(u)
  BY ShapeOf DEF Trees, Extended
<1>2. /\ Len(K) \in Nat /\ DOMAIN K = 1 .. Len(K)
      /\ Len(L) \in Nat /\ DOMAIN L = 1 .. Len(L)
  BY <1>1, LenProperties
<1>3. L = K \/ NewChild(t, u, n)
  BY <1>1 DEF Extended, KidsIn
<1>4. CASE L = K
  <2>1. /\ \A i \in DOMAIN K : i + 0 \in DOMAIN L /\ L[i + 0] = K[i]
        /\ \A k \in DOMAIN L : ~(k <= 0) /\ k - 0 \in DOMAIN K /\ (k - 0) + 0 = k
    <3>1. \A i \in DOMAIN K : i + 0 = i /\ i - 0 = i /\ ~(i <= 0)
      BY <1>2
    <3> QED BY <1>4, <3>1
  <2> QED BY <2>1
<1>5. CASE NewChild(t, u, n)
  <2>1. PICK x \in Segments : Append(n, x) \notin NodesOf(t) /\ L = <<x>> \o K
    BY <1>5 DEF NewChild, KidsIn
  <2>2. <<x>> \in Seq(Segments) /\ Len(<<x>>) = 1 /\ <<x>>[1] = x
    OBVIOUS
  <2>3. PICK M \in Seq(Segments) : M = <<x>>
    BY <2>2
  <2>4. Len(M \o K) = 1 + Len(K) /\ \A i \in 1 .. 1 + Len(K) : (M \o K)[i] = IF i <= 1 THEN M[i] ELSE K[i - 1]
    BY <1>1, <2>2, <2>3, ConcatProperties
  <2>5. L = M \o K /\ M[1] = x
    BY <2>1, <2>2, <2>3
  <2>6. Len(L) = 1 + Len(K) /\ \A i \in 1 .. 1 + Len(K) : L[i] = IF i <= 1 THEN M[i] ELSE K[i - 1]
    BY <2>4, <2>5
  <2>7. L[1] = x
    BY <1>2, <2>5, <2>6
  <2>8. \A i \in 1 .. Len(K) : i + 1 \in 1 .. 1 + Len(K) /\ ~(i + 1 <= 1) /\ (i + 1) - 1 = i
    BY <1>2
  <2> HIDE DEF K, L
  <2>9. \A i \in DOMAIN K : i + 1 \in DOMAIN L /\ L[i + 1] = K[i]
    BY <1>2, <2>6, <2>8
  <2>10. \A k \in DOMAIN L : k <= 1 => Append(n, L[k]) \notin NodesOf(t)
    <3>1. \A k \in DOMAIN L : k <= 1 => k = 1
      BY <1>2
    <3> QED BY <2>1, <2>7, <3>1
  <2>11. \A k \in DOMAIN L : k > 1 => k - 1 \in DOMAIN K /\ (k - 1) + 1 = k
    <3> SUFFICES ASSUME NEW k \in DOMAIN L, k > 1 PROVE k - 1 \in DOMAIN K /\ (k - 1) + 1 = k
      OBVIOUS
    <3>1. k \in 1 .. 1 + Len(K)
      BY <1>2, <2>6
    <3>2. k - 1 \in 1 .. Len(K) /\ (k - 1) + 1 = k
      BY <1>2, <3>1
    <3> QED BY <1>2, <3>2
  <2> QED BY <2>9, <2>10, <2>11 DEF K, L
<1> QED BY <1>3, <1>4, <1>5

(* If a registration changes what the recursion answers for the children     *)
(* only to new nodes, it changes what the loop answers only to new nodes.    *)
LEMMA MatchAtLocal ==
  ASSUME NEW Runs, NEW t \in Trees(Runs), NEW u \in Trees(Runs), Extended(t, u),
         NEW n \in NodesOf(u), NEW s \in Segments,
         NEW before \in [NodesOf(t) -> Matches(t)], NEW after \in [NodesOf(u) -> Matches(u)],
         \A c \in NodesOf(u) : IF c \in NodesOf(t) THEN Local(t, before[c], after[c])
                               ELSE after[c].found => after[c].node \notin NodesOf(t)
  PROVE  IF n \in NodesOf(t) THEN Local(t, MatchAt(t, n, s, before), MatchAt(u, n, s, after))
         ELSE MatchAt(u, n, s, after).found => MatchAt(u, n, s, after).node \notin NodesOf(t)
<1> DEFINE old == MatchAt(t, n, s, before)
           new == MatchAt(u, n, s, after)
           L == u.kids[n]
<1>1. /\ NodesOf(t) \subseteq NodesOf(u) /\ Listed(t) /\ n \in Seq(Segments)
      /\ \A k \in DOMAIN L : L[k] \in Segments /\ Append(n, L[k]) \in NodesOf(u)
  BY ChildrenAreNodes, ShapeOf DEF Trees, Extended
<1>2. ASSUME NEW k \in DOMAIN L, Stop(L[k], n, s, after), Append(n, L[k]) \notin NodesOf(t)
      PROVE  Via(L[k], n, s, after).found /\ Via(L[k], n, s, after).node \notin NodesOf(t)
  <2> DEFINE x == L[k]
             c == Append(n, x)
  <2>1. c \in NodesOf(u) /\ after[c] \in Matches(u) /\ (after[c].found => after[c].node \notin NodesOf(t))
    BY <1>1, <1>2
  <2>2. x \in WildSegs \/ after[c].found
    BY <1>2 DEF Stop, Enters
  <2>3. /\ x \in WildSegs => Via(x, n, s, after).found /\ Via(x, n, s, after).node = c
        /\ x \notin WildSegs => Via(x, n, s, after).found = after[c].found /\ Via(x, n, s, after).node = after[c].node
    BY <2>1, ViaType
  <2> HIDE DEF x, c
  <2>4. Via(x, n, s, after).found /\ Via(x, n, s, after).node \notin NodesOf(t)
    BY <1>2, <2>1, <2>2, <2>3 DEF c, x
  <2> QED BY <2>4 DEF x
<1>3. CASE n \notin NodesOf(t)
  <2>1. \A k \in DOMAIN L : Append(n, L[k]) \notin NodesOf(t)
    BY <1>1, <1>3 DEF Listed
  <2>2. CASE \A j \in DOMAIN L : ~Stop(L[j], n, s, after)
    <3>1. new = NoMatch
      BY <2>2, StopsNowhere
    <3>2. ~new.found
      BY <3>1 DEF NoMatch
    <3> QED BY <1>3, <3>2
  <2>3. ASSUME NEW k \in DOMAIN L, Stop(L[k], n, s, after),
               \A j \in DOMAIN L : j < k => ~Stop(L[j], n, s, after)
        PROVE  new.found => new.node \notin NodesOf(t)
    <3>1. new = Via(L[k], n, s, after)
      BY <2>3, StopsFirst
    <3> QED BY <1>2, <2>1, <2>3, <3>1
  <2> QED BY <1>3, <2>2, <2>3, FirstStop
<1>4. CASE n \in NodesOf(t)
  <2> DEFINE K == t.kids[n]
  <2>1. PICK d \in {0, 1} :
          /\ \A i \in DOMAIN K : i + d \in DOMAIN L /\ L[i + d] = K[i]
          /\ \A k \in DOMAIN L : k <= d => Append(n, L[k]) \notin NodesOf(t)
          /\ \A k \in DOMAIN L : k > d => k - d \in DOMAIN K /\ (k - d) + d = k
    BY <1>4, ChildrenMoved
  <2>2. /\ \A i \in DOMAIN K : i \in Nat /\ K[i] \in Segments /\ Append(n, K[i]) \in NodesOf(t)
        /\ \A k \in DOMAIN L : k \in Nat
    <3>1. K \in Seq(Segments) /\ L \in Seq(Segments)
      BY <1>1, <1>4, ShapeOf DEF Trees
    <3>2. Len(K) \in Nat /\ DOMAIN K = 1 .. Len(K) /\ Len(L) \in Nat /\ DOMAIN L = 1 .. Len(L)
      BY <3>1, LenProperties
    <3>3. \A i \in DOMAIN K : K[i] \in Segments /\ Append(n, K[i]) \in NodesOf(t)
      BY <1>4, ChildrenAreNodes
    <3> QED BY <3>2, <3>3
  <2>3. ASSUME NEW i \in DOMAIN K, Stop(K[i], n, s, before) PROVE Stop(K[i], n, s, after)
    <3>1. before[Append(n, K[i])].found => after[Append(n, K[i])].found
      <4>1. Local(t, before[Append(n, K[i])], after[Append(n, K[i])])
        BY <1>1, <2>2
      <4> QED BY <4>1 DEF Local
    <3> QED BY <2>3, <3>1 DEF Stop, Enters
  <2>4. CASE \A j \in DOMAIN L : ~Stop(L[j], n, s, after)
    <3>1. \A i \in DOMAIN K : ~Stop(K[i], n, s, before)
      BY <2>1, <2>3, <2>4
    <3>2. new = NoMatch /\ old = NoMatch
      BY <2>4, <3>1, StopsNowhere
    <3> QED BY <1>4, <3>2 DEF Local
  <2>5. ASSUME NEW k \in DOMAIN L, Stop(L[k], n, s, after),
               \A j \in DOMAIN L : j < k => ~Stop(L[j], n, s, after)
        PROVE  Local(t, old, new)
    <3>1. new = Via(L[k], n, s, after)
      BY <2>5, StopsFirst
    <3>2. CASE Append(n, L[k]) \notin NodesOf(t)
      BY <1>2, <2>5, <3>1, <3>2 DEF Local
    <3>3. CASE Append(n, L[k]) \in NodesOf(t)
      <4> DEFINE i == k - d
                 x == K[i]
                 c == Append(n, x)
      <4>1. i \in DOMAIN K /\ i + d = k /\ x = L[k]
        <5>1. ~(k <= d)
          BY <2>1, <3>3
        <5>2. k > d
          BY <2>2, <5>1
        <5> QED BY <2>1, <5>2
      <4>2. \A j \in DOMAIN K : j < i => ~Stop(K[j], n, s, before)
        <5> SUFFICES ASSUME NEW j \in DOMAIN K, j < i PROVE ~Stop(K[j], n, s, before)
          OBVIOUS
        <5>1. j + d \in DOMAIN L /\ L[j + d] = K[j]
          BY <2>1
        <5>2. j + d < k
          BY <2>2, <4>1
        <5> QED BY <2>3, <2>5, <5>1, <5>2
      <4>3. c \in NodesOf(t) /\ c \in NodesOf(u) /\ after[c] \in Matches(u) /\ Local(t, before[c], after[c])
        BY <1>1, <2>2, <4>1
      <4> HIDE DEF i, K
      <4>4. CASE Stop(x, n, s, before)
        <5>1. old = Via(x, n, s, before)
          BY <1>4, <4>1, <4>2, <4>4, StopsFirst DEF K
        <5>2. CASE x \in WildSegs \/ after[c] = before[c]
          <6>1. Via(x, n, s, before) = Via(x, n, s, after)
            BY <5>2 DEF Via
          <6> QED BY <3>1, <4>1, <5>1, <6>1 DEF Local
        <5>3. CASE x \notin WildSegs /\ after[c] # before[c]
          <6>1. after[c].found /\ after[c].node \notin NodesOf(t)
            BY <4>3, <5>3 DEF Local
          <6>2. Via(x, n, s, after).found = after[c].found /\ Via(x, n, s, after).node = after[c].node
            BY <4>3, <5>3, ViaType
          <6> QED BY <3>1, <4>1, <6>1, <6>2 DEF Local
        <5> QED BY <5>2, <5>3
      <4>5. CASE ~Stop(x, n, s, before)
        <5>1. x \notin WildSegs /\ after[c] # before[c]
          <6>1. Stop(x, n, s, after)
            BY <2>5, <4>1
          <6> QED BY <4>5, <6>1 DEF Stop
        <5>2. after[c].found /\ after[c].node \notin NodesOf(t)
          BY <4>3, <5>1 DEF Local
        <5>3. Via(x, n, s, after).found = after[c].found /\ Via(x, n, s, after).node = after[c].node
          BY <4>3, <5>1, ViaType
        <5> QED BY <3>1, <4>1, <5>2, <5>3 DEF Local
      <4> QED BY <4>4, <4>5
    <3> QED BY <3>2, <3>3
  <2> QED BY <1>4, <2>4, <2>5, FirstStop
<1> QED BY <1>3, <1>4

(* A registration redirects a path only to a node it has made.               *)
LEMMA MatchIsLocal ==
  ASSUME NEW Runs, NEW t \in Trees(Runs), NEW u \in Trees(Runs), Extended(t, u),
         NEW path \in Seq(Segments \cup {Empty})
  PROVE  Local(t, Match(t, path), Match(u, path))
<1> DEFINE p == Significant(path)
           n == Len(p)
           N == NodesOf(t)
           M == NodesOf(u)
<1>1. PICK f \in [0 .. n -> [N -> Matches(t)]] :
           /\ f[0] = AtEnd(t)
           /\ \A left \in 1 .. n : f[left] = Level(t, p[n + 1 - left], f[left - 1])
           /\ Match(t, path) = f[n][<<>>]
  BY MatchLevels
<1>2. PICK g \in [0 .. n -> [M -> Matches(u)]] :
           /\ g[0] = AtEnd(u)
           /\ \A left \in 1 .. n : g[left] = Level(u, p[n + 1 - left], g[left - 1])
           /\ Match(u, path) = g[n][<<>>]
  BY MatchLevels
<1>3. p \in Seq(Segments) /\ n \in Nat
  BY SegmentsOfPattern, LenProperties
<1>4. <<>> \in N /\ <<>> \in M /\ N \subseteq M
  BY DEF Trees, Extended
<1> HIDE DEF p, N, M
<1> DEFINE Good == {left \in 0 .. n : \A c \in M : IF c \in N THEN Local(t, f[left][c], g[left][c])
                                                  ELSE g[left][c].found => g[left][c].node \notin N}
<1>5. 0 \in Good
  <2> SUFFICES ASSUME NEW c \in M
               PROVE  IF c \in N THEN Local(t, f[0][c], g[0][c]) ELSE g[0][c].found => g[0][c].node \notin N
    BY <1>3
  <2>1. g[0][c] = [node |-> c, vars |-> <<>>, found |-> TRUE]
    BY <1>2 DEF AtEnd, M
  <2>2. c \in N => f[0][c] = g[0][c]
    BY <1>1, <2>1 DEF AtEnd, N
  <2>3. g[0][c].node = c
    BY <2>1
  <2> QED BY <2>2, <2>3 DEF Local
<1>6. ASSUME NEW left \in 1 .. n, left - 1 \in Good PROVE left \in Good
  <2> SUFFICES ASSUME NEW c \in M
               PROVE  IF c \in N THEN Local(t, f[left][c], g[left][c])
                      ELSE g[left][c].found => g[left][c].node \notin N
    BY <1>3
  <2> DEFINE s == p[n + 1 - left]
  <2>1. left - 1 \in 0 .. n /\ n + 1 - left \in 1 .. n
    BY <1>3
  <2>2. s \in Segments /\ f[left - 1] \in [N -> Matches(t)] /\ g[left - 1] \in [M -> Matches(u)]
    BY <1>1, <1>2, <1>3, <2>1, ElementOfSeq
  <2>3. f[left] = Level(t, s, f[left - 1]) /\ g[left] = Level(u, s, g[left - 1])
    BY <1>1, <1>2
  <2> HIDE DEF s
  <2>4. g[left][c] = MatchAt(u, c, s, g[left - 1]) /\ (c \in N => f[left][c] = MatchAt(t, c, s, f[left - 1]))
    BY <2>3 DEF Level, M, N
  <2>5. \A e \in M : IF e \in N THEN Local(t, f[left - 1][e], g[left - 1][e])
                     ELSE g[left - 1][e].found => g[left - 1][e].node \notin N
    BY <1>6
  <2>6. IF c \in N THEN Local(t, MatchAt(t, c, s, f[left - 1]), MatchAt(u, c, s, g[left - 1]))
        ELSE MatchAt(u, c, s, g[left - 1]).found => MatchAt(u, c, s, g[left - 1]).node \notin N
    BY <2>2, <2>5, MatchAtLocal DEF M, N
  <2> QED BY <2>4, <2>6
<1> HIDE DEF Good
<1>7. 0 .. n \subseteq Good
  BY <1>3, <1>5, <1>6, CountUp
<1>8. n \in Good
  BY <1>3, <1>7
<1>9. Local(t, f[n][<<>>], g[n][<<>>])
  BY <1>4, <1>8 DEF Good
<1> QED BY <1>1, <1>2, <1>9
=============================================================================
