----------------------------- MODULE RouterProofs -----------------------------
(***************************************************************************)
(* Proofs about Router, for any patterns, any request paths and any number *)
(* of registrations, those that fail half way included.                    *)
(***************************************************************************)
EXTENDS Router, RouteTreeProofs, FiniteSetTheorems, TLAPS

Typed ==
  /\ adds \in 0 .. MaxAdds
  /\ tree \in Trees(1 .. adds)
  /\ born \in [NodesOf(tree) -> 0 .. adds]
  /\ latest \in [NodesOf(tree) \X Methods -> 0 .. adds]
  /\ nameless \subseteq {n \in NodesOf(tree) : IsVar(n)}

(* The first handler for a method is the one that was registered last.       *)
Serving(list, method) == {k \in DOMAIN list : list[k].method = method}

Current(list, method, run) ==
  IF run = 0 THEN Serving(list, method) = {}
  ELSE Serving(list, method) # {} /\ list[Least(Serving(list, method))].run = run

HandlersCurrent ==
  \A n \in NodesOf(tree), method \in Methods : Current(tree.handlers[n], method, latest[<<n, method>>])

(* A child list is in the order of age, the youngest first.                  *)
ByAge ==
  \A n \in NodesOf(tree) : \A i, j \in DOMAIN tree.kids[n] :
    i < j => born[Append(n, tree.kids[n][i])] > born[Append(n, tree.kids[n][j])]
-----------------------------------------------------------------------------
(* What both outcomes of c_rest_router_add do to the tree.                   *)
Builds(t, u) ==
  /\ u \in Trees(1 .. adds')
  /\ NodesOf(t) \subseteq NodesOf(u)
  /\ \A n \in NodesOf(u) : u.kids[n] = KidsIn(t, n) \/ NewChild(t, u, n)

LEMMA CountsUp ==
  ASSUME Typed, Next
  PROVE  /\ adds < MaxAdds /\ adds' = adds + 1 /\ adds \in Nat /\ adds' \in 0 .. MaxAdds
         /\ tree \in Trees(1 .. adds')
         /\ born' = Stamp(tree')
<1>1. adds < MaxAdds /\ adds' = adds + 1 /\ born' = Stamp(tree')
  BY DEF Next, Add, AddFails
<1>2. adds \in Nat /\ MaxAdds \in Nat /\ tree \in Trees(1 .. adds)
  BY AddsAssumption DEF Typed
<1>3. 1 .. adds \subseteq 1 .. adds + 1
  BY <1>2
<1>4. tree \in Trees(1 .. adds + 1)
  BY <1>2, <1>3, MoreRuns
<1> QED BY <1>1, <1>2, <1>4

LEMMA Pattern ==
  ASSUME NEW path \in Patterns
  PROVE  path \in Seq(Segments \cup {Empty}) /\ Significant(path) \in Seq(Segments) /\ Len(Significant(path)) \in Nat
<1>1. path \in Seq(Segments \cup {Empty})
  BY PatternsAssumption
<1>2. Significant(path) \in Seq(Segments)
  BY <1>1, SegmentsOfPattern
<1> QED BY <1>1, <1>2, LenProperties

LEMMA AddBuilds ==
  ASSUME Typed, NEW path \in Patterns, NEW method \in Methods, Add(method, path)
  PROVE  /\ Builds(tree, tree')
         /\ Significant(path) \in NodesOf(tree')
         /\ \A n \in NodesOf(tree') :
              tree'.handlers[n] =
                IF n = Significant(path) THEN <<[method |-> method, run |-> adds']>> \o HandlersIn(tree, n)
                ELSE HandlersIn(tree, n)
<1>0. Next
  BY DEF Next
<1>1. PICK r \in 1 .. adds' : r = adds'
  <2>1. adds' \in 1 .. adds'
    BY <1>0, CountsUp
  <2> QED BY <2>1
<1>2. PICK A : A = 1 .. adds'
  OBVIOUS
<1>3. PICK t \in Trees(A) : t = tree
  BY <1>0, <1>2, CountsUp
<1>4. r \in A /\ path \in Seq(Segments \cup {Empty})
  BY <1>1, <1>2, Pattern
<1> DEFINE p == Significant(path)
           u == AddRoute(t, method, path, r)
<1>5. /\ u \in Trees(A) /\ NodesOf(t) \subseteq NodesOf(u)
      /\ \A n \in NodesOf(u) : u.kids[n] = KidsIn(t, n) \/ NewChild(t, u, n)
      /\ p \in NodesOf(u)
      /\ \A n \in NodesOf(u) :
           u.handlers[n] = IF n = p THEN <<[method |-> method, run |-> r]>> \o HandlersIn(t, n) ELSE HandlersIn(t, n)
  <2>1. u \in Trees(A) /\ NodesOf(t) \subseteq NodesOf(u) /\ p \in NodesOf(u)
    BY <1>4, AddRouteType
  <2>2. \A n \in NodesOf(u) : u.kids[n] = KidsIn(t, n) \/ NewChild(t, u, n)
    BY <1>4, AddRouteType
  <2>3. \A n \in NodesOf(u) :
          u.handlers[n] = IF n = p THEN <<[method |-> method, run |-> r]>> \o HandlersIn(t, n) ELSE HandlersIn(t, n)
    BY <1>4, AddRouteType
  <2> QED BY <2>1, <2>2, <2>3
<1>6. tree' = u
  BY <1>1, <1>3 DEF Add
<1> HIDE DEF u, p
<1>7. Builds(tree, tree')
  BY <1>2, <1>3, <1>5, <1>6 DEF Builds
<1> QED BY <1>1, <1>3, <1>5, <1>6, <1>7 DEF p

LEMMA AddFailsBuilds ==
  ASSUME Typed, NEW path \in Patterns, NEW k \in 0 .. Len(Significant(path)), AddFails(path, k)
  PROVE  Builds(tree, tree') /\ \A n \in NodesOf(tree') : tree'.handlers[n] = HandlersIn(tree, n)
<1>0. Next
  BY DEF Next
<1>1. PICK A : A = 1 .. adds'
  OBVIOUS
<1>2. PICK t \in Trees(A) : t = tree
  BY <1>0, <1>1, CountsUp
<1> DEFINE g == Grow(t, Significant(path), k)
<1>3. g \in Trees(A) /\ Grown(t, g) /\ Sprouted(t, g, k)
  BY Pattern, GrowType
<1>4. tree' = g
  BY <1>2 DEF AddFails
<1> HIDE DEF g
<1>5. Builds(tree, tree')
  BY <1>1, <1>2, <1>3, <1>4 DEF Builds, Grown, Sprouted
<1>6. \A n \in NodesOf(g) : g.handlers[n] = HandlersIn(t, n)
  BY <1>3 DEF Grown, HandlersIn
<1> QED BY <1>2, <1>4, <1>5, <1>6

LEMMA NextBuilds ==
  ASSUME Typed, Next
  PROVE  Builds(tree, tree')
BY AddBuilds, AddFailsBuilds DEF Next
-----------------------------------------------------------------------------
LEMMA InitTyped == Init => Typed
<1> SUFFICES ASSUME Init PROVE Typed
  OBVIOUS
<1>1. EmptyTree \in Trees(1 .. adds)
  <2>1. PICK A : A = 1 .. adds
    OBVIOUS
  <2> QED BY <2>1, EmptyTreeType
<1>2. 0 \in 0 .. adds /\ adds \in 0 .. MaxAdds /\ nameless = {}
  BY AddsAssumption DEF Init
<1> QED BY <1>1, <1>2 DEF Init, Typed

LEMMA NextTyped == Typed /\ [Next]_vars => Typed'
<1> SUFFICES ASSUME Typed, [Next]_vars PROVE Typed'
  OBVIOUS
<1>1. CASE Next
  <2>1. adds' = adds + 1 /\ adds \in Nat /\ adds' \in 0 .. MaxAdds /\ born' = Stamp(tree')
    BY <1>1, CountsUp
  <2>2. tree' \in Trees(1 .. adds') /\ NodesOf(tree) \subseteq NodesOf(tree')
    BY <1>1, NextBuilds DEF Builds
  <2>3. 0 .. adds \subseteq 0 .. adds' /\ adds' \in 0 .. adds' /\ 0 \in 0 .. adds'
    BY <2>1
  <2>4. born' \in [NodesOf(tree') -> 0 .. adds']
    BY <2>1, <2>3 DEF Stamp, Typed
  <2>5. latest' \in [NodesOf(tree') \X Methods -> 0 .. adds']
    <3>1. latest \in [NodesOf(tree) \X Methods -> 0 .. adds]
      BY DEF Typed
    <3>2. ASSUME NEW path \in Patterns, NEW method \in Methods, Add(method, path)
          PROVE  latest' \in [NodesOf(tree') \X Methods -> 0 .. adds']
      BY <2>3, <3>1, <3>2 DEF Add
    <3>3. ASSUME NEW path \in Patterns, NEW k \in 0 .. Len(Significant(path)), AddFails(path, k)
          PROVE  latest' \in [NodesOf(tree') \X Methods -> 0 .. adds']
      BY <2>3, <3>1, <3>3 DEF AddFails
    <3> QED BY <1>1, <3>2, <3>3 DEF Next
  <2>6. nameless' \subseteq {n \in NodesOf(tree') : IsVar(n)}
    <3>1. NamesMayBeLost
      BY <1>1 DEF Next, Add, AddFails
    <3> QED BY <2>2, <3>1 DEF NamesMayBeLost, Typed
  <2> QED BY <2>1, <2>2, <2>4, <2>5, <2>6 DEF Typed
<1>2. CASE UNCHANGED vars
  BY <1>2 DEF vars, Typed
<1> QED BY <1>1, <1>2
-----------------------------------------------------------------------------
LEMMA ParentOf ==
  ASSUME NEW S, NEW m \in Seq(S), m # <<>>
  PROVE  /\ Parent(m) \in Seq(S) /\ Len(m) \in Nat \ {0} /\ Len(Parent(m)) = Len(m) - 1
         /\ m[Len(m)] \in S /\ m = Append(Parent(m), m[Len(m)])
<1> DEFINE n == Len(m)
<1>1. n \in Nat /\ n # 0
  BY LenProperties, EmptySeq
<1>2. n \in 1 .. n
  BY <1>1
<1>3. SubSeq(m, 1, n - 1) \in Seq(S) /\ SubSeq(m, 1, n) = Append(SubSeq(m, 1, n - 1), m[n]) /\ SubSeq(m, 1, n) = m
  BY <1>2, Prefixes
<1>4. Len(SubSeq(m, 1, n - 1)) = n - 1
  BY <1>2, Prefixes
<1>5. m[n] \in S
  BY <1>2, ElementOfSeq
<1> QED BY <1>1, <1>3, <1>4, <1>5 DEF Parent

LEMMA ChildOf ==
  ASSUME NEW S, NEW n \in Seq(S), NEW x \in S
  PROVE  /\ Append(n, x) \in Seq(S) /\ Append(n, x) # <<>>
         /\ Parent(Append(n, x)) = n /\ Append(n, x)[Len(Append(n, x))] = x
<1> DEFINE m == Append(n, x)
<1>1. m \in Seq(S) /\ m # <<>>
  BY AppendProperties, AppendIsInjective
<1>2. Parent(m) \in Seq(S) /\ m[Len(m)] \in S /\ m = Append(Parent(m), m[Len(m)])
  BY <1>1, ParentOf
<1>3. Parent(m) = n /\ m[Len(m)] = x
  BY <1>2, AppendIsInjective
<1> QED BY <1>1, <1>3

LEMMA ChildrenListed ==
  ASSUME NEW Runs, NEW t \in Trees(Runs), NEW n \in NodesOf(t)
  PROVE  /\ n # <<>> => Parent(n) \in NodesOf(t)
         /\ Elems(t.kids[n]) = {m[Len(m)] : m \in {m \in NodesOf(t) \ {<<>>} : Parent(m) = n}}
         /\ Len(t.kids[n]) = Cardinality(Elems(t.kids[n]))
<1> DEFINE N == NodesOf(t)
           K == t.kids[n]
<1>1. N \subseteq Seq(Segments) /\ Listed(t) /\ OnceEach(t) /\ K \in Seq(Segments)
  BY ShapeOf DEF Trees
<1>2. \A m \in N : m # <<>> => Parent(m) \in N /\ m[Len(m)] \in Elems(t.kids[Parent(m)])
  <2> SUFFICES ASSUME NEW m \in N, m # <<>> PROVE Parent(m) \in N /\ m[Len(m)] \in Elems(t.kids[Parent(m)])
    OBVIOUS
  <2>1. Parent(m) \in Seq(Segments) /\ m[Len(m)] \in Segments /\ m = Append(Parent(m), m[Len(m)])
    BY <1>1, ParentOf
  <2> QED BY <1>1, <2>1 DEF Listed
<1>3. \A x \in Elems(K) : \E m \in N \ {<<>>} : Parent(m) = n /\ m[Len(m)] = x
  <2> SUFFICES ASSUME NEW x \in Elems(K) PROVE \E m \in N \ {<<>>} : Parent(m) = n /\ m[Len(m)] = x
    OBVIOUS
  <2>1. PICK k \in DOMAIN K : x = K[k]
    BY DEF Elems
  <2>2. n \in Seq(Segments) /\ x \in Segments /\ Append(n, x) \in N
    BY <2>1, ChildrenAreNodes
  <2> QED BY <2>2, ChildOf
<1>4. Elems(K) = {m[Len(m)] : m \in {m \in N \ {<<>>} : Parent(m) = n}}
  BY <1>2, <1>3
<1>5. Len(K) = Cardinality(Elems(K))
  <2>1. Len(K) \in Nat /\ DOMAIN K = 1 .. Len(K) /\ K \in [1 .. Len(K) -> Segments]
    BY <1>1, LenProperties
  <2>2. K \in [1 .. Len(K) -> Elems(K)] /\ \A x \in Elems(K) : \E i \in 1 .. Len(K) : K[i] = x
    BY <2>1 DEF Elems
  <2>3. \A i, j \in 1 .. Len(K) : K[i] = K[j] => i = j
    BY <1>1, <2>1 DEF OnceEach
  <2>4. K \in Bijection(1 .. Len(K), Elems(K))
    BY <2>2, <2>3 DEF Bijection, Injection, IsInjective, Surjection
  <2>5. ExistsBijection(1 .. Len(K), Elems(K))
    BY <2>4 DEF ExistsBijection
  <2>6. IsFiniteSet(1 .. Len(K)) /\ Cardinality(1 .. Len(K)) = Len(K)
    BY <2>1, FS_Interval
  <2> QED BY <2>5, <2>6, FS_Bijection
<1> QED BY <1>2, <1>4, <1>5

LEMMA TypedImpliesTypeOK == Typed => TypeOK
<1> SUFFICES ASSUME Typed PROVE TypeOK
  OBVIOUS
<1>1. PICK A : A = 1 .. adds
  OBVIOUS
<1>2. PICK t \in Trees(A) : t = tree
  BY <1>1 DEF Typed
<1>3. /\ NodesOf(t) \subseteq Seq(Segments) /\ <<>> \in NodesOf(t)
      /\ t \in [kids : [NodesOf(t) -> Seq(Segments)], handlers : [NodesOf(t) -> Seq(HandlerEntries(A))]]
  BY ShapeOf DEF Trees
<1>4. DOMAIN t.handlers = NodesOf(t)
  BY <1>3
<1>5. \A n \in NodesOf(t) : t.handlers[n] \in Seq([method : Methods, run : A])
  BY <1>3 DEF HandlerEntries
<1>6. \A n \in NodesOf(t) :
        /\ n # <<>> => Parent(n) \in NodesOf(t)
        /\ Elems(t.kids[n]) = {m[Len(m)] : m \in {m \in NodesOf(t) \ {<<>>} : Parent(m) = n}}
        /\ Len(t.kids[n]) = Cardinality(Elems(t.kids[n]))
  BY ChildrenListed
<1> QED BY <1>1, <1>2, <1>3, <1>4, <1>5, <1>6 DEF TypeOK, Typed

(* The tree that c_rest_router_add builds, with or without memory, is one:   *)
(* every node but the root is listed by its parent, once.                    *)
THEOREM RouterTypeCorrect == Spec => []TypeOK
<1>1. Spec => []Typed
  BY InitTyped, NextTyped, PTL DEF Spec
<1> QED BY <1>1, TypedImpliesTypeOK, PTL
-----------------------------------------------------------------------------
LEMMA NoneCurrent ==
  ASSUME NEW method
  PROVE  Current(<<>>, method, 0)
BY DEF Current, Serving

(* A handler that goes to the front is the current one for its method, and   *)
(* leaves those of the other methods current.                                *)
LEMMA CurrentInFront ==
  ASSUME NEW E, NEW h \in Seq(E), NEW e \in E, NEW method, NEW run,
         Current(h, method, run), e.run # 0
  PROVE  Current(<<e>> \o h, method, IF e.method = method THEN e.run ELSE run)
<1> DEFINE L == <<e>> \o h
           old == Serving(h, method)
           new == Serving(L, method)
<1>1. Len(h) \in Nat /\ DOMAIN h = 1 .. Len(h)
  BY LenProperties
<1>2. L \in Seq(E) /\ Len(L) = 1 + Len(h) /\ L[1] = e /\ \A i \in 1 .. Len(h) : L[i + 1] = h[i]
  <2>1. <<e>> \in Seq(E) /\ Len(<<e>>) = 1 /\ <<e>>[1] = e
    OBVIOUS
  <2>2. /\ L \in Seq(E) /\ Len(L) = 1 + Len(h)
        /\ \A i \in 1 .. 1 + Len(h) : L[i] = IF i <= 1 THEN <<e>>[i] ELSE h[i - 1]
    BY <2>1, ConcatProperties
  <2>3. 1 \in 1 .. 1 + Len(h) /\ \A i \in 1 .. Len(h) : i + 1 \in 1 .. 1 + Len(h) /\ ~(i + 1 <= 1) /\ i + 1 - 1 = i
    BY <1>1
  <2> HIDE DEF L
  <2> QED BY <2>1, <2>2, <2>3
<1> HIDE DEF L
<1>3. DOMAIN L = 1 .. 1 + Len(h)
  BY <1>2, LenProperties
<1>4. new \in SUBSET Nat /\ old \in SUBSET Nat /\ old \subseteq 1 .. Len(h)
  BY <1>1, <1>3 DEF Serving
<1>5. CASE e.method = method
  <2>1. 1 \in new /\ \A j \in new : 1 <= j
    BY <1>1, <1>2, <1>3, <1>5 DEF Serving
  <2> HIDE DEF new
  <2>2. Least(new) = 1
    BY <1>4, <2>1, LeastIs
  <2> QED BY <1>2, <1>5, <2>1, <2>2 DEF Current, new, L
<1>6. CASE e.method # method
  <2>1. \A k \in old : k + 1 \in new
    BY <1>1, <1>2, <1>3 DEF Serving
  <2>2. \A k \in new : k # 1 /\ k - 1 \in old
    <3> SUFFICES ASSUME NEW k \in new PROVE k # 1 /\ k - 1 \in old
      OBVIOUS
    <3>1. k \in 1 .. 1 + Len(h) /\ L[k].method = method
      BY <1>3 DEF Serving
    <3>2. k # 1
      BY <1>2, <1>6, <3>1
    <3>3. k - 1 \in 1 .. Len(h) /\ (k - 1) + 1 = k
      BY <1>1, <3>1, <3>2
    <3>4. L[k] = h[k - 1]
      BY <1>2, <3>3
    <3> QED BY <1>1, <3>1, <3>2, <3>3, <3>4 DEF Serving
  <2> HIDE DEF new, old
  <2>3. CASE old = {}
    <3>1. new = {} /\ run = 0
      BY <2>2, <2>3 DEF Current, old
    <3> QED BY <1>6, <3>1 DEF Current, new, L
  <2>4. CASE old # {}
    <3>1. Least(old) \in old /\ \A j \in old : Least(old) <= j
      BY <1>4, <2>4, LeastOf
    <3>2. Least(old) + 1 \in new /\ \A j \in new : Least(old) + 1 <= j
      <4> DEFINE i == Least(old)
      <4> HIDE DEF i
      <4>1. i \in old /\ \A j \in old : i <= j
        BY <3>1 DEF i
      <4>2. i + 1 \in new /\ \A j \in new : i <= j - 1
        BY <2>1, <2>2, <4>1
      <4>3. \A j \in new : i + 1 <= j
        BY <1>4, <4>1, <4>2
      <4> QED BY <4>2, <4>3 DEF i
    <3>3. Least(new) = Least(old) + 1
      BY <1>4, <3>2, LeastIs
    <3>4. L[Least(new)] = h[Least(old)]
      BY <1>2, <1>4, <3>1, <3>3
    <3>5. run # 0 /\ h[Least(old)].run = run /\ new # {}
      BY <2>4, <3>2 DEF Current, old
    <3> QED BY <1>6, <3>4, <3>5 DEF Current, new, L
  <2> QED BY <2>3, <2>4
<1> QED BY <1>5, <1>6

LEMMA HandlersOfTree ==
  ASSUME Typed, NEW n \in NodesOf(tree)
  PROVE  tree.handlers[n] \in Seq(HandlerEntries(1 .. adds))
<1>1. PICK A : A = 1 .. adds
  OBVIOUS
<1>2. PICK t \in Trees(A) : t = tree
  BY <1>1 DEF Typed
<1>3. t.handlers[n] \in Seq(HandlerEntries(A))
  BY <1>2, ShapeOf DEF Trees
<1> QED BY <1>1, <1>2, <1>3

(* Of the nodes that a registration finds, and of those that it makes.       *)
LEMMA HandlersBefore ==
  ASSUME Typed, HandlersCurrent
  PROVE  \A n : \A method \in Methods :
           Current(HandlersIn(tree, n), method, IF <<n, method>> \in DOMAIN latest THEN latest[<<n, method>>] ELSE 0)
<1> SUFFICES ASSUME NEW n, NEW method \in Methods
             PROVE  Current(HandlersIn(tree, n), method, IF <<n, method>> \in DOMAIN latest THEN latest[<<n, method>>] ELSE 0)
  OBVIOUS
<1>1. <<n, method>> \in DOMAIN latest <=> n \in NodesOf(tree)
  BY DEF Typed
<1>2. CASE n \in NodesOf(tree)
  BY <1>1, <1>2 DEF HandlersIn, HandlersCurrent
<1>3. CASE n \notin NodesOf(tree)
  BY <1>1, <1>3, NoneCurrent DEF HandlersIn
<1> QED BY <1>2, <1>3

LEMMA InitHandlersCurrent == Init => HandlersCurrent
<1> SUFFICES ASSUME Init, NEW n \in NodesOf(tree), NEW method \in Methods
             PROVE  Current(tree.handlers[n], method, latest[<<n, method>>])
  BY DEF HandlersCurrent
<1>1. NodesOf(EmptyTree) = {<<>>} /\ EmptyTree.handlers[<<>>] = <<>>
  BY EmptyTreeType
<1>2. n = <<>> /\ tree.handlers[n] = <<>> /\ latest[<<n, method>>] = 0
  BY <1>1 DEF Init
<1> QED BY <1>2, NoneCurrent

LEMMA NextHandlersCurrent == Typed /\ HandlersCurrent /\ [Next]_vars => HandlersCurrent'
<1> SUFFICES ASSUME Typed, HandlersCurrent, [Next]_vars PROVE HandlersCurrent'
  OBVIOUS
<1>1. CASE UNCHANGED vars
  BY <1>1 DEF vars, HandlersCurrent
<1>2. ASSUME NEW path \in Patterns, NEW added \in Methods, Add(added, path)
      PROVE  HandlersCurrent'
  <2> SUFFICES ASSUME NEW n \in NodesOf(tree'), NEW method \in Methods
               PROVE  Current(tree'.handlers[n], method, latest'[<<n, method>>])
    BY DEF HandlersCurrent
  <2> DEFINE old == IF <<n, method>> \in DOMAIN latest THEN latest[<<n, method>>] ELSE 0
             e == [method |-> added, run |-> adds']
             p == Significant(path)
  <2>1. Current(HandlersIn(tree, n), method, old)
    BY HandlersBefore
  <2>2. tree'.handlers[n] = IF n = p THEN <<e>> \o HandlersIn(tree, n) ELSE HandlersIn(tree, n)
    BY <1>2, AddBuilds
  <2>3. latest'[<<n, method>>] = IF n = p /\ method = added THEN adds' ELSE old
    <3> DEFINE x == <<n, method>>
    <3>1. x \in NodesOf(tree') \X Methods /\ (x = <<p, added>> <=> n = p /\ method = added)
      OBVIOUS
    <3> HIDE DEF x
    <3>2. latest'[x] = CASE x = <<p, added>> -> adds'
                         [] x # <<p, added>> /\ x \in DOMAIN latest -> latest[x]
                         [] OTHER -> 0
      BY <1>2, <3>1 DEF Add
    <3>3. latest'[x] = IF x = <<p, added>> THEN adds' ELSE IF x \in DOMAIN latest THEN latest[x] ELSE 0
      BY <3>2
    <3> QED BY <3>1, <3>3 DEF x
  <2>4. CASE n = p
    <3>1. PICK E : E = HandlerEntries(1 .. adds')
      OBVIOUS
    <3>2. HandlersIn(tree, n) \in Seq(E) /\ e \in E
      <4>1. adds' = adds + 1 /\ adds \in Nat
        BY <1>2, CountsUp DEF Next
      <4>2. HandlerEntries(1 .. adds) \subseteq E /\ e \in E
        BY <3>1, <4>1 DEF HandlerEntries
      <4>3. Seq(HandlerEntries(1 .. adds)) \subseteq Seq(E)
        <5>1. PICK D : D = HandlerEntries(1 .. adds)
          OBVIOUS
        <5> QED BY <4>2, <5>1, SeqMonotonic
      <4> QED BY <4>2, <4>3, HandlersOfTree, EmptySeq DEF HandlersIn
    <3>3. PICK h \in Seq(E) : h = HandlersIn(tree, n)
      BY <3>2
    <3>4. PICK d \in E : d = e
      BY <3>2
    <3>5. PICK run : run = old
      OBVIOUS
    <3>6. d.run # 0 /\ d.run = adds' /\ d.method = added
      <4>1. adds' # 0
        BY <1>2, CountsUp DEF Next
      <4> QED BY <3>4, <4>1
    <3>7. Current(<<d>> \o h, method, IF d.method = method THEN d.run ELSE run)
      BY <2>1, <3>3, <3>5, <3>6, CurrentInFront
    <3> QED BY <2>2, <2>3, <2>4, <3>3, <3>4, <3>5, <3>6, <3>7
  <2>5. CASE n # p
    BY <2>1, <2>2, <2>3, <2>5
  <2> QED BY <2>4, <2>5
<1>3. ASSUME NEW path \in Patterns, NEW k \in 0 .. Len(Significant(path)), AddFails(path, k)
      PROVE  HandlersCurrent'
  <2> SUFFICES ASSUME NEW n \in NodesOf(tree'), NEW method \in Methods
               PROVE  Current(tree'.handlers[n], method, latest'[<<n, method>>])
    BY DEF HandlersCurrent
  <2> DEFINE old == IF <<n, method>> \in DOMAIN latest THEN latest[<<n, method>>] ELSE 0
  <2>1. Current(HandlersIn(tree, n), method, old)
    BY HandlersBefore
  <2>2. tree'.handlers[n] = HandlersIn(tree, n)
    BY <1>3, AddFailsBuilds
  <2>3. latest'[<<n, method>>] = old
    <3> DEFINE x == <<n, method>>
    <3>1. x \in NodesOf(tree') \X Methods
      OBVIOUS
    <3> HIDE DEF x
    <3>2. latest'[x] = IF x \in DOMAIN latest THEN latest[x] ELSE 0
      BY <1>3, <3>1 DEF AddFails
    <3> QED BY <3>2 DEF x
  <2> QED BY <2>1, <2>2, <2>3
<1> QED BY <1>1, <1>2, <1>3 DEF Next

LEMMA Asked ==
  ASSUME NEW path \in RequestPaths
  PROVE  path \in Seq(Segments \cup {Empty})
<1> DEFINE A == (Segments \ (VarSegs \cup WildSegs)) \cup {Empty}
           B == Segments \cup {Empty}
<1>1. A \subseteq B
  OBVIOUS
<1>2. path \in Seq(A)
  BY PatternsAssumption
<1> HIDE DEF A, B
<1>3. path \in Seq(B)
  BY <1>1, <1>2, SeqMonotonic
<1> QED BY <1>3 DEF B

LEMMA CurrentHandlersServe == Typed /\ HandlersCurrent => LatestHandlerServes
<1> SUFFICES ASSUME Typed, HandlersCurrent, NEW path \in RequestPaths, NEW method \in Methods,
                    Match(tree, path).found, ~Crashes(Match(tree, path))
             PROVE  LET m == Match(tree, path)
                        r == Resolve(tree, path, method)
                    IN  IF latest[<<m.node, method>>] = 0 THEN r.kind = "noMethod"
                        ELSE r = [kind |-> "handler", run |-> latest[<<m.node, method>>]]
  BY DEF LatestHandlerServes
<1>1. PICK A : A = 1 .. adds
  OBVIOUS
<1>2. PICK t \in Trees(A) : t = tree
  BY <1>1 DEF Typed
<1> DEFINE m == Match(t, path)
           hs == HandlersFor(t, m.node, method)
           r == Resolve(t, path, method)
<1>3. m.node \in NodesOf(t)
  BY Asked, MatchType DEF Matches
<1>4. /\ m.found /\ hs = {} => r = [kind |-> "noMethod"]
      /\ m.found /\ hs # {} => r = [kind |-> "handler", run |-> t.handlers[m.node][Least(hs)].run]
  BY ResolveCases
<1> HIDE DEF m
<1>5. Current(t.handlers[m.node], method, latest[<<m.node, method>>])
  BY <1>2, <1>3 DEF HandlersCurrent
<1>6. hs = Serving(t.handlers[m.node], method)
  BY DEF HandlersFor, Serving
<1> HIDE DEF hs, r
<1>7. m.found
  BY <1>2 DEF m
<1>8. IF latest[<<m.node, method>>] = 0 THEN r.kind = "noMethod"
      ELSE r = [kind |-> "handler", run |-> latest[<<m.node, method>>]]
  BY <1>4, <1>5, <1>6, <1>7 DEF Current
<1> QED BY <1>2, <1>8 DEF m, r

(* A request that reaches a node is served by the handler that was last      *)
(* registered there for its method, whichever calls ran out of memory.       *)
THEOREM LastRegistrationServes == Spec => []LatestHandlerServes
<1>1. Init => Typed /\ HandlersCurrent
  BY InitTyped, InitHandlersCurrent
<1>2. Typed /\ HandlersCurrent /\ [Next]_vars => (Typed /\ HandlersCurrent)'
  BY NextTyped, NextHandlersCurrent
<1> QED BY <1>1, <1>2, CurrentHandlersServe, PTL DEF Spec
-----------------------------------------------------------------------------
LEMMA InitByAge == Init => ByAge
<1> SUFFICES ASSUME Init, NEW n \in NodesOf(tree) PROVE DOMAIN tree.kids[n] = {}
  BY DEF ByAge
<1>1. tree.kids = [m \in {<<>>} |-> <<>>] /\ n \in {<<>>}
  BY DEF Init, EmptyTree, NodesOf
<1> QED BY <1>1

LEMMA NextByAge == Typed /\ ByAge /\ [Next]_vars => ByAge'
<1> SUFFICES ASSUME Typed, ByAge, [Next]_vars PROVE ByAge'
  OBVIOUS
<1>1. CASE UNCHANGED vars
  BY <1>1 DEF vars, ByAge
<1>2. CASE Next
  <2> SUFFICES ASSUME NEW n \in NodesOf(tree'),
                      NEW i \in DOMAIN tree'.kids[n], NEW j \in DOMAIN tree'.kids[n], i < j
               PROVE  born'[Append(n, tree'.kids[n][i])] > born'[Append(n, tree'.kids[n][j])]
    BY DEF ByAge
  <2> DEFINE L == tree'.kids[n]
             K == KidsIn(tree, n)
  <2>1. PICK A : A = 1 .. adds
    OBVIOUS
  <2>2. PICK t \in Trees(A) : t = tree
    BY <2>1 DEF Typed
  <2>3. PICK B : B = 1 .. adds'
    OBVIOUS
  <2>4. PICK u \in Trees(B) : u = tree'
    BY <1>2, <2>3, NextBuilds DEF Builds
  <2>5. NodesOf(tree) \subseteq NodesOf(tree') /\ (L = K \/ NewChild(tree, tree', n))
    BY <1>2, NextBuilds DEF Builds
  <2>6. adds \in Nat /\ adds' = adds + 1 /\ born' = Stamp(tree') /\ born \in [NodesOf(tree) -> 0 .. adds]
    BY <1>2, CountsUp DEF Typed
  <2>7. \A m \in NodesOf(tree') : born'[m] = IF m \in NodesOf(tree) THEN born[m] ELSE adds'
    BY <2>6 DEF Stamp
  <2>8. /\ K \in Seq(Segments) /\ Len(K) \in Nat /\ DOMAIN K = 1 .. Len(K)
        /\ \A k \in DOMAIN K : n \in NodesOf(tree) /\ Append(n, K[k]) \in NodesOf(tree)
    <3>1. CASE n \in NodesOf(t)
      <4>1. K = t.kids[n]
        BY <2>2, <3>1 DEF KidsIn
      <4>2. t.kids[n] \in Seq(Segments) /\ \A k \in DOMAIN t.kids[n] : Append(n, t.kids[n][k]) \in NodesOf(t)
        BY <3>1, ShapeOf, ChildrenAreNodes DEF Trees
      <4> QED BY <2>2, <3>1, <4>1, <4>2, LenProperties
    <3>2. CASE n \notin NodesOf(t)
      BY <2>2, <3>2, EmptySeq DEF KidsIn
    <3> QED BY <3>1, <3>2
  <2>9. \A k, l \in DOMAIN K : k < l => born[Append(n, K[k])] > born[Append(n, K[l])]
    BY <2>8 DEF ByAge, KidsIn
  <2>10. \A k \in DOMAIN K : born'[Append(n, K[k])] = born[Append(n, K[k])] /\ born[Append(n, K[k])] \in 0 .. adds
    BY <2>5, <2>6, <2>7, <2>8
  <2> HIDE DEF L, K
  <2>11. CASE L = K
    BY <2>9, <2>10, <2>11 DEF L
  <2>12. CASE NewChild(tree, tree', n)
    <3>1. PICK s \in Segments : Append(n, s) \notin NodesOf(tree) /\ L = <<s>> \o K
      BY <2>12 DEF NewChild, L, K
    <3>2. /\ DOMAIN L = 1 .. 1 + Len(K) /\ L[1] = s
          /\ \A k \in 2 .. 1 + Len(K) : k - 1 \in DOMAIN K /\ L[k] = K[k - 1]
      <4>1. <<s>> \in Seq(Segments) /\ Len(<<s>>) = 1 /\ <<s>>[1] = s
        OBVIOUS
      <4>2. PICK M \in Seq(Segments) : M = <<s>>
        BY <4>1
      <4>3. /\ M \o K \in Seq(Segments) /\ Len(M \o K) = 1 + Len(K)
            /\ \A k \in 1 .. 1 + Len(K) : (M \o K)[k] = IF k <= 1 THEN M[k] ELSE K[k - 1]
        BY <2>8, <4>1, <4>2, ConcatProperties
      <4>4. L = M \o K /\ M[1] = s
        BY <3>1, <4>1, <4>2
      <4>5. DOMAIN L = 1 .. 1 + Len(K) /\ \A k \in 1 .. 1 + Len(K) : L[k] = IF k <= 1 THEN M[k] ELSE K[k - 1]
        BY <4>3, <4>4, LenProperties
      <4> QED BY <2>8, <4>4, <4>5
    <3>3. Append(n, s) \in NodesOf(tree')
      <4>1. 1 \in DOMAIN u.kids[n] /\ u.kids[n][1] = s
        BY <2>4, <2>8, <3>2 DEF L
      <4> QED BY <2>4, <4>1, ChildrenAreNodes
    <3>4. born'[Append(n, s)] = adds'
      BY <2>7, <3>1, <3>3
    <3>5. i \in 1 .. 1 + Len(K) /\ j \in 1 .. 1 + Len(K) /\ j # 1
      BY <2>8, <3>2 DEF L
    <3>6. j - 1 \in DOMAIN K /\ L[j] = K[j - 1]
      BY <2>8, <3>2, <3>5
    <3>7. CASE i = 1
      <4>1. born'[Append(n, L[i])] = adds' /\ born'[Append(n, L[j])] \in 0 .. adds
        BY <2>10, <3>2, <3>4, <3>6, <3>7
      <4> QED BY <2>6, <4>1 DEF L
    <3>8. CASE i # 1
      <4>1. i - 1 \in DOMAIN K /\ L[i] = K[i - 1] /\ i - 1 < j - 1
        BY <2>8, <3>2, <3>5, <3>8
      <4> QED BY <2>9, <2>10, <3>6, <4>1 DEF L
    <3> QED BY <3>7, <3>8
  <2> QED BY <2>5, <2>11, <2>12 DEF L, K
<1> QED BY <1>1, <1>2

LEMMA FitsIsFitting ==
  ASSUME NEW Runs, NEW t \in Trees(Runs), NEW p \in Seq(Segments)
  PROVE  {n \in NodesOf(t) : Fits(n, p)} = Fitting(t, <<>>, p)
<1> SUFFICES ASSUME NEW n \in NodesOf(t) PROVE Fits(n, p) <=> Below(n, <<>>) /\ FitsAfter(Len(<<>>), n, p)
  BY DEF Fitting
<1>1. n \in Seq(Segments) /\ Len(n) \in Nat /\ DOMAIN n = 1 .. Len(n) /\ Len(<<>>) = 0 /\ (n # <<>> <=> 0 < Len(n))
  BY ShapeOf, LenProperties, EmptySeq DEF Trees
<1>2. Below(n, <<>>)
  BY <1>1 DEF Below
<1>3. 0 + 1 .. Len(n) = DOMAIN n
  BY <1>1
<1>4. FitsAfter(0, n, p) <=> Fits(n, p)
  BY <1>1, <1>3 DEF FitsAfter, Fits
<1> QED BY <1>1, <1>2, <1>4

LEMMA AheadIsPreferred ==
  ASSUME Typed, ByAge, NEW m \in NodesOf(tree), NEW n \in NodesOf(tree), Ahead(tree, m, n)
  PROVE  Preferred(m, n)
<1>1. PICK A : A = 1 .. adds
  OBVIOUS
<1>2. PICK t \in Trees(A) : t = tree
  BY <1>1 DEF Typed
<1>3. PICK q \in NodesOf(t) :
        /\ Below(m, q) /\ Below(n, q) /\ Len(q) < Len(m) /\ Len(q) < Len(n)
        /\ \E k, l \in DOMAIN t.kids[q] : k < l /\ t.kids[q][k] = m[Len(q) + 1] /\ t.kids[q][l] = n[Len(q) + 1]
  BY <1>2 DEF Ahead
<1>4. PICK k \in DOMAIN t.kids[q], l \in DOMAIN t.kids[q] :
        k < l /\ t.kids[q][k] = m[Len(q) + 1] /\ t.kids[q][l] = n[Len(q) + 1]
  BY <1>3
<1> DEFINE x == t.kids[q][k]
           y == t.kids[q][l]
           parted == {i \in DOMAIN m \cap DOMAIN n : m[i] # n[i]}
<1>5. /\ x \in Segments /\ y \in Segments /\ q \in Seq(Segments) /\ m \in Seq(Segments) /\ n \in Seq(Segments)
      /\ x # y
  <2>1. m \in NodesOf(t) /\ n \in NodesOf(t) /\ NodesOf(t) \subseteq Seq(Segments)
    BY <1>2, ShapeOf DEF Trees
  <2>2. x \in Segments /\ y \in Segments
    BY ChildrenAreNodes
  <2>3. k # l
    <3>1. DOMAIN t.kids[q] \subseteq Nat
      <4>1. t.kids[q] \in Seq(Segments)
        BY ChildrenAreNodes
      <4>2. DOMAIN t.kids[q] = 1 .. Len(t.kids[q]) /\ Len(t.kids[q]) \in Nat
        BY <4>1, LenProperties
      <4> QED BY <4>2
    <3> QED BY <1>4, <3>1
  <2>4. x # y
    BY <2>3 DEF Trees, OnceEach
  <2> QED BY <2>1, <2>2, <2>4
<1>6. /\ Len(q) \in Nat /\ Len(m) \in Nat /\ Len(n) \in Nat
      /\ DOMAIN m = 1 .. Len(m) /\ DOMAIN n = 1 .. Len(n)
  BY <1>5, LenProperties
<1>7. Least(parted) = Len(q) + 1
  <2>1. Len(q) + 1 \in parted
    BY <1>3, <1>4, <1>5, <1>6
  <2>2. parted \in SUBSET Nat
    BY <1>6
  <2>3. \A i \in parted : Len(q) + 1 <= i
    <3> SUFFICES ASSUME NEW i \in parted, ~(Len(q) + 1 <= i) PROVE FALSE
      OBVIOUS
    <3>1. i \in 1 .. Len(q)
      BY <1>6
    <3> QED BY <1>3, <3>1 DEF Below
  <2> HIDE DEF parted
  <2> QED BY <2>1, <2>2, <2>3, LeastIs
<1>8. SubSeq(m, 1, Len(q) + 1) = Append(q, x)
  <2>1. Below(m, Append(q, x)) /\ Append(q, x) \in Seq(Segments) /\ Len(Append(q, x)) = Len(q) + 1
    BY <1>3, <1>4, <1>5, BelowChild
  <2> QED BY <1>5, <2>1, BelowIsPrefix
<1>9. SubSeq(n, 1, Len(q) + 1) = Append(q, y)
  <2>1. Below(n, Append(q, y)) /\ Append(q, y) \in Seq(Segments) /\ Len(Append(q, y)) = Len(q) + 1
    BY <1>3, <1>4, <1>5, BelowChild
  <2> QED BY <1>5, <2>1, BelowIsPrefix
<1>10. born[Append(q, x)] > born[Append(q, y)]
  BY <1>2, <1>4 DEF ByAge
<1> QED BY <1>7, <1>8, <1>9, <1>10 DEF Preferred

LEMMA AheadMeansPreferred == Typed /\ ByAge => MatchIsPreferred
<1> SUFFICES ASSUME Typed, ByAge, NEW path \in RequestPaths
             PROVE  LET p == Significant(path)
                        fitting == {n \in NodesOf(tree) : Fits(n, p)}
                        m == Match(tree, path)
                    IN  /\ m.found <=> fitting # {}
                        /\ m.found => /\ m.node \in fitting
                                      /\ \A n \in fitting \ {m.node} : Preferred(m.node, n)
  BY DEF MatchIsPreferred
<1>1. PICK A : A = 1 .. adds
  OBVIOUS
<1>2. PICK t \in Trees(A) : t = tree
  BY <1>1 DEF Typed
<1> DEFINE p == Significant(path)
           m == Match(t, path)
           fitting == {n \in NodesOf(t) : Fits(n, p)}
<1>3. Right(t, <<>>, p, m)
  BY Asked, MatchIsRight
<1>4. fitting = Fitting(t, <<>>, p)
  BY Asked, SegmentsOfPattern, FitsIsFitting
<1>5. fitting \subseteq NodesOf(t)
  OBVIOUS
<1> HIDE DEF p, m, fitting
<1>6. /\ m.found <=> fitting # {}
      /\ m.found => m.node \in fitting /\ \A n \in fitting \ {m.node} : Ahead(t, m.node, n)
  BY <1>3, <1>4 DEF Right
<1>7. m.found => \A n \in fitting \ {m.node} : Preferred(m.node, n)
  BY <1>2, <1>5, <1>6, AheadIsPreferred
<1> QED BY <1>2, <1>6, <1>7 DEF p, m, fitting

(* match_route takes a path to the node on the most recently made branch of  *)
(* those that fit it, and fails only if none fits, backtracking included.    *)
THEOREM MatchTakesThePreferred == Spec => []MatchIsPreferred
<1>1. Init => Typed /\ ByAge
  BY InitTyped, InitByAge
<1>2. Typed /\ ByAge /\ [Next]_vars => (Typed /\ ByAge)'
  BY NextTyped, NextByAge
<1> QED BY <1>1, <1>2, AheadMeansPreferred, PTL DEF Spec
-----------------------------------------------------------------------------
LEMMA NextIsLocal ==
  ASSUME Typed, Next, NEW path \in RequestPaths
  PROVE  Local(tree, Match(tree, path), Match(tree', path))
<1>1. PICK A : A = 1 .. adds'
  OBVIOUS
<1>2. PICK t \in Trees(A) : t = tree
  BY <1>1, CountsUp
<1>3. PICK u \in Trees(A) : u = tree'
  BY <1>1, NextBuilds DEF Builds
<1>4. Extended(t, u)
  BY <1>2, <1>3, NextBuilds DEF Builds, Extended
<1>5. Local(t, Match(t, path), Match(u, path))
  BY <1>4, Asked, MatchIsLocal
<1> QED BY <1>2, <1>3, <1>5

(* A registration, also one that fails half way, redirects a path only to a  *)
(* node it has just made; no path that was found is lost.                    *)
THEOREM RegistrationIsLocal == Spec => AddIsLocal
<1> DEFINE Step == \A path \in RequestPaths :
                     LET before == Match(tree, path)
                         after == Match(tree', path)
                     IN  after # before => after.found /\ after.node \notin NodesOf(tree)
<1>1. Spec => []Typed
  BY InitTyped, NextTyped, PTL DEF Spec
<1>2. Typed /\ [Next]_vars => [Step]_vars
  BY NextIsLocal DEF Local
<1> QED BY <1>1, <1>2, PTL DEF Spec, AddIsLocal
-----------------------------------------------------------------------------
(* Every entry of path_vars is that of a variable on the way to the node.    *)
LEMMA RankOnto ==
  ASSUME NEW n \in Nat, NEW at \in SUBSET (1 .. n)
  PROVE  \A k \in 1 .. Cardinality(at) : \E i \in at : Rank(at, i) = k
<1> DEFINE upTo(j) == {i \in at : i <= j}
           T == {j \in 0 .. n : \A k \in 1 .. Cardinality(upTo(j)) : \E i \in at : Rank(at, i) = k}
<1>0. \A i \in at : i \in Int /\ 1 <= i /\ i <= n
  OBVIOUS
<1>1. \A j \in 0 .. n : IsFiniteSet(upTo(j)) /\ Cardinality(upTo(j)) \in Nat
  <2> SUFFICES ASSUME NEW j \in 0 .. n PROVE IsFiniteSet(upTo(j)) /\ Cardinality(upTo(j)) \in Nat
    OBVIOUS
  <2>1. IsFiniteSet(1 .. n) /\ upTo(j) \subseteq 1 .. n
    <3>1. IsFiniteSet(1 .. n)
      BY FS_Interval
    <3> QED BY <1>0, <3>1
  <2> QED BY <2>1, FS_Subset, FS_CardinalityType
<1>2. 0 \in T
  <2>1. upTo(0) = {}
    <3>1. \A i \in at : ~(i <= 0)
      BY <1>0
    <3> QED BY <3>1
  <2>2. Cardinality(upTo(0)) = 0
    BY <2>1, FS_EmptySet
  <2>3. 1 .. Cardinality(upTo(0)) = {} /\ 0 \in 0 .. n
    BY <2>2
  <2> QED BY <2>3
<1>3. ASSUME NEW j \in 1 .. n, j - 1 \in T PROVE j \in T
  <2>1. j - 1 \in 0 .. n /\ j \in 0 .. n
    OBVIOUS
  <2>2. CASE j \notin at
    <3>1. upTo(j) = upTo(j - 1)
      <4>1. \A i \in at : i <= j <=> i <= j - 1
        BY <1>0, <2>2
      <4> QED BY <4>1
    <3> QED BY <1>3, <2>1, <3>1
  <2>3. CASE j \in at
    <3>1. upTo(j) = upTo(j - 1) \cup {j} /\ j \notin upTo(j - 1)
      <4>1. \A i \in at : (i <= j <=> i <= j - 1 \/ i = j)
        BY <1>0
      <4>2. j <= j /\ ~(j <= j - 1)
        OBVIOUS
      <4> QED BY <2>3, <4>1, <4>2
    <3>2. Cardinality(upTo(j)) = Cardinality(upTo(j - 1)) + 1
      BY <1>1, <2>1, <3>1, FS_AddElement
    <3>3. Rank(at, j) = Cardinality(upTo(j))
      BY DEF Rank
    <3> HIDE DEF upTo
    <3>4. \A k \in 1 .. Cardinality(upTo(j)) : k \in 1 .. Cardinality(upTo(j - 1)) \/ k = Cardinality(upTo(j))
      BY <1>1, <2>1, <3>2
    <3> QED BY <1>3, <2>1, <2>3, <3>3, <3>4
  <2> QED BY <2>2, <2>3
<1>4. 0 .. n \subseteq T
  <2> HIDE DEF T
  <2> QED BY <1>2, <1>3, CountUp
<1>5. upTo(n) = at /\ n \in T
  <2>1. upTo(n) = at
    BY <1>0
  <2> HIDE DEF T
  <2> QED BY <1>4, <2>1
<1> QED BY <1>5

LEMMA MatchBinds == Typed => VarsOfTheMatch
<1> SUFFICES ASSUME Typed, NEW path \in RequestPaths
             PROVE  LET p == Significant(path)
                        m == Match(tree, path)
                        at == {i \in DOMAIN m.node : m.node[i] \in VarSegs}
                        rank(i) == Cardinality({j \in at : j <= i})
                        upTo(i) == SubSeq(m.node, 1, i)
                    IN  m.found => /\ Len(m.vars) = Cardinality(at)
                                   /\ \A i \in at : m.vars[rank(i)] = [node |-> upTo(i), value |-> p[i]]
                                   /\ Crashes(m) <=> \E i \in at : upTo(i) \in nameless
  BY DEF VarsOfTheMatch
<1>1. PICK A : A = 1 .. adds
  OBVIOUS
<1>2. PICK t \in Trees(A) : t = tree
  BY <1>1 DEF Typed
<1> DEFINE p == Significant(path)
           m == Match(t, path)
           at == {i \in DOMAIN m.node : m.node[i] \in VarSegs}
<1>3. Right(t, <<>>, p, m) /\ Bound(<<>>, p, m) /\ m \in Matches(t)
  BY Asked, MatchIsRight, MatchType
<1> HIDE DEF p, m
<1>4. SUFFICES ASSUME m.found
               PROVE  /\ Len(m.vars) = Cardinality(at)
                      /\ \A i \in at : m.vars[Rank(at, i)] = [node |-> SubSeq(m.node, 1, i), value |-> p[i]]
                      /\ Crashes(m) <=> \E i \in at : SubSeq(m.node, 1, i) \in nameless
  BY <1>2 DEF p, m, Rank
<1>5. m.node \in Seq(Segments)
  BY <1>3, <1>4, ShapeOf DEF Right, Fitting, Trees
<1>6. at = VarsAfter(0, m.node)
  <2>1. DOMAIN m.node = 0 + 1 .. Len(m.node)
    BY <1>5, LenProperties
  <2> QED BY <2>1 DEF VarsAfter
<1>7. Binds(0, m.node, p, m.vars)
  <2>1. Len(<<>>) = 0
    BY EmptySeq
  <2> QED BY <1>3, <1>4, <2>1 DEF Bound
<1>8. Len(m.node) \in Nat /\ at \in SUBSET (1 .. Len(m.node))
  BY <1>5, LenProperties
<1> HIDE DEF at
<1>9. Len(m.vars) = Cardinality(at) /\ \A i \in at : m.vars[Rank(at, i)] = [node |-> SubSeq(m.node, 1, i), value |-> p[i]]
  BY <1>6, <1>7 DEF Binds
<1>10. DOMAIN m.vars = 1 .. Cardinality(at)
  <2>1. m.vars \in Seq(Bindings)
    BY <1>3 DEF Matches
  <2> QED BY <1>9, <2>1, LenProperties
<1>11. \A i \in at : Rank(at, i) \in DOMAIN m.vars
  <2> SUFFICES ASSUME NEW i \in at PROVE Rank(at, i) \in 1 .. Cardinality(at)
    BY <1>10
  <2> DEFINE upTo == {j \in at : j <= i}
  <2>1. IsFiniteSet(at) /\ upTo \subseteq at /\ i \in upTo
    <3>1. IsFiniteSet(1 .. Len(m.node))
      BY <1>8, FS_Interval
    <3>2. i \in Int
      BY <1>8
    <3>3. i <= i
      BY <3>2
    <3>4. IsFiniteSet(at)
      BY <1>8, <3>1, FS_Subset
    <3> QED BY <3>3, <3>4
  <2> HIDE DEF upTo
  <2>2. Cardinality(upTo) \in Nat /\ Cardinality(upTo) <= Cardinality(at) /\ Cardinality(upTo) # 0 /\ Cardinality(at) \in Nat
    BY <2>1, FS_CardinalityType, FS_Subset, FS_EmptySet
  <2>3. Cardinality(upTo) \in 1 .. Cardinality(at)
    BY <2>2
  <2> QED BY <2>3 DEF Rank, upTo
<1>12. \A k \in DOMAIN m.vars : \E i \in at : Rank(at, i) = k
  BY <1>8, <1>10, RankOnto
<1>13. Crashes(m) <=> \E i \in at : SubSeq(m.node, 1, i) \in nameless
  <2>1. ASSUME NEW i \in at PROVE m.vars[Rank(at, i)].node = SubSeq(m.node, 1, i)
    <3>1. m.vars[Rank(at, i)] = [node |-> SubSeq(m.node, 1, i), value |-> p[i]]
      BY <1>9
    <3>2. [node |-> SubSeq(m.node, 1, i), value |-> p[i]].node = SubSeq(m.node, 1, i)
      OBVIOUS
    <3> QED BY <3>1, <3>2
  <2> QED BY <1>11, <1>12, <2>1 DEF Crashes
<1> QED BY <1>9, <1>13

(* match_route binds one value to each variable of the node it found, in the *)
(* order of the path, keeps nothing of a branch that was given up, and is    *)
(* brought down by a lost name exactly if a variable it binds has lost it.   *)
THEOREM VariablesOfTheMatch == Spec => []VarsOfTheMatch
<1>1. Spec => []Typed
  BY InitTyped, NextTyped, PTL DEF Spec
<1> QED BY <1>1, MatchBinds, PTL
=============================================================================
