------------------------------- MODULE Router -------------------------------
(***************************************************************************)
(* The registration of routes (c_rest_router_add in src/src/router.c), one *)
(* call per action, and what the tree it builds answers.  A call may run   *)
(* out of memory at any allocation and leaves the nodes made so far, or,   *)
(* when it is the copy of a variable's name that it cannot have, a node    *)
(* without one, and succeeds.                                              *)
(***************************************************************************)
EXTENDS RouteTree, FiniteSets

CONSTANTS Patterns,      (* the paths that are registered                 *)
          RequestPaths,  (* the paths the tree is asked for               *)
          MaxAdds        (* bound: calls of c_rest_router_add             *)

ASSUME PatternsAssumption ==
  /\ Patterns \subseteq Seq(Segments \cup {Empty})
  /\ RequestPaths \subseteq Seq((Segments \ (VarSegs \cup WildSegs)) \cup {Empty})
ASSUME AddsAssumption == MaxAdds \in Nat

VARIABLES tree,      (* router->root                                        *)
          nameless,  (* the variables whose var_name is NULL                *)
          adds,      (* calls of c_rest_router_add so far                   *)
          born,      (* history: in which call each node was made           *)
          latest     (* history: last call that set <<node, method>>, or 0  *)

vars == <<tree, nameless, adds, born, latest>>

IsVar(n) == n # <<>> /\ n[Len(n)] \in VarSegs

(* create_node keeps a variable although there was no memory for its name.   *)
NamesMayBeLost ==
  \E lost \in SUBSET {n \in NodesOf(tree') \ NodesOf(tree) : IsVar(n)} :
    nameless' = nameless \cup lost

Stamp(t) == [n \in NodesOf(t) |-> IF n \in DOMAIN born THEN born[n] ELSE adds']

Add(method, path) ==
  /\ adds < MaxAdds
  /\ adds' = adds + 1
  /\ tree' = AddRoute(tree, method, path, adds')
  /\ NamesMayBeLost
  /\ born' = Stamp(tree')
  /\ latest' = [x \in NodesOf(tree') \X Methods |->
                  CASE x = <<Significant(path), method>> -> adds'
                    [] x # <<Significant(path), method>> /\ x \in DOMAIN latest -> latest[x]
                    [] OTHER -> 0]

(* create_node fails on segment k + 1, or the handler cannot be allocated. *)
AddFails(path, k) ==
  LET pattern == Significant(path) IN
  /\ adds < MaxAdds
  /\ k < Len(pattern) => SubSeq(pattern, 1, k + 1) \notin NodesOf(tree)
  /\ adds' = adds + 1
  /\ tree' = Grow(tree, pattern, k)
  /\ NamesMayBeLost
  /\ born' = Stamp(tree')
  /\ latest' = [x \in NodesOf(tree') \X Methods |-> IF x \in DOMAIN latest THEN latest[x] ELSE 0]

Init ==
  /\ tree = EmptyTree
  /\ nameless = {}
  /\ adds = 0
  /\ born = [n \in NodesOf(tree) |-> 0]
  /\ latest = [x \in NodesOf(tree) \X Methods |-> 0]

Next ==
  \E path \in Patterns :
    \/ \E method \in Methods : Add(method, path)
    \/ \E k \in 0 .. Len(Significant(path)) : AddFails(path, k)

Spec == Init /\ [][Next]_vars

(* match_route takes the length of the name of each variable that it binds.  *)
Crashes(m) == \E i \in DOMAIN m.vars : m.vars[i].node \in nameless
-----------------------------------------------------------------------------
Parent(n) == SubSeq(n, 1, Len(n) - 1)

(* The nodes form a tree: every node but the root is listed by its parent,   *)
(* once, and nothing else is listed (what find_or_add_child maintains).      *)
TypeOK ==
  /\ adds \in 0 .. MaxAdds
  /\ nameless \subseteq {n \in NodesOf(tree) : IsVar(n)}
  /\ NodesOf(tree) \subseteq Seq(Segments) /\ <<>> \in NodesOf(tree)
  /\ DOMAIN tree.handlers = NodesOf(tree)
  /\ \A n \in NodesOf(tree) :
       /\ tree.handlers[n] \in Seq([method : Methods, run : 1 .. adds])
       /\ n # <<>> => Parent(n) \in NodesOf(tree)
       /\ Elems(tree.kids[n]) = {m[Len(m)] : m \in {m \in NodesOf(tree) \ {<<>>} : Parent(m) = n}}
       /\ Len(tree.kids[n]) = Cardinality(Elems(tree.kids[n]))

(* The reference: a node fits a path when its segments are those of the path *)
(* one by one, a variable standing for any, and a wildcard at its end for    *)
(* one segment or more.                                                      *)
Fits(n, p) ==
  /\ Len(n) <= Len(p)
  /\ \A i \in DOMAIN n : n[i] \in WildSegs \/ n[i] \in VarSegs \/ n[i] = p[i]
  /\ \A i \in DOMAIN n : n[i] \in WildSegs => i = Len(n)
  /\ Len(n) < Len(p) => n # <<>> /\ n[Len(n)] \in WildSegs

(* Where two nodes part, the one whose branch was made later is preferred. *)
Preferred(m, n) ==
  LET parting == Least({i \in DOMAIN m \cap DOMAIN n : m[i] # n[i]})
  IN  born[SubSeq(m, 1, parting)] > born[SubSeq(n, 1, parting)]

(* match_route finds a node exactly when one fits, and among those that fit  *)
(* the one on the most recently made branch, backtracking included.          *)
MatchIsPreferred ==
  \A path \in RequestPaths :
    LET p == Significant(path)
        fitting == {n \in NodesOf(tree) : Fits(n, p)}
        m == Match(tree, path)
    IN  /\ m.found <=> fitting # {}
        /\ m.found => /\ m.node \in fitting
                      /\ \A n \in fitting \ {m.node} : Preferred(m.node, n)

(* path_vars holds one entry for each variable of the node that matched, in  *)
(* the order of the path, and nothing from a branch that was given up; and   *)
(* only a variable of that node whose name was lost brings match_route down, *)
(* not one it tried and left.                                                *)
VarsOfTheMatch ==
  \A path \in RequestPaths :
    LET p == Significant(path)
        m == Match(tree, path)
        at == {i \in DOMAIN m.node : m.node[i] \in VarSegs}
        rank(i) == Cardinality({j \in at : j <= i})
        upTo(i) == SubSeq(m.node, 1, i)
    IN  m.found => /\ Len(m.vars) = Cardinality(at)
                   /\ \A i \in at : m.vars[rank(i)] = [node |-> upTo(i), value |-> p[i]]
                   /\ Crashes(m) <=> \E i \in at : upTo(i) \in nameless

(* A request that reaches a node is served by the handler last registered    *)
(* there for its method, and is refused with 405 only if there is none,      *)
(* unless a variable without a name stops it on the way.                     *)
LatestHandlerServes ==
  \A path \in RequestPaths, method \in Methods :
    LET m == Match(tree, path)
        r == Resolve(tree, path, method)
    IN  m.found /\ ~Crashes(m) =>
          IF latest[<<m.node, method>>] = 0 THEN r.kind = "noMethod"
          ELSE r = [kind |-> "handler", run |-> latest[<<m.node, method>>]]

(* Registering a route, also when it fails half way, redirects a path only   *)
(* to a node it has just made: no other path changes its route, and no path  *)
(* that was found is lost.                                                   *)
AddIsLocal ==
  [][\A path \in RequestPaths :
       LET before == Match(tree, path)
           after == Match(tree', path)
       IN  after # before => after.found /\ after.node \notin NodesOf(tree)]_vars
=============================================================================
