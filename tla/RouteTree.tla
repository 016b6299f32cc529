------------------------------ MODULE RouteTree ------------------------------
(***************************************************************************)
(* The routing tree of src/src/router.c as a value: a node is the sequence *)
(* of the segments that lead to it from the root (siblings have different  *)
(* segments, so this names it), `kids' gives each node's child list and    *)
(* `handlers' its handler list, both in list order.  A path is the         *)
(* sequence of what stands between its slashes, empty segments included.   *)
(***************************************************************************)
EXTENDS Naturals, Sequences

CONSTANTS Segments,  (* the non-empty segments of patterns and requests *)
          VarSegs,   (* those that start with ':' (is_var)              *)
          WildSegs,  (* those that start with '*' (is_wildcard)         *)
          Empty,     (* nothing between two slashes                     *)
          Methods

ASSUME SegmentsAssumption ==
  /\ VarSegs \subseteq Segments /\ WildSegs \subseteq Segments
  /\ VarSegs \cap WildSegs = {}
  /\ Empty \notin Segments

Elems(s) == {s[i] : i \in DOMAIN s}
Least(S) == CHOOSE i \in S : \A j \in S : i <= j

(* c_rest_router_init: a root without children or handlers. *)
EmptyTree == [kids |-> [n \in {<<>>} |-> <<>>], handlers |-> [n \in {<<>>} |-> <<>>]]

NodesOf(tree) == DOMAIN tree.kids

(* c_rest_router_add steps over empty segments. *)
Significant(path) ==
  LET kept[i \in 0 .. Len(path)] ==
        IF i = 0 THEN <<>>
        ELSE IF path[i] = Empty THEN kept[i - 1] ELSE Append(kept[i - 1], path[i])
  IN kept[Len(path)]

WithNode(f, n) == [m \in DOMAIN f \cup {n} |-> IF m = n THEN <<>> ELSE f[m]]

PutChildAlone(list, s) == <<s>>           \* new_node->next not set
PutChild(list, s) == <<s>> \o list

(* find_or_add_child: a new child goes to the front of the list. *)
FindOrAddChild(tree, parent, s) ==
  IF s \in Elems(tree.kids[parent]) THEN tree
  ELSE [kids |-> [WithNode(tree.kids, Append(parent, s)) EXCEPT ![parent] = PutChild(@, s)],
        handlers |-> WithNode(tree.handlers, Append(parent, s))]

(* The tree once the first k segments of `pattern' have their nodes. *)
Grow(tree, pattern, k) ==
  LET grown[i \in 0 .. k] ==
        IF i = 0 THEN tree
        ELSE FindOrAddChild(grown[i - 1], SubSeq(pattern, 1, i - 1), pattern[i])
  IN grown[k]

AddRouteLast(tree, method, path, run) ==  \* the handler at the tail
  LET pattern == Significant(path) IN
  [Grow(tree, pattern, Len(pattern)) EXCEPT
     !.handlers[pattern] = Append(@, [method |-> method, run |-> run])]

(* c_rest_router_add, its memory granted: the handler goes to the front. *)
AddRoute(tree, method, path, run) ==
  LET pattern == Significant(path) IN
  [Grow(tree, pattern, Len(pattern)) EXCEPT
     !.handlers[pattern] = <<[method |-> method, run |-> run]>> \o @]

NoMatch == [node |-> <<>>, vars |-> <<>>, found |-> FALSE]

(* The loop over the children goes on when a subtree does not match. *)
EntersFirst(child, s, sub) == child \in VarSegs \/ child = s  \* no way back
Enters(child, s, sub) == (child \in VarSegs \/ child = s) /\ sub.found

BindLast(var, vars) == Append(vars, var)  \* a variable bound before recursing
Bind(var, vars) == <<var>> \o vars

(* match_route at node n, where the segment s is next and `rest' is what it  *)
(* answers at each node for the segments after s: the first child, in list   *)
(* order, that is a wildcard or whose subtree matches the rest.              *)
MatchAt(tree, n, s, rest) ==
  LET child(k) == tree.kids[n][k]
      sub(k) == rest[Append(n, child(k))]
      fits == {k \in DOMAIN tree.kids[n] : child(k) \in WildSegs \/ Enters(child(k), s, sub(k))}
      k == Least(fits)
  IN  IF fits = {} THEN NoMatch
      ELSE IF child(k) \in WildSegs
      THEN [node |-> Append(n, child(k)), vars |-> <<>>, found |-> TRUE]
      ELSE IF child(k) \in VarSegs
      THEN [sub(k) EXCEPT !.vars = Bind([node |-> Append(n, child(k)), value |-> s], @)]
      ELSE sub(k)

(* match_route from the root, by the number of segments that are left; a     *)
(* path that is used up ends on the node itself, handlers or none.           *)
Match(tree, path) ==
  LET p == Significant(path)
      match[left \in 0 .. Len(p)] ==
        IF left = 0 THEN [n \in NodesOf(tree) |-> [node |-> n, vars |-> <<>>, found |-> TRUE]]
        ELSE LET rest == match[left - 1]
             IN  [n \in NodesOf(tree) |-> MatchAt(tree, n, p[Len(p) + 1 - left], rest)]
  IN match[Len(p)][<<>>]

(* Where in the list of a node the handlers for the method are. *)
HandlersFor(tree, node, method) == {k \in DOMAIN tree.handlers[node] : tree.handlers[node][k].method = method}

(* What c_rest_router_dispatch does with a request: 404, 405 or the handler  *)
(* that is the first in the list.                                            *)
Resolve(tree, path, method) ==
  LET m == Match(tree, path)
      hs == HandlersFor(tree, m.node, method)
  IN  CASE ~m.found -> [kind |-> "notFound"]
        [] m.found /\ hs = {} -> [kind |-> "noMethod"]
        [] OTHER -> [kind |-> "handler", run |-> tree.handlers[m.node][Least(hs)].run]
=============================================================================
