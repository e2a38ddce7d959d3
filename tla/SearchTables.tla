------------------------------ MODULE SearchTables ------------------------------
(***************************************************************************)
(* The tables and lists that the programs keep: the open hash table of     *)
(* core/coreutils/src/utils/tsort/ohash.c, the trees of                    *)
(* core/coreutils/src/compat/tree.h and the lists of queue.h beside it;    *)
(* and tsort, which keeps its nodes in the first.                          *)
(***************************************************************************)
EXTENDS Text

-----------------------------------------------------------------------------
(* ohash.  A table: slots from 0, each with the hash value last stored and *)
(* an entry (its key, from 1), NoEntry or DELETED.  In the code MINSIZE is *)
(* 16 and MINDELETED 4.                                                    *)
MINSIZE == 4
MINDELETED == 2
NoEntry == 0
DELETED == 0 - 1
EmptySlots(n) == [i \in 0 .. n - 1 |-> [hv |-> 0, p |-> NoEntry]]
OhashInit(size) ==
  [t |-> EmptySlots(Larger(size, MINSIZE)), size |-> Larger(size, MINSIZE), total |-> 0, deleted |-> 0]

(* The positions a hash value leads to: the step is odd and the size a     *)
(* power of two, so all positions are met.                                 *)
Increment(hv, size) == LET r == hv % (size - 2) IN r - (r % 2) + 1
(* Variant with a mistake: an even step.                                   *)
EvenProbe(hv, size, k) == (hv + k * (Increment(hv, size) + 1)) % size
Probe(hv, size, k) == (hv + k * Increment(hv, size)) % size

(* ohash_resize: entries are put where they are found, deleted ones go.    *)
NewSize(h) ==
  Larger(MINSIZE, IF 4 * h.deleted < h.total THEN 2 * h.size
                  ELSE IF 3 * h.deleted > 2 * h.total THEN h.size \div 2 ELSE h.size)
FirstFree(t, hv, size) ==
  LET free == {k \in 0 .. size - 1 : t[Probe(hv, size, k)].p = NoEntry} IN Probe(hv, size, Min(free))
IsEntry(slot) == slot.p \notin {NoEntry, DELETED}
OhashResize(h) ==
  LET ns == NewSize(h)
      Put(t, slot) == IF IsEntry(slot) THEN [t EXCEPT ![FirstFree(t, slot.hv, ns)] = slot] ELSE t
  IN [t |-> FoldLeft(Put, EmptySlots(ns), [i \in 1 .. h.size |-> h.t[i - 1]]), size |-> ns,
      total |-> h.total - h.deleted, deleted |-> 0]

(* ohash_lookup_interval: the slot of the key, or the one to put it into.  *)
(* A key found behind a deleted slot moves there.  Without a free slot the *)
(* search of a missing key does not end.                                   *)
OhashLookup(h, key, hv) ==
  LET at(k) == Probe(hv, h.size, k)
      free == {k \in 0 .. h.size - 1 : h.t[at(k)].p = NoEntry}
      last == IF free = {} THEN h.size ELSE Min(free)
      hits == {k \in 0 .. last - 1 : h.t[at(k)] = [hv |-> hv, p |-> key]}
      stop == IF hits = {} THEN last ELSE Min(hits)
      deleted == {k \in 0 .. stop - 1 : h.t[at(k)].p = DELETED}
      i == at(IF deleted = {} THEN stop ELSE Min(deleted))
  IN IF hits = {} THEN IF free = {} THEN [ends |-> FALSE]
                       ELSE [ends |-> TRUE, h |-> [h EXCEPT !.t[i].hv = hv], i |-> i]
     ELSE [ends |-> TRUE, i |-> i,
           h |-> IF deleted = {} THEN h
                 ELSE [h EXCEPT !.t = [@ EXCEPT ![i] = h.t[at(stop)], ![at(stop)].p = DELETED]]]
OhashFind(h, i) == IF h.t[i].p = DELETED THEN NoEntry ELSE h.t[i].p
OhashInsert(h, i, key) ==
  LET put == [h EXCEPT !.t[i].p = key]
  IN IF h.t[i].p = DELETED THEN [put EXCEPT !.deleted = @ - 1]
     ELSE IF (h.total + 1) * 4 > h.size * 3 THEN OhashResize([put EXCEPT !.total = @ + 1])
     ELSE [put EXCEPT !.total = @ + 1]
OhashRemove(h, i) ==
  LET gone == [h EXCEPT !.t[i].p = DELETED, !.deleted = @ + 1]
  IN IF ~IsEntry(h.t[i]) THEN h
     ELSE IF gone.deleted >= MINDELETED /\ 4 * gone.deleted > gone.total THEN OhashResize(gone) ELSE gone
OhashEntries(h) == h.total - h.deleted
OhashWalk(h) ==
  LET slots == SelectSeq([i \in 1 .. h.size |-> h.t[i - 1]], IsEntry) IN [i \in DOMAIN slots |-> slots[i].p]

-----------------------------------------------------------------------------
(* Red-black trees over the keys 1 .. n; 0 is NULL, the parent of the root *)
(* too.  kid["l"], kid["r"]: the children.                                 *)
RbEmpty(n) ==
  [root |-> 0, kid |-> [s \in {"l", "r"} |-> [x \in 1 .. n |-> 0]], parent |-> [x \in 1 .. n |-> 0],
   red |-> {}]
Other(s) == IF s = "l" THEN "r" ELSE "l"
SideOf(h, x) == IF h.kid["l"][h.parent[x]] = x THEN "l" ELSE "r"
IsRed(h, x) == x # 0 /\ x \in h.red
SetBlackRed(h, black, red) == [h EXCEPT !.red = (@ \ {black}) \cup {red}]
(* What stood at x's place under its parent is now y.                      *)
PutUnder(h, parent, x, y) ==
  LET c == IF y = 0 THEN h ELSE [h EXCEPT !.parent[y] = parent]
  IN IF parent = 0 THEN [c EXCEPT !.root = y]
     ELSE [c EXCEPT !.kid[IF h.kid["l"][parent] = x THEN "l" ELSE "r"][parent] = y]
(* RB_ROTATE: the child on the other side comes up, x goes down to s.      *)
Rotate(h, x, s) ==
  LET up == h.kid[Other(s)][x]
      inner == h.kid[s][up]
      a == [h EXCEPT !.kid[Other(s)][x] = inner]
      b == IF inner = 0 THEN a ELSE [a EXCEPT !.parent[inner] = x]
      c == PutUnder(b, h.parent[x], x, up)
  IN [c EXCEPT !.kid[s][up] = x, !.parent[x] = up]

RECURSIVE InsertColor(_, _)
InsertColor(h, x) ==
  LET p == h.parent[x]
      g == h.parent[p]
      s == SideOf(h, p)
      uncle == h.kid[Other(s)][g]
      inner == h.kid[Other(s)][p] = x
      turned == IF inner THEN Rotate(h, p, s) ELSE h
      q == IF inner THEN x ELSE p
      low == IF inner THEN p ELSE x
  IN IF p = 0 \/ ~IsRed(h, p) THEN [h EXCEPT !.red = @ \ {h.root}]
     ELSE IF IsRed(h, uncle) THEN InsertColor(SetBlackRed([h EXCEPT !.red = @ \ {uncle}], p, g), g)
     ELSE InsertColor(Rotate(SetBlackRed(turned, q, g), g, Other(s)), low)
RECURSIVE Descend(_, _, _, _)
Descend(h, key, x, parent) ==
  IF x = 0 \/ key = x THEN [x |-> x, parent |-> parent]
  ELSE Descend(h, key, h.kid[IF key < x THEN "l" ELSE "r"][x], x)
RbFind(h, key) == Descend(h, key, h.root, 0).x
RbInsert(h, key) ==
  LET d == Descend(h, key, h.root, 0)
      s == IF key < d.parent THEN "l" ELSE "r"
      set == [h EXCEPT !.parent[key] = d.parent, !.kid["l"][key] = 0, !.kid["r"][key] = 0, !.red = @ \cup {key}]
  IN IF d.x # 0 THEN h
     ELSE InsertColor(IF d.parent = 0 THEN [set EXCEPT !.root = key]
                      ELSE [set EXCEPT !.kid[s][d.parent] = key], key)

(* x, which may be NULL, under p lacks a black node.                       *)
RECURSIVE RemoveColor(_, _, _)
RemoveColor(h, p, x) ==
  LET s == IF h.kid["l"][p] = x THEN "l" ELSE "r"
      o == Other(s)
      a == IF IsRed(h, h.kid[o][p]) THEN Rotate(SetBlackRed(h, h.kid[o][p], p), p, s) ELSE h
      sibling == a.kid[o][p]
      near == a.kid[s][sibling]
      b == IF IsRed(a, a.kid[o][sibling]) THEN a
           ELSE Rotate(SetBlackRed(a, near, sibling), sibling, o)
      up == b.kid[o][p]
      c == [b EXCEPT !.red = (IF p \in b.red THEN @ \cup {up} ELSE @ \ {up}) \ {p, b.kid[o][up]}]
      Blacken(k, y) == [k EXCEPT !.red = @ \ {y}]
  IN IF IsRed(h, x) \/ x = h.root THEN Blacken(h, x)
     ELSE IF ~IsRed(a, near) /\ ~IsRed(a, a.kid[o][sibling])
     THEN RemoveColor([a EXCEPT !.red = @ \cup {sibling}], a.parent[p], p)
     ELSE LET d == Rotate(c, p, s) IN Blacken(d, d.root)
RECURSIVE Least(_, _)
Least(h, x) == IF h.kid["l"][x] = 0 THEN x ELSE Least(h, h.kid["l"][x])
(* RB_REMOVE: with two children the next one takes its place and color.    *)
Cleared(h, x) == [h EXCEPT !.kid["l"][x] = 0, !.kid["r"][x] = 0, !.parent[x] = 0, !.red = @ \ {x}]
Fixed(h, black, p, x) == IF black THEN RemoveColor(h, p, x) ELSE h
RbRemove(h, x) ==
  LET l == h.kid["l"][x]
      r == h.kid["r"][x]
      next == Least(h, r)
      child == h.kid["r"][next]
      out == PutUnder(h, h.parent[next], next, child)
      parent == IF h.parent[next] = x THEN next ELSE h.parent[next]
      in == PutUnder([out EXCEPT !.red = IF x \in h.red THEN @ \cup {next} ELSE @ \ {next},
                                 !.kid["l"][next] = l, !.kid["r"][next] = out.kid["r"][x],
                                 !.parent[l] = next], h.parent[x], x, next)
      r2 == out.kid["r"][x]
      in2 == IF r2 = 0 THEN in ELSE [in EXCEPT !.parent[r2] = next]
      only == IF l = 0 THEN r ELSE l
  IN Cleared(IF l # 0 /\ r # 0 THEN Fixed(in2, next \notin h.red, parent, child)
             ELSE Fixed(PutUnder(h, h.parent[x], x, only), x \notin h.red, h.parent[x], only), x)

(* RB_NFIND, RB_NEXT and RB_PREV, RB_MINMAX.                               *)
RECURSIVE NfindFrom(_, _, _, _)
NfindFrom(h, key, x, best) ==
  IF x = 0 THEN best ELSE IF key = x THEN x
  ELSE IF key < x THEN NfindFrom(h, key, h.kid["l"][x], x) ELSE NfindFrom(h, key, h.kid["r"][x], best)
RECURSIVE Utmost(_, _, _)
Utmost(h, x, s) == IF x = 0 THEN 0 ELSE IF h.kid[s][x] = 0 THEN x ELSE Utmost(h, h.kid[s][x], s)
RECURSIVE Above(_, _, _)
Above(h, x, s) ==
  IF h.parent[x] = 0 THEN 0 ELSE IF SideOf(h, x) = Other(s) THEN h.parent[x] ELSE Above(h, h.parent[x], s)
Neighbour(h, x, s) == IF h.kid[s][x] # 0 THEN Utmost(h, h.kid[s][x], Other(s)) ELSE Above(h, x, s)
RECURSIVE WalkFrom(_, _)
WalkFrom(h, x) == IF x = 0 THEN <<>> ELSE <<x>> \o WalkFrom(h, Neighbour(h, x, "r"))
RbForeach(h) == WalkFrom(h, Utmost(h, h.root, "l"))

-----------------------------------------------------------------------------
(* Splay trees, without parents.  Place 0 of kid is the node under which   *)
(* SPLAY gathers what it takes off: hung["l"] is where smaller nodes are   *)
(* hung next (to the right), hung["r"] where larger ones are.              *)
SplayEmpty(n) == [root |-> 0, kid |-> [s \in {"l", "r"} |-> [x \in 0 .. n |-> 0]]]
SplayRotate(h, s) ==
  LET up == h.kid[s][h.root]
  IN [root |-> up, kid |-> [h.kid EXCEPT ![s][h.root] = h.kid[Other(s)][up], ![Other(s)][up] = h.root]]
SplayAssemble(h, hung) ==
  LET a == [h.kid EXCEPT !["r"][hung["l"]] = h.kid["l"][h.root], !["l"][hung["r"]] = h.kid["r"][h.root]]
  IN [h EXCEPT !.kid = [a EXCEPT !["l"][h.root] = a["r"][0], !["r"][h.root] = a["l"][0],
                                 !["l"][0] = 0, !["r"][0] = 0]]
Beyond(key, x, s) == IF s = "l" THEN key < x ELSE key > x
RECURSIVE SplayDown(_, _, _)
SplayDown(h, key, hung) ==
  LET s == IF key < h.root THEN "l" ELSE "r"
      below == h.kid[s][h.root]
      t == IF Beyond(key, below, s) THEN SplayRotate(h, s) ELSE h
      next == t.kid[s][t.root]
  IN IF key = h.root \/ below = 0 THEN SplayAssemble(h, hung)
     ELSE IF next = 0 THEN SplayAssemble(t, hung)
     ELSE SplayDown([root |-> next, kid |-> [t.kid EXCEPT ![s][hung[Other(s)]] = t.root]],
                    key, [hung EXCEPT ![Other(s)] = t.root])
Splay(h, key) == SplayDown(h, key, [s \in {"l", "r"} |-> 0])
SplayFind(h, key) == IF h.root = 0 THEN h ELSE Splay(h, key)
SplayAbove(h, key) ==
  LET s == IF key < h.root THEN "l" ELSE "r"
  IN [root |-> key, kid |-> [h.kid EXCEPT ![s][key] = h.kid[s][h.root], ![Other(s)][key] = h.root, ![s][h.root] = 0]]
SplayInsert(h, key) ==
  IF h.root = 0 THEN [root |-> key, kid |-> [h.kid EXCEPT !["l"][key] = 0, !["r"][key] = 0]]
  ELSE LET t == Splay(h, key) IN IF key = t.root THEN t ELSE SplayAbove(t, key)
SplayRemove(h, key) ==
  LET t == Splay(h, key)
      l == t.kid["l"][t.root]
      joined == Splay([t EXCEPT !.root = l], key)
      Without(u) == [u EXCEPT !.kid["l"][key] = 0, !.kid["r"][key] = 0]
  IN CASE h.root = 0 -> h
       [] key # t.root -> t
       [] l = 0 -> Without([t EXCEPT !.root = t.kid["r"][t.root]])
       [] OTHER -> Without([joined EXCEPT !.kid["r"][joined.root] = t.kid["r"][t.root]])
(* SPLAY_NEXT of an element that is in the tree; SPLAY_MIN and SPLAY_MAX   *)
(* (keys below and above all).                                             *)
SplayNext(h, key) == LET t == Splay(h, key) IN Utmost(t, t.kid["r"][key], "l")
SplayMin(h) == IF h.root = 0 THEN 0 ELSE Splay(h, 0).root
SplayMax(h) == IF h.root = 0 THEN 0 ELSE Splay(h, Max(DOMAIN h.kid["l"]) + 1).root

-----------------------------------------------------------------------------
(* The lists of core/coreutils/src/compat/queue.h, for elements 1 .. n and *)
(* some heads.  next[x] is the pointer in an element, next[h] the first of *)
(* head h, 0 is NULL.  prev[x] and prev[h] hold what stands beside it: for *)
(* LIST and TAILQ the place of the pointer to x, and of the last pointer;  *)
(* an element is laid out as a head is, which TAILQ_LAST relies on.        *)
Unlinked(n, heads) == [next |-> [x \in (1 .. n) \cup heads |-> 0], prev |-> [x \in (1 .. n) \cup heads |-> 0]]
LIST_INIT(q, h) == [q EXCEPT !.next[h] = 0]
LIST_INSERT_AFTER(q, x, e) ==
  LET y == q.next[x]
      linked == [q.next EXCEPT ![e] = y, ![x] = e]
  IN [next |-> linked, prev |-> IF y # 0 THEN [q.prev EXCEPT ![y] = e, ![e] = x] ELSE [q.prev EXCEPT ![e] = x]]
LIST_INSERT_BEFORE(q, x, e) ==
  [next |-> [q.next EXCEPT ![e] = x, ![q.prev[x]] = e], prev |-> [q.prev EXCEPT ![e] = q.prev[x], ![x] = e]]
LIST_INSERT_HEAD(q, h, e) == LIST_INSERT_AFTER(q, h, e)
LIST_REMOVE(q, e) ==
  [next |-> [q.next EXCEPT ![q.prev[e]] = q.next[e]],
   prev |-> IF q.next[e] # 0 THEN [q.prev EXCEPT ![q.next[e]] = q.prev[e]] ELSE q.prev]
RECURSIVE NextUntil(_, _, _)
NextUntil(q, x, end) == IF x = end THEN <<>> ELSE <<x>> \o NextUntil(q, q.next[x], end)
LIST_FOREACH(q, h) == NextUntil(q, q.next[h], 0)

RECURSIVE PrevOf(_, _, _)
PrevOf(q, x, e) == IF q.next[x] = e THEN x ELSE PrevOf(q, q.next[x], e)
SLIST_INSERT_AFTER(q, x, e) == [q EXCEPT !.next = [@ EXCEPT ![e] = q.next[x], ![x] = e]]
SLIST_INSERT_HEAD(q, h, e) == SLIST_INSERT_AFTER(q, h, e)
SLIST_REMOVE_HEAD(q, h) == [q EXCEPT !.next[h] = q.next[q.next[h]]]
SLIST_REMOVE(q, h, e) ==
  IF q.next[h] = e THEN SLIST_REMOVE_HEAD(q, h) ELSE [q EXCEPT !.next[PrevOf(q, q.next[h], e)] = q.next[e]]

STAILQ_INIT(q, h) == [q EXCEPT !.next[h] = 0, !.prev[h] = h]
STAILQ_INSERT_AFTER(q, h, x, e) ==
  [next |-> [q.next EXCEPT ![e] = q.next[x], ![x] = e], prev |-> IF q.next[x] = 0 THEN [q.prev EXCEPT ![h] = e] ELSE q.prev]
STAILQ_INSERT_HEAD(q, h, e) == STAILQ_INSERT_AFTER(q, h, h, e)
STAILQ_INSERT_TAIL(q, h, e) == [next |-> [q.next EXCEPT ![e] = 0, ![q.prev[h]] = e], prev |-> [q.prev EXCEPT ![h] = e]]
STAILQ_REMOVE_HEAD(q, h) ==
  LET y == q.next[q.next[h]] IN [q EXCEPT !.next[h] = y, !.prev[h] = IF y = 0 THEN h ELSE @]
STAILQ_REMOVE(q, h, e) ==
  LET x == PrevOf(q, q.next[h], e)
  IN IF q.next[h] = e THEN STAILQ_REMOVE_HEAD(q, h)
     ELSE [q EXCEPT !.next[x] = q.next[e], !.prev[h] = IF q.next[e] = 0 THEN x ELSE @]
STAILQ_CONCAT(q, h, k) ==
  IF q.next[k] = 0 THEN q
  ELSE STAILQ_INIT([next |-> [q.next EXCEPT ![q.prev[h]] = q.next[k]], prev |-> [q.prev EXCEPT ![h] = q.prev[k]]], k)

TAILQ_INIT(q, h) == STAILQ_INIT(q, h)
TAILQ_INSERT_AFTER(q, h, x, e) ==
  LET y == q.next[x]
  IN [next |-> [q.next EXCEPT ![e] = y, ![x] = e],
      prev |-> IF y # 0 THEN [q.prev EXCEPT ![y] = e, ![e] = x] ELSE [q.prev EXCEPT ![h] = e, ![e] = x]]
TAILQ_INSERT_HEAD(q, h, e) == TAILQ_INSERT_AFTER(q, h, h, e)
TAILQ_INSERT_BEFORE(q, x, e) == LIST_INSERT_BEFORE(q, x, e)
TAILQ_INSERT_TAIL(q, h, e) ==
  [next |-> [q.next EXCEPT ![e] = 0, ![q.prev[h]] = e], prev |-> [q.prev EXCEPT ![e] = q.prev[h], ![h] = e]]
TAILQ_REMOVE(q, h, e) ==
  LET y == q.next[e]
  IN [next |-> [q.next EXCEPT ![q.prev[e]] = y], prev |-> [q.prev EXCEPT ![IF y # 0 THEN y ELSE h] = q.prev[e]]]
TAILQ_CONCAT(q, h, k) ==
  LET joined == [next |-> [q.next EXCEPT ![q.prev[h]] = q.next[k]],
                 prev |-> [q.prev EXCEPT ![q.next[k]] = q.prev[h], ![h] = q.prev[k]]]
  IN IF q.next[k] = 0 THEN q ELSE TAILQ_INIT(joined, k)
TAILQ_PREV(q, x) == q.next[q.prev[q.prev[x]]]
TAILQ_LAST(q, h) == TAILQ_PREV(q, h)
RECURSIVE PrevFrom(_, _)
PrevFrom(q, x) == IF x = 0 THEN <<>> ELSE <<x>> \o PrevFrom(q, TAILQ_PREV(q, x))
TAILQ_FOREACH_REVERSE(q, h) == PrevFrom(q, TAILQ_LAST(q, h))

(* Circular queues: next and prev are elements, or the head itself.        *)
CIRCLEQ_INIT(q, h) == [next |-> [q.next EXCEPT ![h] = h], prev |-> [q.prev EXCEPT ![h] = h]]
CIRCLEQ_INSERT_AFTER(q, x, e) ==
  [next |-> [q.next EXCEPT ![e] = q.next[x], ![x] = e], prev |-> [q.prev EXCEPT ![e] = x, ![q.next[x]] = e]]
CIRCLEQ_INSERT_BEFORE(q, x, e) ==
  [next |-> [q.next EXCEPT ![e] = x, ![q.prev[x]] = e], prev |-> [q.prev EXCEPT ![e] = q.prev[x], ![x] = e]]
CIRCLEQ_INSERT_HEAD(q, h, e) == CIRCLEQ_INSERT_AFTER(q, h, e)
CIRCLEQ_INSERT_TAIL(q, h, e) == CIRCLEQ_INSERT_BEFORE(q, h, e)
CIRCLEQ_REMOVE(q, e) ==
  [next |-> [q.next EXCEPT ![q.prev[e]] = q.next[e]], prev |-> [q.prev EXCEPT ![q.next[e]] = q.prev[e]]]
CIRCLEQ_FOREACH(q, h) == NextUntil(q, q.next[h], h)
RECURSIVE PrevUntil(_, _, _)
PrevUntil(q, x, end) == IF x = end THEN <<>> ELSE <<x>> \o PrevUntil(q, q.prev[x], end)
CIRCLEQ_FOREACH_REVERSE(q, h) == PrevUntil(q, q.prev[h], h)
CIRCLEQ_LOOP_NEXT(q, h, x) == IF q.next[x] = h THEN q.next[h] ELSE q.next[x]
CIRCLEQ_LOOP_PREV(q, h, x) == IF q.prev[x] = h THEN q.prev[h] ELSE q.prev[x]

-----------------------------------------------------------------------------
(* tsort: reading pairs and hints, the sort, and how cycles are found and  *)
(* broken (core/coreutils/src/utils/tsort/tsort.c).  A node is its place   *)
(* among the entries of the hash table; a graph g keeps its arcs, and the  *)
(* fields of its nodes, by node.                                           *)

NO_ORDER == 1000                        \* UINT_MAX: later than every hint
NoNode == 0
NewGraph(k) ==
  [arcs |-> Repeat(<<>>, k), refs |-> Repeat(0, k), order |-> Repeat(NO_ORDER, k),
   traverse |-> Repeat(0, k), mark |-> Repeat(0, k), next |-> 0]
Table(g) == [i \in DOMAIN g.arcs |-> i]  \* ohash_first, ohash_next

(* insert_arc, the pairs (read_pairs) and the hints (read_hints).          *)
InsertArc(g, a, b) ==
  IF b \in ToSet(g.arcs[a]) THEN g
  ELSE [g EXCEPT !.arcs[a] = <<b>> \o @, !.refs[b] = @ + 1]
NumberNode(g, a) ==
  IF g.order[a] # NO_ORDER THEN g ELSE [g EXCEPT !.order[a] = g.next, !.next = @ + 1]
ReadPair(g, pair, o) ==
  LET a == pair[1]  b == pair[2]
      h == IF o.f THEN NumberNode(g, a) ELSE g
  IN IF a = b THEN h ELSE IF o.r THEN InsertArc(h, b, a) ELSE InsertArc(h, a, b)
ReadInput(k, hints, pairs, o) ==
  FoldLeft(LAMBDA g, p : ReadPair(g, p, o), FoldLeft(NumberNode, NewGraph(k), hints), pairs)

-----------------------------------------------------------------------------
(* The heap of nodes without predecessors, ordered by the hints.           *)
Exchange(h, i, j) == [h EXCEPT ![i] = h[j], ![j] = h[i]]
RECURSIVE HeapDown(_, _, _)
HeapDown(h, i, order) ==
  LET l == 2 * i
      j == IF l + 1 <= Len(h) /\ order[h[l + 1]] < order[h[l]] THEN l + 1 ELSE l
  IN IF l > Len(h) \/ order[h[i]] <= order[h[j]] THEN h
     ELSE HeapDown(Exchange(h, i, j), j, order)
Heapify(h, order) ==
  FoldLeft(LAMBDA k, i : HeapDown(k, Len(h) + 1 - i, order), h, [i \in 1 .. Len(h) |-> i])
RECURSIVE HeapUp(_, _, _)
HeapUp(h, i, order) ==
  IF i = 1 \/ order[h[i \div 2]] < order[h[i]] THEN h
  ELSE HeapUp(Exchange(h, i, i \div 2), i \div 2, order)
(* Variant with a mistake: a node that gets ready waits for those before it. *)
EnqueueLast(h, n, order, o) == Append(h, n)
Enqueue(h, n, order, o) ==
  IF o.hints THEN HeapUp(Append(h, n), Len(h) + 1, order) ELSE Append(h, n)
Dequeue(h, order, o) ==
  IF ~o.hints THEN [n |-> Last(h), h |-> Front(h)]
  ELSE [n |-> h[1], h |-> IF Len(h) = 1 THEN <<>> ELSE HeapDown(<<Last(h)>> \o SubSeq(h, 2, Len(h) - 1), 1, order)]

(* make_transparent: nodes without a hint take the least of their arcs,    *)
(* those first whose arcs all have one.                                    *)
LeastArc(g, n) == Min({g.order[m] : m \in ToSet(g.arcs[n])} \cup {NO_ORDER})
Unhinted(g, n) == g.order[n] = NO_ORDER
RECURSIVE CompleteNodes(_)
CompleteNodes(g) ==
  LET one(st, n) ==
        IF ~Unhinted(st.g, n) THEN st
        ELSE IF \E m \in ToSet(st.g.arcs[n]) : Unhinted(st.g, m) THEN [st EXCEPT !.bad = TRUE]
        ELSE IF LeastArc(st.g, n) = NO_ORDER THEN st
        ELSE [st EXCEPT !.g.order[n] = LeastArc(st.g, n), !.adjusted = TRUE]
      round == FoldLeft(one, [g |-> g, bad |-> FALSE, adjusted |-> FALSE], Table(g))
  IN IF round.adjusted THEN CompleteNodes(round.g) ELSE round
RECURSIVE OtherNodes(_, _, _)
OtherNodes(g, n, adjusted) ==
  IF n <= Len(g.arcs)
    THEN IF Unhinted(g, n) /\ LeastArc(g, n) # NO_ORDER
           THEN OtherNodes([g EXCEPT !.order[n] = LeastArc(g, n)], n + 1, TRUE)
           ELSE OtherNodes(g, n + 1, adjusted)
  ELSE IF adjusted THEN OtherNodes(g, 1, FALSE) ELSE g
Transparent(c) == IF c.bad THEN OtherNodes(c.g, 1, FALSE) ELSE c.g
MakeTransparent(g) == Transparent(CompleteNodes(g))

-----------------------------------------------------------------------------
(* find_good_cycle_break and find_smallest_node; NoNode: the assertion at  *)
(* their end fails.                                                        *)
Live(g, a) == SelectSeq(a, LAMBDA n : g.refs[n] # 0)
FewestRefs(g, a) ==
  FoldLeft(LAMBDA u, n : IF u = NoNode \/ g.refs[n] < g.refs[u] THEN n ELSE u, NoNode, Live(g, a))
GoodCycleBreak(g, a) ==
  LET one == SelectInSeq(a, LAMBDA n : g.refs[n] = 1) IN IF one # 0 THEN a[one] ELSE FewestRefs(g, a)
SmallestNode(g, a) ==
  FoldLeft(LAMBDA u, n : IF g.order[n] < (IF u = NoNode THEN NO_ORDER ELSE g.order[u]) THEN n ELSE u,
           NoNode, Live(g, a))

(* The next arc of a node to explore: dead nodes are skipped, 0 at the end.*)
NextArc(g, n) ==
  LET left == {i \in g.traverse[n] + 1 .. Len(g.arcs[n]) : g.refs[g.arcs[n][i]] # 0}
  IN IF left = {} THEN 0 ELSE Min(left)
Target(g, n) == g.arcs[n][NextArc(g, n)]
Advance(g, n) == [g EXCEPT !.traverse[n] = NextArc(g, n)]

(* find_cycle_from: path is the way back along the from pointers, its last *)
(* node the current one.                                                   *)
RECURSIVE CycleFrom(_, _)
CycleFrom(g, path) ==
  LET n == Last(path)
      h == Advance(g, n)
      go == Target(g, n)
      at == SelectInSeq(path, LAMBDA m : m = go)
  IN IF NextArc(g, n) = 0
       THEN IF Len(path) = 1 THEN [g |-> h, cycle |-> <<>>] ELSE CycleFrom(h, Front(path))
     ELSE IF at # 0 THEN [g |-> h, cycle |-> Reverse(From(path, at))]
     ELSE CycleFrom(h, Append(path, go))
(* find_predecessor and find_normal_cycle; the cycle's last node is the    *)
(* one that it is broken at.                                               *)
Predecessor(g, a, n) == LET l == Live(g, a) IN l[SelectInSeq(l, LAMBDA m : n \in ToSet(g.arcs[m]))]
RECURSIVE CycleBefore(_, _, _)
CycleBefore(g, a, n) ==
  LET c == CycleFrom(g, <<n>>)
  IN IF c.cycle # <<>> THEN [g |-> c.g, cycle |-> c.cycle, node |-> Last(c.cycle)]
     ELSE CycleBefore(c.g, a, Predecessor(c.g, a, n))
NormalCycle(g, a, o) ==
  LET n == IF o.hints THEN SmallestNode(g, a) ELSE GoodCycleBreak(g, a)
  IN IF n = NoNode THEN [g |-> g, cycle |-> <<>>, node |-> NoNode] ELSE CycleBefore(g, a, n)

(* traverse_node: min marks what this pass is done with, greater marks the *)
(* path.                                                                   *)
RECURSIVE TraverseNode(_, _, _, _, _, _)
TraverseNode(g, path, o, min, max, c) ==
  LET n == Last(path)
      marked == [Advance(g, n) EXCEPT !.mark[n] = o]
      go == Target(g, n)
      m == marked.mark[go]
      cycle == Reverse(From(path, SelectInSeq(path, LAMBDA x : x = go)))
      \* the node that closes it first, then back along the path
      found == <<go>> \o Front(cycle)
  IN IF NextArc(g, n) = 0
       THEN LET h == [marked EXCEPT !.mark[n] = min]
            IN IF Len(path) = 1 THEN [g |-> h, max |-> max, c |-> c]
               ELSE TraverseNode(h, Front(path), o - 1, min, max, c)
     ELSE IF m \in {0, min}
       THEN TraverseNode(marked, Append(path, go), o + 1, min, Larger(max, o + 1), c)
     ELSE TraverseNode(marked, path, o, min, max, IF m > min /\ Len(found) > Len(c) THEN found ELSE c)
(* find_longest_cycle: every round forgets the marks of the one before.    *)
VisitNode(st, n) ==
  IF st.g.refs[n] = 0 \/ st.g.mark[n] # 0 THEN st
  ELSE LET t == TraverseNode(st.g, <<n>>, st.o + 2, st.o + 1, st.o + 2, st.c)
       IN [g |-> t.g, o |-> t.max, c |-> t.c]
CycleFound(st) == [g |-> st.g, cycle |-> st.c, node |-> FewestRefs(st.g, st.c)]
LongestCycle(g, a) ==
  CycleFound(FoldLeft(VisitNode, [g |-> [g EXCEPT !.mark = Repeat(0, Len(g.mark))], o |-> 0, c |-> <<>>], a))

(* tsort: what is ready is written and its arcs are taken away; when only  *)
(* cycles are left one is broken.                                          *)
ArcGone(st, m, o) ==
  LET h == [st.g EXCEPT !.refs[m] = @ - 1]
  IN IF st.g.refs[m] = 0 THEN st
     ELSE [g |-> h, ready |-> IF h.refs[m] = 0 THEN Enqueue(st.ready, m, h.order, o) ELSE st.ready]
RECURSIVE WriteReady(_, _, _)
WriteNode(st, d, out, o) ==
  WriteReady(FoldLeft(LAMBDA x, m : ArcGone(x, m, o), [st EXCEPT !.ready = d.h], st.g.arcs[d.n]),
             Append(out, d.n), o)
WriteReady(st, out, o) ==
  IF st.ready = <<>> THEN [g |-> st.g, out |-> out]
  ELSE WriteNode(st, Dequeue(st.ready, st.g.order, o), out, o)
RECURSIVE SortRounds(_, _, _, _, _)
CycleBroken(c, a, st, o) ==
  IF c.node = NoNode THEN [st EXCEPT !.aborted = TRUE]
  ELSE SortRounds([c.g EXCEPT !.refs[c.node] = 0], <<c.node>>, a,
                  [st EXCEPT !.broken = Append(@, c.node), !.cycles = Append(@, c.cycle)], o)
RoundWritten(w, a, st, o) ==
  IF Len(w.out) = Len(w.g.refs) THEN [st EXCEPT !.out = w.out]
  ELSE CycleBroken(IF o.l THEN LongestCycle(w.g, a) ELSE NormalCycle(w.g, a, o),
                   a, [st EXCEPT !.out = w.out], o)
SortRounds(g, ready, a, st, o) == RoundWritten(WriteReady([g |-> g, ready |-> ready], st.out, o), a, st, o)
SortGraph(g, o) ==
  LET heap == SelectSeq(Table(g), LAMBDA n : g.refs[n] = 0)
  IN SortRounds(g, IF o.hints THEN Heapify(heap, g.order) ELSE heap,
                SelectSeq(Table(g), LAMBDA n : g.refs[n] # 0),
                [out |-> <<>>, broken |-> <<>>, cycles |-> <<>>, aborted |-> FALSE], o)
Tsort(g, o) == SortGraph(IF o.hints THEN MakeTransparent(g) ELSE g, o)
TsortStatus(result, o) == IF o.w THEN Smaller(Len(result.broken), 255) ELSE 0

-----------------------------------------------------------------------------
(* Every node is written once, after all that must come before it unless a *)
(* cycle was broken there; the cycles told are cycles of the graph, one    *)
(* for every break, and -l tells a longest one of those left first.        *)
Place(s, x) == SelectInSeq(s, LAMBDA y : y = x)
Arcs(g) == {<<a, b>> \in (DOMAIN g.arcs) \X (DOMAIN g.arcs) : b \in ToSet(g.arcs[a])}
Closes(g, c) ==                         \* told from the end backwards
  /\ c # <<>> /\ Len(c) = Cardinality(ToSet(c))
  /\ \A i \in DOMAIN c : c[(i % Len(c)) + 1] \in DOMAIN g.arcs
  /\ \A i \in DOMAIN c : <<c[(i % Len(c)) + 1], c[i]>> \in Arcs(g)
ReadyAt(g, out, i) ==
  {n \in ToSet(From(out, i)) : \A a \in Arcs(g) : a[2] = n => Place(out, a[1]) < i}
TsortRight(g, o, r) ==
  LET out == r.out
      late == {a \in Arcs(g) : Place(out, a[1]) > Place(out, a[2])}
  IN ~r.aborted =>
       /\ Len(out) = Len(g.arcs) /\ ToSet(out) = DOMAIN g.arcs
       /\ {a[2] : a \in late} \subseteq ToSet(r.broken)
       /\ \A k \in DOMAIN r.cycles : Closes(g, r.cycles[k]) /\ r.broken[k] \in ToSet(r.cycles[k])
       /\ \A k \in DOMAIN r.broken : \E a \in late : a[2] = r.broken[k]
       /\ o.hints /\ r.broken = <<>> =>
            LET order == MakeTransparent(g).order
            IN \A i \in DOMAIN out : \A n \in ReadyAt(g, out, i) : order[out[i]] <= order[n]
LongestFirst(g, r) ==
  \A c \in UNION {[1 .. k -> DOMAIN g.arcs] : k \in 1 .. Len(g.arcs)} :
    Closes(g, c) => Len(c) <= Len(r.cycles[1])
===============================================================================
