-------------------------------- MODULE MCDom --------------------------------
(***************************************************************************)
(* Every tree of four nodes with any of them a shadow root, and at most    *)
(* one cell that cannot be read.                                           *)
(***************************************************************************)
EXTENDS Dom, FiniteSetsExt

MCNodes == 1..4

(* The members a tree given by its parent links and shadow roots has.  What  *)
(* stands in memory where a text node's first child would be is the root.    *)
Heap(parent, shadow, rare) ==
  LET children(n) == {m \in MCNodes \ shadow : parent[m] = n}
      later(n) == {m \in MCNodes \ shadow : n \notin shadow /\ parent[m] = parent[n] /\ m > n}
      least(S) == IF S = {} THEN 0 ELSE Min(S)
      container == {1} \cup shadow \cup {parent[m] : m \in MCNodes \ {1}}
  IN [parent    |-> parent,
      next      |-> [n \in MCNodes |-> IF n = 1 THEN 0 ELSE least(later(n))],
      first     |-> [n \in MCNodes |-> IF n \in container THEN least(children(n)) ELSE 1],
      container |-> container,
      rare      |-> rare \cup {parent[m] : m \in shadow},
      shadow    |-> shadow,
      layout    |-> [n \in MCNodes |-> IF n = 4 THEN 0 ELSE 100 + n]]

MCHeaps ==
  {Heap(p, s, r) : p \in {q \in [MCNodes -> 0..3] : q[1] = 0 /\ \A n \in 2..4 : q[n] \in 1..n-1},
                   s \in SUBSET (2..4), r \in {{}, {2, 3}}}

MCUnreadables == {{}} \cup {{c} : c \in MCNodes \X
  {"flags", "parent", "next", "first", "data", "node_layout_data_", "layout"}}

==============================================================================
