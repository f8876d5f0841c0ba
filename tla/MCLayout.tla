------------------------------ MODULE MCLayout ------------------------------
(***************************************************************************)
(* Every tree of four layout objects, one of a class of each kind at       *)
(* least, and at most one cell that cannot be read.                        *)
(***************************************************************************)
EXTENDS Layout, FiniteSetsExt

MCNodes == 1..4
MCContainer == {"blink::LayoutBlockFlow"}
MCLeaf == {"blink::LayoutText"}
MCForeign == {"blink::LayoutGrid"}

Heap(parent, foreign) ==
  LET children(n) == {m \in MCNodes : parent[m] = n}
      later(n) == {m \in children(parent[n]) : m > n}
      least(S) == IF S = {} THEN 0 ELSE Min(S)
  IN [parent |-> parent,
      next   |-> [n \in MCNodes |-> IF n = 1 THEN 0 ELSE least(later(n))],
      first  |-> [n \in MCNodes |-> least(children(n))],
      class  |-> [n \in MCNodes |->
                    CASE n \in foreign     -> "blink::LayoutGrid"
                      [] children(n) = {}  -> "blink::LayoutText"
                      [] OTHER             -> "blink::LayoutBlockFlow"],
      node_  |-> [n \in MCNodes |-> IF n = 3 THEN 0 ELSE 100 + n]]

MCHeaps ==
  {Heap(p, f) : p \in {q \in [MCNodes -> 0..3] : q[1] = 0 /\ \A n \in 2..4 : q[n] \in 1..n-1},
                f \in SUBSET (1..3)}

MCUnreadables == {{}} \cup {{c} : c \in MCNodes \X {"vtable", "node_", "parent", "next", "first"}}

==============================================================================
