------------------------------- MODULE Layout -------------------------------
(***************************************************************************)
(* !lay: the walk of TreeDump over blink::LayoutObject objects.  Which     *)
(* class of the extension loads an object, and so whether its children are *)
(* dumped, is decided by the name of its vtable: a class CreateNode does   *)
(* not know is loaded as a plain LayoutObject, which has no children.      *)
(***************************************************************************)
EXTENDS TreeDump

CONSTANTS
  Container,    \* the names in ctors of a class with children_
  Leaf,         \* the other names in ctors
  Foreign,      \* the other names an object's vtable may have
  NoName,       \* the name of no vtable
  Garbage,      \* the words that can be left in memory a new object gets
  Heaps,        \* the trees that can be in the target
  Unreadables   \* the sets of cells <<object, member>> that cannot be read

Members == {"vtable", "node_", "parent", "next", "first"}

(* A heap gives each object its links, the name of its class and its node_.  *)
(* In the target an object of any class may have children, except for those  *)
(* of a class in Leaf.                                                       *)
ASSUME HeapsOK ==
  /\ Container \cap Leaf = {} /\ Foreign \cap (Container \cup Leaf) = {}
  /\ NoName \notin Container \cup Leaf \cup Foreign
  /\ \A h \in Heaps :
       /\ IsTree(h)
       /\ h.class \in [Nodes -> Container \cup Leaf \cup Foreign]
       /\ \A n \in Nodes : h.class[n] \in Leaf => h.first[n] = Null
       /\ DOMAIN h.node_ = Nodes
  /\ \A u \in Unreadables : u \subseteq Nodes \X Members

VARIABLES
  heap, unreadable,  \* the target
  garbage            \* the word a new LayoutObject finds where its node_ will be

target == <<heap, unreadable, garbage>>
vars == <<target, walk>>

Readable(n, f) == n # Null /\ <<n, f>> \notin unreadable
ReadLink(n, f) == IF Readable(n, f) THEN heap[f][n] ELSE Null

ResolveType_Any(n) == IF n # Null THEN heap.class[n] ELSE NoName
ResolveType(n) == IF Readable(n, "vtable") THEN heap.class[n] ELSE NoName

FirstChild(n) == IF ResolveType(n) \in Container THEN ReadLink(n, "first") ELSE Null

(* CreateNode(0) does not load, and the constructor leaves node_ as it was.  *)
NodeOf(n) == IF n = Null THEN garbage ELSE ReadLink(n, "node_")

Loaded == [parent |-> [n \in Addresses |-> ReadLink(n, "parent")],
           next   |-> [n \in Addresses |-> ReadLink(n, "next")],
           first  |-> [n \in Addresses |-> FirstChild(n)],
           label  |-> [n \in Addresses |-> <<ResolveType(n), NodeOf(n)>>]]

Init ==
  /\ heap \in Heaps /\ unreadable \in Unreadables
  /\ garbage \in Garbage
  /\ links = Loaded
  /\ StartWalk

Next == Walk /\ UNCHANGED target

(* A command runs to its end; nothing in it waits. *)
Spec == Init /\ [][Next]_vars /\ WF_vars(Next)

------------------------------------------------------------------------------
(* Properties, about the tree as it is. *)

(* No object is printed twice, and every line but the first stands under its *)
(* parent's.                                                                 *)
UnderItsParent == UnderParents(heap)

(* The class and the node on the line of an object are its own or, if they   *)
(* could not be read, none.                                                  *)
LabelsTrue ==
  \A k \in DOMAIN out : LET n == out[k].addr IN n # Null =>
    /\ out[k].label[1] = IF Readable(n, "vtable") THEN heap.class[n] ELSE NoName
    /\ out[k].label[2] = IF Readable(n, "node_") THEN heap.node_[n] ELSE Null

(* Every line is where it belongs and says what is so. *)
EveryLineTrue == UnderItsParent /\ LabelsTrue

(* An object of the tree is missing from a complete dump only if the climb   *)
(* was cut short, or an earlier sibling's next link could not be read, or an *)
(* ancestor's children could not: its first child or its vtable was not      *)
(* readable, or its class is not one CreateNode knows, which is the one case *)
(* a warning is printed for.                                                 *)
LossExplained ==
  pc = "done" =>
    \A top \in Path(heap, start) : heap.parent[top] = Null =>
      \A n \in Within(heap, top) \ Listed :
        \E m \in Nodes :
          \/ m \in Path(heap, start) /\ ~Readable(m, "parent")
          \/ n \in Within(heap, heap.next[m]) /\ ~Readable(m, "next")
          \/ /\ n \in Within(heap, heap.first[m])
             /\ ~Readable(m, "first") \/ ~Readable(m, "vtable") \/ heap.class[m] \in Foreign

==============================================================================
