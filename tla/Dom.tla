--------------------------------- MODULE Dom ---------------------------------
(***************************************************************************)
(* !dom: the walk of TreeDump over blink::Node objects.  Memory is read    *)
(* link by link, and a link that cannot be read counts as null, since      *)
(* ReadPointerEx and ReadValue zero their result first: what cannot be     *)
(* reached is silently not dumped.                                         *)
(***************************************************************************)
EXTENDS TreeDump

CONSTANTS
  Junk,         \* a word that is not what its reader takes it for
  Heaps,        \* the trees that can be in the target
  Unreadables   \* the sets of cells <<node, member>> that cannot be read

Members == {"flags", "parent", "next", "first", "data", "node_layout_data_", "layout"}

(* What is where a text node would have a first child is no link of the tree. *)
Tree(h) ==
  [parent |-> h.parent, next |-> h.next,
   first |-> [n \in Nodes |-> IF n \in h.container THEN h.first[n] ELSE Null]]

(* A heap gives each node its links, its kind, and the layout object its     *)
(* NodeRenderingData holds.  A shadow root has its host as                   *)
(* parent_or_shadow_host_node_ but is not linked as a child of it; every     *)
(* other node is its parent's first child or a sibling's next.               *)
ASSUME HeapsOK ==
  /\ \A h \in Heaps :
       /\ \A f \in {"parent", "next", "first"} : h[f] \in [Nodes -> Addresses]
       /\ h.container \subseteq Nodes /\ h.rare \subseteq Nodes /\ h.shadow \subseteq Nodes
       /\ DOMAIN h.layout = Nodes
       /\ IsTree(Tree(h))
       /\ \A n \in Nodes : h.parent[n] # Null =>
            (n \notin h.shadow <=> \/ Tree(h).first[h.parent[n]] = n
                                  \/ \E m \in Nodes : h.next[m] = n)
       /\ \A n \in h.shadow : h.parent[n] # Null /\ h.next[n] = Null
  /\ \A u \in Unreadables : u \subseteq Nodes \X Members

VARIABLES heap, unreadable  \* the target

target == <<heap, unreadable>>
vars == <<target, walk>>

Readable(n, f) == n # Null /\ <<n, f>> \notin unreadable

ReadLink(n, f) == IF Readable(n, f) THEN heap[f][n] ELSE Null
HasFlag(n, mask) == Readable(n, "flags") /\ n \in heap[mask]

Parent_WithinScope(n) == IF n \in heap.shadow THEN Null ELSE ReadLink(n, "parent")
(* Parent() is the shadow host for a shadow root. *)
Parent(n) == ReadLink(n, "parent")

(* CreateNode: only a container is loaded, and dumped, with children. *)
FirstChild(n) == IF HasFlag(n, "container") THEN ReadLink(n, "first") ELSE Null

(* data_ points to a NodeRenderingData or to the rare data that points to    *)
(* one; a flag elsewhere in the node tells which.                            *)
LayoutOf(n) == ReadLink(n, "layout")
LayoutOfRareData(n) == IF Readable(n, "node_layout_data_") THEN LayoutOf(n) ELSE Null

GetLayoutObject_NoRareData(n) ==
  IF ~Readable(n, "data") THEN Null
  ELSE IF n \in heap.rare THEN Junk ELSE LayoutOf(n)
GetLayoutObject(n) ==
  IF ~Readable(n, "data") THEN Null
  ELSE IF HasFlag(n, "rare") THEN LayoutOfRareData(n)
  ELSE IF n \in heap.rare THEN Junk ELSE LayoutOf(n)

Loaded == [parent |-> [n \in Addresses |-> Parent(n)],
           next   |-> [n \in Addresses |-> ReadLink(n, "next")],
           first  |-> [n \in Addresses |-> FirstChild(n)],
           label  |-> [n \in Addresses |-> GetLayoutObject(n)]]

Init ==
  /\ heap \in Heaps /\ unreadable \in Unreadables
  /\ links = Loaded
  /\ StartWalk

Next == Walk /\ UNCHANGED target

(* A command runs to its end; nothing in it waits. *)
Spec == Init /\ [][Next]_vars /\ WF_vars(Next)

------------------------------------------------------------------------------
(* Properties, about the tree as it is. *)

(* No node is printed twice, and a line below the first stands under the     *)
(* line of the node's parent.                                                *)
UnderItsParent == UnderParents(Tree(heap))

(* The layout object on a line is the node's own or none, except where the   *)
(* flags could not be read: rare data is then taken for rendering data.      *)
LabelsTrue ==
  \A k \in DOMAIN out : LET n == out[k].addr IN n # Null =>
    \/ out[k].label = heap.layout[n]
    \/ out[k].label = Null /\ \E f \in {"data", "node_layout_data_", "layout"} : ~Readable(n, f)
    \/ out[k].label = Junk /\ ~Readable(n, "flags")

(* Every line is where it belongs and says what is so. *)
EveryLineTrue == UnderItsParent /\ LabelsTrue

(* A node of the document is missing from a complete dump only if a link on  *)
(* the way to it could not be read: a parent link above the given node, or   *)
(* the flags or the first child of an ancestor, or the next link of an       *)
(* earlier sibling of the node or of an ancestor.                            *)
LossExplained ==
  pc = "done" =>
    \A top \in Path(Tree(heap), start) : heap.parent[top] = Null =>
      \A n \in Within(Tree(heap), top) \ Listed :
        \E m \in Nodes :
          \/ m \in Path(Tree(heap), start) /\ ~Readable(m, "parent")
          \/ /\ n \in Within(Tree(heap), Tree(heap).first[m])
             /\ ~(Readable(m, "flags") /\ Readable(m, "first"))
          \/ n \in Within(Tree(heap), heap.next[m]) /\ ~Readable(m, "next")

(* The node the user asked for is in its own dump, unless it is in a shadow  *)
(* tree: from there the climb goes on to the host and its document.          *)
StartListed ==
  pc = "done" /\ start # Null /\ unreadable = {} =>
    (start \in Listed <=> Path(Tree(heap), start) \cap heap.shadow = {})

==============================================================================
