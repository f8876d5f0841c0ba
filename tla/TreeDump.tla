------------------------------ MODULE TreeDump ------------------------------
(***************************************************************************)
(* The walk !dom and !lay share: climb from the given address to the root, *)
(* then dump the tree below it, each child before its next sibling, the    *)
(* children of a child before that.  The target stands still meanwhile, so *)
(* what its links read as is fixed when the command starts.                *)
(***************************************************************************)
EXTENDS Naturals, Sequences, FiniteSets

CONSTANTS
  Nodes,  \* the addresses of nodes
  Null

ASSUME NullOK == Null \notin Nodes

(* A target has room for so many of them only.                               *)
ASSUME NodesFinite == IsFiniteSet(Nodes)

Addresses == Nodes \cup {Null}

(* A tree gives each node its parent, first child and next sibling, but a    *)
(* node may have a parent whose children it is not linked with.              *)
IsTree(t) ==
  /\ \A f \in {"parent", "next", "first"} : t[f] \in [Nodes -> Addresses]
  /\ \A n \in Nodes :
       /\ t.first[n] # Null => t.parent[t.first[n]] = n
       /\ t.next[n] # Null => t.parent[n] # Null /\ t.parent[t.next[n]] = t.parent[n]
       /\ t.first[n] # Null => \A m \in Nodes : t.next[m] # t.first[n]
       /\ t.next[n] # Null => \A m \in Nodes : t.next[m] = t.next[n] => m = n
  /\ \A S \in (SUBSET Nodes) \ {{}} :
       /\ \E n \in S : t.parent[n] \notin S
       /\ \E n \in S : \A m \in S : t.next[m] # n

VARIABLES
  links,    \* [parent, next, first, label]: what each address reads as
  start,    \* the address given
  pc,       \* "climb", "dump" or "done"
  node,     \* the cursor of GetRoot
  pending,  \* child_addr in each active Dump, the innermost first
  out       \* the lines printed

walk == <<links, start, pc, node, pending, out>>

StartWalk ==
  /\ start \in Addresses
  /\ pc = "climb" /\ node = start
  /\ pending = <<>> /\ out = <<>>

Line(n, depth) == [addr |-> n, depth |-> depth, label |-> links.label[n]]

(* GetRoot. *)
Climb ==
  /\ pc = "climb" /\ links.parent[node] # Null
  /\ node' = links.parent[node]
  /\ UNCHANGED <<links, start, pc, pending, out>>

(* The root's own siblings are not looked at. *)
RootFrames(root) == <<links.first[root]>>

(* The root is dumped, even a null one. *)
DumpRoot ==
  /\ pc = "climb" /\ links.parent[node] = Null
  /\ out' = <<Line(node, 0)>>
  /\ pending' = RootFrames(node)
  /\ pc' = "dump"
  /\ UNCHANGED <<links, start, node>>

AfterChild_SiblingFirst(child) == <<links.next[child], links.first[child]>> \o Tail(pending)
AfterChild_SiblingLost(child) == <<links.first[child]>> \o Tail(pending)
(* The child's own children come next, then its sibling. *)
AfterChild(child) == <<links.first[child], links.next[child]>> \o Tail(pending)

(* One turn of the innermost loop: child->Dump prints its line first. *)
DumpChild ==
  /\ pc = "dump" /\ pending # <<>> /\ Head(pending) # Null
  /\ out' = Append(out, Line(Head(pending), Len(pending)))
  /\ pending' = AfterChild(Head(pending))
  /\ UNCHANGED <<links, start, pc, node>>

(* The innermost loop is over; its Dump returns. *)
Return ==
  /\ pc = "dump" /\ pending # <<>> /\ Head(pending) = Null
  /\ pending' = Tail(pending)
  /\ pc' = IF Tail(pending) = <<>> THEN "done" ELSE "dump"
  /\ UNCHANGED <<links, start, node, out>>

Walk == Climb \/ DumpRoot \/ DumpChild \/ Return

LinksOK == \A f \in {"parent", "next", "first"} : links[f] \in [Addresses -> Addresses]

WalkSpec == LinksOK /\ StartWalk /\ [][Walk]_walk

------------------------------------------------------------------------------
(* Properties. *)

Listed == {out[k].addr : k \in DOMAIN out}
Below == {out[k].addr : k \in 2..Len(out)}

(* Links are addresses, a link that could not be read included; a frame is   *)
(* pending exactly while the dump runs, and nothing is printed before.       *)
WalkTypeOK ==
  /\ LinksOK
  /\ start \in Addresses /\ node \in Addresses
  /\ pc \in {"climb", "dump", "done"}
  /\ pending \in Seq(Addresses)
  /\ out \in Seq([addr : Addresses, depth : Nat, label : {links.label[n] : n \in Addresses}])
  /\ pc = "dump" <=> pending # <<>>
  /\ pc = "climb" <=> out = <<>>

(* Whatever the links, trees or not, nothing is printed below the root that  *)
(* is not below it: every set with the root's first child that is closed     *)
(* under first child and next sibling holds all the lines but the first.     *)
NothingInvented ==
  pc # "climb" =>
    \A S \in SUBSET Addresses :
      /\ links.first[node] \in S
      /\ \A n \in S : links.first[n] \in S /\ links.next[n] \in S
      => Below \subseteq S

(* And when the dump ends nothing below the root has been left out.          *)
NothingForgotten ==
  pc = "done" =>
    /\ out[1].addr = node /\ links.parent[node] = Null
    /\ links.first[node] \in Below \cup {Null}
    /\ \A n \in Below : {links.first[n], links.next[n]} \subseteq Below \cup {Null}

(* The nodes above a node of a tree, and those of the forest it starts, the  *)
(* node included.                                                            *)
Path(t, n) ==
  {m \in Nodes : \A S \in SUBSET Addresses :
     n \in S /\ (\A x \in S \ {Null} : t.parent[x] \in S) => m \in S}
Within(t, n) ==
  {m \in Nodes : \A S \in SUBSET Addresses :
     n \in S /\ (\A x \in S \ {Null} : t.first[x] \in S /\ t.next[x] \in S) => m \in S}

(* No node is printed twice, and a line below the first stands under the     *)
(* line of the node's parent.                                                *)
UnderParents(t) ==
  \A k \in DOMAIN out : LET n == out[k].addr IN n # Null =>
    /\ \A j \in DOMAIN out : out[j].addr = n => j = k
    /\ k > 1 => \E j \in 1..k-1 : /\ out[j].addr = t.parent[n]
                                  /\ out[j].depth + 1 = out[k].depth

(* The forest that starts with node n, at each depth it may be dumped at: n, *)
(* the nodes below it, and its later siblings with theirs.                   *)
Forest[n \in Addresses] ==
  [depth \in Nat |->
     IF n = Null THEN <<>>
     ELSE <<Line(n, depth)>> \o Forest[links.first[n]][depth + 1] \o Forest[links.next[n]][depth]]

Root[n \in Addresses] == IF links.parent[n] = Null THEN n ELSE Root[links.parent[n]]

Document == <<Line(Root[start], 0)>> \o Forest[links.first[Root[start]]][1]

Dump == INSTANCE Listing WITH wanted <- Document

(* The mutual recursion of Dump and CreateNode prints the tree in document   *)
(* order, line by line with its depth to the end, whatever address was given *)
(* and whatever could not be read.                                           *)
DumpsDocument == Dump!Spec

==============================================================================
