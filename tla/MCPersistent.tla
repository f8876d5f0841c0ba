---------------------------- MODULE MCPersistent ----------------------------
(***************************************************************************)
(* Two threads, the region of one with two blocks of three slots and that  *)
(* of the other with one, with every choice of the nodes in use; one       *)
(* handle points to nothing.  Addresses count pointers, and a node has     *)
(* two of them, as far from the start of a block as the first slot.        *)
(***************************************************************************)
EXTENDS Persistent, SequencesExt

Main == 10
Worker == 20
Region(t) == 100 * t
B(k) == 100 * k
Handle(n) == 5000 + n
MCNodes == UNION {NodesIn(B(k)) : k \in 1..3}

Memory(free) ==
  [threads |-> {Main, Worker}, main |-> Main,
   heap |-> [t \in {Main, Worker} |-> t + 1],
   region |-> [t \in {Main, Worker} |-> Region(t)],
   blocks |-> [r \in {Region(Main), Region(Worker)} |-> IF r = Region(Main) THEN <<B(2), B(1)>> ELSE <<B(3)>>],
   free |-> [r \in {Region(Main), Region(Worker)} |->
     SetToSeq(IF r = Region(Main) THEN free \cap (NodesIn(B(1)) \cup NodesIn(B(2))) ELSE free \cap NodesIn(B(3)))],
   self |-> [n \in MCNodes |-> Handle(n)],
   trace |-> [n \in MCNodes |-> 7],
   raw |-> [h \in {Handle(n) : n \in MCNodes} |-> IF h = Handle(SlotAt(B(2), 1)) THEN 0 ELSE h + 1000]]

MCMemories ==
  {Memory(free) : free \in {f \in SUBSET MCNodes :
     /\ {SlotAt(B(1), 0), SlotAt(B(3), 0), SlotAt(B(3), 2)} \subseteq f
     /\ {SlotAt(B(1), 2), SlotAt(B(3), 1)} \cap f = {}}}

N == SlotAt(B(2), 2)

MCUnreadables ==
  {{}, {<<"heap_", Main>>}, {<<"persistent_region_", Main>>}, {<<"slots_", Region(Main)>>}, {<<"next_", B(2)>>}}
    \cup {{<<m, N>>} : m \in {"self_", "trace_"}} \cup {{<<m, Handle(N)>>} : m \in {"raw_", "persistent_node_"}}
    \cup {{<<"trace_", SlotAt(B(1), 0)>>, <<"self_", SlotAt(B(1), 2)>>}}

=============================================================================
