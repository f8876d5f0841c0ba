----------------------------- MODULE Persistent -----------------------------
(***************************************************************************)
(* !ts and !persistent.  A thread state names its heap and the region of   *)
(* its persistent handles; the region is a chain of blocks of slots, each  *)
(* slot a PersistentNode, which a handle uses or which is in a list of     *)
(* free nodes, linked through its self_.                                   *)
(***************************************************************************)
EXTENDS Chains, Integers

CONSTANTS
  kSlotCount,   \* 256
  slot_,        \* where the slots of a block begin
  node_size_,   \* sizeof(blink::PersistentNode)
  Memories,     \* what the threads of the target can hold
  Unreadables,  \* the sets of cells <<member, address>> that cannot be read
  Blank,        \* nothing printed yet
  NotShown      \* a column that is left out

(* Where slot i of a block lies. *)
SlotAt(block, i) == block + slot_ + i * node_size_

(* m.threads are the thread states, m.main that of the main thread; thread t *)
(* has m.heap[t] and the region m.region[t], which has the m.blocks[r] and   *)
(* the list of free nodes m.free[r].  A node n that is not free belongs to   *)
(* the handle m.self[n]; m.raw[h] is what handle h points to, and the handle *)
(* knows its node.                                                           *)
Regions(m) == {m.region[t] : t \in m.threads}
BlocksOf(m, r) == {m.blocks[r][k] : k \in DOMAIN m.blocks[r]}
NodesIn(block) == {SlotAt(block, i) : i \in 0..(kSlotCount - 1)}
NodesOf(m) == UNION {UNION {NodesIn(b) : b \in BlocksOf(m, r)} : r \in Regions(m)}
Free(m) == UNION {{m.free[r][k] : k \in DOMAIN m.free[r]} : r \in Regions(m)}
Handles(m) == {m.self[n] : n \in NodesOf(m) \ Free(m)}

ASSUME SlotsAssumption == kSlotCount \in Nat \ {0} /\ slot_ \in Nat /\ node_size_ \in Nat \ {0}

ASSUME MemoriesAssumption ==
  \A m \in Memories :
    /\ 0 \notin m.threads /\ m.main \in m.threads
    /\ \A t, u \in m.threads : m.region[t] = m.region[u] => t = u
    /\ \A r \in Regions(m) :
         /\ r # 0 /\ m.blocks[r] \in Seq(Nat \ {0}) /\ Distinct(m.blocks[r])
         /\ Distinct(m.free[r])
         /\ \A k \in DOMAIN m.free[r] : \E b \in BlocksOf(m, r) : m.free[r][k] \in NodesIn(b)
    /\ \A r, s \in Regions(m) : BlocksOf(m, r) \cap BlocksOf(m, s) # {} => r = s
    /\ \A n \in NodesOf(m) \ Free(m) : m.self[n] \in Nat \ {0} /\ m.trace[n] # 0 /\ m.raw[m.self[n]] \in Nat
    /\ \A n, o \in NodesOf(m) \ Free(m) : m.self[n] = m.self[o] => n = o

ASSUME CellsAssumption == \A u \in Unreadables : \A c \in u : c = <<c[1], c[2]>>

VARIABLES
  memory, unreadable,  \* the target
  pc,                  \* what !persistent does next, or "idle"
  asked,               \* the region it was given
  cursor, slot, src,   \* its loops, and the address of the slot
  blocks,              \* the string it writes to
  listing,             \* the screen: what !persistent printed last
  thread               \* what !ts printed last

target == <<memory, unreadable>>
vars == <<target, pc, asked, cursor, slot, src, blocks, listing, thread>>

Read(member, addr, value) == IF <<member, addr>> \in unreadable THEN 0 ELSE value

------------------------------------------------------------------------------
(* !ts. *)

ThreadShown_MainFirst(a) == IF memory.main # 0 THEN memory.main ELSE a
(* main_thread_state_storage_ stands in for a null address. *)
ThreadShown(a) == IF a # 0 THEN a ELSE memory.main

ThreadState(a) ==
  LET t == ThreadShown(a) IN
  /\ pc = "idle"
  /\ thread' = [asked |-> a, addr |-> t, heap |-> Read("heap_", t, memory.heap[t]),
                region |-> Read("persistent_region_", t, memory.region[t])]
  /\ UNCHANGED <<target, pc, asked, cursor, slot, src, blocks, listing>>

------------------------------------------------------------------------------
(* !persistent. *)

(* PersistentNode::load, of a used node, a free one, or the memory between.  *)
Self(n) ==
  Read("self_", n, IF n \in NodesOf(memory) \ Free(memory) THEN memory.self[n]
                   ELSE NextIn(memory.free[asked], n))
Trace(n) == Read("trace_", n, IF n \in NodesOf(memory) \ Free(memory) THEN memory.trace[n] ELSE 0)

FirstBlock(r) == IF r = 0 \/ memory.blocks[r] = <<>> THEN 0 ELSE Read("slots_", r, memory.blocks[r][1])
NextBlock_AtSlots(block) == Self(SlotAt(block, 0))
NextBlock(block) == Read("next_", block, NextIn(memory.blocks[asked], block))

FirstSlot_AtNext(block) == block
(* Where PersistentNodeSlots::load begins to read nodes. *)
FirstSlot(block) == block + slot_

IsUnused_BySelf(n) == Self(n) = 0
IsUnused(n) == Trace(n) = 0

(* The handle a node names: the pointer it holds and the node it knows.  Both *)
(* are shown, or none.                                                       *)
Raw(h) == Read("raw_", h, IF h \in Handles(memory) THEN memory.raw[h] ELSE 0)
NodeKnown(h) == CHOOSE n \in NodesOf(memory) \ Free(memory) : memory.self[n] = h
ShowsHandle(h) == Raw(h) # 0 /\ <<"persistent_node_", h>> \notin unreadable

NodeLine(n, i) ==
  [index |-> i, self |-> Self(n), trace |-> Trace(n),
   raw   |-> IF ShowsHandle(Self(n)) THEN Raw(Self(n)) ELSE NotShown,
   node  |-> IF ShowsHandle(Self(n)) THEN NodeKnown(Self(n)) ELSE NotShown]

Init ==
  /\ memory \in Memories /\ unreadable \in Unreadables
  /\ pc = "idle" /\ asked = 0 /\ cursor = 0 /\ slot = 0 /\ src = 0 /\ blocks = <<>>
  /\ listing = Blank /\ thread = [asked |-> 0, addr |-> 0, heap |-> 0, region |-> 0]

Persistent(r) ==
  /\ pc = "idle" /\ pc' = "block"
  /\ asked' = r /\ cursor' = FirstBlock(r) /\ slot' = 0 /\ src' = 0
  /\ blocks' = <<>> /\ listing' = Blank
  /\ UNCHANGED <<target, thread>>

DumpBlock ==
  /\ pc = "block" /\ cursor # 0
  /\ pc' = "slots" /\ slot' = 0 /\ src' = FirstSlot(cursor)
  /\ blocks' = Append(blocks, [index |-> Len(blocks), addr |-> cursor, nodes |-> <<>>])
  /\ UNCHANGED <<target, asked, cursor, listing, thread>>

DumpSlot ==
  /\ pc = "slots" /\ slot < kSlotCount
  /\ blocks' = IF IsUnused(src) THEN blocks
               ELSE [blocks EXCEPT ![Len(blocks)].nodes = Append(@, NodeLine(src, slot))]
  /\ slot' = slot + 1 /\ src' = src + node_size_
  /\ UNCHANGED <<target, pc, asked, cursor, listing, thread>>

ToNextBlock ==
  /\ pc = "slots" /\ slot = kSlotCount
  /\ pc' = "block" /\ cursor' = NextBlock(cursor)
  /\ UNCHANGED <<target, asked, slot, src, blocks, listing, thread>>

ShowListing ==
  /\ pc = "block" /\ cursor = 0
  /\ pc' = "idle" /\ listing' = blocks
  /\ UNCHANGED <<target, asked, cursor, slot, src, blocks, thread>>

Run == DumpBlock \/ DumpSlot \/ ToNextBlock \/ ShowListing

Next ==
  \/ \E a \in {0} \cup memory.threads : ThreadState(a)
  \/ \E r \in {0} \cup Regions(memory) : Persistent(r)
  \/ Run

(* A command, once started, runs to its end; nothing in it waits. *)
Spec == Init /\ [][Next]_vars /\ WF_vars(Run)

------------------------------------------------------------------------------
(* Properties. *)

Unlinked(member) == {c[2] : c \in {d \in unreadable : d[1] = member}}

BlocksRead ==
  IF asked \in {0} \cup Unlinked("slots_") THEN <<>> ELSE UpTo(memory.blocks[asked], Unlinked("next_"))

UsedSlots(block) ==
  {i \in 0..(kSlotCount - 1) : SlotAt(block, i) \notin Free(memory) \cup Unlinked("trace_")}

LinesOf(block) ==
  LET used == Ascending(UsedSlots(block))
  IN  [j \in DOMAIN used |-> NodeLine(SlotAt(block, used[j]), used[j])]

Answer ==
  [k \in DOMAIN BlocksRead |->
     [index |-> k - 1, addr |-> BlocksRead[k], nodes |-> LinesOf(BlocksRead[k])]]

PersistentConsole == INSTANCE Console WITH
  running <- pc # "idle", answer <- Answer, screen <- listing

(* !persistent prints every block of the region and every used node in it,   *)
(* in order, but for a node whose trace_ and the blocks behind a link that   *)
(* cannot be read; and comes to an end.                                      *)
HandlesWhole == PersistentConsole!Spec

(* The slots are read from the block at the cursor, which is the last one    *)
(* printed, and belong to the region asked for.                              *)
PersistentTypeOK ==
  /\ pc \in {"idle", "block", "slots"} /\ slot \in 0..kSlotCount
  /\ asked \in {0} \cup Regions(memory)
  /\ cursor # 0 => asked # 0 /\ cursor \in BlocksOf(memory, asked)
  /\ pc = "slots" => cursor = blocks[Len(blocks)].addr /\ src = SlotAt(cursor, slot)
  /\ \A k \in DOMAIN blocks : blocks[k].index = k - 1 /\ Len(blocks[k].nodes) <= kSlotCount

(* Every slot of a block that was printed is accounted for: it has a line,   *)
(* it is in the region's list of free nodes, or its trace_ cannot be read.   *)
(* No node has two of these, so that a free node is never taken for a handle *)
(* although its self_ is not null.                                           *)
SlotsAccounted ==
  listing # Blank =>
    \A k \in DOMAIN listing :
      LET shown == {SlotAt(listing[k].addr, listing[k].nodes[j].index) : j \in DOMAIN listing[k].nodes} IN
      /\ shown \cap Free(memory) = {}
      /\ NodesIn(listing[k].addr) \ Free(memory) \subseteq shown \cup Unlinked("trace_")
      /\ \A i, j \in DOMAIN listing[k].nodes : i < j => listing[k].nodes[i].index < listing[k].nodes[j].index

(* The last column leads back to the line it is in: a handle that is shown   *)
(* knows the very slot, by the index printed, of the block printed above.    *)
BackLinked ==
  listing # Blank =>
    \A k \in DOMAIN listing : \A j \in DOMAIN listing[k].nodes :
      LET line == listing[k].nodes[j] IN
      line.node # NotShown => line.node = SlotAt(listing[k].addr, line.index)

(* The region !ts shows for a thread, main or not, is that of the thread     *)
(* asked about: the handles !persistent lists for it are the thread's.       *)
HandlesOfThread ==
  listing # Blank /\ asked # 0 /\ asked = thread.region =>
    LET t == IF thread.asked = 0 THEN memory.main ELSE thread.asked IN
    \A k \in DOMAIN listing : listing[k].addr \in BlocksOf(memory, memory.region[t])

==============================================================================
