-------------------------- MODULE Persistent_proofs --------------------------
(***************************************************************************)
(* What !persistent lists is right slot by slot, for any number of slots   *)
(* in a block, any threads, blocks and handles, and any cells that cannot  *)
(* be read.                                                                *)
(***************************************************************************)
EXTENDS Persistent, Chains_proofs

(* The lines a block can have, and the blocks a listing can. *)
NodeLines == {NodeLine(SlotAt(b, i), i) : b \in BlocksOf(memory, asked), i \in 0..(kSlotCount - 1)}

BlockLine(i, b, s) == [index |-> i, addr |-> b, nodes |-> s]

BlockLines ==
  UNION {UNION {{BlockLine(i, b, s) : s \in Seq(NodeLines)} : b \in BlocksOf(memory, asked)} : i \in Nat}

(* nodes are the lines of the used slots among the first n of the block.     *)
LinesUpTo(addr, nodes, n) ==
  /\ nodes \in Seq(NodeLines) /\ Len(nodes) <= n
  /\ \A j \in 1..Len(nodes) :
       /\ nodes[j].index \in 0..(n - 1)
       /\ nodes[j] = NodeLine(SlotAt(addr, nodes[j].index), nodes[j].index)
       /\ Trace(SlotAt(addr, nodes[j].index)) # 0
  /\ \A i, j \in 1..Len(nodes) : i < j => nodes[i].index < nodes[j].index
  /\ \A i \in 0..(n - 1) : Trace(SlotAt(addr, i)) # 0 => \E j \in 1..Len(nodes) : nodes[j].index = i

(* How many slots of block k have been looked at. *)
SlotsRead(k) == IF pc = "slots" /\ k = Len(blocks) THEN slot ELSE kSlotCount

BlocksRight ==
  /\ blocks \in Seq(BlockLines)
  /\ \A k \in 1..Len(blocks) :
       /\ blocks[k].index = k - 1
       /\ blocks[k].addr \in BlocksOf(memory, asked)
       /\ LinesUpTo(blocks[k].addr, blocks[k].nodes, SlotsRead(k))

(* Where the loops are. *)
LoopsRight ==
  /\ pc \in {"idle", "block", "slots"} /\ slot \in 0..kSlotCount
  /\ asked \in {0} \cup Regions(memory)
  /\ asked = 0 => blocks = <<>>
  /\ cursor # 0 => asked # 0 /\ cursor \in BlocksOf(memory, asked)
  /\ pc = "slots" =>
       /\ Len(blocks) # 0 /\ cursor = blocks[Len(blocks)].addr
       /\ cursor \in BlocksOf(memory, asked) /\ src = SlotAt(cursor, slot)

(* What the screen shows. *)
ScreenRight ==
  /\ listing # Blank => pc = "idle" /\ listing = blocks
  /\ thread.asked \in {0} \cup memory.threads
  /\ thread.region \in {0, memory.region[ThreadShown(thread.asked)]}

PersistentInv ==
  /\ memory \in Memories
  /\ LoopsRight /\ BlocksRight /\ ScreenRight

------------------------------------------------------------------------------
(* Lemmas about the memory. *)

(* The region of a thread has blocks at addresses that are not null. *)
LEMMA BlocksInMemory ==
  ASSUME NEW m \in Memories, NEW r \in Regions(m)
  PROVE  /\ r # 0 /\ m.blocks[r] \in Seq(Nat) /\ BlocksOf(m, r) \subseteq Nat \ {0}
<1>1. r # 0 /\ m.blocks[r] \in Seq(Nat \ {0})
  BY MemoriesAssumption
<1> QED
  BY <1>1 DEF BlocksOf

(* A node that is not free: its handle is its own, and it has a trace_. *)
LEMMA UsedNode ==
  ASSUME NEW m \in Memories, NEW n \in NodesOf(m) \ Free(m)
  PROVE  /\ m.trace[n] # 0 /\ m.self[n] # 0
         /\ \A o \in NodesOf(m) \ Free(m) : m.self[n] = m.self[o] => n = o
BY MemoriesAssumption

(* The slots of a block of a region are nodes of the memory. *)
LEMMA SlotIsNode ==
  ASSUME NEW m, NEW r \in Regions(m), NEW b \in BlocksOf(m, r), NEW i \in 0..(kSlotCount - 1)
  PROVE  SlotAt(b, i) \in NodesIn(b) /\ SlotAt(b, i) \in NodesOf(m)
BY DEF NodesIn, NodesOf

(* The links !persistent follows stay among the blocks of its region. *)
LEMMA LinksStay ==
  ASSUME memory \in Memories
  PROVE  /\ \A r \in {0} \cup Regions(memory) :
              FirstBlock(r) # 0 => r # 0 /\ FirstBlock(r) \in BlocksOf(memory, r)
         /\ asked \in Regions(memory) =>
              \A b : NextBlock(b) # 0 => NextBlock(b) \in BlocksOf(memory, asked)
<1>1. ASSUME NEW r \in {0} \cup Regions(memory), FirstBlock(r) # 0
      PROVE  r # 0 /\ FirstBlock(r) \in BlocksOf(memory, r)
  <2>1. r # 0 /\ memory.blocks[r] # <<>> /\ FirstBlock(r) = memory.blocks[r][1]
    BY <1>1 DEF FirstBlock, Read
  <2>2. memory.blocks[r] \in Seq(Nat)
    BY <2>1, BlocksInMemory
  <2>3. 1 \in DOMAIN memory.blocks[r]
    BY <2>1, <2>2
  <2> QED
    BY <2>1, <2>3 DEF BlocksOf
<1>2. ASSUME asked \in Regions(memory), NEW b, NextBlock(b) # 0
      PROVE  NextBlock(b) \in BlocksOf(memory, asked)
  <2>1. NextBlock(b) = NextIn(memory.blocks[asked], b)
    BY <1>2 DEF NextBlock, Read
  <2> QED
    BY <1>2, <2>1, NextStays, BlocksInMemory DEF BlocksOf
<1> QED
  BY <1>1, <1>2

(* Giving a block other lines. *)
LEMMA OtherLines ==
  ASSUME NEW i, NEW b, NEW s, NEW x
  PROVE  /\ BlockLine(i, b, s).index = i /\ BlockLine(i, b, s).addr = b /\ BlockLine(i, b, s).nodes = s
         /\ [BlockLine(i, b, s) EXCEPT !.nodes = x] = BlockLine(i, b, x)
BY DEF BlockLine

(* The next slot lies one node further. *)
LEMMA NextSlot ==
  ASSUME NEW b \in Nat, NEW i \in Nat
  PROVE  SlotAt(b, i + 1) = SlotAt(b, i) + node_size_ /\ SlotAt(b, 0) = b + slot_
<1>1. node_size_ \in Nat /\ slot_ \in Nat
  BY SlotsAssumption
<1>2. (i + 1) * node_size_ = i * node_size_ + node_size_ /\ 0 * node_size_ = 0
  BY <1>1, SMT
<1>3. i * node_size_ \in Nat
  BY <1>1, SMT
<1> QED
  BY <1>1, <1>2, <1>3 DEF SlotAt

------------------------------------------------------------------------------
(* One slot. *)

(* A turn of the loop over the slots: the line of slot n joins the lines of  *)
(* those before it if, and only if, its trace_ is not null.                  *)
LEMMA OneMoreSlot ==
  ASSUME NEW addr \in BlocksOf(memory, asked), NEW nodes, NEW n \in 0..(kSlotCount - 1),
         LinesUpTo(addr, nodes, n), kSlotCount \in Nat
  PROVE  LinesUpTo(addr,
                   IF IsUnused(SlotAt(addr, n)) THEN nodes ELSE Append(nodes, NodeLine(SlotAt(addr, n), n)),
                   n + 1)
<1> DEFINE line == NodeLine(SlotAt(addr, n), n)
           more == Append(nodes, line)
<1>0. nodes \in Seq(NodeLines) /\ Len(nodes) \in Nat /\ Len(nodes) <= n
  BY DEF LinesUpTo
<1>1. CASE Trace(SlotAt(addr, n)) = 0
  <2>1. \A i \in 0..n : Trace(SlotAt(addr, i)) # 0 => i \in 0..(n - 1)
    BY <1>1
  <2> QED
    BY <1>0, <1>1, <2>1 DEF LinesUpTo, IsUnused
<1>2. CASE Trace(SlotAt(addr, n)) # 0
  <2>1. line \in NodeLines /\ line.index = n
    BY DEF NodeLines, NodeLine
  <2> HIDE DEF line
  <2>2. /\ more \in Seq(NodeLines) /\ Len(more) = Len(nodes) + 1
        /\ more[Len(nodes) + 1] = line /\ \A j \in 1..Len(nodes) : more[j] = nodes[j]
    BY <1>0, <2>1
  <2> HIDE DEF more
  <2>3. \A j \in 1..Len(more) : j \in 1..Len(nodes) \/ j = Len(nodes) + 1
    BY <1>0, <2>2
  <2>4. \A j \in 1..Len(more) :
          /\ more[j].index \in 0..n
          /\ more[j] = NodeLine(SlotAt(addr, more[j].index), more[j].index)
          /\ Trace(SlotAt(addr, more[j].index)) # 0
    <3> TAKE j \in 1..Len(more)
    <3>1. CASE j \in 1..Len(nodes)
      <4>1. /\ nodes[j].index \in 0..(n - 1)
            /\ nodes[j] = NodeLine(SlotAt(addr, nodes[j].index), nodes[j].index)
            /\ Trace(SlotAt(addr, nodes[j].index)) # 0
        BY <3>1 DEF LinesUpTo
      <4> QED
        BY <3>1, <4>1, <2>2
    <3>2. CASE j = Len(nodes) + 1
      BY <3>2, <1>2, <2>1, <2>2 DEF line
    <3> QED
      BY <3>1, <3>2, <2>3
  <2>5. ASSUME NEW i \in 1..Len(more), NEW j \in 1..Len(more), i < j
        PROVE  more[i].index < more[j].index
    <3>1. i \in 1..Len(nodes) /\ more[i] = nodes[i] /\ nodes[i].index \in 0..(n - 1)
      BY <2>5, <2>2, <1>0 DEF LinesUpTo
    <3>2. CASE j \in 1..Len(nodes)
      BY <2>5, <3>1, <3>2, <2>2 DEF LinesUpTo
    <3>3. CASE j = Len(nodes) + 1
      BY <3>1, <3>3, <2>1, <2>2
    <3> QED
      BY <3>2, <3>3, <2>3
  <2>6. ASSUME NEW i \in 0..n, Trace(SlotAt(addr, i)) # 0
        PROVE  \E j \in 1..Len(more) : more[j].index = i
    <3>1. CASE i = n
      BY <3>1, <2>1, <2>2, <1>0
    <3>2. CASE i \in 0..(n - 1)
      <4>1. PICK j \in 1..Len(nodes) : nodes[j].index = i
        BY <2>6, <3>2 DEF LinesUpTo
      <4> QED
        BY <4>1, <2>2, <1>0
    <3> QED
      BY <3>1, <3>2
  <2>7. (n + 1) - 1 = n /\ Len(more) <= n + 1
    BY <1>0, <2>2
  <2>8. LinesUpTo(addr, more, n + 1)
    BY <2>2, <2>4, <2>5, <2>6, <2>7 DEF LinesUpTo
  <2> QED
    BY <2>8, <1>2 DEF IsUnused, more, line
<1> QED
  BY <1>1, <1>2

(* While the target and the region asked for stay, so do the lines. *)
LEMMA LinesKeep ==
  ASSUME UNCHANGED <<memory, unreadable, asked>>
  PROVE  /\ NodeLines' = NodeLines /\ BlockLines' = BlockLines
         /\ \A addr, nodes, n : LinesUpTo(addr, nodes, n)' <=> LinesUpTo(addr, nodes, n)
<1>1. \A n, i : NodeLine(n, i)' = NodeLine(n, i) /\ Trace(n)' = Trace(n)
  BY DEF NodeLine, Trace, Self, Read, ShowsHandle, Raw, NodeKnown
<1>2. NodeLines' = NodeLines
  BY <1>1 DEF NodeLines
<1> QED
  BY <1>1, <1>2 DEF LinesUpTo, BlockLines, BlockLine

------------------------------------------------------------------------------
(* The invariant. *)

(* Nothing is printed when the extension is loaded. *)
LEMMA PersistentInvInit == Init => PersistentInv
<1> SUFFICES ASSUME Init
    PROVE  PersistentInv
  OBVIOUS
<1>1. memory \in Memories /\ blocks = <<>> /\ pc = "idle" /\ cursor = 0 /\ asked = 0 /\ slot = 0 /\ listing = Blank
  BY DEF Init
<1>2. LoopsRight
  BY <1>1, SlotsAssumption DEF LoopsRight
<1>3. BlocksRight
  BY <1>1 DEF BlocksRight
<1>4. ScreenRight
  BY <1>1 DEF ScreenRight, Init
<1> QED
  BY <1>1, <1>2, <1>3, <1>4 DEF PersistentInv

(* !ts shows the region of the thread it shows. *)
LEMMA ThreadStateKeeps ==
  ASSUME PersistentInv, NEW a \in {0} \cup memory.threads, ThreadState(a)
  PROVE  PersistentInv'
<1>1. UNCHANGED <<target, pc, asked, cursor, slot, src, blocks, listing>>
  BY DEF ThreadState
<1>2. LoopsRight'
  BY <1>1 DEF PersistentInv, LoopsRight, target
<1>3. BlocksRight'
  BY <1>1, LinesKeep DEF PersistentInv, BlocksRight, SlotsRead, target
<1>4. thread'.asked = a /\ thread'.region \in {0, memory.region[ThreadShown(a)]}
  BY DEF ThreadState, Read
<1>5. ScreenRight'
  BY <1>1, <1>4 DEF PersistentInv, ScreenRight, target, ThreadShown
<1> QED
  BY <1>1, <1>2, <1>3, <1>5 DEF PersistentInv, target

(* !persistent starts with an empty string and a blank screen. *)
LEMMA PersistentKeeps ==
  ASSUME PersistentInv, NEW r \in {0} \cup Regions(memory), Persistent(r)
  PROVE  PersistentInv'
<1>1. /\ UNCHANGED <<target, thread>> /\ pc' = "block" /\ asked' = r /\ cursor' = FirstBlock(r)
      /\ slot' = 0 /\ blocks' = <<>> /\ listing' = Blank
  BY DEF Persistent
<1>2. LoopsRight'
  BY <1>1, LinksStay, SlotsAssumption DEF PersistentInv, LoopsRight, target
<1>3. BlocksRight'
  BY <1>1 DEF BlocksRight
<1>4. ScreenRight'
  BY <1>1 DEF PersistentInv, ScreenRight, target, ThreadShown
<1> QED
  BY <1>1, <1>2, <1>3, <1>4 DEF PersistentInv, target

(* A block begins with no slot looked at. *)
LEMMA DumpBlockKeeps ==
  ASSUME PersistentInv, DumpBlock
  PROVE  PersistentInv'
<1> DEFINE new == BlockLine(Len(blocks), cursor, <<>>)
<1>1. /\ UNCHANGED <<target, asked, cursor, listing, thread>>
      /\ pc = "block" /\ cursor # 0 /\ pc' = "slots" /\ slot' = 0 /\ src' = FirstSlot(cursor)
      /\ blocks' = Append(blocks, new)
  BY DEF DumpBlock, BlockLine
<1>2. /\ memory \in Memories /\ asked \in Regions(memory) /\ cursor \in BlocksOf(memory, asked)
      /\ blocks \in Seq(BlockLines) /\ Len(blocks) \in Nat /\ kSlotCount \in Nat /\ kSlotCount # 0
  BY <1>1, SlotsAssumption DEF PersistentInv, LoopsRight, BlocksRight
<1>3. <<>> \in Seq(NodeLines) /\ new \in BlockLines
  <2>1. <<>> \in Seq(NodeLines)
    OBVIOUS
  <2>2. new \in {BlockLine(Len(blocks), cursor, s) : s \in Seq(NodeLines)}
    BY <2>1
  <2>3. new \in UNION {{BlockLine(Len(blocks), b, s) : s \in Seq(NodeLines)} : b \in BlocksOf(memory, asked)}
    BY <1>2, <2>2
  <2> QED
    BY <1>2, <2>1, <2>3 DEF BlockLines
<1>4. /\ blocks' \in Seq(BlockLines) /\ Len(blocks') = Len(blocks) + 1
      /\ blocks'[Len(blocks) + 1] = new /\ \A k \in 1..Len(blocks) : blocks'[k] = blocks[k]
  BY <1>1, <1>2, <1>3
<1>5. LinesUpTo(cursor, <<>>, 0)
  BY <1>3 DEF LinesUpTo
<1>6. /\ new.index = Len(blocks) /\ new.addr = cursor /\ new.nodes = <<>>
  BY OtherLines
<1> HIDE DEF new
<1>7. LoopsRight'
  <2>1. cursor \in Nat /\ asked # 0
    BY <1>2, BlocksInMemory
  <2>2. src' = SlotAt(cursor', slot')
    BY <1>1, <2>1, NextSlot DEF FirstSlot
  <2>3. Len(blocks') # 0 /\ cursor = blocks'[Len(blocks')].addr
    BY <1>2, <1>4, <1>6
  <2>4. pc' \in {"idle", "block", "slots"} /\ slot' \in 0..kSlotCount
    BY <1>1, <1>2
  <2>5. asked' \in Regions(memory') /\ cursor' \in BlocksOf(memory', asked') /\ asked' # 0
    BY <1>1, <1>2, <2>1 DEF target
  <2> QED
    BY <1>1, <2>2, <2>3, <2>4, <2>5 DEF LoopsRight, SlotAt, Regions, BlocksOf
<1>8. BlocksRight'
  <2>1. ASSUME NEW k \in 1..Len(blocks')
        PROVE  /\ blocks'[k].index = k - 1 /\ blocks'[k].addr \in BlocksOf(memory, asked)
               /\ LinesUpTo(blocks'[k].addr, blocks'[k].nodes, SlotsRead(k)')
    <3>1. CASE k \in 1..Len(blocks)
      <4>1. SlotsRead(k) = kSlotCount /\ SlotsRead(k)' = kSlotCount
        BY <3>1, <1>1, <1>2, <1>4 DEF SlotsRead
      <4> QED
        BY <3>1, <4>1, <1>4 DEF PersistentInv, BlocksRight
    <3>2. CASE k = Len(blocks) + 1
      <4>1. SlotsRead(k)' = 0
        BY <3>2, <1>1, <1>2, <1>4 DEF SlotsRead
      <4> QED
        BY <3>2, <4>1, <1>2, <1>4, <1>5, <1>6
    <3> QED
      BY <3>1, <3>2, <1>2, <1>4
  <2> QED
    BY <2>1, <1>1, <1>4, LinesKeep DEF BlocksRight, target
<1>9. ScreenRight'
  BY <1>1 DEF PersistentInv, ScreenRight, target, ThreadShown
<1> QED
  BY <1>1, <1>7, <1>8, <1>9 DEF PersistentInv, target

(* A slot. *)
LEMMA DumpSlotKeeps ==
  ASSUME PersistentInv, DumpSlot
  PROVE  PersistentInv'
<1> DEFINE last == Len(blocks)
           old == blocks[last]
           nodes == IF IsUnused(src) THEN old.nodes ELSE Append(old.nodes, NodeLine(src, slot))
<1>1. /\ UNCHANGED <<target, pc, asked, cursor, listing, thread>>
      /\ pc = "slots" /\ slot < kSlotCount /\ slot' = slot + 1 /\ src' = src + node_size_
  BY DEF DumpSlot
<1>2. /\ memory \in Memories /\ asked \in Regions(memory) /\ cursor \in BlocksOf(memory, asked)
      /\ blocks \in Seq(BlockLines) /\ last \in Nat \ {0} /\ kSlotCount \in Nat
      /\ slot \in 0..(kSlotCount - 1) /\ cursor = old.addr /\ src = SlotAt(cursor, slot)
      /\ last \in 1..Len(blocks)
  BY <1>1, SlotsAssumption DEF PersistentInv, LoopsRight, BlocksRight
<1>3. old \in BlockLines /\ old.index = last - 1 /\ LinesUpTo(cursor, old.nodes, slot)
  BY <1>1, <1>2 DEF PersistentInv, BlocksRight, SlotsRead
<1>4. LinesUpTo(cursor, nodes, slot + 1)
  BY <1>2, <1>3, OneMoreSlot
<1>5. nodes \in Seq(NodeLines)
  BY <1>4 DEF LinesUpTo
<1>6. PICK i \in Nat, b \in BlocksOf(memory, asked), s \in Seq(NodeLines) : old = BlockLine(i, b, s)
  BY <1>3 DEF BlockLines
<1>7. blocks' = [blocks EXCEPT ![last] = BlockLine(i, b, nodes)]
  <2>1. CASE IsUnused(src)
    <3>1. BlockLine(i, b, nodes) = old
      BY <1>6, <2>1, OtherLines
    <3> QED
      BY <2>1, <3>1, <1>2 DEF DumpSlot
  <2>2. CASE ~IsUnused(src)
    <3>1. [old EXCEPT !.nodes = Append(old.nodes, NodeLine(src, slot))] = BlockLine(i, b, nodes)
      <4> DEFINE more == Append(old.nodes, NodeLine(src, slot))
      <4>1. nodes = more
        BY <2>2
      <4> HIDE DEF more, nodes, old
      <4>2. [old EXCEPT !.nodes = more] = BlockLine(i, b, more)
        <5>1. [BlockLine(i, b, s) EXCEPT !.nodes = more] = BlockLine(i, b, more)
          BY OtherLines
        <5> QED
          BY <1>6, <5>1, Zenon
      <4>3. [old EXCEPT !.nodes = more] = BlockLine(i, b, nodes)
        BY <4>1, <4>2
      <4> QED
        BY <4>3 DEF more
    <3>2. blocks' = [blocks EXCEPT ![last] = [old EXCEPT !.nodes = Append(old.nodes, NodeLine(src, slot))]]
      BY <2>2, Zenon DEF DumpSlot
    <3> QED
      BY <3>1, <3>2
  <2> QED
    BY <2>1, <2>2
<1> HIDE DEF nodes
<1>8. /\ blocks' \in Seq(BlockLines) /\ Len(blocks') = Len(blocks)
      /\ blocks'[last].index = old.index /\ blocks'[last].addr = old.addr /\ blocks'[last].nodes = nodes
      /\ \A k \in 1..Len(blocks) : k # last => blocks'[k] = blocks[k]
  <2>1. BlockLine(i, b, nodes) \in BlockLines
    BY <1>5, <1>6 DEF BlockLines
  <2> QED
    BY <1>2, <1>6, <1>7, <2>1, OtherLines
<1> HIDE DEF old
<1>9. LoopsRight'
  <2>1. cursor \in Nat
    BY <1>2, BlocksInMemory
  <2>2. src' = SlotAt(cursor, slot + 1)
    <3>1. slot \in Nat
      BY <1>2
    <3> QED
      BY <1>1, <1>2, <2>1, <3>1, NextSlot
  <2> QED
    BY <1>1, <1>2, <1>8, <2>2 DEF PersistentInv, LoopsRight, target, SlotAt
<1>10. BlocksRight'
  <2>1. ASSUME NEW k \in 1..Len(blocks')
        PROVE  /\ blocks'[k].index = k - 1 /\ blocks'[k].addr \in BlocksOf(memory, asked)
               /\ LinesUpTo(blocks'[k].addr, blocks'[k].nodes, SlotsRead(k)')
    <3>1. CASE k = last
      <4>1. SlotsRead(k)' = slot + 1
        BY <3>1, <1>1, <1>8 DEF SlotsRead
      <4> QED
        BY <3>1, <4>1, <1>2, <1>3, <1>4, <1>8
    <3>2. CASE k # last
      <4>1. SlotsRead(k) = kSlotCount /\ SlotsRead(k)' = kSlotCount
        BY <3>2, <1>8 DEF SlotsRead
      <4> QED
        BY <3>2, <4>1, <1>8 DEF PersistentInv, BlocksRight
    <3> QED
      BY <3>1, <3>2
  <2> QED
    BY <2>1, <1>1, <1>8, LinesKeep DEF BlocksRight, target
<1>11. ScreenRight'
  BY <1>1 DEF PersistentInv, ScreenRight, target, ThreadShown
<1> QED
  BY <1>1, <1>9, <1>10, <1>11 DEF PersistentInv, target

(* After its last slot a block is complete. *)
LEMMA ToNextBlockKeeps ==
  ASSUME PersistentInv, ToNextBlock
  PROVE  PersistentInv'
<1>1. /\ UNCHANGED <<target, asked, slot, src, blocks, listing, thread>>
      /\ pc = "slots" /\ slot = kSlotCount /\ pc' = "block" /\ cursor' = NextBlock(cursor)
  BY DEF ToNextBlock
<1>2. memory \in Memories /\ asked \in Regions(memory) /\ asked # 0
  BY <1>1, BlocksInMemory DEF PersistentInv, LoopsRight
<1>3. LoopsRight'
  BY <1>1, <1>2, LinksStay DEF PersistentInv, LoopsRight, target
<1>4. \A k : SlotsRead(k)' = SlotsRead(k)
  BY <1>1 DEF SlotsRead
<1>5. BlocksRight'
  BY <1>1, <1>4, LinesKeep DEF PersistentInv, BlocksRight, target
<1>6. ScreenRight'
  BY <1>1 DEF PersistentInv, ScreenRight, target, ThreadShown
<1> QED
  BY <1>1, <1>3, <1>5, <1>6 DEF PersistentInv, target

(* What the command has put together is what the screen shows. *)
LEMMA ShowListingKeeps ==
  ASSUME PersistentInv, ShowListing
  PROVE  PersistentInv'
<1>1. /\ UNCHANGED <<target, asked, cursor, slot, src, blocks, thread>>
      /\ pc = "block" /\ cursor = 0 /\ pc' = "idle" /\ listing' = blocks
  BY DEF ShowListing
<1>2. LoopsRight'
  BY <1>1 DEF PersistentInv, LoopsRight, target
<1>3. \A k : SlotsRead(k)' = SlotsRead(k)
  BY <1>1 DEF SlotsRead
<1>4. BlocksRight'
  BY <1>1, <1>3, LinesKeep DEF PersistentInv, BlocksRight, target
<1>5. ScreenRight'
  BY <1>1 DEF PersistentInv, ScreenRight, target, ThreadShown
<1> QED
  BY <1>1, <1>2, <1>4, <1>5 DEF PersistentInv, target

(* A step that changes nothing. *)
LEMMA PersistentStutterKeeps ==
  ASSUME PersistentInv, UNCHANGED vars
  PROVE  PersistentInv'
<1>1. UNCHANGED <<memory, unreadable, pc, asked, cursor, slot, src, blocks, listing, thread>>
  BY DEF vars, target
<1>2. LoopsRight'
  BY <1>1 DEF PersistentInv, LoopsRight
<1>3. BlocksRight'
  BY <1>1, LinesKeep DEF PersistentInv, BlocksRight, SlotsRead
<1>4. ScreenRight'
  BY <1>1 DEF PersistentInv, ScreenRight, ThreadShown
<1> QED
  BY <1>1, <1>2, <1>3, <1>4 DEF PersistentInv

(* Every step keeps the invariant. *)
LEMMA PersistentInvStep == PersistentInv /\ [Next]_vars => PersistentInv'
BY ThreadStateKeeps, PersistentKeeps, DumpBlockKeeps, DumpSlotKeeps, ToNextBlockKeeps, ShowListingKeeps,
   PersistentStutterKeeps DEF Next, Run

(* So it always holds. *)
LEMMA PersistentAlways == Spec => []PersistentInv
BY PersistentInvInit, PersistentInvStep, PTL DEF Spec

------------------------------------------------------------------------------
(* Results. *)

(* The slots !persistent reads are those of the block it printed last, which *)
(* belongs to the region asked for.                                          *)
THEOREM HandleTypes == Spec => []PersistentTypeOK
<1>1. PersistentInv => PersistentTypeOK
  <2> SUFFICES ASSUME PersistentInv
      PROVE  PersistentTypeOK
    OBVIOUS
  <2>1. \A k \in DOMAIN blocks : blocks[k].index = k - 1 /\ Len(blocks[k].nodes) <= kSlotCount
    <3> SUFFICES ASSUME NEW k \in 1..Len(blocks)
        PROVE  blocks[k].index = k - 1 /\ Len(blocks[k].nodes) <= kSlotCount
      BY DEF PersistentInv, BlocksRight
    <3>1. SlotsRead(k) \in 0..kSlotCount
      BY SlotsAssumption DEF SlotsRead, PersistentInv, LoopsRight
    <3>2. /\ blocks[k].index = k - 1 /\ Len(blocks[k].nodes) <= SlotsRead(k)
          /\ blocks[k].nodes \in Seq(NodeLines)
      BY DEF PersistentInv, BlocksRight, LinesUpTo
    <3>3. Len(blocks[k].nodes) \in Nat
      BY <3>2
    <3> QED
      BY <3>1, <3>2, <3>3, SlotsAssumption
  <2> QED
    BY <2>1 DEF PersistentInv, LoopsRight, PersistentTypeOK
<1> QED
  BY <1>1, PersistentAlways, PTL

(* What is known of a listing on the screen. *)
LEMMA ListingRight ==
  ASSUME PersistentInv, listing # Blank
  PROVE  /\ DOMAIN listing = 1..Len(listing)
         /\ \A k \in DOMAIN listing :
              /\ asked \in Regions(memory) /\ listing[k].addr \in BlocksOf(memory, asked)
              /\ DOMAIN listing[k].nodes = 1..Len(listing[k].nodes) /\ Len(listing[k].nodes) \in Nat
              /\ LinesUpTo(listing[k].addr, listing[k].nodes, kSlotCount)
<1>1. pc = "idle" /\ listing = blocks /\ blocks \in Seq(BlockLines)
  BY DEF PersistentInv, ScreenRight, BlocksRight
<1>2. ASSUME NEW k \in 1..Len(blocks)
      PROVE  /\ asked \in Regions(memory) /\ blocks[k].addr \in BlocksOf(memory, asked)
             /\ blocks[k].nodes \in Seq(NodeLines)
             /\ LinesUpTo(blocks[k].addr, blocks[k].nodes, kSlotCount)
  <2>1. blocks # <<>>
    BY <1>1, <1>2
  <2> QED
    BY <1>1, <1>2, <2>1 DEF PersistentInv, LoopsRight, BlocksRight, SlotsRead, LinesUpTo
<1> QED
  BY <1>1, <1>2

(* Whatever nodes of a region are in use, every slot of a block !persistent  *)
(* prints is listed, free, or has a trace_ that cannot be read, and none is  *)
(* both listed and free.                                                     *)
THEOREM EverySlotAccounted == Spec => []SlotsAccounted
<1>1. PersistentInv => SlotsAccounted
  <2> SUFFICES ASSUME PersistentInv, listing # Blank, NEW k \in DOMAIN listing
      PROVE  LET shown == {SlotAt(listing[k].addr, listing[k].nodes[j].index) : j \in DOMAIN listing[k].nodes} IN
             /\ shown \cap Free(memory) = {}
             /\ NodesIn(listing[k].addr) \ Free(memory) \subseteq shown \cup Unlinked("trace_")
             /\ \A i, j \in DOMAIN listing[k].nodes : i < j => listing[k].nodes[i].index < listing[k].nodes[j].index
    BY DEF SlotsAccounted
  <2> DEFINE addr == listing[k].addr
             nodes == listing[k].nodes
             shown == {SlotAt(addr, nodes[j].index) : j \in DOMAIN nodes}
  <2>1. /\ memory \in Memories /\ asked \in Regions(memory) /\ addr \in BlocksOf(memory, asked)
        /\ DOMAIN nodes = 1..Len(nodes) /\ LinesUpTo(addr, nodes, kSlotCount)
    BY ListingRight DEF PersistentInv
  <2> HIDE DEF addr, nodes
  <2>2. shown \cap Free(memory) = {}
    <3>1. \A n \in Free(memory) : Trace(n) = 0
      BY DEF Trace, Read
    <3>2. \A n \in shown : Trace(n) # 0
      BY <2>1 DEF LinesUpTo
    <3> QED
      BY <3>1, <3>2
  <2>3. ASSUME NEW n \in NodesIn(addr) \ Free(memory), n \notin Unlinked("trace_")
        PROVE  n \in shown
    <3>1. PICK i \in 0..(kSlotCount - 1) : n = SlotAt(addr, i)
      BY DEF NodesIn
    <3>2. n \in NodesOf(memory) \ Free(memory)
      BY <3>1, <2>1, SlotIsNode
    <3>3. <<"trace_", n>> \notin unreadable
      BY <2>3 DEF Unlinked
    <3>4. Trace(n) # 0
      BY <3>2, <3>3, <2>1, UsedNode DEF Trace, Read
    <3> QED
      BY <3>1, <3>4, <2>1 DEF LinesUpTo
  <2>4. \A i, j \in DOMAIN nodes : i < j => nodes[i].index < nodes[j].index
    BY <2>1 DEF LinesUpTo
  <2> QED
    BY <2>2, <2>3, <2>4 DEF addr, nodes
<1> QED
  BY <1>1, PersistentAlways, PTL

(* The node a listed handle knows is the slot of the line it is listed in.   *)
THEOREM HandlesLeadBack == Spec => []BackLinked
<1>1. PersistentInv => BackLinked
  <2> SUFFICES ASSUME PersistentInv, listing # Blank, NEW k \in DOMAIN listing, NEW j \in DOMAIN listing[k].nodes,
                      listing[k].nodes[j].node # NotShown
      PROVE  listing[k].nodes[j].node = SlotAt(listing[k].addr, listing[k].nodes[j].index)
    BY DEF BackLinked
  <2> DEFINE addr == listing[k].addr
             line == listing[k].nodes[j]
             n == SlotAt(addr, line.index)
  <2>1. /\ memory \in Memories /\ asked \in Regions(memory) /\ addr \in BlocksOf(memory, asked)
        /\ line.index \in 0..(kSlotCount - 1)
        /\ line = NodeLine(n, line.index) /\ Trace(n) # 0
    BY ListingRight DEF PersistentInv, LinesUpTo
  <2>2. line.node # NotShown
    OBVIOUS
  <2> HIDE DEF addr, line
  <2>3. line.node = NodeKnown(Self(n)) /\ Raw(Self(n)) # 0
    <3>1. line.node = IF ShowsHandle(Self(n)) THEN NodeKnown(Self(n)) ELSE NotShown
      BY <2>1 DEF NodeLine
    <3> QED
      BY <3>1, <2>2 DEF ShowsHandle
  <2>4. n \in NodesOf(memory) \ Free(memory)
    BY <2>1 DEF Trace, Read
  <2>5. Self(n) \in Handles(memory)
    BY <2>3 DEF Raw, Read
  <2>6. Self(n) # 0
    BY <2>5, <2>1, UsedNode DEF Handles
  <2>7. Self(n) = memory.self[n]
    BY <2>4, <2>6 DEF Self, Read
  <2>8. NodeKnown(Self(n)) = n
    <3>1. \A o \in NodesOf(memory) \ Free(memory) : memory.self[o] = Self(n) => o = n
      BY <2>1, <2>4, <2>7, UsedNode
    <3> QED
      BY <3>1, <2>4, <2>7 DEF NodeKnown
  <2> QED
    BY <2>3, <2>8 DEF addr, line
<1> QED
  BY <1>1, PersistentAlways, PTL

(* The handles listed for the region !ts shows are those of the thread.      *)
THEOREM HandlesOfTheThread == Spec => []HandlesOfThread
<1>1. PersistentInv => HandlesOfThread
  <2> SUFFICES ASSUME PersistentInv, listing # Blank, asked # 0, asked = thread.region, NEW k \in DOMAIN listing
      PROVE  listing[k].addr \in
               BlocksOf(memory, memory.region[IF thread.asked = 0 THEN memory.main ELSE thread.asked])
    BY DEF HandlesOfThread
  <2>1. listing[k].addr \in BlocksOf(memory, asked)
    BY ListingRight
  <2>2. asked = memory.region[ThreadShown(thread.asked)]
    BY DEF PersistentInv, ScreenRight
  <2> QED
    BY <2>1, <2>2 DEF ThreadShown
<1> QED
  BY <1>1, PersistentAlways, PTL

------------------------------------------------------------------------------
(* The console. *)

(* The blocks a region's chain leads to.                                     *)
ChainOf(r) == IF r \in {0} \cup Unlinked("slots_") THEN <<>> ELSE UpTo(memory.blocks[r], Unlinked("next_"))

Headings == [k \in 1..Len(blocks) |-> blocks[k].addr]

(* The block whose turn is next.                                             *)
ToDump == IF pc = "slots" THEN NextBlock(cursor) ELSE cursor

ChainRight ==
  /\ unreadable \in Unreadables
  /\ pc # "idle" => Progress(BlocksRead, BlocksRead, Headings, ToDump)

(* A cell cannot be read exactly if its address is among the unlinked.       *)
LEMMA UnlinkedCells ==
  ASSUME unreadable \in Unreadables, NEW member, NEW x
  PROVE  x \in Unlinked(member) <=> <<member, x>> \in unreadable
<1>1. \A c \in unreadable : c = <<c[1], c[2]>>
  BY CellsAssumption
<1>2. <<member, x>>[1] = member /\ <<member, x>>[2] = x
  OBVIOUS
<1> QED
  BY <1>1, <1>2, Zenon DEF Unlinked

(* The loop of PersistentRegion::dump comes to every block of the chain.     *)
LEMMA RegionChain ==
  ASSUME memory \in Memories, unreadable \in Unreadables, NEW r \in {0} \cup Regions(memory)
  PROVE  /\ ChainOf(r) \in Seq(Nat \ {0}) /\ \A k \in DOMAIN ChainOf(r) : ChainOf(r)[k] # 0
         /\ Follows(ChainOf(r), memory.blocks[r], Unlinked("next_"))
         /\ FirstBlock(r) = IF ChainOf(r) = <<>> THEN 0 ELSE ChainOf(r)[1]
<1> DEFINE list == memory.blocks[r]
           stops == Unlinked("next_")
<1>1. CASE r \in {0} \cup Unlinked("slots_")
  <2>1. ChainOf(r) = <<>> /\ DOMAIN <<>> = {} /\ <<>> \in Seq(Nat \ {0})
    BY <1>1 DEF ChainOf
  <2>2. FirstBlock(r) = 0
    BY <1>1, UnlinkedCells DEF FirstBlock, Read
  <2> QED
    BY <2>1, <2>2 DEF Follows
<1>2. CASE r \notin {0} \cup Unlinked("slots_")
  <2>1. ChainOf(r) = UpTo(list, stops)
    BY <1>2 DEF ChainOf
  <2>2. list \in Seq(Nat \ {0}) /\ Distinct(list)
    BY <1>2, MemoriesAssumption
  <2>3. FirstBlock(r) = IF list = <<>> THEN 0 ELSE list[1]
    BY <1>2, UnlinkedCells DEF FirstBlock, Read
  <2> HIDE DEF list, stops
  <2>4. /\ UpTo(list, stops) \in Seq(Nat \ {0}) /\ Follows(UpTo(list, stops), list, stops)
        /\ (IF list = <<>> THEN 0 ELSE list[1]) = IF UpTo(list, stops) = <<>> THEN 0 ELSE UpTo(list, stops)[1]
    BY <2>2, WholeChain
  <2>5. \A k \in DOMAIN UpTo(list, stops) : UpTo(list, stops)[k] # 0
    BY <2>4
  <2> QED
    BY <2>1, <2>3, <2>4, <2>5 DEF list, stops
<1> QED
  BY <1>1, <1>2

(* While the command and the target stay, so does what there is to list.     *)
LEMMA AnswerStays ==
  ASSUME UNCHANGED <<memory, unreadable, asked>>
  PROVE  BlocksRead' = BlocksRead /\ Answer' = Answer /\ \A b : NextBlock(b)' = NextBlock(b)
<1>1. \A n, i : NodeLine(n, i)' = NodeLine(n, i)
  BY DEF NodeLine, Trace, Self, Read, ShowsHandle, Raw, NodeKnown
<1>2. \A m : Unlinked(m)' = Unlinked(m)
  BY DEF Unlinked
<1>3. BlocksRead' = BlocksRead
  BY <1>2 DEF BlocksRead
<1>4. \A b : UsedSlots(b)' = UsedSlots(b)
  BY <1>2 DEF UsedSlots
<1>5. \A b : LinesOf(b)' = LinesOf(b)
  BY <1>1, <1>4 DEF LinesOf
<1>6. Answer' = Answer
  BY <1>3, <1>5 DEF Answer
<1> QED
  BY <1>3, <1>6 DEF NextBlock, Read

(* A block all of whose slots have been looked at shows every used one.      *)
LEMMA CompleteBlock ==
  ASSUME unreadable \in Unreadables, memory \in Memories,
         asked \in Regions(memory), NEW b \in BlocksOf(memory, asked), NEW nodes, LinesUpTo(b, nodes, kSlotCount)
  PROVE  nodes = LinesOf(b)
<1> DEFINE n == Len(nodes)
           f == [j \in 1..n |-> nodes[j].index]
           S == UsedSlots(b)
<1>1. n \in Nat /\ DOMAIN nodes = 1..n /\ nodes = [j \in 1..n |-> nodes[j]] /\ kSlotCount \in Nat
  BY SlotsAssumption DEF LinesUpTo
<1>2. ASSUME NEW i \in 0..(kSlotCount - 1)
      PROVE  Trace(SlotAt(b, i)) # 0 <=> i \in S
  <2> DEFINE slotnode == SlotAt(b, i)
  <2>1. slotnode \in NodesOf(memory)
    BY SlotIsNode
  <2>2. slotnode \notin Free(memory) => memory.trace[slotnode] # 0
    BY <2>1, UsedNode
  <2>3. slotnode \in Unlinked("trace_") <=> <<"trace_", slotnode>> \in unreadable
    BY UnlinkedCells
  <2>4. i \in S <=> slotnode \notin Free(memory) \cup Unlinked("trace_")
    BY DEF UsedSlots
  <2> HIDE DEF slotnode, S
  <2>5. Trace(slotnode) # 0 <=> i \in S
    BY <2>1, <2>2, <2>3, <2>4 DEF Trace, Read
  <2> QED
    BY <2>5 DEF slotnode
<1>3. \A j \in 1..n : /\ nodes[j].index \in 0..(kSlotCount - 1)
                      /\ nodes[j] = NodeLine(SlotAt(b, nodes[j].index), nodes[j].index)
                      /\ nodes[j].index \in S
  BY <1>2 DEF LinesUpTo
<1>4. S \in SUBSET Nat /\ S \subseteq 0..(kSlotCount - 1)
  BY <1>1 DEF UsedSlots
<1>5. f \in [1..n -> S] /\ \A j, k \in 1..n : j < k => f[j] < f[k]
  BY <1>3 DEF LinesUpTo
<1>6. \A i \in S : \E k \in 1..n : f[k] = i
  BY <1>2, <1>4 DEF LinesUpTo
<1> HIDE DEF S, f, n
<1>7. Ascending(S) = f
  BY <1>1, <1>4, <1>5, <1>6, AscendingIs
<1>8. LinesOf(b) = [j \in 1..n |-> NodeLine(SlotAt(b, f[j]), f[j])]
  BY <1>5, <1>7 DEF LinesOf, S
<1>9. \A j \in 1..n : NodeLine(SlotAt(b, f[j]), f[j]) = nodes[j]
  BY <1>3 DEF f
<1> QED
  BY <1>1, <1>8, <1>9

(* What a line of the string is made of.                                     *)
LEMMA BlockOfLine ==
  ASSUME NEW line \in BlockLines
  PROVE  \E i \in Nat, b \in BlocksOf(memory, asked), s \in Seq(NodeLines) : line = BlockLine(i, b, s)
<1>1. PICK i \in Nat : line \in UNION {{BlockLine(i, b, s) : s \in Seq(NodeLines)} : b \in BlocksOf(memory, asked)}
  BY DEF BlockLines
<1>2. PICK b \in BlocksOf(memory, asked) : line \in {BlockLine(i, b, s) : s \in Seq(NodeLines)}
  BY <1>1
<1> QED
  BY <1>2

(* A turn of the loop over the slots leaves the headings alone.              *)
LEMMA HeadingsStay ==
  ASSUME PersistentInv, DumpSlot
  PROVE  Headings' = Headings
<1> DEFINE last == Len(blocks)
<1>1. blocks \in Seq(BlockLines) /\ last \in 1..Len(blocks)
  <2>1. blocks \in Seq(BlockLines) /\ pc = "slots"
    BY DEF PersistentInv, BlocksRight, DumpSlot
  <2>2. Len(blocks) # 0
    BY <2>1 DEF PersistentInv, LoopsRight
  <2> QED
    BY <2>1, <2>2
<1>2. PICK i \in Nat, b \in BlocksOf(memory, asked), s \in Seq(NodeLines) : blocks[last] = BlockLine(i, b, s)
  <2>1. blocks[last] \in BlockLines
    BY <1>1
  <2> QED
    BY <2>1, BlockOfLine
<1>3. CASE IsUnused(src)
  BY <1>3 DEF DumpSlot, Headings
<1>4. CASE ~IsUnused(src)
  <2>1. PICK nodes : blocks' = [blocks EXCEPT ![last] = [blocks[last] EXCEPT !.nodes = nodes]]
    BY <1>4, Zenon DEF DumpSlot
  <2>2. [blocks[last] EXCEPT !.nodes = nodes] = BlockLine(i, b, nodes)
    <3>1. [BlockLine(i, b, s) EXCEPT !.nodes = nodes] = BlockLine(i, b, nodes)
      BY OtherLines
    <3> QED
      BY <1>2, <3>1, Zenon
  <2>3. blocks' = [blocks EXCEPT ![last] = BlockLine(i, b, nodes)]
    BY <2>1, <2>2
  <2>4. BlockLine(i, b, nodes).addr = blocks[last].addr
    BY <1>2, OtherLines
  <2>5. Len(blocks') = Len(blocks) /\ \A k \in 1..Len(blocks) : blocks'[k].addr = blocks[k].addr
    BY <1>1, <2>3, <2>4
  <2> QED
    BY <2>5 DEF Headings
<1> QED
  BY <1>3, <1>4

(* !persistent begins at the head of the chain.                              *)
LEMMA ChainBegins ==
  ASSUME PersistentInv, ChainRight, NEW r \in {0} \cup Regions(memory), Persistent(r)
  PROVE  ChainRight'
<1>1. /\ UNCHANGED <<memory, unreadable>> /\ pc' = "block" /\ asked' = r /\ cursor' = FirstBlock(r) /\ blocks' = <<>>
  BY DEF Persistent, target
<1> DEFINE chain == ChainOf(r)
<1>2. BlocksRead' = chain
  <2>1. \A m : Unlinked(m)' = Unlinked(m)
    BY <1>1 DEF Unlinked
  <2> QED
    BY <1>1, <2>1 DEF BlocksRead, ChainOf
<1>3. chain \in Seq(Nat \ {0}) /\ cursor' = IF chain = <<>> THEN 0 ELSE chain[1]
  BY <1>1, RegionChain DEF PersistentInv, ChainRight
<1>4. Progress(chain, chain, <<>>, cursor')
  <2> HIDE DEF chain
  <2> QED
    BY <1>3, ProgressStarts
<1>5. Headings' = <<>> /\ ToDump' = cursor'
  BY <1>1 DEF Headings, ToDump
<1>6. Progress(BlocksRead, BlocksRead, Headings, ToDump)'
  BY <1>2, <1>4, <1>5 DEF Progress
<1> QED
  BY <1>1, <1>6 DEF ChainRight

(* While the command and the target stay, so does a loop's progress that     *)
(* prints no heading.                                                        *)
LEMMA ChainKeeps ==
  ASSUME ChainRight, UNCHANGED <<memory, unreadable, asked>>, pc' # "idle" => pc # "idle",
         UNCHANGED <<Headings, ToDump>>
  PROVE  ChainRight'
<1>1. BlocksRead' = BlocksRead
  BY AnswerStays
<1> QED
  BY <1>1 DEF ChainRight, Progress

(* The heading of a block is the next address of the chain.                  *)
LEMMA ChainGoesOn ==
  ASSUME PersistentInv, ChainRight, DumpBlock
  PROVE  ChainRight'
<1>1. /\ UNCHANGED <<memory, unreadable, asked, cursor>> /\ pc = "block" /\ cursor # 0 /\ pc' = "slots"
      /\ blocks' = Append(blocks, BlockLine(Len(blocks), cursor, <<>>))
  BY DEF DumpBlock, BlockLine, target
<1>2. asked \in Regions(memory) /\ memory \in Memories /\ unreadable \in Unreadables /\ blocks \in Seq(BlockLines)
  BY <1>1 DEF PersistentInv, LoopsRight, BlocksRight, ChainRight
<1> DEFINE chain == BlocksRead
           list == memory.blocks[asked]
           stops == Unlinked("next_")
<1>3. chain \in Seq(Nat \ {0}) /\ Follows(chain, list, stops)
  BY <1>2, RegionChain DEF BlocksRead, ChainOf
<1>4. Progress(chain, chain, Headings, cursor)
  BY <1>1 DEF ChainRight, ToDump
<1>5. PICK k \in DOMAIN chain :
        /\ cursor = chain[k]
        /\ Progress(chain, chain, Append(Headings, chain[k]), IF cursor \in stops THEN 0 ELSE NextIn(list, cursor))
  <2> HIDE DEF chain, list, stops
  <2> QED
    BY <1>1, <1>3, <1>4, ProgressGoesOn
<1>6. Headings' = Append(Headings, cursor)
  <2> DEFINE new == BlockLine(Len(blocks), cursor, <<>>)
  <2>1. new.addr = cursor
    BY OtherLines
  <2> HIDE DEF new
  <2>2. blocks' = Append(blocks, new)
    BY <1>1 DEF new
  <2>3. /\ Len(blocks') = Len(blocks) + 1 /\ Len(blocks) \in Nat
        /\ blocks'[Len(blocks) + 1] = new /\ \A j \in 1..Len(blocks) : blocks'[j] = blocks[j]
    BY <1>2, <2>2
  <2> QED
    BY <2>1, <2>3 DEF Headings
<1>7. ToDump' = IF cursor \in stops THEN 0 ELSE NextIn(list, cursor)
  <2>1. NextBlock(cursor) = IF cursor \in stops THEN 0 ELSE NextIn(list, cursor)
    BY <1>2, UnlinkedCells DEF NextBlock, Read
  <2>2. ToDump' = NextBlock(cursor)
    BY <1>1, AnswerStays DEF ToDump, NextBlock, Read
  <2> QED
    BY <2>1, <2>2
<1>8. chain' = chain
  BY <1>1, AnswerStays
<1>9. Progress(chain, chain, Headings, ToDump)'
  BY <1>5, <1>6, <1>7, <1>8 DEF Progress
<1> QED
  BY <1>1, <1>9 DEF ChainRight

(* Every step keeps to the chain.                                            *)
LEMMA ChainStep == PersistentInv /\ ChainRight /\ [Next]_vars => ChainRight'
<1> SUFFICES ASSUME PersistentInv, ChainRight, [Next]_vars
    PROVE  ChainRight'
  OBVIOUS
<1>1. ASSUME NEW a, ThreadState(a) PROVE ChainRight'
  BY <1>1, ChainKeeps, AnswerStays DEF ThreadState, target, Headings, ToDump
<1>2. ASSUME NEW r \in {0} \cup Regions(memory), Persistent(r) PROVE ChainRight'
  BY <1>2, ChainBegins
<1>3. CASE DumpBlock
  BY <1>3, ChainGoesOn
<1>4. CASE DumpSlot
  <2>1. UNCHANGED <<memory, unreadable, asked, cursor, pc>>
    BY <1>4 DEF DumpSlot, target
  <2>2. ToDump' = ToDump
    BY <2>1, AnswerStays DEF ToDump, NextBlock, Read
  <2> QED
    BY <1>4, <2>1, <2>2, HeadingsStay, ChainKeeps
<1>5. CASE ToNextBlock
  <2>1. UNCHANGED <<memory, unreadable, asked, blocks>> /\ pc = "slots" /\ pc' = "block" /\ cursor' = NextBlock(cursor)
    BY <1>5 DEF ToNextBlock, target
  <2>2. ToDump' = ToDump /\ Headings' = Headings
    BY <2>1 DEF ToDump, Headings
  <2> QED
    BY <2>1, <2>2, ChainKeeps
<1>6. CASE ShowListing
  BY <1>6 DEF ShowListing, target, ChainRight
<1>7. CASE UNCHANGED vars
  BY <1>7, ChainKeeps, AnswerStays DEF vars, target, Headings, ToDump
<1> QED
  BY <1>1, <1>2, <1>3, <1>4, <1>5, <1>6, <1>7 DEF Next, Run

(* When the cursor is null the string is the whole answer.                   *)
LEMMA WholeAnswer ==
  ASSUME PersistentInv, ChainRight, pc = "block", cursor = 0
  PROVE  blocks = Answer
<1>1. /\ memory \in Memories /\ unreadable \in Unreadables /\ blocks \in Seq(BlockLines)
      /\ asked \in {0} \cup Regions(memory) /\ kSlotCount \in Nat
  BY SlotsAssumption DEF PersistentInv, LoopsRight, BlocksRight, ChainRight
<1> DEFINE chain == BlocksRead
<1>2. chain \in Seq(Nat \ {0}) /\ \A k \in DOMAIN chain : chain[k] # 0
  BY <1>1, RegionChain DEF BlocksRead, ChainOf
<1>3. Headings = chain
  <2>1. Progress(chain, chain, Headings, 0)
    BY DEF ChainRight, ToDump
  <2> HIDE DEF chain
  <2> QED
    BY <1>2, <2>1, ProgressEnds
<1>4. Len(blocks) \in Nat /\ DOMAIN blocks = 1..Len(blocks) /\ DOMAIN chain = 1..Len(blocks)
      /\ blocks = [k \in 1..Len(blocks) |-> blocks[k]]
  BY <1>1, <1>3 DEF Headings
<1>5. ASSUME NEW k \in 1..Len(blocks)
      PROVE  blocks[k] = [index |-> k - 1, addr |-> chain[k], nodes |-> LinesOf(chain[k])]
  <2>1. /\ blocks[k].index = k - 1 /\ blocks[k].addr \in BlocksOf(memory, asked)
        /\ LinesUpTo(blocks[k].addr, blocks[k].nodes, kSlotCount)
    BY <1>5 DEF PersistentInv, BlocksRight, SlotsRead
  <2>2. blocks[k].addr = chain[k]
    BY <1>3, <1>5 DEF Headings
  <2>3. asked \in Regions(memory)
    BY <1>1, <1>5 DEF PersistentInv, LoopsRight
  <2>4. blocks[k].nodes = LinesOf(chain[k])
    BY <1>1, <2>1, <2>2, <2>3, CompleteBlock
  <2>5. PICK i \in Nat, b \in BlocksOf(memory, asked), s \in Seq(NodeLines) : blocks[k] = BlockLine(i, b, s)
    <3>1. blocks[k] \in BlockLines
      BY <1>1, <1>5
    <3> QED
      BY <3>1, BlockOfLine
  <2>6. i = k - 1 /\ b = chain[k] /\ s = LinesOf(chain[k])
    BY <2>1, <2>2, <2>4, <2>5, OtherLines
  <2> QED
    BY <2>5, <2>6 DEF BlockLine
<1> HIDE DEF chain
<1>6. Answer = [k \in DOMAIN chain |-> [index |-> k - 1, addr |-> chain[k], nodes |-> LinesOf(chain[k])]]
  BY DEF Answer, chain
<1> QED
  BY <1>4, <1>5, <1>6

(* !persistent shows every block and every used node of the region it was    *)
(* given, in order, at once: the safety part of HandlesWhole.                *)
THEOREM HandlesAreShownWhole == Spec => PersistentConsole!Steps
<1>1. Init => PersistentConsole!Init /\ ChainRight
  BY DEF Init, PersistentConsole!Init, ChainRight
<1>2. ASSUME PersistentInv, ChainRight, [Next]_vars
      PROVE  [PersistentConsole!Ask \/ PersistentConsole!Show]_(PersistentConsole!console)
  <2>1. ASSUME NEW r \in {0} \cup Regions(memory), Persistent(r) PROVE PersistentConsole!Ask
    BY <2>1 DEF Persistent, PersistentConsole!Ask
  <2>2. CASE ShowListing
    <3>1. UNCHANGED <<memory, unreadable, asked>> /\ pc = "block" /\ pc' = "idle" /\ listing' = blocks /\ cursor = 0
      BY <2>2 DEF ShowListing, target
    <3>2. listing' = Answer /\ Answer' = Answer
      BY <1>2, <3>1, WholeAnswer, AnswerStays
    <3> QED
      BY <3>1, <3>2 DEF PersistentConsole!Show
  <2>3. ASSUME UNCHANGED <<memory, unreadable, asked, listing>>, (pc # "idle")' = (pc # "idle")
        PROVE  UNCHANGED PersistentConsole!console
    BY <2>3, AnswerStays DEF PersistentConsole!console
  <2>4. ASSUME NEW a, ThreadState(a) PROVE UNCHANGED PersistentConsole!console
    BY <2>3, <2>4 DEF ThreadState, target
  <2>5. CASE DumpBlock \/ DumpSlot \/ ToNextBlock
    <3>1. UNCHANGED <<memory, unreadable, asked, listing>> /\ pc # "idle" /\ pc' # "idle"
      BY <2>5 DEF DumpBlock, DumpSlot, ToNextBlock, target
    <3> QED
      BY <2>3, <3>1
  <2>6. CASE UNCHANGED vars
    BY <2>3, <2>6 DEF vars, target
  <2> QED
    BY <1>2, <2>1, <2>2, <2>4, <2>5, <2>6 DEF Next, Run
<1>3. Spec => [](PersistentInv /\ ChainRight)
  BY <1>1, PersistentInvInit, PersistentInvStep, ChainStep, PTL DEF Spec
<1> QED
  BY <1>1, <1>2, <1>3, PTL DEF Spec, PersistentConsole!Steps

==============================================================================
