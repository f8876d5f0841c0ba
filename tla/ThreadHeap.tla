----------------------------- MODULE ThreadHeap -----------------------------
(***************************************************************************)
(* !heap and !pool.  !heap lists the arenas of a thread, counts the free   *)
(* pages in the pool of each, and dumps the tree of its page regions;      *)
(* !pool lists the free pages of one pool.                                 *)
(***************************************************************************)
EXTENDS BlinkPage, Chains, Integers

CONSTANTS
  Memories,     \* what the heap of a thread can hold
  Unreadables,  \* the sets of cells <<member, address>> that cannot be read
  Word,         \* 2^64, where uint64_t wraps around
  IndexSize,    \* 2^32, where uint32_t does
  Blank,        \* nothing printed yet
  Unnamed       \* the type of an object whose vtable cannot be read

(* m.heap is the address of the heap, m.arenas those of its arenas, and      *)
(* m.pool[i] the chain of free pages of arena i.  A pool entry lies at       *)
(* m.writable[e] in the region m.reserved[e].  The tree of regions has       *)
(* m.nodes, each with m.region, m.left and m.right, and m.level levels below *)
(* the top; m.base holds where each region begins.  A target has room for    *)
(* finitely many of them.                                                    *)
EntriesOf(m) == UNION {{m.pool[i][k] : k \in DOMAIN m.pool[i]} : i \in DOMAIN m.pool}
RegionsOf(m) == DOMAIN m.base

Child(m, n) == {m.left[n], m.right[n]} \ {0}

ASSUME WordAssumption == Word \in Nat \ {0} /\ IndexSize \in Nat \ {0} /\ SizeT <= Word

ASSUME MemoriesAssumption ==
  \A m \in Memories :
    /\ m.heap \in Nat \ {0} /\ m.arenas \in Seq(Nat \ {0})
    /\ m.pool \in Seq(Seq(Nat \ {0})) /\ Len(m.pool) = Len(m.arenas)
    /\ m.base \in [RegionsOf(m) -> Nat] /\ \A r, s \in RegionsOf(m) : m.base[r] = m.base[s] => r = s
    /\ \A r \in RegionsOf(m) : m.base[r] % kBlinkPageSize = 0 /\ m.base[r] # 0
    /\ \A i \in DOMAIN m.pool : Distinct(m.pool[i])
    /\ \A i, j \in DOMAIN m.pool : (\E k \in DOMAIN m.pool[i], l \in DOMAIN m.pool[j] : m.pool[i][k] = m.pool[j][l]) => i = j
    /\ \A e \in EntriesOf(m) :
         /\ m.reserved[e] \in RegionsOf(m)
         /\ m.writable[e] \in Nat /\ m.writable[e] < SizeT /\ m.writable[e] % kBlinkPageSize = kBlinkGuardPageSize
         /\ m.writable[e] - m.base[m.reserved[e]] \in 0..(IndexSize * kBlinkPageSize - 1)
    /\ \A e, f \in EntriesOf(m) : m.writable[e] = m.writable[f] => e = f
    /\ IsFiniteSet(m.nodes) /\ m.level \in [m.nodes -> Nat]
    /\ 0 \notin m.nodes /\ m.root \in m.nodes /\ m.level[m.root] = 1
    /\ \A n \in m.nodes :
         /\ m.region[n] \in RegionsOf(m) /\ Child(m, n) \subseteq m.nodes
         /\ m.left[n] = m.right[n] => m.left[n] = 0
         /\ \A c \in Child(m, n) : m.level[c] = m.level[n] + 1
         /\ n # m.root => \E p \in m.nodes : \A q \in m.nodes : n \in Child(m, q) <=> q = p
         /\ \A k \in m.nodes : m.region[k] = m.region[n] => k = n

ASSUME CellsAssumption == \A u \in Unreadables : \A c \in u : c = <<c[1], c[2]>>

VARIABLES
  memory, unreadable,  \* the target
  pc,                  \* the part of !heap or !pool that runs, or "idle"
  heap, row,           \* what ThreadHeap::load found, and the index of a loop over it
  cursor, count,       \* the loops over a chain of entries
  calls,               \* the calls of RegionTreeNode::dump that have not returned
  arenas, pools, regions, entries,  \* the string a command writes to
  listing,             \* the screen: what !heap printed last
  page_list            \* what !pool printed last, with the address it was given

target == <<memory, unreadable>>
output == <<arenas, pools, regions, entries>>
vars == <<target, pc, heap, row, cursor, count, calls, output, listing, page_list>>

Read(member, addr, value) == IF <<member, addr>> \in unreadable THEN 0 ELSE value
First(list) == IF list = <<>> THEN 0 ELSE list[1]

------------------------------------------------------------------------------
(* The parts. *)

ResolveType(a) ==
  IF a = 0 \/ <<"vtable", a>> \in unreadable THEN Unnamed
  ELSE memory.kind[CHOOSE i \in DOMAIN memory.arenas : memory.arenas[i] = a]

(* PagePool::PoolEntry.  Its data is a PageMemory, known by the same address *)
(* here, with two MemoryRegions: the reserved one behind a pointer, the      *)
(* writable one in it.                                                       *)
ListWith(e) == memory.pool[CHOOSE i \in DOMAIN memory.pool : \E k \in DOMAIN memory.pool[i] : memory.pool[i][k] = e]

Data(e) == Read("data", e, e)
NextEntry(e) == Read("next", e, NextIn(ListWith(e), e))
Base(r) == IF r = 0 THEN 0 ELSE Read("base_", r, memory.base[r])
Reserved(e) == IF Data(e) = 0 THEN 0 ELSE Base(Read("reserved_", e, memory.reserved[e]))
Writable(e) == IF Data(e) = 0 THEN 0 ELSE Read("writable_", e, memory.writable[e])

Index_Absolute(address, base) == (PageBase(address) \div kBlinkPageSize) % IndexSize
(* MemoryRegion::Index. *)
Index(address, base) == (((PageBase(address) - base) % Word) \div kBlinkPageSize) % IndexSize

EntryLine(e) ==
  [entry |-> e, reserved |-> Reserved(e), index |-> Index(Writable(e), Reserved(e)), writable |-> Writable(e)]

(* RegionTreeNode. *)
Left(n) == Read("left_", n, memory.left[n])
Right(n) == Read("right_", n, memory.right[n])
RegionBase(n) == Base(Read("region_", n, memory.region[n]))

(* PagePool::load and RegionTree::load, each behind a pointer of the heap.   *)
PoolHeads(h) ==
  [i \in DOMAIN memory.arenas |->
     IF <<"free_page_pool_", h>> \in unreadable THEN 0 ELSE Read("pool_", i, First(memory.pool[i]))]

Root(h) == IF <<"region_tree_", h>> \in unreadable THEN 0 ELSE Read("root_", h, memory.root)

NoHeap == [addr |-> 0, arenas |-> <<>>, pool |-> <<>>, root |-> 0]

(* ThreadHeap::load. *)
Loaded(h) ==
  IF h = 0 THEN NoHeap
  ELSE [addr   |-> h,
        arenas |-> [i \in DOMAIN memory.arenas |-> Read("arenas_", i, memory.arenas[i])],
        pool   |-> PoolHeads(h), root |-> Root(h)]

Init ==
  /\ memory \in Memories /\ unreadable \in Unreadables
  /\ pc = "idle" /\ heap = NoHeap
  /\ row = 1 /\ cursor = 0 /\ count = 0 /\ calls = <<>>
  /\ arenas = <<>> /\ pools = <<>> /\ regions = <<>> /\ entries = <<>>
  /\ listing = Blank /\ page_list = [asked |-> 0, lines |-> Blank]

------------------------------------------------------------------------------
(* !heap. *)

Heap(h) ==
  /\ pc = "idle" /\ pc' = "arenas"
  /\ heap' = Loaded(h) /\ row' = 1
  /\ arenas' = <<>> /\ pools' = <<>> /\ regions' = <<>> /\ listing' = Blank
  /\ UNCHANGED <<target, cursor, count, calls, entries, page_list>>

DumpArena ==
  /\ pc = "arenas" /\ row <= Len(heap.arenas)
  /\ arenas' = Append(arenas, [index |-> row - 1, type |-> ResolveType(heap.arenas[row]), addr |-> heap.arenas[row]])
  /\ row' = row + 1
  /\ UNCHANGED <<target, pc, heap, cursor, count, calls, pools, regions, entries, listing, page_list>>

ToPool_KeepCount(i) == row' = i /\ cursor' = (IF i <= Len(heap.pool) THEN heap.pool[i] ELSE 0) /\ count' = count
(* PagePool::dump turns to the pool of arena i. *)
ToPool(i) == row' = i /\ cursor' = (IF i <= Len(heap.pool) THEN heap.pool[i] ELSE 0) /\ count' = 0

ArenasDone ==
  /\ pc = "arenas" /\ row > Len(heap.arenas)
  /\ pc' = "pool" /\ ToPool(1)
  /\ UNCHANGED <<target, heap, calls, output, listing, page_list>>

CountEntry ==
  /\ pc = "pool" /\ cursor # 0
  /\ cursor' = NextEntry(cursor) /\ count' = count + 1
  /\ UNCHANGED <<target, pc, heap, row, calls, output, listing, page_list>>

PoolLine(i) == [index |-> i - 1, entry |-> heap.pool[i], count |-> count]

DumpPool ==
  /\ pc = "pool" /\ cursor = 0 /\ row <= Len(heap.pool)
  /\ pools' = IF heap.pool[row] # 0 THEN Append(pools, PoolLine(row)) ELSE pools
  /\ ToPool(row + 1)
  /\ UNCHANGED <<target, pc, heap, calls, arenas, regions, entries, listing, page_list>>

(* The recursive calls a call for n makes. *)
Subtrees(n) == (IF Left(n) # 0 THEN <<Left(n)>> ELSE <<>>) \o (IF Right(n) # 0 THEN <<Right(n)>> ELSE <<>>)

(* RegionTreeNode::dump begins: it prints its line first. *)
Call(n, depth) ==
  /\ regions' = Append(regions, [base |-> RegionBase(n), depth |-> depth])
  /\ calls' = Append(calls, [depth |-> depth, todo |-> Subtrees(n)])

DumpTree ==
  /\ pc = "pool" /\ row > Len(heap.pool) /\ heap.root # 0
  /\ pc' = "tree" /\ Call(heap.root, 1)
  /\ UNCHANGED <<target, heap, row, cursor, count, arenas, pools, entries, listing, page_list>>

Last == calls[Len(calls)]
Callers == SubSeq(calls, 1, Len(calls) - 1)

DepthOf_Calls(call) == Len(regions)
(* The depth a call passes on. *)
DepthOf(call) == call.depth + 1

DumpSubtree ==
  /\ pc = "tree" /\ calls # <<>> /\ Last.todo # <<>>
  /\ LET n == Head(Last.todo) IN
       /\ regions' = Append(regions, [base |-> RegionBase(n), depth |-> DepthOf(Last)])
       /\ calls' = Callers \o <<[Last EXCEPT !.todo = Tail(@)],
                                [depth |-> DepthOf(Last), todo |-> Subtrees(n)]>>
  /\ UNCHANGED <<target, pc, heap, row, cursor, count, arenas, pools, entries, listing, page_list>>

ReturnFromSubtree ==
  /\ pc = "tree" /\ calls # <<>> /\ Last.todo = <<>>
  /\ calls' = Callers
  /\ UNCHANGED <<target, pc, heap, row, cursor, count, output, listing, page_list>>

PrintHeap ==
  /\ \/ pc = "pool" /\ row > Len(heap.pool) /\ heap.root = 0
     \/ pc = "tree" /\ calls = <<>>
  /\ pc' = "idle" /\ listing' = [arenas |-> arenas, pools |-> pools, regions |-> regions]
  /\ UNCHANGED <<target, heap, row, cursor, count, calls, output, page_list>>

------------------------------------------------------------------------------
(* !pool. *)

Pool(e) ==
  /\ pc = "idle" /\ pc' = "entries"
  /\ cursor' = e /\ entries' = <<>> /\ page_list' = [asked |-> e, lines |-> Blank]
  /\ UNCHANGED <<target, heap, row, count, calls, arenas, pools, regions, listing>>

DumpEntry ==
  /\ pc = "entries" /\ cursor # 0
  /\ entries' = Append(entries, EntryLine(cursor))
  /\ cursor' = NextEntry(cursor)
  /\ UNCHANGED <<target, pc, heap, row, count, calls, arenas, pools, regions, listing, page_list>>

PrintPool ==
  /\ pc = "entries" /\ cursor = 0
  /\ pc' = "idle" /\ page_list' = [page_list EXCEPT !.lines = entries]
  /\ UNCHANGED <<target, heap, row, cursor, count, calls, output, listing>>

Run ==
  \/ DumpArena \/ ArenasDone \/ CountEntry \/ DumpPool
  \/ DumpTree \/ DumpSubtree \/ ReturnFromSubtree \/ PrintHeap
  \/ DumpEntry \/ PrintPool

Next ==
  \/ \E h \in {0, memory.heap} : Heap(h)
  \/ \E e \in {0} \cup EntriesOf(memory) : Pool(e)
  \/ Run

(* A command, once started, runs to its end; nothing in it waits. *)
Spec == Init /\ [][Next]_vars /\ WF_vars(Run)

------------------------------------------------------------------------------
(* Properties. *)

Unlinked(member) == {c[2] : c \in {d \in unreadable : d[1] = member}}

(* The chain of free pages from entry e on. *)
ChainFrom(e) == IF e = 0 THEN <<>> ELSE UpTo(From(ListWith(e), e), Unlinked("next"))

(* The tree below n in the order of a reader: a region, what lies left of    *)
(* it, what lies right of it; each as deep in the listing as in the tree.    *)
TreeLines[n \in memory.nodes \cup {0}] ==
  IF n = 0 THEN <<>>
  ELSE <<[base |-> RegionBase(n), depth |-> memory.level[n]]>> \o TreeLines[Left(n)] \o TreeLines[Right(n)]

PoolSummary(i) == [index |-> i - 1, entry |-> heap.pool[i], count |-> Len(ChainFrom(heap.pool[i]))]

HeapAnswer ==
  IF heap.addr = 0 THEN [arenas |-> <<>>, pools |-> <<>>, regions |-> <<>>]
  ELSE LET used == Ascending({i \in DOMAIN memory.arenas : heap.pool[i] # 0})
       IN  [arenas  |-> [i \in DOMAIN memory.arenas |->
                           [index |-> i - 1, type |-> ResolveType(heap.arenas[i]), addr |-> heap.arenas[i]]],
            pools   |-> [k \in DOMAIN used |-> PoolSummary(used[k])],
            regions |-> TreeLines[heap.root]]

PoolAnswer ==
  LET chain == ChainFrom(page_list.asked) IN [k \in DOMAIN chain |-> EntryLine(chain[k])]

HeapConsole == INSTANCE Console WITH
  running <- pc \in {"arenas", "pool", "tree"}, answer <- HeapAnswer, screen <- listing

PoolConsole == INSTANCE Console WITH
  running <- pc = "entries", answer <- PoolAnswer, screen <- page_list.lines

(* !heap prints every arena of the heap, a line with the length of its chain *)
(* for every pool that is not empty, and the region tree in preorder; only   *)
(* what lies behind a pointer that cannot be read is missing.  !pool prints  *)
(* the free pages from the entry it was given on, in the order of the chain, *)
(* each once.  Both come to an end.                                          *)
HeapWhole == HeapConsole!Spec /\ PoolConsole!Spec

(* The number !heap prints behind a pool entry is the number of lines !pool  *)
(* prints when it is given that entry.                                       *)
PoolAgrees ==
  listing # Blank /\ page_list.lines # Blank =>
    \A i \in DOMAIN listing.pools :
      listing.pools[i].entry = page_list.asked => listing.pools[i].count = Len(page_list.lines)

(* A free page is where !pool says: index pages of 128 KB into its region,   *)
(* behind a guard page.                                                      *)
PageInRegion(line) ==
  line.reserved # 0 /\ line.writable # 0 =>
    line.writable = line.reserved + line.index * kBlinkPageSize + kBlinkGuardPageSize

(* No two pages of a chain have the same place in one region.  Where the     *)
(* base of the region cannot be read, the same index tells nothing of pages  *)
(* of different regions: it is cut to 32 bits.                               *)
OwnPlace(line, other) ==
  /\ line.index = other.index /\ line.reserved = other.reserved
  /\ line.reserved # 0 \/ memory.reserved[line.entry] = memory.reserved[other.entry]
  => 0 \in {line.writable, other.writable}

PagesPlaced ==
  page_list.lines # Blank =>
    \A i, j \in DOMAIN page_list.lines :
      PageInRegion(page_list.lines[i]) /\ (i # j => OwnPlace(page_list.lines[i], page_list.lines[j]))

==============================================================================
