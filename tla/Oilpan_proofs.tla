--------------------------- MODULE Oilpan_proofs -----------------------------
(***************************************************************************)
(* What Oilpan's commands print, for heaps of any size and any cells that  *)
(* cannot be read: first !arena, !hpage and !chunk, the session of module  *)
(* Arenas, then !heap and !pool, that of module ThreadHeap, as an instance *)
(* with a target of its own.                                               *)
(***************************************************************************)
EXTENDS Arenas, Chains_proofs

------------------------------------------------------------------------------
(* The geometry of a page. *)

(* The payload lies within the page, between the header and the guard.       *)
LEMMA PayloadFacts ==
  /\ PayloadSize \in Nat /\ PageHeaderSize \in Nat \ {0}
  /\ PageHeaderSize + PayloadSize + 2 * kBlinkGuardPageSize <= kBlinkPageSize
BY PageHeaderAssumption, SMT
   DEF PayloadSize, PageHeaderSize, Padding, kBlinkPageSize, kBlinkGuardPageSize, kAllocationGranularity

(* Every address from a page's header to the end of its 128 KB leads back to *)
(* the page.                                                                 *)
LEMMA PageOfInner ==
  ASSUME NEW p \in Nat, p < SizeT, p % kBlinkPageSize = kBlinkGuardPageSize,
         NEW addr \in Nat, p <= addr, addr < p - kBlinkGuardPageSize + kBlinkPageSize
  PROVE  PageHeader(addr) = p
<1>1. PICK k \in Nat : p = k * kBlinkPageSize + kBlinkGuardPageSize
  <2>1. p \div 131072 \in Nat /\ p = (p \div 131072) * 131072 + 4096
    BY SMT DEF kBlinkPageSize, kBlinkGuardPageSize
  <2>. QED BY <2>1 DEF kBlinkPageSize, kBlinkGuardPageSize
<1>2. PICK n \in Nat : SizeT = n * kBlinkPageSize
  <2>1. SizeT \div 131072 \in Nat /\ SizeT = (SizeT \div 131072) * 131072
    BY SizeTAssumption, SMT DEF kBlinkPageSize
  <2>. QED BY <2>1 DEF kBlinkPageSize
<1>3. k + 1 <= n
  BY <1>1, <1>2, SMT DEF kBlinkPageSize, kBlinkGuardPageSize
<1>4. addr < SizeT
  BY <1>1, <1>2, <1>3, SMT DEF kBlinkPageSize, kBlinkGuardPageSize
<1>5. addr % SizeT = addr
  BY <1>4, SizeTAssumption, SMT
<1>6. addr - (addr % kBlinkPageSize) = k * kBlinkPageSize
  BY <1>1, SMT DEF kBlinkPageSize, kBlinkGuardPageSize
<1>. QED BY <1>1, <1>5, <1>6, SMT DEF PageHeader, PageBase, HeaderOf

(* The extension reads of a header the size and the freed bit Blink put in.  *)
LEMMA HeaderReadsBack ==
  ASSUME NEW h \in Headers
  PROVE  Decoded(Encoded(h)).size = h.size /\ Decoded(Encoded(h)).free = h.free
<1>1. /\ h.mark \in Nat /\ h.mark < 2 /\ h.free \in Nat /\ h.free < 2 /\ h.dom \in Nat /\ h.gcinfo \in Nat
      /\ h.size \in Nat /\ h.size < 131072 /\ h.size % 8 = 0
  <2>1. h.mark \in Flags /\ h.free \in Flags /\ h.size \in Sizes /\ h.dom \in Flags /\ h.gcinfo \in GCInfoIndexes
    BY SMT DEF Headers
  <2>2. \A n \in Flags : n \in Nat /\ n < 2
    BY SMT DEF Flags
  <2>3. \A n \in Sizes : n \in Nat /\ n < 131072 /\ n % 8 = 0
    BY SMT DEF Sizes, kBlinkPageSize, kAllocationGranularity
  <2>4. \A n \in GCInfoIndexes : n \in Nat
    BY SMT DEF GCInfoIndexes
  <2>. QED BY <2>1, <2>2, <2>3, <2>4
<1> DEFINE low == h.mark + 2 * h.free + h.size
           high == h.dom + 2 * h.gcinfo
<1>2. PICK k \in Nat : h.size = 8 * k
  <2>1. h.size \div 8 \in Nat /\ h.size = 8 * (h.size \div 8)
    BY <1>1, SMT
  <2>. QED BY <2>1
<1>3. low \in Nat /\ low < 131072 /\ low - (low % 8) = h.size /\ (low \div 2) % 2 = h.free /\ high \in Nat
  <2>1. CASE h.mark = 0 /\ h.free = 0
    BY <1>1, <1>2, <2>1, SMT
  <2>2. CASE h.mark = 1 /\ h.free = 0
    BY <1>1, <1>2, <2>2, SMT
  <2>3. CASE h.mark = 0 /\ h.free = 1
    BY <1>1, <1>2, <2>3, SMT
  <2>4. CASE h.mark = 1 /\ h.free = 1
    BY <1>1, <1>2, <2>4, SMT
  <2>5. (h.mark = 0 \/ h.mark = 1) /\ (h.free = 0 \/ h.free = 1)
    BY <1>1, SMT
  <2>. QED BY <2>1, <2>2, <2>3, <2>4, <2>5
<1>4. Encoded(h) = low + 131072 * high
  BY <1>1, SMT DEF Encoded
<1>. HIDE DEF low, high
<1>5. LET e == low + 131072 * high IN e % 131072 = low /\ e % 8 = low % 8 /\ (e \div 2) % 2 = (low \div 2) % 2
  BY <1>3, SMT
<1>. QED BY <1>3, <1>4, <1>5 DEF Decoded

------------------------------------------------------------------------------
(* The target. *)

TargetOK == memory \in Memories /\ unreadable \in Unreadables

(* The cells of a member that cannot be read, by their addresses.            *)
LEMMA UnlinkedCells ==
  ASSUME TargetOK, NEW member, NEW x
  PROVE  x \in Unlinked(member) <=> <<member, x>> \in unreadable
<1>1. \A c \in unreadable : c = <<c[1], c[2]>>
  BY CellsAssumption DEF TargetOK
<1>2. <<member, x>>[1] = member /\ <<member, x>>[2] = x
  OBVIOUS
<1>. QED BY <1>1, <1>2, Zenon DEF Unlinked

(* A list of the heap has no address twice, two lists of an arena share none.*)
LEMMA ListsDistinct ==
  ASSUME NEW l \in Seq(Nat), NEW m \in Seq(Nat), Distinct(l \o m)
  PROVE  /\ Distinct(l) /\ Distinct(m)
         /\ \A i \in DOMAIN l, j \in DOMAIN m : l[i] # m[j]
<1>1. /\ DOMAIN (l \o m) = 1..(Len(l) + Len(m))
      /\ \A i \in DOMAIN l : i \in DOMAIN (l \o m) /\ (l \o m)[i] = l[i]
      /\ \A j \in DOMAIN m : Len(l) + j \in DOMAIN (l \o m) /\ (l \o m)[Len(l) + j] = m[j]
  OBVIOUS
<1>2. Distinct(l)
  BY <1>1 DEF Distinct
<1>3. Distinct(m)
  <2>. SUFFICES ASSUME NEW i \in DOMAIN m, NEW j \in DOMAIN m, m[i] = m[j] PROVE i = j
    BY DEF Distinct
  <2>1. Len(l) + i = Len(l) + j
    BY <1>1 DEF Distinct
  <2>. QED BY <2>1
<1>4. ASSUME NEW i \in DOMAIN l, NEW j \in DOMAIN m, l[i] = m[j] PROVE FALSE
  <2>1. i = Len(l) + j
    BY <1>1, <1>4 DEF Distinct
  <2>. QED BY <2>1
<1>. QED BY <1>2, <1>3, <1>4

(* An arena of the target.                                                   *)
LEMMA ArenaFacts ==
  ASSUME TargetOK, NEW a \in memory.arenas
  PROVE  /\ a \in Nat \ {0} /\ memory.kind[a] \in {"NormalPageArena", "LargeObjectArena"}
         /\ memory.point[a] \in Nat
         /\ memory.active[a] \in Seq(Nat) /\ memory.unswept[a] \in Seq(Nat)
         /\ Distinct(memory.active[a]) /\ Distinct(memory.unswept[a])
         /\ \A i \in DOMAIN memory.active[a], j \in DOMAIN memory.unswept[a] :
              memory.active[a][i] # memory.unswept[a][j]
         /\ \A b \in FreeLists : memory.free[a][b] \in Seq(Nat \ {0}) /\ Distinct(memory.free[a][b])
<1>1. /\ a \in Nat \ {0} /\ memory.kind[a] \in {"NormalPageArena", "LargeObjectArena"}
      /\ memory.point[a] \in Nat
      /\ memory.active[a] \in Seq(Nat) /\ memory.unswept[a] \in Seq(Nat)
      /\ Distinct(memory.active[a] \o memory.unswept[a])
      /\ \A b \in FreeLists : memory.free[a][b] \in Seq(Nat \ {0}) /\ Distinct(memory.free[a][b])
  BY MemoriesAssumption DEF TargetOK
<1>. QED BY <1>1, ListsDistinct

(* A page of an arena is that arena's alone.                                 *)
LEMMA PageFacts ==
  ASSUME TargetOK, NEW a \in memory.arenas, NEW p \in PagesOf(memory, a)
  PROVE  /\ p \in PagesIn(memory) /\ Owner(p) = a
         /\ p \in Nat \ {0} /\ p < SizeT /\ p % kBlinkPageSize = kBlinkGuardPageSize
         /\ memory.kind[a] = "LargeObjectArena" => memory.payload_size[p] \in Nat
<1>1. p < SizeT /\ p % kBlinkPageSize = kBlinkGuardPageSize
      /\ (memory.kind[a] = "LargeObjectArena" => memory.payload_size[p] \in Nat)
  BY MemoriesAssumption DEF TargetOK
<1>2. p \in Nat
  BY ArenaFacts DEF PagesOf
<1>3. p # 0
  BY <1>1, SMT DEF kBlinkPageSize, kBlinkGuardPageSize
<1>4. \A b \in memory.arenas : p \in PagesOf(memory, b) => b = a
  <2>1. \A b, c \in memory.arenas : PagesOf(memory, b) \cap PagesOf(memory, c) # {} => b = c
    BY MemoriesAssumption DEF TargetOK
  <2>. QED BY <2>1
<1>5. Owner(p) = a
  BY <1>4 DEF Owner
<1>6. p \in PagesIn(memory)
  BY DEF PagesIn
<1>. QED BY <1>1, <1>2, <1>3, <1>5, <1>6

(* A free chunk.                                                             *)
LEMMA ChunkFacts ==
  ASSUME TargetOK, NEW a \in memory.arenas, NEW c \in ChunksOf(memory, a)
  PROVE  /\ PageHeader(c) \in PagesOf(memory, a) /\ c \in Nat \ {0}
         /\ HeaderAt(c).size = IF c \in Unlinked("encoded_") THEN 0 ELSE memory.header[c].size
         /\ c \notin Unlinked("encoded_") => HeaderAt(c).free = 1
<1>1. PageHeader(c) \in PagesOf(memory, a) /\ memory.header[c] \in Headers /\ memory.header[c].free = 1
  BY MemoriesAssumption DEF TargetOK
<1>2. c \in Nat \ {0}
  <2>1. PICK b \in FreeLists : \E i \in DOMAIN memory.free[a][b] : memory.free[a][b][i] = c
    BY DEF ChunksOf
  <2>. QED BY <2>1, ArenaFacts
<1>3. c \in UNION {ChunksOf(memory, x) : x \in memory.arenas}
  OBVIOUS
<1>. QED BY <1>1, <1>2, <1>3, UnlinkedCells, HeaderReadsBack DEF HeaderAt, NoHeader

------------------------------------------------------------------------------
(* The chains of pages.                                                      *)

(* The list a page is in: its members are the pages of one arena, and each   *)
(* is in that list and in no other.                                          *)
LEMMA ListFacts ==
  ASSUME TargetOK, NEW x \in PagesIn(memory)
  PROVE  /\ Owner(x) \in memory.arenas /\ x \in PagesOf(memory, Owner(x))
         /\ ListOf(x) \in Seq(Nat) /\ Distinct(ListOf(x))
         /\ \E n \in DOMAIN ListOf(x) : ListOf(x)[n] = x
         /\ \A n \in DOMAIN ListOf(x) :
              ListOf(x)[n] \in PagesOf(memory, Owner(x)) /\ ListOf(ListOf(x)[n]) = ListOf(x)
<1>1. PICK a \in memory.arenas : x \in PagesOf(memory, a)
  BY DEF PagesIn
<1>2. Owner(x) = a
  BY <1>1, PageFacts
<1> DEFINE active == memory.active[a]
           unswept == memory.unswept[a]
<1>3. /\ active \in Seq(Nat) /\ unswept \in Seq(Nat) /\ Distinct(active) /\ Distinct(unswept)
      /\ \A i \in DOMAIN active, j \in DOMAIN unswept : active[i] # unswept[j]
  BY <1>1, ArenaFacts
<1>4. \A i \in DOMAIN active : active[i] \in PagesOf(memory, a)
  BY DEF PagesOf
<1>5. \A i \in DOMAIN unswept : unswept[i] \in PagesOf(memory, a)
  BY DEF PagesOf
<1>6. \A p \in PagesOf(memory, a) :
        ListOf(p) = IF \E i \in DOMAIN active : active[i] = p THEN active ELSE unswept
  BY <1>1, PageFacts DEF ListOf
<1>7. \A p \in PagesOf(memory, a) :
        (\E i \in DOMAIN active : active[i] = p) \/ (\E i \in DOMAIN unswept : unswept[i] = p)
  BY DEF PagesOf
<1>8. CASE \E i \in DOMAIN active : active[i] = x
  <2>1. ListOf(x) = active
    BY <1>1, <1>6, <1>8
  <2>2. \A n \in DOMAIN active : ListOf(active[n]) = active
    BY <1>4, <1>6
  <2>. QED BY <1>1, <1>2, <1>3, <1>4, <1>8, <2>1, <2>2
<1>9. CASE ~ \E i \in DOMAIN active : active[i] = x
  <2>1. ListOf(x) = unswept
    BY <1>1, <1>6, <1>9
  <2>2. \A n \in DOMAIN unswept : ListOf(unswept[n]) = unswept
    BY <1>3, <1>5, <1>6
  <2>. QED BY <1>1, <1>2, <1>3, <1>5, <1>7, <1>9, <2>1, <2>2
<1>. QED BY <1>8, <1>9

(* dump_page_chain, from a page: it comes to pages of one arena, and goes on *)
(* from each to the next.                                                    *)
LEMMA PageChain ==
  ASSUME TargetOK, NEW x \in PagesIn(memory)
  PROVE  /\ PagesFrom(x) \in Seq(Nat) /\ Len(PagesFrom(x)) > 0 /\ PagesFrom(x)[1] = x
         /\ \A k \in DOMAIN PagesFrom(x) :
              PagesFrom(x)[k] \in PagesOf(memory, Owner(x)) /\ ListOf(PagesFrom(x)[k]) = ListOf(x)
         /\ Follows(PagesFrom(x), ListOf(x), Unlinked("next_"))
<1>1. PagesFrom(x) = WalkFrom(ListOf(x), x, Unlinked("next_"))
  BY DEF PagesFrom, WalkFrom
<1> DEFINE l == ListOf(x)
           w == WalkFrom(ListOf(x), x, Unlinked("next_"))
<1>2. /\ l \in Seq(Nat) /\ Distinct(l) /\ \E n \in DOMAIN l : l[n] = x
      /\ \A n \in DOMAIN l : l[n] \in PagesOf(memory, Owner(x)) /\ ListOf(l[n]) = l
  BY ListFacts
<1>3. /\ w \in Seq(Nat) /\ Len(w) > 0 /\ w[1] = x
      /\ \A k \in 1..Len(w) : \E n \in DOMAIN l : l[n] = w[k]
  <2>. HIDE DEF l
  <2>. QED BY <1>2, WalkStarts DEF l
<1>4. \A k \in DOMAIN w : w[k] \in PagesOf(memory, Owner(x)) /\ ListOf(w[k]) = l
  BY <1>2, <1>3
<1>5. Follows(w, l, Unlinked("next_"))
  BY <1>2, WalkFollows
<1>. QED BY <1>1, <1>3, <1>4, <1>5

(* From where no page is there is no chain.                                  *)
LEMMA NoPageChain ==
  ASSUME NEW x, x \notin PagesIn(memory)
  PROVE  PagesFrom(x) = <<>>
BY DEF PagesFrom

(* The link of a page.                                                       *)
LEMMA LinkOfPage ==
  ASSUME TargetOK, NEW p
  PROVE  NextPage(p) = IF p \in Unlinked("next_") THEN 0 ELSE NextIn(ListOf(p), p)
BY UnlinkedCells DEF NextPage, ListOf, Read

------------------------------------------------------------------------------
(* The inductive invariant. *)

AllChunks == UNION {ChunksOf(memory, a) : a \in memory.arenas}

(* The arena in hand is the one that was asked for, or none.                 *)
ArenaRight ==
  \/ asked \in memory.arenas /\ arena = LoadedArena(asked)
  \/ asked = 0 /\ \E garbage \in Garbage \cup {0} : arena = EmptyArena(garbage)

(* What was shown of the chain from a page, and where the loop is.  A        *)
(* pointer that leads to no page ends it at once.                            *)
Walking(head, shown, cur) ==
  IF head \in PagesIn(memory) \cup {0}
  THEN /\ Progress(PagesFrom(head), Lines(PagesFrom(head)), shown, cur)
       /\ \A i \in DOMAIN shown : shown[i].class # "none"
  ELSE shown = <<>> /\ cur = head

(* What is shown in the end if each page on the way can be identified.       *)
Walked(head, shown) ==
  /\ head \in PagesIn(memory) \cup {0} /\ shown = Lines(PagesFrom(head))
  /\ \A i \in DOMAIN PagesFrom(head) : PagesFrom(head)[i] \notin Unlinked("vtable")

NoChunks == [b \in FreeLists |-> <<>>]

(* What was shown of the free lists.                                         *)
ChunksWalked ==
  /\ arena.class = "NormalPageArena" /\ free_list \in FreeLists
  /\ chunks = [b \in FreeLists |-> chunks[b]]
  /\ \A b \in FreeLists : b < free_list => chunks[b] = FreeChunksOf(asked, b)
  /\ \A b \in FreeLists : b > free_list => chunks[b] = <<>>
  /\ Progress(ChunksFrom(asked, free_list), FreeChunksOf(asked, free_list), chunks[free_list], cursor)

WalkRight ==
  /\ pc \in {"idle", "active", "unswept", "free"}
  /\ pages = [active |-> pages.active, unswept |-> pages.unswept]
  /\ pc = "active" => Walking(arena.first, pages.active, cursor) /\ pages.unswept = <<>>
  /\ pc = "unswept" => Walked(arena.first, pages.active) /\ Walking(arena.unswept, pages.unswept, cursor)
  /\ pc \in {"active", "unswept"} => chunks = NoChunks /\ free_list = 0
  /\ pc = "free" => Walked(arena.first, pages.active) /\ Walked(arena.unswept, pages.unswept) /\ ChunksWalked

(* The screen shows nothing yet, or the answer; and what !hpage and !chunk   *)
(* print of an address.                                                      *)
ScreenRight ==
  /\ listing = Blank \/ (pc = "idle" /\ listing = Answer)
  /\ described = Blank \/ \E addr \in Probes : described = Description(addr)
  /\ inspected = Blank \/ \E addr \in {0} \cup AllChunks : inspected = Inspection(addr)

IInv == TargetOK /\ ArenaRight /\ WalkRight /\ ScreenRight

------------------------------------------------------------------------------
(* What stays as it is while the target does.                                *)

(* What the target holds is the same while the target is.                    *)
LEMMA TargetStays ==
  ASSUME UNCHANGED target
  PROVE  /\ PagesIn(memory)' = PagesIn(memory) /\ AllChunks' = AllChunks
         /\ \A p : Owner(p)' = Owner(p) /\ ListOf(p)' = ListOf(p)
         /\ \A m : Unlinked(m)' = Unlinked(m)
         /\ \A p : PageClass(p)' = PageClass(p)
         /\ \A p : PayloadFrom(p)' = PayloadFrom(p) /\ PayloadTo(p)' = PayloadTo(p)
         /\ \A p : PagesFrom(p)' = PagesFrom(p) /\ NextPage(p)' = NextPage(p)
         /\ \A a, b : ChunksFrom(a, b)' = ChunksFrom(a, b) /\ FreeChunksOf(a, b)' = FreeChunksOf(a, b)
         /\ \A a : LoadedArena(a)' = LoadedArena(a)
         /\ \A addr : Description(addr)' = Description(addr)
         /\ \A addr : Inspection(addr)' = Inspection(addr)
<1>. memory' = memory /\ unreadable' = unreadable
  BY DEF target
<1>1. PagesIn(memory)' = PagesIn(memory)
  BY DEF PagesIn, PagesOf
<1>2. AllChunks' = AllChunks
  BY DEF AllChunks, ChunksOf
<1>3. ASSUME NEW p PROVE Owner(p)' = Owner(p)
  BY DEF Owner, PagesOf
<1>4. ASSUME NEW p PROVE ListOf(p)' = ListOf(p)
  BY <1>3 DEF ListOf
<1>5. ASSUME NEW m PROVE Unlinked(m)' = Unlinked(m)
  BY DEF Unlinked
<1>6. ASSUME NEW p PROVE PageClass(p)' = PageClass(p)
  BY <1>1, <1>3 DEF PageClass
<1>7. ASSUME NEW p PROVE PayloadFrom(p)' = PayloadFrom(p) /\ PayloadTo(p)' = PayloadTo(p)
  BY <1>6 DEF PayloadFrom, PayloadTo, Read
<1>8. ASSUME NEW p PROVE PagesFrom(p)' = PagesFrom(p)
  BY <1>1, <1>4, <1>5 DEF PagesFrom
<1>9. ASSUME NEW p PROVE NextPage(p)' = NextPage(p)
  BY <1>3 DEF NextPage, Read
<1>10. ASSUME NEW a, NEW b PROVE ChunksFrom(a, b)' = ChunksFrom(a, b)
  BY <1>5 DEF ChunksFrom
<1>11. ASSUME NEW a, NEW b PROVE FreeChunksOf(a, b)' = FreeChunksOf(a, b)
  BY <1>5, <1>10 DEF FreeChunksOf
<1>12. ASSUME NEW a PROVE ThreadState(a)' = ThreadState(a)
  BY DEF ThreadState, Read
<1>13. ASSUME NEW a PROVE LoadedArena(a)' = LoadedArena(a)
  <2>1. ArenaClass(a)' = ArenaClass(a)
    BY DEF ArenaClass
  <2>2. AllocationPoint(a)' = AllocationPoint(a)
    BY <2>1 DEF AllocationPoint, Read
  <2>3. FreeListHeads(a)' = FreeListHeads(a)
    BY <2>1 DEF FreeListHeads, Read, First
  <2>. QED BY <1>12, <2>1, <2>2, <2>3 DEF LoadedArena, Read
<1>14. ASSUME NEW addr PROVE Description(addr)' = Description(addr)
  BY <1>3, <1>6, <1>7, <1>12 DEF Description, Read
<1>15. ASSUME NEW addr PROVE Inspection(addr)' = Inspection(addr)
  <2>1. HeaderAt(addr)' = HeaderAt(addr)
    BY <1>2 DEF HeaderAt, AllChunks
  <2>. QED BY <1>6, <2>1 DEF Inspection
<1>. QED
  BY <1>1, <1>2, <1>3, <1>4, <1>5, <1>6, <1>7, <1>8, <1>9, <1>10, <1>11, <1>13, <1>14, <1>15

(* What stays as it is while the arena in hand does as well.                 *)
LEMMA ArenaStays ==
  ASSUME UNCHANGED target, UNCHANGED arena
  PROVE  /\ \A chain : Lines(chain)' = Lines(chain)
         /\ \A head, shown, cur : Walking(head, shown, cur)' <=> Walking(head, shown, cur)
         /\ \A head, shown : Walked(head, shown)' <=> Walked(head, shown)
         /\ Dies' <=> Dies
<1>1. ASSUME NEW p PROVE IsCurrent(p)' = IsCurrent(p)
  BY TargetStays DEF IsCurrent
<1>2. ASSUME NEW p PROVE PageLine(p)' = PageLine(p)
  BY <1>1, TargetStays DEF PageLine
<1>3. ASSUME NEW chain PROVE Lines(chain)' = Lines(chain)
  BY <1>2 DEF Lines
<1>4. ASSUME NEW head, NEW shown, NEW cur PROVE Walking(head, shown, cur)' <=> Walking(head, shown, cur)
  BY <1>3, TargetStays DEF Walking
<1>5. ASSUME NEW head, NEW shown PROVE Walked(head, shown)' <=> Walked(head, shown)
  BY <1>3, TargetStays DEF Walked
<1>6. Dies' <=> Dies
  BY TargetStays DEF Dies
<1>. QED BY <1>3, <1>4, <1>5, <1>6

------------------------------------------------------------------------------
(* The loop of dump_page_chain. *)

(* A chain of pages has one line for each page, in its order.                *)
LEMMA LinesOf ==
  ASSUME NEW chain \in Seq(Nat)
  PROVE  /\ Lines(chain) \in Seq({PageLine(p) : p \in Nat}) /\ Len(Lines(chain)) = Len(chain)
         /\ DOMAIN Lines(chain) = DOMAIN chain
         /\ \A k \in DOMAIN chain : Lines(chain)[k] = PageLine(chain[k])
BY DEF Lines

(* Of a pointer's chain: that of a page, or nothing.                         *)
LEMMA ChainFrom ==
  ASSUME TargetOK, NEW head \in PagesIn(memory) \cup {0}
  PROVE  /\ PagesFrom(head) \in Seq(Nat)
         /\ head = IF PagesFrom(head) = <<>> THEN 0 ELSE PagesFrom(head)[1]
         /\ \A k \in DOMAIN PagesFrom(head) :
              /\ PagesFrom(head)[k] \in PagesIn(memory) /\ PagesFrom(head)[k] # 0
              /\ ListOf(PagesFrom(head)[k]) = ListOf(head)
         /\ Follows(PagesFrom(head), ListOf(head), Unlinked("next_"))
<1>1. CASE head \in PagesIn(memory)
  <2>1. PagesFrom(head) # <<>>
    BY <1>1, PageChain
  <2>2. \A k \in DOMAIN PagesFrom(head) : PagesFrom(head)[k] \in PagesIn(memory) /\ PagesFrom(head)[k] # 0
    BY <1>1, PageChain, ListFacts, PageFacts
  <2>. QED BY <1>1, <2>1, <2>2, PageChain
<1>2. CASE head \notin PagesIn(memory)
  <2>1. PagesFrom(head) = <<>> /\ head = 0 /\ DOMAIN <<>> = {} /\ <<>> \in Seq(Nat)
    BY <1>2, NoPageChain
  <2>. QED BY <2>1, Zenon DEF Follows
<1>. QED BY <1>1, <1>2

(* The loop over pages starts at the head with nothing shown.                *)
LEMMA WalkBegins ==
  ASSUME TargetOK, NEW head
  PROVE  Walking(head, <<>>, head)
<1>1. CASE head \in PagesIn(memory) \cup {0}
  <2>1. Progress(PagesFrom(head), Lines(PagesFrom(head)), <<>>, head)
    BY <1>1, ChainFrom, ProgressStarts
  <2>. QED BY <1>1, <2>1 DEF Walking
<1>. QED BY <1>1 DEF Walking

(* A page on the way has a class if its vtable can be read.                  *)
LEMMA ClassOfPage ==
  ASSUME TargetOK, NEW p \in PagesIn(memory)
  PROVE  PageClass(p) = "none" <=> p \in Unlinked("vtable")
BY UnlinkedCells DEF PageClass

(* Where a loop that has begun with a page is, there is a page.              *)
LEMMA CursorOnChain ==
  ASSUME TargetOK, NEW head \in PagesIn(memory) \cup {0}, NEW shown, NEW cur, cur # 0,
         Progress(PagesFrom(head), Lines(PagesFrom(head)), shown, cur)
  PROVE  \E k \in DOMAIN PagesFrom(head) :
           /\ cur = PagesFrom(head)[k]
           /\ Progress(PagesFrom(head), Lines(PagesFrom(head)), Append(shown, PageLine(cur)), NextPage(cur))
<1>1. /\ PagesFrom(head) \in Seq(Nat) /\ Follows(PagesFrom(head), ListOf(head), Unlinked("next_"))
      /\ \A k \in DOMAIN PagesFrom(head) : ListOf(PagesFrom(head)[k]) = ListOf(head)
  BY ChainFrom
<1>2. /\ Lines(PagesFrom(head)) \in Seq({PageLine(p) : p \in Nat})
      /\ Len(Lines(PagesFrom(head))) = Len(PagesFrom(head))
      /\ \A k \in DOMAIN PagesFrom(head) : Lines(PagesFrom(head))[k] = PageLine(PagesFrom(head)[k])
  BY <1>1, LinesOf
<1>3. PICK k \in DOMAIN PagesFrom(head) :
        /\ cur = PagesFrom(head)[k]
        /\ Progress(PagesFrom(head), Lines(PagesFrom(head)), Append(shown, Lines(PagesFrom(head))[k]),
                    IF cur \in Unlinked("next_") THEN 0 ELSE NextIn(ListOf(head), cur))
  BY <1>1, <1>2, ProgressGoesOn
<1>4. Lines(PagesFrom(head))[k] = PageLine(cur)
  BY <1>2, <1>3
<1>5. NextPage(cur) = IF cur \in Unlinked("next_") THEN 0 ELSE NextIn(ListOf(head), cur)
  BY <1>1, <1>3, LinkOfPage
<1>. QED BY <1>3, <1>4, <1>5

(* A turn of it shows one page of a known class and goes on to the next.     *)
LEMMA WalkTurn ==
  ASSUME TargetOK, NEW head, NEW shown, NEW cur, Walking(head, shown, cur), cur # 0, PageClass(cur) # "none"
  PROVE  Walking(head, Append(shown, PageLine(cur)), NextPage(cur))
<1>1. head \in PagesIn(memory) \cup {0}
  <2>. SUFFICES ASSUME head \notin PagesIn(memory) \cup {0} PROVE FALSE
    OBVIOUS
  <2>1. cur = head
    BY DEF Walking
  <2>. QED BY <2>1 DEF PageClass
<1>2. Progress(PagesFrom(head), Lines(PagesFrom(head)), shown, cur)
      /\ \A i \in DOMAIN shown : shown[i].class # "none"
  BY <1>1 DEF Walking
<1>3. Progress(PagesFrom(head), Lines(PagesFrom(head)), Append(shown, PageLine(cur)), NextPage(cur))
  BY <1>1, <1>2, CursorOnChain
<1>4. \E S : shown \in Seq(S)
  <2>1. Lines(PagesFrom(head)) \in Seq({PageLine(p) : p \in Nat}) /\ Len(Lines(PagesFrom(head))) = Len(PagesFrom(head))
    BY <1>1, ChainFrom, LinesOf
  <2>2. PICK n \in 0..Len(PagesFrom(head)) : shown = SubSeq(Lines(PagesFrom(head)), 1, n)
    BY <1>2 DEF Progress
  <2>3. shown \in Seq({PageLine(p) : p \in Nat})
    BY <2>1, <2>2
  <2>. QED BY <2>3
<1>5. \A i \in DOMAIN Append(shown, PageLine(cur)) : Append(shown, PageLine(cur))[i].class # "none"
  <2>1. PageLine(cur).class # "none"
    BY DEF PageLine
  <2>. QED BY <1>2, <1>4, <2>1
<1>. QED BY <1>1, <1>3, <1>5 DEF Walking

(* When its cursor is null it has shown the whole chain.                     *)
LEMMA WalkEnds ==
  ASSUME TargetOK, NEW head, NEW shown, Walking(head, shown, 0)
  PROVE  Walked(head, shown)
<1>1. head \in PagesIn(memory) \cup {0}
  BY DEF Walking
<1>2. Progress(PagesFrom(head), Lines(PagesFrom(head)), shown, 0)
      /\ \A i \in DOMAIN shown : shown[i].class # "none"
  BY <1>1 DEF Walking
<1>3. /\ PagesFrom(head) \in Seq(Nat)
      /\ \A k \in DOMAIN PagesFrom(head) : PagesFrom(head)[k] \in PagesIn(memory) /\ PagesFrom(head)[k] # 0
  BY <1>1, ChainFrom
<1>4. /\ Lines(PagesFrom(head)) \in Seq({PageLine(p) : p \in Nat})
      /\ Len(Lines(PagesFrom(head))) = Len(PagesFrom(head))
      /\ DOMAIN Lines(PagesFrom(head)) = DOMAIN PagesFrom(head)
      /\ \A k \in DOMAIN PagesFrom(head) : Lines(PagesFrom(head))[k] = PageLine(PagesFrom(head)[k])
  BY <1>3, LinesOf
<1>5. shown = Lines(PagesFrom(head))
  BY <1>2, <1>3, <1>4, ProgressEnds
<1>6. \A k \in DOMAIN PagesFrom(head) : PageClass(PagesFrom(head)[k]) # "none"
  BY <1>2, <1>4, <1>5 DEF PageLine
<1>7. \A k \in DOMAIN PagesFrom(head) : PagesFrom(head)[k] \notin Unlinked("vtable")
  BY <1>3, <1>6, ClassOfPage
<1>. QED BY <1>1, <1>5, <1>7 DEF Walked

(* If it comes to a page of no class, some vtable could not be read.         *)
LEMMA WalkDies ==
  ASSUME TargetOK, NEW head, NEW shown, NEW cur, Walking(head, shown, cur), cur # 0, PageClass(cur) = "none"
  PROVE  \/ head \notin PagesIn(memory) \cup {0}
         \/ \E k \in DOMAIN PagesFrom(head) : PagesFrom(head)[k] \in Unlinked("vtable")
<1>. SUFFICES ASSUME head \in PagesIn(memory) \cup {0}
     PROVE  \E k \in DOMAIN PagesFrom(head) : PagesFrom(head)[k] \in Unlinked("vtable")
  OBVIOUS
<1>1. Progress(PagesFrom(head), Lines(PagesFrom(head)), shown, cur)
  BY DEF Walking
<1>2. PICK k \in DOMAIN PagesFrom(head) : cur = PagesFrom(head)[k]
  BY <1>1, CursorOnChain
<1>3. PagesFrom(head)[k] \in PagesIn(memory)
  BY ChainFrom
<1>. QED BY <1>2, <1>3, ClassOfPage

------------------------------------------------------------------------------
(* The loop over a free list. *)

(* What it comes by are free chunks of the arena, each with the line of it.  *)
LEMMA ChunkChain ==
  ASSUME TargetOK, NEW a \in memory.arenas, NEW b \in FreeLists
  PROVE  /\ ChunksFrom(a, b) \in Seq(Nat)
         /\ \A k \in DOMAIN ChunksFrom(a, b) : ChunksFrom(a, b)[k] \in ChunksOf(memory, a) /\ ChunksFrom(a, b)[k] # 0
         /\ Follows(ChunksFrom(a, b), memory.free[a][b], Unlinked("next_chunk"))
         /\ Read("free_lists_", a + b, First(memory.free[a][b]))
              = IF ChunksFrom(a, b) = <<>> THEN 0 ELSE ChunksFrom(a, b)[1]
<1> DEFINE list == memory.free[a][b]
           stops == Unlinked("next_chunk")
<1>1. list \in Seq(Nat \ {0}) /\ Distinct(list)
  BY ArenaFacts
<1>2. CASE <<"free_lists_", a + b>> \in unreadable \/ list = <<>>
  <2>1. ChunksFrom(a, b) = <<>>
    <3>1. {i \in DOMAIN <<>> : <<>>[i] \in stops} = {}
      OBVIOUS
    <3>. QED BY <1>2, <3>1 DEF ChunksFrom, UpTo
  <2>2. DOMAIN <<>> = {} /\ <<>> \in Seq(Nat)
    OBVIOUS
  <2>3. Follows(ChunksFrom(a, b), list, stops)
    BY <2>1, <2>2, Zenon DEF Follows
  <2>4. Read("free_lists_", a + b, First(list)) = 0
    BY <1>2 DEF Read, First
  <2>. QED BY <2>1, <2>2, <2>3, <2>4
<1>3. CASE <<"free_lists_", a + b>> \notin unreadable /\ list # <<>>
  <2>1. ChunksFrom(a, b) = WalkFrom(list, list[1], stops)
    BY <1>1, <1>3, WholeWalk DEF ChunksFrom
  <2>2. \E n \in DOMAIN list : list[n] = list[1]
    BY <1>1, <1>3
  <2>. HIDE DEF list, stops
  <2>3. /\ ChunksFrom(a, b) \in Seq(Nat \ {0}) /\ Len(ChunksFrom(a, b)) > 0
        /\ ChunksFrom(a, b)[1] = list[1]
        /\ \A k \in 1..Len(ChunksFrom(a, b)) : \E n \in DOMAIN list : list[n] = ChunksFrom(a, b)[k]
    BY <1>1, <2>1, <2>2, WalkStarts
  <2>4. Follows(ChunksFrom(a, b), list, stops)
    BY <1>1, <2>1, WalkFollows
  <2>5. \A n \in DOMAIN list : list[n] \in ChunksOf(memory, a)
    BY DEF ChunksOf, list
  <2>6. ChunksFrom(a, b) \in Seq(Nat) /\ ChunksFrom(a, b) # <<>>
    BY <2>3
  <2>7. Read("free_lists_", a + b, First(memory.free[a][b])) = ChunksFrom(a, b)[1]
    BY <1>3, <2>3 DEF Read, First, list
  <2>. QED BY <2>3, <2>4, <2>5, <2>6, <2>7 DEF list, stops
<1>. QED BY <1>2, <1>3

(* A free list has one line for each chunk, in its order.                    *)
LEMMA LinesOfChunks ==
  ASSUME TargetOK, NEW a \in memory.arenas, NEW b \in FreeLists
  PROVE  /\ FreeChunksOf(a, b) \in Seq({ChunkLine(c) : c \in Nat})
         /\ Len(FreeChunksOf(a, b)) = Len(ChunksFrom(a, b))
         /\ DOMAIN FreeChunksOf(a, b) = DOMAIN ChunksFrom(a, b)
         /\ \A k \in DOMAIN ChunksFrom(a, b) : FreeChunksOf(a, b)[k] = ChunkLine(ChunksFrom(a, b)[k])
<1>1. ChunksFrom(a, b) \in Seq(Nat) /\ \A k \in DOMAIN ChunksFrom(a, b) : ChunksFrom(a, b)[k] \in ChunksOf(memory, a)
  BY ChunkChain
<1>2. DOMAIN FreeChunksOf(a, b) = 1..Len(ChunksFrom(a, b)) /\ DOMAIN ChunksFrom(a, b) = 1..Len(ChunksFrom(a, b))
  BY <1>1 DEF FreeChunksOf
<1>3. ASSUME NEW k \in DOMAIN ChunksFrom(a, b)
      PROVE  FreeChunksOf(a, b)[k] = ChunkLine(ChunksFrom(a, b)[k])
  BY <1>1, ChunkFacts DEF FreeChunksOf, ChunkLine
<1>4. FreeChunksOf(a, b) = [k \in 1..Len(ChunksFrom(a, b)) |-> FreeChunksOf(a, b)[k]]
  BY <1>2 DEF FreeChunksOf
<1>5. \A k \in 1..Len(ChunksFrom(a, b)) : FreeChunksOf(a, b)[k] \in {ChunkLine(c) : c \in Nat}
  BY <1>1, <1>2, <1>3
<1>. QED BY <1>1, <1>2, <1>3, <1>4, <1>5

(* The link of a chunk.                                                      *)
LEMMA LinkOfChunk ==
  ASSUME TargetOK, NEW c
  PROVE  NextChunk(c) = IF c \in Unlinked("next_chunk") THEN 0 ELSE NextIn(memory.free[arena.addr][free_list], c)
BY UnlinkedCells DEF NextChunk, Read

(* A free list before its first chunk is shown, after one more, and when the *)
(* last one has been.                                                        *)
LEMMA ListBegins ==
  ASSUME TargetOK, NEW a \in memory.arenas, NEW b \in FreeLists
  PROVE  Progress(ChunksFrom(a, b), FreeChunksOf(a, b), <<>>, Read("free_lists_", a + b, First(memory.free[a][b])))
BY ChunkChain, ProgressStarts

(* A turn of the loop over a free list shows one chunk of it.                *)
LEMMA ListTurn ==
  ASSUME TargetOK, asked \in memory.arenas, arena.addr = asked, free_list \in FreeLists, NEW shown, NEW cur, cur # 0,
         Progress(ChunksFrom(asked, free_list), FreeChunksOf(asked, free_list), shown, cur)
  PROVE  Progress(ChunksFrom(asked, free_list), FreeChunksOf(asked, free_list),
                  Append(shown, ChunkLine(cur)), NextChunk(cur))
<1> DEFINE chain == ChunksFrom(asked, free_list)
           lines == FreeChunksOf(asked, free_list)
<1>1. chain \in Seq(Nat) /\ Follows(chain, memory.free[asked][free_list], Unlinked("next_chunk"))
  BY ChunkChain
<1>2. /\ lines \in Seq({ChunkLine(c) : c \in Nat}) /\ Len(lines) = Len(chain)
      /\ \A k \in DOMAIN chain : lines[k] = ChunkLine(chain[k])
  BY LinesOfChunks
<1>3. PICK k \in DOMAIN chain :
        /\ cur = chain[k]
        /\ Progress(chain, lines, Append(shown, lines[k]),
                    IF cur \in Unlinked("next_chunk") THEN 0 ELSE NextIn(memory.free[asked][free_list], cur))
  <2>. HIDE DEF chain, lines
  <2>1. Progress(chain, lines, shown, cur)
    BY DEF chain, lines
  <2>. QED BY <1>1, <1>2, <2>1, ProgressGoesOn
<1>4. lines[k] = ChunkLine(cur)
  BY <1>2, <1>3
<1>. QED BY <1>3, <1>4, LinkOfChunk

(* When its cursor is null it has shown the whole list.                      *)
LEMMA ListEnds ==
  ASSUME TargetOK, NEW a \in memory.arenas, NEW b \in FreeLists, NEW shown,
         Progress(ChunksFrom(a, b), FreeChunksOf(a, b), shown, 0)
  PROVE  shown = FreeChunksOf(a, b)
<1> DEFINE chain == ChunksFrom(a, b)
           lines == FreeChunksOf(a, b)
           ShownLines == {ChunkLine(c) : c \in Nat}
<1>1. chain \in Seq(Nat) /\ \A k \in DOMAIN chain : chain[k] # 0
  BY ChunkChain
<1>2. lines \in Seq(ShownLines) /\ Len(lines) = Len(chain)
  BY LinesOfChunks
<1>3. Progress(chain, lines, shown, 0)
  OBVIOUS
<1>. HIDE DEF chain, lines, ShownLines
<1>4. shown = lines
  BY <1>1, <1>2, <1>3, ProgressEnds
<1>. QED BY <1>4 DEF lines

------------------------------------------------------------------------------
(* Each action keeps the invariant. *)

(* The arena in hand and where its pointers lead.                            *)
LEMMA ArenaInHand ==
  ASSUME TargetOK, ArenaRight
  PROVE  /\ arena.first \in PagesIn(memory) \cup {0}
         /\ asked # 0 => /\ asked \in memory.arenas
                         /\ {arena.first, arena.unswept} \subseteq PagesOf(memory, asked) \cup {0}
         /\ arena.class = "NormalPageArena" =>
              /\ asked \in memory.arenas /\ arena.addr = asked /\ arena.class = ArenaClass(asked)
              /\ arena.point = AllocationPoint(asked)
              /\ \A b \in FreeLists : arena.lists[b] = Read("free_lists_", asked + b, First(memory.free[asked][b]))
<1>1. CASE asked = 0 /\ \E garbage \in Garbage \cup {0} : arena = EmptyArena(garbage)
  <2>1. arena.first = 0 /\ arena.class # "NormalPageArena"
    BY <1>1 DEF EmptyArena
  <2>. QED BY <1>1, <2>1
<1>2. CASE asked \in memory.arenas /\ arena = LoadedArena(asked)
  <2>1. /\ memory.active[asked] \in Seq(Nat) /\ memory.unswept[asked] \in Seq(Nat)
    BY <1>2, ArenaFacts
  <2>2. First(memory.active[asked]) \in PagesOf(memory, asked) \cup {0}
    BY <2>1 DEF First, PagesOf
  <2>3. First(memory.unswept[asked]) \in PagesOf(memory, asked) \cup {0}
    BY <2>1 DEF First, PagesOf
  <2>4. {arena.first, arena.unswept} \subseteq PagesOf(memory, asked) \cup {0}
    BY <1>2, <2>2, <2>3 DEF LoadedArena, Read
  <2>5. PagesOf(memory, asked) \subseteq PagesIn(memory)
    BY <1>2 DEF PagesIn
  <2>6. arena.class = "NormalPageArena" =>
          /\ arena.addr = asked /\ arena.class = ArenaClass(asked) /\ arena.point = AllocationPoint(asked)
          /\ \A b \in FreeLists : arena.lists[b] = Read("free_lists_", asked + b, First(memory.free[asked][b]))
    BY <1>2 DEF LoadedArena, FreeListHeads
  <2>. QED BY <1>2, <2>4, <2>5, <2>6
<1>. QED BY <1>1, <1>2 DEF ArenaRight

(* What !arena is to print stays while its arena and the target do.          *)
LEMMA AnswerStays ==
  ASSUME UNCHANGED <<target, asked, arena>>
  PROVE  Answer' = Answer /\ (TargetOK => TargetOK') /\ (ArenaRight => ArenaRight')
<1>. memory' = memory /\ unreadable' = unreadable /\ UNCHANGED target /\ arena' = arena /\ asked' = asked
  BY DEF target
<1>1. \A p : PagesFrom(p)' = PagesFrom(p)
  BY TargetStays
<1>2. \A chain : Lines(chain)' = Lines(chain)
  BY ArenaStays
<1>3. \A a, b : FreeChunksOf(a, b)' = FreeChunksOf(a, b)
  BY TargetStays
<1>4. Dies' <=> Dies
  BY ArenaStays
<1>5. Lines(PagesFrom(arena.first))' = Lines(PagesFrom(arena.first))
  BY <1>1, <1>2
<1>6. Lines(PagesFrom(arena.unswept))' = Lines(PagesFrom(arena.unswept))
  BY <1>1, <1>2
<1>7. Answer' = Answer
  BY <1>3, <1>4, <1>5, <1>6 DEF Answer
<1>8. TargetOK => TargetOK'
  BY DEF TargetOK
<1>9. ArenaRight => ArenaRight'
  <2>1. \A a : LoadedArena(a)' = LoadedArena(a)
    BY TargetStays
  <2>2. \A g : EmptyArena(g)' = EmptyArena(g)
    BY DEF EmptyArena
  <2>. QED BY <2>1, <2>2 DEF ArenaRight
<1>. QED BY <1>7, <1>8, <1>9

(* A turn of a loop leaves the screen as it is.                              *)
LEMMA ScreenStays ==
  ASSUME ScreenRight, pc # "idle", UNCHANGED <<target, screen>>
  PROVE  ScreenRight' /\ listing = Blank
<1>. UNCHANGED target /\ listing' = listing /\ described' = described /\ inspected' = inspected
  BY DEF screen
<1>1. listing = Blank
  BY DEF ScreenRight
<1>2. described' = Blank \/ \E addr \in Probes : described' = Description(addr)'
  BY TargetStays DEF ScreenRight
<1>3. inspected' = Blank \/ \E addr \in ({0} \cup AllChunks)' : inspected' = Inspection(addr)'
  BY TargetStays DEF ScreenRight
<1>. QED BY <1>1, <1>2, <1>3 DEF ScreenRight

(* Nothing has been printed when the extension is loaded.                    *)
LEMMA InitRight ==
  ASSUME Init
  PROVE  IInv
<1>1. TargetOK /\ ArenaRight /\ ScreenRight
  BY DEF Init, TargetOK, ArenaRight, ScreenRight
<1>2. WalkRight
  BY DEF Init, WalkRight
<1>. QED BY <1>1, <1>2 DEF IInv

(* A loop has begun, whatever arena the next state has in hand.              *)
LEMMA WalkBeginsNext == TargetOK' => (\A h : Walking(h, <<>>, h))'
<1>1. TargetOK => \A h : Walking(h, <<>>, h)
  BY WalkBegins
<1>. QED BY <1>1, PTL

(* !arena loads the arena and begins with its pages.                         *)
LEMMA ArenaStep ==
  ASSUME IInv, NEW a \in memory.arenas \cup {0}, Arena(a)
  PROVE  IInv'
<1>. UNCHANGED target
  BY DEF Arena
<1>. memory' = memory /\ unreadable' = unreadable
  BY DEF target
<1>1. TargetOK'
  BY DEF IInv, TargetOK
<1>2. ArenaRight'
  <2>1. CASE a = 0
    <3>1. PICK g \in Garbage : arena' = EmptyArena(g)
      BY <2>1 DEF Arena
    <3>2. EmptyArena(g)' = EmptyArena(g)
      BY DEF EmptyArena
    <3>. QED BY <2>1, <3>1, <3>2 DEF Arena, ArenaRight
  <2>2. CASE a # 0
    <3>1. arena' = LoadedArena(a) /\ asked' = a
      BY <2>2 DEF Arena
    <3>2. LoadedArena(a)' = LoadedArena(a)
      BY TargetStays
    <3>. QED BY <2>2, <3>1, <3>2 DEF ArenaRight
  <2>. QED BY <2>1, <2>2
<1>3. WalkRight'
  <2>1. \A h : Walking(h, <<>>, h)'
    BY <1>1, WalkBeginsNext
  <2>2. Walking(arena.first, pages.active, cursor)'
    <3>1. cursor' = arena'.first /\ pages'.active = <<>>
      BY DEF Arena
    <3>. QED BY <2>1, <3>1
  <2>3. pages' = [active |-> <<>>, unswept |-> <<>>] /\ pc' = "active" /\ chunks' = NoChunks' /\ free_list' = 0
    BY DEF Arena, NoChunks
  <2>. QED BY <2>2, <2>3 DEF WalkRight
<1>4. ScreenRight'
  BY DEF Arena, ScreenRight
<1>. QED BY <1>1, <1>2, <1>3, <1>4 DEF IInv

(* One more page, of the swept or of the unswept chain.                      *)
LEMMA DumpPageStep ==
  ASSUME IInv, DumpPage
  PROVE  IInv'
<1>. UNCHANGED <<target, asked, arena>> /\ UNCHANGED <<target, screen>> /\ UNCHANGED target /\ UNCHANGED arena
  BY DEF DumpPage
<1>. TargetOK /\ ArenaRight /\ WalkRight /\ ScreenRight
  BY DEF IInv
<1>1. TargetOK' /\ ArenaRight'
  BY AnswerStays
<1>2. ScreenRight'
  BY ScreenStays DEF DumpPage
<1>3. WalkRight'
  <2>1. PICK line, next : line = PageLine(cursor) /\ next = NextPage(cursor)
    OBVIOUS
  <2>2. /\ pages = [active |-> pages.active, unswept |-> pages.unswept] /\ cursor # 0 /\ PageClass(cursor) # "none"
        /\ pages' = [pages EXCEPT ![pc] = Append(@, line)] /\ cursor' = next
        /\ pc' = pc /\ chunks' = chunks /\ free_list' = free_list /\ chunks = NoChunks /\ free_list = 0
    BY <2>1 DEF DumpPage, WalkRight
  <2>3. CASE pc = "active"
    <3>1. pages' = [active |-> Append(pages.active, line), unswept |-> <<>>]
      BY <2>2, <2>3 DEF WalkRight
    <3>2. Walking(arena.first, Append(pages.active, line), next)
      BY <2>1, <2>2, <2>3, WalkTurn DEF WalkRight
    <3>3. PICK head, shown : head = arena.first /\ shown = Append(pages.active, line)
      OBVIOUS
    <3>4. Walking(head, shown, next)'
      BY <3>2, <3>3, ArenaStays
    <3>5. Walking(arena.first, pages.active, cursor)'
      BY <2>2, <3>1, <3>3, <3>4
    <3>. QED BY <2>2, <2>3, <3>1, <3>5 DEF WalkRight, NoChunks
  <2>4. CASE pc = "unswept"
    <3>1. pages' = [active |-> pages.active, unswept |-> Append(pages.unswept, line)]
      BY <2>2, <2>4
    <3>2. Walking(arena.unswept, Append(pages.unswept, line), next) /\ Walked(arena.first, pages.active)
      BY <2>1, <2>2, <2>4, WalkTurn DEF WalkRight
    <3>3. PICK head, shown, first, done :
            head = arena.unswept /\ shown = Append(pages.unswept, line) /\ first = arena.first /\ done = pages.active
      OBVIOUS
    <3>4. Walking(head, shown, next)' /\ Walked(first, done)'
      BY <3>2, <3>3, ArenaStays
    <3>5. Walking(arena.unswept, pages.unswept, cursor)'
      BY <2>2, <3>1, <3>3, <3>4
    <3>6. Walked(arena.first, pages.active)'
      BY <3>1, <3>3, <3>4
    <3>. QED BY <2>2, <2>4, <3>1, <3>5, <3>6 DEF WalkRight, NoChunks
  <2>. QED BY <2>3, <2>4 DEF DumpPage
<1>. QED BY <1>1, <1>2, <1>3 DEF IInv

(* The command dies when it has to, and then only.                           *)
LEMMA DieStep ==
  ASSUME IInv, DieOfNullPage
  PROVE  IInv' /\ Answer = Dead
<1>. UNCHANGED <<target, asked, arena>> /\ UNCHANGED target /\ UNCHANGED arena
  BY DEF DieOfNullPage, walk
<1>. TargetOK /\ ArenaRight /\ WalkRight /\ ScreenRight
  BY DEF IInv
<1>1. TargetOK' /\ ArenaRight' /\ Answer' = Answer
  BY AnswerStays
<1>2. Dies
  <2>1. CASE pc = "active"
    <3>1. arena.first \in PagesIn(memory) \cup {0}
      BY ArenaInHand
    <3>2. \E k \in DOMAIN PagesFrom(arena.first) : PagesFrom(arena.first)[k] \in Unlinked("vtable")
      BY <2>1, <3>1, WalkDies DEF DieOfNullPage, WalkRight
    <3>. QED BY <3>2 DEF Dies
  <2>2. CASE pc = "unswept"
    <3>1. Walking(arena.unswept, pages.unswept, cursor)
      BY <2>2 DEF WalkRight
    <3>. QED BY <3>1, WalkDies DEF DieOfNullPage, Dies
  <2>. QED BY <2>1, <2>2 DEF DieOfNullPage
<1>3. Answer = Dead
  BY <1>2 DEF Answer
<1>4. WalkRight'
  BY DEF DieOfNullPage, walk, WalkRight
<1>5. ScreenRight'
  <2>. described' = described /\ inspected' = inspected /\ listing' = Dead /\ pc' = "idle"
    BY DEF DieOfNullPage
  <2>1. described' = Blank \/ \E addr \in Probes : described' = Description(addr)'
    BY TargetStays DEF ScreenRight
  <2>2. inspected' = Blank \/ \E addr \in ({0} \cup AllChunks)' : inspected' = Inspection(addr)'
    BY TargetStays DEF ScreenRight
  <2>. QED BY <1>1, <1>3, <2>1, <2>2 DEF ScreenRight
<1>. QED BY <1>1, <1>3, <1>4, <1>5 DEF IInv

(* From the swept to the unswept pages.                                      *)
LEMMA UnsweptStep ==
  ASSUME IInv, UnsweptChain
  PROVE  IInv'
<1>. UNCHANGED <<target, asked, arena>> /\ UNCHANGED <<target, screen>> /\ UNCHANGED target /\ UNCHANGED arena
  BY DEF UnsweptChain
<1>. TargetOK /\ ArenaRight /\ WalkRight /\ ScreenRight
  BY DEF IInv
<1>1. TargetOK' /\ ArenaRight'
  BY AnswerStays
<1>2. ScreenRight'
  BY ScreenStays DEF UnsweptChain
<1>3. WalkRight'
  <2>1. /\ Walking(arena.first, pages.active, 0) /\ pages.unswept = <<>>
        /\ pages = [active |-> pages.active, unswept |-> pages.unswept] /\ chunks = NoChunks /\ free_list = 0
    BY DEF UnsweptChain, WalkRight
  <2>2. /\ pc' = "unswept" /\ cursor' = arena.unswept /\ pages' = pages /\ chunks' = chunks
        /\ free_list' = free_list /\ NoChunks' = NoChunks
    BY DEF UnsweptChain, NoChunks
  <2>3. Walked(arena.first, pages.active)
    BY <2>1, WalkEnds
  <2>4. Walking(arena.unswept, <<>>, arena.unswept)
    BY WalkBegins
  <2>5. PICK first, done, head : first = arena.first /\ done = pages.active /\ head = arena.unswept
    OBVIOUS
  <2>6. Walked(first, done)' /\ Walking(head, <<>>, head)'
    BY <2>3, <2>4, <2>5, ArenaStays
  <2>7. Walked(arena.first, pages.active)'
    BY <2>2, <2>5, <2>6
  <2>8. Walking(arena.unswept, pages.unswept, cursor)'
    BY <2>1, <2>2, <2>5, <2>6
  <2>. QED BY <2>1, <2>2, <2>7, <2>8 DEF WalkRight
<1>. QED BY <1>1, <1>2, <1>3 DEF IInv

(* When all was walked, the string is the answer.                            *)
LEMMA OutputIsAnswer ==
  ASSUME pages = [active |-> pages.active, unswept |-> pages.unswept],
         Walked(arena.first, pages.active), Walked(arena.unswept, pages.unswept),
         chunks = [b \in FreeLists |-> IF arena.class = "NormalPageArena" THEN FreeChunksOf(asked, b) ELSE <<>>]
  PROVE  Answer = Output
<1>1. ~Dies
  BY DEF Dies, Walked
<1>2. pages = [active |-> Lines(PagesFrom(arena.first)), unswept |-> Lines(PagesFrom(arena.unswept))]
  BY DEF Walked
<1>. QED BY <1>1, <1>2 DEF Answer, Output

(* Printing the answer, and the prompt.                                      *)
LEMMA ShowStep ==
  ASSUME IInv, pc # "idle", ShowListing, UNCHANGED <<target, asked, arena, pages, chunks, described, inspected>>,
         Answer = Output
  PROVE  IInv'
<1>. UNCHANGED <<target, asked, arena>> /\ UNCHANGED target
  OBVIOUS
<1>. TargetOK /\ ArenaRight /\ WalkRight /\ ScreenRight
  BY DEF IInv
<1>1. TargetOK' /\ ArenaRight' /\ Answer' = Answer
  BY AnswerStays
<1>2. WalkRight'
  BY DEF ShowListing, WalkRight
<1>3. ScreenRight'
  <2>. described' = described /\ inspected' = inspected /\ listing' = Output /\ pc' = "idle"
    BY DEF ShowListing
  <2>1. described' = Blank \/ \E addr \in Probes : described' = Description(addr)'
    BY TargetStays DEF ScreenRight
  <2>2. inspected' = Blank \/ \E addr \in ({0} \cup AllChunks)' : inspected' = Inspection(addr)'
    BY TargetStays DEF ScreenRight
  <2>. QED BY <1>1, <2>1, <2>2 DEF ScreenRight
<1>. QED BY <1>1, <1>2, <1>3 DEF IInv

(* Both chains of pages stay walked, and what was shown of the free lists    *)
(* shown.                                                                    *)
LEMMA WalkedStays ==
  ASSUME UNCHANGED target, UNCHANGED arena, UNCHANGED pages,
         Walked(arena.first, pages.active), Walked(arena.unswept, pages.unswept)
  PROVE  Walked(arena.first, pages.active)' /\ Walked(arena.unswept, pages.unswept)'
<1>1. PICK h, s, g, t : h = arena.first /\ s = pages.active /\ g = arena.unswept /\ t = pages.unswept
  OBVIOUS
<1>2. Walked(h, s)' /\ Walked(g, t)'
  BY <1>1, ArenaStays
<1>. QED BY <1>1, <1>2

(* From the pages to the free lists, or to the end in an arena without any.  *)
LEMMA FreeChunksStep ==
  ASSUME IInv, FreeChunks
  PROVE  IInv' /\ (pc' = "idle" => listing' = Answer)
<1>. UNCHANGED <<target, asked, arena, pages, chunks, described, inspected>> /\ UNCHANGED target /\ UNCHANGED arena
     /\ UNCHANGED <<target, asked, arena>> /\ UNCHANGED pages
  BY DEF FreeChunks
<1>. TargetOK /\ ArenaRight /\ WalkRight /\ ScreenRight
  BY DEF IInv
<1>1. Walked(arena.first, pages.active) /\ Walked(arena.unswept, pages.unswept)
  BY WalkEnds DEF FreeChunks, WalkRight
<1>2. CASE arena.class # "NormalPageArena"
  <2>1. Answer = Output
    BY <1>1, <1>2, OutputIsAnswer DEF FreeChunks, WalkRight, NoChunks
  <2>2. ShowListing
    BY <1>2 DEF FreeChunks
  <2>. QED BY <2>1, <2>2, ShowStep DEF FreeChunks, ShowListing
<1>3. CASE arena.class = "NormalPageArena"
  <2>1. /\ pc' = "free" /\ cursor' = arena.lists[0] /\ free_list' = 0 /\ free_list = 0 /\ UNCHANGED <<target, screen>>
        /\ chunks = NoChunks /\ pages = [active |-> pages.active, unswept |-> pages.unswept]
    BY <1>3 DEF FreeChunks, WalkRight, screen
  <2>2. ScreenRight'
    BY <2>1, ScreenStays DEF FreeChunks
  <2>3. TargetOK' /\ ArenaRight'
    BY AnswerStays
  <2>4. asked \in memory.arenas /\ arena.lists[0] = Read("free_lists_", asked + 0, First(memory.free[asked][0])) /\ 0 \in FreeLists
    BY <1>3, ArenaInHand DEF FreeLists
  <2>5. Progress(ChunksFrom(asked, 0), FreeChunksOf(asked, 0), <<>>, arena.lists[0])
    BY <2>4, ListBegins
  <2>6. PICK a : a = asked
    OBVIOUS
  <2>7. ChunksFrom(a, 0)' = ChunksFrom(a, 0) /\ FreeChunksOf(a, 0)' = FreeChunksOf(a, 0)
    BY TargetStays
  <2>8. ChunksFrom(asked, free_list)' = ChunksFrom(asked, 0) /\ FreeChunksOf(asked, free_list)' = FreeChunksOf(asked, 0)
    BY <2>1, <2>6, <2>7
  <2>9. Progress(ChunksFrom(asked, free_list)', FreeChunksOf(asked, free_list)', chunks'[free_list'], cursor')
    BY <2>1, <2>4, <2>5, <2>8 DEF NoChunks
  <2>10. ChunksWalked'
    <3>1. chunks' = [b \in FreeLists |-> chunks'[b]] /\ \A b \in FreeLists : chunks'[b] = <<>> /\ ~(b < 0)
      BY <2>1 DEF NoChunks, FreeLists
    <3>2. Progress(ChunksFrom(asked, free_list), FreeChunksOf(asked, free_list), chunks[free_list], cursor)'
      BY <2>9 DEF Progress
    <3>. QED BY <1>3, <2>1, <2>4, <3>1, <3>2 DEF ChunksWalked
  <2>11. WalkRight'
    BY <1>1, <2>1, <2>10, WalkedStays DEF WalkRight
  <2>. QED BY <2>1, <2>2, <2>3, <2>11 DEF IInv
<1>. QED BY <1>2, <1>3

(* One more free chunk.                                                      *)
LEMMA DumpChunkStep ==
  ASSUME IInv, DumpChunk
  PROVE  IInv'
<1>. UNCHANGED <<target, asked, arena>> /\ UNCHANGED target /\ UNCHANGED arena /\ UNCHANGED pages
     /\ UNCHANGED <<target, screen>>
  BY DEF DumpChunk
<1>. TargetOK /\ ArenaRight /\ WalkRight /\ ScreenRight
  BY DEF IInv
<1>1. TargetOK' /\ ArenaRight'
  BY AnswerStays
<1>2. ScreenRight'
  BY ScreenStays DEF DumpChunk
<1>3. Walked(arena.first, pages.active) /\ Walked(arena.unswept, pages.unswept) /\ ChunksWalked
  BY DEF DumpChunk, WalkRight
<1>4. asked \in memory.arenas /\ arena.addr = asked
  BY <1>3, ArenaInHand DEF ChunksWalked
<1>5. PICK line, next, a, b : line = ChunkLine(cursor) /\ next = NextChunk(cursor) /\ a = asked /\ b = free_list
  OBVIOUS
<1>6. Progress(ChunksFrom(a, b), FreeChunksOf(a, b), Append(chunks[b], line), next)
  BY <1>3, <1>4, <1>5, ListTurn DEF DumpChunk, ChunksWalked
<1>7. /\ chunks' = [c \in FreeLists |-> IF c = b THEN Append(chunks[b], line) ELSE chunks[c]]
      /\ cursor' = next /\ free_list' = b /\ pc' = "free" /\ b \in FreeLists /\ asked' = a
  BY <1>3, <1>5 DEF DumpChunk, ChunksWalked
<1>8. ChunksFrom(a, b)' = ChunksFrom(a, b) /\ \A c : FreeChunksOf(a, c)' = FreeChunksOf(a, c)
  BY TargetStays
<1>9. Progress(ChunksFrom(asked, free_list), FreeChunksOf(asked, free_list), chunks[free_list], cursor)'
  BY <1>6, <1>7, <1>8 DEF Progress
<1>10. ChunksWalked'
  <2>1. \A c \in FreeLists : c < b => chunks'[c] = FreeChunksOf(asked, c)'
    <3>. SUFFICES ASSUME NEW c \in FreeLists, c < b PROVE chunks'[c] = FreeChunksOf(asked, c)'
      OBVIOUS
    <3>1. chunks[c] = FreeChunksOf(a, c) /\ c # b
      BY <1>3, <1>5 DEF ChunksWalked, FreeLists
    <3>. QED BY <1>7, <1>8, <3>1
  <2>2. \A c \in FreeLists : c > b => chunks'[c] = <<>>
    <3>. SUFFICES ASSUME NEW c \in FreeLists, c > b PROVE chunks'[c] = <<>>
      OBVIOUS
    <3>1. chunks[c] = <<>> /\ c # b
      BY <1>3, <1>5 DEF ChunksWalked, FreeLists
    <3>. QED BY <1>7, <3>1
  <2>. QED BY <1>3, <1>7, <1>9, <2>1, <2>2 DEF ChunksWalked
<1>11. WalkRight'
  BY <1>3, <1>7, <1>10, WalkedStays DEF WalkRight
<1>. QED BY <1>1, <1>2, <1>11 DEF IInv

(* From one free list to the next, and after the last to the end.            *)
LEMMA NextFreeListStep ==
  ASSUME IInv, NextFreeList
  PROVE  IInv' /\ (pc' = "idle" => listing' = Answer)
<1>. UNCHANGED <<target, asked, arena, pages, chunks, described, inspected>> /\ UNCHANGED target /\ UNCHANGED arena
     /\ UNCHANGED <<target, asked, arena>> /\ UNCHANGED pages
  BY DEF NextFreeList
<1>. TargetOK /\ ArenaRight /\ WalkRight /\ ScreenRight
  BY DEF IInv
<1>1. Walked(arena.first, pages.active) /\ Walked(arena.unswept, pages.unswept) /\ ChunksWalked
  BY DEF NextFreeList, WalkRight
<1>2. asked \in memory.arenas
  BY <1>1, ArenaInHand DEF ChunksWalked
<1>3. chunks[free_list] = FreeChunksOf(asked, free_list)
  BY <1>1, <1>2, ListEnds DEF NextFreeList, ChunksWalked
<1>4. \A b \in FreeLists : b < free_list + 1 => chunks[b] = FreeChunksOf(asked, b)
  <2>. SUFFICES ASSUME NEW b \in FreeLists, b < free_list + 1 PROVE chunks[b] = FreeChunksOf(asked, b)
    OBVIOUS
  <2>1. b < free_list \/ b = free_list
    BY <1>1 DEF ChunksWalked, FreeLists
  <2>. QED BY <1>1, <1>3, <2>1 DEF ChunksWalked
<1>5. CASE free_list + 1 \notin FreeLists
  <2>1. \A b \in FreeLists : b < free_list + 1
    BY <1>1, <1>5 DEF ChunksWalked, FreeLists
  <2>2. Answer = Output
    BY <1>1, <1>4, <2>1, OutputIsAnswer DEF ChunksWalked, WalkRight, NextFreeList
  <2>3. ShowListing
    BY <1>5 DEF NextFreeList, FreeListAfter
  <2>. QED BY <2>2, <2>3, ShowStep DEF NextFreeList, ShowListing
<1>6. CASE free_list + 1 \in FreeLists
  <2>1. /\ pc' = "free" /\ cursor' = arena.lists[free_list + 1] /\ free_list' = free_list + 1 /\ UNCHANGED <<target, screen>>
        /\ pages = [active |-> pages.active, unswept |-> pages.unswept] /\ chunks' = chunks
    BY <1>6 DEF NextFreeList, FreeListAfter, WalkRight, screen
  <2>2. ScreenRight'
    BY <2>1, ScreenStays DEF NextFreeList
  <2>3. TargetOK' /\ ArenaRight'
    BY AnswerStays
  <2>4. PICK a, b : a = asked /\ b = free_list + 1
    OBVIOUS
  <2>5. arena.lists[b] = Read("free_lists_", a + b, First(memory.free[a][b])) /\ b \in FreeLists /\ free_list \in FreeLists
    BY <1>1, <1>6, <2>4, ArenaInHand DEF ChunksWalked
  <2>6. Progress(ChunksFrom(a, b), FreeChunksOf(a, b), <<>>, arena.lists[b])
    BY <1>2, <2>4, <2>5, ListBegins
  <2>7. chunks[b] = <<>> /\ \A c \in FreeLists : c > b => chunks[c] = <<>>
    BY <1>1, <2>4, <2>5 DEF ChunksWalked, FreeLists
  <2>8. ChunksFrom(a, b)' = ChunksFrom(a, b) /\ \A c : FreeChunksOf(a, c)' = FreeChunksOf(a, c)
    BY TargetStays
  <2>9. Progress(ChunksFrom(asked, free_list), FreeChunksOf(asked, free_list), chunks[free_list], cursor)'
    BY <2>1, <2>4, <2>6, <2>7, <2>8 DEF Progress
  <2>10. \A c \in FreeLists : c < b => chunks'[c] = FreeChunksOf(asked, c)'
    BY <1>4, <2>1, <2>4, <2>8
  <2>11. ChunksWalked'
    BY <1>1, <2>1, <2>4, <2>5, <2>7, <2>9, <2>10 DEF ChunksWalked
  <2>12. WalkRight'
    BY <1>1, <2>1, <2>11, WalkedStays DEF WalkRight
  <2>. QED BY <2>1, <2>2, <2>3, <2>12 DEF IInv
<1>. QED BY <1>5, <1>6

(* !hpage leaves the arena and its listing as they are.                      *)
LEMMA HPageStep ==
  ASSUME IInv, NEW addr \in Probes, HPage(addr)
  PROVE  IInv'
<1>. UNCHANGED <<target, asked, arena>> /\ UNCHANGED target /\ pc' = pc /\ pc = "idle" /\ pages' = pages
     /\ listing' = listing /\ described' = Description(addr) /\ inspected' = Blank
  BY DEF HPage, walk
<1>1. TargetOK' /\ ArenaRight' /\ Answer' = Answer
  BY AnswerStays DEF IInv
<1>2. WalkRight'
  BY DEF IInv, WalkRight
<1>3. Description(addr)' = Description(addr)
  BY TargetStays
<1>4. ScreenRight'
  BY <1>1, <1>3 DEF IInv, ScreenRight
<1>. QED BY <1>1, <1>2, <1>4 DEF IInv

(* So does !chunk.                                                           *)
LEMMA ChunkStep ==
  ASSUME IInv, NEW addr \in {0} \cup AllChunks, Chunk(addr)
  PROVE  IInv'
<1>. UNCHANGED <<target, asked, arena>> /\ UNCHANGED target /\ pc' = pc /\ pc = "idle" /\ pages' = pages
     /\ listing' = listing /\ described' = Blank /\ inspected' = Inspection(addr)
  BY DEF Chunk, walk
<1>1. TargetOK' /\ ArenaRight' /\ Answer' = Answer
  BY AnswerStays DEF IInv
<1>2. WalkRight'
  BY DEF IInv, WalkRight
<1>3. Inspection(addr)' = Inspection(addr) /\ AllChunks' = AllChunks
  BY TargetStays
<1>4. ScreenRight'
  BY <1>1, <1>3 DEF IInv, ScreenRight
<1>. QED BY <1>1, <1>2, <1>4 DEF IInv

(* The invariant is about the variables of the module only.                  *)
LEMMA StutterStep ==
  ASSUME IInv, UNCHANGED vars
  PROVE  IInv'
<1>. UNCHANGED <<target, asked, arena>> /\ UNCHANGED target /\ UNCHANGED arena /\ UNCHANGED walk /\ UNCHANGED screen /\ pc' = pc
  BY DEF vars, walk
<1>. TargetOK /\ ArenaRight /\ WalkRight /\ ScreenRight
  BY DEF IInv
<1>1. TargetOK' /\ ArenaRight' /\ Answer' = Answer
  BY AnswerStays
<1>2. /\ cursor' = cursor /\ free_list' = free_list /\ pages' = pages /\ chunks' = chunks /\ asked' = asked
      /\ listing' = listing /\ described' = described /\ inspected' = inspected /\ NoChunks' = NoChunks
  BY DEF walk, screen, NoChunks
<1>3. PICK first, unswept, active, rest, cur, a, b :
        /\ first = arena.first /\ unswept = arena.unswept /\ active = pages.active /\ rest = pages.unswept
        /\ cur = cursor /\ a = asked /\ b = free_list
  OBVIOUS
<1>4. /\ Walking(first, active, cur)' <=> Walking(first, active, cur)
      /\ Walking(unswept, rest, cur)' <=> Walking(unswept, rest, cur)
      /\ Walked(first, active)' <=> Walked(first, active)
      /\ Walked(unswept, rest)' <=> Walked(unswept, rest)
  BY ArenaStays
<1>5. /\ Walking(arena.first, pages.active, cursor) => Walking(arena.first, pages.active, cursor)'
      /\ Walking(arena.unswept, pages.unswept, cursor) => Walking(arena.unswept, pages.unswept, cursor)'
      /\ Walked(arena.first, pages.active) => Walked(arena.first, pages.active)'
      /\ Walked(arena.unswept, pages.unswept) => Walked(arena.unswept, pages.unswept)'
  BY <1>2, <1>3, <1>4
<1>6. ChunksFrom(a, b)' = ChunksFrom(a, b) /\ \A c : FreeChunksOf(a, c)' = FreeChunksOf(a, c)
  BY TargetStays
<1>7. ChunksWalked => ChunksWalked'
  BY <1>2, <1>3, <1>6 DEF ChunksWalked, Progress
<1>8. WalkRight'
  BY <1>2, <1>5, <1>7 DEF WalkRight
<1>9. ScreenRight'
  <2>1. described' = Blank \/ \E addr \in Probes : described' = Description(addr)'
    BY <1>2, TargetStays DEF ScreenRight
  <2>2. inspected' = Blank \/ \E addr \in ({0} \cup AllChunks)' : inspected' = Inspection(addr)'
    BY <1>2, TargetStays DEF ScreenRight
  <2>. QED BY <1>1, <1>2, <2>1, <2>2 DEF ScreenRight
<1>. QED BY <1>1, <1>8, <1>9 DEF IInv

(* Every step keeps the invariant.                                           *)
LEMMA StepRight ==
  ASSUME IInv, [Next]_vars
  PROVE  IInv'
<1>1. ASSUME NEW a \in memory.arenas \cup {0}, Arena(a) PROVE IInv'
  BY <1>1, ArenaStep
<1>2. CASE DumpPage
  BY <1>2, DumpPageStep
<1>3. CASE DieOfNullPage
  BY <1>3, DieStep
<1>4. CASE UnsweptChain
  BY <1>4, UnsweptStep
<1>5. CASE FreeChunks
  BY <1>5, FreeChunksStep
<1>6. CASE DumpChunk
  BY <1>6, DumpChunkStep
<1>7. CASE NextFreeList
  BY <1>7, NextFreeListStep
<1>8. ASSUME NEW addr \in Probes, HPage(addr) PROVE IInv'
  BY <1>8, HPageStep
<1>9. ASSUME NEW addr \in {0} \cup AllChunks, Chunk(addr) PROVE IInv'
  BY <1>9, ChunkStep
<1>10. CASE UNCHANGED vars
  BY <1>10, StutterStep
<1>. QED
  BY <1>1, <1>2, <1>3, <1>4, <1>5, <1>6, <1>7, <1>8, <1>9, <1>10 DEF Next, Run, AllChunks

(* What is printed is the listing of an arena of the target, in every state. *)
THEOREM ArenasInvariant == Spec => []IInv
<1>1. Init => IInv
  BY InitRight
<1>2. IInv /\ [Next]_vars => IInv'
  BY StepRight
<1>. QED BY <1>1, <1>2, PTL DEF Spec

------------------------------------------------------------------------------
(* What is on the screen. *)

(* A listing that is there is that of an arena, whole.                       *)
LEMMA ListedIs ==
  ASSUME IInv, Listed
  PROVE  /\ asked \in memory.arenas /\ arena = LoadedArena(asked) /\ ~Dies
         /\ listing.arena = arena
         /\ listing.pages.active = Lines(PagesFrom(arena.first))
         /\ listing.pages.unswept = Lines(PagesFrom(arena.unswept))
         /\ listing.chunks = [b \in FreeLists |-> IF arena.class = "NormalPageArena" THEN FreeChunksOf(asked, b) ELSE <<>>]
<1>1. listing = Answer /\ listing # Dead /\ asked # 0
  BY DEF IInv, ScreenRight, Listed
<1>2. ~Dies
  BY <1>1 DEF Answer
<1>3. asked \in memory.arenas /\ arena = LoadedArena(asked)
  BY <1>1 DEF IInv, ArenaRight
<1>. QED BY <1>1, <1>2, <1>3 DEF Answer

(* The pages on the way from the pointers of an arena are the arena's.       *)
LEMMA PagesOnTheWay ==
  ASSUME TargetOK, ArenaRight, asked # 0, NEW head \in {arena.first, arena.unswept}, NEW i \in DOMAIN PagesFrom(head)
  PROVE  PagesFrom(head)[i] \in PagesOf(memory, asked)
<1>1. asked \in memory.arenas /\ head \in PagesOf(memory, asked) \cup {0}
  BY ArenaInHand
<1>2. head \in PagesIn(memory)
  BY NoPageChain
<1>3. head \in PagesOf(memory, asked)
  <2>1. head # 0
    BY <1>2, ListFacts, PageFacts
  <2>. QED BY <1>1, <2>1
<1>4. Owner(head) = asked
  BY <1>1, <1>3, PageFacts
<1>. QED BY <1>2, <1>4, PageChain

(* A line of a page is that of a page of the arena whose class is told.      *)
LEMMA LineOfPage ==
  ASSUME IInv, Listed, NEW line \in PageLines
  PROVE  \E p \in PagesOf(memory, asked) : line = PageLine(p) /\ p \notin Unlinked("vtable") /\ PageClass(p) # "none"
<1>. TargetOK /\ ArenaRight
  BY DEF IInv
<1>1. PICK head \in {arena.first, arena.unswept} :
        \E i \in DOMAIN Lines(PagesFrom(head)) : line = Lines(PagesFrom(head))[i]
  BY ListedIs DEF PageLines
<1>2. PICK i \in DOMAIN PagesFrom(head) : line = PageLine(PagesFrom(head)[i])
  BY <1>1 DEF Lines
<1>3. PagesFrom(head)[i] \in PagesOf(memory, asked)
  BY PagesOnTheWay DEF Listed
<1>4. PagesFrom(head)[i] \notin Unlinked("vtable")
  BY ListedIs DEF Dies
<1>5. PagesFrom(head)[i] \in PagesIn(memory)
  BY <1>3, ListedIs DEF PagesIn
<1>. QED BY <1>2, <1>3, <1>4, <1>5, ClassOfPage

(* The class of a page of an arena, and the range of its payload.            *)
LEMMA PayloadOfPage ==
  ASSUME TargetOK, NEW a \in memory.arenas, NEW p \in PagesOf(memory, a), p \notin Unlinked("vtable")
  PROVE  /\ PageClass(p) = IF memory.kind[a] = "NormalPageArena" THEN "NormalPage" ELSE "LargeObjectPage"
         /\ p \in Nat /\ PayloadFrom(p) \in Nat /\ PayloadTo(p) \in Nat /\ p < PayloadFrom(p)
         /\ memory.kind[a] = "NormalPageArena" => PayloadTo(p) <= p - kBlinkGuardPageSize + kBlinkPageSize
<1>1. /\ p \in PagesIn(memory) /\ Owner(p) = a /\ p \in Nat
      /\ memory.kind[a] = "LargeObjectArena" => memory.payload_size[p] \in Nat
  BY PageFacts
<1>2. memory.kind[a] \in {"NormalPageArena", "LargeObjectArena"}
  BY ArenaFacts
<1>3. PageClass(p) = IF memory.kind[a] = "NormalPageArena" THEN "NormalPage" ELSE "LargeObjectPage"
  BY <1>1, UnlinkedCells DEF PageClass
<1>4. CASE memory.kind[a] = "NormalPageArena"
  <2>1. PayloadFrom(p) = p + PageHeaderSize /\ PayloadTo(p) = p + PageHeaderSize + PayloadSize
    BY <1>3, <1>4 DEF PayloadFrom, PayloadTo, Payload, PayloadEnd
  <2>. QED BY <1>1, <1>3, <2>1, PayloadFacts DEF kBlinkGuardPageSize, kBlinkPageSize
<1>5. CASE memory.kind[a] = "LargeObjectArena"
  <2>1. PayloadFrom(p) = Large!Payload(p) /\ PayloadTo(p) = Large!Payload(p) + Read("payload_size_", p, memory.payload_size[p])
    BY <1>3, <1>5 DEF PayloadFrom, PayloadTo
  <2>2. Large!Payload(p) \in Nat /\ p < Large!Payload(p)
    BY <1>1, LargePageAssumption, SMT
       DEF Large!Payload, Large!PageHeaderSize, Large!Padding, Large!PageHeaderAssumption, Large!kAllocationGranularity
  <2>3. Read("payload_size_", p, memory.payload_size[p]) \in Nat
    BY <1>1, <1>5 DEF Read
  <2>. QED BY <1>1, <1>3, <1>5, <2>1, <2>2, <2>3
<1>. QED BY <1>2, <1>4, <1>5

(* A chunk's line is that of a free chunk of the arena.                      *)
LEMMA LineOfChunk ==
  ASSUME IInv, Listed, NEW c \in ChunkLines
  PROVE  /\ memory.kind[asked] = "NormalPageArena"
         /\ \E chunk \in ChunksOf(memory, asked) : c = ChunkLine(chunk)
<1>. TargetOK /\ ArenaRight
  BY DEF IInv
<1>1. PICK b \in FreeLists : \E i \in DOMAIN listing.chunks[b] : c = listing.chunks[b][i]
  BY DEF ChunkLines
<1>2. asked \in memory.arenas
      /\ listing.chunks[b] = IF arena.class = "NormalPageArena" THEN FreeChunksOf(asked, b) ELSE <<>>
  BY ListedIs
<1>3. arena.class = "NormalPageArena"
  BY <1>1, <1>2
<1>4. memory.kind[asked] = "NormalPageArena"
  BY <1>3, ArenaInHand DEF ArenaClass
<1>5. PICK i \in DOMAIN FreeChunksOf(asked, b) : c = FreeChunksOf(asked, b)[i]
  BY <1>1, <1>2, <1>3
<1>6. c = ChunkLine(ChunksFrom(asked, b)[i]) /\ ChunksFrom(asked, b)[i] \in ChunksOf(memory, asked)
  BY <1>2, <1>5, LinesOfChunks, ChunkChain
<1>. QED BY <1>4, <1>6

(* A null page is followed in an arena with a page that cannot be identified *)
(* or in no arena: DeathExplained of the code of dump_page_chain and of      *)
(* BasePage::create.                                                         *)
THEOREM DeathsExplained == Spec => []DeathExplained
<1>1. IInv => DeathExplained
  <2>. SUFFICES ASSUME IInv PROVE DeathExplained
    OBVIOUS
  <2>. TargetOK /\ ArenaRight
    BY DEF IInv
  <2>1. ASSUME listing = Dead, asked # 0 PROVE PagesOf(memory, asked) \cap Unlinked("vtable") # {}
    <3>1. listing = Answer
      BY <2>1, GarbageAssumption DEF IInv, ScreenRight
    <3>2. Dies
      BY <2>1, <3>1 DEF Answer, Dead
    <3>3. {arena.first, arena.unswept} \subseteq PagesIn(memory) \cup {0}
      BY <2>1, ArenaInHand DEF PagesIn
    <3>4. PICK head \in {arena.first, arena.unswept} :
            \E i \in DOMAIN PagesFrom(head) : PagesFrom(head)[i] \in Unlinked("vtable")
      BY <3>2, <3>3 DEF Dies
    <3>. QED BY <2>1, <3>4, PagesOnTheWay
  <2>2. ASSUME described # Blank, described.page = Dead
        PROVE  HeaderOf(described.addr) \notin PagesIn(memory) \ Unlinked("vtable")
    <3>1. PICK addr \in Probes : described = Description(addr)
      BY <2>2 DEF IInv, ScreenRight
    <3>2. described.addr = addr /\ PageClass(HeaderOf(addr)) = "none"
      BY <2>2, <3>1 DEF Description, Dead
    <3>. QED BY <3>2, ClassOfPage
  <2>3. ASSUME inspected # Blank, inspected.chunk = Dead
        PROVE  inspected.addr = 0 \/ HeaderOf(inspected.addr) \in Unlinked("vtable")
    <3>1. PICK addr \in {0} \cup AllChunks : inspected = Inspection(addr)
      BY <2>3 DEF IInv, ScreenRight
    <3>2. inspected.addr = addr /\ PageClass(HeaderOf(addr)) = "none"
      BY <2>3, <3>1 DEF Inspection, Dead
    <3>3. addr # 0 => HeaderOf(addr) \in PagesIn(memory)
      BY ChunkFacts DEF AllChunks, HeaderOf, PagesIn
    <3>. QED BY <3>2, <3>3, ClassOfPage
  <2>. QED BY <2>1, <2>2, <2>3 DEF DeathExplained
<1>. QED BY <1>1, ArenasInvariant, PTL

(* The page marked with # is the one that holds the allocation point:        *)
(* CurrentMarked of BaseArena::is_current, for pages of any sizes.           *)
THEOREM CurrentIsMarked == Spec => []CurrentMarked
<1>1. IInv => CurrentMarked
  <2>. SUFFICES ASSUME IInv, Listed, NEW line \in PageLines
       PROVE  line.current <=>
                /\ {<<"vtable", asked>>, <<"current_allocation_point_", asked>>} \cap unreadable = {}
                /\ memory.kind[asked] = "NormalPageArena"
                /\ HeaderOf(memory.point[asked]) = line.page
                /\ line.from <= memory.point[asked] /\ memory.point[asked] < line.to
    BY DEF CurrentMarked
  <2>. TargetOK /\ ArenaRight /\ asked \in memory.arenas /\ memory.point[asked] \in Nat /\ arena = LoadedArena(asked)
    BY ListedIs, ArenaFacts DEF IInv
  <2>1. PICK p \in PagesOf(memory, asked) : line = PageLine(p) /\ p \notin Unlinked("vtable")
    BY LineOfPage
  <2>2. line.page = p /\ line.from = PayloadFrom(p) /\ line.to = PayloadTo(p) /\ line.current = IsCurrent(p)
    BY <2>1 DEF PageLine
  <2>3. /\ p \in Nat /\ PayloadFrom(p) \in Nat /\ PayloadTo(p) \in Nat /\ p < PayloadFrom(p)
        /\ memory.kind[asked] = "NormalPageArena" => PayloadTo(p) <= p - kBlinkGuardPageSize + kBlinkPageSize
    BY <2>1, PayloadOfPage
  <2>4. /\ arena.class = IF <<"vtable", asked>> \in unreadable THEN "BaseArena" ELSE memory.kind[asked]
        /\ arena.point = AllocationPoint(asked) /\ ArenaClass(asked) = arena.class
    BY DEF LoadedArena, ArenaClass
  <2>5. arena.class = "NormalPageArena" =>
          arena.point = IF <<"current_allocation_point_", asked>> \in unreadable THEN 0 ELSE memory.point[asked]
    BY <2>4 DEF AllocationPoint, Read
  <2>6. ASSUME IsCurrent(p)
        PROVE  /\ {<<"vtable", asked>>, <<"current_allocation_point_", asked>>} \cap unreadable = {}
               /\ memory.kind[asked] = "NormalPageArena" /\ HeaderOf(memory.point[asked]) = p
               /\ PayloadFrom(p) <= memory.point[asked] /\ memory.point[asked] < PayloadTo(p)
    <3>1. arena.class = "NormalPageArena" /\ PayloadFrom(p) <= arena.point /\ arena.point < PayloadTo(p)
      BY <2>6 DEF IsCurrent
    <3>2. <<"vtable", asked>> \notin unreadable /\ memory.kind[asked] = "NormalPageArena"
      BY <2>4, <3>1
    <3>3. <<"current_allocation_point_", asked>> \notin unreadable /\ arena.point = memory.point[asked]
      BY <2>3, <2>5, <3>1
    <3>4. p < SizeT /\ p % kBlinkPageSize = kBlinkGuardPageSize
      BY PageFacts
    <3>5. p <= memory.point[asked] /\ memory.point[asked] < p - kBlinkGuardPageSize + kBlinkPageSize
      BY <2>3, <3>1, <3>2, <3>3 DEF kBlinkGuardPageSize, kBlinkPageSize
    <3>6. HeaderOf(memory.point[asked]) = p
      BY <2>3, <3>4, <3>5, PageOfInner DEF HeaderOf
    <3>. QED BY <3>1, <3>2, <3>3, <3>6
  <2>7. ASSUME {<<"vtable", asked>>, <<"current_allocation_point_", asked>>} \cap unreadable = {},
               memory.kind[asked] = "NormalPageArena",
               PayloadFrom(p) <= memory.point[asked], memory.point[asked] < PayloadTo(p)
        PROVE  IsCurrent(p)
    BY <2>4, <2>5, <2>7 DEF IsCurrent
  <2>. QED BY <2>2, <2>6, <2>7
<1>. QED BY <1>1, ArenasInvariant, PTL

(* An address in the range of a page's line, within its first 128 KB, leads  *)
(* back to the page.                                                         *)
LEMMA AddressOfLine ==
  ASSUME TargetOK, NEW a \in memory.arenas, NEW p \in PagesOf(memory, a), p \notin Unlinked("vtable"),
         NEW addr \in Nat, addr \in p..(PayloadTo(p) - 1), addr < p - kBlinkGuardPageSize + kBlinkPageSize
  PROVE  HeaderOf(addr) = p
<1>1. p \in Nat /\ p < SizeT /\ p % kBlinkPageSize = kBlinkGuardPageSize
  BY PageFacts
<1>2. p <= addr
  BY <1>1, PayloadOfPage
<1>. QED BY <1>1, <1>2, PageOfInner DEF HeaderOf

(* !hpage of an address in a listed page says what the listing does.         *)
LEMMA PagesAgree ==
  ASSUME IInv
  PROVE  PageAgrees
<1>. SUFFICES ASSUME Listed, described # Blank, NEW line \in PageLines,
                     described.addr \in line.page..(line.to - 1),
                     described.addr < line.page - kBlinkGuardPageSize + kBlinkPageSize
     PROVE  /\ described.page # Dead
            /\ described.page.page = line.page /\ described.page.class = line.class
            /\ described.page.from = line.from /\ described.page.to = line.to
            /\ IF line.page \in Unlinked("arena_") THEN described.page.arena = 0
               ELSE described.page.arena = asked /\ described.page.index = listing.arena.index
  BY DEF PageAgrees
<1>. TargetOK /\ asked \in memory.arenas /\ arena = LoadedArena(asked) /\ listing.arena = arena /\ asked # 0
  BY ListedIs, ArenaFacts DEF IInv
<1>1. PICK p \in PagesOf(memory, asked) : line = PageLine(p) /\ p \notin Unlinked("vtable") /\ PageClass(p) # "none"
  BY LineOfPage
<1>2. /\ line.page = p /\ line.class = PageClass(p) /\ line.from = PayloadFrom(p) /\ line.to = PayloadTo(p)
  BY <1>1 DEF PageLine
<1>3. PICK addr \in Nat : described = Description(addr) /\ described.addr = addr
  BY GarbageAssumption DEF IInv, ScreenRight, Description
<1>4. HeaderOf(addr) = p
  BY <1>1, <1>2, <1>3, AddressOfLine
<1>5. Owner(p) = asked
  BY PageFacts
<1>6. Read("arena_", p, Owner(p)) = IF p \in Unlinked("arena_") THEN 0 ELSE asked
  BY <1>5, UnlinkedCells DEF Read
<1>7. described.page =
        LET a == Read("arena_", p, Owner(p)) IN
        [page |-> p, class |-> PageClass(p), from |-> PayloadFrom(p), to |-> PayloadTo(p),
         arena |-> a, index |-> IF a = 0 THEN -1 ELSE Read("index_", a, memory.index[a]),
         thread_state |-> IF a = 0 THEN 0 ELSE ThreadState(a)]
  BY <1>1, <1>3, <1>4 DEF Description
<1>8. described.page # Dead
  BY <1>7 DEF Dead
<1>9. arena.index = Read("index_", asked, memory.index[asked])
  BY DEF LoadedArena
<1>. QED BY <1>2, <1>6, <1>7, <1>8, <1>9

(* !chunk of a listed free chunk says what the listing does.                 *)
LEMMA ChunksAgree ==
  ASSUME IInv
  PROVE  ChunkAgrees
<1>. SUFFICES ASSUME Listed, inspected # Blank, NEW c \in ChunkLines, NEW line \in PageLines,
                     inspected.addr = c.addr, line.page < c.addr, c.addr < line.to
     PROVE  /\ inspected.chunk # Dead
            /\ inspected.chunk.page = line.page /\ inspected.chunk.class = "NormalPage"
            /\ inspected.chunk.header.size = c.size
            /\ inspected.chunk.header.free = 1 \/ c.addr \in Unlinked("encoded_")
  BY DEF ChunkAgrees
<1>. TargetOK /\ asked \in memory.arenas
  BY ListedIs DEF IInv
<1>1. PICK p \in PagesOf(memory, asked) : line = PageLine(p) /\ p \notin Unlinked("vtable") /\ PageClass(p) # "none"
  BY LineOfPage
<1>2. PICK chunk \in ChunksOf(memory, asked) : c = ChunkLine(chunk)
  BY LineOfChunk
<1>3. memory.kind[asked] = "NormalPageArena"
  BY LineOfChunk
<1>4. line.page = p /\ line.to = PayloadTo(p) /\ c.addr = chunk /\ c.size = HeaderAt(chunk).size
  BY <1>1, <1>2 DEF PageLine, ChunkLine
<1>5. /\ p \in Nat /\ PayloadTo(p) \in Nat /\ PayloadTo(p) <= p - kBlinkGuardPageSize + kBlinkPageSize
      /\ PageClass(p) = "NormalPage"
  BY <1>1, <1>3, PayloadOfPage
<1>6. chunk \in Nat /\ (chunk \notin Unlinked("encoded_") => HeaderAt(chunk).free = 1)
  BY ChunkFacts
<1>7. chunk \in p..(PayloadTo(p) - 1) /\ chunk < p - kBlinkGuardPageSize + kBlinkPageSize
  BY <1>4, <1>5, <1>6 DEF kBlinkGuardPageSize, kBlinkPageSize
<1>8. HeaderOf(chunk) = p
  BY <1>1, <1>6, <1>7, AddressOfLine
<1>9. inspected = Inspection(chunk)
  <2>1. PICK addr : inspected = Inspection(addr)
    BY DEF IInv, ScreenRight
  <2>2. addr = inspected.addr
    BY <2>1 DEF Inspection
  <2>. QED BY <1>4, <2>1, <2>2
<1>10. inspected.chunk = [page |-> p, class |-> "NormalPage", header |-> HeaderAt(chunk)]
  BY <1>1, <1>5, <1>8, <1>9 DEF Inspection
<1>11. inspected.chunk # Dead
  BY <1>10 DEF Dead
<1>. QED BY <1>4, <1>6, <1>10, <1>11

(* What !arena listed, !hpage and !chunk say of it again: RoundTrip of the   *)
(* page masks, of BasePage::dump and of HeapObjectHeader::dump.              *)
THEOREM RoundTrips == Spec => []RoundTrip
<1>1. IInv => RoundTrip
  BY PagesAgree, ChunksAgree DEF RoundTrip
<1>. QED BY <1>1, ArenasInvariant, PTL

------------------------------------------------------------------------------
(* The console. *)

(* Of the commands, !arena alone asks, and it shows the answer, whole or that*)
(* it died, in one step.                                                     *)
THEOREM ArenaShowsAnswers == Spec => ArenaConsole!Steps
<1>1. Init => ArenaConsole!Init
  BY DEF Init, ArenaConsole!Init
<1>2. ASSUME IInv, [Next]_vars PROVE [ArenaConsole!Ask \/ ArenaConsole!Show]_(ArenaConsole!console)
  <2>. WalkRight /\ ScreenRight
    BY <1>2 DEF IInv
  <2>1. ASSUME NEW a \in memory.arenas \cup {0}, Arena(a) PROVE ArenaConsole!Ask
    BY <2>1 DEF Arena, ArenaConsole!Ask
  <2>2. ASSUME UNCHANGED <<target, asked, arena>>, UNCHANGED <<pc, listing>> PROVE UNCHANGED ArenaConsole!console
    BY <2>2, AnswerStays DEF ArenaConsole!console
  <2>3. CASE DumpPage
    BY <2>2, <2>3 DEF DumpPage, screen
  <2>4. CASE DieOfNullPage
    <3>1. UNCHANGED <<target, asked, arena>> /\ pc # "idle" /\ pc' = "idle" /\ listing' = Answer
      BY <1>2, <2>4, DieStep DEF DieOfNullPage, walk
    <3>. QED BY <3>1, AnswerStays DEF ArenaConsole!Show
  <2>5. CASE UnsweptChain
    <3>1. UNCHANGED <<target, asked, arena>> /\ listing' = listing /\ pc = "active" /\ pc' = "unswept"
      BY <2>5 DEF UnsweptChain, screen
    <3>2. (pc # "idle")' = (pc # "idle")
      BY <3>1
    <3>. QED BY <3>1, <3>2, AnswerStays DEF ArenaConsole!console
  <2>6. CASE FreeChunks
    <3>1. UNCHANGED <<target, asked, arena>> /\ pc = "unswept"
      BY <2>6 DEF FreeChunks
    <3>2. CASE arena.class = "NormalPageArena"
      <4>1. listing' = listing /\ pc' = "free"
        BY <2>6, <3>2 DEF FreeChunks
      <4>2. (pc # "idle")' = (pc # "idle")
        BY <3>1, <4>1
      <4>. QED BY <3>1, <4>1, <4>2, AnswerStays DEF ArenaConsole!console
    <3>3. CASE arena.class # "NormalPageArena"
      <4>1. pc' = "idle"
        BY <2>6, <3>3 DEF FreeChunks, ShowListing
      <4>2. listing' = Answer
        BY <1>2, <2>6, <4>1, FreeChunksStep
      <4>. QED BY <3>1, <4>1, <4>2, AnswerStays DEF ArenaConsole!Show
    <3>. QED BY <3>2, <3>3
  <2>7. CASE DumpChunk
    BY <2>2, <2>7 DEF DumpChunk, screen
  <2>8. CASE NextFreeList
    <3>1. UNCHANGED <<target, asked, arena>> /\ pc = "free"
      BY <2>8 DEF NextFreeList
    <3>2. CASE FreeListAfter(free_list) \in FreeLists
      BY <2>2, <2>8, <3>2 DEF NextFreeList
    <3>3. CASE FreeListAfter(free_list) \notin FreeLists
      <4>1. pc' = "idle"
        BY <2>8, <3>3 DEF NextFreeList, ShowListing
      <4>2. listing' = Answer
        BY <1>2, <2>8, <4>1, NextFreeListStep
      <4>. QED BY <3>1, <4>1, <4>2, AnswerStays DEF ArenaConsole!Show
    <3>. QED BY <3>2, <3>3
  <2>9. ASSUME NEW addr \in Probes, HPage(addr) PROVE UNCHANGED ArenaConsole!console
    BY <2>2, <2>9 DEF HPage, walk
  <2>10. ASSUME NEW addr \in {0} \cup AllChunks, Chunk(addr) PROVE UNCHANGED ArenaConsole!console
    BY <2>2, <2>10 DEF Chunk, walk
  <2>11. CASE UNCHANGED vars
    BY <2>2, <2>11 DEF vars, walk, screen
  <2>. QED
    BY <1>2, <2>1, <2>3, <2>4, <2>5, <2>6, <2>7, <2>8, <2>9, <2>10, <2>11 DEF Next, Run, AllChunks
<1>. QED BY <1>1, <1>2, ArenasInvariant, PTL DEF Spec, ArenaConsole!Steps

------------------------------------------------------------------------------
(* !heap and !pool: a session of module ThreadHeap beside it, of the same    *)
(* build and with a target of its own.                                       *)

CONSTANTS HeapMemories, HeapUnreadables, Word, IndexSize, Unnamed

VARIABLES heap_memory, heap_unreadable, heap_pc, heap, row, heap_cursor, count, calls,
          arenas, pools, regions, entries, heap_listing, page_list

Heaps == INSTANCE ThreadHeap WITH
  Memories <- HeapMemories, Unreadables <- HeapUnreadables,
  memory <- heap_memory, unreadable <- heap_unreadable, pc <- heap_pc, cursor <- heap_cursor, listing <- heap_listing

(* What module ThreadHeap assumes.                                           *)
HeapsAssumed == Heaps!WordAssumption /\ Heaps!MemoriesAssumption /\ Heaps!CellsAssumption

HeapTargetOK == heap_memory \in HeapMemories /\ heap_unreadable \in HeapUnreadables

(* The lists of the target are those of Chains for both modules.             *)
LEMMA SameLists ==
  /\ \A list, x : Heaps!NextIn(list, x) = NextIn(list, x) /\ Heaps!From(list, x) = From(list, x)
  /\ \A list, stops : Heaps!UpTo(list, stops) = UpTo(list, stops)
  /\ \A list : Heaps!Distinct(list) <=> Distinct(list)
<1>1. ASSUME NEW list, NEW x PROVE Heaps!NextIn(list, x) = NextIn(list, x)
  BY Zenon DEF Heaps!NextIn, NextIn
<1>2. ASSUME NEW list, NEW x PROVE Heaps!From(list, x) = From(list, x)
  BY Zenon DEF Heaps!From, From
<1>3. ASSUME NEW list, NEW stops PROVE Heaps!UpTo(list, stops) = UpTo(list, stops)
  BY Zenon DEF Heaps!UpTo, UpTo
<1>4. ASSUME NEW list PROVE Heaps!Distinct(list) <=> Distinct(list)
  BY Zenon DEF Heaps!Distinct, Distinct
<1>. QED BY <1>1, <1>2, <1>3, <1>4

(* A cell cannot be read exactly if its address is among the unlinked.       *)
LEMMA UnlinkedEntries ==
  ASSUME HeapsAssumed, HeapTargetOK, NEW member, NEW x
  PROVE  x \in Heaps!Unlinked(member) <=> <<member, x>> \in heap_unreadable
<1>1. \A c \in heap_unreadable : c = <<c[1], c[2]>>
  BY DEF HeapsAssumed, HeapTargetOK, Heaps!CellsAssumption
<1>2. <<member, x>>[1] = member /\ <<member, x>>[2] = x
  OBVIOUS
<1>. QED BY <1>1, <1>2, Zenon DEF Heaps!Unlinked

Entries == Heaps!EntriesOf(heap_memory)

(* The pools of a heap.                                                      *)
LEMMA PoolFacts ==
  ASSUME HeapsAssumed, HeapTargetOK
  PROVE  /\ \A i \in DOMAIN heap_memory.pool :
              heap_memory.pool[i] \in Seq(Nat \ {0}) /\ Distinct(heap_memory.pool[i])
         /\ \A i, j \in DOMAIN heap_memory.pool :
              (\E k \in DOMAIN heap_memory.pool[i], l \in DOMAIN heap_memory.pool[j] :
                 heap_memory.pool[i][k] = heap_memory.pool[j][l]) => i = j
         /\ DOMAIN heap_memory.pool = DOMAIN heap_memory.arenas
<1>1. /\ heap_memory.arenas \in Seq(Nat \ {0})
      /\ heap_memory.pool \in Seq(Seq(Nat \ {0})) /\ Len(heap_memory.pool) = Len(heap_memory.arenas)
      /\ \A i \in DOMAIN heap_memory.pool : Heaps!Distinct(heap_memory.pool[i])
      /\ \A i, j \in DOMAIN heap_memory.pool :
           (\E k \in DOMAIN heap_memory.pool[i], l \in DOMAIN heap_memory.pool[j] :
              heap_memory.pool[i][k] = heap_memory.pool[j][l]) => i = j
  BY DEF HeapsAssumed, HeapTargetOK, Heaps!MemoriesAssumption
<1>. QED BY <1>1, SameLists

(* The list an entry is in: its members are in no other.                     *)
LEMMA EntryFacts ==
  ASSUME HeapsAssumed, HeapTargetOK, NEW e \in Entries
  PROVE  /\ Heaps!ListWith(e) \in Seq(Nat \ {0}) /\ Distinct(Heaps!ListWith(e))
         /\ \E k \in DOMAIN Heaps!ListWith(e) : Heaps!ListWith(e)[k] = e
         /\ \A k \in DOMAIN Heaps!ListWith(e) :
              /\ Heaps!ListWith(e)[k] \in Entries
              /\ Heaps!ListWith(Heaps!ListWith(e)[k]) = Heaps!ListWith(e)
<1> DEFINE pool == heap_memory.pool
<1>1. PICK i \in DOMAIN pool : \E k \in DOMAIN pool[i] : pool[i][k] = e
  BY DEF Entries, Heaps!EntriesOf
<1>2. ASSUME NEW f, \E k \in DOMAIN pool[i] : pool[i][k] = f
      PROVE  Heaps!ListWith(f) = pool[i]
  <2>1. \A j \in DOMAIN pool : (\E k \in DOMAIN pool[j] : pool[j][k] = f) => j = i
    BY <1>2, PoolFacts
  <2>2. (CHOOSE j \in DOMAIN pool : \E k \in DOMAIN pool[j] : pool[j][k] = f) = i
    BY <1>2, <2>1
  <2>. QED BY <2>2 DEF Heaps!ListWith
<1>3. \A k \in DOMAIN pool[i] : pool[i][k] \in Entries
  BY DEF Entries, Heaps!EntriesOf
<1>4. Heaps!ListWith(e) = pool[i]
  BY <1>1, <1>2
<1>5. \A k \in DOMAIN pool[i] : Heaps!ListWith(pool[i][k]) = pool[i]
  BY <1>2
<1>. QED BY <1>1, <1>3, <1>4, <1>5, PoolFacts

(* The loops of PagePool::dump and PoolEntry::dump, from an entry: they come *)
(* to entries of one pool, to each once.                                     *)
LEMMA EntryChain ==
  ASSUME HeapsAssumed, HeapTargetOK, NEW e \in Entries \cup {0}
  PROVE  /\ Heaps!ChainFrom(e) \in Seq(Nat) /\ Distinct(Heaps!ChainFrom(e))
         /\ e = IF Heaps!ChainFrom(e) = <<>> THEN 0 ELSE Heaps!ChainFrom(e)[1]
         /\ \A k \in DOMAIN Heaps!ChainFrom(e) :
              /\ Heaps!ChainFrom(e)[k] \in Entries /\ Heaps!ChainFrom(e)[k] # 0
              /\ Heaps!ListWith(Heaps!ChainFrom(e)[k]) = Heaps!ListWith(e)
         /\ Follows(Heaps!ChainFrom(e), Heaps!ListWith(e), Heaps!Unlinked("next"))
<1>1. CASE e = 0
  <2>1. Heaps!ChainFrom(e) = <<>> /\ DOMAIN <<>> = {} /\ <<>> \in Seq(Nat)
    BY <1>1 DEF Heaps!ChainFrom
  <2>. QED BY <1>1, <2>1, Zenon DEF Follows, Distinct
<1>2. CASE e # 0
  <2> DEFINE l == Heaps!ListWith(e)
             w == WalkFrom(Heaps!ListWith(e), e, Heaps!Unlinked("next"))
  <2>1. Heaps!ChainFrom(e) = w
    BY <1>2, SameLists DEF Heaps!ChainFrom, WalkFrom
  <2>2. /\ l \in Seq(Nat \ {0}) /\ Distinct(l) /\ \E n \in DOMAIN l : l[n] = e
        /\ \A n \in DOMAIN l : l[n] \in Entries /\ Heaps!ListWith(l[n]) = l
    BY <1>2, EntryFacts
  <2>3. /\ w \in Seq(Nat \ {0}) /\ Len(w) > 0 /\ w[1] = e /\ Distinct(w)
        /\ \A k \in 1..Len(w) : \E n \in DOMAIN l : l[n] = w[k]
    <3>. HIDE DEF l
    <3>. QED BY <2>2, WalkStarts DEF l
  <2>4. \A k \in DOMAIN w : w[k] \in Entries /\ w[k] # 0 /\ Heaps!ListWith(w[k]) = l
    BY <2>2, <2>3
  <2>5. Follows(w, l, Heaps!Unlinked("next"))
    BY <2>2, WalkFollows
  <2>6. w \in Seq(Nat) /\ w # <<>>
    BY <2>3
  <2>. QED BY <2>1, <2>3, <2>4, <2>5, <2>6
<1>. QED BY <1>1, <1>2

(* Where next of an entry leads.                                             *)
LEMMA LinkOfEntry ==
  ASSUME HeapsAssumed, HeapTargetOK, NEW e
  PROVE  Heaps!NextEntry(e) = IF e \in Heaps!Unlinked("next") THEN 0 ELSE NextIn(Heaps!ListWith(e), e)
BY UnlinkedEntries, SameLists DEF Heaps!NextEntry, Heaps!Read

(* What !heap says of a pool: its first entry and the length of its chain.   *)
TrueLines ==
  {line \in [index : Int, entry : Nat, count : Nat] :
     line.entry \in Entries /\ line.count = Len(Heaps!ChainFrom(line.entry))}

(* Where the loop that counts a pool is.                                     *)
Counting(head, n, cur) ==
  /\ head \in Entries \cup {0} /\ n \in 0..Len(Heaps!ChainFrom(head))
  /\ cur = IF n = Len(Heaps!ChainFrom(head)) THEN 0 ELSE Heaps!ChainFrom(head)[n + 1]

HeadOf(i) == IF i <= Len(heap.pool) THEN heap.pool[i] ELSE 0

CountsRight ==
  /\ heap.pool \in Seq(Nat) /\ \A i \in DOMAIN heap.pool : heap.pool[i] \in Entries \cup {0}
  /\ pools \in Seq(TrueLines)
  /\ heap_pc = "pool" => row \in Nat \ {0} /\ Counting(HeadOf(row), count, heap_cursor)
  /\ heap_listing = Blank \/ heap_listing.pools \in Seq(TrueLines)

ListRight ==
  /\ page_list = [asked |-> page_list.asked, lines |-> page_list.lines]
  /\ page_list.asked \in Entries \cup {0}
  /\ heap_pc = "entries" =>
       /\ page_list.lines = Blank
       /\ Progress(Heaps!ChainFrom(page_list.asked), Heaps!PoolAnswer, entries, heap_cursor)
  /\ heap_pc # "entries" => page_list.lines = Blank \/ page_list.lines = Heaps!PoolAnswer

HeapsInv == HeapTargetOK /\ CountsRight /\ ListRight

(* What the target holds is the same while the target is.                    *)
LEMMA HeapTargetStays ==
  ASSUME UNCHANGED Heaps!target
  PROVE  /\ Entries' = Entries /\ TrueLines' = TrueLines
         /\ \A e : Heaps!ChainFrom(e)' = Heaps!ChainFrom(e)
         /\ \A e : Heaps!EntryLine(e)' = Heaps!EntryLine(e)
         /\ \A head, n, cur : Counting(head, n, cur)' <=> Counting(head, n, cur)
         /\ HeapTargetOK => HeapTargetOK'
<1>. heap_memory' = heap_memory /\ heap_unreadable' = heap_unreadable
  BY DEF Heaps!target
<1>1. Entries' = Entries
  BY DEF Entries, Heaps!EntriesOf
<1>2. ASSUME NEW e PROVE Heaps!ListWith(e)' = Heaps!ListWith(e)
  BY DEF Heaps!ListWith
<1>3. ASSUME NEW m PROVE Heaps!Unlinked(m)' = Heaps!Unlinked(m)
  BY DEF Heaps!Unlinked
<1>4. ASSUME NEW e PROVE Heaps!ChainFrom(e)' = Heaps!ChainFrom(e)
  BY <1>2, <1>3 DEF Heaps!ChainFrom
<1>5. ASSUME NEW e PROVE Heaps!EntryLine(e)' = Heaps!EntryLine(e)
  <2>1. Heaps!Reserved(e)' = Heaps!Reserved(e) /\ Heaps!Writable(e)' = Heaps!Writable(e)
    BY DEF Heaps!Reserved, Heaps!Writable, Heaps!Data, Heaps!Base, Heaps!Read
  <2>. QED BY <2>1 DEF Heaps!EntryLine
<1>6. TrueLines' = TrueLines
  BY <1>1, <1>4 DEF TrueLines
<1>7. ASSUME NEW head, NEW n, NEW cur PROVE Counting(head, n, cur)' <=> Counting(head, n, cur)
  BY <1>1, <1>4 DEF Counting
<1>. QED BY <1>1, <1>4, <1>5, <1>6, <1>7 DEF HeapTargetOK

(* So is what !pool is to print, while its entry is.                         *)
LEMMA PoolAnswerStays ==
  ASSUME UNCHANGED Heaps!target, page_list'.asked = page_list.asked
  PROVE  Heaps!PoolAnswer' = Heaps!PoolAnswer
         /\ Heaps!ChainFrom(page_list.asked)' = Heaps!ChainFrom(page_list.asked)
<1>1. PICK e : e = page_list.asked
  OBVIOUS
<1>2. Heaps!ChainFrom(e)' = Heaps!ChainFrom(e)
  BY HeapTargetStays
<1>3. Heaps!ChainFrom(page_list.asked)' = Heaps!ChainFrom(page_list.asked)
  BY <1>1, <1>2
<1>4. \A f : Heaps!EntryLine(f)' = Heaps!EntryLine(f)
  BY HeapTargetStays
<1>. QED BY <1>3, <1>4 DEF Heaps!PoolAnswer

(* The lines of !pool, one of each entry of the chain.                       *)
LEMMA PoolLines ==
  ASSUME HeapsAssumed, HeapTargetOK, page_list.asked \in Entries \cup {0}
  PROVE  LET chain == Heaps!ChainFrom(page_list.asked) IN
         /\ Heaps!PoolAnswer \in Seq({Heaps!EntryLine(e) : e \in Nat}) /\ Len(Heaps!PoolAnswer) = Len(chain)
         /\ DOMAIN Heaps!PoolAnswer = DOMAIN chain
         /\ \A k \in DOMAIN chain : Heaps!PoolAnswer[k] = Heaps!EntryLine(chain[k])
<1>1. Heaps!ChainFrom(page_list.asked) \in Seq(Nat)
  BY EntryChain
<1>. QED BY <1>1 DEF Heaps!PoolAnswer

(* A loop over a pool begins to count, counts one more, ends.                *)
LEMMA CountBegins ==
  ASSUME HeapsAssumed, HeapTargetOK, NEW head \in Entries \cup {0}
  PROVE  Counting(head, 0, head)
BY EntryChain DEF Counting

(* A turn of the loop counts one entry.                                      *)
LEMMA CountTurn ==
  ASSUME HeapsAssumed, HeapTargetOK, NEW head, NEW n, NEW cur, cur # 0, Counting(head, n, cur)
  PROVE  Counting(head, n + 1, Heaps!NextEntry(cur))
<1> DEFINE chain == Heaps!ChainFrom(head)
<1>1. /\ chain \in Seq(Nat) /\ Follows(chain, Heaps!ListWith(head), Heaps!Unlinked("next"))
      /\ \A k \in DOMAIN chain : Heaps!ListWith(chain[k]) = Heaps!ListWith(head)
  BY EntryChain DEF Counting
<1>2. n + 1 \in DOMAIN chain /\ cur = chain[n + 1] /\ n + 1 \in 0..Len(chain)
  BY <1>1 DEF Counting
<1>3. Heaps!NextEntry(cur) = IF n + 1 = Len(chain) THEN 0 ELSE chain[n + 1 + 1]
  BY <1>1, <1>2, LinkOfEntry DEF Follows
<1>. QED BY <1>2, <1>3 DEF Counting

(* When its cursor is null the loop has counted the whole chain.             *)
LEMMA CountEnds ==
  ASSUME HeapsAssumed, HeapTargetOK, NEW head, NEW n, Counting(head, n, 0)
  PROVE  n = Len(Heaps!ChainFrom(head)) /\ n \in Nat
<1> DEFINE chain == Heaps!ChainFrom(head)
<1>1. chain \in Seq(Nat) /\ \A k \in DOMAIN chain : chain[k] # 0
  BY EntryChain DEF Counting
<1>. QED BY <1>1 DEF Counting

(* What ThreadHeap::load finds of the pools.                                 *)
LEMMA LoadedPools ==
  ASSUME HeapsAssumed, HeapTargetOK, NEW h
  PROVE  /\ Heaps!Loaded(h).pool \in Seq(Nat)
         /\ \A i \in DOMAIN Heaps!Loaded(h).pool : Heaps!Loaded(h).pool[i] \in Entries \cup {0}
<1>1. CASE h = 0
  BY <1>1 DEF Heaps!Loaded, Heaps!NoHeap
<1>2. CASE h # 0
  <2>1. Heaps!Loaded(h).pool = Heaps!PoolHeads(h)
    BY <1>2 DEF Heaps!Loaded
  <2>2. heap_memory.arenas \in Seq(Nat \ {0}) /\ DOMAIN heap_memory.pool = DOMAIN heap_memory.arenas
    BY PoolFacts DEF HeapsAssumed, HeapTargetOK, Heaps!MemoriesAssumption
  <2>3. DOMAIN heap_memory.arenas = 1..Len(heap_memory.arenas) /\ Len(heap_memory.arenas) \in Nat
    BY <2>2
  <2>4. \A i \in DOMAIN heap_memory.arenas : Heaps!First(heap_memory.pool[i]) \in Entries \cup {0}
    <3>. SUFFICES ASSUME NEW i \in DOMAIN heap_memory.arenas, heap_memory.pool[i] # <<>>
         PROVE  heap_memory.pool[i][1] \in Entries
      BY DEF Heaps!First
    <3>1. i \in DOMAIN heap_memory.pool /\ heap_memory.pool[i] \in Seq(Nat \ {0})
      BY <2>2, PoolFacts
    <3>2. 1 \in DOMAIN heap_memory.pool[i]
      BY <3>1
    <3>. QED BY <3>1, <3>2 DEF Entries, Heaps!EntriesOf
  <2>5. \A i \in DOMAIN heap_memory.arenas : Heaps!PoolHeads(h)[i] \in Entries \cup {0}
    BY <2>4 DEF Heaps!PoolHeads, Heaps!Read
  <2>6. Entries \cup {0} \subseteq Nat
    BY PoolFacts DEF Entries, Heaps!EntriesOf
  <2>7. Heaps!PoolHeads(h) = [i \in 1..Len(heap_memory.arenas) |-> Heaps!PoolHeads(h)[i]]
    BY <2>3 DEF Heaps!PoolHeads
  <2>8. DOMAIN Heaps!PoolHeads(h) = DOMAIN heap_memory.arenas
    BY DEF Heaps!PoolHeads
  <2>9. Heaps!PoolHeads(h) \in Seq(Nat)
    BY <2>3, <2>5, <2>6, <2>7
  <2>. QED BY <2>1, <2>5, <2>8, <2>9
<1>. QED BY <1>1, <1>2

(* The heap in hand has entries for its pools, the loop turns to one.        *)
LEMMA ToPoolRight ==
  ASSUME HeapsAssumed, HeapTargetOK, CountsRight, NEW i \in Nat \ {0}
  PROVE  Counting(HeadOf(i), 0, HeadOf(i))
<1>1. HeadOf(i) \in Entries \cup {0}
  BY DEF HeadOf, CountsRight
<1>. QED BY <1>1, CountBegins

(* Every step keeps what !heap says of the pools right.                      *)
LEMMA CountsStep ==
  ASSUME HeapsAssumed, HeapsInv, [Heaps!Next]_(Heaps!vars)
  PROVE  CountsRight'
<1>. HeapTargetOK /\ CountsRight
  BY DEF HeapsInv
<1>. UNCHANGED Heaps!target
  BY DEF Heaps!Next, Heaps!vars, Heaps!Run, Heaps!Heap, Heaps!DumpArena, Heaps!ArenasDone, Heaps!CountEntry, Heaps!DumpPool,
         Heaps!DumpTree, Heaps!DumpSubtree, Heaps!ReturnFromSubtree, Heaps!PrintHeap, Heaps!Pool, Heaps!DumpEntry, Heaps!PrintPool
<1>1. TrueLines' = TrueLines /\ (Entries \cup {0})' = Entries \cup {0}
  BY HeapTargetStays
<1>2. ASSUME NEW h, Heaps!Heap(h) PROVE CountsRight'
  <2>1. heap' = Heaps!Loaded(h) /\ heap_pc' = "arenas" /\ pools' = <<>> /\ heap_listing' = Blank
    BY <1>2 DEF Heaps!Heap
  <2>2. /\ heap'.pool \in Seq(Nat) /\ \A i \in DOMAIN heap'.pool : heap'.pool[i] \in Entries \cup {0}
    BY <2>1, LoadedPools
  <2>3. pools' \in Seq(TrueLines)
    BY <2>1
  <2>. QED BY <1>1, <2>1, <2>2, <2>3 DEF CountsRight
<1>3. ASSUME UNCHANGED <<heap, pools, heap_listing>>, heap_pc' # "pool" PROVE CountsRight'
  BY <1>1, <1>3 DEF CountsRight
<1>4. ASSUME UNCHANGED heap, NEW i \in Nat \ {0}, Heaps!ToPool(i), UNCHANGED heap_listing, pools' \in Seq(TrueLines)
      PROVE  CountsRight'
  <2>1. PICK head : head = HeadOf(i)
    OBVIOUS
  <2>2. Counting(head, 0, head)'
    BY <2>1, ToPoolRight, HeapTargetStays
  <2>3. row' = i /\ heap_cursor' = head /\ count' = 0 /\ HeadOf(row)' = head
    BY <1>4, <2>1 DEF Heaps!ToPool, HeadOf
  <2>4. Counting(HeadOf(row), count, heap_cursor)'
    BY <2>2, <2>3
  <2>. QED BY <1>1, <1>4, <2>3, <2>4 DEF CountsRight
<1>5. CASE Heaps!ArenasDone
  <2>1. Heaps!ToPool(1) /\ UNCHANGED heap /\ UNCHANGED heap_listing /\ pools' = pools
    BY <1>5 DEF Heaps!ArenasDone, Heaps!output
  <2>. QED BY <1>4, <2>1 DEF CountsRight
<1>6. CASE Heaps!CountEntry
  <2>1. PICK head, n, cur : head = HeadOf(row) /\ n = count + 1 /\ cur = Heaps!NextEntry(heap_cursor)
    OBVIOUS
  <2>2. heap_pc = "pool" /\ heap_cursor # 0 /\ count' = n /\ heap_cursor' = cur /\ HeadOf(row)' = head
    BY <1>6, <2>1 DEF Heaps!CountEntry, HeadOf
  <2>3. Counting(head, n, cur)'
    BY <2>1, <2>2, CountTurn, HeapTargetStays DEF CountsRight
  <2>4. Counting(HeadOf(row), count, heap_cursor)'
    BY <2>2, <2>3
  <2>5. UNCHANGED <<heap, pools, heap_listing, row>>
    BY <1>6 DEF Heaps!CountEntry, Heaps!output
  <2>. QED BY <1>1, <2>2, <2>4, <2>5 DEF CountsRight
<1>7. CASE Heaps!DumpPool
  <2>1. /\ heap_pc = "pool" /\ heap_cursor = 0 /\ row <= Len(heap.pool) /\ row \in Nat \ {0}
        /\ Heaps!ToPool(row + 1) /\ UNCHANGED heap /\ UNCHANGED heap_listing
        /\ pools' = IF heap.pool[row] # 0 THEN Append(pools, Heaps!PoolLine(row)) ELSE pools
    BY <1>7 DEF Heaps!DumpPool, CountsRight
  <2>2. HeadOf(row) = heap.pool[row] /\ heap.pool[row] \in Entries \cup {0} /\ heap.pool[row] \in Nat
    BY <2>1 DEF CountsRight, HeadOf
  <2>3. count = Len(Heaps!ChainFrom(heap.pool[row])) /\ count \in Nat
    BY <2>1, <2>2, CountEnds DEF CountsRight
  <2>4. heap.pool[row] # 0 => Heaps!PoolLine(row) \in TrueLines
    BY <2>1, <2>2, <2>3 DEF TrueLines, Heaps!PoolLine
  <2>5. pools' \in Seq(TrueLines)
    BY <2>1, <2>4 DEF CountsRight
  <2>6. row + 1 \in Nat \ {0}
    BY <2>1
  <2>. QED BY <1>4, <2>1, <2>5, <2>6
<1>8. CASE Heaps!PrintHeap
  <2>1. heap_pc' = "idle" /\ heap_listing'.pools = pools /\ UNCHANGED heap /\ pools' = pools
    BY <1>8 DEF Heaps!PrintHeap, Heaps!output
  <2>. QED BY <1>1, <2>1 DEF CountsRight
<1>9. CASE UNCHANGED Heaps!vars
  <2>1. UNCHANGED <<heap, pools, heap_listing, row, count, heap_cursor>> /\ heap_pc' = heap_pc
    BY <1>9 DEF Heaps!vars, Heaps!output
  <2>2. PICK head, n, cur : head = HeadOf(row) /\ n = count /\ cur = heap_cursor
    OBVIOUS
  <2>3. Counting(head, n, cur)' <=> Counting(head, n, cur)
    BY HeapTargetStays
  <2>4. HeadOf(row)' = head
    BY <2>1, <2>2 DEF HeadOf
  <2>5. Counting(HeadOf(row), count, heap_cursor) => Counting(HeadOf(row), count, heap_cursor)'
    BY <2>1, <2>2, <2>3, <2>4
  <2>. QED BY <1>1, <2>1, <2>5 DEF CountsRight
<1>10. CASE Heaps!DumpArena \/ Heaps!DumpTree \/ Heaps!DumpSubtree \/ Heaps!ReturnFromSubtree
  BY <1>3, <1>10 DEF Heaps!DumpArena, Heaps!DumpTree, Heaps!DumpSubtree, Heaps!ReturnFromSubtree, Heaps!output
<1>11. CASE Heaps!DumpEntry \/ Heaps!PrintPool
  BY <1>3, <1>11 DEF Heaps!DumpEntry, Heaps!PrintPool, Heaps!output
<1>12. ASSUME NEW e, Heaps!Pool(e) PROVE CountsRight'
  BY <1>3, <1>12 DEF Heaps!Pool
<1>. QED
  BY <1>2, <1>5, <1>6, <1>7, <1>8, <1>9, <1>10, <1>11, <1>12 DEF Heaps!Next, Heaps!Run

(* Every step keeps what !pool says right, and prints all of it or nothing.  *)
LEMMA ListStep ==
  ASSUME HeapsAssumed, HeapsInv, [Heaps!Next]_(Heaps!vars)
  PROVE  ListRight' /\ HeapTargetOK'
         /\ [Heaps!PoolConsole!Ask \/ Heaps!PoolConsole!Show]_(Heaps!PoolConsole!console)
<1>. HeapTargetOK /\ ListRight
  BY DEF HeapsInv
<1>. UNCHANGED Heaps!target
  BY DEF Heaps!Next, Heaps!vars, Heaps!Run, Heaps!Heap, Heaps!DumpArena, Heaps!ArenasDone, Heaps!CountEntry, Heaps!DumpPool,
         Heaps!DumpTree, Heaps!DumpSubtree, Heaps!ReturnFromSubtree, Heaps!PrintHeap, Heaps!Pool, Heaps!DumpEntry, Heaps!PrintPool
<1>1. HeapTargetOK'
  BY HeapTargetStays
<1> DEFINE Right == ListRight' /\ [Heaps!PoolConsole!Ask \/ Heaps!PoolConsole!Show]_(Heaps!PoolConsole!console)
<1>2. (Entries \cup {0})' = Entries \cup {0}
  BY HeapTargetStays
<1>3. ASSUME UNCHANGED page_list, heap_pc # "entries", heap_pc' # "entries" PROVE Right
  <2>1. Heaps!PoolAnswer' = Heaps!PoolAnswer
    BY <1>3, PoolAnswerStays
  <2>2. ListRight'
    BY <1>2, <1>3, <2>1 DEF ListRight
  <2>3. (heap_pc = "entries")' = (heap_pc = "entries")
    BY <1>3
  <2>4. UNCHANGED Heaps!PoolConsole!console
    BY <1>3, <2>1, <2>3 DEF Heaps!PoolConsole!console
  <2>. QED BY <2>2, <2>4
<1>4. ASSUME NEW e \in {0} \cup Entries, Heaps!Pool(e) PROVE Right
  <2>1. /\ page_list' = [asked |-> e, lines |-> Blank] /\ heap_pc' = "entries" /\ heap_pc = "idle"
        /\ heap_cursor' = e /\ entries' = <<>>
    BY <1>4 DEF Heaps!Pool
  <2>2. Heaps!ChainFrom(e)' = Heaps!ChainFrom(e)
    BY HeapTargetStays
  <2>3. PICK lines : lines = Heaps!PoolAnswer'
    OBVIOUS
  <2>4. Progress(Heaps!ChainFrom(e), lines, <<>>, e)
    BY EntryChain, ProgressStarts
  <2>5. Progress(Heaps!ChainFrom(page_list.asked), Heaps!PoolAnswer, entries, heap_cursor)'
    BY <2>1, <2>2, <2>3, <2>4 DEF Progress
  <2>6. page_list'.lines = Blank /\ page_list'.asked = e
    BY <2>1
  <2>7. ListRight'
    BY <1>2, <2>1, <2>5, <2>6 DEF ListRight
  <2>8. Heaps!PoolConsole!Ask
    BY <2>1, <2>6 DEF Heaps!PoolConsole!Ask
  <2>. QED BY <2>7, <2>8
<1>5. ASSUME Heaps!DumpEntry PROVE Right
  <2>1. /\ heap_pc = "entries" /\ heap_cursor # 0 /\ heap_pc' = "entries" /\ page_list' = page_list
        /\ entries' = Append(entries, Heaps!EntryLine(heap_cursor)) /\ heap_cursor' = Heaps!NextEntry(heap_cursor)
    BY <1>5 DEF Heaps!DumpEntry
  <2> DEFINE chain == Heaps!ChainFrom(page_list.asked)
             lines == Heaps!PoolAnswer
             list == Heaps!ListWith(page_list.asked)
             stops == Heaps!Unlinked("next")
  <2>2. Progress(chain, lines, entries, heap_cursor)
    BY <2>1 DEF ListRight
  <2>3. chain \in Seq(Nat) /\ Follows(chain, list, stops) /\ \A k \in DOMAIN chain : Heaps!ListWith(chain[k]) = list
    BY EntryChain DEF ListRight
  <2>4. /\ lines \in Seq({Heaps!EntryLine(e) : e \in Nat}) /\ Len(lines) = Len(chain)
        /\ \A k \in DOMAIN chain : lines[k] = Heaps!EntryLine(chain[k])
    BY PoolLines DEF ListRight
  <2>5. PICK k \in DOMAIN chain :
          /\ heap_cursor = chain[k]
          /\ Progress(chain, lines, Append(entries, lines[k]), IF heap_cursor \in stops THEN 0 ELSE NextIn(list, heap_cursor))
    <3>. HIDE DEF chain, lines, list, stops
    <3>1. heap_cursor # 0 /\ chain \in Seq(Nat) /\ Follows(chain, list, stops)
      BY <2>1, <2>3
    <3>2. /\ lines \in Seq({Heaps!EntryLine(e) : e \in Nat}) /\ Len(lines) = Len(chain)
      BY <2>4
    <3>. QED BY <2>2, <3>1, <3>2, ProgressGoesOn
  <2>6. entries' = Append(entries, lines[k])
    BY <2>1, <2>4, <2>5
  <2>7. heap_cursor' = IF heap_cursor \in stops THEN 0 ELSE NextIn(list, heap_cursor)
    BY <2>1, <2>3, <2>5, LinkOfEntry
  <2>8. lines' = lines /\ chain' = chain
    BY <2>1, PoolAnswerStays
  <2>9. Progress(Heaps!ChainFrom(page_list.asked), Heaps!PoolAnswer, entries, heap_cursor)'
    BY <2>5, <2>6, <2>7, <2>8 DEF Progress
  <2>10. ListRight'
    BY <1>2, <2>1, <2>9 DEF ListRight
  <2>11. UNCHANGED Heaps!PoolConsole!console
    BY <2>1, <2>8 DEF Heaps!PoolConsole!console
  <2>. QED BY <2>10, <2>11
<1>6. ASSUME Heaps!PrintPool PROVE Right
  <2>1. heap_pc = "entries" /\ heap_cursor = 0 /\ heap_pc' = "idle" /\ page_list' = [page_list EXCEPT !.lines = entries]
    BY <1>6 DEF Heaps!PrintPool
  <2>2. page_list' = [asked |-> page_list.asked, lines |-> entries]
    BY <2>1 DEF ListRight
  <2>3. entries = Heaps!PoolAnswer
    <3>1. /\ Heaps!PoolAnswer \in Seq({Heaps!EntryLine(e) : e \in Nat})
          /\ Len(Heaps!PoolAnswer) = Len(Heaps!ChainFrom(page_list.asked))
      BY PoolLines DEF ListRight
    <3>2. /\ Heaps!ChainFrom(page_list.asked) \in Seq(Nat)
          /\ \A k \in DOMAIN Heaps!ChainFrom(page_list.asked) : Heaps!ChainFrom(page_list.asked)[k] # 0
      BY EntryChain DEF ListRight
    <3>3. Progress(Heaps!ChainFrom(page_list.asked), Heaps!PoolAnswer, entries, 0)
      BY <2>1 DEF ListRight
    <3>. QED BY <3>1, <3>2, <3>3, ProgressEnds
  <2>4. page_list'.asked = page_list.asked /\ page_list'.lines = entries
    BY <2>2
  <2>5. Heaps!PoolAnswer' = Heaps!PoolAnswer
    BY <2>4, PoolAnswerStays
  <2>6. ListRight'
    BY <1>2, <2>1, <2>2, <2>3, <2>4, <2>5 DEF ListRight
  <2>7. Heaps!PoolConsole!Show
    BY <2>1, <2>3, <2>4, <2>5 DEF Heaps!PoolConsole!Show
  <2>. QED BY <2>6, <2>7
<1>7. ASSUME UNCHANGED Heaps!vars PROVE Right
  <2>1. UNCHANGED <<entries, heap_cursor>> /\ heap_pc' = heap_pc /\ page_list' = page_list
    BY <1>7 DEF Heaps!vars, Heaps!output
  <2>2. /\ Heaps!PoolAnswer' = Heaps!PoolAnswer
        /\ Heaps!ChainFrom(page_list.asked)' = Heaps!ChainFrom(page_list.asked)
    BY <2>1, PoolAnswerStays
  <2>3. ListRight'
    BY <1>2, <2>1, <2>2 DEF ListRight, Progress
  <2>4. UNCHANGED Heaps!PoolConsole!console
    BY <2>1, <2>2 DEF Heaps!PoolConsole!console
  <2>. QED BY <2>3, <2>4
<1>8. ASSUME NEW h, Heaps!Heap(h) PROVE Right
  BY <1>3, <1>8 DEF Heaps!Heap
<1>9. ASSUME Heaps!DumpArena \/ Heaps!ArenasDone \/ Heaps!CountEntry \/ Heaps!DumpPool PROVE Right
  BY <1>3, <1>9 DEF Heaps!DumpArena, Heaps!ArenasDone, Heaps!CountEntry, Heaps!DumpPool
<1>10. ASSUME Heaps!DumpTree \/ Heaps!DumpSubtree \/ Heaps!ReturnFromSubtree \/ Heaps!PrintHeap PROVE Right
  BY <1>3, <1>10 DEF Heaps!DumpTree, Heaps!DumpSubtree, Heaps!ReturnFromSubtree, Heaps!PrintHeap
<1>11. Right
  BY <1>4, <1>5, <1>6, <1>7, <1>8, <1>9, <1>10 DEF Heaps!Next, Heaps!Run, Entries
<1>. QED BY <1>1, <1>11

(* !heap and !pool say of a pool what its chain of free pages is, in every   *)
(* state; and !pool shows its lines in one step.                             *)
THEOREM HeapsInvariant == ASSUME HeapsAssumed PROVE Heaps!Spec => []HeapsInv /\ Heaps!PoolConsole!Steps
<1>1. Heaps!Init => HeapsInv /\ Heaps!PoolConsole!Init
  <2>. SUFFICES ASSUME Heaps!Init PROVE HeapsInv /\ Heaps!PoolConsole!Init
    OBVIOUS
  <2>1. /\ HeapTargetOK /\ heap = Heaps!NoHeap /\ pools = <<>> /\ heap_pc = "idle" /\ heap_listing = Blank
        /\ page_list = [asked |-> 0, lines |-> Blank]
    BY DEF Heaps!Init, HeapTargetOK
  <2>2. heap.pool = <<>> /\ <<>> \in Seq(Nat) /\ <<>> \in Seq(TrueLines) /\ DOMAIN <<>> = {}
    BY <2>1 DEF Heaps!NoHeap
  <2>3. CountsRight
    BY <2>1, <2>2 DEF CountsRight
  <2>4. ListRight
    BY <2>1 DEF ListRight
  <2>5. Heaps!PoolConsole!Init
    BY <2>1 DEF Heaps!PoolConsole!Init
  <2>. QED BY <2>1, <2>3, <2>4, <2>5 DEF HeapsInv
<1>2. HeapsInv /\ [Heaps!Next]_(Heaps!vars) =>
        HeapsInv' /\ [Heaps!PoolConsole!Ask \/ Heaps!PoolConsole!Show]_(Heaps!PoolConsole!console)
  BY CountsStep, ListStep DEF HeapsInv
<1>. QED BY <1>1, <1>2, PTL DEF Heaps!Spec, Heaps!PoolConsole!Steps

(* The number !heap prints behind a pool entry is the number of lines !pool  *)
(* prints of it: PoolAgrees of the two loops of PagePool.                    *)
THEOREM PoolsAgree == ASSUME HeapsAssumed PROVE Heaps!Spec => []Heaps!PoolAgrees
<1>1. HeapsInv => Heaps!PoolAgrees
  <2>. SUFFICES ASSUME HeapsInv, heap_listing # Blank, page_list.lines # Blank,
                       NEW i \in DOMAIN heap_listing.pools, heap_listing.pools[i].entry = page_list.asked
       PROVE  heap_listing.pools[i].count = Len(page_list.lines)
    BY DEF Heaps!PoolAgrees
  <2>1. heap_listing.pools \in Seq(TrueLines)
    BY DEF HeapsInv, CountsRight
  <2>2. heap_listing.pools[i] \in TrueLines
    BY <2>1
  <2>3. heap_listing.pools[i].count = Len(Heaps!ChainFrom(page_list.asked))
    BY <2>2 DEF TrueLines
  <2>4. page_list.lines = Heaps!PoolAnswer /\ page_list.asked \in Entries \cup {0}
    BY DEF HeapsInv, ListRight
  <2>. QED BY <2>3, <2>4, PoolLines DEF HeapsInv
<1>. QED BY <1>1, HeapsInvariant, PTL

(* Division, with a divisor that is not a numeral.                           *)
LEMMA Divided ==
  ASSUME NEW a \in Int, NEW n \in Int, n > 0
  PROVE  a = n * (a \div n) + (a % n) /\ a \div n \in Int /\ a % n \in 0..(n - 1)
<1>1. a = n * (a \div n) + (a % n)
  BY Z3
<1>. QED BY <1>1

(* Two indexes of one region that differ do so when cut to 32 bits as well.  *)
LEMMA SameIndex ==
  ASSUME NEW size \in Nat \ {0}, NEW from \in Nat, NEW k \in 0..(size - 1), NEW l \in 0..(size - 1),
         (from + k) % size = (from + l) % size
  PROVE  k = l
<1>1. size \in Int /\ size > 0 /\ from + k \in Int /\ from + l \in Int /\ k \in Int /\ l \in Int
  OBVIOUS
<1>2. PICK p \in Int, q \in Int, r \in Int : from + k = size * p + r /\ from + l = size * q + r
  <2>1. ASSUME NEW a \in Int, NEW n \in Int, n > 0
        PROVE  a = n * (a \div n) + (a % n) /\ a \div n \in Int /\ a % n \in Int
    BY <2>1, Divided
  <2>2. /\ from + k = size * ((from + k) \div size) + ((from + k) % size)
        /\ (from + k) \div size \in Int /\ (from + k) % size \in Int
    BY <1>1, <2>1
  <2>3. /\ from + l = size * ((from + l) \div size) + ((from + l) % size)
        /\ (from + l) \div size \in Int /\ (from + l) % size \in Int
    BY <1>1, <2>1
  <2>. QED BY <2>2, <2>3, Zenon
<1>3. k - l = size * p - size * q
  <2>1. PICK a \in Int, b \in Int : a = size * p /\ b = size * q
    BY <1>1
  <2>. QED BY <1>1, <1>2, <2>1
<1>4. k - l < size /\ k - l > -size
  BY <1>1
<1>5. size * p - size * q = size * (p - q) /\ p - q \in Int
  BY <1>1, Z3
<1>6. ASSUME p - q >= 1 PROVE FALSE
  <2>1. size * (p - q) >= size
    BY <1>1, <1>5, <1>6, Z3
  <2>. QED BY <1>1, <1>3, <1>4, <1>5, <2>1
<1>7. ASSUME p - q <= -1 PROVE FALSE
  <2>1. size * (p - q) <= -size
    BY <1>1, <1>5, <1>7, Z3
  <2>. QED BY <1>1, <1>3, <1>4, <1>5, <2>1
<1>8. p - q = 0
  BY <1>5, <1>6, <1>7
<1>9. size * (p - q) = 0
  BY <1>1, <1>8
<1>. QED BY <1>1, <1>3, <1>5, <1>9

(* Where a free page lies, and what its index is: that in its region, or, of *)
(* no region, that of the page in memory, cut to 32 bits.                    *)
LEMMA PlaceOfEntry ==
  ASSUME HeapsAssumed, HeapTargetOK, NEW e \in Entries
  PROVE  LET region == heap_memory.reserved[e]
             base == heap_memory.base[region]
             at == heap_memory.writable[e]
         IN  /\ region \in Heaps!RegionsOf(heap_memory)
             /\ \E k \in 0..(IndexSize - 1), from \in Nat :
                  /\ base = from * kBlinkPageSize /\ at = base + k * kBlinkPageSize + kBlinkGuardPageSize
                  /\ Heaps!Index(at, base) = k /\ Heaps!Index(at, 0) = (from + k) % IndexSize
<1> DEFINE region == heap_memory.reserved[e]
           base == heap_memory.base[region]
           at == heap_memory.writable[e]
<1>1. /\ region \in Heaps!RegionsOf(heap_memory) /\ heap_memory.base \in [Heaps!RegionsOf(heap_memory) -> Nat]
      /\ \A r \in Heaps!RegionsOf(heap_memory) : heap_memory.base[r] % Heaps!kBlinkPageSize = 0
      /\ at \in Nat /\ at < SizeT /\ at % Heaps!kBlinkPageSize = Heaps!kBlinkGuardPageSize
      /\ at - base \in 0..(IndexSize * Heaps!kBlinkPageSize - 1)
  BY DEF HeapsAssumed, HeapTargetOK, Heaps!MemoriesAssumption, Entries
<1>2. base \in Nat /\ base % 131072 = 0 /\ at % 131072 = 4096 /\ at - base \in 0..(IndexSize * 131072 - 1)
  BY <1>1 DEF Heaps!kBlinkPageSize, Heaps!kBlinkGuardPageSize
<1>3. Word \in Nat \ {0} /\ IndexSize \in Nat \ {0} /\ SizeT <= Word /\ SizeT \in Nat
  BY SizeTAssumption DEF HeapsAssumed, Heaps!WordAssumption
<1>. HIDE DEF base, at
<1>4. PICK from \in Nat : base = from * 131072
  <2>1. base \div 131072 \in Nat /\ base = (base \div 131072) * 131072
    BY <1>2, SMT
  <2>. QED BY <2>1
<1>5. PICK page \in Nat : at = page * 131072 + 4096
  <2>1. at \div 131072 \in Nat /\ at = (at \div 131072) * 131072 + 4096
    BY <1>1, <1>2, SMT
  <2>. QED BY <2>1
<1>6. PICK k \in 0..(IndexSize - 1) : page = from + k
  <2>1. page - from \in 0..(IndexSize - 1)
    BY <1>2, <1>3, <1>4, <1>5, SMT
  <2>2. page = from + (page - from)
    BY SMT
  <2>. QED BY <2>1, <2>2
<1>7. at = base + k * 131072 + 4096
  BY <1>4, <1>5, <1>6, SMT
<1>8. Heaps!PageBase(at) = page * 131072
  <2>1. at % SizeT = at
    BY <1>1, <1>3, <1>5, SMT
  <2>. QED BY <1>2, <1>5, <2>1, SMT DEF Heaps!PageBase, Heaps!kBlinkPageSize
<1>9. Heaps!Index(at, base) = k
  <2>1. Heaps!PageBase(at) - base = k * 131072
    BY <1>4, <1>6, <1>8, SMT
  <2>2. (k * 131072) % Word = k * 131072
    BY <1>1, <1>3, <1>4, <1>5, <1>6, SMT
  <2>3. (k * 131072) \div 131072 = k /\ k % IndexSize = k
    BY <1>3, SMT
  <2>. QED BY <2>1, <2>2, <2>3 DEF Heaps!Index, Heaps!kBlinkPageSize
<1>10. Heaps!Index(at, 0) = (from + k) % IndexSize
  <2>1. Heaps!PageBase(at) - 0 = page * 131072 /\ page * 131072 \in Nat /\ page * 131072 < Word
    BY <1>1, <1>3, <1>5, <1>8, SMT
  <2>2. (page * 131072) % Word = page * 131072
    BY <1>3, <2>1, SMT
  <2>3. (page * 131072) \div 131072 = page
    BY SMT
  <2>. QED BY <1>6, <2>1, <2>2, <2>3 DEF Heaps!Index, Heaps!kBlinkPageSize
<1>. QED
  BY <1>1, <1>4, <1>7, <1>9, <1>10 DEF base, at, kBlinkPageSize, kBlinkGuardPageSize

(* What a line of !pool can show of a page's region and address.             *)
LEMMA LineOfEntry ==
  ASSUME NEW e
  PROVE  LET line == Heaps!EntryLine(e) IN
         /\ line.entry = e /\ line.index = Heaps!Index(line.writable, line.reserved)
         /\ line.reserved \in {0, heap_memory.base[heap_memory.reserved[e]]}
         /\ line.writable \in {0, heap_memory.writable[e]}
BY DEF Heaps!EntryLine, Heaps!Reserved, Heaps!Writable, Heaps!Base, Heaps!Read

(* A free page is where !pool says, and no two in one place: PagesPlaced of  *)
(* MemoryRegion::Index, for every width of its integers.                     *)
THEOREM PagesArePlaced == ASSUME HeapsAssumed PROVE Heaps!Spec => []Heaps!PagesPlaced
<1>1. HeapsInv => Heaps!PagesPlaced
  <2>. SUFFICES ASSUME HeapsInv, page_list.lines # Blank,
                       NEW i \in DOMAIN page_list.lines, NEW j \in DOMAIN page_list.lines
       PROVE  /\ Heaps!PageInRegion(page_list.lines[i])
              /\ i # j => Heaps!OwnPlace(page_list.lines[i], page_list.lines[j])
    BY DEF Heaps!PagesPlaced
  <2>. HeapTargetOK
    BY DEF HeapsInv
  <2> DEFINE chain == Heaps!ChainFrom(page_list.asked)
  <2>1. page_list.lines = Heaps!PoolAnswer /\ page_list.asked \in Entries \cup {0}
    BY DEF HeapsInv, ListRight
  <2>2. i \in DOMAIN chain /\ j \in DOMAIN chain
        /\ page_list.lines[i] = Heaps!EntryLine(chain[i]) /\ page_list.lines[j] = Heaps!EntryLine(chain[j])
    BY <2>1, PoolLines
  <2>3. chain[i] \in Entries /\ chain[j] \in Entries /\ (i # j => chain[i] # chain[j])
    BY <2>1, <2>2, EntryChain DEF Distinct
  <2>4. PICK e \in Entries, f \in Entries :
          page_list.lines[i] = Heaps!EntryLine(e) /\ page_list.lines[j] = Heaps!EntryLine(f) /\ (i # j => e # f)
    BY <2>2, <2>3
  <2> DEFINE line == Heaps!EntryLine(e)
             other == Heaps!EntryLine(f)
  <2>5. /\ line.entry = e /\ line.index = Heaps!Index(line.writable, line.reserved)
        /\ line.reserved \in {0, heap_memory.base[heap_memory.reserved[e]]}
        /\ line.writable \in {0, heap_memory.writable[e]}
    BY LineOfEntry
  <2>6. /\ other.entry = f /\ other.index = Heaps!Index(other.writable, other.reserved)
        /\ other.reserved \in {0, heap_memory.base[heap_memory.reserved[f]]}
        /\ other.writable \in {0, heap_memory.writable[f]}
    BY LineOfEntry
  <2>. HIDE DEF line, other
  <2>7. PICK k \in 0..(IndexSize - 1), from \in Nat :
          /\ heap_memory.base[heap_memory.reserved[e]] = from * kBlinkPageSize
          /\ heap_memory.writable[e] = heap_memory.base[heap_memory.reserved[e]] + k * kBlinkPageSize + kBlinkGuardPageSize
          /\ Heaps!Index(heap_memory.writable[e], heap_memory.base[heap_memory.reserved[e]]) = k
          /\ Heaps!Index(heap_memory.writable[e], 0) = (from + k) % IndexSize
    BY PlaceOfEntry
  <2>8. PICK l \in 0..(IndexSize - 1), at \in Nat :
          /\ heap_memory.base[heap_memory.reserved[f]] = at * kBlinkPageSize
          /\ heap_memory.writable[f] = heap_memory.base[heap_memory.reserved[f]] + l * kBlinkPageSize + kBlinkGuardPageSize
          /\ Heaps!Index(heap_memory.writable[f], heap_memory.base[heap_memory.reserved[f]]) = l
          /\ Heaps!Index(heap_memory.writable[f], 0) = (at + l) % IndexSize
    BY PlaceOfEntry
  <2>9. Heaps!PageInRegion(line)
    <3>. SUFFICES ASSUME line.reserved # 0, line.writable # 0
         PROVE  line.writable = line.reserved + line.index * kBlinkPageSize + kBlinkGuardPageSize
      BY DEF Heaps!PageInRegion, Heaps!kBlinkPageSize, Heaps!kBlinkGuardPageSize, kBlinkPageSize, kBlinkGuardPageSize
    <3>. QED BY <2>5, <2>7
  <2>10. ASSUME e # f PROVE Heaps!OwnPlace(line, other)
    <3>. SUFFICES ASSUME line.index = other.index, line.reserved = other.reserved,
                         line.reserved # 0 \/ heap_memory.reserved[e] = heap_memory.reserved[f],
                         line.writable # 0, other.writable # 0
         PROVE  FALSE
      BY <2>5, <2>6 DEF Heaps!OwnPlace
    <3>1. line.writable = heap_memory.writable[e] /\ other.writable = heap_memory.writable[f]
      BY <2>5, <2>6
    <3>2. heap_memory.writable[e] # heap_memory.writable[f]
      <4>1. \A g, h \in Entries : heap_memory.writable[g] = heap_memory.writable[h] => g = h
        BY DEF HeapsAssumed, HeapTargetOK, Heaps!MemoriesAssumption, Entries
      <4>. QED BY <2>10, <4>1
    <3>3. CASE line.reserved # 0
      <4>1. line.reserved = heap_memory.base[heap_memory.reserved[e]] /\ line.reserved = heap_memory.base[heap_memory.reserved[f]]
        BY <2>5, <2>6, <3>3
      <4>2. k = l
        BY <2>5, <2>6, <2>7, <2>8, <3>1, <4>1
      <4>. QED BY <2>7, <2>8, <3>2, <4>1, <4>2
    <3>4. CASE line.reserved = 0
      <4>1. heap_memory.reserved[e] = heap_memory.reserved[f]
        BY <3>4
      <4>2. from = at
        BY <2>7, <2>8, <4>1, SMT DEF kBlinkPageSize
      <4>3. (from + k) % IndexSize = (from + l) % IndexSize
        <5>1. line.index = (from + k) % IndexSize
          BY <2>5, <2>7, <3>1, <3>4
        <5>2. other.index = (from + l) % IndexSize
          BY <2>6, <2>8, <3>1, <3>4, <4>2
        <5>. QED BY <5>1, <5>2
      <4>4. IndexSize \in Nat \ {0}
        BY DEF HeapsAssumed, Heaps!WordAssumption
      <4>5. k = l
        BY <4>3, <4>4, SameIndex
      <4>. QED BY <2>7, <2>8, <3>2, <4>1, <4>5
    <3>. QED BY <3>3, <3>4
  <2>. QED BY <2>4, <2>9, <2>10 DEF line, other
<1>. QED BY <1>1, HeapsInvariant, PTL

------------------------------------------------------------------------------
(* What !heap shows.  A region as it is listed, and what is listed below it. *)
RegionLine(n) == [base |-> Heaps!RegionBase(n), depth |-> heap_memory.level[n]]

RegionLines == {RegionLine(n) : n \in heap_memory.nodes}

(* What the tree below n is to show, given what the trees below it show.     *)
Subtree(f, n) == IF n = 0 THEN <<>> ELSE <<RegionLine(n)>> \o f[Heaps!Left(n)] \o f[Heaps!Right(n)]

(* The region tree as it reads: finite, each node a level below its parent.  *)
LEMMA RegionFacts ==
  ASSUME HeapsAssumed, HeapTargetOK
  PROVE  /\ IsFiniteSet(heap_memory.nodes) /\ 0 \notin heap_memory.nodes
         /\ \A n \in heap_memory.nodes :
              /\ heap_memory.level[n] \in Nat
              /\ \A c \in {Heaps!Left(n), Heaps!Right(n)} :
                   c # 0 => c \in heap_memory.nodes /\ heap_memory.level[c] = heap_memory.level[n] + 1
         /\ heap_memory.root \in heap_memory.nodes /\ heap_memory.level[heap_memory.root] = 1
<1> DEFINE m == heap_memory
<1>1. /\ Heaps!IsFiniteSet(m.nodes) /\ m.level \in [m.nodes -> Nat]
      /\ 0 \notin m.nodes /\ m.root \in m.nodes /\ m.level[m.root] = 1
      /\ \A n \in m.nodes : /\ Heaps!Child(m, n) \subseteq m.nodes
                            /\ \A c \in Heaps!Child(m, n) : m.level[c] = m.level[n] + 1
  BY DEF HeapsAssumed, HeapTargetOK, Heaps!MemoriesAssumption
<1>2. IsFiniteSet(m.nodes)
  BY <1>1, Zenon DEF Heaps!IsFiniteSet, IsFiniteSet
<1>3. ASSUME NEW n \in m.nodes, NEW c \in {Heaps!Left(n), Heaps!Right(n)}, c # 0
      PROVE  c \in m.nodes /\ m.level[c] = m.level[n] + 1
  <2>1. c \in Heaps!Child(m, n)
    BY <1>3 DEF Heaps!Child, Heaps!Left, Heaps!Right, Heaps!Read
  <2>. QED BY <1>1, <2>1
<1>4. \A n \in m.nodes : m.level[n] \in Nat
  BY <1>1
<1>. QED BY <1>1, <1>2, <1>3, <1>4

(* Of any of its nodes, the highest have none of the others above them.      *)
LEMMA RegionsBegin ==
  ASSUME HeapsAssumed, HeapTargetOK
  PROVE  Begun(heap_memory.nodes, [n \in heap_memory.nodes |-> {Heaps!Left(n), Heaps!Right(n)}])
<1> DEFINE D == heap_memory.nodes
           succ == [n \in heap_memory.nodes |-> {Heaps!Left(n), Heaps!Right(n)}]
           level == heap_memory.level
<1>1. SUFFICES ASSUME NEW S \in SUBSET D, S # {} PROVE \E n \in S : \A m \in S : n \notin succ[m]
  BY DEF Begun
<1>2. \A n \in D : level[n] \in Nat /\ \A c \in succ[n] : c # 0 => level[c] = level[n] + 1
  BY RegionFacts
<1>3. 0 \notin D
  BY RegionFacts
<1> DEFINE T == {level[n] : n \in S}
<1>4. T \in SUBSET Nat /\ T # {}
  BY <1>1, <1>2
<1>5. PICK x \in T : \A y \in T : x <= y
  BY <1>4, LeastExists
<1>6. PICK n \in S : level[n] = x
  BY <1>5
<1> HIDE DEF level, succ
<1>7. ASSUME NEW m \in S, n \in succ[m] PROVE FALSE
  <2>1. level[n] = level[m] + 1 /\ level[m] \in Nat
    BY <1>1, <1>2, <1>3, <1>7
  <2>2. level[n] <= level[m]
    BY <1>5, <1>6
  <2>. QED BY <2>1, <2>2
<1>. QED BY <1>7

(* There is a function that does what TreeLines asks for.                    *)
LEMMA TreeLinesExist ==
  ASSUME HeapsAssumed, HeapTargetOK
  PROVE  \E f : f = [n \in heap_memory.nodes \cup {0} |-> Subtree(f, n)]
<1> DEFINE D == heap_memory.nodes
           succ == [n \in heap_memory.nodes |-> {Heaps!Left(n), Heaps!Right(n)}]
           Sol(X, f) == f = [n \in X \cup {0} |-> Subtree(f, n)]
           Shut(X) == \A n \in X : succ[n] \subseteq X \cup {0}
           C == {X \in SUBSET D : Shut(X) /\ \E f : Sol(X, f)}
<1>1. \A n \in D : succ[n] = {Heaps!Left(n), Heaps!Right(n)} /\ succ[n] \subseteq D \cup {0}
  BY RegionFacts
<1> HIDE DEF succ
<1>2. {} \in C
  <2> DEFINE f == [n \in {} \cup {0} |-> <<>>]
  <2>1. \A n \in {} \cup {0} : Subtree(f, n) = <<>>
    BY DEF Subtree
  <2> HIDE DEF f
  <2>2. f = [n \in {} \cup {0} |-> <<>>]
    BY DEF f
  <2>3. Sol({}, f)
    BY <2>1, <2>2, Zenon
  <2>. QED BY <2>3
<1>3. ASSUME NEW X \in SUBSET D, X \in C, NEW n \in D \ X, \A m \in D : m \in succ[n] => m \in X
      PROVE  X \cup {n} \in C
  <2>1. PICK f : Sol(X, f)
    BY <1>3
  <2> DEFINE Y == (X \cup {n}) \cup {0}
             g == [k \in Y |-> Subtree(f, k)]
  <2>2. \A k \in X \cup {n} : Heaps!Left(k) \in X \cup {0} /\ Heaps!Right(k) \in X \cup {0}
    BY <1>1, <1>3
  <2>3. \A k \in X \cup {0} : g[k] = f[k]
    BY <2>1
  <2>4. ASSUME NEW k \in Y PROVE Subtree(g, k) = Subtree(f, k)
    <3>1. CASE k = 0
      BY <3>1, Zenon DEF Subtree
    <3>2. CASE k # 0
      <4>1. g[Heaps!Left(k)] = f[Heaps!Left(k)] /\ g[Heaps!Right(k)] = f[Heaps!Right(k)]
        BY <2>2, <2>3, <3>2
      <4> HIDE DEF g
      <4>. QED BY <4>1, Zenon DEF Subtree
    <3>. QED BY <3>1, <3>2
  <2>5. g = [k \in Y |-> Subtree(g, k)]
    BY <2>4, Zenon
  <2>6. Shut(X \cup {n})
    BY <1>1, <2>2
  <2> HIDE DEF g
  <2>7. \E h : Sol(X \cup {n}, h)
    BY <2>5, Zenon
  <2>. QED BY <1>3, <2>6, <2>7
<1>4. Grows(D, succ, C)
  <2> HIDE DEF C
  <2>. QED BY <1>3 DEF Grows
<1>5. D \in C
  <2>1. Begun(D, succ) /\ IsFiniteSet(D)
    BY RegionsBegin, RegionFacts DEF succ
  <2> HIDE DEF C, D
  <2>. QED BY <1>2, <1>4, <2>1, LeavesFirst
<1>. QED BY <1>5, Zenon

(* So TreeLines does.                                                        *)
LEMMA TreeLinesAre ==
  ASSUME HeapsAssumed, HeapTargetOK
  PROVE  \A n \in heap_memory.nodes \cup {0} : Heaps!TreeLines[n] = Subtree(Heaps!TreeLines, n)
<1>1. Heaps!TreeLines = [n \in heap_memory.nodes \cup {0} |-> Subtree(Heaps!TreeLines, n)]
  BY TreeLinesExist, Zenon DEF Heaps!TreeLines, Subtree, RegionLine
<1>. QED BY <1>1, Zenon

(* And what it gives are lines of regions.                                   *)
LEMMA TreeLinesType ==
  ASSUME HeapsAssumed, HeapTargetOK
  PROVE  \A n \in heap_memory.nodes \cup {0} : Heaps!TreeLines[n] \in Seq(RegionLines)
<1> DEFINE D == heap_memory.nodes
           succ == [n \in heap_memory.nodes |-> {Heaps!Left(n), Heaps!Right(n)}]
           T == Heaps!TreeLines
           C == {X \in SUBSET D : \A n \in X : T[n] \in Seq(RegionLines)}
<1>1. T[0] \in Seq(RegionLines)
  <2>1. T[0] = <<>>
    BY TreeLinesAre, Zenon DEF Subtree
  <2>. QED BY <2>1
<1>2. {} \in C
  OBVIOUS
<1>3. ASSUME NEW X \in SUBSET D, X \in C, NEW n \in D \ X, \A m \in D : m \in succ[n] => m \in X
      PROVE  X \cup {n} \in C
  <2> DEFINE l == T[Heaps!Left(n)]
             r == T[Heaps!Right(n)]
  <2>1. l \in Seq(RegionLines) /\ r \in Seq(RegionLines)
    <3>1. Heaps!Left(n) \in X \cup {0} /\ Heaps!Right(n) \in X \cup {0}
      BY <1>3, RegionFacts
    <3> HIDE DEF T
    <3>. QED BY <1>1, <1>3, <3>1
  <2>2. T[n] = <<RegionLine(n)>> \o l \o r
    <3>1. n # 0
      BY RegionFacts
    <3>. QED BY <3>1, TreeLinesAre, Zenon DEF Subtree
  <2>3. RegionLine(n) \in RegionLines
    BY DEF RegionLines
  <2> HIDE DEF l, r, T
  <2>4. T[n] \in Seq(RegionLines)
    BY <2>1, <2>2, <2>3
  <2>. QED BY <1>3, <2>4
<1>4. Grows(D, succ, C)
  <2> HIDE DEF C, succ
  <2>. QED BY <1>3 DEF Grows
<1>5. D \in C
  <2>1. Begun(D, succ) /\ IsFiniteSet(D)
    BY RegionsBegin, RegionFacts
  <2> HIDE DEF C, D, succ
  <2>. QED BY <1>2, <1>4, <2>1, LeavesFirst
<1>. QED BY <1>1, <1>5

(* What the calls of one call that are still to be made show, T being what   *)
(* the trees show.                                                           *)
OwedBy(T, todo) ==
  IF Len(todo) = 0 THEN <<>> ELSE IF Len(todo) = 1 THEN T[todo[1]] ELSE T[todo[1]] \o T[todo[2]]

(* What the calls that have not returned show: the last one its own first,   *)
(* and then those before it theirs.                                          *)
Owing(T, S, made, rest) ==
  \E r \in [0..Len(made) -> Seq(S)] :
    /\ r[0] = <<>> /\ r[Len(made)] = rest
    /\ \A j \in 1..Len(made) : r[j] = OwedBy(T, made[j].todo) \o r[j - 1]

(* The same of the last call and of the others.                              *)
OwingBefore(T, S, made, rest, others) ==
  /\ others \in Seq(S) /\ Owing(T, S, SubSeq(made, 1, Len(made) - 1), others)
  /\ rest = OwedBy(T, made[Len(made)].todo) \o others

(* Nothing is owed when all calls have returned.                             *)
LEMMA OwingNone ==
  ASSUME NEW T, NEW S, NEW rest
  PROVE  Owing(T, S, <<>>, rest) <=> rest = <<>>
<1>1. Len(<<>>) = 0 /\ 0 \in 0..0 /\ <<>> \in Seq(S) /\ 1..0 = {}
  OBVIOUS
<1>2. ASSUME rest = <<>> PROVE Owing(T, S, <<>>, rest)
  <2> DEFINE r == [j \in 0..0 |-> <<>>]
  <2>1. r \in [0..0 -> Seq(S)] /\ r[0] = <<>>
    BY <1>1
  <2> HIDE DEF r
  <2>. QED BY <1>1, <1>2, <2>1 DEF Owing
<1>3. ASSUME Owing(T, S, <<>>, rest) PROVE rest = <<>>
  BY <1>1, <1>3 DEF Owing
<1>. QED BY <1>2, <1>3

(* A call adds what it is to show.                                           *)
LEMMA OwingPush ==
  ASSUME NEW T, NEW S, NEW A, NEW made \in Seq(A), NEW c \in A, NEW rest \in Seq(S), Owing(T, S, made, rest),
         OwedBy(T, c.todo) \in Seq(S)
  PROVE  Owing(T, S, Append(made, c), OwedBy(T, c.todo) \o rest)
<1> DEFINE L == Len(made)
           m == Append(made, c)
           all == OwedBy(T, c.todo) \o rest
<1>1. PICK r \in [0..L -> Seq(S)] :
        /\ r[0] = <<>> /\ r[L] = rest
        /\ \A j \in 1..L : r[j] = OwedBy(T, made[j].todo) \o r[j - 1]
  BY DEF Owing
<1>2. L \in Nat /\ Len(m) = L + 1 /\ m[L + 1] = c /\ \A j \in 1..L : m[j] = made[j]
  OBVIOUS
<1>3. all \in Seq(S)
  OBVIOUS
<1> HIDE DEF L, m
<1> DEFINE u == [j \in 0..L + 1 |-> IF j = L + 1 THEN all ELSE r[j]]
<1>4. /\ u \in [0..L + 1 -> Seq(S)] /\ u[L + 1] = all
      /\ \A j \in 0..L : u[j] = r[j]
  <2>1. \A j \in 0..L + 1 : j # L + 1 => j \in 0..L
    BY <1>2
  <2> HIDE DEF all
  <2>2. \A j \in 0..L + 1 : u[j] \in Seq(S)
    BY <1>1, <1>3, <2>1
  <2>3. \A j \in 0..L : j \in 0..L + 1 /\ j # L + 1
    BY <1>2
  <2>4. L + 1 \in 0..L + 1
    BY <1>2
  <2>. QED BY <2>2, <2>3, <2>4
<1> HIDE DEF u
<1>5. u[0] = <<>>
  BY <1>1, <1>2, <1>4
<1>6. ASSUME NEW j \in 1..L + 1 PROVE u[j] = OwedBy(T, m[j].todo) \o u[j - 1]
  <2>1. CASE j = L + 1
    <3>1. j - 1 = L /\ L \in 0..L
      BY <1>2, <2>1
    <3>2. u[j - 1] = rest /\ u[j] = all /\ m[j] = c
      BY <1>1, <1>2, <1>4, <2>1, <3>1
    <3>. QED BY <3>2, Zenon
  <2>2. CASE j # L + 1
    <3>1. j \in 1..L /\ j \in 0..L /\ j - 1 \in 0..L
      BY <1>2, <1>6, <2>2
    <3>2. u[j] = r[j] /\ u[j - 1] = r[j - 1] /\ m[j] = made[j]
      BY <1>2, <1>4, <3>1
    <3>3. r[j] = OwedBy(T, made[j].todo) \o r[j - 1]
      BY <1>1, <3>1, Zenon
    <3>. QED BY <3>2, <3>3, Zenon
  <2>. QED BY <2>1, <2>2
<1> HIDE DEF all
<1>7. Owing(T, S, m, all)
  <2>1. \E r1 \in [0..L + 1 -> Seq(S)] :
          /\ r1[0] = <<>> /\ r1[L + 1] = all
          /\ \A j \in 1..L + 1 : r1[j] = OwedBy(T, m[j].todo) \o r1[j - 1]
    BY <1>4, <1>5, <1>6, Zenon
  <2>2. Len(m) = L + 1
    BY <1>2
  <2>. QED BY <2>1, <2>2, Zenon DEF Owing
<1>. QED BY <1>7 DEF m, all

(* What is owed is made up of what the last call owes, and the others.       *)
LEMMA OwingPop ==
  ASSUME NEW T, NEW S, NEW A, NEW made \in Seq(A), made # <<>>, NEW rest, Owing(T, S, made, rest)
  PROVE  \E others : OwingBefore(T, S, made, rest, others)
<1> DEFINE L == Len(made)
           m == SubSeq(made, 1, Len(made) - 1)
<1>1. PICK r \in [0..L -> Seq(S)] :
        /\ r[0] = <<>> /\ r[L] = rest
        /\ \A j \in 1..L : r[j] = OwedBy(T, made[j].todo) \o r[j - 1]
  BY DEF Owing
<1>2. L \in Nat /\ L > 0 /\ Len(m) = L - 1 /\ \A j \in 1..L - 1 : m[j] = made[j]
  OBVIOUS
<1> HIDE DEF L, m
<1> DEFINE u == [j \in 0..L - 1 |-> r[j]]
<1>3. u \in [0..L - 1 -> Seq(S)] /\ \A j \in 0..L - 1 : u[j] = r[j]
  <2>1. \A j \in 0..L - 1 : j \in 0..L
    BY <1>2
  <2>. QED BY <1>1, <2>1
<1> HIDE DEF u
<1>4. 0 \in 0..L - 1 /\ L - 1 \in 0..L - 1 /\ L - 1 \in 0..L /\ L \in 1..L
  BY <1>2
<1>5. u[0] = <<>> /\ u[L - 1] = r[L - 1] /\ r[L - 1] \in Seq(S)
  BY <1>1, <1>3, <1>4
<1>6. ASSUME NEW j \in 1..L - 1 PROVE u[j] = OwedBy(T, m[j].todo) \o u[j - 1]
  <2>1. j \in 1..L /\ j \in 0..L - 1 /\ j - 1 \in 0..L - 1
    BY <1>2, <1>6
  <2>2. u[j] = r[j] /\ u[j - 1] = r[j - 1] /\ m[j] = made[j]
    BY <1>2, <1>3, <1>6, <2>1
  <2>3. r[j] = OwedBy(T, made[j].todo) \o r[j - 1]
    BY <1>1, <2>1, Zenon
  <2>. QED BY <2>2, <2>3, Zenon
<1>7. Owing(T, S, m, r[L - 1])
  <2>1. \E r1 \in [0..L - 1 -> Seq(S)] :
          /\ r1[0] = <<>> /\ r1[L - 1] = r[L - 1]
          /\ \A j \in 1..L - 1 : r1[j] = OwedBy(T, m[j].todo) \o r1[j - 1]
    BY <1>3, <1>5, <1>6, Zenon
  <2>2. Len(m) = L - 1
    BY <1>2
  <2>. QED BY <2>1, <2>2, Zenon DEF Owing
<1>8. rest = OwedBy(T, made[L].todo) \o r[L - 1]
  BY <1>1, <1>4, Zenon
<1>9. OwingBefore(T, S, made, rest, r[L - 1])
  BY <1>5, <1>7, <1>8, Zenon DEF OwingBefore, m, L
<1>. QED BY <1>9

(* The calls of RegionTreeNode::dump: each knows how deep it is.             *)
CallTypes ==
  {c \in [depth : Nat, todo : Seq(heap_memory.nodes)] :
     Len(c.todo) <= 2 /\ \A k \in DOMAIN c.todo : heap_memory.level[c.todo[k]] = c.depth + 1}

(* Sequences of two members at most.                                         *)
LEMMA ShortLists ==
  ASSUME NEW A, NEW a \in A, NEW b \in A
  PROVE  /\ <<a>> \o <<b>> = <<a, b>> /\ <<a>> \o <<>> = <<a>> /\ <<>> \o <<b>> = <<b>>
         /\ Tail(<<a, b>>) = <<b>> /\ Tail(<<a>>) = <<>>
<1> DEFINE x == <<a>>
           y == <<b>>
           s == x \o y
<1>1. x \in Seq(A) /\ Len(x) = 1 /\ x[1] = a
  OBVIOUS
<1>2. y \in Seq(A) /\ Len(y) = 1 /\ y[1] = b
  OBVIOUS
<1>3. s \in Seq(A) /\ Len(s) = 2 /\ s[1] = a /\ s[2] = b
  <2> HIDE DEF x, y
  <2>1. s \in Seq(A)
    BY <1>1, <1>2
  <2>2. Len(s) = Len(x) + Len(y)
    BY <1>1, <1>2, ConcatProperties
  <2>3. s[1] = x[1]
    BY <1>1, <1>2
  <2>4. s[2] = y[1]
    <3>1. 2 \in 1..(Len(x) + Len(y)) /\ ~(2 <= Len(x)) /\ 2 - Len(x) = 1
      BY <1>1, <1>2
    <3>2. \A i \in 1..(Len(x) + Len(y)) : s[i] = IF i <= Len(x) THEN x[i] ELSE y[i - Len(x)]
      BY <1>1, <1>2, ConcatProperties
    <3>3. s[2] = y[2 - Len(x)]
      BY <3>1, <3>2, Zenon
    <3>. QED BY <3>1, <3>3, Zenon
  <2>. QED BY <1>1, <1>2, <2>1, <2>2, <2>3, <2>4
<1>4. s = <<a, b>>
  <2> HIDE DEF s
  <2>1. s = <<s[1], s[2]>>
    BY <1>3
  <2>. QED BY <1>3, <2>1, Zenon
<1>5. <<a>> \o <<>> = <<a>>
  OBVIOUS
<1>6. <<>> \o <<b>> = <<b>>
  OBVIOUS
<1>7. Tail(<<a, b>>) = <<b>>
  OBVIOUS
<1>8. Tail(<<a>>) = <<>>
  OBVIOUS
<1>. QED BY <1>4, <1>5, <1>6, <1>7, <1>8, Zenon

(* A sequence that is no longer is one of those.                             *)
LEMMA ShortList ==
  ASSUME NEW A, NEW s \in Seq(A), Len(s) <= 2, s # <<>>
  PROVE  s[1] \in A /\ (s = <<s[1]>> \/ (s[2] \in A /\ s = <<s[1], s[2]>>))
<1>1. Len(s) \in Nat /\ Len(s) # 0
  OBVIOUS
<1>2. Len(s) = 1 \/ Len(s) = 2
  <2>. DEFINE n == Len(s)
  <2>1. n \in Nat /\ n # 0 /\ n <= 2
    BY <1>1
  <2>. HIDE DEF n
  <2>2. n = 1 \/ n = 2
    BY <2>1
  <2>. QED BY <2>2 DEF n
<1>3. CASE Len(s) = 1
  <2>1. s = <<s[1]>>
    BY <1>3
  <2>. QED BY <1>3, <2>1
<1>4. CASE Len(s) = 2
  <2>1. s = <<s[1], s[2]>>
    BY <1>4
  <2>2. 1 \in 1..Len(s) /\ 2 \in 1..Len(s)
    BY <1>4
  <2>3. s[1] \in A /\ s[2] \in A
    BY <2>2
  <2>. QED BY <2>1, <2>3, Zenon
<1>. QED BY <1>2, <1>3, <1>4

(* What such a one owes.                                                     *)
LEMMA OwedByShort ==
  ASSUME NEW T, NEW a, NEW b
  PROVE  OwedBy(T, <<>>) = <<>> /\ OwedBy(T, <<a>>) = T[a] /\ OwedBy(T, <<a, b>>) = T[a] \o T[b]
<1>1. OwedBy(T, <<>>) = <<>>
  BY DEF OwedBy
<1>2. OwedBy(T, <<a>>) = T[a]
  <2> DEFINE s == <<a>>
  <2>1. Len(s) = 1 /\ s[1] = a
    OBVIOUS
  <2> HIDE DEF s
  <2>2. OwedBy(T, s) = T[a]
    BY <2>1 DEF OwedBy
  <2>. QED BY <2>2 DEF s
<1>3. OwedBy(T, <<a, b>>) = T[a] \o T[b]
  <2> DEFINE s == <<a, b>>
  <2>1. Len(s) = 2 /\ s[1] = a /\ s[2] = b
    OBVIOUS
  <2> HIDE DEF s
  <2>2. Len(s) # 0 /\ Len(s) # 1
    BY <2>1
  <2>3. OwedBy(T, s) = T[s[1]] \o T[s[2]]
    BY <2>2, Zenon DEF OwedBy
  <2>. QED BY <2>1, <2>3, Zenon DEF s
<1>. QED BY <1>1, <1>2, <1>3, Zenon

(* What a call for n shows: its own line, and what it owes from then on.     *)
Begins(c, n) ==
  /\ c \in CallTypes /\ OwedBy(Heaps!TreeLines, c.todo) \in Seq(RegionLines)
  /\ Heaps!TreeLines[n] = <<RegionLine(n)>> \o OwedBy(Heaps!TreeLines, c.todo)

(* A call for a node begins so.                                             *)
LEMMA CallBegins ==
  ASSUME HeapsAssumed, HeapTargetOK, NEW n \in heap_memory.nodes
  PROVE  Begins([depth |-> heap_memory.level[n], todo |-> Heaps!Subtrees(n)], n)
<1> DEFINE T == Heaps!TreeLines
           l == Heaps!Left(n)
           r == Heaps!Right(n)
           D == heap_memory.nodes
           level == heap_memory.level
           s == Heaps!Subtrees(n)
           line == RegionLine(n)
<1>1. /\ level[n] \in Nat /\ n # 0
      /\ l # 0 => l \in D /\ level[l] = level[n] + 1
      /\ r # 0 => r \in D /\ level[r] = level[n] + 1
  BY RegionFacts
<1>2. T[l] \in Seq(RegionLines) /\ T[r] \in Seq(RegionLines) /\ T[0] = <<>>
  <2>1. T[0] = <<>>
    BY TreeLinesAre, Zenon DEF Subtree
  <2>. QED BY <1>1, <2>1, TreeLinesType
<1>3. T[n] = <<line>> \o T[l] \o T[r] /\ line \in RegionLines
  <2>1. T[n] = Subtree(T, n)
    BY TreeLinesAre
  <2>. QED BY <1>1, <2>1, Zenon DEF Subtree, RegionLines
<1>4. s = (IF l # 0 THEN <<l>> ELSE <<>>) \o (IF r # 0 THEN <<r>> ELSE <<>>)
  BY Zenon DEF Heaps!Subtrees
<1> HIDE DEF T, l, r, level, s, line
<1> DEFINE tl == T[l]
           tr == T[r]
<1>5. /\ tl \in Seq(RegionLines) /\ tr \in Seq(RegionLines)
      /\ l = 0 => tl = <<>>
      /\ r = 0 => tr = <<>>
  BY <1>2
<1> HIDE DEF tl, tr
<1>6. s \in Seq(D) /\ Len(s) <= 2 /\ (\A k \in DOMAIN s : level[s[k]] = level[n] + 1) /\ OwedBy(T, s) = tl \o tr
  <2>1. CASE l # 0 /\ r # 0
    <3>1. s = <<l, r>>
      BY <1>1, <1>4, <2>1, ShortLists
    <3>2. s \in Seq(D) /\ Len(s) <= 2 /\ \A k \in DOMAIN s : level[s[k]] = level[n] + 1
      <4>1. s \in Seq(D) /\ Len(s) <= 2
        <5>1. Len(s) = 2
          BY <3>1
        <5>2. s \in Seq(D)
          <6> HIDE DEF D
          <6>. QED BY <1>1, <2>1, <3>1
        <5>. QED BY <5>1, <5>2
      <4>2. DOMAIN s = {1, 2} /\ s[1] = l /\ s[2] = r
        BY <3>1
      <4>. QED BY <1>1, <2>1, <4>1, <4>2
    <3>3. OwedBy(T, s) = tl \o tr
      BY <3>1, OwedByShort, Zenon DEF tl, tr
    <3>. QED BY <3>2, <3>3, Zenon
  <2>2. CASE l # 0 /\ r = 0
    <3>1. s = <<l>>
      BY <1>1, <1>4, <2>2, ShortLists
    <3>2. s \in Seq(D) /\ Len(s) <= 2 /\ \A k \in DOMAIN s : level[s[k]] = level[n] + 1
      <4>1. s \in Seq(D) /\ Len(s) <= 2
        <5>1. Len(s) = 1
          BY <3>1
        <5>2. s \in Seq(D)
          <6> HIDE DEF D
          <6>. QED BY <1>1, <2>2, <3>1
        <5>. QED BY <5>1, <5>2
      <4>2. DOMAIN s = {1} /\ s[1] = l
        BY <3>1
      <4>. QED BY <1>1, <2>2, <4>1, <4>2
    <3>3. tl = tl \o tr
      BY <1>5, <2>2
    <3>4. OwedBy(T, s) = tl
      BY <3>1, OwedByShort, Zenon DEF tl
    <3>. QED BY <3>2, <3>3, <3>4, Zenon
  <2>3. CASE l = 0 /\ r # 0
    <3>1. s = <<r>>
      BY <1>1, <1>4, <2>3, ShortLists
    <3>2. s \in Seq(D) /\ Len(s) <= 2 /\ \A k \in DOMAIN s : level[s[k]] = level[n] + 1
      <4>1. s \in Seq(D) /\ Len(s) <= 2
        <5>1. Len(s) = 1
          BY <3>1
        <5>2. s \in Seq(D)
          <6> HIDE DEF D
          <6>. QED BY <1>1, <2>3, <3>1
        <5>. QED BY <5>1, <5>2
      <4>2. DOMAIN s = {1} /\ s[1] = r
        BY <3>1
      <4>. QED BY <1>1, <2>3, <4>1, <4>2
    <3>3. tr = tl \o tr
      BY <1>5, <2>3
    <3>4. OwedBy(T, s) = tr
      BY <3>1, OwedByShort, Zenon DEF tr
    <3>. QED BY <3>2, <3>3, <3>4, Zenon
  <2>4. CASE l = 0 /\ r = 0
    <3>1. s = <<>>
      BY <1>4, <2>4
    <3>2. s \in Seq(D) /\ Len(s) <= 2 /\ \A k \in DOMAIN s : level[s[k]] = level[n] + 1
      BY <3>1
    <3>3. <<>> = tl \o tr
      BY <1>5, <2>4
    <3>4. OwedBy(T, s) = <<>>
      BY <3>1, OwedByShort, Zenon
    <3>. QED BY <3>2, <3>3, <3>4, Zenon
  <2>. QED BY <2>1, <2>2, <2>3, <2>4
<1>7. OwedBy(T, s) \in Seq(RegionLines)
  BY <1>5, <1>6
<1>8. T[n] = <<line>> \o OwedBy(T, s)
  <2>1. T[n] = (<<line>> \o tl) \o tr
    BY <1>3, Zenon DEF tl, tr
  <2>2. <<line>> \in Seq(RegionLines)
    BY <1>3
  <2>3. (<<line>> \o tl) \o tr = <<line>> \o (tl \o tr)
    BY <1>5, <2>2, ConcatAssociative
  <2>. QED BY <1>6, <2>1, <2>3, Zenon
<1>10. [depth |-> level[n], todo |-> s] \in CallTypes
  BY <1>1, <1>6 DEF CallTypes, level
<1>. QED BY <1>7, <1>8, <1>10, Zenon DEF Begins, T, level, s, line

(* A call that goes on to its next tree owes the others still.               *)
GoesOn(c) ==
  /\ Head(c.todo) \in heap_memory.nodes /\ heap_memory.level[Head(c.todo)] = c.depth + 1
  /\ [c EXCEPT !.todo = Tail(@)] \in CallTypes /\ [c EXCEPT !.todo = Tail(@)].todo = Tail(c.todo)
  /\ OwedBy(Heaps!TreeLines, Tail(c.todo)) \in Seq(RegionLines)
  /\ OwedBy(Heaps!TreeLines, c.todo) = Heaps!TreeLines[Head(c.todo)] \o OwedBy(Heaps!TreeLines, Tail(c.todo))

(* One with trees left to show does.                                         *)
LEMMA CallGoesOn ==
  ASSUME HeapsAssumed, HeapTargetOK, NEW c \in CallTypes, c.todo # <<>>
  PROVE  GoesOn(c)
<1> DEFINE T == Heaps!TreeLines
           D == heap_memory.nodes
           level == heap_memory.level
           s == c.todo
           t == Tail(c.todo)
<1>1. /\ c = [depth |-> c.depth, todo |-> s] /\ c.depth \in Nat /\ s \in Seq(D) /\ s # <<>>
      /\ Len(s) <= 2 /\ \A k \in DOMAIN s : level[s[k]] = c.depth + 1
  BY DEF CallTypes
<1>2. /\ Head(s) = s[1] /\ 1 \in DOMAIN s /\ s[1] \in D
      /\ s # <<s[1]>> => s[2] \in D /\ s = <<s[1], s[2]>>
  <2>. HIDE DEF D
  <2>1. Head(s) = s[1] /\ 1 \in DOMAIN s
    BY <1>1
  <2>2. s[1] \in D /\ (s = <<s[1]>> \/ (s[2] \in D /\ s = <<s[1], s[2]>>))
    <3>. HIDE DEF s
    <3>. QED BY <1>1, ShortList
  <2>. QED BY <2>1, <2>2
<1>3. \A n \in D : T[n] \in Seq(RegionLines)
  BY TreeLinesType
<1>4. [c EXCEPT !.todo = Tail(@)] = [depth |-> c.depth, todo |-> t]
  BY <1>1
<1> HIDE DEF T, s, D
<1> DEFINE a == T[s[1]]
           b == T[s[2]]
<1>5. /\ t \in Seq(D) /\ Len(t) <= 2 /\ \A k \in DOMAIN t : level[t[k]] = c.depth + 1
      /\ OwedBy(T, t) \in Seq(RegionLines) /\ OwedBy(T, s) = T[s[1]] \o OwedBy(T, t)
  <2>1. a \in Seq(RegionLines)
    BY <1>2, <1>3
  <2>2. CASE s = <<s[1]>>
    <3>1. t = <<>>
      <4>1. Tail(<<s[1]>>) = <<>>
        BY <1>2, ShortLists
      <4>. QED BY <2>2, <4>1, Zenon DEF s
    <3>2. OwedBy(T, t) = <<>>
      BY <3>1, OwedByShort, Zenon
    <3>3. OwedBy(T, s) = a
      BY <2>2, OwedByShort, Zenon
    <3> HIDE DEF a, b, t
    <3>4. a = a \o <<>>
      BY <2>1
    <3>5. OwedBy(T, s) = a \o OwedBy(T, t)
      BY <3>2, <3>3, <3>4, Zenon
    <3>6. t \in Seq(D) /\ Len(t) <= 2 /\ \A k \in DOMAIN t : level[t[k]] = c.depth + 1
      BY <3>1
    <3>7. OwedBy(T, t) \in Seq(RegionLines)
      BY <3>2
    <3>. QED BY <3>5, <3>6, <3>7, Zenon DEF a
  <2>3. CASE s[2] \in D /\ s = <<s[1], s[2]>>
    <3>1. t = <<s[2]>>
      <4>1. Tail(<<s[1], s[2]>>) = <<s[2]>>
        BY <1>2, <2>3, ShortLists
      <4>. QED BY <2>3, <4>1, Zenon DEF s
    <3>2. OwedBy(T, t) = b
      BY <3>1, OwedByShort, Zenon
    <3>3. OwedBy(T, s) = a \o b
      <4>1. PICK p, q : p = s[1] /\ q = s[2]
        OBVIOUS
      <4>2. OwedBy(T, <<p, q>>) = T[p] \o T[q]
        BY OwedByShort, Zenon
      <4>. QED BY <2>3, <4>1, <4>2, Zenon
    <3>4. OwedBy(T, s) = a \o OwedBy(T, t)
      BY <3>2, <3>3, Zenon
    <3>5. b \in Seq(RegionLines)
      BY <1>3, <2>3
    <3>6. level[s[2]] = c.depth + 1
      <4>1. Len(s) = 2
        BY <2>3
      <4>2. 2 \in DOMAIN s
        BY <1>1, <4>1
      <4>. QED BY <1>1, <4>2
    <3> HIDE DEF a, b, t
    <3>7. t \in Seq(D) /\ Len(t) <= 2
      BY <2>3, <3>1
    <3>8. \A k \in DOMAIN t : t[k] = s[2]
      BY <3>1
    <3>9. \A k \in DOMAIN t : level[t[k]] = c.depth + 1
      BY <3>6, <3>8
    <3>. QED BY <3>2, <3>4, <3>5, <3>7, <3>9, Zenon DEF a
  <2>. QED BY <1>2, <2>2, <2>3, Zenon
<1>6. [depth |-> c.depth, todo |-> t] \in CallTypes
  <2>. HIDE DEF t
  <2>. QED BY <1>1, <1>5 DEF CallTypes, D
<1> HIDE DEF t
<1>7. level[Head(s)] = c.depth + 1
  BY <1>1, <1>2
<1>8. [c EXCEPT !.todo = Tail(@)].todo = t
  BY <1>4
<1>9. Head(s) = s[1] /\ Head(s) \in D
  BY <1>2
<1>. QED BY <1>4, <1>5, <1>6, <1>7, <1>8, <1>9, Zenon DEF GoesOn, T, s, t, D

(* The region tree is not changed, so neither is what it is to show.         *)
BaseIn(m, u, n) ==
  IF (IF <<"region_", n>> \in u THEN 0 ELSE m.region[n]) = 0 THEN 0
  ELSE IF <<"base_", IF <<"region_", n>> \in u THEN 0 ELSE m.region[n]>> \in u THEN 0
       ELSE m.base[IF <<"region_", n>> \in u THEN 0 ELSE m.region[n]]

TreeLinesOf(m, u) ==
  CHOOSE f : f = [n \in m.nodes \cup {0} |->
    IF n = 0 THEN <<>>
    ELSE <<[base |-> BaseIn(m, u, n), depth |-> m.level[n]]>>
           \o f[IF <<"left_", n>> \in u THEN 0 ELSE m.left[n]]
           \o f[IF <<"right_", n>> \in u THEN 0 ELSE m.right[n]]]

(* A step that does not change the target changes none of it.                *)
LEMMA TreeStays ==
  ASSUME UNCHANGED Heaps!target
  PROVE  Heaps!TreeLines' = Heaps!TreeLines /\ RegionLines' = RegionLines /\ CallTypes' = CallTypes
<1>1. heap_memory' = heap_memory /\ heap_unreadable' = heap_unreadable
  BY DEF Heaps!target
<1>2. Heaps!TreeLines = TreeLinesOf(heap_memory, heap_unreadable)
  BY Zenon DEF Heaps!TreeLines, TreeLinesOf, BaseIn, Heaps!RegionBase, Heaps!Base, Heaps!Left, Heaps!Right, Heaps!Read
<1>3. Heaps!TreeLines' = TreeLinesOf(heap_memory', heap_unreadable')
  BY Zenon DEF Heaps!TreeLines, TreeLinesOf, BaseIn, Heaps!RegionBase, Heaps!Base, Heaps!Left, Heaps!Right, Heaps!Read
<1>4. RegionLines' = RegionLines
  BY <1>1, Zenon DEF RegionLines, RegionLine, Heaps!RegionBase, Heaps!Base, Heaps!Read
<1>5. CallTypes' = CallTypes
  BY <1>1, Zenon DEF CallTypes
<1>. QED BY <1>1, <1>2, <1>3, <1>4, <1>5, Zenon

(* A listing that grows by the line that is next.                            *)
LEMMA ListingGrows ==
  ASSUME NEW g, NEW n \in Nat, NEW s, s = [i \in 1..n |-> g[i]]
  PROVE  Append(s, g[n + 1]) = [i \in 1..n + 1 |-> g[i]]
<1> DEFINE S == {g[i] : i \in 1..n + 1}
           t == [i \in 1..n + 1 |-> g[i]]
           u == Append(s, g[n + 1])
<1>1. s \in Seq(S) /\ Len(s) = n /\ g[n + 1] \in S /\ \A i \in 1..n : s[i] = g[i]
  OBVIOUS
<1>2. t \in Seq(S) /\ Len(t) = n + 1 /\ \A i \in 1..n + 1 : t[i] = g[i]
  OBVIOUS
<1> HIDE DEF S, t
<1>3. u \in Seq(S) /\ Len(u) = n + 1 /\ \A i \in 1..n + 1 : u[i] = g[i]
  <2>1. u \in Seq(S) /\ Len(u) = n + 1
    BY <1>1
  <2>2. ASSUME NEW i \in 1..n + 1 PROVE u[i] = g[i]
    BY <1>1, <2>2
  <2>. QED BY <2>1, <2>2
<1> HIDE DEF u
<1>4. u = t
  BY <1>2, <1>3, SeqEqual
<1>. QED BY <1>4 DEF u, t

(* The lines of the arenas, and those of the pools.                          *)
ArenaLine(i) == [index |-> i - 1, type |-> Heaps!ResolveType(heap.arenas[i]), addr |-> heap.arenas[i]]

AllArenas == [i \in DOMAIN heap.arenas |-> ArenaLine(i)]

UsedPools == {i \in DOMAIN heap.arenas : heap.pool[i] # 0}

AllPools ==
  [k \in DOMAIN Heaps!Ascending(UsedPools) |-> Heaps!PoolSummary(Heaps!Ascending(UsedPools)[k])]

(* The heap in hand: as many pools as arenas, and the tree of the target.    *)
HeapRight ==
  /\ heap.arenas \in Seq(Nat) /\ Len(heap.pool) = Len(heap.arenas)
  /\ heap.root \in {0, heap_memory.root}
  /\ IF heap.addr = 0 THEN heap.arenas = <<>> /\ heap.root = 0
                      ELSE Len(heap.arenas) = Len(heap_memory.arenas)

(* The arenas before the one the loop is at have been listed.                *)
ArenasRight ==
  /\ heap_pc = "arenas" =>
       row \in 1..Len(heap.arenas) + 1 /\ arenas = [i \in 1..row - 1 |-> AllArenas[i]] /\ pools = <<>>
  /\ heap_pc \in {"pool", "tree"} => arenas = AllArenas

(* What the loop over the pools has listed: of the first n, those that have  *)
(* an entry, in order, sum being the line of each.                           *)
PoolsShownIn(len, list, n, pool, sum) ==
  \E f \in [1..len -> {i \in 1..n : pool[i] # 0}] :
    /\ \A j, k \in 1..len : j < k => f[j] < f[k]
    /\ \A i \in 1..n : pool[i] # 0 => \E k \in 1..len : f[k] = i
    /\ list = [k \in 1..len |-> sum[f[k]]]

PoolsShown(list, n, pool, sum) == PoolsShownIn(Len(list), list, n, pool, sum)

Summaries == [i \in Nat |-> Heaps!PoolSummary(i)]

PoolsListed(n) == PoolsShown(pools, n, heap.pool, Summaries)

PoolsRight ==
  /\ heap_pc = "pool" => row \in 1..Len(heap.pool) + 1 /\ PoolsListed(row - 1)
  /\ heap_pc = "tree" => PoolsListed(Len(heap.pool))

(* What has been listed of the tree, and what the calls owe, is all of it.   *)
Showing(T, S, C, top, made, shown) ==
  /\ made \in Seq(C) /\ shown \in Seq(S)
  /\ \E rest \in Seq(S) : Owing(T, S, made, rest) /\ T[top] = shown \o rest

TreeRight ==
  /\ heap_pc \in {"arenas", "pool"} => regions = <<>>
  /\ heap_pc # "tree" => calls = <<>>
  /\ heap_pc = "tree" =>
       heap.root # 0 /\ Showing(Heaps!TreeLines, RegionLines, CallTypes, heap.root, calls, regions)

ShownInv == HeapRight /\ ArenasRight /\ PoolsRight /\ TreeRight

(* The answer of !heap is made up of these lines.                            *)
LEMMA HeapAnswerIs ==
  ASSUME HeapsAssumed, HeapTargetOK, HeapRight, heap.pool \in Seq(Nat)
  PROVE  Heaps!HeapAnswer = [arenas |-> AllArenas, pools |-> AllPools, regions |-> Heaps!TreeLines[heap.root]]
<1>1. heap_memory.arenas \in Seq(Nat \ {0})
  BY DEF HeapsAssumed, HeapTargetOK, Heaps!MemoriesAssumption
<1>2. CASE heap.addr = 0
  <2>1. heap.arenas = <<>> /\ heap.root = 0 /\ DOMAIN heap.arenas = {}
    BY <1>2 DEF HeapRight
  <2>2. AllArenas = <<>>
    BY <2>1 DEF AllArenas
  <2>3. AllPools = <<>>
    <3>1. UsedPools = {}
      BY <2>1 DEF UsedPools
    <3> DEFINE f == [k \in 1..0 |-> 0]
    <3>2. /\ f \in [1..0 -> {}] /\ 0 \in Nat /\ {} \in SUBSET Nat /\ f = <<>>
          /\ \A j, k \in 1..0 : j < k => f[j] < f[k]
          /\ \A i \in {} : \E k \in 1..0 : f[k] = i
      OBVIOUS
    <3> HIDE DEF f
    <3>3. Ascending({}) = <<>>
      BY <3>2, AscendingIs
    <3>4. Heaps!Ascending({}) = Ascending({})
      BY Zenon DEF Heaps!Ascending, Ascending, Heaps!Cardinality, Cardinality
    <3>5. DOMAIN Heaps!Ascending(UsedPools) = {}
      BY <3>1, <3>3, <3>4
    <3>. QED BY <3>5 DEF AllPools
  <2>4. Heaps!TreeLines[0] = <<>>
    BY TreeLinesAre, Zenon DEF Subtree
  <2>5. Heaps!HeapAnswer = [arenas |-> <<>>, pools |-> <<>>, regions |-> <<>>]
    BY <1>2, Zenon DEF Heaps!HeapAnswer
  <2>. QED BY <2>1, <2>2, <2>3, <2>4, <2>5, Zenon
<1>3. CASE heap.addr # 0
  <2>1. DOMAIN heap_memory.arenas = DOMAIN heap.arenas
    BY <1>1, <1>3 DEF HeapRight
  <2>. QED BY <1>3, <2>1, Zenon DEF Heaps!HeapAnswer, AllArenas, ArenaLine, AllPools, UsedPools
<1>. QED BY <1>2, <1>3

(* What is listed of all pools is what the answer has of them.               *)
LEMMA PoolsComplete ==
  ASSUME HeapRight, heap.pool \in Seq(Nat), PoolsListed(Len(heap.pool))
  PROVE  pools = AllPools
<1> DEFINE n == Len(pools)
           L == Len(heap.pool)
<1>1. PICK f \in [1..n -> {i \in 1..L : heap.pool[i] # 0}] :
        /\ \A j, k \in 1..n : j < k => f[j] < f[k]
        /\ \A i \in 1..L : heap.pool[i] # 0 => \E k \in 1..n : f[k] = i
        /\ pools = [k \in 1..n |-> Summaries[f[k]]]
  BY Zenon DEF PoolsListed, PoolsShown, PoolsShownIn
<1>2. {i \in 1..L : heap.pool[i] # 0} = UsedPools /\ UsedPools \in SUBSET Nat
  BY DEF HeapRight, UsedPools
<1>3. n \in Nat
  OBVIOUS
<1> HIDE DEF n, L
<1>4. f \in [1..n -> UsedPools] /\ \A i \in UsedPools : \E k \in 1..n : f[k] = i
  BY <1>1, <1>2
<1>5. Ascending(UsedPools) = f
  BY <1>1, <1>2, <1>3, <1>4, AscendingIs
<1>6. Heaps!Ascending(UsedPools) = f
  BY <1>5, Zenon DEF Heaps!Ascending, Ascending, Heaps!Cardinality, Cardinality
<1>7. DOMAIN f = 1..n
  BY <1>1
<1>8. \A k \in 1..n : Summaries[f[k]] = Heaps!PoolSummary(f[k])
  BY <1>2, <1>4 DEF Summaries
<1>9. pools = [k \in 1..n |-> Heaps!PoolSummary(f[k])]
  BY <1>1, <1>8, Zenon
<1>. QED BY <1>6, <1>7, <1>9, Zenon DEF AllPools

(* While neither the target nor the heap in hand changes, the answer stays.  *)
LEMMA HeapStays ==
  ASSUME UNCHANGED Heaps!target, UNCHANGED heap
  PROVE  /\ Heaps!HeapAnswer' = Heaps!HeapAnswer /\ AllArenas' = AllArenas /\ Summaries' = Summaries
         /\ HeapRight => HeapRight'
<1>1. heap_memory' = heap_memory /\ heap_unreadable' = heap_unreadable
  BY DEF Heaps!target
<1>2. ASSUME NEW a PROVE Heaps!ResolveType(a)' = Heaps!ResolveType(a)
  BY <1>1 DEF Heaps!ResolveType
<1>3. ASSUME NEW i PROVE Heaps!PoolSummary(i)' = Heaps!PoolSummary(i)
  <2>1. PICK e : e = heap.pool[i]
    OBVIOUS
  <2>2. Heaps!ChainFrom(e)' = Heaps!ChainFrom(e)
    BY HeapTargetStays
  <2>3. Heaps!ChainFrom(heap.pool[i])' = Heaps!ChainFrom(heap.pool[i])
    BY <2>1, <2>2
  <2>. QED BY <2>3 DEF Heaps!PoolSummary
<1>4. ASSUME NEW i PROVE Heaps!ResolveType(heap.arenas[i])' = Heaps!ResolveType(heap.arenas[i])
  <2>1. PICK a : a = heap.arenas[i]
    OBVIOUS
  <2>. QED BY <1>2, <2>1
<1>5. Heaps!TreeLines[heap.root]' = Heaps!TreeLines[heap.root]
  BY TreeStays
<1>6. AllArenas' = AllArenas
  BY <1>4 DEF AllArenas, ArenaLine
<1>7. Summaries' = Summaries
  BY <1>3 DEF Summaries
<1>8. HeapRight => HeapRight'
  BY <1>1 DEF HeapRight
<1> DEFINE used == Heaps!Ascending({i \in DOMAIN heap_memory.arenas : heap.pool[i] # 0})
<1>9. used' = used
  BY <1>1 DEF Heaps!Ascending, Heaps!Cardinality
<1>10. ASSUME NEW k PROVE Heaps!PoolSummary(used[k])' = Heaps!PoolSummary(used[k])
  <2>1. PICK i : i = used[k]
    OBVIOUS
  <2>2. used[k]' = used[k]
    BY <1>9, Zenon
  <2>. HIDE DEF used
  <2>. QED BY <1>3, <2>1, <2>2, Zenon
<1>11. [k \in DOMAIN used |-> Heaps!PoolSummary(used[k])]' = [k \in DOMAIN used |-> Heaps!PoolSummary(used[k])]
  <2>. HIDE DEF used
  <2>. QED BY <1>9, <1>10, Zenon
<1>12. Heaps!HeapAnswer' = Heaps!HeapAnswer
  BY <1>1, <1>4, <1>5, <1>11, Zenon DEF Heaps!HeapAnswer
<1>. QED BY <1>6, <1>7, <1>8, <1>12

(* None of no pools are listed.                                              *)
LEMMA ListedNone ==
  ASSUME NEW pool, NEW sum
  PROVE  PoolsShown(<<>>, 0, pool, sum)
<1> DEFINE f == [k \in 1..0 |-> 0]
<1>1. /\ Len(<<>>) = 0 /\ f \in [1..0 -> {i \in 1..0 : pool[i] # 0}] /\ <<>> = [k \in 1..0 |-> sum[f[k]]]
      /\ \A j, k \in 1..0 : j < k => f[j] < f[k]
      /\ \A i \in 1..0 : pool[i] # 0 => \E k \in 1..0 : f[k] = i
  OBVIOUS
<1> HIDE DEF f
<1>2. PoolsShownIn(0, <<>>, 0, pool, sum)
  BY <1>1, Zenon DEF PoolsShownIn
<1>. QED BY <1>1, <1>2, Zenon DEF PoolsShown

(* A pool without an entry is passed over.                                   *)
LEMMA ListedOver ==
  ASSUME NEW pool, NEW sum, NEW list, NEW n \in Nat, pool[n + 1] = 0, PoolsShown(list, n, pool, sum)
  PROVE  PoolsShown(list, n + 1, pool, sum)
<1>1. {i \in 1..n + 1 : pool[i] # 0} = {i \in 1..n : pool[i] # 0}
  OBVIOUS
<1>2. \A i \in 1..n + 1 : pool[i] # 0 => i \in 1..n
  OBVIOUS
<1> DEFINE len == Len(list)
           some == {i \in 1..n : pool[i] # 0}
           more == {i \in 1..n + 1 : pool[i] # 0}
<1>3. PICK f \in [1..len -> some] :
        /\ \A j, k \in 1..len : j < k => f[j] < f[k]
        /\ \A i \in 1..n : pool[i] # 0 => \E k \in 1..len : f[k] = i
        /\ list = [k \in 1..len |-> sum[f[k]]]
  BY Zenon DEF PoolsShown, PoolsShownIn
<1>4. f \in [1..len -> more]
  <2>. HIDE DEF some, more, len
  <2>1. some = more
    BY <1>1 DEF some, more
  <2>. QED BY <1>3, <2>1, Zenon
<1>5. \A i \in 1..n + 1 : pool[i] # 0 => \E k \in 1..len : f[k] = i
  BY <1>2, <1>3, Zenon
<1>6. PoolsShownIn(len, list, n + 1, pool, sum)
  BY <1>3, <1>4, <1>5, Zenon DEF PoolsShownIn
<1>. QED BY <1>6, Zenon DEF PoolsShown

(* One with an entry is listed.                                              *)
LEMMA ListedOneMore ==
  ASSUME NEW pool, NEW sum, NEW S, NEW list \in Seq(S), NEW n \in Nat, pool[n + 1] # 0, sum[n + 1] \in S,
         PoolsShown(list, n, pool, sum)
  PROVE  PoolsShown(Append(list, sum[n + 1]), n + 1, pool, sum)
<1> DEFINE L == Len(list)
           more == Append(list, sum[n + 1])
<1>1. PICK f \in [1..L -> {i \in 1..n : pool[i] # 0}] :
        /\ \A j, k \in 1..L : j < k => f[j] < f[k]
        /\ \A i \in 1..n : pool[i] # 0 => \E k \in 1..L : f[k] = i
        /\ list = [k \in 1..L |-> sum[f[k]]]
  BY Zenon DEF PoolsShown, PoolsShownIn
<1>2. L \in Nat /\ Len(more) = L + 1
  OBVIOUS
<1> HIDE DEF L, more
<1> DEFINE g == [k \in 1..L + 1 |-> IF k = L + 1 THEN n + 1 ELSE f[k]]
<1>3. g[L + 1] = n + 1 /\ \A k \in 1..L : g[k] = f[k]
  BY <1>2
<1>4. \A k \in 1..L + 1 : k = L + 1 \/ k \in 1..L
  BY <1>2
<1>5. g \in [1..L + 1 -> {i \in 1..n + 1 : pool[i] # 0}]
  BY <1>1, <1>4
<1>6. \A j, k \in 1..L + 1 : j < k => g[j] < g[k]
  <2>. SUFFICES ASSUME NEW j \in 1..L + 1, NEW k \in 1..L + 1, j < k PROVE g[j] < g[k]
    OBVIOUS
  <2>1. j \in 1..L /\ g[j] = f[j] /\ f[j] \in 1..n
    BY <1>1, <1>2, <1>3
  <2>. HIDE DEF g
  <2>2. CASE k = L + 1
    BY <1>3, <2>1, <2>2
  <2>3. CASE k \in 1..L
    BY <1>1, <1>3, <2>1, <2>3
  <2>. QED BY <1>4, <2>2, <2>3
<1> HIDE DEF g
<1>7. \A i \in 1..n + 1 : pool[i] # 0 => \E k \in 1..L + 1 : g[k] = i
  <2>. SUFFICES ASSUME NEW i \in 1..n + 1, pool[i] # 0 PROVE \E k \in 1..L + 1 : g[k] = i
    OBVIOUS
  <2>1. CASE i = n + 1
    BY <1>2, <1>3, <2>1
  <2>2. CASE i # n + 1
    <3>1. i \in 1..n
      BY <2>2
    <3>2. PICK k \in 1..L : f[k] = i
      BY <1>1, <3>1
    <3>3. k \in 1..L + 1
      BY <1>2
    <3>. QED BY <1>3, <3>2, <3>3
  <2>. QED BY <2>1, <2>2
<1>8. more = [k \in 1..L + 1 |-> sum[g[k]]]
  <2> DEFINE lines == [k \in 1..L + 1 |-> sum[g[k]]]
  <2>1. list = [k \in 1..L |-> lines[k]]
    <3>1. \A k \in 1..L : lines[k] = sum[f[k]]
      BY <1>2, <1>3
    <3>. HIDE DEF lines
    <3>. QED BY <1>1, <3>1, Zenon
  <2>2. lines[L + 1] = sum[n + 1]
    BY <1>2, <1>3
  <2>3. lines = [k \in 1..L + 1 |-> lines[k]]
    OBVIOUS
  <2>. HIDE DEF lines
  <2>4. Append(list, lines[L + 1]) = [k \in 1..L + 1 |-> lines[k]]
    BY <1>2, <2>1, ListingGrows
  <2>5. more = lines
    BY <2>2, <2>3, <2>4, Zenon DEF more
  <2>. QED BY <2>5, Zenon DEF lines
<1>9. PoolsShownIn(L + 1, more, n + 1, pool, sum)
  BY <1>5, <1>6, <1>7, <1>8, Zenon DEF PoolsShownIn
<1>10. PoolsShown(more, n + 1, pool, sum)
  BY <1>2, <1>9, Zenon DEF PoolsShown
<1>. QED BY <1>10 DEF more

(* The dump of the tree begins with the call for its root.                   *)
LEMMA ShowingStarts ==
  ASSUME HeapsAssumed, HeapTargetOK, NEW n \in heap_memory.nodes
  PROVE  Showing(Heaps!TreeLines, RegionLines, CallTypes, n,
                 Append(<<>>, [depth |-> heap_memory.level[n], todo |-> Heaps!Subtrees(n)]), Append(<<>>, RegionLine(n)))
<1> DEFINE T == Heaps!TreeLines
           S == RegionLines
           C == CallTypes
           c == [depth |-> heap_memory.level[n], todo |-> Heaps!Subtrees(n)]
           line == RegionLine(n)
           owed == OwedBy(T, c.todo)
<1>1. c \in C /\ owed \in Seq(S) /\ T[n] = <<line>> \o owed /\ line \in S
  BY CallBegins DEF Begins, RegionLines
<1>2. Owing(T, S, <<>>, <<>>)
  BY OwingNone
<1>3. <<>> \in Seq(C) /\ <<>> \in Seq(S)
  OBVIOUS
<1> HIDE DEF T, S, C, c, line
<1>4. Owing(T, S, Append(<<>>, c), owed \o <<>>)
  BY <1>1, <1>2, <1>3, OwingPush
<1> HIDE DEF owed
<1>5. owed \o <<>> = owed /\ Append(<<>>, line) = <<line>> /\ <<line>> \in Seq(S)
  BY <1>1
<1>6. Append(<<>>, c) \in Seq(C)
  BY <1>1
<1>7. Owing(T, S, Append(<<>>, c), owed) /\ T[n] = Append(<<>>, line) \o owed
  BY <1>1, <1>4, <1>5, Zenon
<1>8. Append(<<>>, line) \in Seq(S)
  BY <1>5
<1>9. Showing(T, S, C, n, Append(<<>>, c), Append(<<>>, line))
  BY <1>1, <1>6, <1>7, <1>8, Zenon DEF Showing
<1>. QED BY <1>9 DEF T, S, C, c, line

(* A line moved from what is owed to what has been shown.                    *)
Moved(shown, x, q, p, others) ==
  shown \o (((x \o q) \o p) \o others) = (shown \o x) \o (q \o (p \o others))

(* All is there as before.                                                   *)
LEMMA LineMoves ==
  ASSUME NEW S, NEW shown \in Seq(S), NEW x \in Seq(S), NEW q \in Seq(S), NEW p \in Seq(S), NEW others \in Seq(S)
  PROVE  Moved(shown, x, q, p, others)
<1> DEFINE all == q \o (p \o others)
<1>1. all \in Seq(S)
  <2>1. p \o others \in Seq(S)
    OBVIOUS
  <2>. QED BY <2>1
<1>2. Regrouped(x, q, p, others)
  BY RegroupedAlways
<1>3. Associated(shown, x, all)
  <2>. HIDE DEF all
  <2>. QED BY <1>1, AssociatedAlways
<1>. QED BY <1>2, <1>3, Zenon DEF Associated, Regrouped, Moved

(* A call made on the way leaves its caller the trees after it.              *)
LEMMA ShowingGoesOn ==
  ASSUME HeapsAssumed, HeapTargetOK, NEW top, NEW made, NEW shown, made # <<>>,
         Showing(Heaps!TreeLines, RegionLines, CallTypes, top, made, shown),
         NEW c, c = made[Len(made)], c.todo # <<>>, NEW n, n = Head(c.todo)
  PROVE  /\ n \in heap_memory.nodes /\ heap_memory.level[n] = c.depth + 1
         /\ Showing(Heaps!TreeLines, RegionLines, CallTypes, top,
                    Append(Append(SubSeq(made, 1, Len(made) - 1), [c EXCEPT !.todo = Tail(@)]),
                           [depth |-> heap_memory.level[n], todo |-> Heaps!Subtrees(n)]),
                    Append(shown, RegionLine(n)))
<1> DEFINE T == Heaps!TreeLines
           S == RegionLines
           C == CallTypes
           before == SubSeq(made, 1, Len(made) - 1)
           left == [c EXCEPT !.todo = Tail(@)]
           d == [depth |-> heap_memory.level[n], todo |-> Heaps!Subtrees(n)]
           line == RegionLine(n)
           p == OwedBy(T, left.todo)
           q == OwedBy(T, d.todo)
<1>1. made \in Seq(C) /\ shown \in Seq(S)
  BY DEF Showing
<1>2. PICK rest \in Seq(S) : Owing(T, S, made, rest) /\ T[top] = shown \o rest
  BY DEF Showing
<1>3. c \in C /\ before \in Seq(C)
  <2>. HIDE DEF C
  <2>. QED BY <1>1
<1>4. /\ n \in heap_memory.nodes /\ heap_memory.level[n] = c.depth + 1
      /\ left \in C /\ p \in Seq(S) /\ OwedBy(T, c.todo) = T[n] \o p
  <2>1. GoesOn(c)
    BY <1>3, CallGoesOn
  <2>2. left.todo = Tail(c.todo)
    BY <2>1 DEF GoesOn
  <2>. QED BY <2>1, <2>2, Zenon DEF GoesOn
<1>5. d \in C /\ q \in Seq(S) /\ T[n] = <<line>> \o q /\ line \in S
  <2>1. Begins(d, n)
    BY <1>4, CallBegins
  <2>2. line \in S
    BY <1>4 DEF RegionLines
  <2>. QED BY <2>1, <2>2, Zenon DEF Begins
<1> HIDE DEF T, S, C, left, d, line
<1>6. PICK others : OwingBefore(T, S, made, rest, others)
  BY <1>1, <1>2, OwingPop
<1>7. others \in Seq(S) /\ Owing(T, S, before, others) /\ rest = OwedBy(T, c.todo) \o others
  BY <1>6, Zenon DEF OwingBefore
<1> HIDE DEF before
<1>8. Owing(T, S, Append(before, left), p \o others) /\ p \o others \in Seq(S) /\ Append(before, left) \in Seq(C)
  <2>1. Owing(T, S, Append(before, left), p \o others)
    BY <1>3, <1>4, <1>7, OwingPush
  <2>2. Append(before, left) \in Seq(C)
    BY <1>3, <1>4
  <2>3. p \in Seq(S) /\ others \in Seq(S)
    BY <1>4, <1>7
  <2>. HIDE DEF p
  <2>4. p \o others \in Seq(S)
    BY <2>3
  <2>. QED BY <2>1, <2>2, <2>4
<1> DEFINE go == Append(before, left)
           owes == p \o others
<1> HIDE DEF go, owes, p
<1>9. Owing(T, S, Append(go, d), q \o owes) /\ Append(go, d) \in Seq(C)
  <2>1. go \in Seq(C) /\ owes \in Seq(S) /\ Owing(T, S, go, owes)
    BY <1>8 DEF go, owes
  <2>2. Owing(T, S, Append(go, d), q \o owes)
    BY <1>5, <2>1, OwingPush
  <2>. QED BY <1>5, <2>1, <2>2
<1> HIDE DEF q
<1>10. q \o owes \in Seq(S) /\ Append(shown, line) \in Seq(S) /\ shown \o rest = Append(shown, line) \o (q \o owes)
  <2>1. owes \in Seq(S)
    BY <1>8 DEF owes
  <2>2. <<line>> \in Seq(S) /\ Append(shown, line) = shown \o <<line>> /\ <<line>> \o q \in Seq(S)
    BY <1>1, <1>5
  <2>3. rest = ((<<line>> \o q) \o p) \o others
    BY <1>4, <1>5, <1>7, Zenon
  <2>4. q \o owes \in Seq(S) /\ Append(shown, line) \in Seq(S)
    BY <1>1, <1>5, <2>1
  <2>5. PICK x : x = <<line>>
    OBVIOUS
  <2>6. x \in Seq(S)
    BY <2>2, <2>5, Zenon
  <2>7. Moved(shown, x, q, p, others)
    <3>1. shown \in Seq(S) /\ q \in Seq(S) /\ p \in Seq(S) /\ others \in Seq(S)
      BY <1>1, <1>4, <1>5, <1>7, Zenon
    <3>. HIDE DEF owes
    <3>. QED BY <2>6, <3>1, LineMoves
  <2>. QED BY <2>2, <2>3, <2>4, <2>5, <2>7, Zenon DEF owes, Moved
<1>11. T[top] = Append(shown, line) \o (q \o owes)
  BY <1>2, <1>10, Zenon
<1>12. Showing(T, S, C, top, Append(go, d), Append(shown, line))
  BY <1>9, <1>10, <1>11, Zenon DEF Showing
<1>. QED BY <1>4, <1>12 DEF T, S, C, go, d, line, before, left

(* A call that returns leaves nothing to show.                               *)
LEMMA ShowingReturns ==
  ASSUME NEW T, NEW S, NEW C, NEW top, NEW made, NEW shown, made # <<>>, Showing(T, S, C, top, made, shown),
         made[Len(made)].todo = <<>>
  PROVE  Showing(T, S, C, top, SubSeq(made, 1, Len(made) - 1), shown)
<1> DEFINE before == SubSeq(made, 1, Len(made) - 1)
<1>1. made \in Seq(C) /\ shown \in Seq(S) /\ before \in Seq(C)
  BY DEF Showing
<1>2. PICK rest \in Seq(S) : Owing(T, S, made, rest) /\ T[top] = shown \o rest
  BY DEF Showing
<1>3. PICK others : OwingBefore(T, S, made, rest, others)
  BY <1>1, <1>2, OwingPop
<1>4. others \in Seq(S) /\ Owing(T, S, before, others) /\ rest = OwedBy(T, made[Len(made)].todo) \o others
  BY <1>3, Zenon DEF OwingBefore
<1>5. OwedBy(T, <<>>) = <<>>
  BY OwedByShort
<1>6. rest = others
  <2>1. rest = <<>> \o others
    BY <1>4, <1>5, Zenon
  <2>2. <<>> \o others = others
    BY <1>4
  <2>. QED BY <2>1, <2>2, Zenon
<1> HIDE DEF before
<1>7. Showing(T, S, C, top, before, shown)
  BY <1>1, <1>2, <1>4, <1>6, Zenon DEF Showing
<1>. QED BY <1>7 DEF before

(* When all calls have, all of the tree has been shown.                      *)
LEMMA ShowingEnds ==
  ASSUME NEW T, NEW S, NEW C, NEW top, NEW shown, Showing(T, S, C, top, <<>>, shown)
  PROVE  T[top] = shown
<1>1. shown \in Seq(S)
  BY DEF Showing
<1>2. PICK rest \in Seq(S) : Owing(T, S, <<>>, rest) /\ T[top] = shown \o rest
  BY DEF Showing
<1>3. rest = <<>>
  BY <1>2, OwingNone
<1>4. shown \o <<>> = shown
  BY <1>1
<1>. QED BY <1>2, <1>3, <1>4, Zenon

(* The heap ThreadHeap::load finds.                                          *)
LEMMA LoadedHeap ==
  ASSUME HeapsAssumed, HeapTargetOK, NEW h \in {0, heap_memory.heap}, NEW found, found = Heaps!Loaded(h)
  PROVE  /\ found.arenas \in Seq(Nat) /\ Len(found.pool) = Len(found.arenas) /\ found.root \in {0, heap_memory.root}
         /\ IF found.addr = 0 THEN found.arenas = <<>> /\ found.root = 0
                              ELSE Len(found.arenas) = Len(heap_memory.arenas)
<1>1. CASE h = 0
  <2>1. found = [addr |-> 0, arenas |-> <<>>, pool |-> <<>>, root |-> 0]
    BY <1>1 DEF Heaps!Loaded, Heaps!NoHeap
  <2>. QED BY <2>1
<1>2. CASE h # 0
  <2>1. heap_memory.arenas \in Seq(Nat \ {0}) /\ heap_memory.heap # 0
    BY DEF HeapsAssumed, HeapTargetOK, Heaps!MemoriesAssumption
  <2>2. PICK n \in Nat : n = Len(heap_memory.arenas) /\ DOMAIN heap_memory.arenas = 1..n
    BY <2>1
  <2>3. \A i \in 1..n : heap_memory.arenas[i] \in Nat
    BY <2>1, <2>2
  <2>4. found.arenas = [i \in 1..n |-> Heaps!Read("arenas_", i, heap_memory.arenas[i])] /\ found.addr = h
    BY <1>2, <2>2 DEF Heaps!Loaded
  <2>5. found.pool = Heaps!PoolHeads(h) /\ found.root = Heaps!Root(h)
    BY <1>2 DEF Heaps!Loaded
  <2>6. DOMAIN found.pool = 1..n /\ found.pool \in Seq(Nat)
    BY <2>2, <2>5, LoadedPools DEF Heaps!PoolHeads
  <2>7. Len(found.pool) = n
    BY <2>2, <2>6
  <2>8. \A i \in 1..n : Heaps!Read("arenas_", i, heap_memory.arenas[i]) \in Nat
    BY <2>3 DEF Heaps!Read
  <2>9. found.arenas \in Seq(Nat) /\ Len(found.arenas) = n
    BY <2>2, <2>4, <2>8
  <2>10. found.root \in {0, heap_memory.root}
    BY <2>5 DEF Heaps!Root, Heaps!Read
  <2>. QED BY <1>2, <2>2, <2>4, <2>7, <2>9, <2>10
<1>. QED BY <1>1, <1>2

(* While !heap runs the console does not change.                             *)
LEMMA HeapStill ==
  ASSUME UNCHANGED Heaps!target, UNCHANGED <<heap, heap_listing>>,
         heap_pc' \in {"arenas", "pool", "tree"} <=> heap_pc \in {"arenas", "pool", "tree"}
  PROVE  UNCHANGED Heaps!HeapConsole!console
<1>1. (heap_pc \in {"arenas", "pool", "tree"})' = (heap_pc \in {"arenas", "pool", "tree"})
  OBVIOUS
<1>2. Heaps!HeapAnswer' = Heaps!HeapAnswer
  BY HeapStays
<1>. QED BY <1>1, <1>2 DEF Heaps!HeapConsole!console

(* No step changes the target.                                               *)
LEMMA TargetFixed ==
  ASSUME [Heaps!Next]_(Heaps!vars)
  PROVE  UNCHANGED Heaps!target
BY DEF Heaps!Next, Heaps!vars, Heaps!Run, Heaps!Heap, Heaps!DumpArena, Heaps!ArenasDone, Heaps!CountEntry, Heaps!DumpPool,
       Heaps!DumpTree, Heaps!DumpSubtree, Heaps!ReturnFromSubtree, Heaps!PrintHeap, Heaps!Pool, Heaps!DumpEntry, Heaps!PrintPool

ShowsOrStill == [Heaps!HeapConsole!Ask \/ Heaps!HeapConsole!Show]_(Heaps!HeapConsole!console)

(* !heap begins, or !pool runs, or nothing does.                             *)
LEMMA ShownBegins ==
  ASSUME HeapsAssumed, HeapsInv, ShownInv, NEW h \in {0, heap_memory.heap}, Heaps!Heap(h)
  PROVE  ShownInv' /\ ShowsOrStill
<1>1. /\ heap' = Heaps!Loaded(h) /\ heap_pc = "idle" /\ heap_pc' = "arenas" /\ row' = 1 /\ heap_listing' = Blank
      /\ arenas' = <<>> /\ pools' = <<>> /\ regions' = <<>> /\ calls' = calls /\ UNCHANGED Heaps!target
  BY DEF Heaps!Heap
<1>2. calls' = <<>>
  BY <1>1 DEF ShownInv, TreeRight
<1>3. HeapRight'
  <2>1. PICK found : found = Heaps!Loaded(h)
    OBVIOUS
  <2>2. heap' = found /\ heap_memory' = heap_memory
    BY <1>1, <2>1 DEF Heaps!target
  <2>. QED BY <2>1, <2>2, LoadedHeap DEF HeapRight, HeapsInv
<1>4. ArenasRight'
  <2>1. 1 \in 1..Len(heap'.arenas) + 1
    BY <1>3 DEF HeapRight
  <2>2. <<>> = [i \in 1..1 - 1 |-> AllArenas'[i]]
    OBVIOUS
  <2>. QED BY <1>1, <2>1, <2>2 DEF ArenasRight
<1>5. PoolsRight' /\ TreeRight'
  BY <1>1, <1>2 DEF PoolsRight, TreeRight
<1>6. Heaps!HeapConsole!Ask
  BY <1>1 DEF Heaps!HeapConsole!Ask
<1>. QED BY <1>3, <1>4, <1>5, <1>6 DEF ShownInv, ShowsOrStill

(* A step that leaves what !heap has put together as it is.                  *)
LEMMA ShownStays ==
  ASSUME HeapsInv, ShownInv, UNCHANGED Heaps!target,
         UNCHANGED <<heap, heap_listing, arenas, pools, regions, calls>>,
         \/ heap_pc' = heap_pc /\ row' = row
         \/ heap_pc \in {"idle", "entries"} /\ heap_pc' \in {"idle", "entries"}
  PROVE  ShownInv' /\ ShowsOrStill
<1>1. HeapRight' /\ AllArenas' = AllArenas /\ Summaries' = Summaries
  BY HeapStays DEF ShownInv
<1>2. Heaps!TreeLines' = Heaps!TreeLines /\ RegionLines' = RegionLines /\ CallTypes' = CallTypes
  BY TreeStays
<1>3. CASE heap_pc' = heap_pc /\ row' = row
  <2>1. ArenasRight'
    BY <1>1, <1>3 DEF ShownInv, ArenasRight
  <2>2. PoolsRight'
    BY <1>1, <1>3 DEF ShownInv, PoolsRight, PoolsListed
  <2>3. TreeRight'
    BY <1>2, <1>3 DEF ShownInv, TreeRight
  <2>4. UNCHANGED Heaps!HeapConsole!console
    BY <1>3, HeapStill
  <2>. QED BY <1>1, <2>1, <2>2, <2>3, <2>4 DEF ShownInv, ShowsOrStill
<1>4. CASE heap_pc \in {"idle", "entries"} /\ heap_pc' \in {"idle", "entries"}
  <2>1. ArenasRight' /\ PoolsRight'
    BY <1>4 DEF ArenasRight, PoolsRight
  <2>2. calls' = <<>>
    BY <1>4 DEF ShownInv, TreeRight
  <2>3. TreeRight'
    BY <1>4, <2>2 DEF TreeRight
  <2>4. UNCHANGED Heaps!HeapConsole!console
    BY <1>4, HeapStill
  <2>. QED BY <1>1, <2>1, <2>3, <2>4 DEF ShownInv, ShowsOrStill
<1>. QED BY <1>3, <1>4

(* The loop over the arenas lists the next one.                              *)
LEMMA ShownArena ==
  ASSUME HeapsInv, ShownInv, Heaps!DumpArena
  PROVE  ShownInv' /\ ShowsOrStill
<1>1. /\ heap_pc = "arenas" /\ row <= Len(heap.arenas) /\ heap_pc' = "arenas" /\ row' = row + 1
      /\ arenas' = Append(arenas, ArenaLine(row)) /\ UNCHANGED Heaps!target
      /\ UNCHANGED <<heap, heap_listing, pools, regions, calls>>
  BY DEF Heaps!DumpArena, ArenaLine
<1>2. HeapRight' /\ AllArenas' = AllArenas
  BY <1>1, HeapStays DEF ShownInv
<1>3. /\ row \in 1..Len(heap.arenas) + 1 /\ arenas = [i \in 1..row - 1 |-> AllArenas[i]] /\ pools = <<>>
      /\ Len(heap.arenas) \in Nat /\ heap.arenas \in Seq(Nat)
  BY <1>1 DEF ShownInv, ArenasRight, HeapRight
<1>4. AllArenas[row] = ArenaLine(row)
  <2>1. row \in DOMAIN heap.arenas
    BY <1>1, <1>3
  <2>. QED BY <2>1, Zenon DEF AllArenas
<1>5. PICK n \in Nat : n = row - 1 /\ row = n + 1
  BY <1>3
<1>6. Append(arenas, AllArenas[n + 1]) = [i \in 1..n + 1 |-> AllArenas[i]]
  <2>1. arenas = [i \in 1..n |-> AllArenas[i]]
    BY <1>3, <1>5
  <2>2. PICK g : g = AllArenas
    OBVIOUS
  <2>3. Append(arenas, g[n + 1]) = [i \in 1..n + 1 |-> g[i]]
    BY <2>1, <2>2, ListingGrows
  <2>. QED BY <2>2, <2>3, Zenon
<1>7. arenas' = [i \in 1..n + 1 |-> AllArenas[i]]
  BY <1>1, <1>4, <1>5, <1>6, Zenon
<1>8. row' \in 1..Len(heap'.arenas) + 1 /\ row' - 1 = n + 1
  BY <1>1, <1>3, <1>5
<1>9. arenas' = [i \in 1..row' - 1 |-> AllArenas'[i]]
  BY <1>2, <1>7, <1>8, Zenon
<1>10. ArenasRight'
  BY <1>1, <1>3, <1>8, <1>9 DEF ArenasRight
<1>11. PoolsRight' /\ TreeRight'
  BY <1>1 DEF PoolsRight, TreeRight, ShownInv
<1>12. UNCHANGED Heaps!HeapConsole!console
  BY <1>1, HeapStill
<1>. QED BY <1>2, <1>10, <1>11, <1>12 DEF ShownInv, ShowsOrStill

(* When it is done, all arenas are listed, and none of the pools.            *)
LEMMA ShownArenasDone ==
  ASSUME HeapsInv, ShownInv, Heaps!ArenasDone
  PROVE  ShownInv' /\ ShowsOrStill
<1>1. /\ heap_pc = "arenas" /\ row > Len(heap.arenas) /\ heap_pc' = "pool" /\ row' = 1 /\ UNCHANGED Heaps!target
      /\ UNCHANGED <<heap, heap_listing, arenas, pools, regions, calls>>
  BY DEF Heaps!ArenasDone, Heaps!ToPool, Heaps!output
<1>2. HeapRight' /\ AllArenas' = AllArenas
  BY <1>1, HeapStays DEF ShownInv
<1>3. /\ row \in 1..Len(heap.arenas) + 1 /\ arenas = [i \in 1..row - 1 |-> AllArenas[i]] /\ pools = <<>>
      /\ Len(heap.arenas) \in Nat /\ heap.arenas \in Seq(Nat)
  BY <1>1 DEF ShownInv, ArenasRight, HeapRight
<1>4. arenas = AllArenas
  <2>1. row - 1 = Len(heap.arenas) /\ DOMAIN heap.arenas = 1..Len(heap.arenas)
    BY <1>1, <1>3
  <2>2. arenas = [i \in DOMAIN heap.arenas |-> AllArenas[i]]
    BY <1>3, <2>1, Zenon
  <2>3. \A i \in DOMAIN heap.arenas : AllArenas[i] = ArenaLine(i)
    BY Zenon DEF AllArenas
  <2>. QED BY <2>2, <2>3, Zenon DEF AllArenas
<1>5. ArenasRight'
  BY <1>1, <1>2, <1>4 DEF ArenasRight
<1>6. PoolsListed(0)'
  <2>1. PICK pool, sum : pool = heap'.pool /\ sum = Summaries'
    OBVIOUS
  <2>2. PoolsShown(<<>>, 0, pool, sum) /\ pools' = <<>>
    BY <1>1, <1>3, ListedNone
  <2>. QED BY <2>1, <2>2, Zenon DEF PoolsListed
<1>7. PoolsListed(row - 1)'
  <2>1. row' - 1 = 0
    BY <1>1
  <2>. QED BY <1>6, <2>1, Zenon DEF PoolsListed
<1>8. 1 \in 1..Len(heap'.pool) + 1
  BY <1>2 DEF HeapRight
<1>9. PoolsRight'
  BY <1>1, <1>7, <1>8 DEF PoolsRight
<1>10. TreeRight'
  BY <1>1 DEF TreeRight, ShownInv
<1>11. UNCHANGED Heaps!HeapConsole!console
  BY <1>1, HeapStill
<1>. QED BY <1>2, <1>5, <1>9, <1>10, <1>11 DEF ShownInv, ShowsOrStill

(* The loop over the pools lists a pool that has an entry, with its length.  *)
LEMMA ShownPool ==
  ASSUME HeapsAssumed, HeapsInv, ShownInv, Heaps!DumpPool
  PROVE  ShownInv' /\ ShowsOrStill
<1>1. /\ heap_pc = "pool" /\ heap_cursor = 0 /\ row <= Len(heap.pool) /\ heap_pc' = "pool" /\ row' = row + 1
      /\ UNCHANGED Heaps!target /\ UNCHANGED <<heap, heap_listing, arenas, regions, calls>>
      /\ pools' = IF heap.pool[row] # 0 THEN Append(pools, Heaps!PoolLine(row)) ELSE pools
  BY DEF Heaps!DumpPool, Heaps!ToPool
<1>2. HeapRight' /\ AllArenas' = AllArenas /\ Summaries' = Summaries
  BY <1>1, HeapStays DEF ShownInv
<1>3. /\ row \in 1..Len(heap.pool) + 1 /\ PoolsListed(row - 1)
      /\ heap.pool \in Seq(Nat) /\ pools \in Seq(TrueLines) /\ HeapTargetOK
  BY <1>1 DEF ShownInv, PoolsRight, HeapsInv, CountsRight
<1>4. PICK n \in Nat : n = row - 1 /\ row = n + 1
  BY <1>3
<1>5. PoolsShown(pools, n, heap.pool, Summaries)
  BY <1>3, <1>4, Zenon DEF PoolsListed
<1>6. Summaries[n + 1] = Heaps!PoolLine(row)
  <2>1. Summaries[row] = Heaps!PoolSummary(row)
    <3>1. row \in Nat
      BY <1>3
    <3>. QED BY <3>1, Zenon DEF Summaries
  <2>2. HeadOf(row) = heap.pool[row]
    BY <1>1 DEF HeadOf
  <2>3. Counting(heap.pool[row], count, 0)
    BY <1>1, <2>2 DEF HeapsInv, CountsRight
  <2>4. count = Len(Heaps!ChainFrom(heap.pool[row]))
    BY <1>3, <2>3, CountEnds
  <2>5. Heaps!PoolSummary(row) = Heaps!PoolLine(row)
    BY <2>4, Zenon DEF Heaps!PoolSummary, Heaps!PoolLine
  <2>. QED BY <1>4, <2>1, <2>5, Zenon
<1>7. PoolsShown(pools', n + 1, heap.pool, Summaries)
  <2>1. CASE heap.pool[row] = 0
    <3>1. heap.pool[n + 1] = 0 /\ pools' = pools
      BY <1>1, <1>4, <2>1
    <3>2. PoolsShown(pools, n + 1, heap.pool, Summaries)
      BY <1>5, <3>1, ListedOver
    <3>. QED BY <3>1, <3>2, Zenon
  <2>2. CASE heap.pool[row] # 0
    <3>1. heap.pool[n + 1] # 0 /\ pools' = Append(pools, Summaries[n + 1])
      BY <1>1, <1>4, <1>6, <2>2
    <3>2. PICK S : S = TrueLines \cup {Summaries[n + 1]}
      OBVIOUS
    <3>3. pools \in Seq(S) /\ Summaries[n + 1] \in S
      BY <1>3, <3>2
    <3>4. PoolsShown(Append(pools, Summaries[n + 1]), n + 1, heap.pool, Summaries)
      BY <1>5, <3>1, <3>3, ListedOneMore
    <3>. QED BY <3>1, <3>4, Zenon
  <2>. QED BY <2>1, <2>2
<1>8. PoolsListed(row - 1)'
  <2>1. row' - 1 = n + 1 /\ heap' = heap
    BY <1>1, <1>4
  <2>2. PoolsShown(pools', row' - 1, heap'.pool, Summaries')
    BY <1>2, <1>7, <2>1, Zenon
  <2>. QED BY <2>2, Zenon DEF PoolsListed
<1>9. row' \in 1..Len(heap'.pool) + 1
  BY <1>1, <1>3
<1>10. PoolsRight'
  BY <1>1, <1>8, <1>9 DEF PoolsRight
<1>11. ArenasRight'
  BY <1>1, <1>2 DEF ArenasRight, ShownInv
<1>12. TreeRight'
  BY <1>1 DEF TreeRight, ShownInv
<1>13. UNCHANGED Heaps!HeapConsole!console
  BY <1>1, HeapStill
<1>. QED BY <1>2, <1>10, <1>11, <1>12, <1>13 DEF ShownInv, ShowsOrStill

(* A step of the dump of the tree leaves arenas and pools as they are.       *)
LEMMA ShownInTree ==
  ASSUME HeapsInv, ShownInv, UNCHANGED Heaps!target, UNCHANGED <<heap, heap_listing, arenas, pools>>,
         heap_pc' = "tree", TreeRight',
         \/ heap_pc = "pool" /\ row > Len(heap.pool)
         \/ heap_pc = "tree"
  PROVE  ShownInv' /\ ShowsOrStill
<1>1. HeapRight' /\ AllArenas' = AllArenas /\ Summaries' = Summaries
  BY HeapStays DEF ShownInv
<1>2. PoolsListed(Len(heap.pool)) /\ arenas = AllArenas
  <2>1. CASE heap_pc = "pool" /\ row > Len(heap.pool)
    <3>1. row \in 1..Len(heap.pool) + 1 /\ PoolsListed(row - 1) /\ heap.pool \in Seq(Nat) /\ arenas = AllArenas
      BY <2>1 DEF ShownInv, PoolsRight, ArenasRight, HeapsInv, CountsRight
    <3>2. row - 1 = Len(heap.pool)
      BY <2>1, <3>1
    <3>. QED BY <3>1, <3>2, Zenon
  <2>2. CASE heap_pc = "tree"
    BY <2>2 DEF ShownInv, PoolsRight, ArenasRight
  <2>. QED BY <2>1, <2>2
<1>3. PoolsListed(Len(heap.pool))'
  BY <1>1, <1>2, Zenon DEF PoolsListed
<1>4. ArenasRight' /\ PoolsRight'
  BY <1>1, <1>2, <1>3 DEF ArenasRight, PoolsRight
<1>5. UNCHANGED Heaps!HeapConsole!console
  BY HeapStill
<1>. QED BY <1>1, <1>4, <1>5 DEF ShownInv, ShowsOrStill

(* The dump of the tree begins.                                              *)
LEMMA ShownTree ==
  ASSUME HeapsAssumed, HeapsInv, ShownInv, Heaps!DumpTree
  PROVE  ShownInv' /\ ShowsOrStill
<1> DEFINE n == heap.root
           line == [base |-> Heaps!RegionBase(n), depth |-> 1]
           c == [depth |-> 1, todo |-> Heaps!Subtrees(n)]
<1>1. /\ heap_pc = "pool" /\ row > Len(heap.pool) /\ n # 0 /\ heap_pc' = "tree" /\ UNCHANGED Heaps!target
      /\ UNCHANGED <<heap, heap_listing, arenas, pools>>
      /\ regions' = Append(regions, line) /\ calls' = Append(calls, c)
  BY DEF Heaps!DumpTree, Heaps!Call
<1>2. regions = <<>> /\ calls = <<>> /\ n \in {0, heap_memory.root} /\ HeapTargetOK
  BY <1>1 DEF ShownInv, TreeRight, HeapRight, HeapsInv
<1>3. n \in heap_memory.nodes /\ heap_memory.level[n] = 1
  BY <1>1, <1>2, RegionFacts
<1>4. /\ line = RegionLine(n)
      /\ c = [depth |-> heap_memory.level[n], todo |-> Heaps!Subtrees(n)]
  BY <1>3, Zenon DEF RegionLine
<1> HIDE DEF n, line, c
<1>5. Showing(Heaps!TreeLines, RegionLines, CallTypes, n,
              Append(<<>>, [depth |-> heap_memory.level[n], todo |-> Heaps!Subtrees(n)]), Append(<<>>, RegionLine(n)))
  BY <1>2, <1>3, ShowingStarts
<1>6. Showing(Heaps!TreeLines, RegionLines, CallTypes, n, calls', regions')
  BY <1>1, <1>2, <1>4, <1>5, Zenon
<1>7. n' = n
  BY <1>1 DEF n
<1>8. Showing(Heaps!TreeLines, RegionLines, CallTypes, n, calls, regions)'
  BY <1>1, <1>6, <1>7, TreeStays, Zenon
<1>9. TreeRight'
  BY <1>1, <1>7, <1>8 DEF TreeRight, n
<1>. QED BY <1>1, <1>9, ShownInTree

(* A call for a tree below another begins.                                   *)
LEMMA ShownSubtree ==
  ASSUME HeapsAssumed, HeapsInv, ShownInv, Heaps!DumpSubtree
  PROVE  ShownInv' /\ ShowsOrStill
<1> DEFINE c == calls[Len(calls)]
           n == Head(c.todo)
           before == SubSeq(calls, 1, Len(calls) - 1)
           left == [c EXCEPT !.todo = Tail(@)]
           d == [depth |-> c.depth + 1, todo |-> Heaps!Subtrees(n)]
           line == [base |-> Heaps!RegionBase(n), depth |-> c.depth + 1]
<1>1. /\ heap_pc = "tree" /\ calls # <<>> /\ c.todo # <<>> /\ heap_pc' = "tree" /\ UNCHANGED Heaps!target
      /\ UNCHANGED <<heap, heap_listing, arenas, pools>>
      /\ regions' = Append(regions, line) /\ calls' = before \o <<left, d>>
  BY Zenon DEF Heaps!DumpSubtree, Heaps!Last, Heaps!Callers, Heaps!DepthOf
<1>2. heap.root # 0 /\ Showing(Heaps!TreeLines, RegionLines, CallTypes, heap.root, calls, regions) /\ HeapTargetOK
  BY <1>1 DEF ShownInv, TreeRight, HeapsInv
<1>3. PICK made, shown, top, e, m :
        made = calls /\ shown = regions /\ top = heap.root /\ e = c /\ m = n
  BY Zenon
<1> DEFINE e2 == [e EXCEPT !.todo = Tail(@)]
           d2 == [depth |-> heap_memory.level[m], todo |-> Heaps!Subtrees(m)]
           go == SubSeq(made, 1, Len(made) - 1)
<1>4. /\ m \in heap_memory.nodes /\ heap_memory.level[m] = e.depth + 1
      /\ Showing(Heaps!TreeLines, RegionLines, CallTypes, top, Append(Append(go, e2), d2), Append(shown, RegionLine(m)))
  <2>1. made # <<>> /\ Showing(Heaps!TreeLines, RegionLines, CallTypes, top, made, shown)
    BY <1>1, <1>2, <1>3, Zenon
  <2>2. e = made[Len(made)] /\ e.todo # <<>> /\ m = Head(e.todo)
    BY <1>1, <1>3, Zenon
  <2>. QED BY <1>2, <2>1, <2>2, ShowingGoesOn
<1>5. regions' = Append(shown, RegionLine(m))
  BY <1>1, <1>3, <1>4, Zenon DEF RegionLine
<1>6. calls' = go \o <<e2, d2>>
  BY <1>1, <1>3, <1>4, Zenon
<1>7. go \o <<e2, d2>> = Append(Append(go, e2), d2)
  <2>1. made \in Seq(CallTypes)
    BY <1>2, <1>3, Zenon DEF Showing
  <2>. HIDE DEF e2, d2
  <2>2. PICK S : S = CallTypes \cup {e2, d2}
    OBVIOUS
  <2>3. go \in Seq(S) /\ e2 \in S /\ d2 \in S
    <3>1. go \in Seq(CallTypes)
      BY <2>1
    <3>. HIDE DEF go
    <3>. QED BY <2>2, <3>1
  <2>. HIDE DEF go
  <2>. QED BY <2>3
<1>8. Showing(Heaps!TreeLines, RegionLines, CallTypes, top, calls', regions')
  BY <1>4, <1>5, <1>6, <1>7, Zenon
<1>9. heap'.root = top
  BY <1>1, <1>3
<1>10. Showing(Heaps!TreeLines, RegionLines, CallTypes, heap.root, calls, regions)'
  BY <1>1, <1>8, <1>9, TreeStays, Zenon
<1>11. TreeRight'
  BY <1>1, <1>2, <1>10 DEF TreeRight
<1>. QED BY <1>1, <1>11, ShownInTree

(* A call returns.                                                           *)
LEMMA ShownReturn ==
  ASSUME HeapsInv, ShownInv, Heaps!ReturnFromSubtree
  PROVE  ShownInv' /\ ShowsOrStill
<1>1. /\ heap_pc = "tree" /\ calls # <<>> /\ calls[Len(calls)].todo = <<>> /\ heap_pc' = "tree"
      /\ UNCHANGED Heaps!target /\ UNCHANGED <<heap, heap_listing, arenas, pools>>
      /\ regions' = regions /\ calls' = SubSeq(calls, 1, Len(calls) - 1)
  BY DEF Heaps!ReturnFromSubtree, Heaps!Last, Heaps!Callers, Heaps!output
<1>2. heap.root # 0 /\ Showing(Heaps!TreeLines, RegionLines, CallTypes, heap.root, calls, regions)
  BY <1>1 DEF ShownInv, TreeRight
<1>3. PICK made, shown, top : made = calls /\ shown = regions /\ top = heap.root
  OBVIOUS
<1>4. Showing(Heaps!TreeLines, RegionLines, CallTypes, top, SubSeq(made, 1, Len(made) - 1), shown)
  <2>1. made # <<>> /\ made[Len(made)].todo = <<>>
    BY <1>1, <1>3
  <2>2. Showing(Heaps!TreeLines, RegionLines, CallTypes, top, made, shown)
    BY <1>2, <1>3, Zenon
  <2>. QED BY <2>1, <2>2, ShowingReturns
<1>5. heap'.root = top
  BY <1>1, <1>3
<1>6. calls' = SubSeq(made, 1, Len(made) - 1) /\ regions' = shown
  BY <1>1, <1>3
<1>7. Showing(Heaps!TreeLines, RegionLines, CallTypes, heap.root, calls, regions)'
  BY <1>1, <1>4, <1>5, <1>6, TreeStays, Zenon
<1>8. TreeRight'
  BY <1>1, <1>2, <1>7 DEF TreeRight
<1>. QED BY <1>1, <1>8, ShownInTree

(* What !heap prints when it is done is the answer.                          *)
LEMMA ShownWhole ==
  ASSUME HeapsAssumed, HeapsInv, ShownInv, Heaps!PrintHeap
  PROVE  ShownInv' /\ ShowsOrStill
<1>1. /\ \/ heap_pc = "pool" /\ row > Len(heap.pool) /\ heap.root = 0
         \/ heap_pc = "tree" /\ calls = <<>>
      /\ heap_pc' = "idle" /\ heap_listing' = [arenas |-> arenas, pools |-> pools, regions |-> regions]
      /\ UNCHANGED Heaps!target /\ UNCHANGED <<heap, calls>>
  BY DEF Heaps!PrintHeap
<1>2. HeapTargetOK /\ heap.pool \in Seq(Nat) /\ HeapRight
  BY DEF HeapsInv, CountsRight, ShownInv
<1>3. /\ arenas = AllArenas /\ PoolsListed(Len(heap.pool)) /\ regions = Heaps!TreeLines[heap.root] /\ calls = <<>>
  <2>1. CASE heap_pc = "pool" /\ row > Len(heap.pool) /\ heap.root = 0
    <3>1. /\ row \in 1..Len(heap.pool) + 1 /\ PoolsListed(row - 1) /\ arenas = AllArenas
          /\ regions = <<>> /\ calls = <<>>
      BY <2>1 DEF ShownInv, PoolsRight, ArenasRight, TreeRight
    <3>2. row - 1 = Len(heap.pool)
      BY <1>2, <2>1, <3>1
    <3>3. Heaps!TreeLines[0] = <<>>
      BY <1>2, TreeLinesAre, Zenon DEF Subtree
    <3>. QED BY <2>1, <3>1, <3>2, <3>3, Zenon
  <2>2. CASE heap_pc = "tree" /\ calls = <<>>
    <3>1. /\ PoolsListed(Len(heap.pool)) /\ arenas = AllArenas
          /\ Showing(Heaps!TreeLines, RegionLines, CallTypes, heap.root, calls, regions)
      BY <2>2 DEF ShownInv, PoolsRight, ArenasRight, TreeRight
    <3>2. PICK T, S, C, top, shown :
            T = Heaps!TreeLines /\ S = RegionLines /\ C = CallTypes /\ top = heap.root /\ shown = regions
      OBVIOUS
    <3>3. Showing(T, S, C, top, <<>>, shown)
      BY <2>2, <3>1, <3>2, Zenon
    <3>4. T[top] = shown
      BY <3>3, ShowingEnds
    <3>. QED BY <2>2, <3>1, <3>2, <3>4, Zenon
  <2>. QED BY <1>1, <2>1, <2>2
<1>4. pools = AllPools
  BY <1>2, <1>3, PoolsComplete
<1>5. Heaps!HeapAnswer = [arenas |-> AllArenas, pools |-> AllPools, regions |-> Heaps!TreeLines[heap.root]]
  BY <1>2, HeapAnswerIs
<1>6. heap_listing' = Heaps!HeapAnswer
  BY <1>1, <1>3, <1>4, <1>5, Zenon
<1>7. Heaps!HeapAnswer' = Heaps!HeapAnswer /\ HeapRight'
  BY <1>1, <1>2, HeapStays
<1>8. Heaps!HeapConsole!Show
  BY <1>1, <1>6, <1>7 DEF Heaps!HeapConsole!Show
<1>9. ArenasRight' /\ PoolsRight' /\ TreeRight'
  BY <1>1, <1>3 DEF ArenasRight, PoolsRight, TreeRight
<1>. QED BY <1>7, <1>8, <1>9 DEF ShownInv, ShowsOrStill

(* Every step keeps what !heap has put together right, and shows all of it   *)
(* or nothing.                                                               *)
LEMMA ShownStep ==
  ASSUME HeapsAssumed, HeapsInv, ShownInv, [Heaps!Next]_(Heaps!vars)
  PROVE  ShownInv' /\ ShowsOrStill
<1>1. ASSUME NEW h \in {0, heap_memory.heap}, Heaps!Heap(h) PROVE ShownInv' /\ ShowsOrStill
  BY <1>1, ShownBegins
<1>2. CASE Heaps!CountEntry
  BY <1>2, ShownStays DEF Heaps!CountEntry, Heaps!output
<1>3. ASSUME NEW e, Heaps!Pool(e) PROVE ShownInv' /\ ShowsOrStill
  BY <1>3, ShownStays DEF Heaps!Pool
<1>4. CASE Heaps!DumpEntry
  BY <1>4, ShownStays DEF Heaps!DumpEntry
<1>5. CASE Heaps!PrintPool
  BY <1>5, ShownStays DEF Heaps!PrintPool, Heaps!output
<1>6. CASE UNCHANGED Heaps!vars
  BY <1>6, ShownStays DEF Heaps!vars, Heaps!output
<1>. QED
  BY <1>1, <1>2, <1>3, <1>4, <1>5, <1>6, ShownArena, ShownArenasDone, ShownPool, ShownTree, ShownSubtree, ShownReturn,
     ShownWhole DEF Heaps!Next, Heaps!Run

(* !heap prints every arena of the heap, a line of each pool that has free   *)
(* pages, with their number, and the region tree in preorder, each region at *)
(* its depth, all of it in one step and nothing before; what is missing lies *)
(* behind a pointer that cannot be read.  It is HeapWhole without its end.   *)
THEOREM HeapShowsAnswers == ASSUME HeapsAssumed PROVE Heaps!Spec => Heaps!HeapConsole!Steps
<1>1. Heaps!Init => ShownInv /\ Heaps!HeapConsole!Init
  <2>. SUFFICES ASSUME Heaps!Init PROVE ShownInv /\ Heaps!HeapConsole!Init
    OBVIOUS
  <2>1. /\ heap = [addr |-> 0, arenas |-> <<>>, pool |-> <<>>, root |-> 0] /\ heap_pc = "idle"
        /\ heap_listing = Blank /\ calls = <<>>
    BY DEF Heaps!Init, Heaps!NoHeap
  <2>2. HeapRight
    BY <2>1 DEF HeapRight
  <2>3. ArenasRight /\ PoolsRight /\ TreeRight
    BY <2>1 DEF ArenasRight, PoolsRight, TreeRight
  <2>4. Heaps!HeapConsole!Init
    BY <2>1 DEF Heaps!HeapConsole!Init
  <2>. QED BY <2>2, <2>3, <2>4 DEF ShownInv
<1>2. HeapsInv /\ ShownInv /\ [Heaps!Next]_(Heaps!vars) =>
        ShownInv' /\ [Heaps!HeapConsole!Ask \/ Heaps!HeapConsole!Show]_(Heaps!HeapConsole!console)
  BY ShownStep DEF ShowsOrStill
<1>3. Heaps!Spec => []HeapsInv
  BY HeapsInvariant
<1>. QED BY <1>1, <1>2, <1>3, PTL DEF Heaps!Spec, Heaps!HeapConsole!Steps

==============================================================================
