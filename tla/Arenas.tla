------------------------------- MODULE Arenas -------------------------------
(***************************************************************************)
(* !arena, !hpage and !chunk, one after the other in any order.  !arena    *)
(* walks the chains of an arena: its active pages, its unswept pages, and  *)
(* the 17 lists of its free chunks.  !hpage goes back from an address to   *)
(* its page and arena, !chunk to the page and the header of one chunk.     *)
(***************************************************************************)
EXTENDS BlinkPage, Chains, Integers

CONSTANTS
  large_page_header_size,  \* sizeof(blink::LargeObjectPage)
  Memories,     \* what the arenas of a thread can hold
  Unreadables,  \* the sets of cells <<member, address>> that cannot be read
  Garbage,      \* what a pointer nobody initialised can hold
  Probes,       \* the addresses given to !hpage
  Blank         \* nothing printed yet

Large == INSTANCE BlinkPage WITH page_header_size <- large_page_header_size

ASSUME LargePageAssumption == Large!PageHeaderAssumption

FreeLists == 0..16
Flags == 0..1
Sizes == {n \in Nat : n < kBlinkPageSize /\ n % kAllocationGranularity = 0}
GCInfoIndexes == 0..16383
Headers == [mark : Flags, free : Flags, size : Sizes, dom : Flags, gcinfo : GCInfoIndexes]
(* All that is printed of a command that died. *)
Dead == [died |-> TRUE]

NoHeader == [mark |-> 0, free |-> 0, size |-> 0, dom |-> 0, gcinfo |-> 0]

(* m.arenas are the addresses of the arenas, m.kind their classes; the pages *)
(* of arena a are in m.active[a] and m.unswept[a], its free chunks in        *)
(* m.free[a].  m.payload_size is that of large object pages, m.header what   *)
(* is at the head of a chunk.                                                *)
PagesOf(m, a) == {m.active[a][i] : i \in DOMAIN m.active[a]} \cup {m.unswept[a][i] : i \in DOMAIN m.unswept[a]}
ChunksOf(m, a) == UNION {{m.free[a][b][i] : i \in DOMAIN m.free[a][b]} : b \in FreeLists}
PagesIn(m) == UNION {PagesOf(m, a) : a \in m.arenas}

ASSUME MemoriesAssumption ==
  \A m \in Memories :
    /\ m.arenas \subseteq Nat \ {0} /\ m.thread_state \in Nat \ {0} /\ m.heap \in Nat \ {0}
    /\ \A a \in m.arenas :
         /\ m.kind[a] \in {"NormalPageArena", "LargeObjectArena"} /\ m.index[a] \in Nat
         /\ m.point[a] \in Nat
         /\ m.active[a] \in Seq(Nat) /\ m.unswept[a] \in Seq(Nat)
         /\ Distinct(m.active[a] \o m.unswept[a])
         /\ \A p \in PagesOf(m, a) :
              /\ p < SizeT /\ p % kBlinkPageSize = kBlinkGuardPageSize
              /\ m.kind[a] = "LargeObjectArena" => m.payload_size[p] \in Nat
         /\ \A b \in FreeLists : m.free[a][b] \in Seq(Nat \ {0}) /\ Distinct(m.free[a][b])
         /\ \A c \in ChunksOf(m, a) :
              /\ PageHeader(c) \in PagesOf(m, a)
              /\ m.header[c] \in Headers /\ m.header[c].free = 1
    /\ \A a, b \in m.arenas : PagesOf(m, a) \cap PagesOf(m, b) # {} => a = b

ASSUME CellsAssumption == \A u \in Unreadables : \A c \in u : c = <<c[1], c[2]>>

ASSUME GarbageAssumption == Garbage \subseteq Nat /\ Probes \subseteq Nat /\ Blank # Dead

VARIABLES
  memory, unreadable,  \* the target
  pc,                  \* the chain !arena is walking, or "idle"
  asked,               \* the address it was given
  arena,               \* the BaseArena made for it
  cursor, free_list,   \* its loops
  pages, chunks,       \* the string it writes to
  (* The screen: what !arena printed last, and after it !hpage or !chunk. *)
  listing, described, inspected

target == <<memory, unreadable>>
walk == <<asked, arena, cursor, free_list, pages, chunks>>
screen == <<listing, described, inspected>>
vars == <<target, pc, walk, screen>>

Read(member, addr, value) == IF <<member, addr>> \in unreadable THEN 0 ELSE value
First(list) == IF list = <<>> THEN 0 ELSE list[1]

------------------------------------------------------------------------------
(* Pages.  p belongs to the arena whose lists it is in. *)

Owner(p) == CHOOSE a \in memory.arenas : p \in PagesOf(memory, a)

PageClass_NormalOnly(p) ==
  IF p \in PagesIn(memory) /\ <<"vtable", p>> \notin unreadable /\ memory.kind[Owner(p)] = "NormalPageArena"
  THEN "NormalPage" ELSE "none"

(* The class BasePage::create finds by the vtable, or "none" for null. *)
PageClass(p) ==
  IF p \in PagesIn(memory) /\ <<"vtable", p>> \notin unreadable
  THEN IF memory.kind[Owner(p)] = "NormalPageArena" THEN "NormalPage" ELSE "LargeObjectPage"
  ELSE "none"

PayloadFrom(p) == IF PageClass(p) = "NormalPage" THEN Payload(p) ELSE Large!Payload(p)
PayloadTo(p) ==
  IF PageClass(p) = "NormalPage" THEN PayloadEnd(p)
  ELSE Large!Payload(p) + Read("payload_size_", p, memory.payload_size[p])

NextPage(p) ==
  Read("next_", p, IF \E i \in DOMAIN memory.active[Owner(p)] : memory.active[Owner(p)][i] = p
                   THEN NextIn(memory.active[Owner(p)], p) ELSE NextIn(memory.unswept[Owner(p)], p))

(* HeapObjectHeader::load. *)
HeaderAt(c) ==
  IF c \in UNION {ChunksOf(memory, a) : a \in memory.arenas} /\ <<"encoded_", c>> \notin unreadable
  THEN Decoded(Encoded(memory.header[c])) ELSE NoHeader

NextChunk(c) == Read("next_chunk", c, NextIn(memory.free[arena.addr][free_list], c))

------------------------------------------------------------------------------
(* Arenas. *)

(* BaseArena::create.  A class it cannot resolve becomes a BaseArena, which  *)
(* has pages but no allocation point and no free lists.                      *)
ArenaClass(a) == IF <<"vtable", a>> \in unreadable THEN "BaseArena" ELSE memory.kind[a]

ThreadState(a) == Read("thread_state_", a, memory.thread_state)

AllocationPoint(a) ==
  IF ArenaClass(a) = "NormalPageArena" THEN Read("current_allocation_point_", a, memory.point[a]) ELSE 0

FreeListHeads(a) ==
  [b \in FreeLists |->
     IF ArenaClass(a) = "NormalPageArena" THEN Read("free_lists_", a + b, First(memory.free[a][b])) ELSE 0]

LoadedArena(a) ==
  [addr    |-> a, class |-> ArenaClass(a),
   index   |-> Read("index_", a, memory.index[a]),
   heap    |-> IF ThreadState(a) = 0 THEN 0 ELSE Read("heap_", ThreadState(a), memory.heap),
   first   |-> Read("first_page_", a, First(memory.active[a])),
   unswept |-> Read("first_unswept_page_", a, First(memory.unswept[a])),
   point   |-> AllocationPoint(a), lists |-> FreeListHeads(a)]

(* BaseArena(), which load() is not called on: it leaves first_unswept_page_ *)
(* as the memory was.                                                        *)
EmptyArena(garbage) ==
  [addr |-> 0, class |-> "BaseArena", index |-> -1, heap |-> 0, first |-> 0,
   unswept |-> garbage, point |-> 0, lists |-> [b \in FreeLists |-> 0]]

IsCurrent_Inclusive(p) ==
  arena.class = "NormalPageArena" /\ PayloadFrom(p) <= arena.point /\ arena.point <= PayloadTo(p)
IsCurrent(p) ==
  arena.class = "NormalPageArena" /\ PayloadFrom(p) <= arena.point /\ arena.point < PayloadTo(p)

PageLine(p) ==
  [page |-> p, class |-> PageClass(p), from |-> PayloadFrom(p), to |-> PayloadTo(p), current |-> IsCurrent(p)]

ChunkLine(c) == [addr |-> c, size |-> HeaderAt(c).size]

Init ==
  /\ memory \in Memories /\ unreadable \in Unreadables
  /\ pc = "idle" /\ asked = 0 /\ arena = EmptyArena(0) /\ cursor = 0 /\ free_list = 0
  /\ pages = [active |-> <<>>, unswept |-> <<>>] /\ chunks = [b \in FreeLists |-> <<>>]
  /\ listing = Blank /\ described = Blank /\ inspected = Blank

Arena(a) ==
  /\ pc = "idle" /\ pc' = "active" /\ asked' = a
  /\ IF a = 0 THEN \E garbage \in Garbage : arena' = EmptyArena(garbage) ELSE arena' = LoadedArena(a)
  /\ cursor' = arena'.first /\ free_list' = 0
  /\ pages' = [active |-> <<>>, unswept |-> <<>>] /\ chunks' = [b \in FreeLists |-> <<>>]
  /\ listing' = Blank /\ described' = Blank /\ inspected' = Blank
  /\ UNCHANGED target

(* A turn of the loop in dump_page_chain. *)
DumpPage ==
  /\ pc \in {"active", "unswept"} /\ cursor # 0 /\ PageClass(cursor) # "none"
  /\ pages' = [pages EXCEPT ![pc] = Append(@, PageLine(cursor))]
  /\ cursor' = NextPage(cursor)
  /\ UNCHANGED <<target, pc, asked, arena, free_list, chunks, screen>>

(* page->dump_for_arena() of a null page.  The string is lost. *)
DieOfNullPage ==
  /\ pc \in {"active", "unswept"} /\ cursor # 0 /\ PageClass(cursor) = "none"
  /\ pc' = "idle" /\ listing' = Dead
  /\ UNCHANGED <<target, walk, described, inspected>>

Output == [arena |-> arena, pages |-> pages, chunks |-> chunks]

ShowListing == pc' = "idle" /\ listing' = Output /\ UNCHANGED <<cursor, free_list>>

UnsweptChain ==
  /\ pc = "active" /\ cursor = 0
  /\ pc' = "unswept" /\ cursor' = arena.unswept
  /\ UNCHANGED <<target, asked, arena, free_list, pages, chunks, screen>>

(* FreeList::dump, for a NormalPageArena. *)
FreeChunks ==
  /\ pc = "unswept" /\ cursor = 0
  /\ IF arena.class = "NormalPageArena"
     THEN pc' = "free" /\ cursor' = arena.lists[0] /\ UNCHANGED <<free_list, listing>>
     ELSE ShowListing
  /\ UNCHANGED <<target, asked, arena, pages, chunks, described, inspected>>

DumpChunk ==
  /\ pc = "free" /\ cursor # 0
  /\ chunks' = [chunks EXCEPT ![free_list] = Append(@, ChunkLine(cursor))]
  /\ cursor' = NextChunk(cursor)
  /\ UNCHANGED <<target, pc, asked, arena, free_list, pages, screen>>

FreeListAfter_OneLess(b) == IF b = 15 THEN 17 ELSE b + 1
FreeListAfter(b) == b + 1

NextFreeList ==
  /\ pc = "free" /\ cursor = 0
  /\ IF FreeListAfter(free_list) \in FreeLists
     THEN /\ free_list' = FreeListAfter(free_list) /\ cursor' = arena.lists[FreeListAfter(free_list)]
          /\ UNCHANGED <<pc, listing>>
     ELSE ShowListing
  /\ UNCHANGED <<target, asked, arena, pages, chunks, described, inspected>>

HeaderOf_NoGuardPage(addr) == PageBase(addr)
(* Where !hpage and !chunk look for the page of an address. *)
HeaderOf(addr) == PageHeader(addr)

(* BasePage::dump: the page, and the arena it names. *)
Description(addr) ==
  LET p == HeaderOf(addr)
      a == Read("arena_", p, Owner(p))
  IN
  [addr |-> addr,
   page |-> IF PageClass(p) = "none" THEN Dead
            ELSE [page |-> p, class |-> PageClass(p), from |-> PayloadFrom(p), to |-> PayloadTo(p),
                  arena |-> a, index |-> IF a = 0 THEN -1 ELSE Read("index_", a, memory.index[a]),
                  thread_state |-> IF a = 0 THEN 0 ELSE ThreadState(a)]]

HPage(addr) ==
  /\ pc = "idle"
  /\ described' = Description(addr) /\ inspected' = Blank
  /\ UNCHANGED <<target, pc, walk, listing>>

(* HeapObjectHeader::dump: the page, by its class and address, and the header. *)
Inspection(addr) ==
  LET p == HeaderOf(addr) IN
  [addr |-> addr,
   chunk |-> IF PageClass(p) = "none" THEN Dead
             ELSE [page |-> p, class |-> PageClass(p), header |-> HeaderAt(addr)]]

Chunk(addr) ==
  /\ pc = "idle"
  /\ inspected' = Inspection(addr) /\ described' = Blank
  /\ UNCHANGED <<target, pc, walk, listing>>

Run == DumpPage \/ DieOfNullPage \/ UnsweptChain \/ FreeChunks \/ DumpChunk \/ NextFreeList

Next ==
  \/ \E a \in memory.arenas \cup {0} : Arena(a)
  \/ Run
  \/ \E addr \in Probes : HPage(addr)
  \/ \E addr \in {0} \cup UNION {ChunksOf(memory, a) : a \in memory.arenas} : Chunk(addr)

(* A command, once started, runs to its end; nothing in it waits. *)
Spec == Init /\ [][Next]_vars /\ WF_vars(Run)

------------------------------------------------------------------------------
(* Properties. *)

Unlinked(member) == {c[2] : c \in {d \in unreadable : d[1] = member}}

(* The pages from one that a pointer leads to, each with its own line, and   *)
(* the chunks of a free list with their true sizes.                          *)
ListOf(p) ==
  LET a == Owner(p) IN
  IF \E i \in DOMAIN memory.active[a] : memory.active[a][i] = p THEN memory.active[a] ELSE memory.unswept[a]

PagesFrom(p) == IF p \in PagesIn(memory) THEN UpTo(From(ListOf(p), p), Unlinked("next_")) ELSE <<>>

Lines(chain) == [i \in DOMAIN chain |-> PageLine(chain[i])]

ChunksFrom(a, b) ==
  IF <<"free_lists_", a + b>> \in unreadable THEN <<>> ELSE UpTo(memory.free[a][b], Unlinked("next_chunk"))

FreeChunksOf(a, b) ==
  [i \in DOMAIN ChunksFrom(a, b) |->
     [addr |-> ChunksFrom(a, b)[i],
      size |-> IF ChunksFrom(a, b)[i] \in Unlinked("encoded_") THEN 0
               ELSE memory.header[ChunksFrom(a, b)[i]].size]]

(* Whether a page whose class cannot be told is on the way. *)
Dies ==
  \/ arena.unswept \notin PagesIn(memory) \cup {0}
  \/ \E head \in {arena.first, arena.unswept} :
       \E i \in DOMAIN PagesFrom(head) : PagesFrom(head)[i] \in Unlinked("vtable")

Answer ==
  IF Dies THEN Dead
  ELSE [arena  |-> arena,
        pages  |-> [active |-> Lines(PagesFrom(arena.first)), unswept |-> Lines(PagesFrom(arena.unswept))],
        chunks |-> [b \in FreeLists |->
                      IF arena.class = "NormalPageArena" THEN FreeChunksOf(asked, b) ELSE <<>>]]

ArenaConsole == INSTANCE Console WITH
  running <- pc # "idle", answer <- Answer, screen <- listing

(* !arena prints the three parts of its listing whole and in the order of    *)
(* the target's chains, each page and chunk once, but for those behind a     *)
(* link that cannot be read; or, if one page cannot be identified, dies and  *)
(* prints none of it; and comes to an end.                                   *)
AnswersWhole == ArenaConsole!Spec

(* A null page is followed only in an arena with a page whose vtable cannot  *)
(* be read, or for !arena 0: a page of any class BasePage::create knows      *)
(* never costs the listing, neither does any other cell that cannot be read. *)
DeathExplained ==
  /\ listing = Dead => asked = 0 \/ PagesOf(memory, asked) \cap Unlinked("vtable") # {}
  /\ described # Blank /\ described.page = Dead => HeaderOf(described.addr) \notin PagesIn(memory) \ Unlinked("vtable")
  /\ inspected # Blank /\ inspected.chunk = Dead =>
       inspected.addr = 0 \/ HeaderOf(inspected.addr) \in Unlinked("vtable")

PageLines ==
  {listing.pages.active[i] : i \in DOMAIN listing.pages.active}
    \cup {listing.pages.unswept[i] : i \in DOMAIN listing.pages.unswept}

ChunkLines ==
  UNION {{listing.chunks[b][i] : i \in DOMAIN listing.chunks[b]} : b \in FreeLists}

Listed == listing \notin {Blank, Dead} /\ asked # 0

(* The page marked with # is the one that holds the allocation point: !hpage *)
(* and !scan of the point find that page and no other.  No page is marked    *)
(* once the arena has used up a page to its end.                             *)
CurrentMarked ==
  Listed =>
    \A line \in PageLines :
      line.current <=>
        /\ {<<"vtable", asked>>, <<"current_allocation_point_", asked>>} \cap unreadable = {}
        /\ memory.kind[asked] = "NormalPageArena"
        /\ HeaderOf(memory.point[asked]) = line.page
        /\ line.from <= memory.point[asked] /\ memory.point[asked] < line.to

(* Given an address from a line of !arena, its page or any byte of the range *)
(* it prints, !hpage shows that page again and the arena (README.md:151-177).*)
(* Only of a large object no more than the first 128 KB lead back.           *)
PageAgrees ==
  Listed /\ described # Blank =>
    \A line \in PageLines :
      /\ described.addr \in line.page..(line.to - 1)
      /\ described.addr < line.page - kBlinkGuardPageSize + kBlinkPageSize
      => /\ described.page # Dead
         /\ described.page.page = line.page /\ described.page.class = line.class
         /\ described.page.from = line.from /\ described.page.to = line.to
         /\ IF line.page \in Unlinked("arena_") THEN described.page.arena = 0
            ELSE described.page.arena = asked /\ described.page.index = listing.arena.index

(* A free chunk of !arena that lies on a page it lists can be given to       *)
(* !chunk: it names that page and shows a free chunk of the listed size.     *)
ChunkAgrees ==
  Listed /\ inspected # Blank =>
    \A c \in ChunkLines, line \in PageLines :
      inspected.addr = c.addr /\ line.page < c.addr /\ c.addr < line.to =>
        /\ inspected.chunk # Dead
        /\ inspected.chunk.page = line.page /\ inspected.chunk.class = "NormalPage"
        /\ inspected.chunk.header.size = c.size
        /\ inspected.chunk.header.free = 1 \/ c.addr \in Unlinked("encoded_")

(* What !arena listed, !hpage and !chunk say of it again.                    *)
RoundTrip == PageAgrees /\ ChunkAgrees

==============================================================================
