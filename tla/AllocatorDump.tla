---------------------------- MODULE AllocatorDump ----------------------------
(***************************************************************************)
(* What an allocator command lists of a partition, once it knows where its *)
(* root and its buckets are (Allocators.tla says when it does): the chain  *)
(* of extents, each a run of super pages, the chain of direct mapped       *)
(* extents with the sizes of their buckets, and with -buckets every bucket *)
(* with its active pages.                                                  *)
(***************************************************************************)
EXTENDS PartitionMap, Chains

CONSTANTS
  Memories,      \* what a partition can hold
  Unreadables,   \* the sets of cells <<member, address>> that cannot be read
  Sentinel,      \* PartitionPage::sentinel_page_, which an empty list points at
  bucket_count_, bucket_size_,  \* of the array of buckets
  Word,          \* 2^64, where a difference of addresses wraps around
  Blank,         \* nothing printed yet
  SentinelLine   \* the line "g_sentinel_page"

kGenericSmallestBucket == 8

(* m.allocator is the address given; its buckets begin at that plus          *)
(* m.buckets.  m.extents are the runs of super pages from m.base[e] to       *)
(* m.end[e], m.direct the direct mapped extents with their m.bucket[d].      *)
(* Bucket b has m.slot_size[b] and the list of records m.active[b];          *)
(* m.unprovisioned[p] are the slots of page p never used.  A run has fewer   *)
(* super pages than a uint32_t counts (NumPages), and nothing is mapped      *)
(* where the buckets of a null allocator would be.                           *)
BucketAt(allocator, m, i) == allocator + m.buckets + i * bucket_size_
Buckets(m) == {BucketAt(m.allocator, m, i) : i \in 0..(bucket_count_ - 1)}
PagesOf(m, b) == {m.active[b][k] : k \in DOMAIN m.active[b]}

ASSUME CountsAssumption ==
  bucket_count_ \in Nat \ {0} /\ bucket_size_ \in Nat \ {0} /\ Sentinel \in Nat \ {0} /\ SizeT <= Word /\ Word \in Nat

ASSUME MemoriesAssumption ==
  \A m \in Memories :
    /\ m.allocator \in Nat \ {0} /\ m.buckets \in Nat
    /\ m.extents \in Seq(Nat \ {0}) /\ Distinct(m.extents)
    /\ m.direct \in Seq(Nat \ {0}) /\ Distinct(m.direct)
    /\ \A k \in DOMAIN m.extents :
         LET e == m.extents[k] IN
         /\ m.base[e] \in Nat \ {0} /\ m.end[e] \in Nat /\ m.base[e] < m.end[e] /\ m.end[e] <= SizeT
         /\ m.base[e] % kSuperPageSize = 0 /\ m.end[e] % kSuperPageSize = 0
         /\ (m.end[e] - m.base[e]) \div kSuperPageSize < UInt32
    /\ \A k \in DOMAIN m.direct : m.slot_size[m.bucket[m.direct[k]]] \in Nat
    /\ \A b \in Buckets(m) :
         /\ m.slot_size[b] \in Nat \ {0} /\ m.active[b] \in Seq(Nat \ {0, Sentinel}) /\ Distinct(m.active[b])
         /\ \A p \in PagesOf(m, b) : \E k \in DOMAIN m.extents : m.base[m.extents[k]] < p /\ p < m.end[m.extents[k]]
         /\ m.slot_size[b] % kGenericSmallestBucket # 0 => m.active[b] = <<>>
    /\ \A b, c \in Buckets(m) : PagesOf(m, b) \cap PagesOf(m, c) # {} => b = c
    /\ Buckets(m) \subseteq DOMAIN m.slot_size
    /\ \A i \in 0..(bucket_count_ - 1) : BucketAt(0, m, i) \notin DOMAIN m.slot_size

ASSUME CellsAssumption == \A u \in Unreadables : \A c \in u : c = <<c[1], c[2]>>

VARIABLES
  memory, unreadable,  \* the target
  sentinel,            \* g_sentinel_page, 0 if its symbol cannot be resolved
  pc,                  \* the part of the command that runs, or "idle"
  allocator, dump_buckets,  \* what it was asked for
  root,                \* the two pointers PartitionRootBase::load found
  cursor, row,         \* its loops
  extents, directs, buckets,  \* the string it writes to
  listing              \* the screen

target == <<memory, unreadable, sentinel>>
asked == <<allocator, dump_buckets, root>>
output == <<extents, directs, buckets>>
vars == <<target, pc, asked, cursor, row, output, listing>>

Read(member, addr, value) == IF <<member, addr>> \in unreadable THEN 0 ELSE value
First(list) == IF list = <<>> THEN 0 ELSE list[1]

------------------------------------------------------------------------------
(* The parts of a partition. *)

NextExtent(e) == Read("next", e, NextIn(memory.extents, e))
NextDirect_Prev(d) == IF \E k \in DOMAIN memory.direct : k > 1 /\ memory.direct[k] = d
                      THEN memory.direct[(CHOOSE k \in DOMAIN memory.direct : memory.direct[k] = d) - 1] ELSE 0
NextDirect(d) == Read("next_extent", d, NextIn(memory.direct, d))

SlotSize(b) == IF b \in DOMAIN memory.slot_size THEN Read("slot_size", b, memory.slot_size[b]) ELSE 0
IsValid(b) == SlotSize(b) % kGenericSmallestBucket = 0

(* What active_pages_head of a bucket holds.  Where there is no bucket,      *)
(* nothing can be read.                                                      *)
ActiveHead(b) ==
  IF b \notin Buckets(memory) THEN 0
  ELSE Read("active_pages_head", b, IF memory.active[b] = <<>> THEN Sentinel ELSE memory.active[b][1])

BucketWith(p) == CHOOSE b \in Buckets(memory) : p \in PagesOf(memory, b)
IsPage(p) == \E b \in Buckets(memory) : p \in PagesOf(memory, b)

NextPage(p) == IF IsPage(p) THEN Read("next_page", p, NextIn(memory.active[BucketWith(p)], p)) ELSE 0
Unprovisioned(p) == IF IsPage(p) THEN Read("num_unprovisioned_slots", p, memory.unprovisioned[p]) ELSE 0

NumPages_Inclusive(from, to) == (((to - from) % Word) \div kSuperPageSize + 1) % UInt32
(* An int in the code; this is what its bits say. *)
NumPages(from, to) == (((to - from) % Word) \div kSuperPageSize) % UInt32

ExtentLine(e) ==
  LET from == Read("super_page_base", e, memory.base[e])
      to == Read("super_pages_end", e, memory.end[e])
  IN  [from |-> from, to |-> to, pages |-> NumPages(from, to)]

DirectLine(d) ==
  LET b == Read("bucket", d, memory.bucket[d]) IN [bucket |-> b, slot_size |-> SlotSize(b)]

(* A page, marked with ! if the first page of the list, which the loop       *)
(* starts from, has slots never used.                                        *)
PageLine(head, p) == [page |-> p, mark |-> Unprovisioned(head) > 0]

Init ==
  /\ memory \in Memories /\ unreadable \in Unreadables /\ sentinel \in {0, Sentinel}
  /\ pc = "idle" /\ allocator = 0 /\ dump_buckets = FALSE
  /\ root = [first_extent |-> 0, direct_map_list |-> 0] /\ cursor = 0 /\ row = 0
  /\ extents = <<>> /\ directs = <<>> /\ buckets = <<>> /\ listing = Blank

------------------------------------------------------------------------------
(* The command. *)

Root(a) ==
  [first_extent    |-> IF a = 0 THEN 0 ELSE Read("first_extent", a, First(memory.extents)),
   direct_map_list |-> IF a = 0 THEN 0 ELSE Read("direct_map_list", a, First(memory.direct))]

Command(a, with_buckets) ==
  /\ pc = "idle" /\ pc' = "extents"
  /\ allocator' = a /\ dump_buckets' = with_buckets /\ root' = Root(a)
  /\ cursor' = root'.first_extent /\ row' = 0
  /\ extents' = <<>> /\ directs' = <<>> /\ buckets' = <<>> /\ listing' = Blank
  /\ UNCHANGED target

DumpExtent ==
  /\ pc = "extents" /\ cursor # 0
  /\ extents' = Append(extents, ExtentLine(cursor))
  /\ cursor' = NextExtent(cursor)
  /\ UNCHANGED <<target, pc, asked, row, directs, buckets, listing>>

ExtentsDone ==
  /\ pc = "extents" /\ cursor = 0
  /\ pc' = "direct" /\ cursor' = root.direct_map_list
  /\ UNCHANGED <<target, asked, row, output, listing>>

DumpDirect ==
  /\ pc = "direct" /\ cursor # 0
  /\ directs' = Append(directs, DirectLine(cursor))
  /\ cursor' = NextDirect(cursor)
  /\ UNCHANGED <<target, pc, asked, row, extents, buckets, listing>>

DirectsDone ==
  /\ pc = "direct" /\ cursor = 0 /\ dump_buckets
  /\ pc' = "buckets"
  /\ UNCHANGED <<target, asked, cursor, row, output, listing>>

(* A turn of the loop in dump_buckets; PartitionPage::dump_pages looks for   *)
(* the sentinel before it follows the list.                                  *)
DumpBucket ==
  /\ pc = "buckets" /\ row < bucket_count_
  /\ row' = row + 1
  /\ LET b == BucketAt(allocator, memory, row) IN
       IF ~IsValid(b) THEN UNCHANGED <<pc, cursor, buckets>>
       ELSE /\ buckets' = Append(buckets, [index |-> row, addr |-> b, slot_size |-> SlotSize(b),
                                           pages |-> IF ActiveHead(b) = sentinel THEN SentinelLine ELSE <<>>])
            /\ IF ActiveHead(b) = sentinel THEN UNCHANGED <<pc, cursor>> ELSE pc' = "pages" /\ cursor' = ActiveHead(b)
  /\ UNCHANGED <<target, asked, extents, directs, listing>>

DumpPage ==
  /\ pc = "pages" /\ cursor # 0
  /\ LET head == ActiveHead(BucketAt(allocator, memory, row - 1)) IN
       buckets' = [buckets EXCEPT ![Len(buckets)].pages = Append(@, PageLine(head, cursor))]
  /\ cursor' = NextPage(cursor)
  /\ UNCHANGED <<target, pc, asked, row, extents, directs, listing>>

PagesDone ==
  /\ pc = "pages" /\ cursor = 0
  /\ pc' = "buckets"
  /\ UNCHANGED <<target, asked, cursor, row, output, listing>>

ShowListing ==
  /\ \/ pc = "direct" /\ cursor = 0 /\ ~dump_buckets
     \/ pc = "buckets" /\ row = bucket_count_
  /\ pc' = "idle" /\ listing' = [extents |-> extents, directs |-> directs, buckets |-> buckets]
  /\ UNCHANGED <<target, asked, cursor, row, output>>

Run ==
  \/ DumpExtent \/ ExtentsDone \/ DumpDirect \/ DirectsDone
  \/ DumpBucket \/ DumpPage \/ PagesDone \/ ShowListing

Next ==
  \/ \E a \in {0, memory.allocator}, with_buckets \in BOOLEAN : Command(a, with_buckets)
  \/ Run

(* A command, once started, runs to its end; nothing in it waits. *)
Spec == Init /\ [][Next]_vars /\ WF_vars(Run)

------------------------------------------------------------------------------
(* Properties. *)

Unlinked(member) == {c[2] : c \in {d \in unreadable : d[1] = member}}

ExtentsRead ==
  IF allocator \in {0} \cup Unlinked("first_extent") THEN <<>> ELSE UpTo(memory.extents, Unlinked("next"))
DirectsRead ==
  IF allocator \in {0} \cup Unlinked("direct_map_list") THEN <<>> ELSE UpTo(memory.direct, Unlinked("next_extent"))

Lines(pages) == [k \in DOMAIN pages |-> PageLine(pages[1], pages[k])]

(* An empty list shows as the sentinel's name, or as a page if its address   *)
(* is not known; then what cannot be read passes for the sentinel.           *)
PagesRead(b) ==
  IF allocator = 0 \/ b \in Unlinked("active_pages_head")
  THEN IF sentinel = 0 THEN SentinelLine ELSE <<>>
  ELSE IF memory.active[b] # <<>> THEN Lines(UpTo(memory.active[b], Unlinked("next_page")))
  ELSE IF sentinel = 0 THEN Lines(<<Sentinel>>) ELSE SentinelLine

Unused(i) ==
  /\ allocator # 0 /\ BucketAt(allocator, memory, i) \notin Unlinked("slot_size")
  /\ memory.slot_size[BucketAt(allocator, memory, i)] % kGenericSmallestBucket # 0

Answer ==
  [extents |-> [k \in DOMAIN ExtentsRead |-> ExtentLine(ExtentsRead[k])],
   directs |-> [k \in DOMAIN DirectsRead |-> DirectLine(DirectsRead[k])],
   buckets |->
     IF ~dump_buckets THEN <<>>
     ELSE LET used == Ascending({i \in 0..(bucket_count_ - 1) : ~Unused(i)})
          IN  [k \in DOMAIN used |->
                 LET b == BucketAt(allocator, memory, used[k]) IN
                 [index |-> used[k], addr |-> b, slot_size |-> SlotSize(b), pages |-> PagesRead(b)]]]

AllocatorConsole == INSTANCE Console WITH
  running <- pc # "idle", answer <- Answer, screen <- listing

(* An allocator command lists both chains of extents and every bucket in     *)
(* use, each with its own pages in order; only what lies behind a pointer    *)
(* that cannot be read is missing; and it comes to an end.                   *)
AllocatorWhole == AllocatorConsole!Spec

PagesShown(i) ==
  IF listing.buckets[i].pages = SentinelLine THEN {}
  ELSE {listing.buckets[i].pages[k].page : k \in DOMAIN listing.buckets[i].pages} \ {Sentinel}

(* In a listing whose extents could be read, every active page lies in one   *)
(* of the extents, which is as many super pages long as the listing says;    *)
(* no page is in two buckets (README.md:51-62).                              *)
PagesInExtents ==
  listing # Blank =>
    /\ \A i, j \in DOMAIN listing.buckets : PagesShown(i) \cap PagesShown(j) # {} => i = j
    /\ {"first_extent", "next", "super_page_base", "super_pages_end"} \cap {c[1] : c \in unreadable} = {} =>
         /\ \A k \in DOMAIN listing.extents :
              listing.extents[k].to = listing.extents[k].from + listing.extents[k].pages * kSuperPageSize
         /\ \A i \in DOMAIN listing.buckets : \A p \in PagesShown(i) : \E k \in DOMAIN listing.extents :
              SuperPageOf(p) \in listing.extents[k].from..(listing.extents[k].to - kSuperPageSize)

(* A bucket whose pages are all used up to the last slot shows no !.         *)
MarksSound ==
  listing # Blank =>
    \A i \in DOMAIN listing.buckets :
      (\A p \in PagesShown(i) : memory.unprovisioned[p] = 0) =>
        listing.buckets[i].pages = SentinelLine
          \/ \A k \in DOMAIN listing.buckets[i].pages : ~listing.buckets[i].pages[k].mark

(* What a listing says of the pages it shows is so.                          *)
ListingSound == PagesInExtents /\ MarksSound

==============================================================================
