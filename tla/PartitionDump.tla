---------------------------- MODULE PartitionDump ----------------------------
(***************************************************************************)
(* !ppage, !slot, !bucket and !spage, one after the other in any order, on *)
(* a bucket and the slot spans it owns.  The addresses one command prints  *)
(* are the arguments of the next, so what they say has to fit together.    *)
(* Any one cell of the target may be unreadable.                           *)
(***************************************************************************)
EXTENDS PartitionMap, Sequences

CONSTANTS
  Memories,      \* what the bucket and its spans can be
  Unreadables,   \* the sets of cells <<member, address>> that cannot be read
  Sentinel,      \* PartitionPage::sentinel_page_, which an empty list points at
  Args,          \* the addresses given to !slot
  ByteSwap(_)    \* of a pointer of the target: _byteswap_uint64 or _byteswap_ulong

(* m.heads are the records of spans in use, m.pages[h] the partition pages   *)
(* of span h, m.free[h] its free slots from freelist_head on, m.active the   *)
(* bucket's list of spans; m.slot_size and m.system_pages are the bucket's.  *)
SpanOf(m, h) == PayloadStart(h)..(PayloadStart(h) + m.pages[h] * kPartitionPageSize - 1)
RecordsOf(m, h) == {h + k * kPageMetadataSize : k \in 0..(m.pages[h] - 1)}

(* Where PartitionAlloc keeps records, and how far span h can reach. *)
ASSUME AddressesAssumption == Sentinel \in Nat \ {0} /\ Args \subseteq Nat

ASSUME MemoriesAssumption ==
  \A m \in Memories :
    /\ DOMAIN m.pages = m.heads /\ DOMAIN m.free = m.heads
    /\ m.active \in Seq(m.heads)
    /\ \A i, j \in DOMAIN m.active : m.active[i] = m.active[j] => i = j
    /\ m.slot_size \in Nat \ {0} /\ m.system_pages \in Nat \ {0}
    /\ \A h \in m.heads :
         /\ h \in Nat /\ h < SizeT /\ Sentinel \notin RecordsOf(m, h)
         /\ \E i \in 1..(kPagesPerSuperPage - 2) :
              /\ h = Record(SuperPageOf(h), i)
              /\ m.pages[h] \in 1..(kPagesPerSuperPage - 1 - i)
         /\ m.free[h] \in Seq(SpanOf(m, h))
         /\ \A i, j \in DOMAIN m.free[h] : m.free[h][i] = m.free[h][j] => i = j
    /\ \A g, h \in m.heads : RecordsOf(m, g) \cap RecordsOf(m, h) # {} => g = h

ASSUME ByteSwapAssumption ==
  /\ ByteSwap(0) = 0
  /\ \A m \in Memories : \A h \in m.heads : \A i \in DOMAIN m.free[h] :
       ByteSwap(ByteSwap(m.free[h][i])) = m.free[h][i]

VARIABLES
  memory, unreadable,  \* the target
  sentinel,            \* g_sentinel_page, 0 if its symbol cannot be resolved
  pc,                  \* the command that is running, or "idle"
  cursor,              \* where its loop is
  (* The screen: what the last command printed.  A !ppage stays on it while   *)
  (* its free slots are given to !slot.                                      *)
  asked, page,         \* the record !ppage was given and the one it describes, or 0
  free,                \* the free slots it printed
  rows,                \* what !bucket printed
  slot,                \* the address !slot was given, and the record it named
  table,               \* the rows !spage printed
  raised               \* the command a division by zero stopped, or "none"

target == <<memory, unreadable, sentinel>>
vars == <<target, pc, cursor, asked, page, free, rows, slot, table, raised>>

NoSlot == [addr |-> 0, page |-> 0]

Init ==
  /\ memory \in Memories /\ unreadable \in Unreadables /\ sentinel \in {0, Sentinel}
  /\ pc = "idle" /\ cursor = 0
  /\ asked = 0 /\ page = 0 /\ raised = "none"
  /\ free = <<>> /\ rows = <<>> /\ slot = NoSlot /\ table = <<>>

Read(cell, value) == IF cell \in unreadable THEN 0 ELSE value

(* The span a record belongs to; null, the sentinel and what lies outside of *)
(* the spans belong to none, and all their members are zero.                 *)
Owners(p) == {h \in memory.heads : p \in RecordsOf(memory, h)}

PageOffset(p) ==
  IF Owners(p) = {} THEN 0
  ELSE Read(<<"page_offset", p>>, (p - CHOOSE h \in Owners(p) : TRUE) \div kPageMetadataSize)

FreelistHead(p) ==
  IF p \in memory.heads /\ memory.free[p] # <<>>
  THEN Read(<<"freelist_head", p>>, memory.free[p][1]) ELSE 0

NextIn(list, x) ==
  IF \E i \in 1..(Len(list) - 1) : list[i] = x
  THEN list[(CHOOSE i \in 1..(Len(list) - 1) : list[i] = x) + 1]
  ELSE 0

NextPage(p) == Read(<<"next_page", p>>, NextIn(memory.active, p))

(* What a free slot stores of the next one in the free list of its span. *)
StoredNext(a) ==
  IF \E h \in memory.heads : a \in SpanOf(memory, h)
  THEN LET h == CHOOSE h \in memory.heads : a \in SpanOf(memory, h)
       IN  Read(<<"next", a>>, ByteSwap(NextIn(memory.free[h], a)))
  ELSE 0

Transform_None(pointer) == pointer
Transform(pointer) == ByteSwap(pointer)

(* The slot_size get_slots_per_span divides by: that of the bucket of p. *)
SlotSizeOf(p) ==
  IF p \in memory.heads /\ <<"bucket", p>> \notin unreadable
  THEN Read(<<"slot_size", 0>>, memory.slot_size) ELSE 0

------------------------------------------------------------------------------
(* Commands. *)

PPage(p) ==
  /\ pc = "idle" /\ pc' = IF p = sentinel THEN "idle" ELSE "ppage"
  /\ asked' = p /\ page' = p /\ raised' = "none"
  /\ free' = <<>> /\ rows' = <<>> /\ slot' = NoSlot /\ table' = <<>>
  /\ UNCHANGED <<target, cursor>>

IsSpan_Assumed(p) == TRUE
IsSpan(p) == PageOffset(p) = 0

(* PartitionPage::dump calls itself on the record that page_offset leads to. *)
Resolve ==
  /\ pc = "ppage" /\ ~IsSpan(page)
  /\ page' = SpanPage(page, PageOffset(page))
  /\ pc' = IF page' = sentinel THEN "idle" ELSE "ppage"
  /\ UNCHANGED <<target, cursor, asked, free, rows, slot, table, raised>>

Describe ==
  /\ pc = "ppage" /\ IsSpan(page)
  /\ IF SlotSizeOf(page) = 0
     THEN pc' = "idle" /\ raised' = "ppage" /\ UNCHANGED cursor
     ELSE pc' = "free" /\ cursor' = FreelistHead(page) /\ UNCHANGED raised
  /\ UNCHANGED <<target, asked, page, free, rows, slot, table>>

FreeSlot ==
  /\ pc = "free" /\ cursor # 0
  /\ free' = Append(free, cursor)
  /\ cursor' = Transform(StoredNext(cursor))
  /\ UNCHANGED <<target, pc, asked, page, rows, slot, table, raised>>

Slot(a) ==
  /\ pc = "idle"
  /\ slot' = [addr |-> a, page |-> SpanPage(PageOfSlot(a), PageOffset(PageOfSlot(a)))]
  /\ rows' = <<>> /\ table' = <<>> /\ raised' = "none"
  /\ UNCHANGED <<target, pc, cursor, asked, page, free>>

(* Row i of the table is for partition page i; the first one is metadata. *)
SPage(a) ==
  /\ pc = "idle" /\ raised' = "none"
  /\ table' = [i \in 1..(kPagesPerSuperPage - 1) |-> RowOfSuperPage(SuperPageOf(a), i)]
  /\ asked' = 0 /\ page' = 0 /\ free' = <<>> /\ rows' = <<>> /\ slot' = NoSlot
  /\ UNCHANGED <<target, pc, cursor>>

(* The slot size is divided by before anything is listed. *)
Bucket ==
  /\ pc = "idle"
  /\ IF Read(<<"slot_size", 0>>, memory.slot_size) = 0
     THEN raised' = "bucket" /\ UNCHANGED <<pc, cursor>>
     ELSE LET head == Read(<<"active_pages_head", 0>>,
                          IF memory.active = <<>> THEN Sentinel ELSE memory.active[1])
          IN /\ raised' = "none"
             /\ cursor' = IF head = sentinel THEN 0 ELSE head
             /\ pc' = "bucket"
  /\ asked' = 0 /\ page' = 0
  /\ free' = <<>> /\ rows' = <<>> /\ slot' = NoSlot /\ table' = <<>>
  /\ UNCHANGED target

PageRow(p) == [super |-> SuperPageOf(p), index |-> PageIndex(p), page |-> p]

ActivePage ==
  /\ pc = "bucket" /\ cursor # 0
  /\ rows' = Append(rows, PageRow(cursor))
  /\ cursor' = NextPage(cursor)
  /\ UNCHANGED <<target, pc, asked, page, free, slot, table, raised>>

ChainEnd ==
  /\ pc \in {"free", "bucket"} /\ cursor = 0
  /\ pc' = "idle"
  /\ UNCHANGED <<target, cursor, asked, page, free, rows, slot, table, raised>>

Run == Resolve \/ Describe \/ FreeSlot \/ ActivePage \/ ChainEnd

Next ==
  \/ \E h \in memory.heads : \E p \in RecordsOf(memory, h) \cup {0, Sentinel} : PPage(p)
  \/ \E a \in Args : Slot(a) \/ SPage(a)
  \/ \E i \in DOMAIN free : Slot(free[i])
  \/ Bucket
  \/ Run

(* Commands, once started, run to their end; nothing in them waits. *)
Spec == Init /\ [][Next]_vars /\ WF_vars(Run)

------------------------------------------------------------------------------
(* Properties. *)

UpToUnreadable(list, member) ==
  LET stops == {i \in DOMAIN list : <<member, list[i]>> \in unreadable}
  IN  IF stops = {} THEN list
      ELSE SubSeq(list, 1, CHOOSE i \in stops : \A j \in stops : i <= j)

IsPrefixOf(s, t) == Len(s) <= Len(t) /\ s = SubSeq(t, 1, Len(s))

FreeSlots ==
  IF <<"freelist_head", page>> \in unreadable THEN <<>> ELSE UpToUnreadable(memory.free[page], "next")

(* !ppage, given any record of a span, lists the free slots of that span in  *)
(* the order of its free list, each once, and misses none but those behind a *)
(* link that cannot be read; what it lists at no time strays from the list.  *)
FreeListShown ==
  \A h \in memory.heads :
    asked \in RecordsOf(memory, h) /\ <<"page_offset", asked>> \notin unreadable =>
      /\ page \in {asked, h}
      /\ page # h => free = <<>>
      /\ page = h =>
           /\ IsPrefixOf(free, FreeSlots)
           /\ pc = "idle" /\ SlotSizeOf(h) # 0 => free = FreeSlots
      /\ pc = "idle" => page = h

(* A free slot that !ppage printed, given to !slot, leads back to the record *)
(* !ppage described (README.md:72-84), as does any address of that span.     *)
RoundTrip ==
  \A h \in memory.heads :
    /\ slot.addr \in SpanOf(memory, h)
    /\ <<"page_offset", PageOfSlot(slot.addr)>> \notin unreadable
    => slot.page = h

(* With its symbol missing, the sentinel of an empty list passes for a page. *)
ActivePages ==
  IF memory.active = <<>> /\ sentinel = 0 /\ <<"active_pages_head", 0>> \notin unreadable
  THEN <<Sentinel>>
  ELSE IF <<"active_pages_head", 0>> \in unreadable THEN <<>> ELSE UpToUnreadable(memory.active, "next_page")

(* !bucket lists the records of the active spans in order, each with the     *)
(* super page and the index that !slot prints for the first slot of the span. *)
BucketShown ==
  /\ \A i \in DOMAIN rows : rows[i].page \in memory.heads =>
       LET first == PayloadStart(rows[i].page) IN
         rows[i].super = SuperPageOf(first) /\ rows[i].index = SlotIndex(first)
  /\ LET printed == [i \in DOMAIN rows |-> rows[i].page] IN
       /\ IsPrefixOf(printed, ActivePages)
       /\ pc = "bucket" /\ cursor = 0 => printed = ActivePages

(* A command is stopped by the division only if it was given null, or the    *)
(* bucket, its slot size or a page_offset cannot be read: every record of    *)
(* every span is safe to ask about.                                          *)
RaisedExplained ==
  /\ raised = "bucket" => <<"slot_size", 0>> \in unreadable
  /\ raised = "ppage" =>
       \/ asked = 0 \/ (asked = Sentinel /\ sentinel = 0)
       \/ {<<"slot_size", 0>>, <<"bucket", page>>, <<"page_offset", page>>} \cap unreadable # {}

(* The table of !spage agrees with the other commands: !slot finds the       *)
(* record of a row from its address, and !ppage the address from the record. *)
SuperPageAgrees ==
  \A i \in DOMAIN table :
    PageOfSlot(table[i].addr) = table[i].page /\ PayloadStart(table[i].page) = table[i].addr

(* Every command comes to its end. *)
CommandEnds == (pc # "idle") ~> (pc = "idle")

==============================================================================
