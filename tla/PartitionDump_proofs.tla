------------------------ MODULE PartitionDump_proofs ------------------------
(***************************************************************************)
(* !ppage, !slot, !bucket and !spage, proved for every super page, span,    *)
(* address and unreadable cell: a slot leads back to the span it is in, the *)
(* free slots and the active pages are shown as far as they can be read,    *)
(* and a division by zero has one of the known causes.                      *)
(***************************************************************************)
EXTENDS PartitionDump, TLAPS, WellFoundedInduction, SequenceTheorems

(* A number below the modulus is its own remainder. *)
LEMMA SmallMod ==
  ASSUME NEW m \in Nat \ {0}, NEW x \in 0..(m - 1)
  PROVE  x % m = x
BY SMT

(* A super page that starts below SizeT ends below it. *)
LEMMA SuperPageWhole ==
  ASSUME NEW a \in Nat, a < SizeT
  PROVE  /\ SuperPageOf(a) = a - (a % kSuperPageSize)
         /\ SuperPageOf(a) \in Nat
         /\ SuperPageOf(a) % kSuperPageSize = 0
         /\ SuperPageOf(a) + kSuperPageSize <= SizeT
<1>1. SizeT \in Nat \ {0} /\ SizeT % kSuperPageSize = 0
  BY WordsAssumption
<1>2. a % SizeT = a
  BY <1>1, SmallMod, SMT
<1>3. SuperPageOf(a) = a - (a % kSuperPageSize)
  BY <1>2, SMT DEF SuperPageOf
<1>. QED
  BY <1>1, <1>3, SMT DEF kSuperPageSize

(* What lies within a super page has its base and its distance from it. *)
LEMMA WithinSuperPage ==
  ASSUME NEW s \in Nat, s % kSuperPageSize = 0, s + kSuperPageSize <= SizeT,
         NEW d \in Nat, d < kSuperPageSize
  PROVE  SuperPageOf(s + d) = s /\ (s + d) % kSuperPageSize = d
<1>1. (s + d) % kSuperPageSize = d
  BY SMT DEF kSuperPageSize
<1>2. s + d \in Nat /\ s + d < SizeT
  BY WordsAssumption, SMT DEF kSuperPageSize
<1>3. SuperPageOf(s + d) = (s + d) - ((s + d) % kSuperPageSize)
  BY <1>2, SuperPageWhole, SMT
<1>. QED
  BY <1>1, <1>3, SMT

(* The record of a partition page leads to the page, and the page to it. *)
LEMMA RecordLeadsToPage ==
  ASSUME NEW s \in Nat, s % kSuperPageSize = 0, s + kSuperPageSize <= SizeT,
         NEW i \in 0..(kPagesPerSuperPage - 1)
  PROVE  /\ SuperPageOf(Record(s, i)) = s
         /\ PageIndex(Record(s, i)) = i
         /\ PayloadStart(Record(s, i)) = s + i * kPartitionPageSize
<1>1. SuperPageOf(s + (kSystemPageSize + i * kPageMetadataSize)) = s
  <2>. i \in Nat /\ i < 128
    BY SMT DEF kPagesPerSuperPage
  <2>1. /\ kSystemPageSize + i * kPageMetadataSize \in Nat
        /\ kSystemPageSize + i * kPageMetadataSize < kSuperPageSize
    BY SMT DEF kSystemPageSize, kPageMetadataSize, kSuperPageSize, kPagesPerSuperPage
  <2>. QED BY <2>1, WithinSuperPage, SMT
<1>2. Record(s, i) = s + (kSystemPageSize + i * kPageMetadataSize)
  BY SMT DEF Record, kSystemPageSize, kPageMetadataSize, kPagesPerSuperPage
<1>3. SuperPageOf(Record(s, i)) = s
  BY <1>1, <1>2, SMT
<1>4. UInt32 \in Nat \ {0} /\ UInt32 >= kSuperPageSize
  BY WordsAssumption, SMT DEF kSuperPageSize
<1>5. (Record(s, i) - s - kSystemPageSize) \div kPageMetadataSize = i
  BY SMT DEF Record, kSystemPageSize, kPageMetadataSize, kPagesPerSuperPage
<1>6. PageIndex(Record(s, i)) = i
  <2>1. i \in 0..(UInt32 - 1)
    BY <1>4, SMT DEF kPagesPerSuperPage, kSuperPageSize
  <2>2. i % UInt32 = i
    BY <1>4, <2>1, SmallMod, SMT
  <2>. QED BY <1>3, <1>5, <2>2, SMT DEF PageIndex
<1>7. (i * kPartitionPageSize) % UInt32 = i * kPartitionPageSize
  <2>1. i * kPartitionPageSize \in 0..(UInt32 - 1)
    BY <1>4, SMT DEF kPartitionPageSize, kPagesPerSuperPage, kSuperPageSize
  <2>. QED BY <1>4, <2>1, SmallMod, SMT
<1>. QED
  BY <1>3, <1>6, <1>7, SMT DEF PayloadStart

(* An address in a run of n partition pages that starts with page i of a     *)
(* super page has its own record among those of the run.                     *)
LEMMA AddressInRun ==
  ASSUME NEW s \in Nat, s % kSuperPageSize = 0, s + kSuperPageSize <= SizeT,
         NEW i \in Nat, NEW n \in Nat, i + n < kPagesPerSuperPage,
         NEW a \in Nat, s + i * kPartitionPageSize <= a, a < s + (i + n) * kPartitionPageSize
  PROVE  \E k \in 0..(n - 1) : PageOfSlot(a) = Record(s, i) + k * kPageMetadataSize
<1> DEFINE d == a - s
           k == (d \div kPartitionPageSize) - i
<1>1. d \in Nat /\ d < kSuperPageSize /\ a = s + d
  BY SMT DEF kPartitionPageSize, kPagesPerSuperPage, kSuperPageSize
<1>2. SuperPageOf(s + d) = s /\ (s + d) % kSuperPageSize = d
  <2>. HIDE DEF d
  <2>. QED BY <1>1, WithinSuperPage, SMT
<1>3. k \in 0..(n - 1)
  BY <1>1, SMT DEF kPartitionPageSize, kPagesPerSuperPage, kSuperPageSize
<1>4. SlotIndex(a) = i + k
  BY <1>1, <1>2, SMT DEF SlotIndex, kPartitionPageSize
<1>5. PageOfSlot(a) = Record(s, i + k)
  <2>. HIDE DEF d, k
  <2>. QED BY <1>1, <1>2, <1>4, SMT DEF PageOfSlot
<1>6. Record(s, i + k) = Record(s, i) + k * kPageMetadataSize
  <2>. HIDE DEF k
  <2>. QED BY <1>3, SMT DEF Record, kSystemPageSize, kPageMetadataSize
<1>. QED
  <2>. HIDE DEF k
  <2>. QED BY <1>3, <1>5, <1>6, SMT

(* What MemoriesAssumption says of the first record of a span. *)
LEMMA HeadFacts ==
  ASSUME NEW m \in Memories, NEW h \in m.heads
  PROVE  /\ h \in Nat /\ h < SizeT
         /\ m.pages[h] \in Nat
         /\ \E i \in Nat : /\ h = Record(SuperPageOf(h), i) /\ i >= 1
                          /\ i + m.pages[h] < kPagesPerSuperPage
<1>1. h \in Nat /\ h < SizeT
  BY MemoriesAssumption
<1>2. PICK i \in 1..(kPagesPerSuperPage - 2) :
        h = Record(SuperPageOf(h), i) /\ m.pages[h] \in 1..(kPagesPerSuperPage - 1 - i)
  BY MemoriesAssumption
<1>3. i \in Nat /\ i >= 1 /\ m.pages[h] \in Nat /\ i + m.pages[h] < kPagesPerSuperPage
  BY <1>2, SMT DEF kPagesPerSuperPage
<1>. QED
  BY <1>1, <1>2, <1>3

(* The partition page of an address in a span has one of its records. *)
LEMMA AddressInSpan ==
  ASSUME NEW m \in Memories, NEW h \in m.heads, NEW a \in SpanOf(m, h)
  PROVE  /\ a \in Nat /\ a > 0
         /\ \E k \in 0..(m.pages[h] - 1) : PageOfSlot(a) = h + k * kPageMetadataSize
<1> DEFINE s == SuperPageOf(h)
           n == m.pages[h]
<1>1. PICK i \in Nat : h = Record(s, i) /\ i >= 1 /\ i + n < kPagesPerSuperPage
  BY HeadFacts
<1>2. h \in Nat /\ h < SizeT /\ n \in Nat
  BY HeadFacts
<1>3. s \in Nat /\ s % kSuperPageSize = 0 /\ s + kSuperPageSize <= SizeT
  BY <1>2, SuperPageWhole
<1>. HIDE DEF s
<1>4. PayloadStart(h) = s + i * kPartitionPageSize
  <2>1. i \in 0..(kPagesPerSuperPage - 1)
    BY <1>1, <1>2, SMT DEF kPagesPerSuperPage
  <2>2. PayloadStart(Record(s, i)) = s + i * kPartitionPageSize
    BY <1>3, <2>1, RecordLeadsToPage
  <2>. QED BY <1>1, <2>2
<1>5. a \in PayloadStart(h)..(PayloadStart(h) + n * kPartitionPageSize - 1)
  BY DEF SpanOf
<1>. HIDE DEF n
<1>6. /\ a \in Nat /\ a > 0
      /\ s + i * kPartitionPageSize <= a /\ a < s + (i + n) * kPartitionPageSize
  BY <1>1, <1>2, <1>3, <1>4, <1>5, SMT DEF kPartitionPageSize
<1>7. \E k \in 0..(n - 1) : PageOfSlot(a) = Record(s, i) + k * kPageMetadataSize
  BY <1>1, <1>2, <1>3, <1>6, AddressInRun
<1>. QED
  BY <1>1, <1>6, <1>7 DEF n

(* What page_offset of a record of a span reads as. *)
LEMMA OffsetOfRecord ==
  ASSUME memory \in Memories, NEW h \in memory.heads, NEW k \in 0..(memory.pages[h] - 1)
  PROVE  PageOffset(h + k * kPageMetadataSize) = Read(<<"page_offset", h + k * kPageMetadataSize>>, k)
<1> DEFINE p == h + k * kPageMetadataSize
<1>1. h \in Nat /\ memory.pages[h] \in Nat
  BY HeadFacts
<1>2. p \in RecordsOf(memory, h)
  BY DEF RecordsOf
<1>3. \A g \in memory.heads : p \in RecordsOf(memory, g) => g = h
  <2>. SUFFICES ASSUME NEW g \in memory.heads, p \in RecordsOf(memory, g) PROVE g = h
    OBVIOUS
  <2>1. RecordsOf(memory, g) \cap RecordsOf(memory, h) # {}
    BY <1>2
  <2>. HIDE DEF p
  <2>. QED BY <2>1, MemoriesAssumption
<1>4. Owners(p) = {h}
  <2>. HIDE DEF p
  <2>. QED BY <1>2, <1>3 DEF Owners
<1>5. (CHOOSE g \in Owners(p) : TRUE) = h
  BY <1>4
<1>6. (p - h) \div kPageMetadataSize = k
  BY <1>1, SMT DEF kPageMetadataSize
<1>. HIDE DEF p
<1>7. PageOffset(p) = Read(<<"page_offset", p>>, (p - h) \div kPageMetadataSize)
  BY <1>4, <1>5 DEF PageOffset
<1>. QED
  BY <1>6, <1>7 DEF p

(* A record of a span leads to the span, if its page_offset can be read. *)
LEMMA RecordLeadsToSpan ==
  ASSUME memory \in Memories, NEW h \in memory.heads, NEW k \in 0..(memory.pages[h] - 1),
         <<"page_offset", h + k * kPageMetadataSize>> \notin unreadable
  PROVE  SpanPage(h + k * kPageMetadataSize, PageOffset(h + k * kPageMetadataSize)) = h
<1>1. h \in Nat /\ memory.pages[h] \in Nat
  BY HeadFacts
<1>2. PageOffset(h + k * kPageMetadataSize) = k
  BY OffsetOfRecord DEF Read
<1>3. k \in Nat
  BY <1>1, SMT
<1>. QED
  BY <1>1, <1>2, <1>3, SMT DEF SpanPage, kPageMetadataSize

(* The first record of a span is not null, one of the span's, and what it    *)
(* says of itself, readable or not, is that it is the first.                 *)
LEMMA HeadOfSpan ==
  ASSUME memory \in Memories, NEW h \in memory.heads
  PROVE  h \in Nat /\ h # 0 /\ h # Sentinel /\ h \in RecordsOf(memory, h) /\ PageOffset(h) = 0
<1>1. PICK i \in Nat : h = Record(SuperPageOf(h), i) /\ i >= 1 /\ i + memory.pages[h] < kPagesPerSuperPage
  BY HeadFacts
<1>2. h \in Nat /\ h < SizeT /\ memory.pages[h] \in Nat /\ memory.pages[h] >= 1
  <2>1. \E n \in 1..(kPagesPerSuperPage - 2) : memory.pages[h] \in 1..(kPagesPerSuperPage - 1 - n)
    BY MemoriesAssumption
  <2>. QED BY <2>1, HeadFacts, SMT DEF kPagesPerSuperPage
<1>3. SuperPageOf(h) \in Nat
  BY <1>2, SuperPageWhole
<1>4. h # 0
  BY <1>1, <1>3, SMT DEF Record, kSystemPageSize, kPageMetadataSize
<1>5. 0 \in 0..(memory.pages[h] - 1) /\ h + 0 * kPageMetadataSize = h
  BY <1>2, SMT DEF kPageMetadataSize
<1>6. h \in RecordsOf(memory, h)
  BY <1>5 DEF RecordsOf
<1>7. PageOffset(h) = Read(<<"page_offset", h>>, 0)
  BY <1>5, OffsetOfRecord
<1>8. h # Sentinel
  BY <1>6, MemoriesAssumption
<1>. QED
  BY <1>2, <1>4, <1>6, <1>7, <1>8 DEF Read

(* A record of a span that passes for the first one is the first one, or its *)
(* page_offset cannot be read; any other leads to the first one.             *)
LEMMA SpanOrUnreadable ==
  ASSUME memory \in Memories, NEW h \in memory.heads, NEW p \in RecordsOf(memory, h),
         <<"page_offset", p>> \notin unreadable
  PROVE  /\ SpanPage(p, PageOffset(p)) = h
         /\ IsSpan(p) => p = h
<1>1. PICK k \in 0..(memory.pages[h] - 1) : p = h + k * kPageMetadataSize
  BY DEF RecordsOf
<1>2. SpanPage(p, PageOffset(p)) = h
  BY <1>1, RecordLeadsToSpan
<1>3. h \in Nat /\ p \in Nat
  <2>1. h \in Nat /\ memory.pages[h] \in Nat
    BY HeadFacts
  <2>. QED BY <1>1, <2>1, SMT DEF kPageMetadataSize
<1>4. IsSpan(p) => p = h
  BY <1>2, <1>3, SMT DEF IsSpan, SpanPage, kPageMetadataSize
<1>. QED
  BY <1>2, <1>4

------------------------------------------------------------------------------
(* !slot. *)

Named(a) == SpanPage(PageOfSlot(a), PageOffset(PageOfSlot(a)))

(* The record on the screen is the one the geometry gives for the address. *)
SlotInv == memory \in Memories /\ (slot.addr # 0 => slot.page = Named(slot.addr))

(* If !slot has named the record its lookup finds, it is the right one. *)
LEMMA SlotInvImplies == SlotInv => RoundTrip
<1>. SUFFICES ASSUME SlotInv, NEW h \in memory.heads, slot.addr \in SpanOf(memory, h),
                     <<"page_offset", PageOfSlot(slot.addr)>> \notin unreadable
              PROVE  slot.page = h
  BY DEF RoundTrip
<1>. memory \in Memories
  BY DEF SlotInv
<1>1. PICK k \in 0..(memory.pages[h] - 1) : PageOfSlot(slot.addr) = h + k * kPageMetadataSize
  BY AddressInSpan
<1>2. slot.addr # 0
  <2>1. slot.addr \in Nat /\ slot.addr > 0
    BY AddressInSpan
  <2>. QED BY <2>1, SMT
<1>3. SpanPage(h + k * kPageMetadataSize, PageOffset(h + k * kPageMetadataSize)) = h
  BY <1>1, RecordLeadsToSpan
<1>. QED
  BY <1>1, <1>2, <1>3 DEF SlotInv, Named

(* Any address of a span, and so every free slot !ppage lists, leads !slot   *)
(* back to the record that describes the span, in all memories that          *)
(* PartitionAlloc lays out as MemoriesAssumption says.                       *)
THEOREM SlotLeadsBack == Spec => []RoundTrip
<1>1. Init => SlotInv
  BY SMT DEF Init, SlotInv, NoSlot
<1>2. SlotInv /\ [Next]_vars => SlotInv'
  <2>. SUFFICES ASSUME SlotInv, [Next]_vars PROVE SlotInv'
    OBVIOUS
  <2>1. ASSUME UNCHANGED <<target, slot>> PROVE SlotInv'
    <3>1. memory' = memory /\ unreadable' = unreadable /\ slot' = slot
      BY <2>1 DEF target
    <3>. QED
      BY <3>1 DEF SlotInv, Named, PageOffset, Owners, Read
  <2>2. ASSUME UNCHANGED target, slot' = NoSlot PROVE SlotInv'
    BY <2>2 DEF SlotInv, target, NoSlot
  <2>3. ASSUME NEW a, Slot(a) PROVE SlotInv'
    <3>1. memory' = memory /\ unreadable' = unreadable
      BY <2>3 DEF Slot, target
    <3>2. slot'.addr = a /\ slot'.page = Named(a)
      BY <2>3 DEF Slot, Named
    <3>. QED
      BY <3>1, <3>2 DEF SlotInv, Named, PageOffset, Owners, Read
  <2>4. ASSUME NEW p, PPage(p) PROVE SlotInv'
    BY <2>2, <2>4 DEF PPage
  <2>5. ASSUME NEW a, SPage(a) PROVE SlotInv'
    BY <2>2, <2>5 DEF SPage
  <2>6. CASE Bucket
    BY <2>2, <2>6 DEF Bucket
  <2>7. CASE Run
    BY <2>1, <2>7 DEF Run, Resolve, Describe, FreeSlot, ActivePage, ChainEnd
  <2>8. CASE UNCHANGED vars
    BY <2>1, <2>8 DEF vars
  <2>. QED
    BY <2>3, <2>4, <2>5, <2>6, <2>7, <2>8 DEF Next
<1>. QED
  BY <1>1, <1>2, SlotInvImplies, PTL DEF Spec

------------------------------------------------------------------------------
(* !spage. *)

(* Whatever address a command is given, with its upper half cut off or not,  *)
(* the super page it works on is a whole one.                                *)
LEMMA SuperPageOfAny ==
  ASSUME NEW a \in Nat
  PROVE  /\ SuperPageOf(a) \in Nat /\ SuperPageOf(a) % kSuperPageSize = 0
         /\ SuperPageOf(a) + kSuperPageSize <= SizeT
<1> DEFINE r == a % SizeT
           q == a \div SizeT
           c == SizeT \div kSuperPageSize
<1>1. /\ SizeT \in Nat \ {0} /\ SizeT % kSuperPageSize = 0
      /\ c \in Nat /\ SizeT = kSuperPageSize * c
  BY WordsAssumption, SMT DEF kSuperPageSize
<1>2. r \in Nat /\ r < SizeT /\ q \in Nat /\ a = SizeT * q + r
  BY <1>1, SMT
<1>. HIDE DEF r, q, c
<1>3. c * q \in Nat /\ a = kSuperPageSize * (c * q) + r
  BY <1>1, <1>2, SMT DEF kSuperPageSize
<1>4. a % kSuperPageSize = r % kSuperPageSize
  BY <1>2, <1>3, SMT DEF kSuperPageSize
<1>5. SuperPageOf(a) = r - (r % kSuperPageSize)
  BY <1>4 DEF SuperPageOf, r
<1>. QED
  BY <1>1, <1>2, <1>5, SMT DEF kSuperPageSize

(* Each row agrees with the lookups of !slot and !ppage. *)
LEMMA RowAgrees ==
  ASSUME NEW s \in Nat, s % kSuperPageSize = 0, s + kSuperPageSize <= SizeT,
         NEW i \in 1..(kPagesPerSuperPage - 1)
  PROVE  LET row == RowOfSuperPage(s, i) IN
           PageOfSlot(row.addr) = row.page /\ PayloadStart(row.page) = row.addr
<1> DEFINE row == RowOfSuperPage(s, i)
<1>1. row.addr = s + i * kPartitionPageSize /\ row.page = Record(s, i)
  BY DEF RowOfSuperPage
<1>. HIDE DEF row
<1>2. i \in 0..(kPagesPerSuperPage - 1)
  BY SMT
<1>3. PayloadStart(row.page) = row.addr
  BY <1>1, <1>2, RecordLeadsToPage
<1>4. i * kPartitionPageSize \in Nat /\ i * kPartitionPageSize < kSuperPageSize
  BY SMT DEF kPartitionPageSize, kSuperPageSize, kPagesPerSuperPage
<1>5. SuperPageOf(row.addr) = s /\ row.addr % kSuperPageSize = i * kPartitionPageSize
  BY <1>1, <1>4, WithinSuperPage
<1>6. SlotIndex(row.addr) = i
  <2>1. (i * kPartitionPageSize) \div kPartitionPageSize = i
    BY SMT DEF kPartitionPageSize
  <2>. QED BY <1>5, <2>1 DEF SlotIndex
<1>. QED
  BY <1>1, <1>3, <1>5, <1>6 DEF PageOfSlot, row

(* In every row of !spage the record is the one !slot finds from the address *)
(* and the address is the payload start !ppage prints for the record.        *)
THEOREM SuperPageTableAgrees == Spec => []SuperPageAgrees
<1>1. Init => SuperPageAgrees
  BY SMT DEF Init, SuperPageAgrees
<1>2. SuperPageAgrees /\ [Next]_vars => SuperPageAgrees'
  <2>. SUFFICES ASSUME SuperPageAgrees, [Next]_vars PROVE SuperPageAgrees'
    OBVIOUS
  <2>1. ASSUME table' = table PROVE SuperPageAgrees'
    BY <2>1 DEF SuperPageAgrees
  <2>2. ASSUME table' = <<>> PROVE SuperPageAgrees'
    BY <2>2, SMT DEF SuperPageAgrees
  <2>3. ASSUME NEW a \in Args, SPage(a) PROVE SuperPageAgrees'
    <3>1. a \in Nat
      BY AddressesAssumption
    <3>2. \A i \in 1..(kPagesPerSuperPage - 1) :
            LET row == RowOfSuperPage(SuperPageOf(a), i) IN
              PageOfSlot(row.addr) = row.page /\ PayloadStart(row.page) = row.addr
      <4>. DEFINE s == SuperPageOf(a)
      <4>1. s \in Nat /\ s % kSuperPageSize = 0 /\ s + kSuperPageSize <= SizeT
        BY <3>1, SuperPageOfAny
      <4>. HIDE DEF s
      <4>2. \A i \in 1..(kPagesPerSuperPage - 1) :
              LET row == RowOfSuperPage(s, i) IN
                PageOfSlot(row.addr) = row.page /\ PayloadStart(row.page) = row.addr
        BY <4>1, RowAgrees
      <4>. QED BY <4>2 DEF s
    <3>. QED
      BY <2>3, <3>2 DEF SPage, SuperPageAgrees
  <2>4. ASSUME NEW a, Slot(a) PROVE SuperPageAgrees'
    BY <2>2, <2>4 DEF Slot
  <2>5. ASSUME NEW p, PPage(p) PROVE SuperPageAgrees'
    BY <2>2, <2>5 DEF PPage
  <2>6. CASE Bucket
    BY <2>2, <2>6 DEF Bucket
  <2>7. CASE Run
    BY <2>1, <2>7 DEF Run, Resolve, Describe, FreeSlot, ActivePage, ChainEnd
  <2>8. CASE UNCHANGED vars
    BY <2>1, <2>8 DEF vars
  <2>. QED
    BY <2>3, <2>4, <2>5, <2>6, <2>7, <2>8 DEF Next
<1>. QED
  BY <1>1, <1>2, PTL DEF Spec

------------------------------------------------------------------------------
(* Divisions by zero. *)

(* The commands that may have been asked to divide by zero. *)
Odd == asked = 0 \/ (asked = Sentinel /\ sentinel = 0)

(* !ppage works on a record of a span, unless it was given null or the       *)
(* sentinel; nothing has been raised while a command runs.                   *)
RaiseInv ==
  /\ memory \in Memories /\ sentinel \in {0, Sentinel}
  /\ pc # "idle" => raised = "none"
  /\ pc = "ppage" => Odd \/ \E h \in memory.heads : page \in RecordsOf(memory, h)
  /\ RaisedExplained

(* A record of a span whose slot size comes out as 0 has a cell that cannot  *)
(* be read.                                                                  *)
LEMMA ZeroExplained ==
  ASSUME memory \in Memories, NEW h \in memory.heads, NEW p \in RecordsOf(memory, h),
         IsSpan(p), SlotSizeOf(p) = 0
  PROVE  {<<"slot_size", 0>>, <<"bucket", p>>, <<"page_offset", p>>} \cap unreadable # {}
<1>1. CASE <<"page_offset", p>> \notin unreadable
  <2>1. p = h
    BY <1>1, SpanOrUnreadable
  <2>2. memory.slot_size # 0
    BY MemoriesAssumption, SMT
  <2>. QED BY <2>1, <2>2 DEF SlotSizeOf, Read
<1>. QED
  BY <1>1

(* A command is stopped by a division by zero only when it was given null or *)
(* an unknown sentinel, or when a cell it needs cannot be read, whatever the *)
(* spans and wherever they lie.                                              *)
THEOREM DivisionsExplained == Spec => []RaisedExplained
<1>1. Init => RaiseInv
  BY DEF Init, RaiseInv, RaisedExplained
<1>2. RaiseInv /\ [Next]_vars => RaiseInv'
  <2>. SUFFICES ASSUME RaiseInv, [Next]_vars PROVE RaiseInv'
    OBVIOUS
  <2>. USE DEF RaiseInv
  <2>1. ASSUME NEW h \in memory.heads, NEW p \in RecordsOf(memory, h) \cup {0, Sentinel}, PPage(p)
        PROVE  RaiseInv'
    <3>1. /\ memory' = memory /\ sentinel' = sentinel /\ raised' = "none"
          /\ asked' = p /\ page' = p /\ pc' = IF p = sentinel THEN "idle" ELSE "ppage"
      BY <2>1 DEF PPage, target
    <3>2. CASE p \in RecordsOf(memory, h)
      BY <3>1, <3>2 DEF RaisedExplained, RecordsOf
    <3>3. CASE p \in {0, Sentinel}
      BY <3>1, <3>3 DEF RaisedExplained, Odd
    <3>. QED BY <3>2, <3>3
  <2>2. CASE Resolve
    <3>1. /\ memory' = memory /\ sentinel' = sentinel /\ unreadable' = unreadable
          /\ asked' = asked /\ raised' = "none" /\ pc' \in {"idle", "ppage"}
          /\ pc = "ppage" /\ ~IsSpan(page) /\ page' = SpanPage(page, PageOffset(page))
      BY <2>2 DEF Resolve, target
    <3>2. CASE Odd
      BY <3>1, <3>2 DEF Odd, RaisedExplained
    <3>3. ASSUME NEW h \in memory.heads, page \in RecordsOf(memory, h)
          PROVE  page' \in RecordsOf(memory, h)
      <4>1. <<"page_offset", page>> \notin unreadable
        <5>1. PICK k \in 0..(memory.pages[h] - 1) : page = h + k * kPageMetadataSize
          BY <3>3 DEF RecordsOf
        <5>2. PageOffset(page) = Read(<<"page_offset", page>>, k)
          BY <5>1, OffsetOfRecord
        <5>. QED BY <3>1, <5>2 DEF IsSpan, Read
      <4>2. page' = h
        BY <3>1, <3>3, <4>1, SpanOrUnreadable
      <4>. QED BY <4>2, HeadOfSpan
    <3>. QED BY <3>1, <3>2, <3>3 DEF RaisedExplained, RecordsOf, Odd
  <2>3. CASE Describe
    <3>1. /\ memory' = memory /\ sentinel' = sentinel /\ unreadable' = unreadable
          /\ asked' = asked /\ page' = page /\ pc = "ppage" /\ IsSpan(page)
          /\ \/ SlotSizeOf(page) = 0 /\ pc' = "idle" /\ raised' = "ppage"
             \/ pc' = "free" /\ raised' = "none"
      BY <2>3 DEF Describe, target
    <3>2. CASE Odd
      BY <3>1, <3>2 DEF Odd, RaisedExplained
    <3>3. ASSUME NEW h \in memory.heads, page \in RecordsOf(memory, h), SlotSizeOf(page) = 0
          PROVE  {<<"slot_size", 0>>, <<"bucket", page>>, <<"page_offset", page>>} \cap unreadable # {}
      BY <3>1, <3>3, ZeroExplained
    <3>. QED BY <3>1, <3>2, <3>3 DEF RaisedExplained
  <2>4. CASE Bucket
    <3>1. /\ memory' = memory /\ unreadable' = unreadable
          /\ \/ Read(<<"slot_size", 0>>, memory.slot_size) = 0 /\ raised' = "bucket" /\ pc' = "idle"
             \/ raised' = "none" /\ pc' = "bucket"
      BY <2>4 DEF Bucket, target
    <3>2. memory.slot_size # 0
      BY MemoriesAssumption, SMT
    <3>3. RaisedExplained'
      BY <3>1, <3>2 DEF RaisedExplained, Read
    <3>. QED BY <2>4, <3>1, <3>3 DEF Bucket, target
  <2>5. ASSUME UNCHANGED target, raised' = "none", pc' = "idle" PROVE RaiseInv'
    BY <2>5 DEF RaisedExplained, target
  <2>6. ASSUME NEW a, Slot(a) \/ SPage(a) PROVE RaiseInv'
    BY <2>5, <2>6 DEF Slot, SPage, target
  <2>7. ASSUME UNCHANGED <<target, asked, page, raised>>, pc' \in {"idle", pc}
        PROVE  RaiseInv'
    BY <2>7 DEF target, RaisedExplained, Odd, RecordsOf
  <2>8. CASE FreeSlot \/ ActivePage \/ ChainEnd \/ UNCHANGED vars
    BY <2>7, <2>8 DEF FreeSlot, ActivePage, ChainEnd, vars
  <2>. QED
    BY <2>1, <2>2, <2>3, <2>4, <2>6, <2>8 DEF Next, Run
<1>. QED
  BY <1>1, <1>2, PTL DEF Spec, RaiseInv

------------------------------------------------------------------------------
(* Chains. *)

(* A set of natural numbers that has a member has a least one.               *)
LEMMA LeastExists ==
  ASSUME NEW T \in SUBSET Nat, T # {}
  PROVE  \E x \in T : \A y \in T : x <= y
<1> DEFINE R == OpToRel(<, Nat)
<1>1. IsWellFoundedOn(R, Nat)
  BY NatLessThanWellFounded
<1>2. \A x, y \in Nat : <<y, x>> \in R <=> y < x
  BY SMT DEF OpToRel
<1>. HIDE DEF R
<1>3. PICK x \in T : \A y \in T : <<y, x>> \notin R
  BY <1>1, WFMin
<1>4. x \in Nat /\ \A y \in T : y \in Nat /\ ~(y < x)
  BY <1>2, <1>3, Zenon
<1>. QED
  BY <1>4, SMT

(* No member twice.                                                          *)
Injective(list) == \A i, j \in DOMAIN list : list[i] = list[j] => i = j

(* n members of the list have been shown and the cursor is at the next. *)
Walked(list, member, n, cur) ==
  /\ n \in 0..Len(list)
  /\ \A i \in 1..n : i < n => <<member, list[i]>> \notin unreadable
  /\ cur = IF n = Len(list) \/ (n > 0 /\ <<member, list[n]>> \in unreadable) THEN 0 ELSE list[n + 1]

(* A command that lists a chain has shown its first members, and none after  *)
(* one whose link cannot be read.                                            *)
Walk(list, member, shown, cur) ==
  \E n \in 0..Len(list) : Walked(list, member, n, cur) /\ shown = SubSeq(list, 1, n)

(* What follows the n-th member of a chain.                                  *)
LEMMA NextOfMember ==
  ASSUME NEW S, NEW list \in Seq(S), Injective(list), NEW n \in 1..Len(list)
  PROVE  NextIn(list, list[n]) = IF n = Len(list) THEN 0 ELSE list[n + 1]
<1>1. \A i \in 1..(Len(list) - 1) : list[i] = list[n] => i = n
  BY SMT DEF Injective
<1>2. CASE n = Len(list)
  <2>1. ~ \E i \in 1..(Len(list) - 1) : list[i] = list[n]
    BY <1>1, <1>2, SMT
  <2>. QED BY <2>1, <1>2 DEF NextIn
<1>3. CASE n # Len(list)
  <2>1. n \in 1..(Len(list) - 1) 
    BY <1>3, SMT
  <2>2. (CHOOSE i \in 1..(Len(list) - 1) : list[i] = list[n]) = n
    BY <2>1, <1>1, Zenon
  <2>. QED BY <2>1, <2>2, <1>3 DEF NextIn
<1>. QED BY <1>2, <1>3

(* A walk starts at the head of the chain.                                   *)
LEMMA WalkStarts ==
  ASSUME NEW S, NEW list \in Seq(S), NEW member
  PROVE  Walk(list, member, <<>>, IF list = <<>> THEN 0 ELSE list[1])
<1>1. SubSeq(list, 1, 0) = <<>>
  BY SubSeqEmpty, SMT
<1>2. Walked(list, member, 0, IF list = <<>> THEN 0 ELSE list[1])
  BY SMT DEF Walked
<1>3. 0 \in 0..Len(list)
  BY SMT
<1>. QED
  BY <1>1, <1>2, <1>3 DEF Walk

(* Showing the member at the cursor and following its link is a walk still.  *)
LEMMA WalkGoesOn ==
  ASSUME NEW S, NEW list \in Seq(S), Injective(list), NEW member, NEW shown, NEW cur,
         Walk(list, member, shown, cur), cur # 0
  PROVE  Walk(list, member, Append(shown, cur), Read(<<member, cur>>, NextIn(list, cur)))
<1>1. PICK n \in 0..Len(list) : Walked(list, member, n, cur) /\ shown = SubSeq(list, 1, n)
  BY DEF Walk
<1> DEFINE k == n + 1
<1>2. n # Len(list) /\ ~(n > 0 /\ <<member, list[n]>> \in unreadable) /\ cur = list[k]
  BY <1>1 DEF Walked
<1>3. n \in Nat /\ k \in 1..Len(list) /\ n = k - 1
  BY <1>2, SMT
<1>4. Append(shown, cur) = SubSeq(list, 1, k)
  <2>1. list[k] \in S /\ SubSeq(list, 1, n) \in Seq(S)
    BY <1>3, SMT
  <2>2. SubSeq(list, 1, k) = SubSeq(list, 1, k - 1) \o <<list[k]>>
    <3>. HIDE DEF k
    <3>1. 1 \in 1..Len(list) /\ k \in 1..Len(list)
      BY <1>3, SMT
    <3>. QED BY <3>1, SubSeqRecursiveSecond
  <2>3. Append(SubSeq(list, 1, n), list[k]) = SubSeq(list, 1, n) \o <<list[k]>>
    <3>. HIDE DEF k
    <3>. QED BY <2>1, AppendIsConcat
  <2>. QED BY <1>1, <1>2, <1>3, <2>2, <2>3
<1>5. NextIn(list, cur) = IF k = Len(list) THEN 0 ELSE list[k + 1]
  <2>. HIDE DEF k
  <2>. QED BY <1>2, <1>3, NextOfMember
<1>6. \A i \in 1..k : i < k => <<member, list[i]>> \notin unreadable
  <2>. SUFFICES ASSUME NEW i \in 1..k, i < k PROVE <<member, list[i]>> \notin unreadable
    OBVIOUS
  <2>1. i \in 1..n /\ (i < n \/ (i = n /\ n > 0))
    BY <1>3, SMT
  <2>. QED BY <1>1, <1>2, <2>1 DEF Walked
<1>7. Walked(list, member, k, Read(<<member, cur>>, NextIn(list, cur)))
  <2>. HIDE DEF k
  <2>1. k \in 0..Len(list) /\ k > 0
    BY <1>3, SMT
  <2>2. Read(<<member, cur>>, NextIn(list, cur)) =
          IF k = Len(list) \/ <<member, list[k]>> \in unreadable THEN 0 ELSE list[k + 1]
    BY <1>2, <1>5 DEF Read
  <2>. QED BY <2>1, <2>2, <1>6 DEF Walked
<1>. QED
  <2>1. k \in 0..Len(list)
    BY <1>3, SMT
  <2>. HIDE DEF k
  <2>. QED BY <1>4, <1>7, <2>1 DEF Walk

(* A walk strays at no time from the chain as far as it can be read, and has *)
(* shown all of that when it ends.                                           *)
LEMMA WalkIsPrefix ==
  ASSUME NEW S, NEW list \in Seq(S), 0 \notin S, NEW member, NEW shown, NEW cur,
         Walk(list, member, shown, cur)
  PROVE  /\ IsPrefixOf(shown, UpToUnreadable(list, member))
         /\ cur = 0 => shown = UpToUnreadable(list, member)
<1> DEFINE stops == {i \in DOMAIN list : <<member, list[i]>> \in unreadable}
           all == UpToUnreadable(list, member)
<1>1. PICK n \in 0..Len(list) : Walked(list, member, n, cur) /\ shown = SubSeq(list, 1, n)
  BY DEF Walk
<1>2. Len(list) \in Nat /\ DOMAIN list = 1..Len(list) /\ n \in Nat /\ \A i \in 1..Len(list) : list[i] \in S
  BY SMT
<1>0. Len(list) \in Nat /\ n \in Nat /\ n <= Len(list)
  BY <1>2, SMT
<1>3. Len(shown) = n
  BY <1>1, <1>2, SubSeqProperties, SMT
<1>4. cur = 0 => n = Len(list) \/ n \in stops
  <2>. SUFFICES ASSUME cur = 0, n # Len(list) PROVE n \in stops
    OBVIOUS
  <2>1. n + 1 \in 1..Len(list) /\ n \in 0..Len(list)
    <3>. HIDE DEF stops, all
    <3>. QED BY <1>0, SMT
  <2>2. list[n + 1] # 0
    BY <1>2, <2>1, Zenon
  <2>3. n > 0 /\ <<member, list[n]>> \in unreadable
    BY <1>1, <2>2 DEF Walked
  <2>4. n \in 1..Len(list)
    BY <2>1, <2>3, SMT
  <2>. QED BY <2>3, <2>4, <1>2
<1>5. \A i \in stops : i >= n
  <2>. SUFFICES ASSUME NEW i \in stops, i < n PROVE FALSE
    BY <1>2, SMT
  <2>1. i \in 1..n
    BY <1>2, SMT
  <2>. QED BY <1>1, <2>1 DEF Walked
<1>6. CASE stops = {}
  <2>1. all = list
    BY <1>6 DEF UpToUnreadable
  <2>2. SubSeq(list, 1, Len(list)) = list
    BY SubSeqFull
  <2>3. IsPrefixOf(shown, all)
    BY <1>0, <1>1, <1>3, <2>1 DEF IsPrefixOf
  <2>4. cur = 0 => shown = all
    <3>1. n \notin stops
      BY <1>6, Zenon
    <3>. QED BY <3>1, <1>1, <1>4, <2>1, <2>2
  <2>. QED BY <2>3, <2>4
<1>7. CASE stops # {}
  <2> DEFINE c == CHOOSE i \in stops : \A j \in stops : i <= j
  <2>1. stops \in SUBSET Nat
    BY <1>2, SMT
  <2>2. \E i \in stops : \A j \in stops : i <= j
    <3>. HIDE DEF stops
    <3>. QED BY <2>1, <1>7, LeastExists
  <2>3. c \in stops /\ \A j \in stops : c <= j
    <3>. HIDE DEF stops
    <3>. QED BY <2>2, Zenon
  <2>4. all = SubSeq(list, 1, c)
    BY <1>7 DEF UpToUnreadable
  <2>. HIDE DEF c, all
  <2>5. c \in 1..Len(list) /\ n <= c
    <3>1. c \in DOMAIN list /\ c >= n
      BY <2>3, <1>5
    <3>. QED BY <3>1, <1>2, SMT
  <2>6. cur = 0 => n = c
    <3>. SUFFICES ASSUME cur = 0 PROVE n = c
      OBVIOUS
    <3>1. CASE n = Len(list)
      BY <3>1, <2>5, <1>2, SMT
    <3>2. CASE n \in stops
      <4>1. c <= n
        BY <3>2, <2>3
      <4>. QED BY <4>1, <2>5, <1>2, SMT
    <3>. QED BY <1>4, <3>1, <3>2
  <2>7. Len(all) = c
    BY <2>4, <2>5, <1>2, SubSeqProperties, SMT
  <2>8. SubSeq(all, 1, n) = SubSeq(list, 1, n)
    <3>1. CASE n = 0
      <4>1. 1 \in Int /\ 0 \in Int /\ 0 < 1
        BY SMT
      <4>. QED BY <4>1, <3>1, SubSeqEmpty
    <3>2. CASE n # 0
      <4>1. 1 \in 1..Len(list) /\ c \in 1..Len(list) /\ 1 \in 1..(c - 1 + 1) /\ n \in 1..(c - 1 + 1)
            /\ 1 + 1 - 1 = 1 /\ 1 + n - 1 = n
        BY <3>2, <2>5, <1>2, SMT
      <4>2. SubSeq(SubSeq(list, 1, c), 1, n) = SubSeq(list, 1 + 1 - 1, 1 + n - 1)
        BY <4>1, SubSeqOfSubSeq
      <4>. QED BY <4>1, <4>2, <2>4
    <3>. QED BY <3>1, <3>2
  <2>9. IsPrefixOf(shown, all)
    BY <1>1, <1>3, <2>5, <2>7, <2>8 DEF IsPrefixOf
  <2>. QED
    <3>1. cur = 0 => shown = all
      BY <1>1, <2>4, <2>6
    <3>. QED BY <3>1, <2>9 DEF all
<1>. QED
  BY <1>6, <1>7

------------------------------------------------------------------------------
(* !ppage. *)

(* What !ppage can show of the free list of span h, and how far it is.       *)
Readable(h) ==
  IF <<"freelist_head", h>> \in unreadable THEN <<>> ELSE UpToUnreadable(memory.free[h], "next")
FreeWalk(h) ==
  IF <<"freelist_head", h>> \in unreadable THEN free = <<>> /\ cursor = 0
  ELSE Walk(memory.free[h], "next", free, cursor)

(* The stages of !ppage on a record of span h. *)
Stage(h) ==
  \/ pc = "ppage" /\ page \in {asked, h} /\ free = <<>>
  \/ pc = "free" /\ page = h /\ FreeWalk(h)
  \/ pc = "idle" /\ page = h /\ IsPrefixOf(free, Readable(h)) /\ (SlotSizeOf(h) # 0 => free = Readable(h))

FreeInv ==
  /\ memory \in Memories /\ sentinel \in {0, Sentinel}
  /\ pc = "bucket" => asked = 0
  /\ \A h \in memory.heads :
       asked \in RecordsOf(memory, h) /\ <<"page_offset", asked>> \notin unreadable => Stage(h)

(* Null is no record of a span and no slot.                                  *)
LEMMA NullIsNone ==
  ASSUME memory \in Memories, NEW h \in memory.heads
  PROVE  0 \notin RecordsOf(memory, h) /\ 0 \notin SpanOf(memory, h)
<1>1. h \in Nat /\ h # 0 /\ memory.pages[h] \in Nat
  BY HeadOfSpan, HeadFacts
<1>2. 0 \notin RecordsOf(memory, h)
  BY <1>1, SMT DEF RecordsOf, kPageMetadataSize
<1>3. 0 \notin SpanOf(memory, h)
  <2>. SUFFICES ASSUME 0 \in SpanOf(memory, h) PROVE FALSE
    OBVIOUS
  <2>1. 0 > 0
    BY AddressInSpan
  <2>. QED BY <2>1, SMT
<1>. QED
  BY <1>2, <1>3

(* Spans do not overlap, since their records do not.                         *)
LEMMA OneSpan ==
  ASSUME memory \in Memories, NEW g \in memory.heads, NEW h \in memory.heads,
         NEW a \in SpanOf(memory, g), a \in SpanOf(memory, h)
  PROVE  g = h
<1>1. PageOfSlot(a) \in RecordsOf(memory, g) /\ PageOfSlot(a) \in RecordsOf(memory, h)
  BY AddressInSpan DEF RecordsOf
<1>. QED
  BY <1>1, MemoriesAssumption

(* The free list of a span is a chain of its slots.                          *)
LEMMA FreeListFacts ==
  ASSUME memory \in Memories, NEW h \in memory.heads
  PROVE  /\ memory.free[h] \in Seq(SpanOf(memory, h)) /\ Injective(memory.free[h])
         /\ 0 \notin SpanOf(memory, h)
  BY MemoriesAssumption, NullIsNone DEF Injective

(* Following a free slot is following the chain: the link is swapped back.   *)
LEMMA FreeSlotFollowed ==
  ASSUME memory \in Memories, NEW h \in memory.heads,
         Walk(memory.free[h], "next", free, cursor), cursor # 0
  PROVE  Transform(StoredNext(cursor)) = Read(<<"next", cursor>>, NextIn(memory.free[h], cursor))
<1> DEFINE list == memory.free[h]
           next == NextIn(list, cursor)
<1>1. list \in Seq(SpanOf(memory, h)) /\ Injective(list)
  BY FreeListFacts
<1>. HIDE DEF list
<1>2. PICK n \in 0..Len(list) : Walked(list, "next", n, cursor)
  BY DEF Walk, list
<1>3. n # Len(list) /\ cursor = list[n + 1]
  BY <1>2 DEF Walked
<1>4. n + 1 \in 1..Len(list)
  BY <1>1, <1>3, SMT
<1>5. cursor \in SpanOf(memory, h)
  BY <1>1, <1>3, <1>4, SMT
<1>6. next = IF n + 1 = Len(list) THEN 0 ELSE list[n + 1 + 1]
  BY <1>1, <1>3, <1>4, NextOfMember
<1>7. ByteSwap(ByteSwap(next)) = next
  <2>1. CASE n + 1 = Len(list)
    BY <2>1, <1>6, ByteSwapAssumption
  <2>2. CASE n + 1 # Len(list)
    <3>1. n + 1 + 1 \in 1..Len(list)
      BY <1>1, <1>4, <2>2, SMT
    <3>2. n + 1 + 1 \in DOMAIN list
      BY <1>1, <3>1, SMT
    <3>3. ByteSwap(ByteSwap(list[n + 1 + 1])) = list[n + 1 + 1]
      BY <3>2, ByteSwapAssumption DEF list
    <3>. QED BY <1>6, <2>2, <3>3
  <2>. QED BY <2>1, <2>2
<1>. HIDE DEF next
<1>8. StoredNext(cursor) = Read(<<"next", cursor>>, ByteSwap(next))
  <2>1. (CHOOSE g \in memory.heads : cursor \in SpanOf(memory, g)) = h
    BY <1>5, OneSpan
  <2>. QED BY <1>5, <2>1 DEF StoredNext, next, list
<1>. QED
  BY <1>7, <1>8, ByteSwapAssumption DEF Transform, Read, next, list

(* The stages are what the property says of !ppage. *)
LEMMA FreeInvImplies == FreeInv => FreeListShown
<1>. SUFFICES ASSUME FreeInv, NEW h \in memory.heads,
                     asked \in RecordsOf(memory, h), <<"page_offset", asked>> \notin unreadable
              PROVE  /\ page \in {asked, h}
                     /\ page # h => free = <<>>
                     /\ page = h =>
                          /\ IsPrefixOf(free, FreeSlots)
                          /\ pc = "idle" /\ SlotSizeOf(h) # 0 => free = FreeSlots
                     /\ pc = "idle" => page = h
  BY DEF FreeListShown
<1>1. Stage(h) /\ memory \in Memories
  BY DEF FreeInv
<1>2. page = h => FreeSlots = Readable(h)
  BY DEF FreeSlots, Readable
<1> DEFINE list == memory.free[h]
<1>3. list \in Seq(SpanOf(memory, h)) /\ 0 \notin SpanOf(memory, h)
  BY <1>1, FreeListFacts
<1>4. IsPrefixOf(<<>>, <<>>)
  BY SubSeqEmpty, SMT DEF IsPrefixOf
<1>5. IsPrefixOf(<<>>, Readable(h))
  <2>1. Walk(list, "next", <<>>, IF list = <<>> THEN 0 ELSE list[1])
    <3>. HIDE DEF list
    <3>. QED BY <1>3, WalkStarts
  <2>2. IsPrefixOf(<<>>, UpToUnreadable(list, "next"))
    <3>. HIDE DEF list
    <3>. QED BY <1>3, <2>1, WalkIsPrefix
  <2>. QED BY <1>4, <2>2 DEF Readable
<1>6. FreeWalk(h) => IsPrefixOf(free, Readable(h))
  <2>. SUFFICES ASSUME FreeWalk(h) PROVE IsPrefixOf(free, Readable(h))
    OBVIOUS
  <2>1. CASE <<"freelist_head", h>> \in unreadable
    BY <2>1, <1>5 DEF FreeWalk
  <2>2. CASE <<"freelist_head", h>> \notin unreadable
    <3>1. Walk(list, "next", free, cursor)
      BY <2>2 DEF FreeWalk
    <3>2. IsPrefixOf(free, UpToUnreadable(list, "next"))
      <4>. HIDE DEF list
      <4>. QED BY <1>3, <3>1, WalkIsPrefix
    <3>. QED BY <2>2, <3>2 DEF Readable
  <2>. QED BY <2>1, <2>2
<1>. QED
  BY <1>1, <1>2, <1>5, <1>6 DEF Stage

(* Describing the span starts the walk over its free list.                   *)
LEMMA DescribeStarts ==
  ASSUME memory \in Memories, NEW h \in memory.heads, Describe, page = h, free = <<>>
  PROVE  Stage(h)'
<1> DEFINE list == memory.free[h]
<1>1. /\ memory' = memory /\ unreadable' = unreadable /\ page' = h /\ free' = <<>>
  BY DEF Describe, target
<1>2. list \in Seq(SpanOf(memory, h)) /\ 0 \notin SpanOf(memory, h)
  BY FreeListFacts
<1>3. Walk(list, "next", <<>>, IF list = <<>> THEN 0 ELSE list[1])
  <2>. HIDE DEF list
  <2>. QED BY <1>2, WalkStarts
<1>4. CASE SlotSizeOf(page) = 0
  <2>1. pc' = "idle" /\ SlotSizeOf(h)' = 0 /\ Readable(h)' = Readable(h)
    BY <1>1, <1>4 DEF Describe, SlotSizeOf, Read, Readable, UpToUnreadable
  <2>2. IsPrefixOf(<<>>, <<>>)
    BY SubSeqEmpty, SMT DEF IsPrefixOf
  <2>3. IsPrefixOf(<<>>, UpToUnreadable(list, "next"))
    <3>. HIDE DEF list
    <3>. QED BY <1>2, <1>3, WalkIsPrefix
  <2>4. IsPrefixOf(<<>>, Readable(h))
    BY <2>2, <2>3 DEF Readable
  <2>5. IsPrefixOf(free, Readable(h))'
    BY <1>1, <2>1, <2>4 DEF IsPrefixOf
  <2>. QED BY <1>1, <2>1, <2>5 DEF Stage
<1>5. CASE SlotSizeOf(page) # 0
  <2>1. pc' = "free" /\ cursor' = FreelistHead(h)
    BY <1>5 DEF Describe
  <2>2. FreeWalk(h)'
    <3>1. CASE <<"freelist_head", h>> \in unreadable
      BY <1>1, <2>1, <3>1 DEF FreeWalk, FreelistHead, Read
    <3>2. CASE <<"freelist_head", h>> \notin unreadable
      <4>1. cursor' = IF list = <<>> THEN 0 ELSE list[1]
        BY <2>1, <3>2 DEF FreelistHead, Read
      <4>2. Walk(list, "next", free', cursor')
        BY <1>1, <1>3, <4>1
      <4>. QED BY <1>1, <3>2, <4>2 DEF FreeWalk, Walk, Walked
    <3>. QED BY <3>1, <3>2
  <2>. QED BY <1>1, <2>1, <2>2 DEF Stage
<1>. QED
  BY <1>4, <1>5

(* Given any record of a span, !ppage lists the free slots of that span, in  *)
(* order, each once, and all of them up to the first link that cannot be     *)
(* read, for every free list PartitionAlloc can leave.                       *)
THEOREM FreeListsShown == Spec => []FreeListShown
<1>1. Init => FreeInv
  <2>. SUFFICES ASSUME Init PROVE FreeInv
    OBVIOUS
  <2>1. memory \in Memories /\ asked = 0 /\ sentinel \in {0, Sentinel} /\ pc = "idle"
    BY DEF Init
  <2>. QED BY <2>1, NullIsNone DEF FreeInv
<1>2. FreeInv /\ [Next]_vars => FreeInv'
  <2>. SUFFICES ASSUME FreeInv, [Next]_vars PROVE FreeInv'
    OBVIOUS
  <2>0. memory \in Memories /\ sentinel \in {0, Sentinel}
    BY DEF FreeInv
  <2>1. ASSUME NEW g \in memory.heads, NEW p \in RecordsOf(memory, g) \cup {0, Sentinel}, PPage(p)
        PROVE  FreeInv'
    <3>1. /\ memory' = memory /\ unreadable' = unreadable /\ sentinel' = sentinel
          /\ asked' = p /\ page' = p /\ free' = <<>> /\ pc' = IF p = sentinel THEN "idle" ELSE "ppage"
      BY <2>1 DEF PPage, target
    <3>2. ASSUME NEW h \in memory.heads, p \in RecordsOf(memory, h) PROVE Stage(h)'
      <4>1. p # sentinel
        BY <2>0, <3>2, NullIsNone, MemoriesAssumption
      <4>. QED BY <3>1, <4>1 DEF Stage
    <3>. QED BY <2>0, <3>1, <3>2 DEF FreeInv, RecordsOf
  <2>2. ASSUME UNCHANGED <<target, asked>>, pc' = "bucket" => pc = "bucket",
               \A h \in memory.heads :
                 asked \in RecordsOf(memory, h) /\ <<"page_offset", asked>> \notin unreadable /\ Stage(h) => Stage(h)'
        PROVE  FreeInv'
    BY <2>2 DEF FreeInv, target, RecordsOf
  <2>3. CASE Resolve
    <3>1. /\ UNCHANGED <<target, asked>> /\ free' = free /\ pc = "ppage" /\ ~IsSpan(page)
          /\ page' = SpanPage(page, PageOffset(page)) /\ pc' = IF page' = sentinel THEN "idle" ELSE "ppage"
      BY <2>3 DEF Resolve
    <3>2. ASSUME NEW h \in memory.heads, asked \in RecordsOf(memory, h),
                 <<"page_offset", asked>> \notin unreadable, Stage(h)
          PROVE  Stage(h)'
      <4>1. page = asked
        <5>1. IsSpan(h)
          BY <2>0, HeadOfSpan DEF IsSpan
        <5>. QED BY <3>1, <3>2, <5>1 DEF Stage
      <4>2. page' = h
        BY <2>0, <3>1, <3>2, <4>1, SpanOrUnreadable
      <4>3. pc' = "ppage"
        BY <2>0, <3>1, <4>2, HeadOfSpan
      <4>. QED BY <3>1, <3>2, <4>2, <4>3 DEF Stage
    <3>3. pc' # "bucket"
      BY <3>1
    <3>. QED BY <2>2, <3>1, <3>2, <3>3
  <2>4. CASE Describe
    <3>1. /\ UNCHANGED <<target, asked>> /\ pc = "ppage" /\ pc' # "bucket" /\ IsSpan(page)
      BY <2>4 DEF Describe
    <3>2. ASSUME NEW h \in memory.heads, asked \in RecordsOf(memory, h),
                 <<"page_offset", asked>> \notin unreadable, Stage(h)
          PROVE  Stage(h)'
      <4>1. page \in {asked, h} /\ free = <<>>
        BY <3>1, <3>2 DEF Stage
      <4>2. page = h
        BY <2>0, <3>1, <3>2, <4>1, SpanOrUnreadable
      <4>. QED BY <2>0, <2>4, <4>1, <4>2, DescribeStarts
    <3>. QED BY <2>2, <3>1, <3>2
  <2>5. CASE FreeSlot
    <3>1. /\ UNCHANGED <<target, asked>> /\ pc = "free" /\ pc' = "free" /\ page' = page /\ cursor # 0
          /\ free' = Append(free, cursor) /\ cursor' = Transform(StoredNext(cursor))
      BY <2>5 DEF FreeSlot
    <3>2. ASSUME NEW h \in memory.heads, asked \in RecordsOf(memory, h),
                 <<"page_offset", asked>> \notin unreadable, Stage(h)
          PROVE  Stage(h)'
      <4> DEFINE list == memory.free[h]
      <4>1. page = h /\ <<"freelist_head", h>> \notin unreadable /\ Walk(list, "next", free, cursor)
        BY <3>1, <3>2 DEF Stage, FreeWalk
      <4>2. list \in Seq(SpanOf(memory, h)) /\ Injective(list)
        BY <2>0, FreeListFacts
      <4>3. cursor' = Read(<<"next", cursor>>, NextIn(list, cursor))
        BY <2>0, <3>1, <4>1, FreeSlotFollowed
      <4>4. Walk(list, "next", free', cursor')
        <5>. HIDE DEF list
        <5>. QED BY <3>1, <4>1, <4>2, <4>3, WalkGoesOn
      <4>5. memory' = memory /\ unreadable' = unreadable
        BY <3>1 DEF target
      <4>. QED BY <3>1, <4>1, <4>4, <4>5 DEF Stage, FreeWalk, Walk, Walked
    <3>. QED BY <2>2, <3>1, <3>2
  <2>6. CASE ChainEnd
    <3>1. /\ UNCHANGED <<target, asked>> /\ pc \in {"free", "bucket"} /\ pc' = "idle" /\ cursor = 0
          /\ page' = page /\ free' = free
      BY <2>6 DEF ChainEnd
    <3>2. ASSUME NEW h \in memory.heads, asked \in RecordsOf(memory, h),
                 <<"page_offset", asked>> \notin unreadable, Stage(h)
          PROVE  Stage(h)'
      <4> DEFINE list == memory.free[h]
      <4>1. page = h /\ FreeWalk(h)
        BY <3>1, <3>2 DEF Stage
      <4>2. IsPrefixOf(free, Readable(h)) /\ free = Readable(h)
        <5>1. CASE <<"freelist_head", h>> \in unreadable
          <6>1. free = <<>> /\ Readable(h) = <<>>
            BY <4>1, <5>1 DEF FreeWalk, Readable
          <6>. QED BY <6>1, SubSeqEmpty, SMT DEF IsPrefixOf
        <5>2. CASE <<"freelist_head", h>> \notin unreadable
          <6>1. list \in Seq(SpanOf(memory, h)) /\ 0 \notin SpanOf(memory, h)
            BY <2>0, FreeListFacts
          <6>2. Walk(list, "next", free, cursor)
            BY <4>1, <5>2 DEF FreeWalk
          <6>3. IsPrefixOf(free, UpToUnreadable(list, "next")) /\ free = UpToUnreadable(list, "next")
            <7>. HIDE DEF list
            <7>. QED BY <3>1, <6>1, <6>2, WalkIsPrefix
          <6>. QED BY <5>2, <6>3 DEF Readable
        <5>. QED BY <5>1, <5>2
      <4>3. Readable(h)' = Readable(h)
        BY <3>1 DEF target, Readable, UpToUnreadable
      <4>. QED BY <3>1, <4>1, <4>2, <4>3 DEF Stage, IsPrefixOf
    <3>. QED BY <2>2, <3>1, <3>2
  <2>7. ASSUME UNCHANGED target, asked' = 0 PROVE FreeInv'
    <3>1. memory' = memory /\ sentinel' = sentinel
      BY <2>7 DEF target
    <3>. QED BY <2>0, <2>7, <3>1, NullIsNone DEF FreeInv, RecordsOf
  <2>8. CASE Bucket \/ \E a \in Args : SPage(a)
    BY <2>7, <2>8 DEF Bucket, SPage
  <2>9. ASSUME UNCHANGED <<target, pc, cursor, asked, page, free>> PROVE FreeInv'
    <3>1. \A h \in memory.heads : Stage(h) => Stage(h)'
      <4>1. /\ memory' = memory /\ unreadable' = unreadable /\ pc' = pc /\ page' = page
            /\ asked' = asked /\ free' = free /\ cursor' = cursor
        BY <2>9 DEF target
      <4>2. ASSUME NEW h \in memory.heads
            PROVE  Readable(h)' = Readable(h) /\ SlotSizeOf(h)' = SlotSizeOf(h) /\ FreeWalk(h)' = FreeWalk(h)
        BY <4>1 DEF FreeWalk, Walk, Walked, Readable, UpToUnreadable, SlotSizeOf, Read
      <4>. QED BY <4>1, <4>2 DEF Stage, IsPrefixOf
    <3>. QED BY <2>2, <2>9, <3>1
  <2>10. ASSUME NEW a, Slot(a) PROVE FreeInv'
    BY <2>9, <2>10 DEF Slot
  <2>11. CASE UNCHANGED vars
    BY <2>9, <2>11 DEF vars
  <2>12. CASE ActivePage
    <3>1. asked = 0 /\ asked' = 0 /\ UNCHANGED target
      BY <2>12 DEF ActivePage, FreeInv
    <3>. QED BY <2>7, <3>1
  <2>. QED
    BY <2>1, <2>3, <2>4, <2>5, <2>6, <2>8, <2>10, <2>11, <2>12 DEF Next, Run
<1>. QED
  BY <1>1, <1>2, FreeInvImplies, PTL DEF Spec

------------------------------------------------------------------------------
(* !bucket. *)

(* The records its rows are of, and how far it is.                           *)
Printed == [i \in DOMAIN rows |-> rows[i].page]
PageRows(m) == {PageRow(p) : p \in m.heads \cup {Sentinel}}
NoPages == <<"active_pages_head", 0>> \in unreadable
OnlySentinel == memory.active = <<>> /\ sentinel = 0 /\ ~NoPages
BucketWalk ==
  \/ NoPages /\ rows = <<>> /\ cursor = 0
  \/ OnlySentinel /\ rows = <<>> /\ cursor = Sentinel
  \/ OnlySentinel /\ Printed = <<Sentinel>> /\ cursor = 0
  \/ ~NoPages /\ ~OnlySentinel /\ Walk(memory.active, "next_page", Printed, cursor)

BucketInv ==
  /\ memory \in Memories /\ sentinel \in {0, Sentinel}
  /\ rows \in Seq(PageRows(memory))
  /\ IF pc = "bucket" THEN BucketWalk ELSE IsPrefixOf(Printed, ActivePages)

(* The row of a span has the place of its first slot.                        *)
LEMMA RowPlaced ==
  ASSUME NEW m \in Memories, NEW h \in m.heads
  PROVE  LET first == PayloadStart(h) IN
           PageRow(h).super = SuperPageOf(first) /\ PageRow(h).index = SlotIndex(first)
<1> DEFINE s == SuperPageOf(h)
<1>1. PICK i \in Nat : h = Record(s, i) /\ i >= 1 /\ i + m.pages[h] < kPagesPerSuperPage
  BY HeadFacts
<1>2. h \in Nat /\ h < SizeT /\ m.pages[h] \in Nat
  BY HeadFacts
<1>3. s \in Nat /\ s % kSuperPageSize = 0 /\ s + kSuperPageSize <= SizeT
  BY <1>2, SuperPageWhole
<1>. HIDE DEF s
<1>4. i \in 0..(kPagesPerSuperPage - 1)
  BY <1>1, <1>2, SMT DEF kPagesPerSuperPage
<1>5. PayloadStart(h) = s + i * kPartitionPageSize /\ PageIndex(h) = i
  BY <1>1, <1>3, <1>4, RecordLeadsToPage
<1>6. i * kPartitionPageSize \in Nat /\ i * kPartitionPageSize < kSuperPageSize
  BY <1>4, SMT DEF kPartitionPageSize, kSuperPageSize, kPagesPerSuperPage
<1>7. SuperPageOf(s + i * kPartitionPageSize) = s /\ (s + i * kPartitionPageSize) % kSuperPageSize = i * kPartitionPageSize
  BY <1>3, <1>6, WithinSuperPage
<1>8. (i * kPartitionPageSize) \div kPartitionPageSize = i
  BY SMT DEF kPartitionPageSize
<1>. QED
  BY <1>5, <1>7, <1>8 DEF PageRow, SlotIndex, s

(* The chain of active pages of a bucket. *)
LEMMA ActiveFacts ==
  ASSUME memory \in Memories
  PROVE  /\ memory.active \in Seq(memory.heads) /\ Injective(memory.active) /\ 0 \notin memory.heads
  BY MemoriesAssumption, HeadOfSpan DEF Injective

(* One more row is one more record. *)
LEMMA PrintedAfter ==
  ASSUME NEW S, rows \in Seq(S), NEW r \in S, rows' = Append(rows, r)
  PROVE  Printed' = Append(Printed, r.page)
<1>1. /\ Len(rows) \in Nat /\ DOMAIN rows = 1..Len(rows)
      /\ DOMAIN (rows') = 1..(Len(rows) + 1)
      /\ \A i \in 1..Len(rows) : rows'[i] = rows[i]
      /\ rows'[Len(rows) + 1] = r
  BY AppendProperties, SMT
<1>2. Printed' = [i \in 1..(Len(rows) + 1) |-> rows'[i].page]
  BY <1>1 DEF Printed
<1>3. Printed = [i \in 1..Len(rows) |-> rows[i].page]
  BY <1>1 DEF Printed
<1>4. Len(Printed) = Len(rows)
  BY <1>1, <1>3, SMT
<1>5. Append(Printed, r.page) = [i \in 1..(Len(rows) + 1) |-> IF i = Len(rows) + 1 THEN r.page ELSE rows[i].page]
  BY <1>1, <1>3, <1>4, SMT
<1>. QED
  BY <1>1, <1>2, <1>5, SMT

(* Every list that is all that can be shown, or nothing, is a beginning of it. *)
LEMMA ShortLists ==
  ASSUME memory \in Memories
  PROVE  /\ IsPrefixOf(<<>>, ActivePages)
         /\ OnlySentinel => IsPrefixOf(<<Sentinel>>, ActivePages) /\ ActivePages = <<Sentinel>>
         /\ NoPages => ActivePages = <<>>
         /\ ~NoPages /\ ~OnlySentinel => ActivePages = UpToUnreadable(memory.active, "next_page")
<1> DEFINE list == memory.active
<1>1. /\ OnlySentinel => ActivePages = <<Sentinel>>
      /\ NoPages => ActivePages = <<>>
      /\ ~NoPages /\ ~OnlySentinel => ActivePages = UpToUnreadable(list, "next_page")
  BY DEF OnlySentinel, NoPages, ActivePages
<1> DEFINE one == <<Sentinel>>
<1>2. /\ one \in Seq({Sentinel}) /\ Len(one) = 1 /\ Len(<<>>) = 0
      /\ SubSeq(one, 1, 0) = <<>> /\ SubSeq(<<>>, 1, 0) = <<>>
  BY SubSeqEmpty, SMT
<1>3. IsPrefixOf(<<>>, <<>>) /\ IsPrefixOf(<<>>, one) /\ IsPrefixOf(one, one)
  <2>. HIDE DEF one
  <2>1. SubSeq(one, 1, 1) = one
    BY <1>2, SubSeqFull
  <2>. QED BY <1>2, <2>1, SMT DEF IsPrefixOf
<1>4. IsPrefixOf(<<>>, UpToUnreadable(list, "next_page"))
  <2>1. list \in Seq(memory.heads) /\ 0 \notin memory.heads
    BY ActiveFacts
  <2>. HIDE DEF list
  <2>2. Walk(list, "next_page", <<>>, IF list = <<>> THEN 0 ELSE list[1])
    BY <2>1, WalkStarts
  <2>. QED BY <2>1, <2>2, WalkIsPrefix
<1>. QED
  BY <1>1, <1>3, <1>4

(* A walk over the bucket shows what the property says. *)
LEMMA BucketWalkShows ==
  ASSUME memory \in Memories, BucketWalk
  PROVE  IsPrefixOf(Printed, ActivePages) /\ (cursor = 0 => Printed = ActivePages)
<1>1. rows = <<>> => Printed = <<>>
  BY SMT DEF Printed
<1>2. Sentinel # 0
  BY AddressesAssumption
<1>3. CASE NoPages /\ rows = <<>> /\ cursor = 0
  BY <1>1, <1>3, ShortLists
<1>4. CASE OnlySentinel /\ rows = <<>> /\ cursor = Sentinel
  BY <1>1, <1>2, <1>4, ShortLists
<1>5. CASE OnlySentinel /\ Printed = <<Sentinel>> /\ cursor = 0
  BY <1>5, ShortLists
<1>6. CASE ~NoPages /\ ~OnlySentinel /\ Walk(memory.active, "next_page", Printed, cursor)
  <2>. DEFINE list == memory.active
  <2>1. list \in Seq(memory.heads) /\ 0 \notin memory.heads
    BY ActiveFacts
  <2>2. Walk(list, "next_page", Printed, cursor)
    BY <1>6
  <2>3. ActivePages = UpToUnreadable(list, "next_page")
    BY <1>6, ShortLists
  <2>. HIDE DEF list
  <2>. QED BY <2>1, <2>2, <2>3, WalkIsPrefix
<1>. QED
  BY <1>3, <1>4, <1>5, <1>6 DEF BucketWalk

(* The walk and the places are what the property says of !bucket. *)
LEMMA BucketInvImplies == BucketInv => BucketShown
<1>. SUFFICES ASSUME BucketInv PROVE BucketShown
  OBVIOUS
<1>1. ASSUME NEW i \in DOMAIN rows, rows[i].page \in memory.heads
      PROVE  LET first == PayloadStart(rows[i].page) IN
               rows[i].super = SuperPageOf(first) /\ rows[i].index = SlotIndex(first)
  <2>1. rows[i] \in PageRows(memory)
    BY SMT DEF BucketInv
  <2>2. PICK p \in memory.heads \cup {Sentinel} : rows[i] = PageRow(p)
    BY <2>1 DEF PageRows
  <2>3. rows[i].page = p
    BY <2>2 DEF PageRow
  <2>4. memory \in Memories /\ p \in memory.heads
    BY <1>1, <2>3 DEF BucketInv
  <2>. QED BY <2>2, <2>3, <2>4, RowPlaced
<1>2. IsPrefixOf(Printed, ActivePages)
  BY BucketWalkShows DEF BucketInv
<1>3. pc = "bucket" /\ cursor = 0 => Printed = ActivePages
  BY BucketWalkShows DEF BucketInv
<1>. QED
  BY <1>1, <1>2, <1>3 DEF BucketShown, Printed

(* !bucket lists the active pages in their order, up to the first link that  *)
(* cannot be read, each with the place of its first slot.                    *)
THEOREM BucketsShown == Spec => []BucketShown
<1>1. Init => BucketInv
  <2>. SUFFICES ASSUME Init PROVE BucketInv
    OBVIOUS
  <2>1. rows = <<>> /\ memory \in Memories /\ sentinel \in {0, Sentinel} /\ pc = "idle"
    BY DEF Init
  <2>2. Printed = <<>> /\ rows \in Seq(PageRows(memory))
    BY <2>1, SMT DEF Printed
  <2>. QED BY <2>1, <2>2, ShortLists DEF BucketInv
<1>2. BucketInv /\ [Next]_vars => BucketInv'
  <2>. SUFFICES ASSUME BucketInv, [Next]_vars PROVE BucketInv'
    OBVIOUS
  <2>0. memory \in Memories /\ sentinel \in {0, Sentinel} /\ rows \in Seq(PageRows(memory))
    BY DEF BucketInv
  <2>1. ASSUME UNCHANGED target 
        PROVE  /\ ActivePages' = ActivePages /\ PageRows(memory)' = PageRows(memory)
               /\ NoPages' = NoPages /\ OnlySentinel' = OnlySentinel
    BY <2>1 DEF target, ActivePages, UpToUnreadable, PageRows, NoPages, OnlySentinel
  <2>2. ASSUME UNCHANGED target, rows' = <<>>, pc' # "bucket" PROVE BucketInv'
    <3>1. Printed' = <<>> /\ rows' \in Seq(PageRows(memory))
      BY <2>2, SMT DEF Printed
    <3>2. IsPrefixOf(<<>>, ActivePages)
      BY <2>0, ShortLists
    <3>3. IsPrefixOf(Printed, ActivePages)'
      BY <2>1, <2>2, <3>1, <3>2 DEF IsPrefixOf
    <3>. QED BY <2>0, <2>1, <2>2, <3>1, <3>3 DEF BucketInv, target
  <2>3. ASSUME UNCHANGED <<target, rows>>, pc' # "bucket" PROVE BucketInv'
    <3>1. IsPrefixOf(Printed, ActivePages)
      BY BucketWalkShows DEF BucketInv
    <3>. QED BY <2>1, <2>3, <3>1 DEF BucketInv, target, IsPrefixOf, Printed
  <2>4. ASSUME UNCHANGED vars PROVE BucketInv'
    <3>1. UNCHANGED <<target, rows, pc, cursor>>
      BY <2>4 DEF vars
    <3>2. BucketWalk => BucketWalk'
      BY <3>1 DEF target, BucketWalk, NoPages, OnlySentinel, Printed, Walk, Walked
    <3>. QED BY <2>1, <3>1, <3>2 DEF BucketInv, target, IsPrefixOf, Printed
  <2>5. ASSUME NEW g \in memory.heads, NEW p \in RecordsOf(memory, g) \cup {0, Sentinel}, PPage(p)
        PROVE  BucketInv'
    BY <2>2, <2>5 DEF PPage
  <2>6. ASSUME NEW a, Slot(a) \/ SPage(a) PROVE BucketInv'
    BY <2>2, <2>6 DEF Slot, SPage
  <2>7. CASE Resolve \/ Describe \/ FreeSlot \/ ChainEnd
    BY <2>3, <2>7 DEF Resolve, Describe, FreeSlot, ChainEnd
  <2>8. CASE Bucket
    <3>1. UNCHANGED target /\ rows' = <<>>
      BY <2>8 DEF Bucket
    <3>2. CASE Read(<<"slot_size", 0>>, memory.slot_size) = 0
      BY <2>2, <2>8, <3>1, <3>2 DEF Bucket
    <3>3. CASE Read(<<"slot_size", 0>>, memory.slot_size) # 0
      <4> DEFINE list == memory.active
                 head == Read(<<"active_pages_head", 0>>, IF list = <<>> THEN Sentinel ELSE list[1])
      <4>1. pc' = "bucket" /\ cursor' = IF head = sentinel THEN 0 ELSE head
        BY <2>8, <3>3 DEF Bucket
      <4>2. Printed' = <<>> /\ rows' \in Seq(PageRows(memory))
        BY <3>1, SMT DEF Printed
      <4>3. list \in Seq(memory.heads) /\ 0 \notin memory.heads /\ Sentinel \notin memory.heads
        BY <2>0, ActiveFacts, HeadOfSpan
      <4>4. list # <<>> => list[1] \in memory.heads
        <5>. HIDE DEF list
        <5>. QED BY <4>3, SMT
      <4>5. ASSUME NoPages PROVE BucketWalk'
        <5>1. cursor' = 0
          BY <4>1, <4>5 DEF NoPages, Read
        <5>. QED BY <2>1, <3>1, <4>5, <5>1 DEF BucketWalk
      <4>6. ASSUME OnlySentinel PROVE BucketWalk'
        <5>1. cursor' = Sentinel
          BY <4>1, <4>6, AddressesAssumption DEF OnlySentinel, NoPages, Read
        <5>. QED BY <2>1, <3>1, <4>6, <5>1 DEF BucketWalk
      <4>7. ASSUME ~NoPages, ~OnlySentinel PROVE BucketWalk'
        <5>1. cursor' = IF list = <<>> THEN 0 ELSE list[1]
          BY <2>0, <4>1, <4>3, <4>4, <4>7 DEF OnlySentinel, NoPages, Read
        <5>2. Walk(list, "next_page", Printed', cursor')
          <6>. HIDE DEF list
          <6>. QED BY <4>2, <4>3, <5>1, WalkStarts
        <5>3. Walk(memory.active, "next_page", Printed, cursor)'
          BY <3>1, <5>2 DEF Walk, Walked, target
        <5>. QED BY <2>1, <3>1, <4>7, <5>3 DEF BucketWalk
      <4>. QED BY <2>0, <2>1, <3>1, <4>1, <4>2, <4>5, <4>6, <4>7 DEF BucketInv, target
    <3>. QED BY <3>2, <3>3
  <2>9. CASE ActivePage
    <3> DEFINE list == memory.active
    <3>1. /\ UNCHANGED target /\ pc = "bucket" /\ pc' = "bucket" /\ cursor # 0
          /\ rows' = Append(rows, PageRow(cursor)) /\ cursor' = NextPage(cursor)
      BY <2>9 DEF ActivePage
    <3>2. list \in Seq(memory.heads) /\ Injective(list) /\ 0 \notin memory.heads
      BY <2>0, ActiveFacts
    <3>3. ASSUME cursor \in memory.heads \cup {Sentinel}
          PROVE  Printed' = Append(Printed, cursor) /\ rows' \in Seq(PageRows(memory))
      <4>1. PageRow(cursor) \in PageRows(memory) /\ PageRow(cursor).page = cursor
        BY <3>3 DEF PageRows, PageRow
      <4>2. Printed' = Append(Printed, PageRow(cursor).page)
        BY <2>0, <3>1, <4>1, PrintedAfter
      <4>. QED BY <2>0, <3>1, <4>1, <4>2, AppendProperties
    <3>4. BucketWalk
      BY <3>1 DEF BucketInv
    <3>5. ASSUME OnlySentinel, rows = <<>>, cursor = Sentinel
          PROVE  BucketWalk' /\ rows' \in Seq(PageRows(memory))
      <4>1. Printed' = <<Sentinel>> /\ rows' \in Seq(PageRows(memory))
        <5>1. Printed = <<>>
          BY <3>5, SMT DEF Printed
        <5>. QED BY <3>3, <3>5, <5>1, SMT
      <4>2. cursor' = 0
        <5>1. NextIn(list, cursor) = 0
          BY <3>5, SMT DEF NextIn, OnlySentinel
        <5>. QED BY <3>1, <5>1 DEF NextPage, Read
      <4>3. BucketWalk'
        BY <2>1, <3>1, <3>5, <4>1, <4>2 DEF BucketWalk
      <4>. QED BY <4>1, <4>3
    <3>6. ASSUME ~NoPages, ~OnlySentinel, Walk(list, "next_page", Printed, cursor)
          PROVE  BucketWalk' /\ rows' \in Seq(PageRows(memory))
      <4>1. cursor \in memory.heads
        <5>. HIDE DEF list
        <5>1. PICK n \in 0..Len(list) : Walked(list, "next_page", n, cursor)
          BY <3>6 DEF Walk
        <5>2. n # Len(list) /\ cursor = list[n + 1]
          BY <3>1, <5>1 DEF Walked
        <5>3. n + 1 \in 1..Len(list)
          BY <3>2, <5>2, SMT
        <5>. QED BY <3>2, <5>2, <5>3, SMT
      <4>2. Walk(list, "next_page", Append(Printed, cursor), Read(<<"next_page", cursor>>, NextIn(list, cursor)))
        <5>. HIDE DEF list
        <5>. QED BY <3>1, <3>2, <3>6, WalkGoesOn
      <4>3. Walk(list, "next_page", Printed', cursor')
        BY <3>1, <3>3, <4>1, <4>2 DEF NextPage
      <4>4. BucketWalk'
        <5>1. Walk(memory.active, "next_page", Printed, cursor)'
          BY <3>1, <4>3 DEF Walk, Walked, target
        <5>. QED BY <2>1, <3>1, <3>6, <5>1 DEF BucketWalk
      <4>. QED BY <3>3, <4>1, <4>4
    <3>7. BucketWalk' /\ rows' \in Seq(PageRows(memory))
      BY <3>1, <3>4, <3>5, <3>6 DEF BucketWalk
    <3>8. memory' \in Memories /\ sentinel' \in {0, Sentinel}
      BY <2>0, <3>1 DEF target
    <3>. QED BY <2>1, <3>1, <3>7, <3>8 DEF BucketInv
  <2>. QED
    BY <2>4, <2>5, <2>6, <2>7, <2>8, <2>9 DEF Next, Run
<1>. QED
  BY <1>1, <1>2, BucketInvImplies, PTL DEF Spec

=============================================================================
