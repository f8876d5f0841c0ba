---------------------------- MODULE PartitionMap ----------------------------
(***************************************************************************)
(* The geometry of PartitionAlloc as partitions.cpp computes it.  A super  *)
(* page is cut into partition pages; the second system page of its first   *)
(* partition page holds one record of metadata, a PartitionPage, for each. *)
(* A slot span is one or more partition pages in a row; the first one's    *)
(* record describes the span, the others hold the distance to it.          *)
(***************************************************************************)
EXTENDS Integers

CONSTANTS
  SizeT,   \* one more than the greatest size_t of the extension
  UInt32   \* one more than the greatest uint32_t

kSystemPageSize == 4096
kPartitionPageSize == 16384   \* 1 << kPartitionPageShift
kPageMetadataSize == 32       \* 1 << kPageMetadataShift
kSuperPageSize == 2097152
kPagesPerSuperPage == 128

ASSUME WordsAssumption ==
  /\ SizeT \in Nat \ {0} /\ SizeT % kSuperPageSize = 0
  /\ UInt32 \in Nat \ {0} /\ UInt32 % kSuperPageSize = 0

(* kSuperPageBaseMask is a size_t: in a 32-bit build of the extension the    *)
(* mask clears the upper half of an address as well.                         *)
SuperPageOf(addr) == (addr % SizeT) - (addr % kSuperPageSize)

(* !slot: the record of the partition page an address lies in. *)
SlotIndex(addr) == (addr % kSuperPageSize) \div kPartitionPageSize
Record(super, index) == super + kSystemPageSize + index * kPageMetadataSize
PageOfSlot(addr) == Record(SuperPageOf(addr), SlotIndex(addr))

(* !ppage and !bucket: the partition page a record is for. *)
PageIndex_FromBase(p) == ((p - SuperPageOf(p)) \div kPageMetadataSize) % UInt32
PageIndex(p) == ((p - SuperPageOf(p) - kSystemPageSize) \div kPageMetadataSize) % UInt32
PayloadStart(p) == SuperPageOf(p) + ((PageIndex(p) * kPartitionPageSize) % UInt32)

(* The record page_offset records before p. *)
SpanPage_Itself(p, page_offset) == p
SpanPage(p, page_offset) == p - page_offset * kPageMetadataSize

(* !spage: the address and the record in row "index" of its table. *)
RowOfSuperPage_FromZero(base, index) ==
  [addr |-> base + index * kPartitionPageSize, page |-> Record(base, index - 1)]
RowOfSuperPage(base, index) ==
  [addr |-> base + index * kPartitionPageSize, page |-> Record(base, index)]

=============================================================================
