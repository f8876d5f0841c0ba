------------------------------ MODULE BlinkPage ------------------------------
(***************************************************************************)
(* The geometry of an Oilpan page and the word at the head of each heap    *)
(* object, as oilpan.cpp computes them.  Addresses are byte addresses.     *)
(***************************************************************************)
EXTENDS Naturals

CONSTANTS
  page_header_size,    \* sizeof(blink::NormalPage) in the target
  object_header_size,  \* sizeof(blink::HeapObjectHeader)
  SizeT                \* one more than the greatest size_t of the extension

kBlinkPageSize == 131072
kBlinkGuardPageSize == 4096
kAllocationGranularity == 8

ASSUME PageHeaderAssumption ==
  /\ page_header_size \in Nat \ {0} /\ page_header_size % 4 = 0
  /\ page_header_size <= kBlinkPageSize - 2 * kBlinkGuardPageSize - 2 * kAllocationGranularity
  /\ object_header_size \in {4, 8}

ASSUME SizeTAssumption == SizeT \in Nat \ {0} /\ SizeT % kBlinkPageSize = 0

(* An address with kBlinkPageBaseMask applied, which is a size_t: in a       *)
(* 32-bit build of the extension the mask clears the upper half as well.     *)
PageBase(addr) == (addr % SizeT) - (addr % kBlinkPageSize)

(* Where !scan, !hpage and !chunk look for the page of an address. *)
PageHeader(addr) == PageBase(addr) + kBlinkGuardPageSize

Padding ==
  (page_header_size + kAllocationGranularity
     - (object_header_size % kAllocationGranularity)) % kAllocationGranularity

PageHeaderSize == page_header_size + Padding

PayloadSize ==
  LET room == kBlinkPageSize - 2 * kBlinkGuardPageSize - PageHeaderSize
  IN  room - (room % kAllocationGranularity)

Payload(page) == page + PageHeaderSize
PayloadEnd(page) == Payload(page) + PayloadSize

------------------------------------------------------------------------------
(* HeapObjectHeader::encoded_.  Flags are 0 or 1. *)

Encoded(h) == h.mark + 2 * h.free + h.size + 131072 * h.dom + 262144 * h.gcinfo

(* As the masks and shifts of HeapObjectHeader take it apart. *)
Decoded(encoded) ==
  [mark   |-> encoded % 2,
   free   |-> (encoded \div 2) % 2,
   size   |-> (encoded % 131072) - (encoded % 8),
   dom    |-> (encoded \div 131072) % 2,
   gcinfo |-> (encoded \div 262144) % 16384]

==============================================================================
