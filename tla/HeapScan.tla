------------------------------- MODULE HeapScan -------------------------------
(***************************************************************************)
(* !scan: list the heap objects of the Oilpan page an address lies in,     *)
(* either by stepping from header to header or, with -bitmap, from the     *)
(* bits of the page's ObjectStartBitmap.  The one block without a header,  *)
(* where the arena allocates next, is stepped over with the arena's        *)
(* remaining_allocation_size_.                                             *)
(***************************************************************************)
EXTENDS BlinkPage, Sequences, FiniteSets

CONSTANTS
  PageAddress,  \* where the one page in memory is
  Pages,        \* what it can hold
  Unreadables,  \* the sets of cells that cannot be read: <<member, 0>> of the
                \*   page or its arena, or the header word <<"encoded_", address>>
  Args          \* the addresses given to !scan

(* Nothing is mapped where the page would be that begins at null.            *)
ASSUME PageAddressAssumption ==
  /\ PageAddress \in Nat /\ PageAddress % kBlinkPageSize = kBlinkGuardPageSize
  /\ PageAddress > kBlinkPageSize

ASSUME ArgsAssumption == Args \subseteq Nat

First == Payload(PageAddress)
End == PayloadEnd(PageAddress)

NoHeader == [mark |-> 0, free |-> 0, size |-> 0, dom |-> 0, gcinfo |-> 0]

Flags == 0..1
Sizes == {n \in Nat : n < kBlinkPageSize /\ n % kAllocationGranularity = 0}
GCInfoIndexes == 0..16383
Headers == [mark : Flags, free : Flags, size : Sizes, dom : Flags, gcinfo : GCInfoIndexes]

(* Blocks tile the payload of a page, a whole number of grains each: block s *)
(* has length p.len[s] and header p.header[s].  The allocation point is a    *)
(* block of its own, zeroed, while allocation can go on there; once it is    *)
(* used up the point is where it ended, a block like others or the end of    *)
(* the page.                                                                 *)
ASSUME PagesAssumption ==
  \A p \in Pages :
    /\ DOMAIN p.len = p.starts /\ DOMAIN p.header = p.starts
    /\ First \in p.starts /\ p.starts \subseteq First..(End - 1)
    /\ p.remaining \in Nat /\ p.point \in Nat
    /\ \A s \in p.starts :
         /\ (s - First) % kAllocationGranularity = 0
         /\ p.len[s] \in Nat \ {0} /\ s + p.len[s] \in p.starts \cup {End}
         /\ p.header[s] \in Headers
         /\ IF s = p.point /\ p.remaining # 0
            THEN p.len[s] = p.remaining /\ p.header[s] = NoHeader
            ELSE p.len[s] = p.header[s].size
    /\ p.marked \subseteq p.starts

VARIABLES
  page, unreadable,      \* the target
  arg, use_bitmap,       \* the command line
  pc,                    \* "load", "arena", "scan", "bitmap" or "done"
  point, remaining,      \* the NormalPageArena
  offset_, bits,         \* the ObjectStartBitmap
  bit,                   \* the bit for_each looks at next
  header_address, size,  \* the loop of scan
  lines                  \* the lines printed

target == <<page, unreadable, arg, use_bitmap>>
arena == <<point, remaining>>
bitmap == <<offset_, bits>>
loop == <<bit, header_address, size, lines>>
vars == <<target, pc, arena, bitmap, loop>>

Init ==
  /\ page \in Pages /\ unreadable \in Unreadables
  /\ arg \in Args /\ use_bitmap \in BOOLEAN
  /\ pc = "load"
  /\ point = 0 /\ remaining = 0 /\ offset_ = 0 /\ bits = {}
  /\ bit = 0 /\ header_address = First /\ size = PayloadSize /\ lines = <<>>

Readable(cell) == <<cell, 0>> \notin unreadable
HeaderReadable(a) == <<"encoded_", a>> \notin unreadable

(* What ReadValue and ReadPointerEx leave of a member they cannot read. *)
Read(cell, value) == IF Readable(cell) THEN value ELSE 0

(* BasePage::create: null unless the vtable at the address names a page. *)
PageFound ==
  /\ PageHeader(arg) = PageAddress /\ Readable("vtable")
  /\ page.type \in {"NormalPage", "LargeObjectPage"}

BitOf(s) == (s - First) \div kAllocationGranularity

(* Large object pages have nothing to scan. *)
LoadPage ==
  /\ pc = "load"
  /\ IF PageFound /\ page.type = "NormalPage"
     THEN /\ pc' = IF use_bitmap THEN "bitmap" ELSE "arena"
          /\ offset_' = Read("offset_", First)
          /\ bits' = IF Readable("object_start_bit_map_") THEN {BitOf(s) : s \in page.marked} ELSE {}
     ELSE pc' = "done" /\ UNCHANGED bitmap
  /\ UNCHANGED <<target, arena, loop>>

(* A null arena_ makes an empty NormalPageArena. *)
LoadArena ==
  /\ pc = "arena" /\ pc' = "scan"
  /\ IF Readable("arena_")
     THEN /\ point' = Read("current_allocation_point_", page.point)
          /\ remaining' = Read("remaining_allocation_size_", page.remaining)
     ELSE UNCHANGED arena
  /\ UNCHANGED <<target, bitmap, loop>>

(* HeapObjectHeader::load, at any address. *)
HeaderAt(a) ==
  IF a \in page.starts /\ HeaderReadable(a) THEN Decoded(Encoded(page.header[a])) ELSE NoHeader

BlockSize_ByHeader(a) == HeaderAt(a).size
BlockSize(a) == IF a = point THEN remaining ELSE HeaderAt(a).size

Line(a, current) == [addr |-> a, header |-> HeaderAt(a), current |-> current]

MoreToScan_Inclusive == size # 0 /\ header_address <= End
MoreToScan == size # 0 /\ header_address < End

ScanHeader ==
  /\ pc = "scan" /\ MoreToScan
  /\ lines' = Append(lines, Line(header_address, header_address = point))
  /\ size' = BlockSize(header_address)
  /\ header_address' = header_address + BlockSize(header_address)
  /\ UNCHANGED <<target, pc, arena, bitmap, bit>>

ScanEnd ==
  /\ pc = "scan" /\ ~MoreToScan
  /\ pc' = "done"
  /\ UNCHANGED <<target, arena, bitmap, loop>>

BitsLeft == {b \in bits : b >= bit}

BitAddress_Cells(b) == offset_ + b
BitAddress(b) == offset_ + b * kAllocationGranularity

ScanBit ==
  /\ pc = "bitmap"
  /\ \E b \in BitsLeft :
       /\ \A c \in BitsLeft : b <= c
       /\ lines' = Append(lines, Line(BitAddress(b), FALSE))
       /\ bit' = b + 1
  /\ UNCHANGED <<target, pc, arena, bitmap, header_address, size>>

BitsEnd ==
  /\ pc = "bitmap" /\ BitsLeft = {}
  /\ pc' = "done"
  /\ UNCHANGED <<target, arena, bitmap, loop>>

Next == LoadPage \/ LoadArena \/ ScanHeader \/ ScanEnd \/ ScanBit \/ BitsEnd

(* A command runs to its end; nothing in it waits. *)
Spec == Init /\ [][Next]_vars /\ WF_vars(Next)

------------------------------------------------------------------------------
(* Properties. *)

(* What is read of the arena and the bitmap is right or zero, and scan only  *)
(* ever stands on the head of a block or at the end of the payload.          *)
ScanTypeOK ==
  /\ pc \in {"load", "arena", "scan", "bitmap", "done"}
  /\ point \in {0, page.point} /\ remaining \in {0, page.remaining}
  /\ offset_ \in {0, First} /\ bits \in {{}, {BitOf(s) : s \in page.marked}}
  /\ bit \in Nat /\ size \in Nat
  /\ header_address \in page.starts \cup {End}
  /\ lines \in Seq([addr : Nat, header : Headers, current : BOOLEAN])

(* The headers scan steps through are the page's blocks, from the first one  *)
(* and without a gap, each shown as Blink wrote it (or as zero if it cannot  *)
(* be read), whatever part of the arena could not be read: the sizes that    *)
(* lead from one to the next are never taken from the middle of a block.     *)
BlocksInOrder ==
  ~use_bitmap /\ lines # <<>> =>
    /\ lines[1].addr = First
    /\ \A k \in 1..Len(lines) - 1 :
         lines[k + 1].addr = lines[k].addr + page.len[lines[k].addr]
    /\ \A k \in DOMAIN lines :
         /\ lines[k].addr \in page.starts
         /\ lines[k].header = IF HeaderReadable(lines[k].addr) THEN page.header[lines[k].addr] ELSE NoHeader
         /\ lines[k].current => lines[k].addr = page.point

(* A scan that ends before the last block ends at one whose size it could    *)
(* not learn: a header that cannot be read, the allocation block when the    *)
(* arena cannot be, or the block at an allocation point with nothing left.   *)
StopExplained ==
  pc = "done" /\ ~use_bitmap /\ lines # <<>> =>
    LET last == lines[Len(lines)].addr IN
      \/ last + page.len[last] = End
      \/ ~HeaderReadable(last)
      \/ /\ last = page.point
         /\ \/ page.remaining = 0
            \/ \E c \in {"arena_", "current_allocation_point_", "remaining_allocation_size_"} :
                 ~Readable(c)

(* The page that holds the address, as far as the size_t of the extension    *)
(* can tell it from others.                                                  *)
Asked ==
  /\ arg % SizeT \in (PageAddress - kBlinkGuardPageSize)..(PageAddress - kBlinkGuardPageSize + kBlinkPageSize - 1)
  /\ Readable("vtable") /\ page.type = "NormalPage"

ArenaKnown == Readable("arena_") /\ Readable("current_allocation_point_")
AtPoint(s) == s = page.point /\ ArenaKnown
SizeUnknown(s) ==
  IF AtPoint(s) THEN page.remaining = 0 \/ ~Readable("remaining_allocation_size_")
                ELSE page.header[s].size = 0 \/ ~HeaderReadable(s)

TrueLine(s, current) ==
  [addr |-> s, header |-> IF HeaderReadable(s) THEN page.header[s] ELSE NoHeader, current |-> current]

BlocksFrom[s \in page.starts \cup {End}] ==
  IF s = End THEN <<>>
  ELSE <<TrueLine(s, AtPoint(s))>>
         \o (IF SizeUnknown(s) THEN <<>> ELSE BlocksFrom[s + page.len[s]])

(* Marked blocks in the order of their addresses; if the address the bits    *)
(* count from cannot be read, that many bytes above null, where nothing is.  *)
MarkedBlocks ==
  [k \in 1..Cardinality(page.marked) |->
     LET s == CHOOSE m \in page.marked : Cardinality({n \in page.marked : n <= m}) = k
     IN  IF Readable("offset_") THEN TrueLine(s, FALSE)
         ELSE [addr |-> s - First, header |-> NoHeader, current |-> FALSE]]

Wanted ==
  CASE ~Asked -> <<>>
    [] Asked /\ ~use_bitmap -> BlocksFrom[First]
    [] OTHER -> IF Readable("object_start_bit_map_") THEN MarkedBlocks ELSE <<>>

PageListing == INSTANCE Listing WITH wanted <- Wanted, out <- lines

(* Both modes of !scan print exactly the lines the page has for them, in     *)
(* order and each once, and come to the end.                                 *)
ListsPage == PageListing!Spec

==============================================================================
