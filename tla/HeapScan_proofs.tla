--------------------------- MODULE HeapScan_proofs ---------------------------
(***************************************************************************)
(* Proofs about the geometry of Oilpan pages and about !scan, of which the *)
(* last is that it lists what it promises to list.                         *)
(***************************************************************************)
EXTENDS HeapScan, Chains_proofs

(* The padding after the page header puts the payload of the first object,   *)
(* which its own header precedes, on the allocation granularity.             *)
THEOREM PayloadAligned ==
  ASSUME NEW k \in Nat
  PROVE  (Payload(k * kBlinkPageSize + kBlinkGuardPageSize) + object_header_size)
            % kAllocationGranularity = 0
BY PageHeaderAssumption, SMT
   DEF Payload, PageHeaderSize, Padding, kBlinkPageSize, kBlinkGuardPageSize, kAllocationGranularity

(* The payload has room and ends on the granularity, before the guard page. *)
LEMMA PayloadFacts ==
  /\ PayloadSize \in Nat /\ PayloadSize > 0 /\ PayloadSize % kAllocationGranularity = 0
  /\ PageHeaderSize \in Nat
  /\ PageHeaderSize + PayloadSize + 2 * kBlinkGuardPageSize <= kBlinkPageSize
BY PageHeaderAssumption, SMT
   DEF PayloadSize, PageHeaderSize, Padding, kBlinkPageSize, kBlinkGuardPageSize, kAllocationGranularity

(* Every payload address leads back to its page, in an extension whose       *)
(* size_t can hold the address.                                              *)
THEOREM PageOfPayload ==
  ASSUME NEW k \in Nat, NEW addr \in Nat,
         LET base == k * kBlinkPageSize + kBlinkGuardPageSize
         IN  Payload(base) <= addr /\ addr < PayloadEnd(base),
         addr < SizeT
  PROVE  PageHeader(addr) = k * kBlinkPageSize + kBlinkGuardPageSize
<1> DEFINE base == k * kBlinkPageSize + kBlinkGuardPageSize
<1>1. base <= addr /\ addr < (k + 1) * kBlinkPageSize
  BY PayloadFacts, SMT DEF Payload, PayloadEnd, kBlinkPageSize, kBlinkGuardPageSize
<1>2. addr % SizeT = addr
  BY SizeTAssumption, SMT
<1>3. addr - (addr % kBlinkPageSize) = k * kBlinkPageSize
  BY <1>1, SMT DEF kBlinkPageSize, kBlinkGuardPageSize
<1> QED
  BY <1>2, <1>3 DEF PageHeader, PageBase

(* A header is the record of its five fields. *)
LEMMA HeaderFields ==
  ASSUME NEW h \in Headers
  PROVE  /\ h.mark \in Flags /\ h.free \in Flags /\ h.dom \in Flags
         /\ h.size \in Sizes /\ h.gcinfo \in GCInfoIndexes
         /\ h = [mark |-> h.mark, free |-> h.free, size |-> h.size,
                 dom |-> h.dom, gcinfo |-> h.gcinfo]
BY SMT DEF Headers

(* A word taken apart at bit 17, where the size ends. *)
LEMMA Halves ==
  ASSUME NEW low \in Nat, NEW high \in Nat, low < 131072
  PROVE  LET e == low + 131072 * high IN
         /\ e % 131072 = low /\ e % 8 = low % 8 /\ e % 2 = low % 2
         /\ (e \div 2) % 2 = (low \div 2) % 2
         /\ e \div 131072 = high /\ e \div 262144 = high \div 2
BY SMT

(* The ranges of the fields, as bounds. *)
LEMMA FieldRanges ==
  /\ \A n \in Flags : n \in Nat /\ n < 2
  /\ \A n \in Sizes : n \in Nat /\ n < 131072 /\ n % 8 = 0
  /\ \A n \in GCInfoIndexes : n \in Nat /\ n < 16384
<1>1. \A n \in Flags : n \in Nat /\ n < 2
  BY SMT DEF Flags
<1>2. \A n \in Sizes : n \in Nat /\ n < 131072 /\ n % 8 = 0
  BY SMT DEF Sizes, kBlinkPageSize, kAllocationGranularity
<1>3. \A n \in GCInfoIndexes : n \in Nat /\ n < 16384
  BY SMT DEF GCInfoIndexes
<1> QED
  BY <1>1, <1>2, <1>3, SMT

(* The same of the fields of a header. *)
LEMMA FieldsInRange ==
  ASSUME NEW h \in Headers
  PROVE  /\ h.mark \in Nat /\ h.free \in Nat /\ h.dom \in Nat /\ h.size \in Nat /\ h.gcinfo \in Nat
         /\ h.mark < 2 /\ h.free < 2 /\ h.dom < 2 /\ h.gcinfo < 16384
         /\ h.size < 131072 /\ h.size % 8 = 0
BY HeaderFields, FieldRanges, SMT

(* The low 17 bits: size, freed and mark. *)
LEMMA LowBits ==
  ASSUME NEW h \in Headers
  PROVE  LET low == h.mark + 2 * h.free + h.size IN
         /\ low \in Nat /\ low < 131072 /\ low - (low % 8) = h.size
         /\ low % 2 = h.mark /\ (low \div 2) % 2 = h.free
<1>1. PICK k \in Nat : h.size = 8 * k
  <2>1. h.size \div 8 \in Nat /\ h.size = 8 * (h.size \div 8)
    BY FieldsInRange, SMT
  <2> QED
    BY <2>1
<1>2. CASE h.mark = 0 /\ h.free = 0
  BY <1>1, <1>2, FieldsInRange, SMT
<1>3. CASE h.mark = 1 /\ h.free = 0
  BY <1>1, <1>3, FieldsInRange, SMT
<1>4. CASE h.mark = 0 /\ h.free = 1
  BY <1>1, <1>4, FieldsInRange, SMT
<1>5. CASE h.mark = 1 /\ h.free = 1
  BY <1>1, <1>5, FieldsInRange, SMT
<1> QED
  BY <1>2, <1>3, <1>4, <1>5, FieldsInRange, SMT

(* HeapObjectHeader takes apart what Blink has put together. *)
LEMMA DecodedEncoded ==
  ASSUME NEW h \in Headers
  PROVE  Decoded(Encoded(h)) = h
<1> DEFINE low == h.mark + 2 * h.free + h.size
           high == h.dom + 2 * h.gcinfo
           e == Encoded(h)
<1>2. /\ low \in Nat /\ low < 131072 /\ low - (low % 8) = h.size
      /\ low % 2 = h.mark /\ (low \div 2) % 2 = h.free
  BY LowBits, SMT
<1>3. high \in Nat /\ high % 2 = h.dom /\ (high \div 2) % 16384 = h.gcinfo
  <2>1. high \in Nat /\ high % 2 = h.dom /\ high \div 2 = h.gcinfo
    <3>1. CASE h.dom = 0
      BY <3>1, FieldsInRange, SMT
    <3>2. CASE h.dom = 1
      BY <3>2, FieldsInRange, SMT
    <3> QED
      BY <3>1, <3>2, FieldsInRange, SMT
  <2>2. h.gcinfo % 16384 = h.gcinfo
    BY FieldsInRange, SMT
  <2> QED
    BY <2>1, <2>2, SMT
<1>4. e = low + 131072 * high
  BY FieldsInRange, SMT DEF Encoded
<1> HIDE DEF low, high, e
<1>5. /\ e % 131072 = low /\ e % 8 = low % 8 /\ e % 2 = low % 2
      /\ (e \div 2) % 2 = (low \div 2) % 2
      /\ e \div 131072 = high /\ e \div 262144 = high \div 2
  BY <1>2, <1>3, <1>4, Halves, SMT
<1>6. /\ e % 2 = h.mark /\ (e \div 2) % 2 = h.free /\ (e % 131072) - (e % 8) = h.size
      /\ (e \div 131072) % 2 = h.dom /\ (e \div 262144) % 16384 = h.gcinfo
  BY <1>2, <1>3, <1>5, SMT
<1> QED
  BY <1>6, HeaderFields, SMT DEF Decoded, e

------------------------------------------------------------------------------
(* The scan. *)

(* What PagesAssumption says of a page. *)
LEMMA PageFacts ==
  ASSUME NEW p \in Pages
  PROVE  /\ p.point \in Nat /\ p.remaining \in Nat
         /\ First \in Nat /\ First > 0 /\ End \in Nat /\ First < End
         /\ First \in p.starts /\ p.marked \subseteq p.starts
         /\ \A s \in p.starts : s \in Nat /\ First <= s /\ s < End
<1>1. First \in Nat /\ First > 0 /\ End \in Nat /\ First < End
  BY PayloadFacts, PageAddressAssumption, SMT
     DEF First, End, Payload, PayloadEnd, kBlinkPageSize, kBlinkGuardPageSize
<1>2. First \in p.starts /\ p.starts \subseteq First..(End - 1) /\ p.marked \subseteq p.starts
      /\ p.point \in Nat /\ p.remaining \in Nat
  BY PagesAssumption
<1> QED
  BY <1>1, <1>2, SMT

(* What it says of a block of a page. *)
LEMMA BlockFacts ==
  ASSUME NEW p \in Pages, NEW s \in p.starts
  PROVE  /\ p.len[s] \in Nat /\ p.len[s] > 0 /\ s + p.len[s] \in p.starts \cup {End}
         /\ p.header[s] \in Headers
         /\ s = p.point /\ p.remaining # 0 => p.len[s] = p.remaining /\ p.header[s] = NoHeader
         /\ ~(s = p.point /\ p.remaining # 0) => p.len[s] = p.header[s].size
<1>1. /\ p.len[s] \in Nat \ {0} /\ s + p.len[s] \in p.starts \cup {End}
      /\ p.header[s] \in Headers
      /\ IF s = p.point /\ p.remaining # 0
         THEN p.len[s] = p.remaining /\ p.header[s] = NoHeader
         ELSE p.len[s] = p.header[s].size
  BY PagesAssumption
<1> QED
  BY <1>1, SMT

(* The header read from zeros is a header. *)
LEMMA NoHeaderType == NoHeader \in Headers
<1>1. 0 \in Flags /\ 0 \in Sizes /\ 0 \in GCInfoIndexes
  BY SMT DEF Flags, Sizes, GCInfoIndexes, kBlinkPageSize, kAllocationGranularity
<1> QED
  BY <1>1, SMT DEF NoHeader, Headers

(* The two things HeapObjectHeader::load can leave of a block's header. *)
LEMMA HeaderAtFacts ==
  ASSUME page \in Pages, NEW a
  PROVE  /\ HeaderAt(a) \in Headers
         /\ a \in page.starts =>
              HeaderAt(a) = IF HeaderReadable(a) THEN page.header[a] ELSE NoHeader
<1>1. CASE a \in page.starts /\ HeaderReadable(a)
  <2>1. page.header[a] \in Headers
    BY <1>1, BlockFacts
  <2> QED
    BY <1>1, <2>1, DecodedEncoded DEF HeaderAt
<1>2. CASE ~(a \in page.starts /\ HeaderReadable(a))
  BY <1>2, NoHeaderType DEF HeaderAt
<1> QED
  BY <1>1, <1>2

(* A step of the loop goes to the next block or does not move: the block     *)
(* where the arena allocates is stepped over with what remains of it, every  *)
(* other with its header, and what cannot be read counts as zero.            *)
LEMMA BlockSizeFacts ==
  ASSUME page \in Pages, point \in {0, page.point}, remaining \in {0, page.remaining},
         NEW a \in page.starts
  PROVE  BlockSize(a) \in {0, page.len[a]}
<1>1. a \in Nat /\ a > 0 /\ page.remaining \in Nat
  BY PageFacts, SMT
<1>2. CASE a = point
  <2>1. a = page.point
    BY <1>1, <1>2, SMT
  <2> QED
    BY <1>2, <2>1, BlockFacts, SMT DEF BlockSize
<1>3. CASE a # point
  <2>1. BlockSize(a) = HeaderAt(a).size
    BY <1>3 DEF BlockSize
  <2>2. NoHeader.size = 0
    BY DEF NoHeader
  <2>3. HeaderAt(a).size \in {0, page.header[a].size}
    BY <2>2, HeaderAtFacts
  <2>4. page.header[a].size \in {0, page.len[a]}
    BY <2>2, BlockFacts
  <2> QED
    BY <2>1, <2>3, <2>4
<1> QED
  BY <1>2, <1>3

(* The inductive invariant: the lines are consecutive blocks, the next       *)
(* header is the one after the last of them unless its size came out as 0,   *)
(* and then there was a reason.                                              *)
Last == lines[Len(lines)].addr

ArenaLoaded ==
  /\ point = IF Readable("arena_") THEN Read("current_allocation_point_", page.point) ELSE 0
  /\ remaining = IF Readable("arena_") THEN Read("remaining_allocation_size_", page.remaining) ELSE 0

SizeLost(s) ==
  \/ ~HeaderReadable(s)
  \/ /\ s = page.point
     /\ \/ page.remaining = 0
        \/ \E c \in {"arena_", "current_allocation_point_", "remaining_allocation_size_"} : ~Readable(c)

ScanInv ==
  /\ page \in Pages
  /\ ScanTypeOK
  /\ BlocksInOrder
  /\ pc \in {"load", "arena"} => point = 0 /\ remaining = 0 /\ lines = <<>>
  /\ pc = "scan" => ArenaLoaded /\ ~use_bitmap
  /\ pc = "arena" => ~use_bitmap
  /\ pc = "bitmap" => use_bitmap
  /\ lines = <<>> => header_address = First /\ size # 0
  /\ ~use_bitmap /\ lines # <<>> =>
       /\ size # 0 => header_address = Last + page.len[Last]
       /\ size = 0 => SizeLost(Last)
       /\ pc = "done" => size = 0 \/ header_address = End

(* The invariant holds when the command starts. *)
LEMMA ScanInvInit == Init => ScanInv
<1> SUFFICES ASSUME Init PROVE ScanInv
  OBVIOUS
<1>1. page \in Pages /\ First \in page.starts /\ PayloadSize \in Nat /\ PayloadSize # 0
  BY PageFacts, PayloadFacts, SMT DEF Init
<1> QED
  BY <1>1 DEF Init, ScanInv, ScanTypeOK, BlocksInOrder

(* A block gets size 0 only if its size is lost. *)
LEMMA SizeZero ==
  ASSUME page \in Pages, ArenaLoaded, NEW a \in page.starts, BlockSize(a) = 0
  PROVE  SizeLost(a)
<1>1. a \in Nat /\ a > 0 /\ page.len[a] > 0
  BY PageFacts, BlockFacts, SMT
<1>2. CASE a = point
  <2>1. a = page.point /\ remaining = 0
    BY <1>1, <1>2, SMT DEF ArenaLoaded, Read, BlockSize
  <2> QED
    BY <2>1 DEF ArenaLoaded, Read, SizeLost
<1>3. CASE a # point /\ HeaderReadable(a)
  <2>1. page.header[a].size = 0
    BY <1>3, HeaderAtFacts DEF BlockSize
  <2>2. a = page.point /\ page.remaining # 0
    BY <1>1, <2>1, BlockFacts, SMT
  <2> QED
    BY <1>3, <2>2 DEF ArenaLoaded, Read, SizeLost
<1> QED
  BY <1>2, <1>3 DEF SizeLost

(* One turn of the loop of scan keeps the invariant. *)
LEMMA ScanHeaderKeeps ==
  ASSUME ScanInv, ScanHeader
  PROVE  ScanInv'
<1> DEFINE a == header_address
           line == Line(a, a = point)
<1>1. /\ page \in Pages /\ page' = page /\ unreadable' = unreadable /\ use_bitmap' = use_bitmap
      /\ pc = "scan" /\ pc' = "scan" /\ ~use_bitmap /\ ArenaLoaded
      /\ point' = point /\ remaining' = remaining /\ offset_' = offset_ /\ bits' = bits /\ bit' = bit
      /\ size # 0 /\ a < End
      /\ size' = BlockSize(a) /\ header_address' = a + BlockSize(a)
      /\ lines' = Append(lines, line)
  BY DEF ScanInv, ScanHeader, MoreToScan, target, arena, bitmap
<1>2. /\ a \in page.starts /\ a \in Nat /\ End \in Nat
      /\ point \in {0, page.point} /\ remaining \in {0, page.remaining}
      /\ lines \in Seq([addr : Nat, header : Headers, current : BOOLEAN])
  BY <1>1, PageFacts, SMT DEF ScanInv, ScanTypeOK
<1>3. BlockSize(a) \in {0, page.len[a]} /\ page.len[a] \in Nat /\ page.len[a] > 0
      /\ a + page.len[a] \in page.starts \cup {End}
  BY <1>1, <1>2, BlockSizeFacts, BlockFacts
<1>4. /\ line \in [addr : Nat, header : Headers, current : BOOLEAN]
      /\ line.addr = a /\ (line.current => a = page.point)
      /\ line.header = IF HeaderReadable(a) THEN page.header[a] ELSE NoHeader
  <2>1. HeaderAt(a) \in Headers
        /\ HeaderAt(a) = IF HeaderReadable(a) THEN page.header[a] ELSE NoHeader
    BY <1>1, <1>2, HeaderAtFacts
  <2>2. a = point => a = page.point
    BY <1>1, <1>2, PageFacts, SMT
  <2> QED
    BY <1>2, <2>1, <2>2 DEF Line
<1> HIDE DEF a, line
<1>5. /\ lines' \in Seq([addr : Nat, header : Headers, current : BOOLEAN])
      /\ Len(lines') = Len(lines) + 1 /\ Len(lines) \in Nat
      /\ \A k \in 1..Len(lines) : lines'[k] = lines[k]
      /\ lines'[Len(lines) + 1] = line
      /\ lines' # <<>>
  BY <1>1, <1>2, <1>4, SMT
<1>6. Last' = a
  BY <1>4, <1>5 DEF Last
<1>7. ScanTypeOK'
  BY <1>1, <1>2, <1>3, <1>5, SMT DEF ScanInv, ScanTypeOK, a
<1>8. BlocksInOrder'
  <2>1. lines'[1].addr = First
    <3>1. CASE lines = <<>>
      BY <1>4, <1>5, <3>1, SMT DEF ScanInv, a
    <3>2. CASE lines # <<>>
      BY <1>1, <1>2, <1>5, <3>2, SMT DEF ScanInv, BlocksInOrder
    <3> QED
      BY <3>1, <3>2
  <2>2. ASSUME NEW k \in 1..Len(lines') - 1
        PROVE  lines'[k + 1].addr = lines'[k].addr + page.len[lines'[k].addr]
    <3>1. CASE k = Len(lines)
      <4>1. lines # <<>> /\ a = Last + page.len[Last]
        BY <1>1, <1>2, <1>5, <3>1, SMT DEF ScanInv, a
      <4> QED
        BY <1>4, <1>5, <2>2, <3>1, <4>1, SMT DEF Last
    <3>2. CASE k # Len(lines)
      <4>1. k \in 1..Len(lines) - 1 /\ lines # <<>>
        BY <1>2, <1>5, <2>2, <3>2, SMT
      <4>2. lines[k + 1].addr = lines[k].addr + page.len[lines[k].addr]
        BY <1>1, <4>1 DEF ScanInv, BlocksInOrder
      <4> QED
        BY <1>5, <4>1, <4>2, SMT
    <3> QED
      BY <3>1, <3>2
  <2>3. ASSUME NEW k \in DOMAIN lines'
        PROVE  /\ lines'[k].addr \in page.starts
               /\ lines'[k].header = IF HeaderReadable(lines'[k].addr)
                                     THEN page.header[lines'[k].addr] ELSE NoHeader
               /\ lines'[k].current => lines'[k].addr = page.point
    <3>1. CASE k = Len(lines) + 1
      BY <1>2, <1>4, <1>5, <3>1
    <3>2. CASE k \in DOMAIN lines
      <4>1. lines # <<>> /\ lines'[k] = lines[k]
        <5>1. k \in 1..Len(lines)
          BY <1>2, <3>2
        <5> QED
          BY <1>5, <5>1
      <4> QED
        BY <1>1, <3>2, <4>1 DEF ScanInv, BlocksInOrder
    <3> QED
      BY <1>2, <1>5, <2>3, <3>1, <3>2, SMT
  <2> QED
    BY <1>1, <2>1, <2>2, <2>3 DEF BlocksInOrder, HeaderReadable
<1>9. /\ size' # 0 => header_address' = Last' + page'.len[Last']
      /\ size' = 0 => SizeLost(Last)'
  <2>1. size' = 0 => SizeLost(a)
    BY <1>1, <1>2, SizeZero
  <2> QED
    BY <1>1, <1>3, <1>6, <2>1 DEF SizeLost, HeaderReadable, Readable
<1>10. ArenaLoaded'
  BY <1>1 DEF ArenaLoaded, Read, Readable
<1> QED
  BY <1>1, <1>5, <1>7, <1>8, <1>9, <1>10 DEF ScanInv

(* So does one bit of the bitmap. *)
LEMMA ScanBitKeeps ==
  ASSUME ScanInv, ScanBit
  PROVE  ScanInv'
<1>1. PICK b \in bits :
        lines' = Append(lines, Line(BitAddress(b), FALSE)) /\ bit' = b + 1
  BY DEF ScanBit, BitsLeft
<1>2. /\ page \in Pages /\ page' = page /\ pc = "bitmap" /\ pc' = "bitmap" /\ use_bitmap /\ use_bitmap'
      /\ point' = point /\ remaining' = remaining /\ offset_' = offset_ /\ bits' = bits
      /\ header_address' = header_address /\ size' = size
  BY DEF ScanInv, ScanBit, target, arena, bitmap
<1>3. b \in Nat /\ BitAddress(b) \in Nat
  <2>1. PICK s \in page.marked : b = BitOf(s)
    BY DEF ScanInv, ScanTypeOK
  <2>2. s \in Nat /\ First \in Nat /\ First <= s
    BY <1>2, PageFacts
  <2>3. b \in Nat
    BY <2>1, <2>2, SMT DEF BitOf, kAllocationGranularity
  <2>4. offset_ \in Nat
    BY <2>2 DEF ScanInv, ScanTypeOK
  <2> QED
    BY <2>3, <2>4, SMT DEF BitAddress, kAllocationGranularity
<1>4. Line(BitAddress(b), FALSE) \in [addr : Nat, header : Headers, current : BOOLEAN]
  BY <1>2, <1>3, HeaderAtFacts DEF Line
<1>5. lines' \in Seq([addr : Nat, header : Headers, current : BOOLEAN]) /\ lines' # <<>>
  <2> DEFINE S == [addr : Nat, header : Headers, current : BOOLEAN]
             line == Line(BitAddress(b), FALSE)
  <2>1. lines \in Seq(S) /\ line \in S /\ lines' = Append(lines, line)
    BY <1>1, <1>4 DEF ScanInv, ScanTypeOK
  <2> HIDE DEF S, line
  <2>2. lines' \in Seq(S) /\ lines' # <<>>
    BY <2>1, SMT
  <2> QED
    BY <2>2 DEF S
<1>6. ScanTypeOK'
  <2>1. bit' \in Nat
    BY <1>1, <1>3, SMT
  <2> QED
    BY <1>2, <1>5, <2>1 DEF ScanInv, ScanTypeOK
<1> QED
  BY <1>2, <1>5, <1>6 DEF ScanInv, BlocksInOrder

(* So does every step of the command. *)
LEMMA ScanInvNext ==
  ASSUME ScanInv, [Next]_vars
  PROVE  ScanInv'
<1>1. CASE LoadPage
  BY <1>1 DEF LoadPage, ScanInv, ScanTypeOK, BlocksInOrder, Read, target, arena, bitmap, loop, Last
<1>2. CASE LoadArena
  BY <1>2 DEF LoadArena, ScanInv, ScanTypeOK, BlocksInOrder, ArenaLoaded, Read, Readable, target, arena, bitmap, loop
<1>3. CASE ScanHeader
  BY <1>3, ScanHeaderKeeps
<1>4. CASE ScanEnd
  <2>1. size = 0 \/ header_address = End
    <3>1. header_address \in page.starts \cup {End} /\ page \in Pages /\ ~MoreToScan
      BY <1>4 DEF ScanInv, ScanTypeOK, ScanEnd
    <3> QED
      BY <3>1, PageFacts, SMT DEF MoreToScan
  <2> QED
    BY <1>4, <2>1 DEF ScanEnd, ScanInv, ScanTypeOK, BlocksInOrder, HeaderReadable, SizeLost, Readable, Last,
      target, arena, bitmap, loop
<1>5. CASE ScanBit
  BY <1>5, ScanBitKeeps
<1>6. CASE BitsEnd
  BY <1>6 DEF BitsEnd, ScanInv, ScanTypeOK, BlocksInOrder, target, arena, bitmap, loop
<1>7. CASE UNCHANGED vars
  BY <1>7 DEF vars, ScanInv, ScanTypeOK, BlocksInOrder, ArenaLoaded, HeaderReadable, SizeLost, Readable, Read, Last,
    target, arena, bitmap, loop
<1> QED
  BY <1>1, <1>2, <1>3, <1>4, <1>5, <1>6, <1>7 DEF Next

(* The invariant holds throughout every !scan. *)
LEMMA ScanInvAlways == Spec => []ScanInv
<1>1. ScanInv /\ [Next]_vars => ScanInv'
  BY ScanInvNext
<1> QED
  BY ScanInvInit, <1>1, PTL DEF Spec

(* On every page, whatever its blocks and whatever cannot be read, !scan     *)
(* stays on the heads of blocks.                                             *)
THEOREM ScanTypes == Spec => []ScanTypeOK
<1>1. ScanInv => ScanTypeOK
  BY DEF ScanInv
<1> QED
  BY ScanInvAlways, <1>1, PTL

(* And it lists them from the first on without a gap. *)
THEOREM ScanInOrder == Spec => []BlocksInOrder
<1>1. ScanInv => BlocksInOrder
  BY DEF ScanInv
<1> QED
  BY ScanInvAlways, <1>1, PTL

(* A scan that ends too early ends at a block whose size it could not learn. *)
THEOREM ScanStopExplained == Spec => []StopExplained
<1>1. ScanInv => StopExplained
  BY SMT DEF ScanInv, StopExplained, SizeLost, Last
<1> QED
  BY ScanInvAlways, <1>1, PTL

------------------------------------------------------------------------------
(* The listing. *)

(* A line of the listing.                                                    *)
ScanLine == [addr : Nat, header : Headers, current : BOOLEAN]

(* The blocks from s on, given those from every later block.                 *)
Blocks(f, s) ==
  IF s = End THEN <<>>
  ELSE <<TrueLine(s, AtPoint(s))>> \o (IF SizeUnknown(s) THEN <<>> ELSE f[s + page.len[s]])

(* The line of a block is one.                                               *)
LEMMA TrueLineType ==
  ASSUME page \in Pages, NEW s \in page.starts
  PROVE  TrueLine(s, AtPoint(s)) \in ScanLine
<1>1. s \in Nat /\ page.header[s] \in Headers /\ NoHeader \in Headers
  BY PageFacts, BlockFacts, NoHeaderType
<1> QED
  BY <1>1 DEF TrueLine, AtPoint, ArenaKnown, ScanLine

Starts == page.starts \cup {End}

(* What holds of the end, and of every block if it holds of the next, holds  *)
(* of all of them.                                                           *)
LEMMA FromTheLast ==
  ASSUME page \in Pages, NEW C, {} \in C,
         \A X \in SUBSET Starts : X \in C =>
           \A n \in Starts \ X : (n # End => n + page.len[n] \in X) => X \cup {n} \in C
  PROVE  Starts \in C
<1> DEFINE succ == [s \in Starts |-> IF s = End THEN {} ELSE {s + page.len[s]}]
<1>1. /\ Starts \subseteq First..End /\ Starts \subseteq Nat
      /\ First \in Nat /\ End \in Nat /\ End \notin page.starts
  <2>1. First \in Nat /\ End \in Nat /\ First < End /\ \A s \in page.starts : s \in Nat /\ First <= s /\ s < End
    BY PageFacts
  <2>2. \A s \in Starts : s \in Nat /\ s \in First..End
    BY <2>1, SMT DEF Starts
  <2>3. End \notin page.starts
    BY <2>1, SMT
  <2> QED
    BY <2>1, <2>2, <2>3, Zenon
<1>2. IsFiniteSet(Starts)
  <2>1. IsFiniteSet(First..End)
    BY <1>1, FS_Interval
  <2> QED
    BY <1>1, <2>1, FS_Subset
<1>3. \A s \in Starts : s # End =>
        succ[s] = {s + page.len[s]} /\ page.len[s] \in Nat /\ page.len[s] > 0 /\ s + page.len[s] \in Starts
  BY <1>1, BlockFacts DEF Starts
<1>4. Begun(Starts, succ)
  <2>1. SUFFICES ASSUME NEW S \in SUBSET Starts, S # {} PROVE \E n \in S : \A m \in S : n \notin succ[m]
    BY DEF Begun
  <2>2. S \in SUBSET Nat
    BY <1>1, Zenon
  <2>3. PICK n \in S : \A m \in S : n <= m
    BY <2>1, <2>2, LeastExists
  <2>4. \A m \in S : n \notin succ[m]
    <3>1. SUFFICES ASSUME NEW m \in S, n \in succ[m] PROVE FALSE
      OBVIOUS
    <3>2. m # End /\ n = m + page.len[m]
      BY <1>3, <3>1
    <3> QED
      BY <1>3, <2>2, <2>3, <3>2
  <2> QED
    BY <2>4
<1>5. Grows(Starts, succ, C)
  BY <1>3 DEF Grows
<1> HIDE DEF succ
<1> QED
  BY <1>2, <1>4, <1>5, LeavesFirst

(* There is a function that does what BlocksFrom asks for.                   *)
LEMMA BlocksFromExists ==
  ASSUME page \in Pages
  PROVE  \E f : f = [s \in Starts |-> Blocks(f, s)]
<1> DEFINE Sol(X, f) == f = [s \in X |-> Blocks(f, s)]
           Closed(X) == \A s \in X : s # End => s + page.len[s] \in X
           C == {X \in SUBSET Starts : Closed(X) /\ \E f : Sol(X, f)}
<1>1. {} \in C
  <2>1. Sol({}, [s \in {} |-> <<>>])
    OBVIOUS
  <2> QED
    BY <2>1
<1>2. ASSUME NEW X \in SUBSET Starts, X \in C, NEW n \in Starts \ X, n # End => n + page.len[n] \in X
      PROVE  X \cup {n} \in C
  <2>1. PICK f : Sol(X, f)
    BY <1>2
  <2> DEFINE g == [s \in X \cup {n} |-> Blocks(f, s)]
  <2>2. \A s \in X \cup {n} : s # End => s + page.len[s] \in X
    BY <1>2
  <2>3. \A s \in X : g[s] = f[s]
    BY <2>1
  <2>4. \A s \in X \cup {n} : Blocks(g, s) = Blocks(f, s)
    BY <2>2, <2>3 DEF Blocks
  <2>5. Sol(X \cup {n}, g)
    BY <2>4, Zenon
  <2> QED
    BY <1>2, <2>2, <2>5
<1>3. Starts \in C
  <2> HIDE DEF C
  <2> QED
    BY <1>1, <1>2, FromTheLast
<1> QED
  BY <1>3

(* So BlocksFrom does.                                                       *)
LEMMA BlocksFromIs ==
  ASSUME page \in Pages
  PROVE  \A s \in Starts : BlocksFrom[s] = Blocks(BlocksFrom, s)
<1>1. BlocksFrom = [s \in Starts |-> Blocks(BlocksFrom, s)]
  BY BlocksFromExists DEF BlocksFrom, Blocks, Starts
<1> QED
  BY <1>1, Zenon

(* And what it gives is a sequence of lines.                                 *)
LEMMA BlocksFromType ==
  ASSUME page \in Pages
  PROVE  \A s \in Starts : BlocksFrom[s] \in Seq(ScanLine)
<1> DEFINE C == {X \in SUBSET Starts : \A s \in X : BlocksFrom[s] \in Seq(ScanLine)}
<1>1. {} \in C
  OBVIOUS
<1>2. ASSUME NEW X \in SUBSET Starts, X \in C, NEW n \in Starts \ X, n # End => n + page.len[n] \in X
      PROVE  X \cup {n} \in C
  <2>1. BlocksFrom[n] = Blocks(BlocksFrom, n)
    BY BlocksFromIs
  <2>2. CASE n = End
    <3>1. BlocksFrom[n] = <<>>
      BY <2>1, <2>2 DEF Blocks
    <3>2. BlocksFrom[n] \in Seq(ScanLine)
      BY <3>1
    <3> QED
      BY <1>2, <3>2
  <2>3. CASE n # End
    <3>1. TrueLine(n, AtPoint(n)) \in ScanLine /\ BlocksFrom[n + page.len[n]] \in Seq(ScanLine)
      BY <1>2, <2>3, TrueLineType DEF Starts
    <3>2. BlocksFrom[n] \in Seq(ScanLine)
      BY <2>1, <2>3, <3>1 DEF Blocks
    <3> QED
      BY <1>2, <3>2
  <2> QED
    BY <2>2, <2>3
<1>3. Starts \in C
  <2> HIDE DEF C
  <2> QED
    BY <1>1, <1>2, FromTheLast
<1> QED
  BY <1>3

(* The listings again, with what of the target they depend on as arguments.  *)
BlocksOf(p, u) ==
  CHOOSE f : f = [s \in p.starts \cup {End} |->
    IF s = End THEN <<>>
    ELSE <<[addr |-> s, header |-> IF <<"encoded_", s>> \notin u THEN p.header[s] ELSE NoHeader,
            current |-> s = p.point /\ (<<"arena_", 0>> \notin u /\ <<"current_allocation_point_", 0>> \notin u)]>>
           \o (IF (IF s = p.point /\ (<<"arena_", 0>> \notin u /\ <<"current_allocation_point_", 0>> \notin u)
                   THEN p.remaining = 0 \/ ~ (<<"remaining_allocation_size_", 0>> \notin u)
                   ELSE p.header[s].size = 0 \/ ~ (<<"encoded_", s>> \notin u))
               THEN <<>> ELSE f[s + p.len[s]])]

MarkedOf(p, u) ==
  [k \in 1..Cardinality(p.marked) |->
     LET s == CHOOSE m \in p.marked : Cardinality({n \in p.marked : n <= m}) = k
     IN  IF <<"offset_", 0>> \notin u
         THEN [addr |-> s, header |-> IF <<"encoded_", s>> \notin u THEN p.header[s] ELSE NoHeader,
               current |-> FALSE]
         ELSE [addr |-> s - First, header |-> NoHeader, current |-> FALSE]]

(* The page does not change while it is listed, so neither does any part of  *)
(* what is to be printed.                                                    *)
LEMMA BlocksStay ==
  ASSUME UNCHANGED <<page, unreadable>>
  PROVE  BlocksFrom' = BlocksFrom
<1>1. BlocksFrom = BlocksOf(page, unreadable)
  BY Zenon DEF BlocksFrom, TrueLine, AtPoint, SizeUnknown, ArenaKnown, Readable, HeaderReadable, BlocksOf
<1>2. BlocksFrom' = BlocksOf(page', unreadable')
  BY Zenon DEF BlocksFrom, TrueLine, AtPoint, SizeUnknown, ArenaKnown, Readable, HeaderReadable, BlocksOf
<1> QED
  BY <1>1, <1>2, Zenon

(* Nor the lines of the marked blocks.                                       *)
LEMMA MarkedStay ==
  ASSUME UNCHANGED <<page, unreadable>>
  PROVE  MarkedBlocks' = MarkedBlocks
<1>1. MarkedBlocks = MarkedOf(page, unreadable)
  BY Zenon DEF MarkedBlocks, TrueLine, Readable, HeaderReadable, MarkedOf
<1>2. MarkedBlocks' = MarkedOf(page', unreadable')
  BY Zenon DEF MarkedBlocks, TrueLine, Readable, HeaderReadable, MarkedOf
<1> QED
  BY <1>1, <1>2, Zenon

(* So the listing is fixed when the command starts.                          *)
LEMMA WantedStays ==
  ASSUME UNCHANGED target
  PROVE  Wanted' = Wanted
<1>1. page' = page /\ unreadable' = unreadable /\ arg' = arg /\ use_bitmap' = use_bitmap
  BY DEF target
<1>2. BlocksFrom' = BlocksFrom /\ MarkedBlocks' = MarkedBlocks
  BY <1>1, BlocksStay, MarkedStay, Zenon
<1>3. Asked' = Asked /\ Readable("object_start_bit_map_")' = Readable("object_start_bit_map_")
  BY <1>1, Zenon DEF Asked, Readable
<1> QED
  BY <1>1, <1>2, <1>3, Zenon DEF Wanted

(* The page an address lies in is told by the bits above the page's, as far  *)
(* as the size_t of the extension has them.                                  *)
LEMMA PageOfArg ==
  ASSUME NEW a \in Nat
  PROVE  PageHeader(a) = PageAddress <=>
           a % SizeT \in (PageAddress - kBlinkGuardPageSize)..(PageAddress - kBlinkGuardPageSize + kBlinkPageSize - 1)
<1> DEFINE q == a % SizeT
<1>1. PICK K \in Nat : SizeT = 131072 * K /\ K > 0
  <2>1. SizeT \div 131072 \in Nat /\ SizeT = 131072 * (SizeT \div 131072) /\ SizeT \div 131072 > 0
    BY SizeTAssumption, SMT DEF kBlinkPageSize
  <2> QED
    BY <2>1
<1>2. PICK d \in Nat : a = SizeT * d + q
  <2>1. SizeT \in Nat /\ SizeT > 0
    BY SizeTAssumption, SMT
  <2>2. a \div SizeT \in Nat /\ a = SizeT * (a \div SizeT) + (a % SizeT)
    BY <2>1, Z3
  <2> QED
    BY <2>2
<1>3. q \in Nat
  BY SizeTAssumption, SMT
<1>4. PICK j \in Nat : a = 131072 * j + q
  <2>1. K * d \in Nat /\ SizeT * d = 131072 * (K * d)
    BY <1>1, <1>2, SMT
  <2> QED
    BY <1>2, <2>1
<1> HIDE DEF q
<1>5. a % 131072 = q % 131072
  BY <1>3, <1>4, SMT
<1>6. PICK B \in Nat : PageAddress = 131072 * B + 4096
  <2>1. PageAddress \div 131072 \in Nat /\ PageAddress = 131072 * (PageAddress \div 131072) + 4096
    BY PageAddressAssumption, SMT DEF kBlinkPageSize, kBlinkGuardPageSize
  <2> QED
    BY <2>1
<1>7. PageHeader(a) = q - (q % 131072) + 4096
  BY <1>5 DEF PageHeader, PageBase, q, kBlinkPageSize, kBlinkGuardPageSize
<1>8. q - (q % 131072) = 131072 * B <=> q \in (131072 * B)..(131072 * B + 131071)
  BY <1>3, <1>6, SMT
<1>9. q - (q % 131072) \in Nat
  BY <1>3, SMT
<1> QED
  BY <1>3, <1>6, <1>7, <1>8, <1>9, SMT DEF q, kBlinkPageSize, kBlinkGuardPageSize

(* So !scan takes up the page in the very cases where it is asked for.       *)
LEMMA AskedFound ==
  ASSUME arg \in Nat
  PROVE  (PageFound /\ page.type = "NormalPage") <=> Asked
BY PageOfArg DEF PageFound, Asked

(* The line printed at the head of a block is the right one.                 *)
LEMMA LineTrue ==
  ASSUME page \in Pages, ArenaLoaded, NEW a \in page.starts
  PROVE  Line(a, a = point) = TrueLine(a, AtPoint(a))
<1>1. a \in Nat /\ a > 0
  BY PageFacts, SMT
<1>2. (a = point) = AtPoint(a)
  BY <1>1 DEF ArenaLoaded, AtPoint, ArenaKnown, Read
<1>3. HeaderAt(a) = IF HeaderReadable(a) THEN page.header[a] ELSE NoHeader
  BY HeaderAtFacts
<1> QED
  BY <1>2, <1>3 DEF Line, TrueLine

(* The loop stops at a block whose size is not known, and there only.        *)
LEMMA StopsWhereUnknown ==
  ASSUME page \in Pages, ArenaLoaded, NEW a \in page.starts
  PROVE  BlockSize(a) = 0 <=> SizeUnknown(a)
<1>1. a \in Nat /\ a > 0 /\ page.remaining \in Nat
  BY PageFacts, SMT
<1>2. a = point <=> AtPoint(a)
  BY <1>1 DEF ArenaLoaded, AtPoint, ArenaKnown, Read
<1>3. CASE AtPoint(a)
  BY <1>1, <1>2, <1>3 DEF BlockSize, SizeUnknown, ArenaLoaded, AtPoint, ArenaKnown, Read
<1>4. CASE ~AtPoint(a)
  <2>1. HeaderAt(a) = IF HeaderReadable(a) THEN page.header[a] ELSE NoHeader
    BY HeaderAtFacts
  <2>2. NoHeader.size = 0
    BY DEF NoHeader
  <2> QED
    BY <1>2, <1>4, <2>1, <2>2 DEF BlockSize, SizeUnknown
<1> QED
  BY <1>3, <1>4

(* The bits count grains, so they come in the order of the blocks, and each  *)
(* leads back to its block.                                                  *)
LEMMA BitFacts ==
  ASSUME page \in Pages, NEW s \in page.marked
  PROVE  BitOf(s) \in Nat /\ s = First + 8 * BitOf(s)
<1>1. s \in page.starts /\ s \in Nat /\ First \in Nat /\ First <= s
  BY PageFacts
<1>2. (s - First) % 8 = 0
  BY <1>1, PagesAssumption DEF kAllocationGranularity
<1> QED
  BY <1>1, <1>2, SMT DEF BitOf, kAllocationGranularity

(* The line printed for the bit of a block.                                  *)
MarkedLine(s) ==
  IF Readable("offset_") THEN TrueLine(s, FALSE)
  ELSE [addr |-> s - First, header |-> NoHeader, current |-> FALSE]

(* It is what ScanBit prints, whether or not the bits' base can be read.     *)
LEMMA MarkedLineTrue ==
  ASSUME page \in Pages, NEW s \in page.marked, offset_ = Read("offset_", First)
  PROVE  Line(BitAddress(BitOf(s)), FALSE) = MarkedLine(s)
<1>1. s \in page.starts /\ s \in Nat /\ First \in Nat /\ First <= s /\ s < End
  BY PageFacts
<1>2. BitOf(s) \in Nat /\ s = First + 8 * BitOf(s)
  BY BitFacts
<1>3. CASE Readable("offset_")
  <2>1. BitAddress(BitOf(s)) = s
    BY <1>1, <1>2, <1>3, SMT DEF BitAddress, Read, kAllocationGranularity
  <2>2. HeaderAt(s) = IF HeaderReadable(s) THEN page.header[s] ELSE NoHeader
    BY <1>1, HeaderAtFacts
  <2> QED
    BY <1>3, <2>1, <2>2 DEF Line, MarkedLine, TrueLine
<1>4. CASE ~Readable("offset_")
  <2>1. BitAddress(BitOf(s)) = s - First
    BY <1>1, <1>2, <1>4, SMT DEF BitAddress, Read, kAllocationGranularity
  <2>2. s - First < First
    BY <1>1, PayloadFacts, PageAddressAssumption, SMT
       DEF First, End, Payload, PayloadEnd, kBlinkPageSize, kBlinkGuardPageSize
  <2>3. s - First \notin page.starts
    BY <1>1, <2>2, PageFacts, SMT
  <2> QED
    BY <1>4, <2>1, <2>3 DEF Line, MarkedLine, HeaderAt
<1> QED
  BY <1>3, <1>4

(* It is one.                                                                *)
LEMMA MarkedLineType ==
  ASSUME page \in Pages, NEW s \in page.marked
  PROVE  MarkedLine(s) \in ScanLine
<1>1. s \in page.starts /\ s \in Nat /\ First \in Nat /\ First <= s
  BY PageFacts
<1>2. s - First \in Nat /\ page.header[s] \in Headers /\ NoHeader \in Headers
  BY <1>1, BlockFacts, NoHeaderType, SMT
<1> QED
  BY <1>1, <1>2 DEF MarkedLine, TrueLine, ScanLine

(* The marked blocks up to one of them.                                      *)
MarkedUpTo(s) == {n \in page.marked : n <= s}

(* A marked block has its own place in the order, given by those up to it.   *)
LEMMA RankFacts ==
  ASSUME page \in Pages
  PROVE  /\ IsFiniteSet(page.marked)
         /\ \A S \in SUBSET page.marked : IsFiniteSet(S) /\ Cardinality(S) \in Nat
         /\ \A s, t \in page.marked : Cardinality(MarkedUpTo(s)) = Cardinality(MarkedUpTo(t)) => s = t
<1>1. page.marked \subseteq First..End /\ First \in Nat /\ End \in Nat
  BY PageFacts, SMT
<1>2. IsFiniteSet(page.marked)
  <2>1. IsFiniteSet(First..End)
    BY <1>1, FS_Interval
  <2> QED
    BY <1>1, <2>1, FS_Subset
<1>3. \A S \in SUBSET page.marked : IsFiniteSet(S) /\ Cardinality(S) \in Nat
  BY <1>2, FS_Subset, FS_CardinalityType
<1>4. ASSUME NEW s \in page.marked, NEW t \in page.marked, s < t
      PROVE  Cardinality(MarkedUpTo(s)) # Cardinality(MarkedUpTo(t))
  <2>1. MarkedUpTo(s) \subseteq MarkedUpTo(t) /\ MarkedUpTo(s) # MarkedUpTo(t)
    <3>1. s \in Nat /\ t \in Nat /\ \A n \in page.marked : n \in Nat
      BY <1>1
    <3>2. \A n \in page.marked : n <= s => n <= t
      BY <1>4, <3>1
    <3>3. t \in MarkedUpTo(t) /\ t \notin MarkedUpTo(s)
      BY <1>4, <3>1 DEF MarkedUpTo
    <3> QED
      BY <3>2, <3>3 DEF MarkedUpTo
  <2>2. IsFiniteSet(MarkedUpTo(t))
    BY <1>3 DEF MarkedUpTo
  <2>3. Cardinality(MarkedUpTo(s)) <= Cardinality(MarkedUpTo(t)) /\ Cardinality(MarkedUpTo(s)) # Cardinality(MarkedUpTo(t))
    <3>1. MarkedUpTo(s) \in SUBSET MarkedUpTo(t)
      BY <2>1
    <3> QED
      BY <2>1, <2>2, <3>1, FS_Subset, Zenon
  <2>4. Cardinality(MarkedUpTo(s)) \in Nat /\ Cardinality(MarkedUpTo(t)) \in Nat
    BY <1>3 DEF MarkedUpTo
  <2> QED
    BY <2>3, <2>4, SMT
<1>5. ASSUME NEW s \in page.marked, NEW t \in page.marked,
             Cardinality(MarkedUpTo(s)) = Cardinality(MarkedUpTo(t))
      PROVE  s = t
  <2>1. s \in Nat /\ t \in Nat
    BY <1>1
  <2>2. ~(s < t) /\ ~(t < s)
    BY <1>4, <1>5
  <2> QED
    BY <2>1, <2>2, SMT
<1> QED
  BY <1>2, <1>3, <1>5

(* So the listing has the line of a marked block at the block's place.       *)
LEMMA MarkedAt ==
  ASSUME page \in Pages, NEW s \in page.marked
  PROVE  /\ Cardinality(MarkedUpTo(s)) \in 1..Cardinality(page.marked)
         /\ MarkedBlocks[Cardinality(MarkedUpTo(s))] = MarkedLine(s)
<1> DEFINE k == Cardinality(MarkedUpTo(s))
<1>1. MarkedUpTo(s) \subseteq page.marked /\ s \in MarkedUpTo(s)
  <2>1. s \in Nat
    BY PageFacts
  <2> QED
    BY <2>1 DEF MarkedUpTo
<1>2. k \in Nat /\ k <= Cardinality(page.marked) /\ k # 0 /\ Cardinality(page.marked) \in Nat
  BY <1>1, RankFacts, FS_Subset, FS_EmptySet
<1>3. k \in 1..Cardinality(page.marked)
  BY <1>2, SMT
<1>4. (CHOOSE m \in page.marked : Cardinality({n \in page.marked : n <= m}) = k) = s
  <2>1. \A m \in page.marked : Cardinality({n \in page.marked : n <= m}) = k <=> m = s
    BY RankFacts DEF MarkedUpTo
  <2> QED
    BY <2>1
<1>5. MarkedBlocks[k] =
        LET t == CHOOSE m \in page.marked : Cardinality({n \in page.marked : n <= m}) = k
        IN  MarkedLine(t)
  BY <1>3, Zenon DEF MarkedBlocks, MarkedLine
<1> QED
  BY <1>3, <1>4, <1>5, Zenon

(* The marked blocks whose bits have been looked at.                         *)
Seen == {s \in page.marked : BitOf(s) < bit}

(* What the lines are at each point of a command: a part of the listing, to  *)
(* which the rest is still to come.                                          *)
ListRight ==
  /\ arg \in Nat
  /\ pc \in {"load", "arena"} => lines = <<>>
  /\ pc \in {"arena", "scan", "bitmap"} => Asked
  /\ pc = "scan" =>
       BlocksFrom[First] = IF size = 0 THEN lines ELSE lines \o BlocksFrom[header_address]
  /\ pc = "load" => bit = 0
  /\ pc = "bitmap" =>
       /\ offset_ = Read("offset_", First)
       /\ bits = IF Readable("object_start_bit_map_") THEN {BitOf(s) : s \in page.marked} ELSE {}
       /\ Len(lines) = IF Readable("object_start_bit_map_") THEN Cardinality(Seen) ELSE 0
       /\ \A k \in 1..Len(lines) : lines[k] = MarkedBlocks[k]
  /\ pc = "done" => lines = Wanted

ListInv == ScanInv /\ ListRight

(* A line more of the listing is a step of its promise.                      *)
LEMMA OneLine ==
  ASSUME UNCHANGED target, NEW line,
         lines \in Seq(ScanLine), line \in ScanLine,
         Len(lines) + 1 \in 1..Len(Wanted), Len(Wanted) \in Nat,
         Wanted[Len(lines) + 1] = line,
         lines' = Append(lines, line)
  PROVE  PageListing!PrintLine
<1>1. Wanted' = Wanted
  BY WantedStays
<1>2. Len(lines) < Len(Wanted)
  BY SMT
<1> QED
  BY <1>1, <1>2 DEF PageListing!PrintLine

(* Nothing of it is printed when the command starts.                         *)
LEMMA ListInvInit == Init => ListInv /\ PageListing!Init
<1> SUFFICES ASSUME Init PROVE ListInv /\ PageListing!Init
  OBVIOUS
<1>1. arg \in Nat
  BY ArgsAssumption DEF Init
<1> QED
  BY <1>1, ScanInvInit DEF Init, ListInv, ListRight, PageListing!Init

(* The header of a block is its line.                                        *)
LEMMA ScanHeaderLists ==
  ASSUME ListInv, ScanHeader
  PROVE  ListRight' /\ PageListing!PrintLine
<1> DEFINE a == header_address
           line == Line(a, a = point)
           rest == IF SizeUnknown(a) THEN <<>> ELSE BlocksFrom[a + page.len[a]]
<1>1. /\ page \in Pages /\ UNCHANGED <<page, unreadable, arg, use_bitmap>> /\ UNCHANGED target
      /\ pc = "scan" /\ pc' = "scan" /\ ~use_bitmap /\ ArenaLoaded /\ Asked
      /\ size # 0 /\ a < End
      /\ size' = BlockSize(a) /\ header_address' = a + BlockSize(a)
      /\ lines' = Append(lines, line)
      /\ BlocksFrom[First] = lines \o BlocksFrom[a]
  BY DEF ListInv, ListRight, ScanInv, ScanHeader, MoreToScan, target
<1>2. a \in page.starts /\ a \in Nat /\ a # End /\ lines \in Seq(ScanLine)
  BY <1>1, PageFacts, SMT DEF ListInv, ScanInv, ScanTypeOK, ScanLine
<1>3. line = TrueLine(a, AtPoint(a)) /\ line \in ScanLine
  BY <1>1, <1>2, LineTrue, TrueLineType
<1>4. BlockSize(a) = 0 <=> SizeUnknown(a)
  BY <1>1, <1>2, StopsWhereUnknown
<1>5. BlockSize(a) \in {0, page.len[a]} /\ a + page.len[a] \in Starts
  BY <1>1, <1>2, BlockSizeFacts, BlockFacts DEF ListInv, ScanInv, ScanTypeOK, Starts
<1>6. BlocksFrom[a] = <<line>> \o rest
  BY <1>1, <1>2, <1>3, BlocksFromIs DEF Starts, Blocks
<1>7. rest \in Seq(ScanLine)
  BY <1>1, <1>5, BlocksFromType
<1>8. Wanted = BlocksFrom[First]
  BY <1>1 DEF Wanted
<1>9. rest = IF size' = 0 THEN <<>> ELSE BlocksFrom[header_address']
  BY <1>1, <1>4, <1>5
<1> HIDE DEF a, line, rest
<1>10. BlocksFrom[First] = lines' \o rest
  BY <1>1, <1>2, <1>3, <1>6, <1>7
<1>11. PageListing!PrintLine
  <2>1. /\ Len(Wanted) = Len(lines) + 1 + Len(rest) /\ Len(lines) \in Nat /\ Len(rest) \in Nat
        /\ Wanted[Len(lines) + 1] = line
    BY <1>1, <1>2, <1>3, <1>7, <1>8, <1>10
  <2>2. Len(lines) + 1 \in 1..Len(Wanted) /\ Len(Wanted) \in Nat
    BY <2>1, SMT
  <2> QED
    BY <1>1, <1>2, <1>3, <2>1, <2>2, OneLine
<1>12. lines' \in Seq(ScanLine)
  BY <1>1, <1>2, <1>3
<1>13. BlocksFrom[First] = IF size' = 0 THEN lines' ELSE lines' \o BlocksFrom[header_address']
  BY <1>7, <1>9, <1>10, <1>12
<1>14. BlocksFrom' = BlocksFrom
  BY <1>1, BlocksStay
<1>15. Asked'
  BY <1>1 DEF Asked, Readable
<1> QED
  BY <1>1, <1>11, <1>13, <1>14, <1>15 DEF ListInv, ListRight

(* The listing of the marked blocks is as long as they are many.             *)
LEMMA MarkedType ==
  ASSUME page \in Pages
  PROVE  /\ DOMAIN MarkedBlocks = 1..Cardinality(page.marked)
         /\ MarkedBlocks = [k \in 1..Cardinality(page.marked) |-> MarkedBlocks[k]]
         /\ Len(MarkedBlocks) = Cardinality(page.marked)
<1> DEFINE n == Cardinality(page.marked)
<1>1. n \in Nat
  BY RankFacts
<1>2. MarkedBlocks = [k \in 1..n |-> MarkedBlocks[k]]
  <2> DEFINE G(k) ==
        LET s == CHOOSE m \in page.marked : Cardinality({i \in page.marked : i <= m}) = k
        IN  MarkedLine(s)
  <2>1. MarkedBlocks = [k \in 1..n |-> G(k)]
    BY Zenon DEF MarkedBlocks, MarkedLine
  <2> HIDE DEF G
  <2> QED
    BY <2>1
<1>3. DOMAIN MarkedBlocks = 1..n
  BY <1>2
<1> HIDE DEF n
<1>4. MarkedBlocks \in Seq({MarkedBlocks[k] : k \in 1..n})
  BY <1>1, <1>2
<1>5. Len(MarkedBlocks) \in Nat /\ DOMAIN MarkedBlocks = 1..Len(MarkedBlocks)
  BY <1>4
<1>6. Len(MarkedBlocks) = n
  BY <1>1, <1>3, <1>5
<1> QED
  BY <1>2, <1>3, <1>6 DEF n

(* The lines of all marked blocks are the listing.                           *)
LEMMA AllMarked ==
  ASSUME page \in Pages, lines \in Seq(ScanLine), Len(lines) = Cardinality(page.marked),
         \A k \in 1..Len(lines) : lines[k] = MarkedBlocks[k]
  PROVE  lines = MarkedBlocks
<1>1. lines = [k \in 1..Len(lines) |-> lines[k]]
  OBVIOUS
<1>2. [k \in 1..Len(lines) |-> lines[k]] = [k \in 1..Len(lines) |-> MarkedBlocks[k]]
  BY Zenon
<1> QED
  BY <1>1, <1>2, MarkedType, Zenon

(* A bit stands for the next marked block in the listing.                    *)
LEMMA ScanBitLists ==
  ASSUME ListInv, ScanBit
  PROVE  ListRight' /\ PageListing!PrintLine
<1>1. PICK b \in BitsLeft :
        /\ \A c \in BitsLeft : b <= c
        /\ lines' = Append(lines, Line(BitAddress(b), FALSE)) /\ bit' = b + 1
  BY DEF ScanBit
<1>2. /\ page \in Pages /\ UNCHANGED <<page, unreadable, arg, use_bitmap>> /\ UNCHANGED target
      /\ pc = "bitmap" /\ pc' = "bitmap" /\ use_bitmap /\ Asked /\ offset_' = offset_ /\ bits' = bits
      /\ lines \in Seq(ScanLine) /\ arg \in Nat /\ bit \in Nat
      /\ \A k \in 1..Len(lines) : lines[k] = MarkedBlocks[k]
      /\ offset_ = Read("offset_", First)
  BY DEF ListInv, ListRight, ScanInv, ScanTypeOK, ScanLine, ScanBit, target, bitmap
<1>3. /\ Readable("object_start_bit_map_") /\ bits = {BitOf(s) : s \in page.marked}
      /\ Len(lines) = Cardinality(Seen)
  BY <1>1, <1>2 DEF ListInv, ListRight, BitsLeft
<1>4. PICK s \in page.marked : b = BitOf(s)
  BY <1>1, <1>3 DEF BitsLeft
<1> DEFINE line == Line(BitAddress(b), FALSE)
<1>5. line = MarkedLine(s)
  BY <1>2, <1>4, MarkedLineTrue
<1>6. /\ \A n \in page.marked : BitOf(n) \in Nat /\ n = First + 8 * BitOf(n)
      /\ First \in Nat
  BY <1>2, BitFacts, PageFacts
<1>7. MarkedUpTo(s) = Seen \cup {s} /\ s \notin Seen /\ {n \in page.marked : BitOf(n) < b + 1} = MarkedUpTo(s)
  <2>1. \A n \in page.marked : BitOf(n) >= bit => b <= BitOf(n)
    BY <1>1, <1>3 DEF BitsLeft
  <2>2. b >= bit /\ b \in Nat
    BY <1>1, <1>4, <1>6 DEF BitsLeft
  <2>3. ASSUME NEW n \in page.marked PROVE (n <= s <=> BitOf(n) <= b) /\ (n = s <=> BitOf(n) = b)
    <3>1. BitOf(n) \in Nat /\ n = First + 8 * BitOf(n) /\ s = First + 8 * b
      BY <1>4, <1>6
    <3> QED
      BY <1>6, <2>2, <3>1, SMT
  <2>4. ASSUME NEW n \in page.marked PROVE n <= s <=> n \in Seen \/ n = s
    <3>1. BitOf(n) \in Nat /\ (BitOf(n) >= bit => b <= BitOf(n))
      BY <1>6, <2>1
    <3>2. BitOf(n) <= b <=> BitOf(n) < bit \/ BitOf(n) = b
      BY <1>2, <2>2, <3>1, SMT
    <3>3. n \in Seen <=> BitOf(n) < bit
      BY DEF Seen
    <3> QED
      BY <2>3, <3>2, <3>3, Zenon
  <2>5. s \notin Seen
    BY <1>2, <1>4, <2>2, SMT DEF Seen
  <2>6. \A n \in page.marked : BitOf(n) < b + 1 <=> n <= s
    BY <1>6, <2>2, <2>3, SMT
  <2>7. s \in page.marked /\ Seen \subseteq page.marked
    BY DEF Seen
  <2> QED
    BY <2>4, <2>5, <2>6, <2>7, Zenon DEF MarkedUpTo
<1>8. Cardinality(MarkedUpTo(s)) = Len(lines) + 1
  <2>1. IsFiniteSet(Seen)
    BY <1>2, RankFacts DEF Seen
  <2> QED
    BY <1>3, <1>7, <2>1, FS_AddElement
<1>9. MarkedBlocks[Len(lines) + 1] = line /\ Len(lines) + 1 \in 1..Cardinality(page.marked)
  BY <1>2, <1>5, <1>8, MarkedAt
<1>10. Wanted = MarkedBlocks
  BY <1>2, <1>3 DEF Wanted
<1>11. line \in ScanLine
  BY <1>2, <1>5, MarkedLineType
<1> HIDE DEF line
<1>12. lines' = Append(lines, line)
  BY <1>1 DEF line
<1>13. PageListing!PrintLine
  <2>1. Len(Wanted) = Cardinality(page.marked) /\ Len(Wanted) \in Nat
    BY <1>2, <1>10, MarkedType, RankFacts
  <2> QED
    BY <1>2, <1>9, <1>10, <1>11, <1>12, <2>1, OneLine
<1>14. \A k \in 1..Len(lines') : lines'[k] = MarkedBlocks[k]
  BY <1>2, <1>9, <1>11, <1>12
<1>15. MarkedBlocks' = MarkedBlocks
  BY <1>2, MarkedStay
<1>16. Seen' = MarkedUpTo(s)
  BY <1>1, <1>2, <1>7 DEF Seen, BitOf
<1>17. Len(lines') = Cardinality(Seen')
  BY <1>2, <1>8, <1>11, <1>12, <1>16
<1>18. Asked' /\ Readable("object_start_bit_map_")' = Readable("object_start_bit_map_")
       /\ offset_' = Read("offset_", First)'
       /\ bits' = {BitOf(n) : n \in page.marked}'
  BY <1>2, <1>3 DEF Asked, Readable, Read
<1> QED
  BY <1>2, <1>3, <1>13, <1>14, <1>15, <1>17, <1>18 DEF ListRight

(* Every other step prints nothing, and where the command ends nothing of    *)
(* the listing is left.                                                      *)
LEMMA OthersList ==
  ASSUME ListInv, LoadPage \/ LoadArena \/ ScanEnd \/ BitsEnd \/ UNCHANGED vars
  PROVE  ListRight' /\ UNCHANGED <<Wanted, lines>>
<1>1. /\ page \in Pages /\ UNCHANGED <<page, unreadable, arg, use_bitmap>> /\ UNCHANGED target
      /\ arg \in Nat /\ lines' = lines /\ lines \in Seq(ScanLine)
  BY DEF ListInv, ListRight, ScanInv, ScanTypeOK, ScanLine, LoadPage, LoadArena, ScanEnd, BitsEnd,
         vars, target, loop
<1>2. Wanted' = Wanted /\ BlocksFrom' = BlocksFrom /\ MarkedBlocks' = MarkedBlocks
  BY <1>1, WantedStays, BlocksStay, MarkedStay
<1>3. Asked' = Asked /\ \A c : Readable(c)' = Readable(c)
  BY <1>1 DEF Asked, Readable
<1>4. CASE LoadPage
  <2>1. pc = "load" /\ lines = <<>> /\ bit = 0 /\ bit' = bit
    BY <1>4 DEF LoadPage, ListInv, ListRight, loop
  <2>2. CASE Asked
    <3>1. /\ pc' = IF use_bitmap THEN "bitmap" ELSE "arena"
          /\ offset_' = Read("offset_", First)
          /\ bits' = IF Readable("object_start_bit_map_") THEN {BitOf(s) : s \in page.marked} ELSE {}
      BY <1>1, <1>4, <2>2, AskedFound DEF LoadPage
    <3>2. Seen' = {}
      <4>1. \A s \in page.marked : BitOf(s) \in Nat
        BY <1>1, BitFacts
      <4>2. \A s \in page.marked : ~(BitOf(s) < 0)
        BY <4>1
      <4> QED
        BY <1>1, <2>1, <4>2 DEF Seen, BitOf
    <3>3. Len(lines') = 0 /\ Cardinality(Seen') = 0
      BY <1>1, <2>1, <3>2, FS_EmptySet
    <3> QED
      BY <1>1, <1>2, <1>3, <2>1, <2>2, <3>1, <3>3 DEF ListRight, Read, Readable, BitOf
  <2>3. CASE ~Asked
    <3>1. pc' = "done"
      BY <1>1, <1>4, <2>3, AskedFound DEF LoadPage
    <3>2. Wanted = <<>>
      BY <2>3 DEF Wanted
    <3> QED
      BY <1>1, <1>2, <2>1, <3>1, <3>2 DEF ListRight
  <2> QED
    BY <2>2, <2>3
<1>5. CASE LoadArena
  <2>1. /\ pc = "arena" /\ pc' = "scan" /\ lines = <<>> /\ Asked
        /\ header_address' = header_address /\ size' = size /\ header_address = First /\ size # 0
    BY <1>5 DEF LoadArena, ListInv, ListRight, ScanInv, loop
  <2>2. BlocksFrom[First] \in Seq(ScanLine)
    BY <1>1, BlocksFromType, PageFacts DEF Starts
  <2>3. BlocksFrom[First] = lines \o BlocksFrom[First]
    BY <2>1, <2>2
  <2> QED
    BY <1>1, <1>2, <1>3, <2>1, <2>3 DEF ListRight
<1>6. CASE ScanEnd
  <2>1. pc = "scan" /\ pc' = "done" /\ ~MoreToScan /\ ~use_bitmap /\ Asked /\ header_address \in page.starts \cup {End}
    BY <1>6 DEF ScanEnd, ListInv, ListRight, ScanInv, ScanTypeOK
  <2>2. Wanted = BlocksFrom[First]
    BY <2>1 DEF Wanted
  <2>3. CASE size = 0
    BY <1>1, <1>2, <2>1, <2>2, <2>3 DEF ListInv, ListRight
  <2>4. CASE size # 0
    <3>1. header_address = End
      BY <1>1, <2>1, <2>4, PageFacts, SMT DEF MoreToScan
    <3>2. BlocksFrom[End] = <<>>
      BY <1>1, BlocksFromIs DEF Blocks, Starts
    <3>3. BlocksFrom[First] = lines
      BY <1>1, <2>1, <2>4, <3>1, <3>2 DEF ListInv, ListRight
    <3> QED
      BY <1>1, <1>2, <2>1, <2>2, <3>3 DEF ListRight
  <2> QED
    BY <2>3, <2>4
<1>7. CASE BitsEnd
  <2>1. pc = "bitmap" /\ pc' = "done" /\ BitsLeft = {} /\ use_bitmap /\ Asked /\ bit \in Nat
    BY <1>7 DEF BitsEnd, ListInv, ListRight, ScanInv, ScanTypeOK
  <2>2. CASE Readable("object_start_bit_map_")
    <3>1. Seen = page.marked
      <4>1. \A s \in page.marked : BitOf(s) \in bits /\ BitOf(s) \in Nat
        BY <1>1, <2>1, <2>2, BitFacts DEF ListInv, ListRight
      <4>2. \A s \in page.marked : BitOf(s) < bit
        BY <2>1, <4>1, SMT DEF BitsLeft
      <4> QED
        BY <4>2 DEF Seen
    <3>2. lines = MarkedBlocks
      BY <1>1, <2>1, <2>2, <3>1, AllMarked DEF ListInv, ListRight
    <3> QED
      BY <1>1, <1>2, <2>1, <2>2, <3>2 DEF ListRight, Wanted
  <2>3. CASE ~Readable("object_start_bit_map_")
    <3>1. lines = <<>>
      BY <1>1, <2>1, <2>3 DEF ListInv, ListRight
    <3> QED
      BY <1>1, <1>2, <2>1, <2>3, <3>1 DEF ListRight, Wanted
  <2> QED
    BY <2>2, <2>3
<1>8. CASE UNCHANGED vars
  <2>1. UNCHANGED <<pc, size, header_address, offset_, bits, bit>>
    BY <1>8 DEF vars, bitmap, loop
  <2>2. Seen' = Seen
    BY <1>1, <2>1 DEF Seen, BitOf
  <2>3. ListRight
    BY DEF ListInv
  <2> QED
    BY <1>1, <1>2, <1>3, <2>1, <2>2, <2>3 DEF ListRight, Read, Readable, BitOf
<1> QED
  BY <1>1, <1>2, <1>4, <1>5, <1>6, <1>7, <1>8

(* Every step prints the next line of the listing or none.                   *)
LEMMA ListStep ==
  ASSUME ListInv, [Next]_vars
  PROVE  ListInv' /\ [PageListing!PrintLine]_<<Wanted, lines>>
<1>1. ScanInv'
  BY ScanInvNext DEF ListInv
<1>2. CASE ScanHeader
  BY <1>1, <1>2, ScanHeaderLists DEF ListInv
<1>3. CASE ScanBit
  BY <1>1, <1>3, ScanBitLists DEF ListInv
<1>4. CASE LoadPage \/ LoadArena \/ ScanEnd \/ BitsEnd \/ UNCHANGED vars
  BY <1>1, <1>4, OthersList DEF ListInv
<1> QED
  BY <1>2, <1>3, <1>4 DEF Next

(* On every page, whatever cannot be read of it, both modes of !scan print   *)
(* lines of the page's listing only, in order and none of them twice.        *)
THEOREM ScanListsPage == Spec => PageListing!Steps
<1>1. ListInv /\ [Next]_vars => ListInv' /\ [PageListing!PrintLine]_<<Wanted, lines>>
  BY ListStep
<1> QED
  BY ListInvInit, <1>1, PTL DEF Spec, PageListing!Steps

(* And a scan that is over has printed them all.                             *)
THEOREM ScanListsAll == Spec => [](pc = "done" => lines = Wanted)
<1>1. ListInv /\ [Next]_vars => ListInv'
  BY ListStep
<1>2. ListInv => (pc = "done" => lines = Wanted)
  BY DEF ListInv, ListRight
<1> QED
  BY ListInvInit, <1>1, <1>2, PTL DEF Spec

==============================================================================
