--------------------------- MODULE MCPartitionDump ---------------------------
(***************************************************************************)
(* Three spans of three partition pages and four slots each, of a bucket   *)
(* of slots that straddle partition pages: the first and the last span     *)
(* that fit in a super page, and one in the middle; free lists in and out  *)
(* of order; at most one unreadable cell.  The pointers of the target are  *)
(* four bytes wide, those of the extension large enough for them.          *)
(***************************************************************************)
EXTENDS PartitionDump

MCSentinel == 1000

A == Record(kSuperPageSize, 1)
B == Record(kSuperPageSize, 50)
C == Record(2 * kSuperPageSize, 124)
MCHeads == {A, B, C}

SlotAt(h, k) == PayloadStart(h) + 12288 * k
Slots(h, ks) == [i \in DOMAIN ks |-> SlotAt(h, ks[i])]

Memory(active, a, b, c) ==
  [heads |-> MCHeads, pages |-> [h \in MCHeads |-> 3], active |-> active,
   slot_size |-> 12288, system_pages |-> 12,
   free |-> [h \in MCHeads |-> CASE h = A -> Slots(h, a) [] h = B -> Slots(h, b) [] OTHER -> Slots(h, c)]]

MCMemories ==
  {Memory(<<>>, <<>>, <<0, 1, 2, 3>>, <<0>>),
   Memory(<<C>>, <<3>>, <<>>, <<2, 0>>),
   Memory(<<A, B>>, <<1, 3, 0>>, <<2>>, <<>>),
   Memory(<<C, A, B>>, <<2, 3>>, <<3, 2, 1>>, <<3, 1, 2, 0>>)}

MCUnreadables ==
  {{}} \cup {{<<c, 0>>} : c \in {"slot_size", "active_pages_head"}}
       \cup {{<<c, h>>} : c \in {"freelist_head", "bucket", "next_page"}, h \in {A, B}}
       \cup {{<<"page_offset", h + kPageMetadataSize>>} : h \in {A, C}}
       \cup {{<<"next", SlotAt(A, 3)>>}, {<<"next", SlotAt(B, 2)>>}}

MCArgs == {0, PayloadStart(A), PayloadStart(A) + 24575, PayloadStart(C) + 49151, PayloadStart(C) + 49152, 3 * kSuperPageSize - 1}

(* The low bytes of the addresses above are zero. *)
MCByteSwap(a) ==
  ((a % 256) * 16777216) + (((a \div 256) % 256) * 65536) + (((a \div 65536) % 256) * 256) + (a \div 16777216)

==============================================================================
