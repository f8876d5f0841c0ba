--------------------------- MODULE MCAllocatorDump ---------------------------
(***************************************************************************)
(* Partitions of two extents of three super pages, two direct mapped       *)
(* extents and three buckets: one in use, one with an empty list or with a *)
(* page of its own, and one that the array only has for its place.  A      *)
(* uint64_t counts eight super pages.                                      *)
(***************************************************************************)
EXTENDS AllocatorDump

MCSentinel == 77
Alloc == 1000
B(i) == Alloc + 100 + 10 * i
E1 == 501
E2 == 502
D1 == 601
D2 == 602
P(super, i) == Record(super * kSuperPageSize, i)
MCPages == {P(1, 5), P(2, 9), P(4, 1), P(4, 126)}

Memory(runs, direct, first, second, unprovisioned) ==
  [allocator |-> Alloc, buckets |-> 100, extents |-> runs,
   base |-> [e \in {E1, E2} |-> IF e = E1 THEN kSuperPageSize ELSE 4 * kSuperPageSize],
   end |-> [e \in {E1, E2} |-> IF e = E1 THEN 3 * kSuperPageSize ELSE 5 * kSuperPageSize],
   direct |-> direct, bucket |-> [d \in {D1, D2} |-> d + 100],
   slot_size |-> [b \in {B(0), B(1), B(2)} \cup {D1 + 100, D2 + 100} |->
                    CASE b = B(0) -> 24 [] b = B(1) -> 12 [] b = B(2) -> 32 [] b = D1 + 100 -> 2097152 [] OTHER -> 3145728],
   active |-> [b \in {B(0), B(1), B(2)} |-> CASE b = B(0) -> first [] b = B(1) -> <<>> [] OTHER -> second],
   unprovisioned |-> [p \in MCPages |-> IF p \in unprovisioned THEN 3 ELSE 0]]

MCMemories ==
  {Memory(<<E2, E1>>, <<D1, D2>>, <<P(4, 1), P(1, 5), P(2, 9)>>, <<>>, {P(4, 1)}),
   Memory(<<E1, E2>>, <<>>, <<P(1, 5)>>, <<P(4, 126), P(4, 1)>>, {P(4, 1)}),
   Memory(<<E1, E2>>, <<D2>>, <<P(2, 9), P(1, 5)>>, <<P(4, 126)>>, {}),
   Memory(<<>>, <<>>, <<>>, <<>>, {})}

MCUnreadables ==
  {{}} \cup {{<<m, Alloc>>} : m \in {"first_extent", "direct_map_list"}}
       \cup {{<<m, E1>>} : m \in {"next", "super_page_base", "super_pages_end"}} \cup {{<<"next", E2>>}}
       \cup {{<<m, D1>>} : m \in {"next_extent", "bucket"}} \cup {{<<"slot_size", D2 + 100>>}}
       \cup {{<<m, B(i)>>} : m \in {"slot_size", "active_pages_head"}, i \in 0..2}
       \cup {{<<"next_page", P(1, 5)>>}, {<<"next_page", P(4, 1)>>}, {<<"num_unprovisioned_slots", P(4, 1)>>}}

==============================================================================
