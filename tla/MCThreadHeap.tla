---------------------------- MODULE MCThreadHeap ----------------------------
(***************************************************************************)
(* Heaps of three arenas, whose pools are empty, of one page, and of three *)
(* pages in two regions, and search trees of four regions in four shapes,  *)
(* one of them a list to the left.  A uint64_t counts 32 pages and a       *)
(* uint32_t 16, so that an index does not fit when a base is unreadable.   *)
(***************************************************************************)
EXTENDS ThreadHeap

A(i) == 1000 * i
E(i) == 10 * i
R(i) == 100 * i
N(i) == i
Page(k) == k * kBlinkPageSize + kBlinkGuardPageSize

MCHeap == 5000

(* Regions begin at pages 3, 7, 11 and 23; the pages lie in the second and   *)
(* the fourth, two of them 16 pages apart.                                   *)
Tree(root, left, right, level) ==
  [heap |-> MCHeap, arenas |-> <<A(1), A(2), A(3)>>,
   kind |-> <<"NormalPageArena", "NormalPageArena", "LargeObjectArena">>,
   pool |-> <<<<E(3), E(1), E(4)>>, <<>>, <<E(2)>>>>,
   reserved |-> [e \in {E(i) : i \in 1..4} |-> IF e = E(4) THEN R(4) ELSE R(2)],
   writable |-> [e \in {E(i) : i \in 1..4} |->
                   CASE e = E(1) -> Page(7) [] e = E(2) -> Page(8) [] e = E(3) -> Page(10) [] OTHER -> Page(23)],
   base |-> [r \in {R(i) : i \in 1..4} |->
               kBlinkPageSize * (CASE r = R(1) -> 3 [] r = R(2) -> 7 [] r = R(3) -> 11 [] OTHER -> 23)],
   nodes |-> {N(i) : i \in 1..4}, root |-> root, region |-> [n \in {N(i) : i \in 1..4} |-> 100 * n],
   left |-> left, right |-> right, level |-> level]

MCMemories ==
  {Tree(N(3), <<0, 1, 2, 0>>, <<0, 0, 4, 0>>, <<3, 2, 1, 2>>),
   Tree(N(3), <<0, 0, 1, 0>>, <<2, 0, 4, 0>>, <<2, 3, 1, 2>>),
   Tree(N(4), <<0, 1, 2, 3>>, <<0, 0, 0, 0>>, <<4, 3, 2, 1>>),
   Tree(N(1), <<0, 0, 2, 0>>, <<3, 0, 4, 0>>, <<1, 3, 2, 3>>)}

MCUnreadables ==
  {{}, {<<"reserved_", E(3)>>, <<"next", E(1)>>}}
    \cup {{<<m, E(3)>>} : m \in {"data", "next", "reserved_", "writable_"}}
    \cup {{<<"base_", R(2)>>}, {<<"base_", R(2)>>, <<"base_", R(4)>>}, {<<"base_", R(3)>>}}
    \cup {{<<"region_", N(4)>>}, {<<"left_", N(3)>>}, {<<"left_", N(2)>>}, {<<"right_", N(3)>>}}
    \cup {{<<"vtable", A(2)>>}, {<<"arenas_", 2>>}, {<<"pool_", 1>>}, {<<"root_", MCHeap>>},
          {<<"free_page_pool_", MCHeap>>}, {<<"region_tree_", MCHeap>>}}

=============================================================================
