------------------------------ MODULE MCArenas ------------------------------
(***************************************************************************)
(* A normal arena of three pages and an arena with one large object that   *)
(* goes on beyond its first 128 KB, with the sizes of a 64-bit build.  The *)
(* pages are in every split of active and unswept the memories below name, *)
(* the allocation point inside a page, at the end of one, or null; free    *)
(* chunks are in the first, the last and a middle list.                    *)
(***************************************************************************)
EXTENDS Arenas

P(k) == k * kBlinkPageSize + kBlinkGuardPageSize
L == P(4)
A == 1000
B == 2000
State == 3000
Chunk1 == Payload(P(1)) + 64
Chunk2 == Payload(P(2))
Chunk3 == Payload(P(3)) + 70000

FreeIn(first, fourth, last) ==
  [b \in FreeLists |-> CASE b = 0 -> first [] b = 4 -> fourth [] b = 16 -> last [] OTHER -> <<>>]

Memory(active, unswept, large, point, free) ==
  [arenas |-> {A, B}, thread_state |-> State, heap |-> 4000,
   kind |-> [a \in {A, B} |-> IF a = A THEN "NormalPageArena" ELSE "LargeObjectArena"],
   index |-> [a \in {A, B} |-> IF a = A THEN 11 ELSE 13],
   active |-> [a \in {A, B} |-> IF a = A THEN active ELSE large],
   unswept |-> [a \in {A, B} |-> IF a = A THEN unswept ELSE IF large = <<>> THEN <<L>> ELSE <<>>],
   point |-> [a \in {A, B} |-> IF a = A THEN point ELSE 0],
   payload_size |-> [p \in {L} |-> 200000],
   free |-> [a \in {A, B} |-> IF a = A THEN free ELSE FreeIn(<<>>, <<>>, <<>>)],
   header |-> [c \in {Chunk1, Chunk2, Chunk3} |->
     [mark |-> 0, free |-> 1, size |-> IF c = Chunk1 THEN 24 ELSE 119000, dom |-> 0, gcinfo |-> 0]]]

MCMemories ==
  {Memory(<<P(2), P(1)>>, <<P(3)>>, <<L>>, Payload(P(1)), FreeIn(<<>>, <<Chunk1>>, <<Chunk3, Chunk2>>)),
   Memory(<<>>, <<P(3), P(1), P(2)>>, <<>>, PayloadEnd(P(1)), FreeIn(<<Chunk2>>, <<Chunk1, Chunk3>>, <<>>)),
   Memory(<<P(1), P(2), P(3)>>, <<>>, <<L>>, 0, FreeIn(<<>>, <<>>, <<>>))}

MCUnreadables ==
  {{}, {<<"vtable", P(1)>>, <<"next_", P(2)>>}}
    \cup {{<<"vtable", x>>} : x \in {A, B, P(1), P(3), L}}
    \cup {{<<"next_", x>>} : x \in {P(1), P(2)}} \cup {{<<"arena_", x>>} : x \in {P(1), L}}
    \cup {{<<m, A>>} : m \in {"first_page_", "first_unswept_page_", "thread_state_", "index_",
                             "current_allocation_point_"}}
    \cup {{<<"heap_", State>>}, {<<"payload_size_", L>>}, {<<"free_lists_", A + 4>>},
          {<<"next_chunk", Chunk1>>}, {<<"encoded_", Chunk1>>}}

MCGarbage == {0, 77, P(1), L}

MCProbes ==
  {0, P(1), Payload(P(1)), PayloadEnd(P(1)) - 1, PayloadEnd(P(2)), Payload(P(3)) + 8,
   L, L + 120000, L + 190000}

=============================================================================
