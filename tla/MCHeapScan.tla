------------------------------ MODULE MCHeapScan ------------------------------
(***************************************************************************)
(* Real sizes of a 64-bit build: a payload of 120776 bytes cut into at     *)
(* most four blocks, one of them longer than half a page, every place for  *)
(* the allocation point, and at most one cell that cannot be read.  The    *)
(* size_t of the extension is scaled down to four pages.                   *)
(***************************************************************************)
EXTENDS HeapScan

MCPageAddress == kBlinkPageSize + kBlinkGuardPageSize

Cuts == {16, 70000, 70016}

PageWith(cuts, type, p, area, marked) ==
  LET starts == {First} \cup {First + c : c \in cuts}
      after(s) == {t \in starts \cup {End} : t > s}
      len == [s \in starts |-> (CHOOSE t \in after(s) : \A u \in after(s) : t <= u) - s]
      allocating == area /\ p \in starts
  IN [type   |-> type, starts |-> starts, len |-> len, point |-> p,
      remaining |-> IF allocating THEN len[p] ELSE 0,
      header |-> [s \in starts |->
        IF allocating /\ s = p THEN NoHeader
        ELSE [mark |-> IF s = First THEN 1 ELSE 0, free |-> IF s = First + 16 THEN 1 ELSE 0,
              size |-> len[s], dom |-> IF s > First + 16 THEN 1 ELSE 0, gcinfo |-> 34]],
      marked |-> starts \ marked]

MCPages ==
  {PageWith(c, "NormalPage", p, a, m) :
     c \in SUBSET Cuts, p \in {0, First, First + 16, First + 70000, End}, a \in BOOLEAN, m \in {{}, {First}}}
  \cup {PageWith({}, t, 0, FALSE, {}) : t \in {"LargeObjectPage", "unknown"}}

MCUnreadables ==
  {{}} \cup {{<<c, 0>>} : c \in {"vtable", "arena_", "current_allocation_point_",
                         "remaining_allocation_size_", "offset_", "object_start_bit_map_"}}
       \cup {{<<"encoded_", First + c>>} : c \in {0, 16, 70000}}

MCArgs == {0, kBlinkPageSize, First + 24, 2 * kBlinkPageSize - 1, 2 * kBlinkPageSize, First + 4 * kBlinkPageSize}

==============================================================================
