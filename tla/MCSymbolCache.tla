---------------------------- MODULE MCSymbolCache ----------------------------
(***************************************************************************)
(* A session with two images of different bitness, a class of each kind of *)
(* loader, and one static and one vtable.                                  *)
(***************************************************************************)
EXTENDS SymbolCache

CONSTANTS release, canary

MCImages == {release, canary}
MCIs64bit == [i \in MCImages |-> i = release]

MCGuarded == {"ThreadHeap"}
MCRoots == {"PartitionRootGeneric"}
MCSpecifics == {"SizeSpecificPartitionAllocator1024"}
MCClasses == {"Node"} \cup MCGuarded \cup MCRoots \cup MCSpecifics
MCFields == [c \in MCClasses |->
  CASE c = "Node"                 -> {"data_"}
    [] c = "ThreadHeap"           -> {"arenas_", "arena_count_"}
    [] c = "PartitionRootGeneric" -> {"buckets", "bucket_lookups"}
    [] OTHER                      -> {"actual_buckets_", "partition_root_"}]
MCArray == [c \in MCRoots \cup MCSpecifics |->
  IF c \in MCRoots THEN "buckets" ELSE "actual_buckets_"]
MCSizes == {<<"ThreadHeap", "arena_count_">>}

(* bucket_lookups is the first field of its class, so that 0 is its offset;  *)
(* the arenas are 17 pointers; canary has renamed data_ and the specific     *)
(* array, and has another number of generic buckets.                         *)
MCOffsetOf == [i \in MCImages |-> [k \in Cells |->
  CASE k[2] = "bucket_lookups"                -> 0
    [] k[2] = "arena_count_"                  -> IF i = release THEN 136 ELSE 68
    [] k[2] \in {"data_", "actual_buckets_"}  -> IF i = release THEN 40 ELSE Unset
    [] OTHER                                  -> IF i = release THEN 24 ELSE 12]]
MCOtherCount == {canary}

MCGlobals == {"main_thread_state_storage_"}
MCValueOf == [i \in MCImages |-> [g \in MCGlobals |-> IF i = release THEN 4096 ELSE 8192]]

MCVTables == {4112}
MCNames == {"blink::Text", "blink::HTMLDocument"}
MCClassAt == [i \in MCImages |-> [v \in MCVTables |->
  IF i = release THEN "blink::Text" ELSE NoName]]

==============================================================================
