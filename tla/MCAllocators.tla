---------------------------- MODULE MCAllocators ----------------------------
(***************************************************************************)
(* Two of the three generic allocators, which share a class, and the       *)
(* specific one.  The offsets and sizes are such that no two sums of an    *)
(* address and wrong offsets agree; a root in the middle of its allocator  *)
(* makes a forgotten offset visible.                                       *)
(***************************************************************************)
EXTENDS Allocators

CONSTANTS fast_malloc, buffer, layout

MCGeneric == {fast_malloc, buffer}
MCSpecific == {layout}
MCStore == [a \in {fast_malloc, buffer, layout} |-> CASE a = fast_malloc -> 10 [] a = buffer -> 18 [] OTHER -> 26]
MCPlace == [a \in {fast_malloc, buffer, layout} |->
             CASE a = fast_malloc -> 100000 [] a = buffer -> 200000 [] OTHER -> 300000]

Build(buckets) ==
  [offsets |-> [generic_root |-> 8, specific_root |-> 16, extents |-> 64, buckets |-> 2400, actual_buckets |-> 160],
   bytes |-> [buckets |-> 32 * buckets, actual_buckets |-> 32 * 128],
   size |-> 32]

(* The layout this extension is made for, and a later one. *)
MCBuilds == {Build(136), Build(144)}
MCBuildsMade == {Build(136)}

=============================================================================
