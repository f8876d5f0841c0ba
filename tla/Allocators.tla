------------------------------ MODULE Allocators ------------------------------
(***************************************************************************)
(* !fast_malloc_allocator, !array_buffer_allocator, !buffer_allocator and  *)
(* !layout_allocator, with and without -buckets, in one session.  Besides  *)
(* their offsets_ maps the classes behind these commands keep the size and *)
(* the number of buckets in statics, all filled by the first load.  The    *)
(* pointers the commands follow are null until Blink has set up its        *)
(* partitions, and symbols may be missing at first or later.               *)
(***************************************************************************)
EXTENDS Naturals

CONSTANTS
  Generic,   \* the allocators that are a base::PartitionAllocatorGeneric
  Specific,  \* those that are a SizeSpecificPartitionAllocator<1024>
  Builds,    \* the layouts chrome_child may have been built with
  Store,     \* Store[a]: the address of the pointer WTF::Partitions::a
  Place,     \* Place[a]: where the target allocates what it points to
  Unset      \* no entry in an offsets_ map, or nothing printed

Allocators == Generic \cup Specific

(* A build's fields are the offsets, in bytes, of the partition root in both *)
(* kinds of allocator, of the extents in a root, of the buckets in a generic *)
(* root and in a specific allocator, and the sizes of the two bucket arrays  *)
(* and of a bucket.                                                          *)
OffsetFields == {"generic_root", "specific_root", "extents", "buckets", "actual_buckets"}

ASSUME BuildsAssumption ==
  /\ \A b \in Builds :
       /\ b.offsets \in [OffsetFields -> Nat]
       /\ b.bytes \in [{"buckets", "actual_buckets"} -> Nat \ {0}]
       /\ b.size \in Nat \ {0} /\ b.size <= b.bytes.buckets /\ b.size <= b.bytes.actual_buckets
  /\ \A a \in Allocators : Store[a] \in Nat \ {0} /\ Place[a] \in Nat \ {0}
  /\ Generic \cap Specific = {} /\ Unset \notin Nat

(* kGenericNumBucketedOrders * kGenericNumBucketsPerOrder. *)
kGenericNumBuckets == 17 * 8

VARIABLES
  build, pointer,                \* the target: pointer[a] is 0 until a is set up
  answers,                       \* whether the debugger finds chrome_child's symbols
  offsets_,                      \* the offsets_ maps
  bucket_size_, bucket_count_,   \* of the generic and of the specific class
  address_store,                 \* the addresses of the pointers, 0 until known
  pc,                            \* where the running command is, or "idle"
  alloc, allocator_addr, dump_buckets,  \* what it was asked to dump
  root, extents,                 \* addresses of the partition root and its extents
  screen,                        \* what the last command printed, or Unset
  answered,                      \* history: no command so far met missing symbols
  no_null                        \* history: nor was one to list a null allocator's buckets

debugger == <<build, pointer, answers>>
statics == <<offsets_, bucket_size_, bucket_count_, address_store>>
command == <<alloc, allocator_addr, dump_buckets>>
history == <<answered, no_null>>
vars == <<debugger, statics, pc, command, root, extents, screen, history>>

Init ==
  /\ build \in Builds /\ pointer = [a \in Allocators |-> 0] /\ answers \in BOOLEAN
  /\ offsets_ = [f \in OffsetFields |-> Unset]
  /\ bucket_size_ = [k \in {"buckets", "actual_buckets"} |-> 0] /\ bucket_count_ = bucket_size_
  /\ address_store = [a \in Allocators |-> 0]
  /\ pc = "idle" /\ alloc = Unset /\ allocator_addr = 0 /\ dump_buckets = FALSE
  /\ root = 0 /\ extents = 0
  /\ screen = Unset /\ answered = TRUE /\ no_null = TRUE

(* The debugger, between commands. *)

SetUp(a) ==
  /\ pc = "idle" /\ pointer[a] = 0
  /\ pointer' = [pointer EXCEPT ![a] = Place[a]]
  /\ UNCHANGED <<build, answers, statics, pc, command, root, extents, screen, history>>

ReloadSymbols ==
  /\ pc = "idle" /\ answers' = ~answers
  /\ UNCHANGED <<build, pointer, statics, pc, command, root, extents, screen, history>>

------------------------------------------------------------------------------
(* The commands. *)

Answer(value) == IF answers THEN value ELSE 0

(* dump_allocator: the address is given, or read from where the pointer is.  *)
(* Unreadable is null, as the pointer at a null address is.                  *)
Command(a, use_args, given, buckets) ==
  LET store == IF ~use_args /\ address_store[a] = 0 THEN Answer(Store[a]) ELSE address_store[a]
      addr == IF use_args THEN given ELSE IF store = 0 THEN 0 ELSE pointer[a]
  IN
  /\ pc = "idle" /\ pc' = "allocator"
  /\ alloc' = a /\ dump_buckets' = buckets
  /\ address_store' = [address_store EXCEPT ![a] = store]
  /\ allocator_addr' = addr
  /\ answered' = (answered /\ answers) /\ no_null' = (no_null /\ ~(buckets /\ addr = 0))
  /\ screen' = Unset
  /\ UNCHANGED <<debugger, offsets_, bucket_size_, bucket_count_, root, extents>>

SameClass(a) == IF a \in Generic THEN Generic ELSE Specific

(* What the command leaves on the screen, and the locals going out of scope. *)
Finish(buckets, message, raised) ==
  /\ pc' = "idle"
  /\ screen' = [alloc |-> alloc, at |-> allocator_addr, extents |-> IF raised THEN 0 ELSE extents,
                asked |-> dump_buckets, buckets |-> buckets, message |-> message, raised |-> raised]
  /\ alloc' = Unset /\ allocator_addr' = 0 /\ dump_buckets' = FALSE
  /\ root' = 0 /\ extents' = 0

(* LOAD_FIELD_OFFSET, which stores nothing if the question fails. *)
Asked(f) ==
  IF offsets_[f] = Unset /\ answers THEN build.offsets[f] ELSE offsets_[f]

(* operator[], which inserts 0. *)
Entry(offset) == IF offset = Unset THEN 0 ELSE offset

RootOffset_Indexed(f) == Entry(Asked(f))
(* partition_root_ in offsets_ after load(): indexed only for an allocator. *)
RootOffset(f) == IF allocator_addr = 0 THEN Asked(f) ELSE Entry(Asked(f))

(* PartitionAllocatorGeneric::load. *)
LoadGeneric ==
  /\ pc = "allocator" /\ alloc \in Generic
  /\ offsets_' = [offsets_ EXCEPT !["generic_root"] = RootOffset("generic_root")]
  /\ IF allocator_addr = 0
     THEN pc' = "dump" /\ UNCHANGED root
     ELSE pc' = "root" /\ root' = allocator_addr + Entry(Asked("generic_root"))
  /\ UNCHANGED <<debugger, bucket_size_, bucket_count_, address_store, command, extents, screen, history>>

BucketCount_Bytes(k) == build.bytes[k]
BucketCount(k) == build.bytes[k] \div build.size

(* Size and offset of a bucket array are kept before they are looked at; a   *)
(* question that fails answers 0, and 0 / 0 stops the command there.         *)
LearnBuckets(k) ==
  /\ bucket_size_' = [bucket_size_ EXCEPT ![k] = Answer(build.size)]
  /\ bucket_count_' = IF answers THEN [bucket_count_ EXCEPT ![k] = BucketCount(k)] ELSE bucket_count_

(* PartitionRootGeneric::load.  With another number of buckets than this     *)
(* extension is made for, it complains and leaves the root unloaded.         *)
LoadRoot ==
  /\ pc = "root"
  /\ IF offsets_["buckets"] # Unset
     THEN pc' = "base" /\ UNCHANGED <<statics, command, root, extents, screen>>
     ELSE /\ LearnBuckets("buckets")
          /\ offsets_' = [offsets_ EXCEPT !["buckets"] = Answer(build.offsets["buckets"])]
          /\ UNCHANGED address_store
          /\ CASE ~answers -> Finish(Unset, FALSE, TRUE)
               [] answers /\ bucket_count_'["buckets"] # kGenericNumBuckets ->
                    pc' = "mismatch" /\ root' = 0 /\ UNCHANGED <<command, extents, screen>>
               [] OTHER -> pc' = "base" /\ UNCHANGED <<command, root, extents, screen>>
  /\ UNCHANGED <<debugger, history>>

(* SizeSpecificPartitionAllocator1024::load; its map is empty exactly while  *)
(* it has no entry for actual_buckets_.                                      *)
LoadSpecific ==
  /\ pc = "allocator" /\ alloc \in Specific
  /\ LET first == offsets_["actual_buckets"] = Unset
         asked == IF first THEN Asked("specific_root") ELSE offsets_["specific_root"]
     IN
     /\ IF first THEN LearnBuckets("actual_buckets") ELSE UNCHANGED <<bucket_size_, bucket_count_>>
     /\ IF first /\ ~answers
        THEN /\ offsets_' = [offsets_ EXCEPT !["actual_buckets"] = 0]
             /\ Finish(Unset, FALSE, TRUE)
        ELSE /\ offsets_' = [offsets_ EXCEPT
                  !["actual_buckets"] = IF first THEN build.offsets["actual_buckets"] ELSE @,
                  !["specific_root"] = IF allocator_addr = 0 THEN asked ELSE Entry(asked)]
             /\ IF allocator_addr = 0
                THEN pc' = "dump" /\ UNCHANGED root
                ELSE pc' = "base" /\ root' = allocator_addr + Entry(asked)
             /\ UNCHANGED <<command, extents, screen>>
  /\ UNCHANGED <<debugger, address_store, history>>

(* PartitionRootBase::load. *)
LoadBase ==
  /\ pc = "base" /\ pc' = "dump"
  /\ offsets_' = [offsets_ EXCEPT !["extents"] = Entry(Asked("extents"))]
  /\ extents' = root + Entry(Asked("extents"))
  /\ UNCHANGED <<debugger, bucket_size_, bucket_count_, address_store, command, root, screen, history>>

Array(head, k) ==
  IF bucket_count_[k] = 0 THEN Unset
  ELSE [head |-> head, size |-> bucket_size_[k], count |-> bucket_count_[k]]

(* dump and dump_buckets.  The bucket array is indexed where the root is, or *)
(* from null on if there is none; "buckets" is inserted if it is new.        *)
Dump ==
  /\ pc \in {"dump", "mismatch"}
  /\ offsets_' = IF alloc \in Generic /\ dump_buckets
                 THEN [offsets_ EXCEPT !["buckets"] = Entry(@)] ELSE offsets_
  /\ Finish(IF ~dump_buckets THEN Unset
            ELSE IF alloc \in Generic THEN Array(root + Entry(offsets_["buckets"]), "buckets")
            ELSE Array(allocator_addr + Entry(offsets_["actual_buckets"]), "actual_buckets"),
            pc = "mismatch", FALSE)
  /\ UNCHANGED <<debugger, bucket_size_, bucket_count_, address_store, history>>

Next ==
  \/ \E a \in Allocators : SetUp(a)
  \/ ReloadSymbols
  \/ \E a \in Allocators, use_args \in BOOLEAN, buckets \in BOOLEAN :
       \E given \in {0} \cup {pointer[b] : b \in SameClass(a)} : Command(a, use_args, given, buckets)
  \/ LoadGeneric \/ LoadRoot \/ LoadSpecific \/ LoadBase \/ Dump

Spec == Init /\ [][Next]_vars

------------------------------------------------------------------------------
(* Properties. *)

(* The bucket array and the extents of allocator a, if it is at addr. *)
TrueBuckets(a, addr) ==
  LET k == IF a \in Generic THEN "buckets" ELSE "actual_buckets"
      base == IF a \in Generic THEN addr + build.offsets["generic_root"] ELSE addr
  IN [head |-> base + build.offsets[k], size |-> build.size, count |-> build.bytes[k] \div build.size]

TrueExtents(a, addr) ==
  addr + build.offsets[IF a \in Generic THEN "generic_root" ELSE "specific_root"]
    + build.offsets["extents"]

Done == screen # Unset /\ screen.at # 0 /\ ~screen.raised /\ ~screen.message

(* What -buckets lists of an allocator is never a plausible but wrong array: *)
(* it is the allocator's or there is none at all, whatever commands ran      *)
(* before without symbols or on a null pointer.  (Three classes fill their   *)
(* maps one by one; a right bucket array over a wrong root would show.)      *)
NeverWrongBuckets ==
  Done => screen.buckets \in {Unset, TrueBuckets(screen.alloc, screen.at)}

Listed == screen.buckets = TrueBuckets(screen.alloc, screen.at)

(* In a session in which symbols were always there and no command was asked  *)
(* for the buckets of a null allocator, every command shows the extents it   *)
(* should, and the buckets if it was asked to: no order of the four          *)
(* commands, with or without addresses, spoils the next one.                 *)
CleanSessionLists ==
  Done /\ answered /\ no_null =>
    /\ screen.extents = TrueExtents(screen.alloc, screen.at)
    /\ screen.asked => Listed

(* With its symbols there, -buckets lists the buckets of an allocator, as in *)
(* the session README.md:51-62 shows.                                        *)
BucketsListed == Done /\ answered /\ screen.asked => Listed

==============================================================================
