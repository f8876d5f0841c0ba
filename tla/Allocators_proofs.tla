-------------------------- MODULE Allocators_proofs --------------------------
(***************************************************************************)
(* Whatever order the allocator commands come in, what -buckets lists is   *)
(* the allocator's bucket array or nothing, and in a session without       *)
(* mishaps it is all there, for every build and any allocators.  Then what *)
(* is listed of a partition, module AllocatorDump, as an instance.         *)
(***************************************************************************)
EXTENDS Allocators, Chains_proofs

Arrays == {"buckets", "actual_buckets"}

(* What the proof needs to know of the types. *)
Shape ==
  /\ build \in Builds
  /\ offsets_ \in [OffsetFields -> Nat \cup {Unset}]
  /\ DOMAIN bucket_size_ = Arrays /\ DOMAIN bucket_count_ = Arrays

(* A class that knows how many buckets there are has learnt all the rest     *)
(* from the same symbols.                                                    *)
LearntTogether ==
  /\ \A k \in Arrays : bucket_count_[k] # 0 =>
       /\ bucket_size_[k] = build.size
       /\ bucket_count_[k] = build.bytes[k] \div build.size
       /\ offsets_[k] = build.offsets[k]
  /\ bucket_count_["buckets"] # 0 => offsets_["generic_root"] = build.offsets["generic_root"]

(* The offset of the root can only be wrong once it is too late to learn the *)
(* number of buckets, or when the load that would learn it has no symbols.   *)
RootInTime ==
  offsets_["buckets"] = Unset =>
    \/ offsets_["generic_root"] \in {Unset, build.offsets["generic_root"]}
    \/ pc = "root" /\ ~answers

(* Where the running command has got to. *)
RootFollows ==
  /\ pc \in {"root", "mismatch"} => alloc \in Generic
  /\ pc = "root" => allocator_addr # 0 /\ offsets_["generic_root"] # Unset
  /\ pc \in {"root", "base", "dump"} /\ alloc \in Generic /\ allocator_addr # 0 =>
       root = allocator_addr + offsets_["generic_root"]

AllocInv == Shape /\ LearntTogether /\ RootInTime /\ RootFollows /\ NeverWrongBuckets

(* Nothing is known when the extension is loaded. *)
LEMMA AllocInvInit == Init => AllocInv
BY DEF Init, AllocInv, Shape, LearntTogether, RootInTime, RootFollows, NeverWrongBuckets, Done,
       Arrays, OffsetFields

(* What a build's fields are. *)
LEMMA BuildFacts ==
  ASSUME NEW b \in Builds
  PROVE  /\ \A f \in OffsetFields : b.offsets[f] \in Nat /\ b.offsets[f] # Unset
         /\ b.size # 0
BY BuildsAssumption

(* The debugger and the arguments of a command change nothing that is kept. *)
LEMMA CommandKeeps ==
  ASSUME AllocInv,
         \/ \E a \in Allocators : SetUp(a)
         \/ ReloadSymbols
         \/ \E a \in Allocators, use_args \in BOOLEAN, buckets \in BOOLEAN :
              \E given \in {0} \cup {pointer[b] : b \in SameClass(a)} : Command(a, use_args, given, buckets)
  PROVE  AllocInv'
<1>1. UNCHANGED <<build, offsets_, bucket_size_, bucket_count_>> /\ pc = "idle" /\ pc' \in {"idle", "allocator"}
      /\ screen' \in {screen, Unset}
  BY DEF SetUp, ReloadSymbols, Command, statics, debugger
<1> QED
  BY <1>1 DEF AllocInv, Shape, LearntTogether, RootInTime, RootFollows, NeverWrongBuckets, Done, TrueBuckets

(* PartitionAllocatorGeneric::load keeps the invariant. *)
LEMMA LoadGenericKeeps ==
  ASSUME AllocInv, LoadGeneric
  PROVE  AllocInv'
<1> DEFINE r == offsets_'["generic_root"]
<1>1. /\ UNCHANGED <<build, answers, bucket_size_, bucket_count_, alloc, allocator_addr, screen>>
      /\ pc = "allocator" /\ alloc \in Generic /\ build \in Builds
  BY DEF LoadGeneric, debugger, command, AllocInv, Shape
<1>2. /\ offsets_' = [offsets_ EXCEPT !["generic_root"] = RootOffset("generic_root")]
      /\ "generic_root" \in OffsetFields /\ DOMAIN offsets_ = OffsetFields
      /\ r = RootOffset("generic_root")
      /\ offsets_'["buckets"] = offsets_["buckets"] /\ offsets_'["actual_buckets"] = offsets_["actual_buckets"]
  BY DEF LoadGeneric, AllocInv, Shape, OffsetFields
<1>3. build.offsets["generic_root"] \in Nat /\ build.offsets["generic_root"] # Unset
  BY <1>1, <1>2, BuildFacts
<1>4. /\ r \in Nat \cup {Unset}
      /\ allocator_addr # 0 => r = Entry(Asked("generic_root")) /\ r # Unset
  BY <1>2, <1>3, BuildsAssumption DEF RootOffset, Asked, Entry, AllocInv, Shape
<1>5. Shape'
  BY <1>1, <1>2, <1>4 DEF AllocInv, Shape
<1>6. offsets_["generic_root"] = build.offsets["generic_root"] => r = offsets_["generic_root"]
  BY <1>2, <1>3 DEF RootOffset, Asked, Entry
<1>7. LearntTogether'
  BY <1>1, <1>2, <1>6 DEF AllocInv, LearntTogether, Arrays
<1>8. RootInTime'
  <2> SUFFICES ASSUME offsets_["buckets"] = Unset
      PROVE  r \in {Unset, build.offsets["generic_root"]} \/ (pc' = "root" /\ ~answers)
    BY <1>1, <1>2 DEF RootInTime
  <2>1. offsets_["generic_root"] \in {Unset, build.offsets["generic_root"]}
    BY <1>1 DEF AllocInv, RootInTime
  <2>2. CASE allocator_addr = 0
    BY <2>1, <2>2, <1>2 DEF RootOffset, Asked
  <2>3. CASE allocator_addr # 0
    BY <2>1, <2>3, <1>2, <1>3 DEF RootOffset, Asked, Entry, LoadGeneric
  <2> QED
    BY <2>2, <2>3
<1>9. RootFollows'
  BY <1>1, <1>2, <1>4 DEF RootFollows, LoadGeneric
<1>10. NeverWrongBuckets'
  BY <1>1 DEF AllocInv, NeverWrongBuckets, Done, TrueBuckets
<1> QED
  BY <1>5, <1>7, <1>8, <1>9, <1>10 DEF AllocInv

(* Learning the size and the number of buckets learns both or neither. *)
LEMMA LearnBucketsLearns ==
  ASSUME Shape, NEW k \in Arrays, LearnBuckets(k)
  PROVE  /\ DOMAIN bucket_size_' = Arrays /\ DOMAIN bucket_count_' = Arrays
         /\ \A j \in Arrays \ {k} :
              bucket_size_'[j] = bucket_size_[j] /\ bucket_count_'[j] = bucket_count_[j]
         /\ ~answers => bucket_count_' = bucket_count_
         /\ answers => /\ bucket_size_'[k] = build.size
                       /\ bucket_count_'[k] = build.bytes[k] \div build.size
BY DEF Shape, LearnBuckets, Answer, BucketCount

(* PartitionRootGeneric::load keeps the invariant. *)
LEMMA LoadRootKeeps ==
  ASSUME AllocInv, LoadRoot
  PROVE  AllocInv'
<1>1. /\ UNCHANGED <<build, answers>> /\ build \in Builds /\ pc = "root"
      /\ "buckets" \in OffsetFields /\ DOMAIN offsets_ = OffsetFields
      /\ alloc \in Generic /\ allocator_addr # 0 /\ offsets_["generic_root"] # Unset
      /\ root = allocator_addr + offsets_["generic_root"]
  BY DEF LoadRoot, debugger, AllocInv, Shape, RootFollows, OffsetFields
<1>2. CASE offsets_["buckets"] # Unset
  <2>1. UNCHANGED <<offsets_, bucket_size_, bucket_count_, alloc, allocator_addr, root, screen>> /\ pc' = "base"
    BY <1>2 DEF LoadRoot, statics, command
  <2> QED
    BY <1>1, <1>2, <2>1 DEF AllocInv, Shape, LearntTogether, RootInTime, RootFollows, NeverWrongBuckets,
                            Done, TrueBuckets
<1>3. CASE offsets_["buckets"] = Unset
  <2>1. /\ LearnBuckets("buckets")
        /\ offsets_' = [offsets_ EXCEPT !["buckets"] = Answer(build.offsets["buckets"])]
    BY <1>3 DEF LoadRoot
  <2>2. bucket_count_["buckets"] = 0
    BY <1>1, <1>3, BuildFacts DEF AllocInv, LearntTogether, Arrays
  <2>3. /\ build.offsets["buckets"] \in Nat /\ build.offsets["buckets"] # Unset
        /\ Unset \notin Nat
    BY <1>1, BuildFacts, BuildsAssumption
  <2>4. /\ offsets_'["buckets"] = Answer(build.offsets["buckets"]) /\ offsets_'["buckets"] # Unset
        /\ offsets_'["buckets"] \in Nat
        /\ \A f \in OffsetFields \ {"buckets"} : offsets_'[f] = offsets_[f]
    BY <1>1, <2>1, <2>3 DEF Answer
  <2>5. Shape'
    BY <1>1, <2>1, <2>4, LearnBucketsLearns DEF AllocInv, Shape, Arrays
  <2>6. LearntTogether'
    <3>1. /\ \A j \in Arrays \ {"buckets"} :
               bucket_size_'[j] = bucket_size_[j] /\ bucket_count_'[j] = bucket_count_[j]
          /\ ~answers => bucket_count_' = bucket_count_
          /\ answers => /\ bucket_size_'["buckets"] = build.size
                        /\ bucket_count_'["buckets"] = build.bytes["buckets"] \div build.size
      BY <2>1, LearnBucketsLearns DEF AllocInv, Arrays
    <3>2. answers => offsets_["generic_root"] = build.offsets["generic_root"]
      BY <1>1, <1>3 DEF AllocInv, RootInTime
    <3>3. Arrays \subseteq OffsetFields /\ "generic_root" \in OffsetFields
      BY DEF Arrays, OffsetFields
    <3> QED
      BY <1>1, <2>2, <2>4, <3>1, <3>2, <3>3 DEF AllocInv, LearntTogether, Arrays, Answer
  <2>7. RootInTime'
    BY <2>4 DEF RootInTime
  <2>8. RootFollows'
    BY <1>1, <1>3, <2>4 DEF RootFollows, LoadRoot, Finish, command, OffsetFields
  <2>9. NeverWrongBuckets'
    <3>1. screen' = screen \/ screen'.raised
      BY <1>3 DEF LoadRoot, Finish
    <3> QED
      BY <1>1, <3>1 DEF AllocInv, NeverWrongBuckets, Done, TrueBuckets
  <2> QED
    BY <2>5, <2>6, <2>7, <2>8, <2>9 DEF AllocInv
<1> QED
  BY <1>2, <1>3

(* SizeSpecificPartitionAllocator1024::load keeps the invariant. *)
LEMMA LoadSpecificKeeps ==
  ASSUME AllocInv, LoadSpecific
  PROVE  AllocInv'
<1> DEFINE first == offsets_["actual_buckets"] = Unset
<1>1. /\ UNCHANGED <<build, answers>> /\ build \in Builds /\ pc = "allocator" /\ alloc \in Specific
      /\ Arrays \subseteq OffsetFields /\ "generic_root" \in OffsetFields
      /\ "specific_root" \in OffsetFields
      /\ offsets_ \in [OffsetFields -> Nat \cup {Unset}] /\ Unset \notin Nat
  BY BuildsAssumption DEF LoadSpecific, debugger, AllocInv, Shape, OffsetFields, Arrays
<1>2. \A f \in OffsetFields : build.offsets[f] \in Nat /\ build.offsets[f] # Unset
  BY <1>1, BuildFacts
<1>3. /\ offsets_' \in [OffsetFields -> Nat \cup {Unset}]
      /\ offsets_'["buckets"] = offsets_["buckets"]
      /\ offsets_'["generic_root"] = offsets_["generic_root"]
      /\ ~first => offsets_'["actual_buckets"] = offsets_["actual_buckets"]
      /\ first /\ answers => offsets_'["actual_buckets"] = build.offsets["actual_buckets"]
  <2>1. CASE first /\ ~answers
    <3>1. offsets_' = [offsets_ EXCEPT !["actual_buckets"] = 0]
      BY <2>1 DEF LoadSpecific
    <3> QED
      BY <1>1, <2>1, <3>1 DEF OffsetFields, Arrays
  <2>2. CASE ~(first /\ ~answers)
    <3> DEFINE asked == IF first THEN Asked("specific_root") ELSE offsets_["specific_root"]
               actual == IF first THEN build.offsets["actual_buckets"] ELSE offsets_["actual_buckets"]
               specific == IF allocator_addr = 0 THEN asked ELSE Entry(asked)
    <3>1. offsets_' = [offsets_ EXCEPT !["actual_buckets"] = actual, !["specific_root"] = specific]
      BY <2>2 DEF LoadSpecific
    <3>2. actual \in Nat \cup {Unset} /\ specific \in Nat \cup {Unset}
      BY <1>1, <1>2 DEF Asked, Entry, Arrays
    <3> HIDE DEF specific
    <3> QED
      BY <1>1, <2>2, <3>1, <3>2 DEF OffsetFields, Arrays
  <2> QED
    BY <2>1, <2>2
<1>4. /\ first => LearnBuckets("actual_buckets")
      /\ ~first => UNCHANGED <<bucket_size_, bucket_count_>>
  BY DEF LoadSpecific
<1>5. Shape'
  BY <1>1, <1>3, <1>4, LearnBucketsLearns DEF AllocInv, Shape, Arrays
<1>6. LearntTogether'
  <2>1. first => bucket_count_["actual_buckets"] = 0
    BY <1>1, <1>2 DEF AllocInv, LearntTogether, Arrays
  <2>2. CASE ~first
    BY <1>1, <1>3, <1>4, <2>2 DEF AllocInv, LearntTogether, Arrays
  <2>3. CASE first
    <3>1. /\ bucket_size_'["buckets"] = bucket_size_["buckets"]
          /\ bucket_count_'["buckets"] = bucket_count_["buckets"]
          /\ ~answers => bucket_count_' = bucket_count_
          /\ answers => /\ bucket_size_'["actual_buckets"] = build.size
                        /\ bucket_count_'["actual_buckets"] = build.bytes["actual_buckets"] \div build.size
      BY <1>4, <2>3, LearnBucketsLearns DEF AllocInv, Arrays
    <3> QED
      BY <1>1, <1>3, <2>1, <2>3, <3>1 DEF AllocInv, LearntTogether, Arrays
  <2> QED
    BY <2>2, <2>3
<1>7. RootInTime'
  BY <1>1, <1>3 DEF AllocInv, RootInTime
<1>8. NeverWrongBuckets'
  <2>1. screen' = screen \/ screen'.raised
    BY DEF LoadSpecific, Finish
  <2> QED
    BY <1>1, <2>1 DEF AllocInv, NeverWrongBuckets, Done, TrueBuckets
<1>9. RootFollows'
  <2>1. alloc \notin Generic
    BY <1>1, BuildsAssumption
  <2>2. pc' \in {"idle", "dump", "base"} /\ (pc' # "idle" => alloc' = alloc)
    BY DEF LoadSpecific, Finish, command
  <2> QED
    BY <2>1, <2>2 DEF RootFollows
<1> QED
  BY <1>5, <1>6, <1>7, <1>8, <1>9 DEF AllocInv

(* PartitionRootBase::load keeps the invariant. *)
LEMMA LoadBaseKeeps ==
  ASSUME AllocInv, LoadBase
  PROVE  AllocInv'
<1>1. /\ UNCHANGED <<build, answers, bucket_size_, bucket_count_, alloc, allocator_addr, root, screen>>
      /\ pc = "base" /\ pc' = "dump" /\ build \in Builds
      /\ DOMAIN offsets_ = OffsetFields
  BY DEF LoadBase, debugger, command, AllocInv, Shape
<1>2. offsets_' = [offsets_ EXCEPT !["extents"] = Entry(Asked("extents"))]
  BY DEF LoadBase
<1>3. "extents" \in OffsetFields /\ Entry(Asked("extents")) \in Nat
  BY <1>1, BuildFacts DEF Entry, Asked, OffsetFields, AllocInv, Shape
<1>4. \A f \in {"buckets", "actual_buckets", "generic_root"} : offsets_'[f] = offsets_[f]
  BY <1>1, <1>2 DEF OffsetFields
<1>5. Shape'
  BY <1>1, <1>2, <1>3 DEF AllocInv, Shape
<1> QED
  BY <1>1, <1>4, <1>5
     DEF AllocInv, LearntTogether, RootInTime, RootFollows, NeverWrongBuckets, Done, TrueBuckets, Arrays

(* dump and dump_buckets keep the invariant, and list what they should. *)
LEMMA DumpKeeps ==
  ASSUME AllocInv, Dump
  PROVE  AllocInv'
<1> DEFINE shown == IF ~dump_buckets THEN Unset
                    ELSE IF alloc \in Generic THEN Array(root + Entry(offsets_["buckets"]), "buckets")
                    ELSE Array(allocator_addr + Entry(offsets_["actual_buckets"]), "actual_buckets")
<1>1. /\ UNCHANGED <<build, answers, bucket_size_, bucket_count_>> /\ pc \in {"dump", "mismatch"}
      /\ build \in Builds /\ Unset \notin Nat
      /\ Finish(shown, pc = "mismatch", FALSE)
      /\ offsets_ \in [OffsetFields -> Nat \cup {Unset}]
  BY BuildsAssumption DEF Dump, debugger, AllocInv, Shape
<1>2. /\ offsets_' \in [OffsetFields -> Nat \cup {Unset}]
      /\ \A f \in OffsetFields : offsets_[f] # Unset => offsets_'[f] = offsets_[f]
      /\ \A f \in OffsetFields \ {"buckets"} : offsets_'[f] = offsets_[f]
      /\ offsets_'["buckets"] = Unset => offsets_["buckets"] = Unset
  BY <1>1 DEF Dump, Entry, OffsetFields
<1>3. Shape'
  BY <1>1, <1>2 DEF AllocInv, Shape
<1>4. Arrays \subseteq OffsetFields /\ "generic_root" \in OffsetFields \ {"buckets"}
      /\ \A f \in OffsetFields : build.offsets[f] # Unset /\ build.offsets[f] \in Nat
  BY <1>1, BuildFacts DEF Arrays, OffsetFields
<1>5. LearntTogether'
  BY <1>1, <1>2, <1>4 DEF AllocInv, LearntTogether
<1>6. RootInTime'
  BY <1>1, <1>2, <1>4 DEF AllocInv, RootInTime
<1>7. RootFollows'
  BY <1>1 DEF RootFollows, Finish
<1>8. NeverWrongBuckets'
  <2>1. /\ screen'.alloc = alloc /\ screen'.at = allocator_addr /\ screen'.buckets = shown
        /\ screen'.message = (pc = "mismatch")
    BY <1>1 DEF Finish
  <2> SUFFICES ASSUME pc = "dump", allocator_addr # 0, shown # Unset
      PROVE  shown = TrueBuckets(alloc, allocator_addr)
    BY <1>1, <2>1 DEF NeverWrongBuckets, Done, TrueBuckets
  <2>2. CASE alloc \in Generic
    <3>1. /\ shown = Array(root + Entry(offsets_["buckets"]), "buckets") /\ bucket_count_["buckets"] # 0
      BY <2>2 DEF Array
    <3>2. /\ offsets_["buckets"] = build.offsets["buckets"]
          /\ offsets_["generic_root"] = build.offsets["generic_root"]
          /\ bucket_size_["buckets"] = build.size
          /\ bucket_count_["buckets"] = build.bytes["buckets"] \div build.size
      BY <3>1 DEF AllocInv, LearntTogether, Arrays
    <3>3. root = allocator_addr + build.offsets["generic_root"]
      BY <2>2, <3>2 DEF AllocInv, RootFollows
    <3> QED
      BY <1>4, <2>2, <3>1, <3>2, <3>3 DEF Array, TrueBuckets, Entry, Arrays
  <2>3. CASE alloc \notin Generic
    <3>1. /\ shown = Array(allocator_addr + Entry(offsets_["actual_buckets"]), "actual_buckets")
          /\ bucket_count_["actual_buckets"] # 0
      BY <2>3 DEF Array
    <3>2. /\ offsets_["actual_buckets"] = build.offsets["actual_buckets"]
          /\ bucket_size_["actual_buckets"] = build.size
          /\ bucket_count_["actual_buckets"] = build.bytes["actual_buckets"] \div build.size
      BY <3>1 DEF AllocInv, LearntTogether, Arrays
    <3> QED
      BY <1>4, <2>3, <3>1, <3>2 DEF Array, TrueBuckets, Entry, Arrays
  <2> QED
    BY <2>2, <2>3
<1> QED
  BY <1>3, <1>5, <1>6, <1>7, <1>8 DEF AllocInv

(* Every step keeps the invariant. *)
LEMMA AllocInvNext ==
  ASSUME AllocInv, [Next]_vars
  PROVE  AllocInv'
<1>1. CASE UNCHANGED vars
  BY <1>1 DEF vars, debugger, statics, command, AllocInv, Shape, LearntTogether, RootInTime,
              RootFollows, NeverWrongBuckets, Done, TrueBuckets
<1> QED
  BY <1>1, CommandKeeps, LoadGenericKeeps, LoadRootKeeps, LoadSpecificKeeps, LoadBaseKeeps, DumpKeeps
     DEF Next

(* What -buckets lists of an allocator is its bucket array or nothing, in    *)
(* every session with every build.                                           *)
THEOREM ListsRightOrNothing == Spec => []NeverWrongBuckets
<1>1. AllocInv => NeverWrongBuckets
  BY DEF AllocInv
<1> QED
  BY AllocInvInit, AllocInvNext, <1>1, PTL DEF Spec

------------------------------------------------------------------------------
(* Sessions without mishaps. *)

Clean == answered /\ no_null
ArrayField(a) == IF a \in Generic THEN "buckets" ELSE "actual_buckets"
RootField(a) == IF a \in Generic THEN "generic_root" ELSE "specific_root"

(* What is kept is right, or not there yet. *)
KeptRight ==
  /\ \A f \in OffsetFields : offsets_[f] \in {Unset, build.offsets[f]}
  /\ \A k \in Arrays : offsets_[k] # Unset =>
       bucket_size_[k] = build.size /\ bucket_count_[k] = build.bytes[k] \div build.size
  /\ offsets_["actual_buckets"] # Unset => offsets_["specific_root"] # Unset

(* The command that runs has its symbols, and has found what it went for. *)
Found ==
  /\ pc # "idle" => answers /\ alloc \in Allocators /\ (dump_buckets => allocator_addr # 0)
  /\ pc \in {"root", "mismatch"} => alloc \in Generic
  /\ pc = "mismatch" => allocator_addr # 0 /\ offsets_["buckets"] # Unset
  /\ pc \in {"root", "base", "dump"} /\ (pc = "dump" => allocator_addr # 0) =>
       allocator_addr # 0 /\ root = allocator_addr + build.offsets[RootField(alloc)]
  /\ pc \in {"base", "dump"} /\ allocator_addr # 0 => offsets_[ArrayField(alloc)] # Unset
  /\ pc = "dump" /\ allocator_addr # 0 => extents = TrueExtents(alloc, allocator_addr)

CleanInv == Clean => KeptRight /\ Found /\ CleanSessionLists

(* A question with the symbols there is answered, and a right or missing     *)
(* offset becomes the right one.                                             *)
LEMMA AskedRight ==
  ASSUME Shape, KeptRight, answers, NEW f \in OffsetFields
  PROVE  Asked(f) = build.offsets[f] /\ Entry(Asked(f)) = build.offsets[f]
<1>1. build.offsets[f] # Unset
  BY BuildFacts DEF Shape
<1>. QED
  BY <1>1 DEF KeptRight, Asked, Entry

(* There is room for a bucket in either array. *)
LEMMA SomeBuckets ==
  ASSUME NEW b \in Builds, NEW k \in Arrays
  PROVE  b.bytes[k] \div b.size # 0
<1>1. b.size \in Nat \ {0} /\ b.bytes[k] \in Nat /\ b.size <= b.bytes[k]
  BY BuildsAssumption DEF Arrays
<1>2. \A n \in Nat, d \in Nat \ {0} : d <= n => n \div d # 0
  BY SMT
<1>. QED
  BY <1>1, <1>2

(* Between commands nothing is lost; a command starts with its symbols. *)
LEMMA CleanCommand ==
  ASSUME AllocInv, CleanInv,
         \/ \E a \in Allocators : SetUp(a)
         \/ ReloadSymbols
         \/ \E a \in Allocators, use_args \in BOOLEAN, buckets \in BOOLEAN :
              \E given \in {0} \cup {pointer[b] : b \in SameClass(a)} : Command(a, use_args, given, buckets)
  PROVE  CleanInv'
<1>. SUFFICES ASSUME Clean' PROVE (KeptRight /\ Found /\ CleanSessionLists)'
  BY DEF CleanInv
<1>1. CASE (\E a \in Allocators : SetUp(a)) \/ ReloadSymbols
  <2>1. UNCHANGED <<build, offsets_, bucket_size_, bucket_count_, screen, answered, no_null>> /\ pc' = "idle"
    BY <1>1 DEF SetUp, ReloadSymbols, statics, history
  <2>. QED
    BY <2>1 DEF CleanInv, Clean, KeptRight, Found, CleanSessionLists, Done, Listed, TrueBuckets, TrueExtents
<1>2. CASE \E a \in Allocators, use_args \in BOOLEAN, buckets \in BOOLEAN :
             \E given \in {0} \cup {pointer[b] : b \in SameClass(a)} : Command(a, use_args, given, buckets)
  <2>1. /\ UNCHANGED <<build, offsets_, bucket_size_, bucket_count_, answers>> /\ pc' = "allocator"
        /\ screen' = Unset /\ alloc' \in Allocators
        /\ answered' = (answered /\ answers) /\ no_null' = (no_null /\ ~(dump_buckets' /\ allocator_addr' = 0))
    BY <1>2 DEF Command, debugger
  <2>. QED
    BY <2>1 DEF CleanInv, Clean, KeptRight, Found, CleanSessionLists, Done
<1>. QED
  BY <1>1, <1>2

(* PartitionAllocatorGeneric::load finds what it goes for. *)
LEMMA CleanGeneric ==
  ASSUME AllocInv, CleanInv, LoadGeneric
  PROVE  CleanInv'
<1>. SUFFICES ASSUME Clean' PROVE (KeptRight /\ Found /\ CleanSessionLists)'
  BY DEF CleanInv
<1>1. /\ UNCHANGED <<build, answers, bucket_size_, bucket_count_, alloc, allocator_addr, dump_buckets, screen>>
      /\ UNCHANGED <<answered, no_null>> /\ pc = "allocator" /\ alloc \in Generic
      /\ offsets_' = [offsets_ EXCEPT !["generic_root"] = RootOffset("generic_root")]
  BY DEF LoadGeneric, debugger, command, history
<1>2. Clean /\ KeptRight /\ Found /\ CleanSessionLists /\ Shape
  BY <1>1 DEF Clean, CleanInv, AllocInv
<1>3. "generic_root" \in OffsetFields /\ Arrays \subseteq OffsetFields \ {"generic_root"} /\ DOMAIN offsets_ = OffsetFields
      /\ "specific_root" \in OffsetFields \ {"generic_root"} /\ "actual_buckets" \in Arrays
  BY <1>2 DEF OffsetFields, Arrays, Shape
<1>4. RootOffset("generic_root") = build.offsets["generic_root"] /\ Entry(Asked("generic_root")) = build.offsets["generic_root"]
  BY <1>1, <1>2, <1>3, AskedRight DEF RootOffset, Found
<1>5. KeptRight'
  BY <1>1, <1>2, <1>3, <1>4 DEF KeptRight
<1>6. Found'
  BY <1>1, <1>2, <1>4 DEF Found, LoadGeneric, RootField, Allocators
<1>. QED
  BY <1>1, <1>2, <1>5, <1>6 DEF CleanSessionLists, Done, Listed, TrueBuckets, TrueExtents

(* So does PartitionRootGeneric::load, which may refuse the build. *)
LEMMA CleanRoot ==
  ASSUME AllocInv, CleanInv, LoadRoot
  PROVE  CleanInv'
<1>. SUFFICES ASSUME Clean' PROVE (KeptRight /\ Found /\ CleanSessionLists)'
  BY DEF CleanInv
<1>1. UNCHANGED <<build, answers, answered, no_null>> /\ pc = "root"
  BY DEF LoadRoot, debugger, history
<1>2. Clean /\ KeptRight /\ Found /\ CleanSessionLists /\ Shape /\ answers /\ alloc \in Generic
      /\ allocator_addr # 0 /\ root = allocator_addr + build.offsets["generic_root"]
  BY <1>1 DEF Clean, CleanInv, AllocInv, Found, RootField
<1>3. CASE offsets_["buckets"] # Unset
  <2>1. UNCHANGED <<offsets_, bucket_size_, bucket_count_, alloc, allocator_addr, dump_buckets, root, screen>> /\ pc' = "base"
    BY <1>3 DEF LoadRoot, statics, command
  <2>. QED
    BY <1>1, <1>2, <1>3, <2>1 DEF KeptRight, Found, CleanSessionLists, Done, Listed, TrueBuckets, TrueExtents, ArrayField, RootField
<1>4. CASE offsets_["buckets"] = Unset
  <2>1. /\ LearnBuckets("buckets") /\ offsets_' = [offsets_ EXCEPT !["buckets"] = build.offsets["buckets"]]
        /\ UNCHANGED <<alloc, allocator_addr, dump_buckets, screen>>
        /\ pc' = "mismatch" \/ (pc' = "base" /\ root' = root)
    BY <1>2, <1>4 DEF LoadRoot, Answer, command
  <2>2. /\ "buckets" \in OffsetFields /\ DOMAIN offsets_ = OffsetFields /\ "buckets" \in Arrays /\ Arrays \subseteq OffsetFields
        /\ "specific_root" \in OffsetFields \ {"buckets"} /\ "actual_buckets" \in OffsetFields \ {"buckets"}
    BY <1>2 DEF OffsetFields, Shape, Arrays
  <2>3. offsets_'["buckets"] # Unset
    BY <1>2, <2>1, <2>2, BuildFacts DEF Shape
  <2>4. KeptRight'
    <3>1. /\ \A j \in Arrays \ {"buckets"} :
               bucket_size_'[j] = bucket_size_[j] /\ bucket_count_'[j] = bucket_count_[j]
          /\ bucket_size_'["buckets"] = build.size
          /\ bucket_count_'["buckets"] = build.bytes["buckets"] \div build.size
      BY <1>2, <2>1, <2>2, LearnBucketsLearns
    <3>. QED BY <1>1, <1>2, <2>1, <2>2, <3>1 DEF KeptRight
  <2>5. Found'
    BY <1>1, <1>2, <2>1, <2>3 DEF Found, ArrayField, RootField
  <2>. QED
    BY <1>1, <1>2, <2>1, <2>4, <2>5 DEF CleanSessionLists, Done, Listed, TrueBuckets, TrueExtents
<1>. QED
  BY <1>3, <1>4

(* And SizeSpecificPartitionAllocator1024::load. *)
LEMMA CleanSpecific ==
  ASSUME AllocInv, CleanInv, LoadSpecific
  PROVE  CleanInv'
<1>. SUFFICES ASSUME Clean' PROVE (KeptRight /\ Found /\ CleanSessionLists)'
  BY DEF CleanInv
<1> DEFINE first == offsets_["actual_buckets"] = Unset
           asked == IF first THEN Asked("specific_root") ELSE offsets_["specific_root"]
           actual == IF first THEN build.offsets["actual_buckets"] ELSE offsets_["actual_buckets"]
           specific == IF allocator_addr = 0 THEN asked ELSE Entry(asked)
<1>1. UNCHANGED <<build, answers, answered, no_null>> /\ pc = "allocator" /\ alloc \in Specific /\ alloc \notin Generic
  BY BuildsAssumption DEF LoadSpecific, debugger, history
<1>2. Clean /\ KeptRight /\ Found /\ CleanSessionLists /\ Shape /\ answers
  BY <1>1 DEF Clean, CleanInv, AllocInv, Found
<1>3. /\ UNCHANGED <<alloc, allocator_addr, dump_buckets, screen>>
      /\ IF first THEN LearnBuckets("actual_buckets") ELSE UNCHANGED <<bucket_size_, bucket_count_>>
      /\ offsets_' = [offsets_ EXCEPT !["actual_buckets"] = actual, !["specific_root"] = specific]
      /\ IF allocator_addr = 0 THEN pc' = "dump" ELSE pc' = "base" /\ root' = allocator_addr + Entry(asked)
  BY <1>2 DEF LoadSpecific, command
<1>4. /\ DOMAIN offsets_ = OffsetFields /\ Arrays \subseteq OffsetFields \ {"specific_root"}
      /\ "specific_root" \in OffsetFields /\ "actual_buckets" \in Arrays /\ Arrays = {"buckets", "actual_buckets"}
  BY <1>2 DEF OffsetFields, Arrays, Shape
<1>5. actual = build.offsets["actual_buckets"] /\ actual # Unset
  BY <1>2, <1>4, BuildFacts DEF KeptRight, Shape
<1>6. asked = build.offsets["specific_root"] /\ Entry(asked) = asked /\ asked # Unset
  <2>1. build.offsets["specific_root"] # Unset
    BY <1>2, <1>4, BuildFacts DEF Shape
  <2>. QED BY <1>2, <1>4, <2>1, AskedRight DEF KeptRight, Entry
<1>7. specific = build.offsets["specific_root"]
  BY <1>6
<1>. HIDE DEF asked, actual, specific
<1>8. /\ offsets_'["actual_buckets"] = actual /\ offsets_'["specific_root"] = specific
      /\ \A f \in OffsetFields \ {"actual_buckets", "specific_root"} : offsets_'[f] = offsets_[f]
  BY <1>3, <1>4
<1>9. KeptRight'
  <2>1. \A f \in OffsetFields : offsets_'[f] \in {Unset, build.offsets[f]}
    BY <1>2, <1>5, <1>7, <1>8 DEF KeptRight
  <2>2. \A k \in Arrays : offsets_'[k] # Unset =>
          bucket_size_'[k] = build.size /\ bucket_count_'[k] = build.bytes[k] \div build.size
    <3>1. CASE first
      <4>1. /\ bucket_size_'["buckets"] = bucket_size_["buckets"]
            /\ bucket_count_'["buckets"] = bucket_count_["buckets"]
            /\ bucket_size_'["actual_buckets"] = build.size
            /\ bucket_count_'["actual_buckets"] = build.bytes["actual_buckets"] \div build.size
        BY <1>2, <1>3, <1>4, <3>1, LearnBucketsLearns
      <4>. QED BY <1>2, <1>4, <1>8, <4>1 DEF KeptRight
    <3>2. CASE ~first
      BY <1>2, <1>3, <1>4, <1>8, <3>2 DEF KeptRight
    <3>. QED BY <3>1, <3>2
  <2>. QED
    BY <1>1, <1>6, <1>7, <1>8, <2>1, <2>2 DEF KeptRight
<1>10. Found'
  BY <1>1, <1>2, <1>3, <1>5, <1>6, <1>8 DEF Found, ArrayField, RootField
<1>. QED
  BY <1>1, <1>2, <1>3, <1>9, <1>10 DEF CleanSessionLists, Done, Listed, TrueBuckets, TrueExtents

(* And PartitionRootBase::load, which is where the extents are. *)
LEMMA CleanBase ==
  ASSUME AllocInv, CleanInv, LoadBase
  PROVE  CleanInv'
<1>. SUFFICES ASSUME Clean' PROVE (KeptRight /\ Found /\ CleanSessionLists)'
  BY DEF CleanInv
<1>1. /\ UNCHANGED <<build, answers, bucket_size_, bucket_count_, alloc, allocator_addr, dump_buckets, root, screen>>
      /\ UNCHANGED <<answered, no_null>> /\ pc = "base" /\ pc' = "dump"
      /\ offsets_' = [offsets_ EXCEPT !["extents"] = Entry(Asked("extents"))]
      /\ extents' = root + Entry(Asked("extents"))
  BY DEF LoadBase, debugger, command, history
<1>2. Clean /\ KeptRight /\ Found /\ CleanSessionLists /\ Shape /\ answers
  BY <1>1 DEF Clean, CleanInv, AllocInv, Found
<1>3. /\ DOMAIN offsets_ = OffsetFields /\ "extents" \in OffsetFields
      /\ Arrays \subseteq OffsetFields \ {"extents"} /\ "specific_root" \in OffsetFields \ {"extents"}
      /\ Arrays = {"buckets", "actual_buckets"}
  BY <1>2 DEF OffsetFields, Arrays, Shape
<1>4. Entry(Asked("extents")) = build.offsets["extents"]
  BY <1>2, <1>3, AskedRight
<1>5. /\ offsets_'["extents"] = build.offsets["extents"]
      /\ \A f \in OffsetFields \ {"extents"} : offsets_'[f] = offsets_[f]
  BY <1>1, <1>3, <1>4
<1>6. KeptRight'
  BY <1>1, <1>2, <1>3, <1>5 DEF KeptRight
<1>7. root = allocator_addr + build.offsets[RootField(alloc)] /\ allocator_addr # 0 /\ alloc \in Allocators
  BY <1>1, <1>2 DEF Found
<1>8. extents' = TrueExtents(alloc, allocator_addr)
  BY <1>1, <1>4, <1>7 DEF TrueExtents, RootField
<1>9. Found'
  BY <1>1, <1>2, <1>3, <1>5, <1>7, <1>8 DEF Found, ArrayField, RootField, TrueExtents
<1>. QED
  BY <1>1, <1>2, <1>6, <1>9 DEF CleanSessionLists, Done, Listed, TrueBuckets, TrueExtents

(* dump and dump_buckets show what was found. *)
LEMMA CleanDump ==
  ASSUME AllocInv, CleanInv, Dump
  PROVE  CleanInv'
<1>. SUFFICES ASSUME Clean' PROVE (KeptRight /\ Found /\ CleanSessionLists)'
  BY DEF CleanInv
<1> DEFINE shown == IF ~dump_buckets THEN Unset
                    ELSE IF alloc \in Generic THEN Array(root + Entry(offsets_["buckets"]), "buckets")
                    ELSE Array(allocator_addr + Entry(offsets_["actual_buckets"]), "actual_buckets")
           listing == alloc \in Generic /\ dump_buckets
<1>1. /\ UNCHANGED <<build, answers, bucket_size_, bucket_count_, answered, no_null>> /\ pc \in {"dump", "mismatch"}
      /\ Finish(shown, pc = "mismatch", FALSE)
      /\ offsets_' = IF listing THEN [offsets_ EXCEPT !["buckets"] = Entry(@)] ELSE offsets_
  BY DEF Dump, debugger, history
<1>2. Clean /\ KeptRight /\ Found /\ CleanSessionLists /\ Shape /\ build \in Builds
  BY <1>1 DEF Clean, CleanInv, AllocInv, Shape
<1>3. "buckets" \in OffsetFields /\ DOMAIN offsets_ = OffsetFields /\ Arrays = {"buckets", "actual_buckets"}
  BY <1>2 DEF OffsetFields, Arrays, Shape
<1>4. offsets_' = offsets_
  <2>1. CASE listing
    <3>1. offsets_["buckets"] # Unset
      BY <1>1, <1>2, <2>1 DEF Found, ArrayField
    <3>2. offsets_' = [offsets_ EXCEPT !["buckets"] = offsets_["buckets"]]
      BY <1>1, <2>1, <3>1 DEF Entry
    <3>3. offsets_ \in [OffsetFields -> Nat \cup {Unset}]
      BY <1>2 DEF Shape
    <3>. QED BY <1>3, <3>2, <3>3
  <2>2. CASE ~listing
    BY <1>1, <2>2
  <2>. QED BY <2>1, <2>2
<1>5. KeptRight' /\ Found'
  BY <1>1, <1>2, <1>4 DEF KeptRight, Found, Finish
<1>6. /\ screen'.alloc = alloc /\ screen'.at = allocator_addr /\ screen'.buckets = shown
      /\ screen'.extents = extents /\ screen'.asked = dump_buckets /\ screen'.message = (pc = "mismatch")
  BY <1>1 DEF Finish
<1>7. ASSUME pc = "dump", allocator_addr # 0
      PROVE  extents = TrueExtents(alloc, allocator_addr) /\ (dump_buckets => shown = TrueBuckets(alloc, allocator_addr))
  <2>1. /\ extents = TrueExtents(alloc, allocator_addr) /\ offsets_[ArrayField(alloc)] # Unset
        /\ root = allocator_addr + build.offsets[RootField(alloc)]
    BY <1>2, <1>7 DEF Found
  <2> DEFINE k == ArrayField(alloc)
  <2>2. k \in Arrays /\ Arrays \subseteq OffsetFields
    BY <1>3 DEF ArrayField, OffsetFields
  <2>3. /\ offsets_[k] = build.offsets[k] /\ Entry(offsets_[k]) = build.offsets[k]
        /\ bucket_size_[k] = build.size /\ bucket_count_[k] = build.bytes[k] \div build.size
    BY <1>2, <2>1, <2>2 DEF KeptRight, Entry
  <2>4. bucket_count_[k] # 0
    BY <1>2, <2>2, <2>3, SomeBuckets
  <2>. QED
    BY <2>1, <2>3, <2>4 DEF ArrayField, RootField, TrueBuckets, Array
<1>8. CleanSessionLists'
  BY <1>1, <1>6, <1>7 DEF CleanSessionLists, Done, Listed, TrueBuckets, TrueExtents
<1>. QED
  BY <1>5, <1>8

(* Every step keeps a clean session clean. *)
LEMMA CleanNext ==
  ASSUME AllocInv, CleanInv, [Next]_vars
  PROVE  CleanInv'
<1>1. CASE UNCHANGED vars
  BY <1>1 DEF vars, debugger, statics, command, history, CleanInv, Clean, KeptRight, Found, CleanSessionLists,
              Done, Listed, TrueBuckets, TrueExtents
<1> QED
  BY <1>1, CleanCommand, CleanGeneric, CleanRoot, CleanSpecific, CleanBase, CleanDump DEF Next

(* In a session in which symbols were always there and no bucket of a null   *)
(* allocator was asked for, every command shows the extents and, if asked,   *)
(* the buckets, in whatever order the four commands come.                    *)
THEOREM CleanSessionsList == Spec => []CleanSessionLists
<1>1. Init => CleanInv
  BY DEF Init, CleanInv, KeptRight, Found, CleanSessionLists, Done, Arrays, OffsetFields
<1>2. CleanInv => CleanSessionLists
  BY DEF CleanInv, Clean, CleanSessionLists
<1> QED
  BY AllocInvInit, AllocInvNext, <1>1, CleanNext, <1>2, PTL DEF Spec

------------------------------------------------------------------------------
(* What is listed: a session of module AllocatorDump beside that of module   *)
(* Allocators, with a target of its own.                                     *)

CONSTANTS Memories, Unreadables, Sentinel, BucketCount_, BucketSize_, Word, SizeT, UInt32, Blank, SentinelLine

VARIABLES memory, unreadable, sentinel, dump_pc, allocator, with_buckets, dump_root, cursor, row,
          dumped, directs, buckets, listing

Dumps == INSTANCE AllocatorDump WITH
  bucket_count_ <- BucketCount_, bucket_size_ <- BucketSize_, pc <- dump_pc,
  dump_buckets <- with_buckets, root <- dump_root, extents <- dumped

(* What module AllocatorDump assumes.                                        *)
DumpsAssumed ==
  Dumps!WordsAssumption /\ Dumps!CountsAssumption /\ Dumps!MemoriesAssumption /\ Dumps!CellsAssumption

DumpTargetOK ==
  /\ memory \in Memories /\ unreadable \in Unreadables /\ sentinel \in {0, Sentinel}
  /\ allocator \in {0, memory.allocator}

Rows == 0..(BucketCount_ - 1)
At(i) == Dumps!BucketAt(allocator, memory, i)
HeadPage(i) == Dumps!ActiveHead(At(i))

(* The pages that can show in row i, and the lines of some of them, the      *)
(* first of which is the head's.                                             *)
OwnPages(i) == (IF At(i) \in Dumps!Buckets(memory) THEN Dumps!PagesOf(memory, At(i)) ELSE {}) \cup {Sentinel}
PageLines(i) == {[page |-> p, mark |-> Dumps!Unprovisioned(HeadPage(i)) > 0] : p \in OwnPages(i)}
Opened(i) == {pages \in Seq(PageLines(i)) : pages # <<>> => pages[1].page = HeadPage(i)}

BucketLine(i, pages) ==
  [index |-> i, addr |-> At(i), slot_size |-> Dumps!SlotSize(At(i)), pages |-> pages]
BucketLines == UNION {{BucketLine(i, pages) : pages \in {SentinelLine} \cup Opened(i)} : i \in Rows}

InOrder(bs) == \A k, l \in DOMAIN bs : k < l => bs[k].index < bs[l].index

ExtentsFrom(a) ==
  IF a \in {0} \cup Dumps!Unlinked("first_extent") THEN <<>> ELSE UpTo(memory.extents, Dumps!Unlinked("next"))
ExtentLines == [k \in DOMAIN Dumps!ExtentsRead |-> Dumps!ExtentLine(Dumps!ExtentsRead[k])]

ExtentsRight ==
  /\ dump_pc = "extents" => Progress(Dumps!ExtentsRead, ExtentLines, dumped, cursor)
  /\ dump_pc \in {"direct", "buckets", "pages"} => dumped = ExtentLines

BucketsRight ==
  dump_pc # "idle" =>
    /\ buckets \in Seq(BucketLines) /\ InOrder(buckets)
    /\ row \in 0..BucketCount_ /\ \A k \in DOMAIN buckets : buckets[k].index < row

(* The bucket whose pages are being listed is the last one.                  *)
PagesRight ==
  dump_pc = "pages" =>
    /\ row - 1 \in Rows /\ buckets # <<>>
    /\ \E pages \in Opened(row - 1) :
         /\ buckets[Len(buckets)] = BucketLine(row - 1, pages)
         /\ pages = <<>> => cursor = HeadPage(row - 1)
    /\ cursor \in OwnPages(row - 1) \cup {0}

ListingRight ==
  listing = Blank \/ (listing.extents = ExtentLines /\ listing.buckets \in Seq(BucketLines) /\ InOrder(listing.buckets))

DumpsInv == DumpTargetOK /\ ExtentsRight /\ BucketsRight /\ PagesRight /\ ListingRight

(* While the command and the target stay, so does what there is to list.     *)
LEMMA DumpsStay ==
  ASSUME UNCHANGED <<memory, unreadable, allocator>>
  PROVE  /\ Dumps!ExtentsRead' = Dumps!ExtentsRead /\ ExtentLines' = ExtentLines
         /\ BucketLines' = BucketLines
         /\ \A i : HeadPage(i)' = HeadPage(i) /\ OwnPages(i)' = OwnPages(i) /\ Opened(i)' = Opened(i)
         /\ \A i, pages : BucketLine(i, pages)' = BucketLine(i, pages)
         /\ DumpTargetOK /\ UNCHANGED sentinel => DumpTargetOK'
<1>1. ASSUME NEW m PROVE Dumps!Unlinked(m)' = Dumps!Unlinked(m)
  BY DEF Dumps!Unlinked
<1>2. Dumps!ExtentsRead' = Dumps!ExtentsRead
  BY <1>1 DEF Dumps!ExtentsRead
<1>3. \A e : Dumps!ExtentLine(e)' = Dumps!ExtentLine(e)
  BY DEF Dumps!ExtentLine, Dumps!Read
<1>4. ExtentLines' = ExtentLines
  BY <1>2, <1>3 DEF ExtentLines
<1>5. ASSUME NEW i PROVE HeadPage(i)' = HeadPage(i) /\ At(i)' = At(i) /\ Dumps!SlotSize(At(i))' = Dumps!SlotSize(At(i))
  BY DEF HeadPage, At, Dumps!ActiveHead, Dumps!Read, Dumps!SlotSize
<1>6. ASSUME NEW i PROVE OwnPages(i)' = OwnPages(i)
  BY <1>5 DEF OwnPages
<1>7. ASSUME NEW p PROVE Dumps!Unprovisioned(p)' = Dumps!Unprovisioned(p)
  BY DEF Dumps!Unprovisioned, Dumps!IsPage, Dumps!Read
<1>8. ASSUME NEW i PROVE (Dumps!Unprovisioned(HeadPage(i)) > 0)' = (Dumps!Unprovisioned(HeadPage(i)) > 0)
  <2>1. PICK p : p = HeadPage(i)
    OBVIOUS
  <2>. QED BY <1>5, <1>7, <2>1
<1>9. ASSUME NEW i PROVE Opened(i)' = Opened(i)
  BY <1>5, <1>6, <1>8 DEF Opened, PageLines
<1>10. ASSUME NEW i, NEW pages PROVE BucketLine(i, pages)' = BucketLine(i, pages)
  BY <1>5 DEF BucketLine
<1>11. BucketLines' = BucketLines
  BY <1>9, <1>10 DEF BucketLines
<1>. QED BY <1>2, <1>4, <1>5, <1>6, <1>9, <1>10, <1>11 DEF DumpTargetOK

(* The lists of the target are those of Chains.                              *)
LEMMA DumpLists ==
  /\ \A list, x : Dumps!NextIn(list, x) = NextIn(list, x)
  /\ \A list, stops : Dumps!UpTo(list, stops) = UpTo(list, stops)
  /\ \A list : Dumps!Distinct(list) <=> Distinct(list)
<1>1. ASSUME NEW list, NEW x PROVE Dumps!NextIn(list, x) = NextIn(list, x)
  BY Zenon DEF Dumps!NextIn, NextIn
<1>2. ASSUME NEW list, NEW stops PROVE Dumps!UpTo(list, stops) = UpTo(list, stops)
  BY Zenon DEF Dumps!UpTo, UpTo
<1>3. ASSUME NEW list PROVE Dumps!Distinct(list) <=> Distinct(list)
  BY Zenon DEF Dumps!Distinct, Distinct
<1>. QED BY <1>1, <1>2, <1>3

(* A cell cannot be read exactly if its address is among the unlinked.       *)
LEMMA UnlinkedCells ==
  ASSUME DumpsAssumed, DumpTargetOK, NEW member, NEW x
  PROVE  x \in Dumps!Unlinked(member) <=> <<member, x>> \in unreadable
<1>1. \A c \in unreadable : c = <<c[1], c[2]>>
  BY DEF DumpsAssumed, DumpTargetOK, Dumps!CellsAssumption
<1>2. <<member, x>>[1] = member /\ <<member, x>>[2] = x
  OBVIOUS
<1>. QED BY <1>1, <1>2, Zenon DEF Dumps!Unlinked

(* The extents the loop in PartitionRootBase::dump comes to.                 *)
LEMMA ExtentChain ==
  ASSUME DumpsAssumed, DumpTargetOK, NEW a
  PROVE  LET chain == ExtentsFrom(a) IN
         /\ chain \in Seq(Nat \ {0}) /\ Follows(chain, memory.extents, Dumps!Unlinked("next"))
         /\ Dumps!Root(a).first_extent = IF chain = <<>> THEN 0 ELSE chain[1]
<1> DEFINE list == memory.extents
           stops == Dumps!Unlinked("next")
<1>1. list \in Seq(Nat \ {0}) /\ Distinct(list)
  BY DumpLists DEF DumpsAssumed, DumpTargetOK, Dumps!MemoriesAssumption
<1>2. Dumps!Root(a).first_extent =
        IF a \in {0} \cup Dumps!Unlinked("first_extent") THEN 0 ELSE IF list = <<>> THEN 0 ELSE list[1]
  BY UnlinkedCells DEF Dumps!Root, Dumps!Read, Dumps!First
<1>3. CASE a \in {0} \cup Dumps!Unlinked("first_extent")
  <2>1. ExtentsFrom(a) = <<>> /\ DOMAIN <<>> = {} /\ <<>> \in Seq(Nat \ {0})
    BY <1>3 DEF ExtentsFrom
  <2>. QED BY <1>2, <1>3, <2>1 DEF Follows
<1>4. CASE a \notin {0} \cup Dumps!Unlinked("first_extent")
  <2>. HIDE DEF list, stops
  <2>1. /\ UpTo(list, stops) \in Seq(Nat \ {0}) /\ Follows(UpTo(list, stops), list, stops)
        /\ (IF list = <<>> THEN 0 ELSE list[1]) = IF UpTo(list, stops) = <<>> THEN 0 ELSE UpTo(list, stops)[1]
    BY <1>1, WholeChain
  <2>2. ExtentsFrom(a) = UpTo(list, stops)
    BY <1>4 DEF ExtentsFrom, list, stops
  <2>. QED BY <1>2, <1>4, <2>1, <2>2 DEF list, stops
<1>. QED BY <1>3, <1>4

(* The extents a command is to list are those from the root it was given.    *)
LEMMA ExtentsOfCommand == Dumps!ExtentsRead = ExtentsFrom(allocator)
BY DumpLists DEF Dumps!ExtentsRead, ExtentsFrom

(* One line is to be printed of each extent the loop comes to.               *)
LEMMA LinesOfExtents ==
  ASSUME DumpsAssumed, DumpTargetOK
  PROVE  LET chain == Dumps!ExtentsRead IN
         /\ chain \in Seq(Nat \ {0}) /\ Follows(chain, memory.extents, Dumps!Unlinked("next"))
         /\ ExtentLines \in Seq({Dumps!ExtentLine(e) : e \in Nat}) /\ Len(ExtentLines) = Len(chain)
         /\ DOMAIN ExtentLines = DOMAIN chain
         /\ \A k \in DOMAIN chain : ExtentLines[k] = Dumps!ExtentLine(chain[k])
<1>1. Dumps!ExtentsRead \in Seq(Nat \ {0}) /\ Follows(Dumps!ExtentsRead, memory.extents, Dumps!Unlinked("next"))
  BY ExtentsOfCommand, ExtentChain
<1>. QED BY <1>1 DEF ExtentLines

(* What a bucket in the target holds.                                        *)
LEMMA BucketFacts ==
  ASSUME DumpsAssumed, DumpTargetOK, NEW b \in Dumps!Buckets(memory)
  PROVE  /\ memory.active[b] \in Seq(Nat \ {0, Sentinel}) /\ Distinct(memory.active[b])
         /\ \A p \in Dumps!PagesOf(memory, b) : p # Sentinel /\ p # 0
         /\ \A c \in Dumps!Buckets(memory) : Dumps!PagesOf(memory, b) \cap Dumps!PagesOf(memory, c) # {} => b = c
<1>1. memory.active[b] \in Seq(Nat \ {0, Sentinel}) /\ Distinct(memory.active[b])
  BY DumpLists DEF DumpsAssumed, DumpTargetOK, Dumps!MemoriesAssumption
<1>2. \A c \in Dumps!Buckets(memory) : Dumps!PagesOf(memory, b) \cap Dumps!PagesOf(memory, c) # {} => b = c
  BY DEF DumpsAssumed, DumpTargetOK, Dumps!MemoriesAssumption
<1>3. \A p \in Dumps!PagesOf(memory, b) : p # Sentinel /\ p # 0
  BY <1>1 DEF Dumps!PagesOf
<1>. QED BY <1>1, <1>2, <1>3

(* The head of a bucket is one of its pages, the sentinel or null.           *)
LEMMA OwnHead ==
  ASSUME DumpsAssumed, DumpTargetOK, NEW i
  PROVE  HeadPage(i) \in OwnPages(i) \cup {0}
<1>1. CASE At(i) \notin Dumps!Buckets(memory)
  BY <1>1 DEF HeadPage, Dumps!ActiveHead
<1>2. CASE At(i) \in Dumps!Buckets(memory)
  <2>1. HeadPage(i) \in {0, Sentinel} \/ (memory.active[At(i)] # <<>> /\ HeadPage(i) = memory.active[At(i)][1])
    BY <1>2 DEF HeadPage, Dumps!ActiveHead, Dumps!Read
  <2>2. memory.active[At(i)] # <<>> => memory.active[At(i)][1] \in Dumps!PagesOf(memory, At(i))
    BY <1>2, BucketFacts DEF Dumps!PagesOf
  <2>. QED BY <1>2, <2>1, <2>2 DEF OwnPages
<1>. QED BY <1>1, <1>2

(* So is the page after one of them.                                         *)
LEMMA OwnNext ==
  ASSUME DumpsAssumed, DumpTargetOK, NEW i, NEW p \in OwnPages(i)
  PROVE  Dumps!NextPage(p) \in OwnPages(i) \cup {0}
<1>1. CASE p = Sentinel
  <2>1. ~Dumps!IsPage(p)
    BY <1>1, BucketFacts DEF Dumps!IsPage
  <2>. QED BY <2>1 DEF Dumps!NextPage
<1>2. CASE p # Sentinel
  <2> DEFINE b == At(i)
             list == memory.active[b]
  <2>1. b \in Dumps!Buckets(memory) /\ p \in Dumps!PagesOf(memory, b)
    BY <1>2 DEF OwnPages
  <2>2. \A c \in Dumps!Buckets(memory) : p \in Dumps!PagesOf(memory, c) => c = b
    BY <2>1, BucketFacts
  <2>3. Dumps!BucketWith(p) = b
    <3>. HIDE DEF b
    <3>. QED BY <2>1, <2>2 DEF Dumps!BucketWith
  <2>4. list \in Seq(Nat \ {0, Sentinel})
    BY <2>1, BucketFacts
  <2>5. NextIn(list, p) = 0 \/ \E k \in DOMAIN list : NextIn(list, p) = list[k]
    <3>. HIDE DEF list
    <3>. QED BY <2>4, NextStays
  <2>6. Dumps!NextPage(p) \in {0, NextIn(list, p)}
    BY <2>3, DumpLists DEF Dumps!NextPage, Dumps!Read
  <2>7. \A k \in DOMAIN list : list[k] \in Dumps!PagesOf(memory, b)
    BY DEF Dumps!PagesOf
  <2>. QED BY <2>1, <2>5, <2>6, <2>7 DEF OwnPages
<1>. QED BY <1>1, <1>2

(* The string of a row, before and after a page is added to it.              *)
LEMMA RowLine ==
  ASSUME NEW i \in Rows, NEW pages \in {SentinelLine} \cup Opened(i)
  PROVE  BucketLine(i, pages) \in BucketLines
BY DEF BucketLines

(* Every line of a bucket is that of some row.                               *)
LEMMA RowOfLine ==
  ASSUME NEW line \in BucketLines
  PROVE  \E i \in Rows : \E pages \in {SentinelLine} \cup Opened(i) : line = BucketLine(i, pages)
BY DEF BucketLines

(* What a line says of its row and its pages.                                *)
LEMMA PartsOfLine ==
  ASSUME NEW i, NEW pages
  PROVE  BucketLine(i, pages).index = i /\ BucketLine(i, pages).pages = pages
BY DEF BucketLine

(* A row starts with no pages.                                               *)
LEMMA OpenedEmpty == \A i : <<>> \in Opened(i)
BY DEF Opened

(* With a page of its bucket added, the row is still one of its own.         *)
LEMMA OneMorePage ==
  ASSUME NEW i, NEW pages \in Opened(i), NEW p \in OwnPages(i), pages = <<>> => p = HeadPage(i)
  PROVE  Append(pages, Dumps!PageLine(HeadPage(i), p)) \in Opened(i) /\ Append(pages, Dumps!PageLine(HeadPage(i), p)) # <<>>
<1> DEFINE line == Dumps!PageLine(HeadPage(i), p)
<1>1. line = [page |-> p, mark |-> Dumps!Unprovisioned(HeadPage(i)) > 0]
  BY Zenon DEF Dumps!PageLine
<1>2. line \in PageLines(i) /\ line.page = p
  BY <1>1 DEF PageLines
<1>. HIDE DEF line
<1>3. pages \in Seq(PageLines(i)) /\ (pages # <<>> => pages[1].page = HeadPage(i))
  BY DEF Opened
<1>4. /\ Append(pages, line) \in Seq(PageLines(i)) /\ Append(pages, line) # <<>>
      /\ Append(pages, line)[1] = IF pages = <<>> THEN line ELSE pages[1]
  <2>. DEFINE Lines == PageLines(i)
  <2>1. pages \in Seq(Lines) /\ line \in Lines
    BY <1>2, <1>3
  <2>. HIDE DEF Lines
  <2>2. Append(pages, line) \in Seq(Lines)
    BY <2>1
  <2>3. Append(pages, line) # <<>> /\ Append(pages, line)[1] = IF pages = <<>> THEN line ELSE pages[1]
    <3>1. Len(pages) \in Nat /\ (pages = <<>> <=> Len(pages) = 0) /\ Len(Append(pages, line)) = Len(pages) + 1
      BY <2>1
    <3>2. /\ \A k \in 1..Len(pages) : Append(pages, line)[k] = pages[k]
          /\ Append(pages, line)[Len(pages) + 1] = line
      BY <2>1, AppendProperties
    <3>. QED BY <2>2, <3>1, <3>2
  <2>4. Append(pages, line) \in Seq(PageLines(i))
    BY <2>2 DEF Lines
  <2>. QED BY <2>3, <2>4
<1>. QED BY <1>2, <1>3, <1>4 DEF Opened, line

(* The last of a sequence of lines replaced by one of the same row.          *)
LEMMA LastReplaced ==
  ASSUME NEW S, NEW bs \in Seq(S), bs # <<>>, NEW line \in S, line.index = bs[Len(bs)].index, InOrder(bs)
  PROVE  /\ [bs EXCEPT ![Len(bs)] = line] \in Seq(S) /\ [bs EXCEPT ![Len(bs)] = line] # <<>>
         /\ Len([bs EXCEPT ![Len(bs)] = line]) = Len(bs)
         /\ [bs EXCEPT ![Len(bs)] = line][Len(bs)] = line
         /\ \A k \in DOMAIN bs : [bs EXCEPT ![Len(bs)] = line][k].index = bs[k].index
         /\ InOrder([bs EXCEPT ![Len(bs)] = line])
<1> DEFINE new == [bs EXCEPT ![Len(bs)] = line]
<1>1. Len(bs) \in DOMAIN bs /\ DOMAIN new = DOMAIN bs
  OBVIOUS
<1>2. new \in Seq(S) /\ new # <<>> /\ Len(new) = Len(bs) /\ new[Len(bs)] = line
  BY <1>1
<1>3. \A k \in DOMAIN bs : new[k] = IF k = Len(bs) THEN line ELSE bs[k]
  BY <1>1
<1>4. \A k \in DOMAIN bs : new[k].index = bs[k].index
  BY <1>3
<1>5. InOrder(new)
  BY <1>1, <1>4 DEF InOrder
<1>. QED BY <1>2, <1>4, <1>5

(* One more line, of a later row.                                            *)
LEMMA LaterLine ==
  ASSUME NEW S, NEW bs \in Seq(S), InOrder(bs), NEW line \in S, NEW n \in Nat, line.index = n,
         \A k \in DOMAIN bs : bs[k].index < n
  PROVE  /\ Append(bs, line) \in Seq(S) /\ InOrder(Append(bs, line)) /\ Append(bs, line) # <<>>
         /\ Append(bs, line)[Len(Append(bs, line))] = line
         /\ \A k \in DOMAIN Append(bs, line) :
              (k \in DOMAIN bs /\ Append(bs, line)[k] = bs[k]) \/ Append(bs, line)[k] = line
<1> DEFINE new == Append(bs, line)
<1>1. new \in Seq(S) /\ Len(new) = Len(bs) + 1 /\ new[Len(new)] = line /\ new # <<>>
  OBVIOUS
<1>2. \A k \in DOMAIN new : IF k = Len(new) THEN new[k] = line ELSE k \in DOMAIN bs /\ new[k] = bs[k]
  OBVIOUS
<1>3. InOrder(new)
  <2>. HIDE DEF new
  <2>1. SUFFICES ASSUME NEW k \in DOMAIN new, NEW l \in DOMAIN new, k < l PROVE new[k].index < new[l].index
    BY DEF InOrder
  <2>2. k \in DOMAIN bs /\ new[k] = bs[k]
    BY <1>1, <1>2, <2>1
  <2>. QED BY <1>1, <1>2, <2>1, <2>2 DEF InOrder
<1>. QED BY <1>1, <1>2, <1>3

(* A command begins.                                                         *)
LEMMA DumpBegins ==
  ASSUME DumpsAssumed, DumpsInv, NEW a \in {0, memory.allocator}, NEW b, Dumps!Command(a, b)
  PROVE  DumpsInv'
<1>1. /\ dump_pc' = "extents" /\ allocator' = a /\ cursor' = Dumps!Root(a).first_extent /\ row' = 0
      /\ dumped' = <<>> /\ buckets' = <<>> /\ listing' = Blank /\ UNCHANGED <<memory, unreadable, sentinel>>
  BY DEF Dumps!Command, Dumps!target
<1>2. DumpTargetOK /\ DumpTargetOK'
  BY <1>1 DEF DumpsInv, DumpTargetOK
<1>3. ExtentsRight'
  <2> DEFINE chain == ExtentsFrom(a)
  <2>1. Dumps!ExtentsRead' = chain
    <3>1. \A m : Dumps!Unlinked(m)' = Dumps!Unlinked(m)
      BY <1>1 DEF Dumps!Unlinked
    <3>. QED BY <1>1, <3>1, DumpLists DEF Dumps!ExtentsRead, ExtentsFrom
  <2>2. PICK lines : lines = ExtentLines'
    OBVIOUS
  <2>3. chain \in Seq(Nat \ {0}) /\ cursor' = IF chain = <<>> THEN 0 ELSE chain[1]
    BY <1>1, <1>2, ExtentChain
  <2>. HIDE DEF chain
  <2>4. Progress(chain, lines, <<>>, cursor')
    BY <2>3, ProgressStarts
  <2>5. Progress(Dumps!ExtentsRead, ExtentLines, dumped, cursor)'
    BY <1>1, <2>1, <2>2, <2>4 DEF Progress
  <2>. QED BY <1>1, <2>5 DEF ExtentsRight
<1>4. BucketsRight'
  <2>1. <<>> \in Seq(BucketLines') /\ DOMAIN <<>> = {} /\ 0 \in 0..BucketCount_
    BY DEF DumpsAssumed, Dumps!CountsAssumption
  <2>. QED BY <1>1, <2>1 DEF BucketsRight, InOrder
<1>5. PagesRight' /\ ListingRight'
  BY <1>1 DEF PagesRight, ListingRight
<1>. QED BY <1>2, <1>3, <1>4, <1>5 DEF DumpsInv

(* The chain of extents: one more, and the end.                              *)
LEMMA DumpExtents ==
  ASSUME DumpsAssumed, DumpsInv, Dumps!DumpExtent \/ Dumps!ExtentsDone
  PROVE  DumpsInv'
<1>1. /\ UNCHANGED <<memory, unreadable, sentinel, allocator, row, buckets, listing>> /\ dump_pc = "extents"
      /\ dump_pc' \in {"extents", "direct"}
  BY DEF Dumps!DumpExtent, Dumps!ExtentsDone, Dumps!target, Dumps!asked, Dumps!output
<1>2. DumpTargetOK /\ DumpTargetOK' /\ Dumps!ExtentsRead' = Dumps!ExtentsRead /\ ExtentLines' = ExtentLines
      /\ BucketLines' = BucketLines
  BY <1>1, DumpsStay DEF DumpsInv
<1> DEFINE chain == Dumps!ExtentsRead
           lines == ExtentLines
           stops == Dumps!Unlinked("next")
           list == memory.extents
<1>3. /\ chain \in Seq(Nat \ {0}) /\ Follows(chain, list, stops)
      /\ lines \in Seq({Dumps!ExtentLine(e) : e \in Nat}) /\ Len(lines) = Len(chain)
      /\ \A k \in DOMAIN chain : lines[k] = Dumps!ExtentLine(chain[k])
  BY <1>2, LinesOfExtents
<1>4. Progress(chain, lines, dumped, cursor)
  BY <1>1 DEF DumpsInv, ExtentsRight
<1>5. ASSUME Dumps!DumpExtent PROVE ExtentsRight'
  <2>1. /\ cursor # 0 /\ dumped' = Append(dumped, Dumps!ExtentLine(cursor)) /\ cursor' = Dumps!NextExtent(cursor)
        /\ dump_pc' = "extents"
    BY <1>1, <1>5 DEF Dumps!DumpExtent
  <2>2. PICK k \in DOMAIN chain :
          /\ cursor = chain[k]
          /\ Progress(chain, lines, Append(dumped, lines[k]), IF cursor \in stops THEN 0 ELSE NextIn(list, cursor))
    <3>. HIDE DEF chain, lines, list, stops
    <3>. QED BY <1>3, <1>4, <2>1, ProgressGoesOn
  <2>3. dumped' = Append(dumped, lines[k])
    BY <1>3, <2>1, <2>2
  <2>4. cursor' = IF cursor \in stops THEN 0 ELSE NextIn(list, cursor)
    BY <1>2, <2>1, UnlinkedCells, DumpLists DEF Dumps!NextExtent, Dumps!Read
  <2>5. Progress(Dumps!ExtentsRead, ExtentLines, dumped, cursor)'
    BY <1>2, <2>2, <2>3, <2>4 DEF Progress
  <2>. QED BY <2>1, <2>5 DEF ExtentsRight
<1>6. ASSUME Dumps!ExtentsDone PROVE ExtentsRight'
  <2>1. cursor = 0 /\ dump_pc' = "direct" /\ dumped' = dumped
    BY <1>6 DEF Dumps!ExtentsDone, Dumps!output
  <2>2. dumped = lines
    <3>1. \A k \in DOMAIN chain : chain[k] # 0
      BY <1>3
    <3>2. /\ chain \in Seq(Nat \ {0}) /\ lines \in Seq({Dumps!ExtentLine(e) : e \in Nat}) /\ Len(lines) = Len(chain)
          /\ Progress(chain, lines, dumped, 0)
      BY <1>3, <1>4, <2>1
    <3>. HIDE DEF chain, lines
    <3>. QED BY <3>1, <3>2, ProgressEnds
  <2>. QED BY <1>2, <2>1, <2>2 DEF ExtentsRight
<1>7. BucketsRight' /\ PagesRight' /\ ListingRight'
  BY <1>1, <1>2 DEF DumpsInv, BucketsRight, PagesRight, ListingRight, InOrder
<1>. QED BY <1>2, <1>5, <1>6, <1>7 DEF DumpsInv

(* The chain of direct mapped extents, and the end of a command.             *)
LEMMA DumpDirects ==
  ASSUME DumpsAssumed, DumpsInv, Dumps!DumpDirect \/ Dumps!DirectsDone \/ Dumps!PagesDone \/ Dumps!ShowListing
  PROVE  DumpsInv'
<1>1. /\ UNCHANGED <<memory, unreadable, sentinel, allocator, row, dumped, buckets>>
      /\ dump_pc \in {"direct", "buckets", "pages"} /\ dump_pc' \in {"idle", "direct", "buckets"}
      /\ \/ listing' = listing
         \/ listing' = [extents |-> dumped, directs |-> directs, buckets |-> buckets]
  BY DEF Dumps!DumpDirect, Dumps!DirectsDone, Dumps!PagesDone, Dumps!ShowListing, Dumps!target, Dumps!asked, Dumps!output
<1>2. DumpTargetOK' /\ Dumps!ExtentsRead' = Dumps!ExtentsRead /\ ExtentLines' = ExtentLines
      /\ BucketLines' = BucketLines
  BY <1>1, DumpsStay DEF DumpsInv
<1>3. ExtentsRight' /\ PagesRight'
  BY <1>1, <1>2 DEF DumpsInv, ExtentsRight, PagesRight
<1>4. BucketsRight'
  BY <1>1, <1>2 DEF DumpsInv, BucketsRight, InOrder
<1>5. ListingRight'
  <2>1. CASE listing' = listing
    BY <1>2, <2>1 DEF DumpsInv, ListingRight, InOrder
  <2>2. CASE listing' = [extents |-> dumped, directs |-> directs, buckets |-> buckets]
    <3>1. dumped = ExtentLines /\ buckets \in Seq(BucketLines) /\ InOrder(buckets)
      BY <1>1 DEF DumpsInv, ExtentsRight, BucketsRight
    <3>2. listing'.extents = dumped /\ listing'.buckets = buckets
      BY <2>2
    <3>. QED BY <1>2, <3>1, <3>2 DEF ListingRight, InOrder
  <2>. QED BY <1>1, <2>1, <2>2
<1>. QED BY <1>2, <1>3, <1>4, <1>5 DEF DumpsInv

(* A turn of the loop in dump_buckets.                                       *)
LEMMA DumpRow ==
  ASSUME DumpsAssumed, DumpsInv, Dumps!DumpBucket
  PROVE  DumpsInv'
<1>1. /\ UNCHANGED <<memory, unreadable, sentinel, allocator, dumped, listing>>
      /\ dump_pc = "buckets" /\ dump_pc' \in {"buckets", "pages"} /\ row < BucketCount_ /\ row' = row + 1
  BY DEF Dumps!DumpBucket, Dumps!target, Dumps!asked
<1>2. /\ DumpTargetOK /\ DumpTargetOK' /\ ExtentLines' = ExtentLines /\ BucketLines' = BucketLines
      /\ \A i : HeadPage(i)' = HeadPage(i) /\ OwnPages(i)' = OwnPages(i) /\ Opened(i)' = Opened(i)
      /\ \A i, pages : BucketLine(i, pages)' = BucketLine(i, pages)
  BY <1>1, DumpsStay DEF DumpsInv
<1>3. /\ buckets \in Seq(BucketLines) /\ InOrder(buckets)
      /\ row \in Rows /\ row \in Nat /\ row + 1 \in 0..BucketCount_ /\ \A k \in DOMAIN buckets : buckets[k].index < row
  <2>1. BucketCount_ \in Nat
    BY DEF DumpsAssumed, Dumps!CountsAssumption
  <2>2. row \in 0..BucketCount_
    BY <1>1 DEF DumpsInv, BucketsRight
  <2>. QED BY <1>1, <2>1, <2>2 DEF DumpsInv, BucketsRight, Rows
<1>4. ExtentsRight' /\ ListingRight'
  BY <1>1, <1>2 DEF DumpsInv, ExtentsRight, ListingRight, InOrder
<1>5. CASE ~Dumps!IsValid(At(row))
  <2>1. UNCHANGED <<dump_pc, buckets>>
    BY <1>5 DEF Dumps!DumpBucket, At
  <2>2. \A k \in DOMAIN buckets : buckets[k].index < row + 1
    <3>1. \A k \in DOMAIN buckets : buckets[k].index \in Nat
      BY <1>3, RowOfLine, PartsOfLine DEF Rows
    <3>. QED BY <1>3, <3>1
  <2>3. BucketsRight'
    BY <1>1, <1>2, <1>3, <2>1, <2>2 DEF BucketsRight, InOrder
  <2>. QED BY <1>1, <1>2, <1>4, <2>1, <2>3 DEF DumpsInv, PagesRight
<1>6. CASE Dumps!IsValid(At(row))
  <2> DEFINE pages == IF HeadPage(row) = sentinel THEN SentinelLine ELSE <<>>
             line == BucketLine(row, pages)
             new == Append(buckets, line)
  <2>1. /\ buckets' = new
        /\ dump_pc' = "pages" => pages = <<>> /\ cursor' = HeadPage(row)
    BY <1>1, <1>6 DEF Dumps!DumpBucket, At, HeadPage, BucketLine
  <2>2. line \in BucketLines /\ line.index = row
    BY <1>3, RowLine, OpenedEmpty, PartsOfLine
  <2>. HIDE DEF line
  <2>3. /\ new \in Seq(BucketLines) /\ InOrder(new) /\ new # <<>> /\ new[Len(new)] = line
        /\ \A k \in DOMAIN new : (k \in DOMAIN buckets /\ new[k] = buckets[k]) \/ new[k] = line
    BY <1>3, <2>2, LaterLine
  <2>. HIDE DEF new
  <2>4. \A k \in DOMAIN new : new[k].index < row + 1
    <3>1. \A k \in DOMAIN buckets : buckets[k].index \in Nat
      BY <1>3, RowOfLine, PartsOfLine DEF Rows
    <3>2. ASSUME NEW k \in DOMAIN new PROVE new[k].index < row + 1
      <4>1. CASE k \in DOMAIN buckets /\ new[k] = buckets[k]
        BY <1>3, <3>1, <4>1
      <4>2. CASE new[k] = line
        BY <1>3, <2>2, <4>2
      <4>. QED BY <2>3, <4>1, <4>2
    <3>. QED BY <3>2
  <2>5. BucketsRight'
    BY <1>1, <1>2, <1>3, <2>1, <2>3, <2>4 DEF BucketsRight, InOrder
  <2>6. PagesRight'
    <3>. SUFFICES ASSUME dump_pc' = "pages" PROVE PagesRight'
      BY DEF PagesRight
    <3>1. row' - 1 = row
      BY <1>1, <1>3
    <3>2. <<>> \in Opened(row) /\ buckets'[Len(buckets')] = BucketLine(row, <<>>) /\ cursor' = HeadPage(row)
      BY <2>1, <2>3, OpenedEmpty DEF line
    <3>3. cursor' \in OwnPages(row) \cup {0}
      BY <1>2, <3>2, OwnHead
    <3>4. PICK n : n = row
      OBVIOUS
    <3>5. /\ row' - 1 = n /\ n \in Rows /\ buckets' # <<>> /\ <<>> \in Opened(n)'
          /\ buckets'[Len(buckets')] = BucketLine(n, <<>>)' /\ cursor' = HeadPage(n)' /\ cursor' \in OwnPages(n)' \cup {0}
      BY <1>2, <1>3, <2>1, <2>3, <3>1, <3>2, <3>3, <3>4
    <3>. QED BY <3>5 DEF PagesRight
  <2>. QED BY <1>2, <1>4, <2>5, <2>6 DEF DumpsInv
<1>. QED BY <1>5, <1>6

(* A turn of the loop in PartitionPage::dump_pages.                          *)
LEMMA DumpRowPage ==
  ASSUME DumpsAssumed, DumpsInv, Dumps!DumpPage
  PROVE  DumpsInv'
<1> DEFINE i == row - 1
<1>1. /\ UNCHANGED <<memory, unreadable, sentinel, allocator, row, dumped, listing>>
      /\ dump_pc = "pages" /\ dump_pc' = "pages" /\ cursor # 0 /\ cursor' = Dumps!NextPage(cursor)
      /\ buckets' = [buckets EXCEPT ![Len(buckets)].pages = Append(@, Dumps!PageLine(HeadPage(i), cursor))]
  BY DEF Dumps!DumpPage, Dumps!target, Dumps!asked, HeadPage, At
<1>2. /\ DumpTargetOK /\ DumpTargetOK' /\ ExtentLines' = ExtentLines /\ BucketLines' = BucketLines
      /\ \A n : HeadPage(n)' = HeadPage(n) /\ OwnPages(n)' = OwnPages(n) /\ Opened(n)' = Opened(n)
      /\ \A n, pages : BucketLine(n, pages)' = BucketLine(n, pages)
  BY <1>1, DumpsStay DEF DumpsInv
<1>3. /\ buckets \in Seq(BucketLines) /\ InOrder(buckets) /\ buckets # <<>>
      /\ \A k \in DOMAIN buckets : buckets[k].index < row
      /\ i \in Rows /\ cursor \in OwnPages(i)
  BY <1>1 DEF DumpsInv, BucketsRight, PagesRight
<1>4. PICK pages \in Opened(i) : buckets[Len(buckets)] = BucketLine(i, pages) /\ (pages = <<>> => cursor = HeadPage(i))
  BY <1>1 DEF DumpsInv, PagesRight
<1>. HIDE DEF i
<1> DEFINE more == Append(pages, Dumps!PageLine(HeadPage(i), cursor))
           line == BucketLine(i, more)
           new == [buckets EXCEPT ![Len(buckets)] = line]
<1>5. more \in Opened(i) /\ more # <<>>
  BY <1>3, <1>4, OneMorePage
<1>6. buckets' = new
  <2>1. Len(buckets) \in DOMAIN buckets
    BY <1>3
  <2>2. buckets[Len(buckets)].pages = pages
    BY <1>4, PartsOfLine
  <2>3. [buckets[Len(buckets)] EXCEPT !.pages = more] = line
    BY <1>4 DEF BucketLine
  <2>4. buckets' = [buckets EXCEPT ![Len(buckets)] = [buckets[Len(buckets)] EXCEPT !.pages = more]]
    BY <1>1, <2>1, <2>2
  <2>. QED BY <2>3, <2>4
<1>7. line \in BucketLines /\ line.index = i /\ buckets[Len(buckets)].index = i
  BY <1>3, <1>4, <1>5, RowLine, PartsOfLine
<1>. HIDE DEF more, line
<1>8. /\ new \in Seq(BucketLines) /\ new # <<>> /\ Len(new) = Len(buckets) /\ new[Len(buckets)] = line
      /\ \A k \in DOMAIN buckets : new[k].index = buckets[k].index
      /\ InOrder(new) /\ DOMAIN new = DOMAIN buckets
  <2>1. DOMAIN new = DOMAIN buckets
    OBVIOUS
  <2>. HIDE DEF new
  <2>. QED BY <1>3, <1>7, <2>1, LastReplaced DEF new
<1>. HIDE DEF new
<1>9. BucketsRight'
  BY <1>1, <1>2, <1>3, <1>6, <1>8 DEF DumpsInv, BucketsRight, InOrder
<1>10. PagesRight'
  <2>1. PICK n : n = i
    OBVIOUS
  <2>2. PICK shown : shown = more
    OBVIOUS
  <2>3. row' - 1 = n
    BY <1>1, <2>1 DEF i
  <2>4. cursor' \in OwnPages(n)' \cup {0}
    BY <1>1, <1>2, <1>3, <2>1, OwnNext
  <2>5. buckets'[Len(buckets')] = BucketLine(n, shown)' /\ shown \in Opened(n)' /\ shown # <<>> /\ n \in Rows /\ buckets' # <<>>
    BY <1>2, <1>3, <1>5, <1>6, <1>8, <2>1, <2>2 DEF line
  <2>. QED BY <2>3, <2>4, <2>5 DEF PagesRight
<1>11. ExtentsRight' /\ ListingRight'
  BY <1>1, <1>2 DEF DumpsInv, ExtentsRight, ListingRight, InOrder
<1>. QED BY <1>2, <1>9, <1>10, <1>11 DEF DumpsInv

(* An allocator command shows the extents it came to, and in each row pages  *)
(* of that bucket only, the first of them the head of its list.              *)
THEOREM DumpsInvariant == ASSUME DumpsAssumed PROVE Dumps!Spec => []DumpsInv
<1>1. Dumps!Init => DumpsInv
  BY DEF Dumps!Init, DumpsInv, DumpTargetOK, ExtentsRight, BucketsRight, PagesRight, ListingRight
<1>2. DumpsInv /\ [Dumps!Next]_(Dumps!vars) => DumpsInv'
  <2>. SUFFICES ASSUME DumpsInv, [Dumps!Next]_(Dumps!vars) PROVE DumpsInv'
    OBVIOUS
  <2>1. CASE UNCHANGED Dumps!vars
    <3>1. UNCHANGED <<memory, unreadable, sentinel, allocator, dump_pc, cursor, row, dumped, buckets, listing>>
      BY <2>1 DEF Dumps!vars, Dumps!target, Dumps!asked, Dumps!output
    <3>2. /\ DumpTargetOK' /\ Dumps!ExtentsRead' = Dumps!ExtentsRead /\ ExtentLines' = ExtentLines
          /\ BucketLines' = BucketLines
          /\ \A i : HeadPage(i)' = HeadPage(i) /\ OwnPages(i)' = OwnPages(i) /\ Opened(i)' = Opened(i)
          /\ \A i, pages : BucketLine(i, pages)' = BucketLine(i, pages)
      BY <3>1, DumpsStay DEF DumpsInv
    <3>3. ExtentsRight' /\ ListingRight'
      BY <3>1, <3>2 DEF DumpsInv, ExtentsRight, ListingRight, Progress, InOrder
    <3>4. BucketsRight'
      BY <3>1, <3>2 DEF DumpsInv, BucketsRight, InOrder
    <3>5. PagesRight'
      <4>. SUFFICES ASSUME dump_pc' = "pages" PROVE PagesRight'
        BY DEF PagesRight
      <4>1. PICK n : n = row - 1
        OBVIOUS
      <4>2. PICK pages \in Opened(n) : buckets[Len(buckets)] = BucketLine(n, pages) /\ (pages = <<>> => cursor = HeadPage(n))
        BY <3>1, <4>1 DEF DumpsInv, PagesRight
      <4>3. n \in Rows /\ buckets # <<>> /\ cursor \in OwnPages(n) \cup {0}
        BY <3>1, <4>1 DEF DumpsInv, PagesRight
      <4>4. /\ row' - 1 = n /\ pages \in Opened(n)' /\ buckets'[Len(buckets')] = BucketLine(n, pages)'
            /\ (pages = <<>> => cursor' = HeadPage(n)') /\ buckets' # <<>> /\ cursor' \in OwnPages(n)' \cup {0}
        BY <3>1, <3>2, <4>1, <4>2, <4>3
      <4>. QED BY <4>3, <4>4 DEF PagesRight
    <3>. QED BY <3>2, <3>3, <3>4, <3>5 DEF DumpsInv
  <2>2. CASE \E a \in {0, memory.allocator}, b \in BOOLEAN : Dumps!Command(a, b)
    BY <2>2, DumpBegins
  <2>3. CASE Dumps!Run
    BY <2>3, DumpExtents, DumpDirects, DumpRow, DumpRowPage DEF Dumps!Run
  <2>. QED BY <2>1, <2>2, <2>3 DEF Dumps!Next
<1>. QED BY <1>1, <1>2, PTL DEF Dumps!Spec

(* Rows of a bucket array are apart.                                         *)
LEMMA RowsApart ==
  ASSUME DumpsAssumed, DumpTargetOK, NEW i \in Rows, NEW j \in Rows, At(i) = At(j)
  PROVE  i = j
<1>1. BucketSize_ \in Int /\ BucketSize_ > 0 /\ i \in Int /\ j \in Int
  BY DEF DumpsAssumed, Dumps!CountsAssumption, Rows
<1>2. allocator \in Int /\ memory.buckets \in Int
  BY DEF DumpsAssumed, DumpTargetOK, Dumps!MemoriesAssumption
<1>3. PICK a \in Int, b \in Int : a = i * BucketSize_ /\ b = j * BucketSize_
  BY <1>1
<1>4. a = b
  BY <1>2, <1>3 DEF At, Dumps!BucketAt
<1>. QED BY <1>1, <1>3, <1>4, Z3

(* What a row shows are pages of its bucket, an allocator's own.             *)
LEMMA ShownPages ==
  ASSUME DumpsAssumed, DumpTargetOK, listing.buckets \in Seq(BucketLines), NEW k \in DOMAIN listing.buckets
  PROVE  LET i == listing.buckets[k].index IN
         /\ i \in Rows
         /\ \A p \in Dumps!PagesShown(k) : At(i) \in Dumps!Buckets(memory) /\ p \in Dumps!PagesOf(memory, At(i))
<1> DEFINE line == listing.buckets[k]
<1>1. line \in BucketLines
  OBVIOUS
<1>2. PICK i \in Rows : \E pages \in {SentinelLine} \cup Opened(i) : line = BucketLine(i, pages)
  BY <1>1, RowOfLine
<1>. PICK pages \in {SentinelLine} \cup Opened(i) : line = BucketLine(i, pages)
  BY <1>2
<1>3. line.index = i /\ line.pages = pages
  BY PartsOfLine
<1>4. ASSUME NEW p \in Dumps!PagesShown(k) PROVE p \in OwnPages(i) /\ p # Sentinel
  <2>1. pages # SentinelLine
    BY <1>3, <1>4 DEF Dumps!PagesShown
  <2>2. pages \in Seq(PageLines(i))
    BY <2>1 DEF Opened
  <2>3. PICK n \in DOMAIN pages : p = pages[n].page
    BY <1>3, <1>4, <2>1 DEF Dumps!PagesShown
  <2>4. pages[n] \in PageLines(i)
    BY <2>2
  <2>5. p \in OwnPages(i)
    BY <2>3, <2>4 DEF PageLines
  <2>. QED BY <1>4, <2>1, <2>5 DEF Dumps!PagesShown
<1>. QED BY <1>3, <1>4 DEF OwnPages

(* No bucket is where one of a null allocator would be.                      *)
LEMMA NoNullBucket ==
  ASSUME DumpsAssumed, DumpTargetOK, NEW i \in Rows, At(i) \in Dumps!Buckets(memory)
  PROVE  allocator = memory.allocator /\ allocator # 0
<1>1. /\ Dumps!Buckets(memory) \subseteq DOMAIN memory.slot_size
      /\ \A n \in 0..(BucketCount_ - 1) : Dumps!BucketAt(0, memory, n) \notin DOMAIN memory.slot_size
      /\ memory.allocator \in Nat \ {0}
  BY DEF DumpsAssumed, DumpTargetOK, Dumps!MemoriesAssumption
<1>. QED BY <1>1 DEF DumpTargetOK, At, Rows

(* The number of super pages of an extent, for every width of the integers,  *)
(* and the super page of an address in it.                                   *)
LEMMA ExtentGeometry ==
  ASSUME DumpsAssumed, DumpTargetOK, NEW n \in DOMAIN memory.extents
  PROVE  LET from == memory.base[memory.extents[n]]
             to == memory.end[memory.extents[n]]
         IN  /\ to = from + Dumps!NumPages(from, to) * Dumps!kSuperPageSize
             /\ \A p \in Nat : from < p /\ p < to =>
                  Dumps!SuperPageOf(p) \in from..(to - Dumps!kSuperPageSize)
<1> DEFINE from == memory.base[memory.extents[n]]
           to == memory.end[memory.extents[n]]
<1>1. /\ from \in Nat \ {0} /\ to \in Nat /\ from < to /\ to <= SizeT
      /\ from % 2097152 = 0 /\ to % 2097152 = 0 /\ (to - from) \div 2097152 < UInt32
  BY DEF DumpsAssumed, DumpTargetOK, Dumps!MemoriesAssumption, Dumps!kSuperPageSize
<1>2. SizeT \in Nat /\ Word \in Nat /\ SizeT <= Word /\ UInt32 \in Nat
  BY DEF DumpsAssumed, Dumps!CountsAssumption, Dumps!WordsAssumption
<1>. HIDE DEF from, to
<1>3. PICK a \in Nat, b \in Nat : from = a * 2097152 /\ to = b * 2097152
  <2>1. /\ from \div 2097152 \in Nat /\ from = (from \div 2097152) * 2097152
        /\ to \div 2097152 \in Nat /\ to = (to \div 2097152) * 2097152
    BY <1>1, SMT
  <2>. QED BY <2>1
<1>4. a < b
  BY <1>1, <1>3, SMT
<1>5. Dumps!NumPages(from, to) = b - a
  <2>1. (to - from) % Word = to - from
    BY <1>1, <1>2, SMT
  <2>2. (to - from) \div 2097152 = b - a
    BY <1>3, SMT
  <2>3. (b - a) % UInt32 = b - a
    BY <1>1, <1>2, <1>4, <2>2, SMT
  <2>. QED BY <2>1, <2>2, <2>3 DEF Dumps!NumPages, Dumps!kSuperPageSize
<1>6. to = from + (b - a) * 2097152
  BY <1>3, SMT
<1>7. ASSUME NEW p \in Nat, from < p, p < to
      PROVE  Dumps!SuperPageOf(p) \in from..(to - 2097152)
  <2>1. p % SizeT = p
    BY <1>1, <1>2, <1>7, SMT
  <2>2. p - (p % 2097152) \in from..(to - 2097152)
    BY <1>3, <1>7, SMT
  <2>. QED BY <2>1, <2>2 DEF Dumps!SuperPageOf, Dumps!kSuperPageSize
<1>. QED BY <1>5, <1>6, <1>7 DEF from, to, Dumps!kSuperPageSize

(* A listing without cells that cannot be read, of the chain of extents: all *)
(* of them, as they are in memory.                                           *)
LEMMA AllExtents ==
  ASSUME DumpsAssumed, DumpTargetOK, allocator # 0,
         {"first_extent", "next"} \cap {c[1] : c \in unreadable} = {}
  PROVE  Dumps!ExtentsRead = memory.extents
<1>1. Dumps!Unlinked("first_extent") = {} /\ Dumps!Unlinked("next") = {}
  BY DEF Dumps!Unlinked
<1>2. {i \in DOMAIN memory.extents : memory.extents[i] \in {}} = {}
  OBVIOUS
<1>3. UpTo(memory.extents, {}) = memory.extents
  BY <1>2, Zenon DEF UpTo
<1>. QED BY <1>1, <1>3, ExtentsOfCommand DEF ExtentsFrom

(* Where both bounds could be read, the line of an extent shows them.        *)
LEMMA ExtentAsItIs ==
  ASSUME NEW e, {"super_page_base", "super_pages_end"} \cap {c[1] : c \in unreadable} = {}
  PROVE  Dumps!ExtentLine(e) = [from |-> memory.base[e], to |-> memory.end[e],
                                pages |-> Dumps!NumPages(memory.base[e], memory.end[e])]
<1>1. <<"super_page_base", e>> \notin unreadable /\ <<"super_pages_end", e>> \notin unreadable
  <2>1. <<"super_page_base", e>>[1] = "super_page_base" /\ <<"super_pages_end", e>>[1] = "super_pages_end"
    OBVIOUS
  <2>. QED BY <2>1
<1>. QED BY <1>1 DEF Dumps!ExtentLine, Dumps!Read

(* Where the extents could be read, every page shown lies in one of them, of *)
(* the right length.                                                         *)
LEMMA ExtentsHoldPages == ASSUME DumpsAssumed, DumpsInv PROVE Dumps!PagesInExtents
<1>. DumpTargetOK
  BY DEF DumpsInv
<1>. SUFFICES ASSUME listing # Blank
     PROVE  /\ \A i, j \in DOMAIN listing.buckets :
                 Dumps!PagesShown(i) \cap Dumps!PagesShown(j) # {} => i = j
            /\ {"first_extent", "next", "super_page_base", "super_pages_end"} \cap {c[1] : c \in unreadable} = {} =>
                 /\ \A k \in DOMAIN listing.extents :
                      listing.extents[k].to = listing.extents[k].from + listing.extents[k].pages * Dumps!kSuperPageSize
                 /\ \A i \in DOMAIN listing.buckets : \A p \in Dumps!PagesShown(i) : \E k \in DOMAIN listing.extents :
                      Dumps!SuperPageOf(p) \in listing.extents[k].from..(listing.extents[k].to - Dumps!kSuperPageSize)
  BY DEF Dumps!PagesInExtents
<1>1. listing.extents = ExtentLines /\ listing.buckets \in Seq(BucketLines) /\ InOrder(listing.buckets)
  BY DEF DumpsInv, ListingRight
<1>2. ASSUME NEW i \in DOMAIN listing.buckets, NEW j \in DOMAIN listing.buckets,
             Dumps!PagesShown(i) \cap Dumps!PagesShown(j) # {}
      PROVE  i = j
  <2> DEFINE a == listing.buckets[i].index
             b == listing.buckets[j].index
  <2>1. PICK p : p \in Dumps!PagesShown(i) /\ p \in Dumps!PagesShown(j)
    BY <1>2
  <2>2. /\ a \in Rows /\ At(a) \in Dumps!Buckets(memory) /\ p \in Dumps!PagesOf(memory, At(a))
        /\ b \in Rows /\ At(b) \in Dumps!Buckets(memory) /\ p \in Dumps!PagesOf(memory, At(b))
    BY <1>1, <2>1, ShownPages
  <2>. HIDE DEF a, b
  <2>3. At(a) = At(b)
    BY <2>2, BucketFacts
  <2>4. a = b
    BY <2>2, <2>3, RowsApart
  <2>5. i \in Nat /\ j \in Nat /\ a \in Nat
    BY <1>1, <2>2 DEF Rows
  <2>6. ~(i < j) /\ ~(j < i)
    BY <1>1, <2>4, <2>5 DEF InOrder, a, b
  <2>. QED BY <2>5, <2>6
<1>3. ASSUME {"first_extent", "next", "super_page_base", "super_pages_end"} \cap {c[1] : c \in unreadable} = {},
             allocator # 0
      PROVE  /\ DOMAIN listing.extents = DOMAIN memory.extents
             /\ \A k \in DOMAIN memory.extents :
                  LET from == memory.base[memory.extents[k]]
                      to == memory.end[memory.extents[k]]
                  IN  /\ listing.extents[k].from = from /\ listing.extents[k].to = to
                      /\ listing.extents[k].pages = Dumps!NumPages(from, to)
  <2>1. /\ {"first_extent", "next"} \cap {c[1] : c \in unreadable} = {}
        /\ {"super_page_base", "super_pages_end"} \cap {c[1] : c \in unreadable} = {}
    BY <1>3
  <2>2. Dumps!ExtentsRead = memory.extents
    BY <1>3, <2>1, AllExtents
  <2>3. DOMAIN ExtentLines = DOMAIN memory.extents
        /\ \A k \in DOMAIN memory.extents : ExtentLines[k] = Dumps!ExtentLine(memory.extents[k])
    BY <2>2, LinesOfExtents
  <2>4. ASSUME NEW k \in DOMAIN memory.extents
        PROVE  LET from == memory.base[memory.extents[k]]
                   to == memory.end[memory.extents[k]]
               IN  /\ listing.extents[k].from = from /\ listing.extents[k].to = to
                   /\ listing.extents[k].pages = Dumps!NumPages(from, to)
    BY <1>1, <2>1, <2>3, ExtentAsItIs
  <2>. QED BY <1>1, <2>3, <2>4
<1>4. ASSUME {"first_extent", "next", "super_page_base", "super_pages_end"} \cap {c[1] : c \in unreadable} = {},
             NEW k \in DOMAIN listing.extents
      PROVE  listing.extents[k].to = listing.extents[k].from + listing.extents[k].pages * Dumps!kSuperPageSize
  <2>1. allocator # 0
    <3>. SUFFICES ASSUME allocator = 0 PROVE FALSE
      OBVIOUS
    <3>1. Dumps!ExtentsRead = <<>>
      BY DEF Dumps!ExtentsRead
    <3>2. DOMAIN listing.extents = {}
      BY <1>1, <3>1 DEF ExtentLines
    <3>. QED BY <1>4, <3>2
  <2>2. k \in DOMAIN memory.extents
    BY <1>3, <1>4, <2>1
  <2>. QED BY <1>3, <1>4, <2>1, <2>2, ExtentGeometry
<1>5. ASSUME {"first_extent", "next", "super_page_base", "super_pages_end"} \cap {c[1] : c \in unreadable} = {},
             NEW i \in DOMAIN listing.buckets, NEW p \in Dumps!PagesShown(i)
      PROVE  \E k \in DOMAIN listing.extents :
               Dumps!SuperPageOf(p) \in listing.extents[k].from..(listing.extents[k].to - Dumps!kSuperPageSize)
  <2> DEFINE row_ == listing.buckets[i].index
  <2>1. row_ \in Rows /\ At(row_) \in Dumps!Buckets(memory) /\ p \in Dumps!PagesOf(memory, At(row_))
    BY <1>1, <1>5, ShownPages
  <2>. HIDE DEF row_
  <2>2. allocator # 0
    BY <2>1, NoNullBucket
  <2>3. PICK k \in DOMAIN memory.extents :
          memory.base[memory.extents[k]] < p /\ p < memory.end[memory.extents[k]]
    BY <2>1 DEF DumpsAssumed, DumpTargetOK, Dumps!MemoriesAssumption
  <2>4. p \in Nat
    BY <2>1, BucketFacts DEF Dumps!PagesOf
  <2>5. Dumps!SuperPageOf(p) \in memory.base[memory.extents[k]]..(memory.end[memory.extents[k]] - Dumps!kSuperPageSize)
    BY <2>3, <2>4, ExtentGeometry
  <2>. QED BY <1>3, <1>5, <2>2, <2>5
<1>. QED BY <1>2, <1>4, <1>5

(* The mark of a row is that of the head of its list.                        *)
LEMMA MarksAreSound == ASSUME DumpsAssumed, DumpsInv PROVE Dumps!MarksSound
<1>. DumpTargetOK
  BY DEF DumpsInv
<1>. SUFFICES ASSUME listing # Blank, NEW i \in DOMAIN listing.buckets,
                     \A p \in Dumps!PagesShown(i) : memory.unprovisioned[p] = 0,
                     listing.buckets[i].pages # SentinelLine,
                     NEW k \in DOMAIN listing.buckets[i].pages, listing.buckets[i].pages[k].mark
     PROVE  FALSE
  BY DEF Dumps!MarksSound
<1>1. listing.buckets \in Seq(BucketLines)
  BY DEF DumpsInv, ListingRight
<1>2. listing.buckets[i] \in BucketLines
  BY <1>1
<1>3. PICK n \in Rows : \E pages \in {SentinelLine} \cup Opened(n) : listing.buckets[i] = BucketLine(n, pages)
  BY <1>2, RowOfLine
<1>. PICK pages \in {SentinelLine} \cup Opened(n) : listing.buckets[i] = BucketLine(n, pages)
  BY <1>3
<1>4. listing.buckets[i].pages = pages /\ pages \in Opened(n)
  BY PartsOfLine
<1>5. pages \in Seq(PageLines(n)) /\ pages # <<>> /\ pages[1].page = HeadPage(n) /\ 1 \in DOMAIN pages
  BY <1>4 DEF Opened
<1>6. pages[k] \in PageLines(n)
  BY <1>4, <1>5
<1>7. Dumps!Unprovisioned(HeadPage(n)) > 0
  <2> DEFINE used == Dumps!Unprovisioned(HeadPage(n)) > 0
  <2>1. PICK p \in OwnPages(n) : pages[k] = [page |-> p, mark |-> used]
    BY <1>6 DEF PageLines
  <2>. HIDE DEF used
  <2>2. pages[k].mark = used
    BY <2>1
  <2>3. used
    BY <1>4, <2>2, Zenon
  <2>. QED BY <2>3 DEF used
<1>8. Dumps!IsPage(HeadPage(n))
  BY <1>7 DEF Dumps!Unprovisioned
<1>9. HeadPage(n) # Sentinel
  BY <1>8, BucketFacts DEF Dumps!IsPage
<1>10. HeadPage(n) \in Dumps!PagesShown(i)
  BY <1>4, <1>5, <1>9 DEF Dumps!PagesShown
<1>11. Dumps!Unprovisioned(HeadPage(n)) = 0
  BY <1>10 DEF Dumps!Unprovisioned, Dumps!Read
<1>. QED BY <1>7, <1>11

(* What a listing says of the pages it shows is so: ListingSound of          *)
(* dump_buckets and PartitionRootBase::dump, for every partition and any     *)
(* cells that cannot be read.                                                *)
THEOREM ListingsAreSound == ASSUME DumpsAssumed PROVE Dumps!Spec => []Dumps!ListingSound
<1>1. DumpsInv => Dumps!ListingSound
  BY ExtentsHoldPages, MarksAreSound DEF Dumps!ListingSound
<1>. QED BY <1>1, DumpsInvariant, PTL

------------------------------------------------------------------------------
(* The rows, exactly. *)

DirectLines == [k \in DOMAIN Dumps!DirectsRead |-> Dumps!DirectLine(Dumps!DirectsRead[k])]

(* The pages the loop in PartitionPage::dump_pages comes to, and the row     *)
(* that results.                                                             *)
PageChain(i) ==
  IF HeadPage(i) = 0 THEN <<>>
  ELSE IF HeadPage(i) = Sentinel THEN <<Sentinel>>
  ELSE UpTo(memory.active[At(i)], Dumps!Unlinked("next_page"))
RowShown(i) == BucketLine(i, Dumps!PagesRead(At(i)))

DirectsRight ==
  /\ dump_pc = "extents" =>
       /\ directs = <<>>
       /\ dump_root.direct_map_list = IF Dumps!DirectsRead = <<>> THEN 0 ELSE Dumps!DirectsRead[1]
  /\ dump_pc = "direct" => Progress(Dumps!DirectsRead, DirectLines, directs, cursor)
  /\ dump_pc \in {"buckets", "pages"} => directs = DirectLines /\ with_buckets

(* Every row in use that the loop has passed is there, and as it should be,  *)
(* unless its pages are just being listed.                                   *)
RowsRight ==
  /\ dump_pc \in {"extents", "direct"} => row = 0
  /\ dump_pc # "idle" =>
       /\ \A i \in 0..(row - 1) : ~Dumps!Unused(i) => \E k \in DOMAIN buckets : buckets[k].index = i
       /\ \A k \in DOMAIN buckets :
            /\ ~Dumps!Unused(buckets[k].index)
            /\ (dump_pc = "pages" /\ k = Len(buckets)) \/ buckets[k] = RowShown(buckets[k].index)

LastRowRight ==
  dump_pc = "pages" =>
    /\ Dumps!PagesRead(At(row - 1)) = Dumps!Lines(PageChain(row - 1))
    /\ Progress(PageChain(row - 1), Dumps!Lines(PageChain(row - 1)), buckets[Len(buckets)].pages, cursor)

RowsInv == DirectsRight /\ RowsRight /\ LastRowRight

(* While the command and the target stay, so does what there is to list.     *)
LEMMA RowsStay ==
  ASSUME UNCHANGED <<memory, unreadable, sentinel, allocator>>
  PROVE  /\ Dumps!DirectsRead' = Dumps!DirectsRead /\ DirectLines' = DirectLines
         /\ \A i : /\ Dumps!Unused(i)' <=> Dumps!Unused(i)
                   /\ At(i)' = At(i) /\ PageChain(i)' = PageChain(i) /\ RowShown(i)' = RowShown(i)
                   /\ Dumps!PagesRead(At(i))' = Dumps!PagesRead(At(i))
                   /\ Dumps!Lines(PageChain(i))' = Dumps!Lines(PageChain(i))
         /\ UNCHANGED with_buckets => Dumps!Answer' = Dumps!Answer
<1>1. ASSUME NEW m PROVE Dumps!Unlinked(m)' = Dumps!Unlinked(m)
  BY DEF Dumps!Unlinked
<1>2. Dumps!DirectsRead' = Dumps!DirectsRead
  BY <1>1 DEF Dumps!DirectsRead
<1>3. \A d : Dumps!DirectLine(d)' = Dumps!DirectLine(d)
  BY DEF Dumps!DirectLine, Dumps!Read, Dumps!SlotSize
<1>4. DirectLines' = DirectLines
  BY <1>2, <1>3 DEF DirectLines
<1>5. ASSUME NEW p, NEW q PROVE Dumps!PageLine(p, q)' = Dumps!PageLine(p, q)
  <2>1. Dumps!Unprovisioned(p)' = Dumps!Unprovisioned(p)
    BY DEF Dumps!Unprovisioned, Dumps!IsPage, Dumps!Read
  <2>. QED BY <2>1 DEF Dumps!PageLine
<1>6. ASSUME NEW pages PROVE Dumps!Lines(pages)' = Dumps!Lines(pages)
  BY <1>5 DEF Dumps!Lines
<1>7. ASSUME NEW b PROVE Dumps!PagesRead(b)' = Dumps!PagesRead(b)
  BY <1>1, <1>6 DEF Dumps!PagesRead
<1>8. ASSUME NEW i PROVE At(i)' = At(i) /\ (Dumps!Unused(i)' <=> Dumps!Unused(i))
  BY <1>1 DEF At, Dumps!Unused
<1>9. ASSUME NEW i PROVE PageChain(i)' = PageChain(i)
  BY <1>1, <1>8, DumpsStay DEF PageChain
<1>10. ASSUME NEW i PROVE Dumps!PagesRead(At(i))' = Dumps!PagesRead(At(i))
  <2>1. PICK b : b = At(i)
    OBVIOUS
  <2>. QED BY <1>7, <1>8, <2>1
<1>11. ASSUME NEW i PROVE Dumps!Lines(PageChain(i))' = Dumps!Lines(PageChain(i))
  <2>1. PICK chain : chain = PageChain(i)
    OBVIOUS
  <2>. QED BY <1>6, <1>9, <2>1
<1>12. ASSUME NEW i PROVE RowShown(i)' = RowShown(i)
  BY <1>8, <1>10 DEF RowShown, BucketLine, Dumps!SlotSize, Dumps!Read
<1>13. ASSUME UNCHANGED with_buckets PROVE Dumps!Answer' = Dumps!Answer
  <2>1. Dumps!ExtentsRead' = Dumps!ExtentsRead /\ \A e : Dumps!ExtentLine(e)' = Dumps!ExtentLine(e)
    BY DumpsStay DEF Dumps!ExtentLine, Dumps!Read
  <2>2. \A i : At(i)' = At(i) /\ Dumps!SlotSize(At(i))' = Dumps!SlotSize(At(i)) /\ Dumps!PagesRead(At(i))' = Dumps!PagesRead(At(i))
    BY <1>8, <1>10 DEF Dumps!SlotSize, Dumps!Read
  <2>. QED BY <1>2, <1>3, <1>8, <1>13, <2>1, <2>2 DEF Dumps!Answer, At
<1>. QED BY <1>2, <1>4, <1>8, <1>9, <1>10, <1>11, <1>12, <1>13

(* The direct mapped extents a command is to list.                           *)
DirectsFrom(a) ==
  IF a \in {0} \cup Dumps!Unlinked("direct_map_list") THEN <<>> ELSE UpTo(memory.direct, Dumps!Unlinked("next_extent"))

LEMMA DirectChain ==
  ASSUME DumpsAssumed, DumpTargetOK, NEW a
  PROVE  LET chain == DirectsFrom(a) IN
         /\ chain \in Seq(Nat \ {0}) /\ Follows(chain, memory.direct, Dumps!Unlinked("next_extent"))
         /\ Dumps!Root(a).direct_map_list = IF chain = <<>> THEN 0 ELSE chain[1]
<1> DEFINE list == memory.direct
           stops == Dumps!Unlinked("next_extent")
<1>1. list \in Seq(Nat \ {0}) /\ Distinct(list)
  BY DumpLists DEF DumpsAssumed, DumpTargetOK, Dumps!MemoriesAssumption
<1>2. Dumps!Root(a).direct_map_list =
        IF a \in {0} \cup Dumps!Unlinked("direct_map_list") THEN 0 ELSE IF list = <<>> THEN 0 ELSE list[1]
  BY UnlinkedCells DEF Dumps!Root, Dumps!Read, Dumps!First
<1>3. CASE a \in {0} \cup Dumps!Unlinked("direct_map_list")
  <2>1. DirectsFrom(a) = <<>> /\ DOMAIN <<>> = {} /\ <<>> \in Seq(Nat \ {0})
    BY <1>3 DEF DirectsFrom
  <2>. QED BY <1>2, <1>3, <2>1 DEF Follows
<1>4. CASE a \notin {0} \cup Dumps!Unlinked("direct_map_list")
  <2>. HIDE DEF list, stops
  <2>1. /\ UpTo(list, stops) \in Seq(Nat \ {0}) /\ Follows(UpTo(list, stops), list, stops)
        /\ (IF list = <<>> THEN 0 ELSE list[1]) = IF UpTo(list, stops) = <<>> THEN 0 ELSE UpTo(list, stops)[1]
    BY <1>1, WholeChain
  <2>2. DirectsFrom(a) = UpTo(list, stops)
    BY <1>4 DEF DirectsFrom, list, stops
  <2>. QED BY <1>2, <1>4, <2>1, <2>2 DEF list, stops
<1>. QED BY <1>3, <1>4

(* One line is to be printed of each of them.                                *)
LEMMA LinesOfDirects ==
  ASSUME DumpsAssumed, DumpTargetOK
  PROVE  LET chain == Dumps!DirectsRead IN
         /\ chain = DirectsFrom(allocator)
         /\ chain \in Seq(Nat \ {0}) /\ Follows(chain, memory.direct, Dumps!Unlinked("next_extent"))
         /\ DirectLines \in Seq({Dumps!DirectLine(d) : d \in Nat}) /\ Len(DirectLines) = Len(chain)
         /\ \A k \in DOMAIN chain : DirectLines[k] = Dumps!DirectLine(chain[k])
<1>1. Dumps!DirectsRead = DirectsFrom(allocator)
  BY DumpLists DEF Dumps!DirectsRead, DirectsFrom
<1>2. Dumps!DirectsRead \in Seq(Nat \ {0}) /\ Follows(Dumps!DirectsRead, memory.direct, Dumps!Unlinked("next_extent"))
  BY <1>1, DirectChain
<1>. QED BY <1>1, <1>2 DEF DirectLines

(* Where the buckets of a command are.                                       *)
LEMMA BucketOfRow ==
  ASSUME DumpsAssumed, DumpTargetOK, NEW i \in Rows
  PROVE  /\ allocator # 0 => At(i) \in Dumps!Buckets(memory) /\ At(i) \in DOMAIN memory.slot_size
         /\ allocator = 0 => At(i) \notin DOMAIN memory.slot_size /\ At(i) \notin Dumps!Buckets(memory)
<1>1. /\ Dumps!Buckets(memory) \subseteq DOMAIN memory.slot_size
      /\ \A n \in 0..(BucketCount_ - 1) : Dumps!BucketAt(0, memory, n) \notin DOMAIN memory.slot_size
  BY DEF DumpsAssumed, DumpTargetOK, Dumps!MemoriesAssumption
<1>2. CASE allocator = 0
  BY <1>1, <1>2 DEF At, Rows
<1>3. CASE allocator # 0
  <2>1. allocator = memory.allocator
    BY <1>3 DEF DumpTargetOK
  <2>2. At(i) \in Dumps!Buckets(memory)
    BY <2>1 DEF At, Rows, Dumps!Buckets
  <2>. QED BY <1>1, <1>3, <2>2
<1>. QED BY <1>2, <1>3

(* The loop in dump_buckets skips the rows that only fill the array.         *)
LEMMA UsedRow ==
  ASSUME DumpsAssumed, DumpTargetOK, NEW i \in Rows
  PROVE  Dumps!IsValid(At(i)) <=> ~Dumps!Unused(i)
<1> DEFINE b == At(i)
<1>1. CASE allocator = 0
  <2>1. Dumps!SlotSize(b) = 0
    BY <1>1, BucketOfRow DEF Dumps!SlotSize
  <2>2. 0 % 8 = 0
    BY SMT
  <2>. QED BY <1>1, <2>1, <2>2 DEF Dumps!IsValid, Dumps!Unused, Dumps!kGenericSmallestBucket
<1>2. CASE allocator # 0
  <2>1. Dumps!SlotSize(b) = IF b \in Dumps!Unlinked("slot_size") THEN 0 ELSE memory.slot_size[b]
    BY <1>2, BucketOfRow, UnlinkedCells DEF Dumps!SlotSize, Dumps!Read
  <2>2. 0 % 8 = 0
    BY SMT
  <2>. QED BY <1>2, <2>1, <2>2 DEF Dumps!IsValid, Dumps!Unused, Dumps!kGenericSmallestBucket, At
<1>. QED BY <1>1, <1>2

(* The link of a page in the list of a bucket.                               *)
LEMMA LinkOfPage ==
  ASSUME DumpsAssumed, DumpTargetOK, NEW b \in Dumps!Buckets(memory), NEW p \in Dumps!PagesOf(memory, b)
  PROVE  Dumps!NextPage(p) = IF p \in Dumps!Unlinked("next_page") THEN 0 ELSE NextIn(memory.active[b], p)
<1>1. \A c \in Dumps!Buckets(memory) : p \in Dumps!PagesOf(memory, c) => c = b
  BY BucketFacts
<1>2. Dumps!BucketWith(p) = b /\ Dumps!IsPage(p)
  BY <1>1 DEF Dumps!BucketWith, Dumps!IsPage
<1>. QED BY <1>2, UnlinkedCells, DumpLists DEF Dumps!NextPage, Dumps!Read

(* The pages the loop in PartitionPage::dump_pages comes to, and what is to  *)
(* be shown of them.                                                         *)
LEMMA PageWalk ==
  ASSUME DumpsAssumed, DumpTargetOK, NEW i \in Rows
  PROVE  LET chain == PageChain(i)
             list == memory.active[At(i)]
             stops == Dumps!Unlinked("next_page")
         IN  /\ chain \in Seq(Nat \ {0}) /\ Follows(chain, list, stops)
             /\ HeadPage(i) = IF chain = <<>> THEN 0 ELSE chain[1]
             /\ \A k \in DOMAIN chain :
                  Dumps!NextPage(chain[k]) = IF chain[k] \in stops THEN 0 ELSE NextIn(list, chain[k])
             /\ Dumps!PagesRead(At(i)) = IF HeadPage(i) = sentinel THEN SentinelLine ELSE Dumps!Lines(chain)
<1> DEFINE chain == PageChain(i)
           list == memory.active[At(i)]
           stops == Dumps!Unlinked("next_page")
           b == At(i)
<1>1. Sentinel \in Nat \ {0} /\ sentinel \in {0, Sentinel}
  BY DEF DumpsAssumed, DumpTargetOK, Dumps!CountsAssumption
<1>2. CASE allocator = 0 \/ b \in Dumps!Unlinked("active_pages_head")
  <2>1. HeadPage(i) = 0
    BY <1>2, BucketOfRow, UnlinkedCells DEF HeadPage, Dumps!ActiveHead, Dumps!Read
  <2>2. chain = <<>> /\ DOMAIN chain = {} /\ chain \in Seq(Nat \ {0})
    BY <2>1 DEF PageChain
  <2>3. Dumps!Lines(chain) = <<>>
    BY <2>2 DEF Dumps!Lines
  <2>4. Dumps!PagesRead(At(i)) = IF sentinel = 0 THEN SentinelLine ELSE <<>>
    BY <1>2 DEF Dumps!PagesRead
  <2>. QED BY <2>1, <2>2, <2>3, <2>4 DEF Follows
<1>3. CASE ~(allocator = 0 \/ b \in Dumps!Unlinked("active_pages_head")) /\ list = <<>>
  <2>1. b \in Dumps!Buckets(memory)
    BY <1>3, BucketOfRow
  <2>2. HeadPage(i) = Sentinel
    BY <1>3, <2>1, UnlinkedCells DEF HeadPage, Dumps!ActiveHead, Dumps!Read
  <2>3. chain = <<Sentinel>> /\ DOMAIN chain = {1} /\ Len(chain) = 1 /\ chain \in Seq(Nat \ {0}) /\ chain # <<>>
        /\ chain[1] = Sentinel
    BY <1>1, <2>2 DEF PageChain
  <2>4. NextIn(list, Sentinel) = 0
    BY <1>3 DEF NextIn
  <2>5. Follows(chain, list, stops)
    BY <2>3, <2>4 DEF Follows
  <2>6. Dumps!NextPage(Sentinel) = 0
    <3>1. ~Dumps!IsPage(Sentinel)
      BY BucketFacts DEF Dumps!IsPage
    <3>. QED BY <3>1 DEF Dumps!NextPage
  <2>7. Dumps!PagesRead(b) = IF sentinel = 0 THEN Dumps!Lines(<<Sentinel>>) ELSE SentinelLine
    BY <1>3 DEF Dumps!PagesRead
  <2>. QED BY <1>1, <2>2, <2>3, <2>4, <2>5, <2>6, <2>7
<1>4. CASE ~(allocator = 0 \/ b \in Dumps!Unlinked("active_pages_head")) /\ list # <<>>
  <2>1. b \in Dumps!Buckets(memory)
    BY <1>4, BucketOfRow
  <2>2. list \in Seq(Nat \ {0, Sentinel}) /\ Distinct(list)
    BY <2>1, BucketFacts
  <2>3. HeadPage(i) = list[1] /\ list[1] \in Nat \ {0, Sentinel}
    <3>1. HeadPage(i) = list[1]
      BY <1>4, <2>1, UnlinkedCells DEF HeadPage, Dumps!ActiveHead, Dumps!Read
    <3>. HIDE DEF list
    <3>. QED BY <1>4, <2>2, <3>1
  <2>4. chain = UpTo(list, stops)
    BY <2>3 DEF PageChain
  <2>. HIDE DEF list, stops, b
  <2>5. /\ UpTo(list, stops) \in Seq(Nat \ {0, Sentinel}) /\ Follows(UpTo(list, stops), list, stops)
        /\ UpTo(list, stops) # <<>> /\ \A k \in 1..Len(UpTo(list, stops)) : UpTo(list, stops)[k] = list[k]
        /\ Len(UpTo(list, stops)) \in 0..Len(list)
    BY <1>4, <2>2, WholeChain, UpToIsPrefix
  <2>. HIDE DEF chain
  <2>6. chain \in Seq(Nat \ {0}) /\ Follows(chain, list, stops) /\ chain # <<>> /\ chain[1] = list[1]
    BY <2>4, <2>5
  <2>7. ASSUME NEW k \in DOMAIN chain
        PROVE  Dumps!NextPage(chain[k]) = IF chain[k] \in stops THEN 0 ELSE NextIn(list, chain[k])
    <3>1. k \in DOMAIN list /\ chain[k] = list[k]
      <4>1. k \in 1..Len(chain) /\ Len(chain) \in 0..Len(list)
        BY <2>4, <2>5, <2>6
      <4>2. k \in 1..Len(list)
        BY <2>2, <4>1
      <4>. QED BY <2>2, <2>4, <2>5, <4>1, <4>2
    <3>2. list[k] \in Dumps!PagesOf(memory, b)
      BY <3>1 DEF Dumps!PagesOf, list, b
    <3>. QED BY <2>1, <3>1, <3>2, LinkOfPage DEF list, stops, b
  <2>8. Dumps!PagesRead(b) = Dumps!Lines(chain)
    BY <1>4, <2>4, DumpLists DEF Dumps!PagesRead, list, stops, b
  <2>. QED BY <1>1, <2>3, <2>6, <2>7, <2>8 DEF chain, list, stops, b
<1>. QED BY <1>2, <1>3, <1>4

(* A command begins with no rows.                                            *)
LEMMA RowsBegin ==
  ASSUME DumpsAssumed, DumpsInv, NEW a \in {0, memory.allocator}, NEW b, Dumps!Command(a, b)
  PROVE  RowsInv'
<1>1. /\ dump_pc' = "extents" /\ allocator' = a /\ dump_root' = Dumps!Root(a) /\ row' = 0
      /\ directs' = <<>> /\ buckets' = <<>> /\ UNCHANGED <<memory, unreadable, sentinel>>
  BY DEF Dumps!Command, Dumps!target
<1>2. Dumps!DirectsRead' = DirectsFrom(a)
  <2>1. \A m : Dumps!Unlinked(m)' = Dumps!Unlinked(m)
    BY <1>1 DEF Dumps!Unlinked
  <2>. QED BY <1>1, <2>1, DumpLists DEF Dumps!DirectsRead, DirectsFrom
<1>3. Dumps!Root(a).direct_map_list = IF DirectsFrom(a) = <<>> THEN 0 ELSE DirectsFrom(a)[1]
  BY DirectChain DEF DumpsInv
<1>4. DirectsRight'
  BY <1>1, <1>2, <1>3 DEF DirectsRight
<1>5. RowsRight'
  <2>1. DOMAIN <<>> = {} /\ 0..(0 - 1) = {}
    BY SMT
  <2>. QED BY <1>1, <2>1 DEF RowsRight
<1>. QED BY <1>1, <1>4, <1>5 DEF RowsInv, LastRowRight

(* Before the buckets there are no rows.                                     *)
LEMMA NoRows ==
  ASSUME DumpsAssumed, DumpsInv, RowsInv, dump_pc \in {"extents", "direct"}
  PROVE  buckets = <<>> /\ row = 0
<1>1. row = 0 /\ buckets \in Seq(BucketLines) /\ \A k \in DOMAIN buckets : buckets[k].index < 0
  BY DEF DumpsInv, BucketsRight, RowsInv, RowsRight
<1>2. ASSUME NEW k \in DOMAIN buckets PROVE FALSE
  <2>1. buckets[k].index \in Rows
    BY <1>1, RowOfLine, PartsOfLine
  <2>. QED BY <1>1, <2>1 DEF Rows
<1>. QED BY <1>1, <1>2

(* The chain of direct mapped extents, from its beginning to its end.        *)
LEMMA RowsDirect ==
  ASSUME DumpsAssumed, DumpsInv, RowsInv,
         Dumps!DumpExtent \/ Dumps!ExtentsDone \/ Dumps!DumpDirect \/ Dumps!DirectsDone
  PROVE  RowsInv'
<1>1. /\ UNCHANGED <<memory, unreadable, sentinel, allocator, row, buckets, with_buckets, dump_root>>
      /\ dump_pc \in {"extents", "direct"} /\ dump_pc' \in {"extents", "direct", "buckets"}
  BY DEF Dumps!DumpExtent, Dumps!ExtentsDone, Dumps!DumpDirect, Dumps!DirectsDone, Dumps!target, Dumps!asked, Dumps!output
<1>2. Dumps!DirectsRead' = Dumps!DirectsRead /\ DirectLines' = DirectLines
  BY <1>1, RowsStay
<1>3. buckets = <<>> /\ row = 0
  BY <1>1, NoRows
<1>4. RowsRight' /\ LastRowRight'
  <2>1. DOMAIN <<>> = {} /\ 0..(0 - 1) = {}
    BY SMT
  <2>. QED BY <1>1, <1>3, <2>1 DEF RowsRight, LastRowRight
<1> DEFINE chain == Dumps!DirectsRead
           lines == DirectLines
           stops == Dumps!Unlinked("next_extent")
           list == memory.direct
<1>5. /\ chain \in Seq(Nat \ {0}) /\ Follows(chain, list, stops)
      /\ lines \in Seq({Dumps!DirectLine(d) : d \in Nat}) /\ Len(lines) = Len(chain)
      /\ \A k \in DOMAIN chain : chain[k] # 0 /\ lines[k] = Dumps!DirectLine(chain[k])
  BY LinesOfDirects DEF DumpsInv
<1>6. CASE Dumps!DumpExtent
  <2>1. dump_pc = "extents" /\ dump_pc' = "extents" /\ directs' = directs
    BY <1>6 DEF Dumps!DumpExtent
  <2>. QED BY <1>1, <1>2, <1>4, <2>1 DEF RowsInv, DirectsRight
<1>7. CASE Dumps!ExtentsDone
  <2>1. dump_pc = "extents" /\ dump_pc' = "direct" /\ directs' = directs /\ cursor' = dump_root.direct_map_list
    BY <1>7 DEF Dumps!ExtentsDone, Dumps!output
  <2>2. directs = <<>> /\ cursor' = IF chain = <<>> THEN 0 ELSE chain[1]
    BY <2>1 DEF RowsInv, DirectsRight
  <2>. HIDE DEF chain, lines
  <2>3. Progress(chain, lines, <<>>, cursor')
    BY <1>5, <2>2, ProgressStarts
  <2>4. Progress(Dumps!DirectsRead, DirectLines, directs, cursor)'
    BY <1>2, <2>1, <2>2, <2>3 DEF Progress, chain, lines
  <2>. QED BY <1>4, <2>1, <2>4 DEF RowsInv, DirectsRight
<1>8. CASE Dumps!DumpDirect
  <2>1. /\ dump_pc = "direct" /\ dump_pc' = "direct" /\ cursor # 0
        /\ directs' = Append(directs, Dumps!DirectLine(cursor)) /\ cursor' = Dumps!NextDirect(cursor)
    BY <1>8 DEF Dumps!DumpDirect
  <2>2. Progress(chain, lines, directs, cursor)
    BY <2>1 DEF RowsInv, DirectsRight
  <2>3. PICK k \in DOMAIN chain :
          /\ cursor = chain[k]
          /\ Progress(chain, lines, Append(directs, lines[k]), IF cursor \in stops THEN 0 ELSE NextIn(list, cursor))
    <3> DEFINE T == {Dumps!DirectLine(d) : d \in Nat}
    <3>1. lines \in Seq(T)
      BY <1>5
    <3>. HIDE DEF chain, lines, list, stops, T
    <3>2. chain \in Seq(Nat \ {0}) /\ Len(lines) = Len(chain) /\ Follows(chain, list, stops) /\ cursor # 0
      BY <1>5, <2>1
    <3>. QED BY <2>2, <3>1, <3>2, ProgressGoesOn
  <2>4. directs' = Append(directs, lines[k])
    BY <1>5, <2>1, <2>3
  <2>5. cursor' = IF cursor \in stops THEN 0 ELSE NextIn(list, cursor)
    BY <2>1, UnlinkedCells, DumpLists DEF DumpsInv, Dumps!NextDirect, Dumps!Read
  <2>6. Progress(Dumps!DirectsRead, DirectLines, directs, cursor)'
    BY <1>2, <2>3, <2>4, <2>5 DEF Progress
  <2>. QED BY <1>4, <2>1, <2>6 DEF RowsInv, DirectsRight
<1>9. CASE Dumps!DirectsDone
  <2>1. dump_pc = "direct" /\ dump_pc' = "buckets" /\ cursor = 0 /\ with_buckets /\ directs' = directs
    BY <1>9 DEF Dumps!DirectsDone, Dumps!output
  <2>2. Progress(chain, lines, directs, 0)
    BY <2>1 DEF RowsInv, DirectsRight
  <2>3. directs = lines
    <3>. HIDE DEF chain, lines
    <3>. QED BY <1>5, <2>2, ProgressEnds
  <2>. QED BY <1>1, <1>2, <1>4, <2>1, <2>3 DEF RowsInv, DirectsRight
<1>. QED BY <1>6, <1>7, <1>8, <1>9

(* A row the loop has opened, or passed.                                     *)
LEMMA RowsOpen ==
  ASSUME DumpsAssumed, DumpsInv, RowsInv, Dumps!DumpBucket
  PROVE  RowsInv'
<1>1. /\ UNCHANGED <<memory, unreadable, sentinel, allocator, with_buckets, directs>>
      /\ dump_pc = "buckets" /\ dump_pc' \in {"buckets", "pages"} /\ row < BucketCount_ /\ row' = row + 1
  BY DEF Dumps!DumpBucket, Dumps!target, Dumps!asked
<1>2. /\ Dumps!DirectsRead' = Dumps!DirectsRead /\ DirectLines' = DirectLines
      /\ \A i : /\ Dumps!Unused(i)' <=> Dumps!Unused(i)
                /\ PageChain(i)' = PageChain(i) /\ RowShown(i)' = RowShown(i)
                /\ Dumps!PagesRead(At(i))' = Dumps!PagesRead(At(i))
                /\ Dumps!Lines(PageChain(i))' = Dumps!Lines(PageChain(i))
  BY <1>1, RowsStay
<1>3. /\ buckets \in Seq(BucketLines) /\ DumpTargetOK
      /\ row \in Rows /\ row \in Nat /\ \A k \in DOMAIN buckets : buckets[k].index < row
  <2>1. BucketCount_ \in Nat
    BY DEF DumpsAssumed, Dumps!CountsAssumption
  <2>2. row \in 0..BucketCount_
    BY <1>1 DEF DumpsInv, BucketsRight
  <2>. QED BY <1>1, <2>1, <2>2 DEF DumpsInv, BucketsRight, Rows
<1>4. DirectsRight'
  BY <1>1, <1>2 DEF RowsInv, DirectsRight
<1>5. /\ \A i \in 0..(row - 1) : ~Dumps!Unused(i) => \E k \in DOMAIN buckets : buckets[k].index = i
      /\ \A k \in DOMAIN buckets : ~Dumps!Unused(buckets[k].index) /\ buckets[k] = RowShown(buckets[k].index)
  BY <1>1 DEF RowsInv, RowsRight
<1>6. row' - 1 = row /\ \A i \in 0..(row' - 1) : i \in 0..(row - 1) \/ i = row
  BY <1>1, <1>3
<1>7. CASE ~Dumps!IsValid(At(row))
  <2>1. UNCHANGED <<dump_pc, buckets>>
    BY <1>7 DEF Dumps!DumpBucket, At
  <2>2. Dumps!Unused(row)
    BY <1>3, <1>7, UsedRow
  <2>3. RowsRight'
    BY <1>1, <1>2, <1>5, <1>6, <2>1, <2>2 DEF RowsRight
  <2>. QED BY <1>1, <1>4, <2>1, <2>3 DEF RowsInv, LastRowRight
<1>8. CASE Dumps!IsValid(At(row))
  <2> DEFINE pages == IF HeadPage(row) = sentinel THEN SentinelLine ELSE <<>>
             line == BucketLine(row, pages)
             chain == PageChain(row)
             lines == Dumps!Lines(chain)
  <2>1. /\ buckets' = Append(buckets, line)
        /\ IF HeadPage(row) = sentinel THEN dump_pc' = "buckets" ELSE dump_pc' = "pages" /\ cursor' = HeadPage(row)
    BY <1>1, <1>8 DEF Dumps!DumpBucket, At, HeadPage, BucketLine
  <2>2. line.index = row /\ line.pages = pages
    BY PartsOfLine
  <2>3. /\ chain \in Seq(Nat \ {0}) /\ HeadPage(row) = IF chain = <<>> THEN 0 ELSE chain[1]
        /\ Dumps!PagesRead(At(row)) = IF HeadPage(row) = sentinel THEN SentinelLine ELSE lines
    BY <1>3, PageWalk
  <2>4. ~Dumps!Unused(row)
    BY <1>3, <1>8, UsedRow
  <2>5. HeadPage(row) = sentinel => line = RowShown(row)
    BY <2>3 DEF RowShown
  <2>6. HeadPage(row) # sentinel => Progress(chain, lines, <<>>, cursor')
    <3>. HIDE DEF chain, lines
    <3>. QED BY <2>1, <2>3, ProgressStarts
  <2>7. Len(buckets) \in Nat /\ Len(buckets') = Len(buckets) + 1 /\ buckets'[Len(buckets) + 1] = line
        /\ DOMAIN buckets' = DOMAIN buckets \cup {Len(buckets) + 1}
        /\ \A k \in DOMAIN buckets : buckets'[k] = buckets[k]
    <3>. HIDE DEF line
    <3>. QED BY <1>3, <2>1
  <2>. HIDE DEF line, pages
  <2>8. \A i \in 0..(row' - 1) : ~Dumps!Unused(i) => \E k \in DOMAIN buckets' : buckets'[k].index = i
    <3>1. ASSUME NEW i \in 0..(row' - 1), ~Dumps!Unused(i) PROVE \E k \in DOMAIN buckets' : buckets'[k].index = i
      <4>1. CASE i = row
        BY <2>2, <2>7, <4>1
      <4>2. CASE i \in 0..(row - 1)
        BY <1>5, <2>7, <3>1, <4>2
      <4>. QED BY <1>6, <4>1, <4>2
    <3>. QED BY <3>1
  <2>9. ASSUME NEW k \in DOMAIN buckets'
        PROVE  /\ ~Dumps!Unused(buckets'[k].index)
               /\ (dump_pc' = "pages" /\ k = Len(buckets')) \/ buckets'[k] = RowShown(buckets'[k].index)
    <3>1. CASE k \in DOMAIN buckets
      BY <1>5, <2>7, <3>1
    <3>2. CASE k = Len(buckets) + 1
      BY <2>1, <2>2, <2>4, <2>5, <2>7, <3>2
    <3>. QED BY <2>7, <3>1, <3>2
  <2>10. RowsRight'
    BY <1>1, <1>2, <2>8, <2>9 DEF RowsRight
  <2>11. LastRowRight'
    <3>. SUFFICES ASSUME dump_pc' = "pages" PROVE LastRowRight'
      BY DEF LastRowRight
    <3>1. HeadPage(row) # sentinel /\ buckets'[Len(buckets')].pages = <<>>
      BY <2>1, <2>2, <2>7 DEF pages
    <3>2. PICK n : n = row
      OBVIOUS
    <3>3. /\ row' - 1 = n /\ Dumps!PagesRead(At(n))' = Dumps!Lines(PageChain(n))'
          /\ PageChain(n)' = chain /\ Dumps!Lines(PageChain(n))' = lines
      BY <1>2, <1>6, <2>3, <3>1, <3>2
    <3>4. Progress(chain, lines, buckets'[Len(buckets')].pages, cursor')
      BY <2>6, <3>1
    <3>. HIDE DEF chain, lines
    <3>5. Progress(PageChain(n), Dumps!Lines(PageChain(n)), buckets[Len(buckets)].pages, cursor)'
      BY <3>3, <3>4 DEF Progress
    <3>. QED BY <3>3, <3>5 DEF LastRowRight, Progress
  <2>. QED BY <1>4, <2>10, <2>11 DEF RowsInv
<1>. QED BY <1>7, <1>8

(* One more page of the row that is open.                                    *)
LEMMA RowsGrow ==
  ASSUME DumpsAssumed, DumpsInv, RowsInv, Dumps!DumpPage
  PROVE  RowsInv'
<1> DEFINE i == row - 1
           last == Len(buckets)
           chain == PageChain(i)
           lines == Dumps!Lines(chain)
           list == memory.active[At(i)]
           stops == Dumps!Unlinked("next_page")
<1>1. /\ UNCHANGED <<memory, unreadable, sentinel, allocator, row, with_buckets, directs>>
      /\ dump_pc = "pages" /\ dump_pc' = "pages" /\ cursor # 0 /\ cursor' = Dumps!NextPage(cursor)
      /\ buckets' = [buckets EXCEPT ![last].pages = Append(@, Dumps!PageLine(HeadPage(i), cursor))]
  BY DEF Dumps!DumpPage, Dumps!target, Dumps!asked, HeadPage, At
<1>2. /\ Dumps!DirectsRead' = Dumps!DirectsRead /\ DirectLines' = DirectLines
      /\ \A n : /\ Dumps!Unused(n)' <=> Dumps!Unused(n)
                /\ PageChain(n)' = PageChain(n) /\ RowShown(n)' = RowShown(n)
                /\ Dumps!PagesRead(At(n))' = Dumps!PagesRead(At(n))
                /\ Dumps!Lines(PageChain(n))' = Dumps!Lines(PageChain(n))
  BY <1>1, RowsStay
<1>3. /\ buckets \in Seq(BucketLines) /\ last \in DOMAIN buckets /\ i \in Rows /\ DumpTargetOK
  BY <1>1 DEF DumpsInv, BucketsRight, PagesRight
<1>4. DirectsRight'
  BY <1>1, <1>2 DEF RowsInv, DirectsRight
<1>5. PICK pages : buckets[last] = BucketLine(i, pages)
  BY <1>1 DEF DumpsInv, PagesRight
<1>6. /\ Dumps!PagesRead(At(i)) = lines /\ Progress(chain, lines, pages, cursor)
  BY <1>1, <1>5, PartsOfLine DEF RowsInv, LastRowRight
<1>7. /\ chain \in Seq(Nat \ {0}) /\ Follows(chain, list, stops)
      /\ HeadPage(i) = IF chain = <<>> THEN 0 ELSE chain[1]
      /\ \A k \in DOMAIN chain : Dumps!NextPage(chain[k]) = IF chain[k] \in stops THEN 0 ELSE NextIn(list, chain[k])
  BY <1>3, PageWalk
<1>8. /\ lines \in Seq({Dumps!PageLine(chain[1], p) : p \in Nat}) /\ Len(lines) = Len(chain)
      /\ \A k \in DOMAIN chain : lines[k] = Dumps!PageLine(chain[1], chain[k])
  <2>. HIDE DEF chain
  <2>. QED BY <1>7 DEF Dumps!Lines
<1>9. PICK k \in DOMAIN chain :
        /\ cursor = chain[k]
        /\ Progress(chain, lines, Append(pages, lines[k]), IF cursor \in stops THEN 0 ELSE NextIn(list, cursor))
  <2>1. cursor # 0
    BY <1>1
  <2>. HIDE DEF chain, lines, list, stops
  <2>. QED BY <1>6, <1>7, <1>8, <2>1, ProgressGoesOn
<1> DEFINE more == Append(pages, lines[k])
           line == BucketLine(i, more)
<1>10. Dumps!PageLine(HeadPage(i), cursor) = lines[k] /\ cursor' = IF cursor \in stops THEN 0 ELSE NextIn(list, cursor)
  <2>1. chain # <<>>
    BY <1>9
  <2>. HIDE DEF chain, lines, list, stops
  <2>. QED BY <1>1, <1>7, <1>8, <1>9, <2>1
<1>11. buckets' = [buckets EXCEPT ![last] = line]
  <2>. HIDE DEF i, lines, last
  <2>1. buckets[last].pages = pages
    BY <1>5, PartsOfLine
  <2>2. [buckets[last] EXCEPT !.pages = more] = line
    BY <1>5 DEF BucketLine
  <2>3. buckets' = [buckets EXCEPT ![last] = [buckets[last] EXCEPT !.pages = more]]
    BY <1>1, <1>3, <1>10, <2>1
  <2>. QED BY <2>2, <2>3
<1>12. line.index = i /\ line.pages = more /\ buckets[last].index = i
  <2>. HIDE DEF i, more, last
  <2>. QED BY <1>5, PartsOfLine
<1>. HIDE DEF line, more, i
<1>13. /\ Len(buckets') = last /\ DOMAIN buckets' = DOMAIN buckets /\ buckets'[last] = line
       /\ \A n \in DOMAIN buckets : n # last => buckets'[n] = buckets[n]
       /\ \A n \in DOMAIN buckets : buckets'[n].index = buckets[n].index
  <2>. HIDE DEF last
  <2>1. DOMAIN buckets' = DOMAIN buckets /\ buckets'[last] = line
       /\ \A n \in DOMAIN buckets : n # last => buckets'[n] = buckets[n]
    BY <1>3, <1>11
  <2>2. \A n \in DOMAIN buckets : buckets'[n].index = buckets[n].index
    BY <1>12, <2>1
  <2>3. Len(buckets') = Len(buckets)
    BY <1>3, <1>11
  <2>. QED BY <2>1, <2>2, <2>3 DEF last
<1>14. RowsRight'
  <2>1. /\ \A n \in 0..(row - 1) : ~Dumps!Unused(n) => \E m \in DOMAIN buckets : buckets[m].index = n
        /\ \A m \in DOMAIN buckets : ~Dumps!Unused(buckets[m].index) /\ (m = last \/ buckets[m] = RowShown(buckets[m].index))
    BY <1>1 DEF RowsInv, RowsRight
  <2>. HIDE DEF last
  <2>2. \A n \in 0..(row - 1) : ~Dumps!Unused(n) => \E m \in DOMAIN buckets' : buckets'[m].index = n
    BY <1>13, <2>1
  <2>3. \A m \in DOMAIN buckets' : ~Dumps!Unused(buckets'[m].index) /\ (m = Len(buckets') \/ buckets'[m] = RowShown(buckets'[m].index))
    BY <1>13, <2>1
  <2>. QED BY <1>1, <1>2, <2>2, <2>3 DEF RowsRight
<1>15. LastRowRight'
  <2>1. PICK n : n = i
    OBVIOUS
  <2>2. /\ row' - 1 = n /\ Dumps!PagesRead(At(n))' = Dumps!Lines(PageChain(n))'
        /\ PageChain(n)' = chain /\ Dumps!Lines(PageChain(n))' = lines
    BY <1>1, <1>2, <1>6, <2>1 DEF i
  <2>3. Progress(chain, lines, buckets'[Len(buckets')].pages, cursor')
    BY <1>9, <1>10, <1>12, <1>13 DEF more
  <2>. HIDE DEF chain, lines
  <2>4. Progress(PageChain(n), Dumps!Lines(PageChain(n)), buckets[Len(buckets)].pages, cursor)'
    BY <2>2, <2>3 DEF Progress
  <2>. QED BY <2>2, <2>4 DEF LastRowRight, Progress
<1>. QED BY <1>4, <1>14, <1>15 DEF RowsInv

(* The end of a row.                                                         *)
LEMMA RowsClose ==
  ASSUME DumpsAssumed, DumpsInv, RowsInv, Dumps!PagesDone
  PROVE  RowsInv'
<1> DEFINE i == row - 1
           last == Len(buckets)
           chain == PageChain(i)
           lines == Dumps!Lines(chain)
<1>1. /\ UNCHANGED <<memory, unreadable, sentinel, allocator, row, with_buckets, directs, buckets>>
      /\ dump_pc = "pages" /\ dump_pc' = "buckets" /\ cursor = 0
  BY DEF Dumps!PagesDone, Dumps!target, Dumps!asked, Dumps!output
<1>2. /\ Dumps!DirectsRead' = Dumps!DirectsRead /\ DirectLines' = DirectLines
      /\ \A n : (Dumps!Unused(n)' <=> Dumps!Unused(n)) /\ RowShown(n)' = RowShown(n)
  BY <1>1, RowsStay
<1>3. i \in Rows /\ DumpTargetOK
  BY <1>1 DEF DumpsInv, PagesRight
<1>4. PICK pages : buckets[last] = BucketLine(i, pages)
  BY <1>1 DEF DumpsInv, PagesRight
<1>5. Dumps!PagesRead(At(i)) = lines /\ Progress(chain, lines, pages, 0)
  BY <1>1, <1>4, PartsOfLine DEF RowsInv, LastRowRight
<1>6. chain \in Seq(Nat \ {0})
  BY <1>3, PageWalk
<1>7. pages = lines
  <2>. HIDE DEF chain
  <2>1. lines \in Seq({Dumps!PageLine(chain[1], p) : p \in Nat}) /\ Len(lines) = Len(chain)
    BY <1>6 DEF Dumps!Lines
  <2>2. \A k \in DOMAIN chain : chain[k] # 0
    BY <1>6
  <2>. HIDE DEF lines
  <2>. QED BY <1>5, <1>6, <2>1, <2>2, ProgressEnds
<1>8. buckets[last] = RowShown(i) /\ buckets[last].index = i
  BY <1>4, <1>5, <1>7, PartsOfLine DEF RowShown
<1>. HIDE DEF i, last
<1>9. /\ \A n \in 0..(row - 1) : ~Dumps!Unused(n) => \E m \in DOMAIN buckets : buckets[m].index = n
      /\ \A m \in DOMAIN buckets : ~Dumps!Unused(buckets[m].index) /\ buckets[m] = RowShown(buckets[m].index)
  BY <1>1, <1>8 DEF RowsInv, RowsRight, last
<1>10. DirectsRight' /\ RowsRight'
  BY <1>1, <1>2, <1>9 DEF RowsInv, DirectsRight, RowsRight
<1>. QED BY <1>1, <1>10 DEF RowsInv, LastRowRight

(* When the loops are through, the string is the answer.                     *)
LEMMA WholeListing ==
  ASSUME DumpsAssumed, DumpsInv, RowsInv, Dumps!ShowListing
  PROVE  listing' = Dumps!Answer
<1>1. /\ listing' = [extents |-> dumped, directs |-> directs, buckets |-> buckets]
      /\ dump_pc \in {"direct", "buckets"} /\ (dump_pc = "direct" => cursor = 0 /\ ~with_buckets)
      /\ (dump_pc = "buckets" => row = BucketCount_)
  BY DEF Dumps!ShowListing
<1>2. dumped = ExtentLines
  BY <1>1 DEF DumpsInv, ExtentsRight
<1>3. directs = DirectLines
  <2>1. CASE dump_pc = "direct"
    <3>1. Progress(Dumps!DirectsRead, DirectLines, directs, 0)
      BY <1>1, <2>1 DEF RowsInv, DirectsRight
    <3>2. /\ Dumps!DirectsRead \in Seq(Nat \ {0}) /\ \A k \in DOMAIN Dumps!DirectsRead : Dumps!DirectsRead[k] # 0
          /\ DirectLines \in Seq({Dumps!DirectLine(d) : d \in Nat}) /\ Len(DirectLines) = Len(Dumps!DirectsRead)
      BY LinesOfDirects DEF DumpsInv
    <3>. QED BY <3>1, <3>2, ProgressEnds
  <2>2. CASE dump_pc = "buckets"
    BY <2>2 DEF RowsInv, DirectsRight
  <2>. QED BY <1>1, <2>1, <2>2
<1>4. CASE dump_pc = "direct"
  <2>1. buckets = <<>>
    BY <1>4, NoRows
  <2>. QED BY <1>1, <1>2, <1>3, <1>4, <2>1 DEF Dumps!Answer, ExtentLines, DirectLines
<1>5. CASE dump_pc = "buckets"
  <2> DEFINE S == {i \in Rows : ~Dumps!Unused(i)}
             n == Len(buckets)
             f == [k \in 1..n |-> buckets[k].index]
  <2>1. /\ buckets \in Seq(BucketLines) /\ InOrder(buckets) /\ row = BucketCount_ /\ BucketCount_ \in Nat
        /\ with_buckets
    BY <1>1, <1>5 DEF DumpsInv, BucketsRight, RowsInv, DirectsRight, DumpsAssumed, Dumps!CountsAssumption
  <2>2. /\ \A i \in S : \E k \in DOMAIN buckets : buckets[k].index = i
        /\ \A k \in DOMAIN buckets : ~Dumps!Unused(buckets[k].index) /\ buckets[k] = RowShown(buckets[k].index)
    BY <1>5, <2>1 DEF RowsInv, RowsRight, Rows
  <2>3. S \in SUBSET Nat /\ n \in Nat /\ DOMAIN buckets = 1..n
    BY <2>1 DEF Rows
  <2>4. \A k \in 1..n : buckets[k].index \in S
    <3>1. ASSUME NEW k \in 1..n PROVE buckets[k].index \in Rows
      BY <2>1, <2>3, RowOfLine, PartsOfLine
    <3>. QED BY <2>2, <2>3, <3>1
  <2>. HIDE DEF S, n
  <2>5. /\ f \in [1..n -> S] /\ \A j, k \in 1..n : j < k => f[j] < f[k]
        /\ \A i \in S : \E k \in 1..n : f[k] = i
    BY <2>1, <2>2, <2>3, <2>4 DEF InOrder
  <2>6. Ascending(S) = f
    <3>. HIDE DEF f
    <3>. QED BY <2>3, <2>5, AscendingIs
  <2>7. Dumps!Ascending(S) = Ascending(S)
    BY Zenon DEF Dumps!Ascending, Ascending, Dumps!Cardinality, Cardinality
  <2>8. Dumps!Answer.buckets = [k \in DOMAIN f |-> RowShown(f[k])]
    BY <2>1, <2>6, <2>7 DEF Dumps!Answer, RowShown, BucketLine, At, S, Rows
  <2>9. [k \in DOMAIN f |-> RowShown(f[k])] = buckets
    <3>1. DOMAIN f = 1..n /\ \A k \in 1..n : RowShown(f[k]) = buckets[k]
      BY <2>2, <2>3
    <3>. QED BY <2>1, <2>3, <3>1
  <2>10. Dumps!Answer = [extents |-> ExtentLines, directs |-> DirectLines, buckets |-> Dumps!Answer.buckets]
    BY DEF Dumps!Answer, ExtentLines, DirectLines
  <2>. QED BY <1>1, <1>2, <1>3, <2>8, <2>9, <2>10
<1>. QED BY <1>1, <1>4, <1>5

(* An allocator command shows every extent, and every bucket in use with     *)
(* each of its pages, at once: the safety part of AllocatorWhole.            *)
THEOREM AllocatorShowsAnswers == ASSUME DumpsAssumed PROVE Dumps!Spec => Dumps!AllocatorConsole!Steps
<1>1. Dumps!Init => RowsInv /\ Dumps!AllocatorConsole!Init
  BY DEF Dumps!Init, RowsInv, DirectsRight, RowsRight, LastRowRight, Dumps!AllocatorConsole!Init
<1>2. ASSUME DumpsInv, RowsInv, [Dumps!Next]_(Dumps!vars)
      PROVE  RowsInv' /\ [Dumps!AllocatorConsole!Ask \/ Dumps!AllocatorConsole!Show]_(Dumps!AllocatorConsole!console)
  <2>1. ASSUME UNCHANGED <<memory, unreadable, sentinel, allocator, with_buckets, listing>>, (dump_pc # "idle")' = (dump_pc # "idle")
        PROVE  UNCHANGED Dumps!AllocatorConsole!console
    BY <2>1, RowsStay DEF Dumps!AllocatorConsole!console
  <2>2. CASE \E a \in {0, memory.allocator}, b \in BOOLEAN : Dumps!Command(a, b)
    <3>1. PICK a \in {0, memory.allocator}, b \in BOOLEAN : Dumps!Command(a, b)
      BY <2>2
    <3>2. Dumps!AllocatorConsole!Ask
      BY <3>1 DEF Dumps!Command, Dumps!AllocatorConsole!Ask
    <3>. QED BY <1>2, <3>1, <3>2, RowsBegin
  <2>3. CASE Dumps!DumpExtent \/ Dumps!ExtentsDone \/ Dumps!DumpDirect \/ Dumps!DirectsDone
    <3>1. /\ UNCHANGED <<memory, unreadable, sentinel, allocator, with_buckets, listing>>
          /\ dump_pc # "idle" /\ dump_pc' # "idle"
      BY <2>3 DEF Dumps!DumpExtent, Dumps!ExtentsDone, Dumps!DumpDirect, Dumps!DirectsDone, Dumps!target, Dumps!asked,
                  Dumps!output
    <3>. QED BY <1>2, <2>1, <2>3, <3>1, RowsDirect
  <2>4. CASE Dumps!DumpBucket
    <3>1. /\ UNCHANGED <<memory, unreadable, sentinel, allocator, with_buckets, listing>>
          /\ dump_pc # "idle" /\ dump_pc' # "idle"
      BY <2>4 DEF Dumps!DumpBucket, Dumps!target, Dumps!asked
    <3>. QED BY <1>2, <2>1, <2>4, <3>1, RowsOpen
  <2>5. CASE Dumps!DumpPage
    <3>1. /\ UNCHANGED <<memory, unreadable, sentinel, allocator, with_buckets, listing>>
          /\ dump_pc # "idle" /\ dump_pc' # "idle"
      BY <2>5 DEF Dumps!DumpPage, Dumps!target, Dumps!asked
    <3>. QED BY <1>2, <2>1, <2>5, <3>1, RowsGrow
  <2>6. CASE Dumps!PagesDone
    <3>1. /\ UNCHANGED <<memory, unreadable, sentinel, allocator, with_buckets, listing>>
          /\ dump_pc # "idle" /\ dump_pc' # "idle"
      BY <2>6 DEF Dumps!PagesDone, Dumps!target, Dumps!asked, Dumps!output
    <3>. QED BY <1>2, <2>1, <2>6, <3>1, RowsClose
  <2>7. CASE Dumps!ShowListing
    <3>1. /\ UNCHANGED <<memory, unreadable, sentinel, allocator, with_buckets>>
          /\ dump_pc # "idle" /\ dump_pc' = "idle"
      BY <2>7 DEF Dumps!ShowListing, Dumps!target, Dumps!asked
    <3>2. RowsInv'
      BY <3>1 DEF RowsInv, DirectsRight, RowsRight, LastRowRight
    <3>3. listing' = Dumps!Answer /\ Dumps!Answer' = Dumps!Answer
      BY <1>2, <2>7, <3>1, WholeListing, RowsStay
    <3>4. Dumps!AllocatorConsole!Show
      BY <3>1, <3>3 DEF Dumps!AllocatorConsole!Show
    <3>. QED BY <3>2, <3>4
  <2>8. CASE UNCHANGED Dumps!vars
    <3>1. /\ UNCHANGED <<memory, unreadable, sentinel, allocator, with_buckets, listing>>
          /\ UNCHANGED <<dump_pc, dump_root, cursor, row, directs, buckets>>
      BY <2>8 DEF Dumps!vars, Dumps!target, Dumps!asked, Dumps!output
    <3>2. UNCHANGED Dumps!AllocatorConsole!console
      BY <2>1, <3>1
    <3>3. /\ Dumps!DirectsRead' = Dumps!DirectsRead /\ DirectLines' = DirectLines
          /\ \A i : /\ Dumps!Unused(i)' <=> Dumps!Unused(i)
                    /\ PageChain(i)' = PageChain(i) /\ RowShown(i)' = RowShown(i)
                    /\ Dumps!PagesRead(At(i))' = Dumps!PagesRead(At(i))
                    /\ Dumps!Lines(PageChain(i))' = Dumps!Lines(PageChain(i))
      BY <3>1, RowsStay
    <3>4. DirectsRight' /\ RowsRight'
      BY <1>2, <3>1, <3>3 DEF RowsInv, DirectsRight, RowsRight, Progress
    <3>5. LastRowRight'
      <4>1. PICK n : n = row - 1
        OBVIOUS
      <4>2. row' - 1 = n
        BY <3>1, <4>1
      <4>3. dump_pc = "pages" =>
              /\ Dumps!PagesRead(At(n)) = Dumps!Lines(PageChain(n))
              /\ Progress(PageChain(n), Dumps!Lines(PageChain(n)), buckets[Len(buckets)].pages, cursor)
        BY <1>2, <4>1 DEF RowsInv, LastRowRight
      <4>4. dump_pc' = "pages" =>
              /\ Dumps!PagesRead(At(n))' = Dumps!Lines(PageChain(n))'
              /\ Progress(PageChain(n), Dumps!Lines(PageChain(n)), buckets[Len(buckets)].pages, cursor)'
        BY <3>1, <3>3, <4>3 DEF Progress
      <4>. QED BY <4>2, <4>4 DEF LastRowRight, Progress
    <3>. QED BY <3>2, <3>4, <3>5 DEF RowsInv
  <2>. QED BY <1>2, <2>2, <2>3, <2>4, <2>5, <2>6, <2>7, <2>8 DEF Dumps!Next, Dumps!Run
<1>. QED BY <1>1, <1>2, DumpsInvariant, PTL DEF Dumps!Spec, Dumps!AllocatorConsole!Steps

==============================================================================
