# A verification of the `!cr` debugger extension

The repository is a WinDbg extension of about 3700 lines of C++. Its commands
read the memory of a Chromium process through the debugger and print Blink's
and PartitionAlloc's data structures: the DOM and layout trees, Oilpan pages,
slot spans, buckets, allocators. This directory holds TLA+ modules of the
parts of it that decide *what is printed*, TLC configurations that check them
on small instances, and TLAPS proofs of the properties that matter most.

## The system

The extension is a DLL. The debugger calls one exported function per command;
a command runs to its end before the next one starts, and the target stands
still meanwhile. There are no threads, locks or messages. What makes the code
hard is something else:

* **State that outlives a command.** Offsets, addresses, class names and the
  target's bitness are asked for once and kept in statics that nothing ever
  clears. Between two commands the debugger can load another `chrome_child`,
  gain or lose its symbols, or let the target run.
* **Partial failure.** Every read of memory and every question about symbols
  can fail. Almost no caller looks: `ReadValue` and `ReadPointerEx` zero their
  result first, so an unreadable member is 0; `operator[]` on an `offsets_`
  map inserts 0 for a name it lacks.
* **Addresses computed from addresses.** `!slot`, `!ppage`, `!spage`, `!scan`
  go from an address to metadata and back with masks and shifts of the
  extension's own `size_t`.
* **Order and completeness of a listing.** Mutual recursion over trees, loops
  over chains and over headers whose sizes lead to the next header.

### Inventory

| Component | Source | State | Operations | Right when |
|---|---|---|---|---|
| Session statics | `object.cpp`, `common.h`, `typeinfo.cpp`, `threadstate.cpp` and each class's `offsets_` | `targetinfo_`, 38 `offsets_` maps, address and size globals, `node_size_`, `arena_count_`, `vt_to_class_` | constructor of `Object`, `load()` of each class, `ResolveType` | a dump uses the offsets and pointer size of the image it dumps; a wrong answer has one explainable origin |
| Target identification | `peimage.cpp`, `object.cpp` | a `CPEImage`, `targetinfo_` | `Initialize`, `LoadVersion`, `InitializeTargetInfo` | nothing known until all is, and then it is true |
| DOM tree | `dom.cpp` | recursion over `Node` objects | `!dom` | every node once, in document order, under its parent; losses explained |
| Layout tree | `layout.cpp` | recursion over `LayoutObject` objects | `!lay` | the same |
| Oilpan page scan | `oilpan.cpp` | arena, header cursor, start bitmap | `!scan [-bitmap]` | steps from block to block and stops only where it must |
| Oilpan arenas, pages, chunks | `oilpan.cpp` | a `BaseArena` and loops over two chains of pages and 17 of chunks | `!arena`, `!hpage`, `!chunk` | each page and chunk once, with its kind and size; what one command lists the others find again |
| Oilpan heap, pool, region tree | `oilpan.cpp` | loops over arenas and pools, the recursion over the region tree | `!heap`, `!pool` | all arenas, pools and regions; one command counts what the other lists |
| Slot spans | `partitions.cpp` | free list, chain of active pages, sentinel address | `!ppage`, `!slot`, `!bucket`, `!spage` | what one command prints and the next computes from it fit together |
| Allocators | `partitions.cpp` | four address statics, bucket size and count; loops over extents, direct mapped extents and buckets | `!fast_malloc_allocator` and three more, `-buckets` | the bucket array listed is the allocator's; everything in the partition is listed |
| Persistent handles | `threadstate.cpp` | loops over the blocks of a region and their slots | `!ts`, `!persistent` | each handle in use once, at its slot |
| Entry points | `dllmain.cpp`, `cr.def` | none of interest | `!help`, registration | -- |

Components meet in three places. Every class asks the *session statics* for
its offsets, and every `Object` constructor runs *target identification* until
it has succeeded once. The layout tree takes class names from the vtable map;
arenas and their pages take their classes from it too. The commands of one
heap (`!ppage`, `!slot`, `!bucket`, `!spage`; `!arena`, `!hpage`, `!chunk`,
`!scan`; `!heap` and `!pool`; `!ts` and `!persistent`) hand addresses to one
another through the user, who copies them off the screen.

`PROJECT.json` lists the hazards, each at its line, with the properties that
would catch it.

## Modules

| Module | What it is |
|---|---|
| `WriteOnce` | abstract: what a lazily filled static promises |
| `SymbolCache` | the session statics; implements `WriteOnce` four times |
| `VersionProbe` | abstract: what finding out about the target promises |
| `PEImage` | `CPEImage` and `InitializeTargetInfo`, one action per `ReadMemory`; implements `VersionProbe` |
| `Listing` | abstract: a command prints the lines of one listing in order, each once, and ends |
| `Console` | abstract: a command that builds its output in a string shows nothing, then all of its answer, and ends |
| `Chains` | linked lists and what is left of them when links cannot be read |
| `TreeDump` | the walk `!dom` and `!lay` share; implements `Listing` |
| `Dom`, `Layout` | what the walk reads in each of them, from a heap with unreadable cells |
| `BlinkPage` | geometry of an Oilpan page, encoding of the object header |
| `HeapScan` | `!scan` in both modes over `BlinkPage`; implements `Listing` |
| `PartitionMap` | geometry of PartitionAlloc |
| `PartitionDump` | a session of `!ppage`, `!slot`, `!bucket`, `!spage` over `PartitionMap` |
| `Allocators` | a session of the four allocator commands with their statics |
| `AllocatorDump` | what those commands list once they know root and buckets; implements `Console` |
| `Arenas` | a session of `!arena`, `!hpage`, `!chunk` over `BlinkPage`; `!arena` implements `Console` |
| `ThreadHeap` | a session of `!heap` and `!pool`; each implements `Console` |
| `Persistent` | a session of `!ts` and `!persistent`; `!persistent` implements `Console` |
| `MC*` | instances for TLC |
| `SymbolCache_proofs` | proofs about `SymbolCache` and `PEImage` |
| `HeapScan_proofs`, `PartitionDump_proofs`, `Persistent_proofs` | proofs about the module of that name |
| `Chains_proofs` | lemmas about linked lists and the loops that follow them, and about finite sets in which every path ends |
| `Trees_proofs` | proofs about `TreeDump`, `Dom` and `Layout` |
| `Oilpan_proofs` | proofs about `Arenas` and `ThreadHeap` |
| `Allocators_proofs` | proofs about `Allocators` and `AllocatorDump` |

### How state and actions correspond to the code

`SymbolCache`. A class is its loader: `offsets_` is one function from pairs
class, field to an offset or `Unset`. The 38 maps of the code are the members
of the constant `Classes`, in four kinds. `LoadGuarded` is a `load()` that tests
its address before it indexes the map (PartitionAlloc, Oilpan, persistent
handles), `LoadUnguarded` the `Load()` of DOM and layout, which indexes it
whatever the address. Two classes go their own ways. `Roots` stands for
`PartitionRootGeneric`: its load keeps the offset of the bucket array found or
not, and never indexes it (`LoadRoot`, which stops halfway for the images of
`OtherCount`); `dump_buckets` indexes it outside any load (`DumpBuckets`).
`Specifics` stands for `SizeSpecificPartitionAllocator1024`, which loads like a
guarded class if its array is found. If the array is not, both have kept an
offset of 0 when the division by the size of a bucket ends the command
(`LoadDies`), null address or not. How the commands reach these two classes,
and their bucket sizes and counts, are in `Allocators`. Every load is one action,
as the target stands still. A question to the debugger is answered exactly if
`engine()` is known (an empty module name finds nothing), `chrome_child` is
mapped and its symbols are there. `node_size_` of the persistent handles and
`arena_count_` of the heap are learnt in the same block as the offsets of their
class and never again; they count as fields of it, the `Sizes`, which do not
make a map non-empty. `arena_count_` is moreover one of the `Counted`: the bytes
of `arenas_` divided by the pointer size of `targetinfo_` at that moment.
`source`, `indexed` and `seen` are history.

`PEImage`. One action per read; `ok` says whether it succeeds. `pc` is the
read that comes next. `Init` and `Fresh` choose `platform_` freely, since
`platform_(platform_)` initialises it with itself. A resource directory is a
pair of sequences, so that "the first entry" and "the first entry with an id"
differ as they do in memory. If `Initialize` fails between the machine and the
resource directory, `IsInitialized()` is true and `LoadVersion` starts at the
image base: that is `DosHeader`.

`TreeDump`, `Dom`, `Layout`. `links` is what each address reads as: the
loaders of `Dom` and `Layout` compute it from a heap, the flags (or the vtable)
and the set of unreadable cells. `pending` is the stack of `child_addr`
variables of the active `Dump` calls; `CreateNode`'s choice of class decides
whether a node has children. `DumpChild` appends the line first, as `Dump`
does. `Return` is the end of one loop. `garbage` in `Layout` is the word an
uninitialised `node_` holds. A tree is what `IsTree` says of parent, first child
and next sibling; `Path` and `Within`, the nodes above one and the forest a
node starts, are given as least closed sets and not by recursion, so that the
proofs can use them.

`HeapScan`. `LoadPage` is `BasePage::create` and the load of the page and
bitmap, `LoadArena` the load of its arena, `ScanHeader` a turn of the loop in
`scan`, `ScanBit` a call of the function `for_each` takes. A header word is put
together by `Encoded`, as Blink does, and taken apart by `Decoded`, as the
masks of `HeapObjectHeader` do.

`PartitionDump`. One action starts a command; `Resolve` is the recursive call
of `PartitionPage::dump` on the record `page_offset` leads to, `FreeSlot` and
`ActivePage` are turns of the two loops, `ChainEnd` their end. `sentinel` is 0
if its symbol cannot be resolved. `ByteSwap` is the target's byte order swap, a
constant operator that need only undo itself on the addresses in use. A
division by `slot_size` 0 ends a command, recorded in `raised`.

`Allocators`. `Command` is `dump_allocator` up to the address; `LoadGeneric`,
`LoadRoot`, `LoadSpecific`, `LoadBase` are the `load()` of each class, in the
order of the calls; `Dump` prints. `LearnBuckets` sets size and count the way
both classes do, including the division by zero without symbols. `offsets_` has
one field for each map entry the commands use (first_extent and
direct_map_list, read together, are the field `extents`).

`AllocatorDump` takes over where `Allocators` ends. `DumpExtent`, `DumpDirect`
and `DumpPage` are turns of the three loops over chains, `DumpBucket` a turn of
the loop in `dump_buckets` with the call of `dump_pages` and its test for the
sentinel; `ShowListing` is the one `dprintf` at the end. The mark `!` is taken
from the head of the list for every page of it, as the code does.

`Arenas`. A `BaseArena` is the record `arena`; its class is what
`BaseArena::create` finds. `DumpPage` is a turn of the loop in
`dump_page_chain`, `DumpChunk` one of the loop over a Blink free list.
`BasePage::create` returning null is the class `"none"`, and the call through it is
`DieOfNullPage`: the debugger catches the access violation and what was
in the string is lost. `EmptyArena(garbage)` is the arena of `!arena 0`, whose
`first_unswept_page_` nobody has initialised. `HPage` and `Chunk` read a page
and no chain and are one action each.

`ThreadHeap`. `heap` is what `ThreadHeap::load` finds. `CountEntry` and
`DumpPool` are the two loops of `PagePool::dump`; `calls` is the stack of
`RegionTreeNode::dump`, each call with the subtrees it has not visited yet.
`DumpEntry` is a turn of `!pool`.

`Persistent`. `src` is the address the loop over a block reads from, which the
code moves on by `node_size_`; `DumpSlot` is a turn of it, with the handle it
loads for a node in use.

## Runs

| Run | Properties | What it shows |
|---|---|---|
| `session` | `OffsetsExplained`, `DumpRight`, `AnswersFromSeen`, `SpoiltOnlyByUse`, `CachesWriteOnce` | every entry of a map goes back to one moment; a class the mapped image answered is read right for good, unless `targetinfo_` is that of another image with other pointers; only a command that indexes a map, or dies over its bucket array, can spoil a class; all four kinds of static are write-once |
| `version_probe` | `CleanAttemptDecides`, `TellsTheTruth`, `AttemptEnds` | no failed read, wherever it strikes, makes the extension believe something false; an attempt without one finds exactly what the image has; each attempt ends |
| `dom` | `NothingForgotten`, `EveryLineTrue`, `LossExplained`, `StartListed`, `DumpsDocument` | document order and depth of every tree; what one unreadable cell can hide or change; the node asked for is missing only in a shadow tree |
| `layout` | `EveryLineTrue`, `LossExplained`, `DumpsDocument` | the same for `!lay`, with the classes `CreateNode` does not know |
| `heap_scan` | `BlocksInOrder`, `StopExplained`, `ListsPage` | `!scan` never reads a header from the middle of an object, and a short listing has one of three causes |
| `arenas` | `DeathExplained`, `CurrentMarked`, `RoundTrip`, `AnswersWhole` | `!arena` shows all of its chains or dies of a page it cannot identify, and only then; the mark `#` stands at the page of the allocation point; `!hpage` and `!chunk` find again what `!arena` lists |
| `heap` | `PoolAgrees`, `PagesPlaced`, `HeapWhole` | `!heap` counts what `!pool` lists; a free page lies where its index says; the region tree is shown in preorder, with its depths |
| `persistent` | `SlotsAccounted`, `BackLinked`, `HandlesOfThread`, `HandlesWhole` | every slot of a block is listed, free or unreadable; the node a handle names is the slot of its line; the handles are those of the thread `!ts` was asked about |
| `partition_pages` | `FreeListShown`, `RoundTrip`, `BucketShown`, `RaisedExplained`, `SuperPageAgrees`, `CommandEnds` | the four commands agree on which page an address, a record and a row belong to; free lists and active lists are shown in order, cut only at an unreadable link; division by zero only where it must be |
| `allocators` | `NeverWrongBuckets`, `CleanSessionLists` | `-buckets` lists the right array or none; in a session with symbols and no null allocator no order of commands spoils the next |
| `allocators_null` | `BucketsListed` (violated) | see findings |
| `allocator_dump` | `ListingSound`, `AllocatorWhole` | both chains of extents and every used bucket are listed with their own pages, all of them inside the extents listed |

A run does not check what a theorem already says of the same instance and more
(the type invariants of `SymbolCache`, `TreeDump`, `HeapScan` and `Persistent`,
and `NothingInvented`). A property that is a conjunction (`EveryLineTrue`,
`RoundTrip` of `Arenas`, `ListingSound`, `HeapWhole`) has its parts named and
stated one by one in its module.

Every property of a passing run has a mutant of a modelled definition that
violates it: a dropped guard, a swapped order, an offset not added.

### Bounds

* `session`: two images of different bitness, one class of each of the four
  kinds with one or two fields (one at offset 0, two that the second image
  lacks, one a number of pointers), the second image with another number of
  generic buckets; one global, one vtable. One class of a kind is enough because
  loaders share nothing but the debugger and `targetinfo_`; that they do not
  share a map is what the mutant of `OffsetsExplained` undoes. Sessions are
  unbounded: the state space is finite.
* `version_probe`: images of all machines and one image for each thing that
  can be wrong with a version resource; every pattern of failing reads.
* `dom`, `layout`: every tree of four nodes (and for `dom` every choice of
  shadow roots, for `layout` of unknown classes), every starting address, no or one
  unreadable cell. Four nodes are the fewest with a sibling after a subtree of
  depth two. The proofs are for any number.
* `heap_scan`: real page and header sizes, up to four blocks, one longer than
  2^16 so that every bit of the size mask matters, each place for the
  allocation point, no or one unreadable cell. `SizeT` is scaled down to four
  pages, since 2^32 is beyond TLC's integers: an address past it stands for a
  64-bit address in an x86 build of the extension.
* `arenas`: real sizes of pages and headers, a normal arena of three pages in
  three splits into active and unswept ones, a large object that goes on beyond
  its first 128 KB, chunks in the first, a middle and the last free list, the
  allocation point inside a page, at the end of one, or null; each cell a command
  depends on unreadable once, and one pair of them. `Probes` are the ends of
  pages, the bytes on both sides of them, and three addresses of the large object.
* `heap`: three arenas with an empty pool, one entry, and three entries in two
  regions; four regions in a balanced tree, a zigzag, a list to the left and one
  that begins to the right. `Word` and `IndexSize` are scaled to 32 and 16
  pages, so that a missing base makes an index wrap as it does at 2^64 and 2^32.
  One region lies 16 pages above another: with both bases unreadable, pages of
  the two show the same index.
* `persistent`: three slots a block instead of 256 (first, middle, last), two
  blocks in one region and one in the other, 16 choices of free nodes, one
  handle that points to nothing.
* `allocator_dump`: two extents of two super pages and of one, two direct mapped
  extents, three buckets of which one may be a place without a valid size; each
  kind of cell unreadable once, with and without the sentinel's address.
* `partition_pages`: real sizes, three spans of three partition pages, the
  first and the last that fit in a super page and one between; slots that
  straddle partition pages; free lists in and out of order; pointers of four bytes
  whose swap fits in TLC's integers.
* `allocators`: two of the three generic allocators, which share a class, the
  specific one, the build the extension is made for and one with more buckets.

`CHECK_DEADLOCK FALSE` stands in the runs of single commands (`dom`, `layout`,
`heap_scan`), which end. Deadlock is checked in the runs of sessions.

### Fairness

A command that has started runs to its end, because the debugger calls it as a
function and nothing in it waits: weak fairness on the steps of the running
command (`Next` where the module is one command, `Run` where it is a session;
`Console` promises the end of every command that has started). In
`PEImage` it is stated of the reads that succeed, so that a search cannot be
rescued by a read that fails. No fairness is assumed of the user, who need not type
another command, nor of the debugger. `SymbolCache` and `Allocators` make no
liveness claim and assume none.

## Findings

* `allocators_null`: README.md:51-62 of the repository shows
  `!buffer_allocator -buckets` listing buckets. After one `-buckets` on an
  allocator that is still null (the target stopped before Blink set it up),
  every later `-buckets` of a generic allocator lists nothing, until the
  extension is reloaded: `dump_buckets` (partitions.cpp:625) indexes the empty
  `offsets_`, which makes it non-empty, and the bucket count stays 0.

Other behaviour a user should know of is stated inside passing properties: a
class first *read* without symbols has offset 0 everywhere for the rest of the
session (`OffsetsExplained`), and the allocator of `!layout_allocator` even if it
was null (`SpoiltOnlyByUse`); the number of arenas of a 64-bit image is twice too
great if `targetinfo_` is still that of a 32-bit one (`DumpRight`); `!dom` on a node in a shadow tree does not list
that node (`StartListed`); an unknown layout class hides its children
(`LossExplained`); a scan ends at an allocation point with nothing left
(`StopExplained`); without its symbol the sentinel is listed as a page
(`BucketShown`); one page whose vtable cannot be read costs all of an arena's listing
(`DeathExplained`); free pages of two regions whose bases both cannot be read
may show the same index, as it is cut to 32 bits (`OwnPlace`); of a large object only the first 128 KB lead back to its
page (`RoundTrip` of `Arenas`); the mark `!` behind a page of a bucket says
that the first page of the list has slots never used, not that this one
has (`MarksSound`). With another number of buckets than the
extension is made for, the first command prints "Bucket size mismatch"
(partitions.cpp:587) and shows no root; the commands after it skip the check,
and list the buckets the target has (`NeverWrongBuckets` holds of them too).

## Proofs

TLAPS checks the following for all values of the constants, from the named
assumptions of the modules only. Those on constants say what a memory, a page
or a build is.

| Theorem | States | Argument |
|---|---|---|
| `TypeCorrect` | `[]TypeOK` of `SymbolCache` | inductive; a failed question leaves `Unset`, never another value |
| `OffsetsAlwaysExplained`, `DumpAlwaysRight`, `AnswersAlwaysFromSeen`, `OnlyUseSpoils` | the properties of run `session` | `Explained`: types, every mapped image is seen, a class with a source has an entry (`SourceHasEntry`), and what it still lacks its image lacks too, or no command indexes it (`LackIsReal`). `OffsetsExplained` alone is not inductive: a later index could put 0 where the image has an offset, and `InitializeTargetInfo` may follow, so that without "a class answered by an image means `targetinfo_` is known" the pointer size would be free. The steps that touch a map are taken together (`TouchKeeps`, `TouchFills`, `TouchIndexes`). Assumed of the builds (`ConstantsOK`): one that has the size of a class has one of its fields too |
| `StaticsAreWriteOnce` | `Spec => CachesWriteOnce` | initial states and steps map to those of `WriteOnce` |
| `AttemptsDecide`, `AttemptsTellTheTruth` | `Spec => CleanAttemptDecides` and `Spec => TellsTheTruth` of `PEImage`, as the instance `Attempt` | `AttemptInv`: the entry in hand is the one on the way to the version (`Type`, `Name`, `Language`), and no entry the search has passed is the one it looks for (`SearchRight`); without a resource directory, which only a failed read can cost it, `LoadVersion` does not come beyond the DOS header (`ResourcesRight`) |
| `WalkTypes`, `NothingIsInvented`, `NothingIsForgotten`, `LabelsAreLoaded` | the walk, for links of any shape | the pending children are below the root too (`WithinClosed`); what is below the root is printed, pending or null (`NoneForgotten`); a line's label is what its address reads as |
| `DomWalks`, `LayoutWalks` | each `Spec => WalkSpec` | the loaders only produce links between addresses |
| `DomComplete`, `LayoutComplete` | completeness of `!dom`, `!lay` | the facts above |
| `DomStaysInPlace`, `LayoutStaysInPlace` | the inductive invariant of both commands over a tree of which cells are missing | `InPlace`: no node twice among the lines; each line below its parent's, and led to by a node already printed (`PrintedHang`); each pending child unprinted, pending once, and at the depth its frame stands for (`PendingHang`). That a child cannot come up twice is where the tree is needed: it is first child or next sibling of one node only |
| `DomLinesTrue`, `LayoutLinesTrue` | `[]EveryLineTrue` | from `InPlace` and the labels |
| `DomLossExplained`, `LayoutLossExplained` | `[]LossExplained` | the nodes reached before the first lost link are closed under the links that could be read, and `Within` is the least such set |
| `WalkDumps`, `DomDumpsDocument`, `LayoutDumpsDocument` | `Dump!Steps`, and `out = Document` at the end, for links on which every path ends, and for what the two commands read of any tree | the frames still pending owe the document its rest, each the forest of its child at its own depth (`Owed`). `Forest` and `Root` are defined for such links because every part of a finite set has a node that leads to nothing in it (`Grounded`, `LeavesExist`); a tree keeps this however many of its links are lost (`RemainsGrounded`) |
| `DomStartListed` | `[]StartListed` | the climb follows the path of the node (`Climbing`), and without a lost link the dump goes back along it unless a shadow root stands on it |
| `PayloadAligned`, `PageOfPayload` | the geometry of Oilpan pages | arithmetic |
| `ScanTypes`, `ScanInOrder`, `ScanStopExplained` | the safety properties of `!scan`, for every page | `ScanInv`: the cursor stands on the head of the block after the last line, and the size is 0 only if the last block's size is lost; the header survives `Encoded` and `Decoded` |
| `ScanListsPage`, `ScanListsAll` | `Spec => PageListing!Steps`, and `lines = Wanted` at the end | what is left of the listing is `BlocksFrom` of the cursor, or the marked blocks above the bit the loop has come to. That the recursive `BlocksFrom` is defined for every page is proved from its blocks alone: each leads to a higher one (`LeavesFirst` of `Chains_proofs`) |
| `SlotLeadsBack` | `[]RoundTrip` of `PartitionDump` | the record of partition page i is one of the span's, and `page_offset` counts back to its first |
| `SuperPageTableAgrees` | `[]SuperPageAgrees` | record and payload start are inverse within a super page |
| `DivisionsExplained` | `[]RaisedExplained` | the record a command resolves to is the head of its span unless `page_offset` is lost, and a head has a bucket with a size unless one of them is unreadable |
| `FreeListsShown`, `BucketsShown` | `[]FreeListShown`, `[]BucketShown` | `WalkIsPrefix`: what is printed is the list up to the link read last, and the cursor is what that link reads as. The end of the walk is the least place at which a link is lost, which exists by well-founded induction on the naturals |
| `ListsRightOrNothing` | `[]NeverWrongBuckets` | `AllocInv`: a class that knows its bucket count learnt size, offset and root offset from the same symbols (`LearntTogether`), because the root offset can be wrong only when it is too late to learn the count, or in a load that has no symbols (`RootInTime`) |
| `CleanSessionsList` | `[]CleanSessionLists` | `CleanInv`: in a session that has had its symbols so far, what is kept is right (`KeptRight`), and the running command has found what it went for (`Found`) |
| `HandleTypes`, `EverySlotAccounted`, `HandlesLeadBack`, `HandlesOfTheThread` | the invariants of run `persistent` | `PersistentInv`: the slots behind the cursor of the loop are accounted for in the block printed last (`LoopsRight`), all slots in those before (`BlocksRight`); `SlotsAccounted` speaks of the screen only and is not inductive |
| `HandlesAreShownWhole` | `Spec => PersistentConsole!Steps` | the headings in the string are the first blocks of the region's chain, and the block to come is the next (`ChainRight`); when its slots are through, a block shows the slots in use in the only ascending order they have (`AscendingIs` of `Chains_proofs`) |
| `ArenasInvariant` | `IInv` of `Arenas` | the arena in hand is the one asked for, or that of null (`ArenaRight`); what is in the string is the first lines of a chain, and the cursor is on the next member of it (`WalkRight`, by `Progress` of `Chains_proofs`); the screen shows nothing or the answer (`ScreenRight`) |
| `DeathsExplained`, `CurrentIsMarked`, `RoundTrips` | the invariants of run `arenas` | from `IInv`, since a listing that is complete is made of pages and chunks of the arena; and from the geometry of pages for `RoundTrips` |
| `ArenaShowsAnswers` | `Spec => ArenaConsole!Steps` | `!arena` shows the lines of every chain at once, or dies: only that it comes to an end is left to TLC |
| `HeapsInvariant` | `HeapsInv` of `ThreadHeap`, and `PoolConsole!Steps` | the counter of `PagePool::dump` is the number of members before its cursor (`Counting`), and `!pool` has printed exactly the lines of those before its own (`ListRight`) |
| `PoolsAgree`, `PagesArePlaced` | `[]PoolAgrees`, `[]PagesPlaced` | both loops end at the same length of the same chain; two pages of one region are less than 2^32 pages apart, so that cutting the index does not make them one (`SameIndex`) |
| `HeapShowsAnswers` | `Heaps!Spec => HeapConsole!Steps` | `ShownInv`: the arenas before the loop's index are listed (`ArenasRight`), so are the pools that have an entry, in the only ascending order there is (`PoolsRight`, `AscendingIs`), each with the count `HeapsInv` knows; what has been printed of the region tree, followed by what the calls that have not returned owe, is the tree in preorder (`Showing`, `Owing`). `TreeLines` is defined, because each region is a level below its parent (`TreeLinesExist`) |
| `DumpsInvariant` | `DumpsInv` of `AllocatorDump` | the extents printed are the first ones of the chain; each row has its own index, greater than those before, and pages of its own bucket or the sentinel (`Opened`), the last of them the one before the cursor |
| `ListingsAreSound` | `[]ListingSound` | two rows are two buckets, which share no page; an extent's length is a number of super pages that survives the cut to 32 bits |
| `AllocatorShowsAnswers` | `Spec => AllocatorConsole!Steps` | every row in use that the loop has passed is there, and is what it should be unless its pages are being listed (`RowsRight`); those are the first pages of the bucket's list, and the cursor is on the next (`LastRowRight`) |

The assumptions are those the modules name: `HeapsOK`, `PagesAssumption`,
`MemoriesAssumption` and the like say that memory is laid out as Chromium does,
apart from what cannot be read. `MemoriesAssumption` of `PartitionDump` has the
sentinel outside the records of every span, since it is a static of the
image; without it an empty list and one that begins with that record could not be told
apart, by the code either. `CellsAssumption` says that a cell is a pair of a
member and an address, `HeapsAssumed`, `DumpsAssumed` and `AttemptsAssumed` that the modules
`ThreadHeap`, `AllocatorDump` and `PEImage` are given what they ask for; `IsTree` is what
a tree is. Some assumptions the runs never needed, because their instances are
small, and the proofs did:

* an extent has fewer than 2^32 super pages (`NumPages` cuts to 32 bits), does
  not begin at null, and nothing is mapped where the buckets of a null allocator would
  be (`AllocatorDump`; 2^47 bytes of address space and the pages Windows keeps
  free at its low end see to all three);
* what nobody initialised is an address, and a screen that shows nothing is
  not one that shows a command's death (`Arenas`);
* a page is in the pool of one arena only (`ThreadHeap`);
* the directories on each level of an image's resources are pairs of sequences
  (`ResourcesOK` of `PEImage`);
* a tree has finitely many nodes (`NodesFinite` of `TreeDump`), a region tree too, and
  a level for each (`ThreadHeap`);
* blocks begin on the allocation granularity, the page is not the one that begins at
  null, arguments are natural numbers, and the extension's `size_t` counts a whole
  number of Blink pages (`HeapScan`, `BlinkPage`).

The first form of `PagesPlaced` said that no two free pages have the same index and
region as shown. The proof did not go through, and a larger instance showed why:
with the bases of two regions unreadable, both show as 0 and an index cut to 32
bits may repeat. `OwnPlace` says what the code does guarantee, and the run has that
instance now.

Only model-checked:

* liveness (`AttemptEnds`, `CommandEnds`, the "and ends" of what implements
  `Listing` or `Console`), which the prover does not do under fairness;

So of every property that says a command implements `Listing` or `Console`
(`DumpsDocument`, `ListsPage`, `AnswersWhole`, `HeapWhole`, `HandlesWhole`,
`AllocatorWhole`) all but the end is proved, and it is only the end that rests on
the bounds of its run.

## Not modelled

* Formatting (`ptos`, column widths), `!help` and the registration of the DLL
  (`dllmain.cpp`, `cr.def`): no property is about them. `DumpImportTable` and
  `dump_bucket_lookup_table` have no caller.
* The build (`Makefile`). It has rules for x86 and amd64, and `SizeT` of
  `BlinkPage` and `PartitionMap` is the `size_t` of either. At this commit only
  amd64 can be meant: partitions.cpp:136 passes a `size_t` where `ReadPointerEx` takes
  a `ULONG64&`. What the runs show of addresses beyond `SizeT` is therefore
  about a build one would get once that compiles.
* Target memory that is not what Chromium lays out (cycles in a list, a
  size that is no multiple of the granularity): the modules say what holds for
  memory as Chromium leaves it, with some of it unreadable. The exceptions are
  `TreeDump` and its proofs, where links are arbitrary.
* Ctrl+C: no loop of the extension polls for it.

## Plan

The order put first what every command depends on, then the commands users
chain together: `WriteOnce`, `SymbolCache`; `VersionProbe`, `PEImage`;
`Listing`, `TreeDump`, `Dom`, `Layout`; `BlinkPage`, `HeapScan`;
`PartitionMap`, `PartitionDump`; `Allocators`; then `Console` and `Chains` with
`Arenas`, `ThreadHeap`, `Persistent` and `AllocatorDump`; and the proofs above.
All of that is done. What is left:

1. Composition: `Allocators` and `PartitionDump` as clients of `SymbolCache`,
   so that a stale sentinel address meets a new image.
2. Proofs: that what `!hpage` and `!chunk` of `Arenas` find agrees with `!scan`
   of the same page, across modules.
