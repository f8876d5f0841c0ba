----------------------------- MODULE SymbolCache -----------------------------
(***************************************************************************)
(* The state the extension keeps between commands, and the debugger it     *)
(* runs in.  Every class that mirrors a Chromium structure asks the        *)
(* debugger for its field offsets the first time it is loaded and keeps    *)
(* them in a static map; the bitness of the target, the addresses of a few *)
(* globals and the names of vtables are kept in the same way.  Nothing     *)
(* ever empties these statics, while the debugger can map and unmap        *)
(* chrome_child and gain and lose its symbols between any two commands.    *)
(***************************************************************************)
EXTENDS Naturals

CONSTANTS
  Images,    \* the chrome_child images (a build at a base) that may be mapped
  NoImage,   \* none is
  Is64bit,   \* Is64bit[i]: whether image i is a 64-bit one
  Classes,   \* the classes with a static offsets_ map
  Guarded,   \* those whose load() indexes nothing when given a null address
  Roots,     \* PartitionRootGeneric, which load() does not index at all
  Specifics, \* SizeSpecificPartitionAllocator1024
  Fields,    \* Fields[c]: the fields the loader of c asks for, and the sizes it
             \*   asks for with them (node_size_, arena_count_), kept likewise: a
             \*   size nothing answered is the 0 that an absent field reads as
             \*   (those of roots and specifics are in Allocators)
  Array,     \* Array[c]: the field of a root or specific that is a bucket array
  Sizes,     \* the cells <<c, f>> that are such sizes, not entries of a map
  Counted,   \* those that count the pointers in the bytes of a field
  OffsetOf,  \* OffsetOf[i][<<c, f>>]: an offset, or Unset if i's symbols lack it
  OtherCount,\* the images with another number of buckets than this is made for
  Unset,     \* no entry in an offsets_ map
  Globals,   \* the statics that hold an address or a size, 0 until known
  ValueOf,   \* ValueOf[i][g]: its value in image i
  VTables,   \* the vtable addresses met in target memory
  ClassAt,   \* ClassAt[i][v]: the class whose vtable image i has at v, or NoName
  NoName,    \* the empty class name
  Names      \* the class names

Cells == {k \in Classes \X UNION {Fields[c] : c \in Classes} : k[2] \in Fields[k[1]]}
CellsOf(c) == {k \in Cells : k[1] = c}
MapOf(c) == CellsOf(c) \ Sizes
ArrayOf(c) == <<c, Array[c]>>

(* A build that has the size of a class has one of its fields too.           *)
ASSUME ConstantsOK ==
  /\ NoImage \notin Images
  /\ Unset \notin Nat \cup Images \cup {NoImage}
  /\ NoName \notin Names
  /\ Guarded \subseteq Classes /\ Roots \subseteq Classes /\ Specifics \subseteq Classes
  /\ Guarded \cap Roots = {} /\ Guarded \cap Specifics = {} /\ Roots \cap Specifics = {}
  /\ Counted \subseteq Sizes
  /\ \A c \in Roots \cup Specifics : CellsOf(c) \cap Sizes = {} /\ ArrayOf(c) \in CellsOf(c)
  /\ \A k \in Sizes : \E j \in MapOf(k[1]) :
       \A i \in Images : OffsetOf[i][k] # Unset => OffsetOf[i][j] # Unset
  /\ Is64bit \in [Images -> BOOLEAN]
  /\ OffsetOf \in [Images -> [Cells -> Nat \cup {Unset}]]
  /\ ValueOf \in [Images -> [Globals -> Nat]]
  /\ ClassAt \in [Images -> [VTables -> Names \cup {NoName}]]

VARIABLES
  image,        \* the image the debugger has mapped as chrome_child, or NoImage
  pdb,          \* whether the debugger finds its symbols
  running,      \* whether a command is running
  targetinfo_,  \* the image whose facts Object::targetinfo_ holds, or NoImage
  offsets_,     \* the offsets_ maps of all classes
  globals_,     \* the address and size statics
  vt_to_class_, \* VTableMap::vt_to_class_; NoName for an absent or empty entry
  (* history variables *)
  indexed,      \* the cells the running command has used
  source,       \* source[c]: the image that answered when offsets_ of c got its
                \*   first entry, NoImage if nothing did, Unset if empty
  seen          \* the images mapped so far

debugger == <<image, pdb, seen>>
statics  == <<targetinfo_, offsets_, globals_, vt_to_class_>>
vars == <<debugger, statics, running, indexed, source>>

Init ==
  /\ image = NoImage /\ pdb = FALSE /\ seen = {}
  /\ running = FALSE
  /\ targetinfo_ = NoImage
  /\ offsets_ = [k \in Cells |-> Unset]
  /\ globals_ = [g \in Globals |-> 0]
  /\ vt_to_class_ = [v \in VTables |-> NoName]
  /\ indexed = {}
  /\ source = [c \in Classes |-> Unset]

------------------------------------------------------------------------------
(* The debugger.  The target stands still while a command runs. *)

MapImage(i) ==
  /\ ~running /\ image = NoImage
  /\ image' = i /\ seen' = seen \cup {i}
  /\ pdb' \in BOOLEAN
  /\ UNCHANGED <<statics, running, indexed, source>>

UnmapImage ==
  /\ ~running /\ image # NoImage
  /\ image' = NoImage /\ pdb' = FALSE
  /\ UNCHANGED <<seen, statics, running, indexed, source>>

ReloadSymbols ==
  /\ ~running /\ image # NoImage
  /\ pdb' = ~pdb
  /\ UNCHANGED <<image, seen, statics, running, indexed, source>>

(* A name is qualified with engine(), which is empty until targetinfo_ is   *)
(* known and is then always "chrome_child": it resolves against whatever    *)
(* image is mapped under that name at the time of the question.             *)
Answerable == targetinfo_ # NoImage /\ image # NoImage /\ pdb

------------------------------------------------------------------------------
(* Commands. *)

InitializeTargetInfo_Refreshed(headers) ==
  /\ running' = TRUE
  /\ targetinfo_' = IF headers THEN image ELSE targetinfo_
  /\ UNCHANGED <<debugger, offsets_, globals_, vt_to_class_, indexed, source>>

(* The constructor of Object.  Every command constructs one before it reads *)
(* the target, and more as it goes; headers says whether CPEImage could read *)
(* the headers and the version resource this time.                          *)
InitializeTargetInfo(headers) ==
  /\ running' = TRUE
  /\ targetinfo_' = IF targetinfo_ = NoImage /\ headers THEN image ELSE targetinfo_
  /\ UNCHANGED <<debugger, offsets_, globals_, vt_to_class_, indexed, source>>

EndCommand ==
  /\ running
  /\ running' = FALSE /\ indexed' = {}
  /\ UNCHANGED <<debugger, statics, source>>

(* Object::ReadPointerEx: how many bytes a pointer member is read with. *)
PointerBytes(i) == IF Is64bit[i] THEN 8 ELSE 4
PointerSize == IF targetinfo_ = NoImage THEN 4 ELSE PointerBytes(targetinfo_)

(* What image i has for cell k, to a reader of pointers of the given width. *)
Read(i, k, width) == IF k \in Counted THEN OffsetOf[i][k] \div width ELSE OffsetOf[i][k]

GetFieldOffset(k) ==
  IF Answerable /\ OffsetOf[image][k] # Unset THEN Read(image, k, PointerSize) ELSE Unset

(* LOAD_FIELD_OFFSET stores nothing if the question fails. *)
Asked(S) == [k \in Cells |-> IF k \in S THEN GetFieldOffset(k) ELSE offsets_[k]]

(* operator[] inserts 0 under a name the map does not have, and the field a  *)
(* failed GetFieldInfo returns is one at 0.                                  *)
Indexed(S, offsets) ==
  [k \in Cells |-> IF k \in S /\ offsets[k] = Unset THEN 0 ELSE offsets[k]]

(* offsets_.size() == 0 *)
MapEmpty(c) == \A k \in MapOf(c) : offsets_[k] = Unset

SymbolsLoaded_EveryTime(c) == Asked(CellsOf(c))
SymbolsLoaded_SharedMap(c) ==
  IF \A k \in Cells : offsets_[k] = Unset THEN Asked(CellsOf(c)) ELSE offsets_

(* The offsets_ maps after the "if (offsets_.size() == 0)" block of c. *)
SymbolsLoaded(c) == IF MapEmpty(c) THEN Asked(CellsOf(c)) ELSE offsets_

NoteSource(c) ==
  source' = IF source[c] = Unset /\ \E k \in MapOf(c) : offsets_'[k] # Unset
            THEN [source EXCEPT ![c] = IF Answerable THEN image ELSE NoImage]
            ELSE source

NoteSpoilt(c) ==
  source' = IF source[c] = Unset THEN [source EXCEPT ![c] = NoImage] ELSE source

(* A bucket array is stored whether or not it was found, then its bytes are *)
(* divided by the size of a bucket, 0 if it was not.                        *)
DividesByZero(c) ==
  c \in Roots \cup Specifics /\ MapEmpty(c) /\ GetFieldOffset(ArrayOf(c)) = Unset

OffsetsAfter_Unguarded(c, null) == Indexed(CellsOf(c), SymbolsLoaded(c))
OffsetsAfter(c, null) ==
  IF null THEN SymbolsLoaded(c) ELSE Indexed(CellsOf(c), SymbolsLoaded(c))

(* load() of a class that tests the address before it indexes the map. *)
LoadGuarded(c, null) ==
  /\ running /\ c \in Guarded \cup Specifics /\ ~DividesByZero(c)
  /\ offsets_' = OffsetsAfter(c, null)
  /\ indexed' = IF null THEN indexed ELSE indexed \cup CellsOf(c)
  /\ NoteSource(c)
  /\ UNCHANGED <<debugger, running, targetinfo_, globals_, vt_to_class_>>

(* Load() of the DOM and layout classes, which do not. *)
LoadUnguarded(c) ==
  /\ running /\ c \in Classes \ (Guarded \cup Roots \cup Specifics)
  /\ offsets_' = Indexed(CellsOf(c), SymbolsLoaded(c))
  /\ indexed' = indexed \cup CellsOf(c)
  /\ NoteSource(c)
  /\ UNCHANGED <<debugger, running, targetinfo_, globals_, vt_to_class_>>

(* PartitionRootGeneric::load, which returns after the array if the number  *)
(* of buckets is not the one it knows.  (The root itself is another class,  *)
(* PartitionRootBase.)                                                      *)
LoadRoot(c) ==
  /\ running /\ c \in Roots /\ ~DividesByZero(c)
  /\ LET S == IF image \in OtherCount THEN {ArrayOf(c)} ELSE CellsOf(c) IN
     offsets_' = IF MapEmpty(c) THEN Indexed(S, Asked(S)) ELSE offsets_
  /\ NoteSource(c)
  /\ UNCHANGED <<debugger, running, targetinfo_, globals_, vt_to_class_, indexed>>

(* The command ends at the division; a null address does not prevent it, and *)
(* the fields the loader had still to ask for are never asked for again.     *)
LoadDies(c) ==
  /\ running /\ DividesByZero(c)
  /\ offsets_' = Indexed({ArrayOf(c)}, offsets_)
  /\ running' = FALSE /\ indexed' = {}
  /\ NoteSpoilt(c)
  /\ UNCHANGED <<debugger, targetinfo_, globals_, vt_to_class_>>

(* dump_buckets() indexes the map outside any load, and a null allocator has *)
(* never loaded its root.  A specific allocator has been loaded by then.     *)
DumpBuckets(c) ==
  /\ running /\ c \in Roots \cup Specifics
  /\ c \in Specifics => ~MapEmpty(c)
  /\ offsets_' = Indexed({ArrayOf(c)}, offsets_)
  /\ indexed' = indexed \cup {ArrayOf(c)}
  /\ NoteSpoilt(c)
  /\ UNCHANGED <<debugger, running, targetinfo_, globals_, vt_to_class_>>

(* A static that is asked for while it is zero. *)
GetGlobal(g) ==
  /\ running
  /\ globals_' = [globals_ EXCEPT
       ![g] = IF @ = 0 /\ Answerable THEN ValueOf[image][g] ELSE @]
  /\ UNCHANGED <<debugger, running, targetinfo_, offsets_, vt_to_class_, indexed, source>>

GetSymbol_Nearest(v) == IF image # NoImage /\ pdb THEN CHOOSE n \in Names : TRUE ELSE NoName
GetSymbol(v) == IF image # NoImage /\ pdb THEN ClassAt[image][v] ELSE NoName

(* VTableMap::Get and Set.  The question is an address, so it needs no       *)
(* engine(); an address that is not exactly a vtable stores no name.         *)
ResolveType(v) ==
  /\ running
  /\ vt_to_class_' = [vt_to_class_ EXCEPT
       ![v] = IF @ = NoName THEN GetSymbol(v) ELSE @]
  /\ UNCHANGED <<debugger, running, targetinfo_, offsets_, globals_, indexed, source>>

Next ==
  \/ \E i \in Images : MapImage(i)
  \/ UnmapImage
  \/ ReloadSymbols
  \/ \E headers \in BOOLEAN : InitializeTargetInfo(headers)
  \/ EndCommand
  \/ \E c \in Classes, null \in BOOLEAN : LoadGuarded(c, null)
  \/ \E c \in Classes : LoadUnguarded(c) \/ LoadRoot(c) \/ LoadDies(c) \/ DumpBuckets(c)
  \/ \E g \in Globals : GetGlobal(g)
  \/ \E v \in VTables : ResolveType(v)

Spec == Init /\ [][Next]_vars

------------------------------------------------------------------------------
(* Properties. *)

(* Every variable has its type, symbols belong to a mapped image, and only a *)
(* running command has used anything.                                        *)
TypeOK ==
  /\ image \in Images \cup {NoImage} /\ pdb \in BOOLEAN /\ seen \subseteq Images
  /\ running \in BOOLEAN
  /\ targetinfo_ \in Images \cup {NoImage}
  /\ offsets_ \in [Cells -> Nat \cup {Unset}]
  /\ globals_ \in [Globals -> Nat]
  /\ vt_to_class_ \in [VTables -> Names \cup {NoName}]
  /\ indexed \subseteq Cells
  /\ source \in [Classes -> Images \cup {NoImage, Unset}]
  /\ pdb => image # NoImage
  /\ ~running => indexed = {}

(* What operator[] yields for a field once image i has answered. *)
Effective(i, k, width) == IF OffsetOf[i][k] = Unset THEN 0 ELSE Read(i, k, width)

(* Every entry of a class's offsets_ map, and every size kept with it, goes  *)
(* back to the one moment the map got its first entry: if an image answered  *)
(* then, they are its own (or 0 for what it lacks), a number of arenas being *)
(* what the pointer size of targetinfo_ makes of its bytes; if nothing could *)
(* answer, dump_buckets came before any load, or the load died over a bucket *)
(* array, they are 0, for good.  No cell that a command uses is left without *)
(* an entry.                                                                 *)
OffsetsExplained ==
  \A k \in Cells :
    LET s == source[k[1]] IN
    /\ s = Unset => offsets_[k] = Unset
    /\ s = NoImage => offsets_[k] \in {0, Unset}
    /\ s \in Images => offsets_[k] \in {Effective(s, k, PointerSize), Unset}
    /\ k \in indexed => offsets_[k] # Unset

(* A class whose symbols the mapped image answered when it was first loaded  *)
(* is read with that image's offsets, numbers and pointer size by every      *)
(* later command, whatever happened to the symbols in between and whatever   *)
(* was loaded too early - unless targetinfo_ is that of another image, with  *)
(* pointers of another size.                                                 *)
DumpRight ==
  \A k \in indexed :
    image # NoImage /\ source[k[1]] = image =>
      \/ /\ PointerSize = PointerBytes(image)
         /\ offsets_[k] = Effective(image, k, PointerBytes(image))
      \/ targetinfo_ \in seen \ {image} /\ PointerSize # PointerBytes(image)

(* A class is spoilt only where a command indexes its map, or dies storing a *)
(* bucket array that was not found: a guarded class given a null address     *)
(* before chrome_child or its symbols are there (for instance !ts without an *)
(* argument) stays fresh.  With symbols to be had, only PartitionAlloc's     *)
(* classes are spoilt: the generic root (by dump_buckets of a null allocator *)
(* too) and an allocator whose array these symbols lack.                     *)
SpoiltOnlyByUse ==
  [][\A c \in Classes :
       source[c] = Unset /\ source'[c] = NoImage =>
         /\ \/ CellsOf(c) \cap indexed' # {}
            \/ c \in Roots \cup Specifics /\ ~running'
         /\ Answerable => \/ c \in Roots
                          \/ c \in Specifics /\ OffsetOf[image][ArrayOf(c)] = Unset]_vars

(* A remembered address or class name is one that an image mapped in this    *)
(* session really has: a failed or inexact question (displacement # 0) is    *)
(* never remembered.                                                         *)
AnswersFromSeen ==
  /\ \A g \in Globals : globals_[g] = 0 \/ \E i \in seen : globals_[g] = ValueOf[i][g]
  /\ \A v \in VTables : \/ vt_to_class_[v] = NoName
                        \/ \E i \in seen : vt_to_class_[v] = ClassAt[i][v]

OffsetStore == INSTANCE WriteOnce WITH
  Keys <- Cells, Values <- Nat, store <- offsets_
GlobalStore == INSTANCE WriteOnce WITH
  Keys <- Globals, Values <- Nat, Unset <- 0, store <- globals_
TypeStore == INSTANCE WriteOnce WITH
  Keys <- VTables, Values <- Names, Unset <- NoName, store <- vt_to_class_
TargetStore == INSTANCE WriteOnce WITH
  Keys <- {"targetinfo_"}, Values <- Images, Unset <- NoImage,
  store <- [t \in {"targetinfo_"} |-> targetinfo_]

(* Every lazily filled static is a write-once store: an answer is never      *)
(* replaced, not even when the debugger has mapped another image since.      *)
CachesWriteOnce ==
  OffsetStore!Spec /\ GlobalStore!Spec /\ TypeStore!Spec /\ TargetStore!Spec

==============================================================================
