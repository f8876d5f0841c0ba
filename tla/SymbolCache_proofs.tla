-------------------------- MODULE SymbolCache_proofs --------------------------
(***************************************************************************)
(* Proofs about SymbolCache, for any images, classes and fields, and about *)
(* PEImage: the attempts in which the code finds out what the action       *)
(* InitializeTargetInfo of SymbolCache learns in one step.                 *)
(***************************************************************************)
EXTENDS SymbolCache, Sequences, TLAPS

(* The cells of a class are those with its name. *)
LEMMA CellsOfFacts ==
  ASSUME NEW c \in Classes
  PROVE  /\ CellsOf(c) \subseteq Cells /\ MapOf(c) \subseteq CellsOf(c)
         /\ \A k \in CellsOf(c) : k[1] = c
         /\ \A k \in Cells : k[1] \in Classes /\ k \in CellsOf(k[1])
BY DEF CellsOf, MapOf, Cells

(* What an image has for a cell, divided by a pointer size or not, is a      *)
(* number.                                                                   *)
LEMMA EffectiveType ==
  ASSUME NEW i \in Images, NEW k \in Cells, NEW width \in {4, 8}
  PROVE  /\ Effective(i, k, width) \in Nat
         /\ OffsetOf[i][k] # Unset => Read(i, k, width) = Effective(i, k, width)
<1>1. OffsetOf[i][k] \in Nat \cup {Unset}
  BY ConstantsOK
<1>2. \A n \in Nat : n \div 4 \in Nat /\ n \div 8 \in Nat
  OBVIOUS
<1>3. OffsetOf[i][k] # Unset => Read(i, k, width) \in Nat
  BY <1>1, <1>2 DEF Read
<1>4. QED
  BY <1>3 DEF Effective

(* A pointer is four or eight bytes wide. *)
LEMMA PointerSizeType == ASSUME TypeOK PROVE PointerSize \in {4, 8}
BY ConstantsOK DEF TypeOK, PointerSize, PointerBytes

(* A question to the debugger is answered with what the mapped image has, or *)
(* not at all.                                                               *)
LEMMA GetFieldOffsetFacts ==
  ASSUME TypeOK, NEW k \in Cells
  PROVE  /\ GetFieldOffset(k) \in Nat \cup {Unset}
         /\ Answerable => image \in Images
         /\ IF Answerable /\ OffsetOf[image][k] # Unset
            THEN GetFieldOffset(k) = Effective(image, k, PointerSize) /\ GetFieldOffset(k) # Unset
            ELSE GetFieldOffset(k) = Unset
<1>1. Answerable => image \in Images
  BY DEF TypeOK, Answerable
<1>2. CASE Answerable /\ OffsetOf[image][k] # Unset
  <2>1. GetFieldOffset(k) = Effective(image, k, PointerSize)
    BY <1>1, <1>2, EffectiveType, PointerSizeType DEF GetFieldOffset
  <2>2. Effective(image, k, PointerSize) \in Nat
    BY <1>1, <1>2, EffectiveType, PointerSizeType
  <2>3. QED
    BY <1>1, <1>2, <2>1, <2>2, ConstantsOK
<1>3. CASE ~(Answerable /\ OffsetOf[image][k] # Unset)
  BY <1>1, <1>3 DEF GetFieldOffset
<1>4. QED
  BY <1>2, <1>3

(* Asking and indexing leave offsets or no entry in the offsets_ maps.       *)
LEMMA LoadTypes ==
  ASSUME TypeOK
  PROVE  /\ \A S : Asked(S) \in [Cells -> Nat \cup {Unset}]
         /\ \A c \in Classes : SymbolsLoaded(c) \in [Cells -> Nat \cup {Unset}]
         /\ \A S : \A o \in [Cells -> Nat \cup {Unset}] :
              Indexed(S, o) \in [Cells -> Nat \cup {Unset}]
<1>1. ASSUME NEW S PROVE Asked(S) \in [Cells -> Nat \cup {Unset}]
  BY GetFieldOffsetFacts DEF TypeOK, Asked
<1>2. ASSUME NEW c \in Classes PROVE SymbolsLoaded(c) \in [Cells -> Nat \cup {Unset}]
  BY <1>1 DEF TypeOK, SymbolsLoaded
<1>3. ASSUME NEW S, NEW o \in [Cells -> Nat \cup {Unset}]
      PROVE  Indexed(S, o) \in [Cells -> Nat \cup {Unset}]
  BY <1>3 DEF Indexed
<1>4. QED
  BY <1>1, <1>2, <1>3

(* The steps that touch the offsets_ map of c. *)
Touch(c) ==
  \/ \E null \in BOOLEAN : LoadGuarded(c, null)
  \/ LoadUnguarded(c) \/ LoadRoot(c) \/ LoadDies(c) \/ DumpBuckets(c)

(* They keep every variable's type. *)
LEMMA TouchTypes ==
  ASSUME TypeOK, NEW c \in Classes, Touch(c)
  PROVE  TypeOK'
<1> USE ConstantsOK
<1> DEFINE OffsetsType == [Cells -> Nat \cup {Unset}]
<1>1. offsets_' \in OffsetsType
  <2> HIDE DEF OffsetsType
  <2>1. /\ offsets_ \in OffsetsType /\ SymbolsLoaded(c) \in OffsetsType
        /\ \A S : Asked(S) \in OffsetsType
        /\ \A S : \A o \in OffsetsType : Indexed(S, o) \in OffsetsType
    BY LoadTypes DEF TypeOK, OffsetsType
  <2>2. ASSUME NEW n \in BOOLEAN, LoadGuarded(c, n) PROVE offsets_' \in OffsetsType
    BY <2>1, <2>2 DEF LoadGuarded, OffsetsAfter
  <2>3. CASE LoadUnguarded(c)
    BY <2>1, <2>3 DEF LoadUnguarded
  <2>4. CASE LoadRoot(c)
    BY <2>1, <2>4 DEF LoadRoot
  <2>5. CASE LoadDies(c) \/ DumpBuckets(c)
    BY <2>1, <2>5 DEF LoadDies, DumpBuckets
  <2>6. QED
    BY <2>2, <2>3, <2>4, <2>5 DEF Touch
<1>2. source' \in [Classes -> Images \cup {NoImage, Unset}]
  <2>1. NoteSource(c) \/ NoteSpoilt(c)
    BY DEF Touch, LoadGuarded, LoadUnguarded, LoadRoot, LoadDies, DumpBuckets
  <2>2. /\ source \in [Classes -> Images \cup {NoImage, Unset}]
        /\ image \in Images \cup {NoImage}
    BY DEF TypeOK
  <2>3. PICK j \in Images \cup {NoImage} :
          source' = source \/ source' = [source EXCEPT ![c] = j]
    <3>1. CASE NoteSource(c)
      BY <2>2, <3>1 DEF NoteSource
    <3>2. CASE NoteSpoilt(c)
      BY <3>2 DEF NoteSpoilt
    <3>3. QED
      BY <2>1, <3>1, <3>2
  <2>4. QED
    BY <2>2, <2>3
<1>3. indexed' \subseteq Cells /\ (~running' => indexed' = {}) /\ running' \in BOOLEAN
  <2>1. indexed \subseteq Cells /\ running \in BOOLEAN /\ (~running => indexed = {})
    BY DEF TypeOK
  <2>2. CellsOf(c) \subseteq Cells /\ (c \in Roots \cup Specifics => {ArrayOf(c)} \subseteq Cells)
    BY CellsOfFacts
  <2>3. CASE LoadDies(c)
    BY <2>3, Zenon DEF LoadDies
  <2>4. CASE (\E n \in BOOLEAN : LoadGuarded(c, n)) \/ LoadUnguarded(c)
    <3>1. running' = running /\ running
      BY <2>4, Zenon DEF LoadGuarded, LoadUnguarded
    <3>2. indexed' \subseteq indexed \cup CellsOf(c)
      BY <2>4 DEF LoadGuarded, LoadUnguarded
    <3>3. QED
      BY <2>1, <2>2, <3>1, <3>2
  <2>5. CASE LoadRoot(c)
    BY <2>1, <2>5, Zenon DEF LoadRoot
  <2>6. CASE DumpBuckets(c)
    <3>1. running' = running /\ running
      BY <2>6, Zenon DEF DumpBuckets
    <3>2. indexed' = indexed \cup {ArrayOf(c)} /\ c \in Roots \cup Specifics
      BY <2>6 DEF DumpBuckets
    <3>3. QED
      BY <2>1, <2>2, <3>1, <3>2
  <2>7. QED
    BY <2>3, <2>4, <2>5, <2>6 DEF Touch
<1>4. UNCHANGED <<debugger, targetinfo_, globals_, vt_to_class_>>
  BY DEF Touch, LoadGuarded, LoadUnguarded, LoadRoot, LoadDies, DumpBuckets
<1>5. QED
  BY <1>1, <1>2, <1>3, <1>4 DEF TypeOK, debugger

(* Nothing is known when the extension is loaded. *)
LEMMA InitTypes == Init => TypeOK
<1> SUFFICES ASSUME Init PROVE TypeOK
  OBVIOUS
<1>1. pdb \in BOOLEAN /\ running \in BOOLEAN /\ ~pdb /\ indexed = {}
  BY Zenon DEF Init
<1>2. /\ image \in Images \cup {NoImage} /\ targetinfo_ \in Images \cup {NoImage}
      /\ seen \subseteq Images /\ indexed \subseteq Cells
  BY DEF Init
<1>3. /\ offsets_ \in [Cells -> Nat \cup {Unset}]
      /\ globals_ \in [Globals -> Nat]
      /\ vt_to_class_ \in [VTables -> Names \cup {NoName}]
      /\ source \in [Classes -> Images \cup {NoImage, Unset}]
  BY DEF Init
<1>4. QED
  BY <1>1, <1>2, <1>3, Zenon DEF TypeOK

(* Type correctness: in particular a failed lookup never leaves anything but *)
(* an offset or no entry in an offsets_ map.                                 *)
THEOREM TypeCorrect == Spec => []TypeOK
<1>1. Init => TypeOK
  BY InitTypes
<1>2. TypeOK /\ [Next]_vars => TypeOK'
  <2> SUFFICES ASSUME TypeOK, [Next]_vars PROVE TypeOK'
    OBVIOUS
  <2> USE ConstantsOK
  <2>1. ASSUME NEW i \in Images, MapImage(i) PROVE TypeOK'
    BY <2>1 DEF TypeOK, MapImage, statics
  <2>2. CASE UnmapImage
    BY <2>2 DEF TypeOK, UnmapImage, statics
  <2>3. CASE ReloadSymbols
    BY <2>3 DEF TypeOK, ReloadSymbols, statics
  <2>4. ASSUME NEW h \in BOOLEAN, InitializeTargetInfo(h) PROVE TypeOK'
    BY <2>4 DEF TypeOK, InitializeTargetInfo, debugger
  <2>5. CASE EndCommand
    BY <2>5 DEF TypeOK, EndCommand, statics, debugger
  <2>6. ASSUME NEW c \in Classes, Touch(c) PROVE TypeOK'
    BY <2>6, TouchTypes
  <2>7. ASSUME NEW g \in Globals, GetGlobal(g) PROVE TypeOK'
    BY <2>7 DEF TypeOK, GetGlobal, debugger, Answerable
  <2>8. ASSUME NEW v \in VTables, ResolveType(v) PROVE TypeOK'
    BY <2>8 DEF TypeOK, ResolveType, GetSymbol, debugger
  <2>9. CASE UNCHANGED vars
    BY <2>9 DEF TypeOK, vars, statics, debugger
  <2>10. QED
    BY <2>1, <2>2, <2>3, <2>4, <2>5, <2>6, <2>7, <2>8, <2>9 DEF Next, Touch
<1>3. QED
  BY <1>1, <1>2, PTL DEF Spec

------------------------------------------------------------------------------
(* Where the contents of the caches come from.  OffsetsExplained is not      *)
(* inductive by itself: it must also be known that a class with a source has *)
(* an entry (so that its loader never asks again), that a cell it still      *)
(* lacks is one its image lacks too (so that 0 is right when it is indexed), *)
(* and that whatever has answered was mapped, and known to Object, by then   *)
(* (so that the pointer size it was asked with is still that of              *)
(* targetinfo_).                                                             *)

MappedAreSeen ==
  /\ image \in seen \cup {NoImage}
  /\ targetinfo_ \in seen \cup {NoImage}

SourceHasEntry ==
  \A c \in Classes :
    /\ source[c] # Unset => \E k \in MapOf(c) : offsets_[k] # Unset
    /\ source[c] \in Images => source[c] \in seen /\ targetinfo_ # NoImage

(* The cells no command indexes: in a root, all but the bucket array.        *)
Unindexed(k) == k[1] \in Roots /\ k # ArrayOf(k[1])

LackIsReal ==
  \A k \in Cells :
    source[k[1]] \in Images /\ offsets_[k] = Unset =>
      OffsetOf[source[k[1]]][k] = Unset \/ Unindexed(k)

Explained == TypeOK /\ MappedAreSeen /\ SourceHasEntry /\ LackIsReal /\ OffsetsExplained

(* Under the invariant a map is empty exactly if its class has no source,    *)
(* and then none of its sizes is known either.                               *)
LEMMA EmptyMaps ==
  ASSUME Explained, NEW c \in Classes
  PROVE  /\ MapEmpty(c) <=> source[c] = Unset
         /\ MapEmpty(c) => \A k \in CellsOf(c) : offsets_[k] = Unset
<1>1. source[c] # Unset => ~MapEmpty(c)
  BY DEF Explained, SourceHasEntry, MapEmpty
<1>2. source[c] = Unset => \A k \in CellsOf(c) : offsets_[k] = Unset
  BY CellsOfFacts DEF Explained, OffsetsExplained
<1>3. QED
  BY <1>1, <1>2, CellsOfFacts DEF MapEmpty

(* A step that touches the map of c leaves the maps of the other classes     *)
(* alone, and the entries the map of c has.                                  *)
LEMMA TouchKeeps ==
  ASSUME Explained, NEW c \in Classes, Touch(c)
  PROVE  /\ \A k \in Cells \ CellsOf(c) : offsets_'[k] = offsets_[k]
         /\ \A k \in Cells : offsets_[k] # Unset => offsets_'[k] = offsets_[k]
         /\ source[c] # Unset => \A k \in CellsOf(c) :
              offsets_'[k] = offsets_[k] \/ (offsets_'[k] = 0 /\ ~Unindexed(k))
         /\ UNCHANGED <<debugger, targetinfo_, globals_, vt_to_class_>>
<1> USE CellsOfFacts, ConstantsOK
<1> DEFINE Kept(o, S) ==
      /\ \A k \in Cells \ CellsOf(c) : o[k] = offsets_[k]
      /\ \A k \in Cells : offsets_[k] # Unset => o[k] = offsets_[k]
      /\ source[c] # Unset => \A k \in CellsOf(c) :
           o[k] = offsets_[k] \/ (o[k] = 0 /\ k \in S)
<1>1. UNCHANGED <<debugger, targetinfo_, globals_, vt_to_class_>>
  BY DEF Touch, LoadGuarded, LoadUnguarded, LoadRoot, LoadDies, DumpBuckets
<1>2. ASSUME NEW S, NEW T \in SUBSET CellsOf(c), Kept(offsets_, S)
      PROVE  Kept(Indexed(T, offsets_), T)
  BY DEF Indexed
<1>3. source[c] = Unset => \A k \in CellsOf(c) : offsets_[k] = Unset
  BY EmptyMaps
<1>4. ASSUME NEW T \in SUBSET CellsOf(c), source[c] = Unset
      PROVE  \A S : Kept(Asked(T), S) /\ Kept(Indexed(T, Asked(T)), S)
  BY <1>3, <1>4 DEF Asked, Indexed
<1>5. \A S : Kept(offsets_, S)
  OBVIOUS
<1>6. ASSUME c \notin Roots,
             \/ offsets_' = SymbolsLoaded(c)
             \/ offsets_' = Indexed(CellsOf(c), SymbolsLoaded(c))
      PROVE  Kept(offsets_', CellsOf(c))
  <2>1. CASE source[c] = Unset
    <3>1. SymbolsLoaded(c) = Asked(CellsOf(c))
      BY <2>1, EmptyMaps DEF SymbolsLoaded
    <3>2. QED
      BY <1>4, <1>6, <2>1, <3>1
  <2>2. CASE source[c] # Unset
    <3>1. SymbolsLoaded(c) = offsets_
      BY <2>2, EmptyMaps DEF SymbolsLoaded
    <3>2. QED
      BY <1>2, <1>5, <1>6, <3>1
  <2>3. QED
    BY <2>1, <2>2
<1>7. CASE (\E n \in BOOLEAN : LoadGuarded(c, n)) \/ LoadUnguarded(c)
  <2>1. c \notin Roots
    BY <1>7 DEF LoadGuarded, LoadUnguarded
  <2>2. \/ offsets_' = SymbolsLoaded(c)
        \/ offsets_' = Indexed(CellsOf(c), SymbolsLoaded(c))
    BY <1>7 DEF LoadGuarded, LoadUnguarded, OffsetsAfter
  <2>3. Kept(offsets_', CellsOf(c))
    BY <2>1, <2>2, <1>6
  <2>4. QED
    BY <1>1, <2>1, <2>3 DEF Unindexed
<1>8. CASE LoadRoot(c)
  <2>1. PICK S \in SUBSET CellsOf(c) :
          offsets_' = IF MapEmpty(c) THEN Indexed(S, Asked(S)) ELSE offsets_
    <3> DEFINE S == IF image \in OtherCount THEN {ArrayOf(c)} ELSE CellsOf(c)
    <3>1. S \in SUBSET CellsOf(c)
      BY <1>8 DEF LoadRoot
    <3>2. offsets_' = IF MapEmpty(c) THEN Indexed(S, Asked(S)) ELSE offsets_
      BY <1>8, Zenon DEF LoadRoot
    <3> HIDE DEF S
    <3>3. QED
      BY <3>1, <3>2
  <2>2. Kept(offsets_', {})
    BY <2>1, <1>4, <1>5, EmptyMaps
  <2>3. QED
    BY <1>1, <2>2
<1>9. CASE LoadDies(c) \/ DumpBuckets(c)
  <2>1. /\ c \in Roots \cup Specifics
        /\ offsets_' = Indexed({ArrayOf(c)}, offsets_)
    BY <1>9 DEF LoadDies, DividesByZero, DumpBuckets
  <2>2. Kept(offsets_', {ArrayOf(c)})
    BY <2>1, <1>2, <1>5
  <2>3. ~Unindexed(ArrayOf(c))
    BY <2>1 DEF Unindexed
  <2>4. QED
    BY <1>1, <2>2, <2>3
<1>10. QED
  BY <1>7, <1>8, <1>9 DEF Touch

(* What a cell of a map that was empty may hold after a load that asked and, *)
(* perhaps, indexed.                                                         *)
Answered(k, v) ==
  IF GetFieldOffset(k) # Unset THEN v = GetFieldOffset(k) \/ (v = Unset /\ Unindexed(k))
                               ELSE v \in {0, Unset}

(* A map that was empty gets what the debugger answers, with the image that  *)
(* answered as its source, or nothing but zeros and no image.                *)
LEMMA TouchFills ==
  ASSUME Explained, NEW c \in Classes, Touch(c), source[c] = Unset
  PROVE  \/ /\ source' = [source EXCEPT ![c] = NoImage]
            /\ \A k \in CellsOf(c) : offsets_'[k] \in {0, Unset}
            /\ \E k \in MapOf(c) : offsets_'[k] # Unset
         \/ /\ Answerable /\ source' = [source EXCEPT ![c] = image]
            /\ \A k \in CellsOf(c) : Answered(k, offsets_'[k])
            /\ \E k \in MapOf(c) : offsets_'[k] # Unset
         \/ source' = source /\ \A k \in CellsOf(c) : offsets_'[k] = Unset
<1> USE CellsOfFacts, ConstantsOK
<1>1. \A k \in CellsOf(c) : offsets_[k] = Unset
  BY EmptyMaps
<1>2. MapEmpty(c)
  BY EmptyMaps
<1>3. \A k \in Cells : ~Answerable => GetFieldOffset(k) = Unset
  BY DEF GetFieldOffset
<1>4. ASSUME NEW k \in CellsOf(c) \cap Sizes, offsets_'[k] # Unset,
             \A j \in CellsOf(c) : offsets_'[j] = GetFieldOffset(j)
                                   \/ \A h \in CellsOf(c) : offsets_'[h] # Unset
      PROVE  \E j \in MapOf(c) : offsets_'[j] # Unset
  <2>1. PICK j \in MapOf(c) :
          \A i \in Images : OffsetOf[i][k] # Unset => OffsetOf[i][j] # Unset
    OBVIOUS
  <2>2. CASE \A h \in CellsOf(c) : offsets_'[h] # Unset
    BY <2>1, <2>2
  <2>3. CASE offsets_'[k] = GetFieldOffset(k) /\ offsets_'[j] = GetFieldOffset(j)
    <3>1. TypeOK /\ k \in Cells /\ j \in Cells
      BY <2>1 DEF Explained
    <3>2. Answerable /\ OffsetOf[image][k] # Unset /\ image \in Images
      BY <3>1, <2>3, <1>4, GetFieldOffsetFacts
    <3>3. GetFieldOffset(j) # Unset
      BY <3>1, <3>2, <2>1, GetFieldOffsetFacts
    <3>4. QED
      BY <3>3, <2>3, <2>1
  <2>4. QED
    BY <2>1, <2>2, <2>3, <1>4
<1>5. ASSUME NoteSource(c), \A k \in CellsOf(c) : Answered(k, offsets_'[k]),
             \A k \in CellsOf(c) \cap Sizes :
               offsets_'[k] # Unset => \E j \in MapOf(c) : offsets_'[j] # Unset
      PROVE  \/ /\ source' = [source EXCEPT ![c] = NoImage]
                /\ \A k \in CellsOf(c) : offsets_'[k] \in {0, Unset}
                /\ \E k \in MapOf(c) : offsets_'[k] # Unset
             \/ /\ Answerable /\ source' = [source EXCEPT ![c] = image]
                /\ \A k \in CellsOf(c) : Answered(k, offsets_'[k])
                /\ \E k \in MapOf(c) : offsets_'[k] # Unset
             \/ source' = source /\ \A k \in CellsOf(c) : offsets_'[k] = Unset
  <2>1. CASE \A k \in MapOf(c) : offsets_'[k] = Unset
    <3>1. source' = source
      BY <2>1, <1>5 DEF NoteSource
    <3>2. \A k \in CellsOf(c) : offsets_'[k] = Unset
      BY <2>1, <1>5 DEF MapOf
    <3>3. QED
      BY <3>1, <3>2
  <2>2. CASE \E k \in MapOf(c) : offsets_'[k] # Unset
    <3>1. source' = [source EXCEPT ![c] = IF Answerable THEN image ELSE NoImage]
      BY <2>2, <1>5 DEF NoteSource
    <3>2. ~Answerable => \A k \in CellsOf(c) : offsets_'[k] \in {0, Unset}
      BY <1>3, <1>5 DEF Answered
    <3>3. CASE Answerable
      BY <3>1, <3>3, <2>2, <1>5
    <3>4. CASE ~Answerable
      BY <3>1, <3>2, <3>4, <2>2
    <3>5. QED
      BY <3>3, <3>4
  <2>3. QED
    BY <2>1, <2>2
<1>6. CASE (\E n \in BOOLEAN : LoadGuarded(c, n)) \/ LoadUnguarded(c)
  <2>1. SymbolsLoaded(c) = Asked(CellsOf(c))
    BY <1>2 DEF SymbolsLoaded
  <2>2. /\ \/ offsets_' = Asked(CellsOf(c))
           \/ offsets_' = Indexed(CellsOf(c), Asked(CellsOf(c)))
        /\ NoteSource(c)
    BY <1>6, <2>1 DEF LoadGuarded, LoadUnguarded, OffsetsAfter
  <2>3. \A k \in CellsOf(c) : offsets_'[k] = GetFieldOffset(k)
                              \/ (GetFieldOffset(k) = Unset /\ offsets_'[k] = 0)
    BY <2>2 DEF Asked, Indexed
  <2>4. \/ \A k \in CellsOf(c) : offsets_'[k] = GetFieldOffset(k)
        \/ \A k \in CellsOf(c) : offsets_'[k] # Unset
    BY <2>2 DEF Asked, Indexed
  <2>5. \A k \in CellsOf(c) : Answered(k, offsets_'[k])
    BY <2>3 DEF Answered
  <2>6. QED
    BY <1>4, <1>5, <2>2, <2>4, <2>5
<1>7. CASE LoadRoot(c)
  <2>1. PICK S \in SUBSET CellsOf(c) :
          ArrayOf(c) \in S /\ offsets_' = Indexed(S, Asked(S))
                           /\ (S = CellsOf(c) \/ S = {ArrayOf(c)})
    BY <1>2, <1>7 DEF LoadRoot
  <2>2. ASSUME NEW k \in CellsOf(c) PROVE Answered(k, offsets_'[k])
    <3>1. CASE k \in S
      BY <2>1, <3>1 DEF Asked, Indexed, Answered
    <3>2. CASE k \notin S
      <4>1. offsets_'[k] = Unset /\ Unindexed(k)
        BY <2>1, <3>2, <1>1, <1>7 DEF Asked, Indexed, Unindexed, LoadRoot
      <4>2. QED
        BY <4>1 DEF Answered
    <3>3. QED
      BY <3>1, <3>2
  <2>3. NoteSource(c) /\ CellsOf(c) \cap Sizes = {}
    BY <1>7 DEF LoadRoot
  <2>4. QED
    BY <1>5, <2>2, <2>3
<1>8. CASE LoadDies(c) \/ DumpBuckets(c)
  <2>1. /\ c \in Roots \cup Specifics
        /\ offsets_' = Indexed({ArrayOf(c)}, offsets_) /\ NoteSpoilt(c)
    BY <1>8 DEF LoadDies, DividesByZero, DumpBuckets
  <2>2. source' = [source EXCEPT ![c] = NoImage]
    BY <2>1 DEF NoteSpoilt
  <2>3. \A k \in CellsOf(c) : offsets_'[k] \in {0, Unset}
    BY <2>1, <1>1 DEF Indexed
  <2>4. ArrayOf(c) \in MapOf(c) /\ offsets_'[ArrayOf(c)] # Unset
    BY <2>1, <1>1 DEF Indexed, MapOf
  <2>5. QED
    BY <2>2, <2>3, <2>4
<1>9. QED
  BY <1>6, <1>7, <1>8 DEF Touch

(* A step that touches the map of c keeps every cell a command uses filled.  *)
LEMMA TouchIndexes ==
  ASSUME Explained, NEW c \in Classes, Touch(c)
  PROVE  \A k \in indexed' : offsets_'[k] # Unset
<1> USE CellsOfFacts, ConstantsOK
<1>1. \A k \in indexed : k \in Cells /\ offsets_[k] # Unset
  BY DEF Explained, TypeOK, OffsetsExplained
<1>2. \A k \in indexed : offsets_'[k] # Unset
  BY <1>1, TouchKeeps
<1>3. /\ \A S \in SUBSET Cells : \A o : \A k \in S : Indexed(S, o)[k] # Unset
      /\ CellsOf(c) \in SUBSET Cells
      /\ c \in Roots \cup Specifics => {ArrayOf(c)} \in SUBSET Cells
  BY DEF Indexed
<1>4. CASE \E n \in BOOLEAN : LoadGuarded(c, n)
  BY <1>2, <1>3, <1>4 DEF LoadGuarded, OffsetsAfter
<1>5. CASE LoadUnguarded(c)
  BY <1>2, <1>3, <1>5 DEF LoadUnguarded
<1>6. CASE LoadRoot(c) \/ LoadDies(c)
  <2>1. indexed' = indexed \/ indexed' = {}
    BY <1>6, Zenon DEF LoadRoot, LoadDies
  <2>2. QED
    BY <1>2, <2>1
<1>7. CASE DumpBuckets(c)
  <2>1. /\ c \in Roots \cup Specifics /\ indexed' = indexed \cup {ArrayOf(c)}
        /\ offsets_' = Indexed({ArrayOf(c)}, offsets_)
    BY <1>7 DEF DumpBuckets
  <2>2. offsets_'[ArrayOf(c)] # Unset
    BY <1>3, <2>1
  <2>3. QED
    BY <1>2, <2>1, <2>2
<1>8. QED
  BY <1>4, <1>5, <1>6, <1>7 DEF Touch

(* A step that touches a map keeps every map explained.                      *)
LEMMA TouchExplains ==
  ASSUME Explained, TypeOK', NEW c \in Classes, Touch(c)
  PROVE  Explained'
<1> USE CellsOfFacts, ConstantsOK
<1>1. TypeOK /\ PointerSize \in {4, 8} /\ source \in [Classes -> Images \cup {NoImage, Unset}]
  BY PointerSizeType DEF Explained, TypeOK
<1>2. /\ \A k \in Cells \ CellsOf(c) : offsets_'[k] = offsets_[k]
      /\ \A k \in Cells : offsets_[k] # Unset => offsets_'[k] = offsets_[k]
      /\ source[c] # Unset => \A k \in CellsOf(c) :
           offsets_'[k] = offsets_[k] \/ (offsets_'[k] = 0 /\ ~Unindexed(k))
      /\ UNCHANGED <<image, seen, pdb, targetinfo_>>
  BY TouchKeeps DEF debugger
<1>3. PointerSize' = PointerSize
  BY <1>2 DEF PointerSize, PointerBytes
<1>4. \A d \in Classes \ {c} : source'[d] = source[d]
  BY <1>1 DEF Touch, LoadGuarded, LoadUnguarded, LoadRoot, LoadDies, DumpBuckets,
     NoteSource, NoteSpoilt
<1>5. source[c] # Unset => source'[c] = source[c]
  BY DEF Touch, LoadGuarded, LoadUnguarded, LoadRoot, LoadDies, DumpBuckets,
     NoteSource, NoteSpoilt
<1>6. ASSUME /\ source'[c] # Unset => \E k \in MapOf(c) : offsets_'[k] # Unset
             /\ source'[c] \in Images => source'[c] \in seen /\ targetinfo_ # NoImage,
             \A k \in CellsOf(c) :
               /\ source'[c] = Unset => offsets_'[k] = Unset
               /\ source'[c] = NoImage => offsets_'[k] \in {0, Unset}
               /\ source'[c] \in Images =>
                    /\ offsets_'[k] \in {Effective(source'[c], k, PointerSize), Unset}
                    /\ offsets_'[k] = Unset => OffsetOf[source'[c]][k] = Unset \/ Unindexed(k)
      PROVE  Explained'
  <2>1. MappedAreSeen'
    BY <1>2 DEF Explained, MappedAreSeen
  <2>2. SourceHasEntry'
    <3> SUFFICES ASSUME NEW d \in Classes
                 PROVE  /\ source'[d] # Unset => \E k \in MapOf(d) : offsets_'[k] # Unset
                        /\ source'[d] \in Images => source'[d] \in seen' /\ targetinfo_' # NoImage
      BY Zenon DEF SourceHasEntry, MapOf, CellsOf
    <3>1. CASE d = c
      BY <3>1, <1>2, <1>6
    <3>2. CASE d # c
      <4>1. source'[d] = source[d] /\ MapOf(d) \subseteq Cells
        BY <3>2, <1>4
      <4>2. /\ source[d] # Unset => \E k \in MapOf(d) : offsets_[k] # Unset
            /\ source[d] \in Images => source[d] \in seen /\ targetinfo_ # NoImage
        BY DEF Explained, SourceHasEntry
      <4>3. QED
        BY <4>1, <4>2, <1>2
    <3>3. QED
      BY <3>1, <3>2
  <2>3. LackIsReal'
    <3> SUFFICES ASSUME NEW k \in Cells, source'[k[1]] \in Images, offsets_'[k] = Unset
                 PROVE  OffsetOf[source'[k[1]]][k] = Unset \/ Unindexed(k)
      BY Zenon DEF LackIsReal, Unindexed, ArrayOf
    <3>1. CASE k \in CellsOf(c)
      BY <3>1, <1>6
    <3>2. CASE k \notin CellsOf(c)
      BY <3>2, <1>2, <1>4 DEF Explained, LackIsReal
    <3>3. QED
      BY <3>1, <3>2
  <2>4. OffsetsExplained'
    <3> SUFFICES ASSUME NEW k \in Cells
                 PROVE  LET s == source'[k[1]] IN
                        /\ s = Unset => offsets_'[k] = Unset
                        /\ s = NoImage => offsets_'[k] \in {0, Unset}
                        /\ s \in Images => offsets_'[k] \in {Effective(s, k, PointerSize'), Unset}
                        /\ k \in indexed' => offsets_'[k] # Unset
      BY DEF OffsetsExplained, Effective, Read
    <3>1. CASE k \in CellsOf(c)
      BY <3>1, <1>3, <1>6, TouchIndexes
    <3>2. CASE k \notin CellsOf(c)
      BY <3>2, <1>2, <1>3, <1>4, TouchIndexes DEF Explained, OffsetsExplained
    <3>3. QED
      BY <3>1, <3>2
  <2>5. QED
    BY <2>1, <2>2, <2>3, <2>4 DEF Explained
<1>7. CASE source[c] = Unset
  <2>1. \/ /\ source'[c] = NoImage
           /\ \A k \in CellsOf(c) : offsets_'[k] \in {0, Unset}
           /\ \E k \in MapOf(c) : offsets_'[k] # Unset
        \/ /\ Answerable /\ source'[c] = image
           /\ \A k \in CellsOf(c) : Answered(k, offsets_'[k])
           /\ \E k \in MapOf(c) : offsets_'[k] # Unset
        \/ source'[c] = Unset /\ \A k \in CellsOf(c) : offsets_'[k] = Unset
    BY <1>1, <1>7, TouchFills
  <2>2. Answerable => image \in Images /\ image \in seen /\ targetinfo_ # NoImage
    BY <1>1 DEF Answerable, Explained, TypeOK, MappedAreSeen
  <2>3. QED
    <3>1. ASSUME NEW k \in CellsOf(c), Answerable, Answered(k, offsets_'[k])
          PROVE  /\ offsets_'[k] \in {Effective(image, k, PointerSize), Unset}
                 /\ offsets_'[k] = Unset => OffsetOf[image][k] = Unset \/ Unindexed(k)
      BY <1>1, <2>2, <3>1, GetFieldOffsetFacts DEF Answered, Effective
    <3>2. /\ source'[c] # Unset => \E k \in MapOf(c) : offsets_'[k] # Unset
          /\ source'[c] \in Images => source'[c] \in seen /\ targetinfo_ # NoImage
      BY <2>1, <2>2
    <3>3. ASSUME NEW k \in CellsOf(c)
          PROVE  /\ source'[c] = Unset => offsets_'[k] = Unset
                 /\ source'[c] = NoImage => offsets_'[k] \in {0, Unset}
                 /\ source'[c] \in Images =>
                      /\ offsets_'[k] \in {Effective(source'[c], k, PointerSize), Unset}
                      /\ offsets_'[k] = Unset => OffsetOf[source'[c]][k] = Unset \/ Unindexed(k)
      BY <2>1, <2>2, <3>1, <3>3
    <3>4. QED
      BY <3>2, <3>3, <1>1, <1>2, <1>3, <1>4, <1>6
<1>8. CASE source[c] # Unset
  <2>1. source'[c] = source[c]
    BY <1>5, <1>8
  <2>2. /\ source'[c] # Unset => \E k \in MapOf(c) : offsets_'[k] # Unset
        /\ source'[c] \in Images => source'[c] \in seen /\ targetinfo_ # NoImage
    BY <2>1, <1>2 DEF Explained, SourceHasEntry
  <2>3. ASSUME NEW k \in CellsOf(c)
        PROVE  /\ source'[c] = Unset => offsets_'[k] = Unset
               /\ source'[c] = NoImage => offsets_'[k] \in {0, Unset}
               /\ source'[c] \in Images =>
                    /\ offsets_'[k] \in {Effective(source'[c], k, PointerSize), Unset}
                    /\ offsets_'[k] = Unset => OffsetOf[source'[c]][k] = Unset \/ Unindexed(k)
    <3>1. /\ k \in Cells /\ k[1] = c
          /\ source[c] = NoImage => offsets_[k] \in {0, Unset}
          /\ source[c] \in Images =>
               /\ offsets_[k] \in {Effective(source[c], k, PointerSize), Unset}
               /\ offsets_[k] = Unset => OffsetOf[source[c]][k] = Unset \/ Unindexed(k)
      BY DEF Explained, OffsetsExplained, LackIsReal
    <3>2. CASE offsets_'[k] = offsets_[k]
      BY <3>1, <3>2, <2>1, <1>8
    <3>3. CASE offsets_[k] = Unset /\ offsets_'[k] = 0 /\ ~Unindexed(k)
      BY <3>1, <3>3, <2>1, <1>8 DEF Effective
    <3>4. QED
      BY <3>1, <3>2, <3>3, <1>2, <1>8
  <2>4. QED
    BY <2>2, <2>3, <1>1, <1>2, <1>3, <1>4, <1>6
<1>9. QED
  BY <1>7, <1>8

(* The inductive invariant holds throughout every session. *)
LEMMA ExplainedAlways == Spec => []Explained
<1>1. Init => Explained
  <2> SUFFICES ASSUME Init PROVE TypeOK /\ MappedAreSeen /\ SourceHasEntry /\ LackIsReal /\ OffsetsExplained
    BY DEF Explained
  <2>1. TypeOK
    BY InitTypes
  <2>2. MappedAreSeen
    BY DEF Init, MappedAreSeen
  <2>3. SourceHasEntry /\ LackIsReal /\ OffsetsExplained
    BY ConstantsOK, CellsOfFacts DEF Init, SourceHasEntry, LackIsReal, OffsetsExplained, Cells
  <2>4. QED
    BY <2>1, <2>2, <2>3
<1>2. Explained /\ TypeOK' /\ [Next]_vars => Explained'
  <2> SUFFICES ASSUME Explained, TypeOK', [Next]_vars PROVE Explained'
    OBVIOUS
  <2>1. ASSUME NEW c \in Classes, Touch(c) PROVE Explained'
    BY <2>1, TouchExplains
  <2>2. ASSUME UNCHANGED <<offsets_, source>>, indexed' \subseteq indexed, seen \subseteq seen',
               targetinfo_ # NoImage => targetinfo_' = targetinfo_, MappedAreSeen'
        PROVE  Explained'
    <3>1. SourceHasEntry'
      BY <2>2 DEF Explained, SourceHasEntry, MapOf, CellsOf, Cells
    <3>2. LackIsReal'
      BY <2>2 DEF Explained, LackIsReal, Unindexed, ArrayOf, Cells
    <3>3. ASSUME NEW k \in Cells
          PROVE  LET s == source'[k[1]] IN
                 /\ s = Unset => offsets_'[k] = Unset
                 /\ s = NoImage => offsets_'[k] \in {0, Unset}
                 /\ s \in Images => offsets_'[k] \in {Effective(s, k, PointerSize'), Unset}
                 /\ k \in indexed' => offsets_'[k] # Unset
      <4>1. k[1] \in Classes
        BY CellsOfFacts DEF Cells
      <4>2. source[k[1]] \in Images => PointerSize' = PointerSize
        BY <2>2, <4>1 DEF Explained, SourceHasEntry, PointerSize, PointerBytes
      <4>3. QED
        BY <2>2, <4>2 DEF Explained, OffsetsExplained
    <3>4. OffsetsExplained'
      BY <3>3 DEF OffsetsExplained, Cells, Effective, Read
    <3>5. QED
      BY <2>2, <3>1, <3>2, <3>4 DEF Explained
  <2>3. ASSUME NEW i \in Images, MapImage(i)
        PROVE  Explained'
    BY <2>2, <2>3 DEF MapImage, statics, Explained, MappedAreSeen
  <2>4. CASE UnmapImage
    BY <2>2, <2>4 DEF UnmapImage, statics, Explained, MappedAreSeen
  <2>5. CASE ReloadSymbols
    BY <2>2, <2>5 DEF ReloadSymbols, statics, Explained, MappedAreSeen
  <2>6. ASSUME NEW h \in BOOLEAN, InitializeTargetInfo(h)
        PROVE  Explained'
    BY <2>2, <2>6 DEF InitializeTargetInfo, debugger, Explained, MappedAreSeen
  <2>7. CASE EndCommand
    BY <2>2, <2>7 DEF EndCommand, statics, debugger, Explained, MappedAreSeen
  <2>8. ASSUME NEW g \in Globals, GetGlobal(g)
        PROVE  Explained'
    BY <2>2, <2>8 DEF GetGlobal, debugger, Explained, MappedAreSeen
  <2>9. ASSUME NEW v \in VTables, ResolveType(v)
        PROVE  Explained'
    BY <2>2, <2>9 DEF ResolveType, debugger, Explained, MappedAreSeen
  <2>10. CASE UNCHANGED vars
    BY <2>2, <2>10 DEF vars, statics, debugger, Explained, MappedAreSeen
  <2>11. QED
    BY <2>1, <2>3, <2>4, <2>5, <2>6, <2>7, <2>8, <2>9, <2>10 DEF Next, Touch
<1>3. QED
  BY <1>1, <1>2, TypeCorrect, PTL DEF Spec

(* Every offsets_ map goes back to one moment, for any session.              *)
THEOREM OffsetsAlwaysExplained == Spec => []OffsetsExplained
<1>1. Explained => OffsetsExplained
  BY DEF Explained
<1>2. QED
  BY <1>1, ExplainedAlways, PTL

(* A class the mapped image answered is read with that image's offsets and   *)
(* pointer size, unless targetinfo_ is of another with other pointers.       *)
THEOREM DumpAlwaysRight == Spec => []DumpRight
<1>1. Explained => DumpRight
  <2> SUFFICES ASSUME Explained, NEW k \in indexed, image # NoImage, source[k[1]] = image
               PROVE  \/ /\ PointerSize = PointerBytes(image)
                         /\ offsets_[k] = Effective(image, k, PointerBytes(image))
                      \/ targetinfo_ \in seen \ {image} /\ PointerSize # PointerBytes(image)
    BY DEF DumpRight
  <2>1. image \in Images /\ k \in Cells /\ k[1] \in Classes
    BY CellsOfFacts DEF Explained, TypeOK, Cells
  <2>2. offsets_[k] = Effective(image, k, PointerSize)
    BY <2>1 DEF Explained, OffsetsExplained
  <2>3. targetinfo_ # NoImage /\ targetinfo_ \in seen
    BY <2>1 DEF Explained, MappedAreSeen, SourceHasEntry
  <2>4. PointerSize = PointerBytes(targetinfo_)
    BY <2>3 DEF PointerSize
  <2>5. QED
    BY <2>2, <2>3, <2>4
<1>2. QED
  BY <1>1, ExplainedAlways, PTL

(* A map of zeros comes from a command that indexes it or dies over a bucket *)
(* array; with symbols to be had, only in PartitionAlloc's classes.          *)
THEOREM OnlyUseSpoils == Spec => SpoiltOnlyByUse
<1> DEFINE Use(c) ==
      /\ \/ CellsOf(c) \cap indexed' # {}
         \/ c \in Roots \cup Specifics /\ ~running'
      /\ Answerable => \/ c \in Roots
                       \/ c \in Specifics /\ OffsetOf[image][ArrayOf(c)] = Unset
<1>1. Explained /\ [Next]_vars =>
        [\A c \in Classes : source[c] = Unset /\ source'[c] = NoImage => Use(c)]_vars
  <2> SUFFICES ASSUME Explained, Next, NEW c \in Classes, source[c] = Unset, source'[c] = NoImage
               PROVE  Use(c)
    BY Zenon
  <2> USE CellsOfFacts, ConstantsOK
  <2>1. PICK d \in Classes : Touch(d)
    BY DEF Next, Touch, MapImage, UnmapImage, ReloadSymbols, InitializeTargetInfo,
           EndCommand, GetGlobal, ResolveType
  <2>2. d = c
    BY <2>1 DEF Touch, LoadGuarded, LoadUnguarded, LoadRoot, LoadDies, DumpBuckets,
       NoteSource, NoteSpoilt, Explained, TypeOK
  <2>3. MapEmpty(c) /\ source \in [Classes -> Images \cup {NoImage, Unset}] /\ TypeOK
    BY EmptyMaps DEF Explained, TypeOK
  <2>4. Answerable => image \in Images
    BY DEF Answerable, Explained, TypeOK
  <2>5. NoteSource(c) => ~Answerable /\ \E k \in MapOf(c) : offsets_'[k] # Unset
    BY <2>3, <2>4 DEF NoteSource
  <2>6. ASSUME (\E n \in BOOLEAN : LoadGuarded(c, n)) \/ LoadUnguarded(c) PROVE Use(c)
    <3>1. PICK k \in MapOf(c) : offsets_'[k] # Unset
      BY <2>5, <2>6 DEF LoadGuarded, LoadUnguarded
    <3>2. ~Answerable
      BY <2>5, <2>6 DEF LoadGuarded, LoadUnguarded
    <3>3. offsets_' # SymbolsLoaded(c)
      BY <2>3, <3>1, <3>2 DEF SymbolsLoaded, Asked, GetFieldOffset
    <3>4. CellsOf(c) \subseteq indexed'
      BY <2>6, <3>3 DEF LoadGuarded, LoadUnguarded, OffsetsAfter
    <3>5. QED
      BY <3>1, <3>2, <3>4
  <2>7. ~LoadRoot(c)
    <3>1. LoadRoot(c) => GetFieldOffset(ArrayOf(c)) # Unset /\ ~Answerable
      BY <2>3, <2>5 DEF LoadRoot, DividesByZero
    <3>2. QED
      BY <3>1 DEF GetFieldOffset
  <2>8. ASSUME LoadDies(c) PROVE Use(c)
    <3>1. /\ c \in Roots \cup Specifics /\ GetFieldOffset(ArrayOf(c)) = Unset
          /\ ArrayOf(c) \in Cells /\ ~running'
      BY <2>8 DEF LoadDies, DividesByZero
    <3>2. Answerable => OffsetOf[image][ArrayOf(c)] = Unset
      BY <2>3, <3>1, GetFieldOffsetFacts
    <3>3. QED
      BY <3>1, <3>2
  <2>9. ASSUME DumpBuckets(c) PROVE Use(c)
    BY <2>3, <2>9 DEF DumpBuckets
  <2>10. QED
    BY <2>1, <2>2, <2>6, <2>7, <2>8, <2>9 DEF Touch
<1>2. QED
  BY <1>1, ExplainedAlways, PTL DEF Spec, SpoiltOnlyByUse

(* Addresses and class names are remembered only from an image mapped in     *)
(* this session.                                                             *)
THEOREM AnswersAlwaysFromSeen == Spec => []AnswersFromSeen
<1>1. Init => AnswersFromSeen
  BY DEF Init, AnswersFromSeen
<1>2. AnswersFromSeen /\ Explained /\ [Next]_vars => AnswersFromSeen'
  <2> SUFFICES ASSUME AnswersFromSeen, Explained, [Next]_vars PROVE AnswersFromSeen'
    OBVIOUS
  <2>1. ASSUME seen \subseteq seen', UNCHANGED <<globals_, vt_to_class_>> PROVE AnswersFromSeen'
    BY <2>1 DEF AnswersFromSeen
  <2>2. ASSUME NEW g \in Globals, GetGlobal(g) PROVE AnswersFromSeen'
    <3>1. /\ seen' = seen /\ vt_to_class_' = vt_to_class_
          /\ Answerable => image \in seen
          /\ \A h \in Globals : \/ globals_'[h] = globals_[h]
                                \/ Answerable /\ globals_'[h] = ValueOf[image][h]
      BY <2>2 DEF GetGlobal, debugger, Answerable, Explained, MappedAreSeen, TypeOK
    <3>2. QED
      BY <3>1 DEF AnswersFromSeen
  <2>3. ASSUME NEW v \in VTables, ResolveType(v) PROVE AnswersFromSeen'
    <3>1. /\ seen' = seen /\ globals_' = globals_
          /\ image # NoImage => image \in seen
          /\ \A w \in VTables : \/ vt_to_class_'[w] = vt_to_class_[w]
                                \/ vt_to_class_'[w] = NoName
                                \/ image # NoImage /\ vt_to_class_'[w] = ClassAt[image][w]
      BY <2>3 DEF ResolveType, GetSymbol, debugger, Explained, MappedAreSeen, TypeOK
    <3>2. QED
      BY <3>1 DEF AnswersFromSeen
  <2>4. CASE Next
    <3>1. ASSUME NEW c \in Classes, Touch(c) PROVE AnswersFromSeen'
      BY <2>1, <3>1, TouchKeeps DEF debugger
    <3>2. QED
      BY <2>1, <2>2, <2>3, <2>4, <3>1 DEF Next, Touch, MapImage, UnmapImage, ReloadSymbols,
         InitializeTargetInfo, EndCommand, statics, debugger
  <2>5. CASE UNCHANGED vars
    BY <2>1, <2>5 DEF vars, statics, debugger
  <2>6. QED
    BY <2>4, <2>5
<1>3. QED
  BY <1>1, <1>2, ExplainedAlways, PTL DEF Spec

(* The statics implement WriteOnce: once stored, an answer stays.            *)
THEOREM StaticsAreWriteOnce == Spec => CachesWriteOnce
<1>1. Init => /\ OffsetStore!Init /\ GlobalStore!Init
              /\ TypeStore!Init /\ TargetStore!Init
  BY DEF Init, OffsetStore!Init, GlobalStore!Init, TypeStore!Init, TargetStore!Init
<1>2. Explained /\ Explained' /\ [Next]_vars => [OffsetStore!Fill]_offsets_
  <2> SUFFICES ASSUME Explained, Explained', Next, offsets_' # offsets_ PROVE OffsetStore!Fill
    BY Zenon DEF vars, statics
  <2>1. PICK c \in Classes : Touch(c)
    BY DEF Next, Touch, MapImage, UnmapImage, ReloadSymbols, InitializeTargetInfo, EndCommand,
           GetGlobal, ResolveType, statics
  <2>2. \A k \in Cells : offsets_[k] # Unset => offsets_'[k] = offsets_[k]
    BY <2>1, TouchKeeps
  <2>3. offsets_' \in [Cells -> Nat \cup {Unset}]
    BY DEF Explained, TypeOK
  <2>4. QED
    BY <2>2, <2>3 DEF OffsetStore!Fill
<1>3. Explained /\ Explained' /\ [Next]_vars => [GlobalStore!Fill]_globals_
  <2> SUFFICES ASSUME Explained, Explained', Next, globals_' # globals_ PROVE GlobalStore!Fill
    BY Zenon DEF vars, statics
  <2>1. PICK g \in Globals : GetGlobal(g)
    BY DEF Next, MapImage, UnmapImage, ReloadSymbols, InitializeTargetInfo, EndCommand,
           LoadGuarded, LoadUnguarded, LoadRoot, LoadDies, DumpBuckets,
           ResolveType, statics
  <2>2. globals_ \in [Globals -> Nat] /\ globals_' \in [Globals -> Nat \cup {0}]
    BY DEF Explained, TypeOK
  <2>3. QED
    BY <2>1, <2>2 DEF GlobalStore!Fill, GetGlobal
<1>4. Explained /\ Explained' /\ [Next]_vars => [TypeStore!Fill]_vt_to_class_
  <2> SUFFICES ASSUME Explained, Explained', Next, vt_to_class_' # vt_to_class_
               PROVE  TypeStore!Fill
    BY Zenon DEF vars, statics
  <2>1. PICK v \in VTables : ResolveType(v)
    BY DEF Next, MapImage, UnmapImage, ReloadSymbols, InitializeTargetInfo, EndCommand,
           LoadGuarded, LoadUnguarded, LoadRoot, LoadDies, DumpBuckets,
           GetGlobal, statics
  <2>2. /\ vt_to_class_ \in [VTables -> Names \cup {NoName}]
        /\ vt_to_class_' \in [VTables -> Names \cup {NoName}]
    BY DEF Explained, TypeOK
  <2>3. QED
    BY <2>1, <2>2 DEF TypeStore!Fill, ResolveType
<1>5. Explained /\ Explained' /\ [Next]_vars =>
        [TargetStore!Fill]_([t \in {"targetinfo_"} |-> targetinfo_])
  <2> SUFFICES ASSUME Explained, Explained', Next, targetinfo_' # targetinfo_
               PROVE  TargetStore!Fill
    BY Zenon DEF vars, statics
  <2>1. targetinfo_ = NoImage
    BY DEF Next, MapImage, UnmapImage, ReloadSymbols, InitializeTargetInfo, EndCommand,
           LoadGuarded, LoadUnguarded, LoadRoot, LoadDies, DumpBuckets,
           GetGlobal, ResolveType, statics
  <2>2. targetinfo_' \in Images \cup {NoImage}
    BY DEF Explained, TypeOK
  <2>3. QED
    BY <2>1, <2>2 DEF TargetStore!Fill
<1>6. QED
  BY <1>1, <1>2, <1>3, <1>4, <1>5, ExplainedAlways, PTL
  DEF Spec, CachesWriteOnce, OffsetStore!Spec, GlobalStore!Spec, TypeStore!Spec, TargetStore!Spec

------------------------------------------------------------------------------
(* How InitializeTargetInfo comes by what it knows: an attempt of module     *)
(* PEImage, with a target of its own.                                        *)

CONSTANTS Files, Nothing, Machines, Machines64, Supported

VARIABLES file, known, pc, imagebase_, platform_, resource_dir_, ResDirectory, level, i,
          ResDirEntry, failed

Attempt == INSTANCE PEImage WITH targetinfo_ <- known

(* What module PEImage assumes.                                              *)
AttemptsAssumed == Attempt!MachinesOK /\ Attempt!ResourcesOK

(* The entries on the way to the version, and the data at its end.           *)
Type == Attempt!EntryOf(file.resources, Attempt!VS_FILE_INFO)
Name == Attempt!EntryOf(Type.to, Attempt!VS_VERSION_INFO)
Language == Head(Name.to.named \o Name.to.ids)

(* Initialize: nothing has failed so far, or LoadVersion would be next.      *)
Recognised == file.pe /\ file.machine \in Supported /\ imagebase_ = file /\ platform_ = file.machine

HeadersRight ==
  /\ pc \in {"dos", "signature", "machine"} => imagebase_ = Nothing
  /\ pc \in {"dos", "signature", "machine", "import", "resource"} => ~failed /\ resource_dir_ = Nothing
  /\ pc = "machine" => file.pe
  /\ pc \in {"import", "resource"} => Recognised

(* LoadVersion: without a resource directory, which only a failed read can   *)
(* cost it, it does not come beyond the DOS header.                          *)
Loading == {"directory", "search", "language", "data", "version"}

ResourcesRight ==
  pc \in Loading =>
    /\ Recognised /\ level \in 0..2
    /\ resource_dir_ = IF failed THEN Nothing ELSE file.resources
    /\ failed => level = 0
    /\ level > 0 => Attempt!Below(Type) /\ Type \in Attempt!EntriesOf(file.resources)
    /\ level > 1 => Attempt!Below(Name) /\ Name \in Attempt!EntriesOf(Type.to)

Searched ==
  IF level > 0 THEN Type.to ELSE IF failed THEN Attempt!DosHeader ELSE file.resources

(* No entry the search has passed is the one it looks for.                   *)
SearchRight ==
  /\ pc = "directory" => (level = 1 => ResDirEntry = Type) /\ (level = 2 => ResDirEntry = Name)
  /\ pc = "search" =>
       /\ level < 2 /\ ResDirectory = Searched /\ i \in 0..Len(Searched.ids)
       /\ \A k \in 1..i : ~(~Searched.ids[k].string /\ Searched.ids[k].id = Attempt!Wanted)
  /\ pc \in {"language", "data", "version"} => level = 2 /\ Len(Name.to.ids) > 0
  /\ pc = "language" => ResDirectory = Name.to
  /\ pc \in {"data", "version"} => ResDirEntry = Language /\ ~Language.dir
  /\ pc = "version" => Language.to.size >= Attempt!SizeOfVersionInfo

AttemptInv ==
  /\ file \in Files \cup {Nothing} /\ failed \in BOOLEAN
  /\ pc \in {"idle", "dos", "signature", "machine", "import", "resource"} \cup Loading
  /\ pc # "idle" => file \in Files /\ known = Nothing
  /\ HeadersRight /\ ResourcesRight /\ SearchRight

(* What an image says, in terms of the way to it.                            *)
LEMMA FactsAre ==
  Attempt!Facts(file) =
    IF /\ file.pe /\ file.machine \in Supported
       /\ Attempt!Below(Type) /\ Attempt!Below(Name) /\ Len(Name.to.ids) > 0
       /\ ~Language.dir /\ Language.to.size >= Attempt!SizeOfVersionInfo /\ Language.to.magic
    THEN [is64bit_ |-> file.machine \in Machines64, version_ |-> Language.to.version]
    ELSE Nothing
BY Zenon DEF Attempt!Facts, Type, Name, Language

(* An image says nothing of its version when it lacks any of these.          *)
LEMMA NothingFound ==
  ASSUME ~(/\ file.pe /\ file.machine \in Supported
           /\ Attempt!Below(Type) /\ Attempt!Below(Name) /\ Len(Name.to.ids) > 0
           /\ ~Language.dir /\ Language.to.size >= Attempt!SizeOfVersionInfo /\ Language.to.magic)
  PROVE  Attempt!Facts(file) = Nothing
BY FactsAre, Zenon

(* A search that has passed no entry it looks for, and comes upon one.       *)
LEMMA EntryFound ==
  ASSUME NEW d, Attempt!IsDirectory(d), NEW id, NEW n \in 1..Len(d.ids),
         ~d.ids[n].string, d.ids[n].id = id,
         \A k \in 1..(n - 1) : ~(~d.ids[k].string /\ d.ids[k].id = id)
  PROVE  Attempt!EntryOf(d, id) = d.ids[n] /\ d.ids[n] # Nothing /\ d.ids[n] \in Attempt!EntriesOf(d)
<1> DEFINE at == {k \in 1..Len(d.ids) : ~d.ids[k].string /\ d.ids[k].id = id}
<1>1. n \in at /\ \A k \in at : n <= k
  OBVIOUS
<1>2. Attempt!Min(at) = n
  <2> HIDE DEF at
  <2>1. \A k \in at : (\A l \in at : k <= l) => k = n
    BY <1>1 DEF at
  <2> QED
    BY <1>1, <2>1, Zenon DEF Attempt!Min
<1>3. Attempt!SelectInSeq(d.ids, LAMBDA e : ~e.string /\ e.id = id) = n
  BY <1>1, <1>2, Zenon DEF Attempt!SelectInSeq
<1>4. n # 0
  OBVIOUS
<1>5. Attempt!EntryOf(d, id) = d.ids[n]
  BY <1>3, <1>4, Zenon DEF Attempt!EntryOf
<1>6. d.ids[n] \in Attempt!EntriesOf(d) /\ Nothing \notin Attempt!EntriesOf(d)
  BY DEF Attempt!IsDirectory, Attempt!EntriesOf, Attempt!Range
<1> QED
  BY <1>5, <1>6

(* One that has passed them all.                                             *)
LEMMA EntryMissing ==
  ASSUME NEW d, NEW id, \A k \in 1..Len(d.ids) : ~(~d.ids[k].string /\ d.ids[k].id = id)
  PROVE  Attempt!EntryOf(d, id) = Nothing
<1>1. {k \in 1..Len(d.ids) : ~d.ids[k].string /\ d.ids[k].id = id} = {}
  OBVIOUS
<1>2. Attempt!SelectInSeq(d.ids, LAMBDA e : ~e.string /\ e.id = id) = 0
  BY <1>1, Zenon DEF Attempt!SelectInSeq
<1> QED
  BY <1>2, Zenon DEF Attempt!EntryOf

------------------------------------------------------------------------------

(* What an attempt may do to what is known of the target: at its end, unless *)
(* a read has failed, it is what the image says.                             *)
Decides == (pc # "idle" /\ pc' = "idle" /\ ~failed') => known' = Attempt!Facts(file)
Learns == [Attempt!Probe!Next]_<<file, known>>

(* The way to the version is made of directories.                            *)
LEMMA DirectoriesOnTheWay ==
  ASSUME AttemptsAssumed, AttemptInv, pc # "idle"
  PROVE  /\ file \in Files /\ file # Nothing
         /\ file.resources # Nothing /\ Attempt!IsDirectory(file.resources)
         /\ pc \in Loading /\ level > 0 => Attempt!IsDirectory(Type.to)
         /\ pc \in Loading /\ level > 1 => Attempt!IsDirectory(Name.to)
         /\ Len(Attempt!DosHeader.ids) = 0
<1>1. file \in Files /\ file # Nothing /\ Attempt!IsDirectory(file.resources) /\ file.resources # Nothing
  BY DEF AttemptsAssumed, AttemptInv, Attempt!MachinesOK, Attempt!ResourcesOK, Attempt!IsDirectory
<1>2. \A e \in Attempt!EntriesOf(file.resources) : e.dir =>
        /\ Attempt!IsDirectory(e.to)
        /\ \A f \in Attempt!EntriesOf(e.to) : f.dir => Attempt!IsDirectory(f.to)
  BY <1>1 DEF AttemptsAssumed, Attempt!ResourcesOK
<1>3. pc \in Loading /\ level > 0 => Attempt!IsDirectory(Type.to)
  BY <1>2 DEF AttemptInv, ResourcesRight, Attempt!Below
<1>4. pc \in Loading /\ level > 1 => Attempt!IsDirectory(Name.to)
  BY <1>2 DEF AttemptInv, ResourcesRight, Attempt!Below
<1>5. Len(Attempt!DosHeader.ids) = 0
  BY DEF Attempt!DosHeader
<1> QED
  BY <1>1, <1>3, <1>4, <1>5

(* While the image and the directories on the way stay, so does what is said *)
(* of them.                                                                  *)
LEMMA WayStays ==
  ASSUME UNCHANGED file
  PROVE  Type' = Type /\ Name' = Name /\ Language' = Language
BY Zenon DEF Type, Name, Language

(* Initialize: the reads of the headers.                                     *)
LEMMA HeadersStep ==
  ASSUME AttemptsAssumed, AttemptInv, NEW ok \in BOOLEAN,
         \/ Attempt!ReadDosHeader(ok) \/ Attempt!ReadSignature(ok) \/ Attempt!ReadMachine(ok)
         \/ Attempt!ReadImportDirectory(ok) \/ Attempt!ReadResourceDirectory(ok)
  PROVE  AttemptInv' /\ Decides /\ UNCHANGED <<file, known>>
<1>1. /\ UNCHANGED <<file, known>> /\ failed' = (failed \/ ~ok)
      /\ pc \in {"dos", "signature", "machine", "import", "resource"}
  BY DEF Attempt!ReadDosHeader, Attempt!ReadSignature, Attempt!ReadMachine,
         Attempt!ReadImportDirectory, Attempt!ReadResourceDirectory, Attempt!Read, Attempt!pe
<1>2. file \in Files /\ file # Nothing /\ known = Nothing /\ ~failed /\ resource_dir_ = Nothing
  BY <1>1, DirectoriesOnTheWay DEF AttemptInv, HeadersRight
<1>3. CASE Attempt!ReadDosHeader(ok)
  <2>1. /\ imagebase_ = Nothing /\ UNCHANGED <<imagebase_, platform_, resource_dir_>>
        /\ pc' = IF ok THEN "signature" ELSE "idle"
    BY <1>3 DEF AttemptInv, HeadersRight, Attempt!ReadDosHeader, Attempt!LoadVersionIf,
                Attempt!Read, Attempt!pe
  <2> QED
    BY <1>1, <1>2, <2>1 DEF AttemptInv, HeadersRight, ResourcesRight, SearchRight, Decides, Loading
<1>4. CASE Attempt!ReadSignature(ok)
  <2>1. /\ imagebase_ = Nothing /\ UNCHANGED <<imagebase_, platform_, resource_dir_>>
        /\ pc' = IF ok /\ file.pe THEN "machine" ELSE "idle"
    BY <1>4 DEF AttemptInv, HeadersRight, Attempt!ReadSignature, Attempt!LoadVersionIf,
                Attempt!Read, Attempt!pe
  <2>2. ~file.pe => Attempt!Facts(file) = Nothing
    BY FactsAre
  <2> QED
    BY <1>1, <1>2, <2>1, <2>2 DEF AttemptInv, HeadersRight, ResourcesRight, SearchRight, Decides,
                                  Loading
<1>5. CASE Attempt!ReadMachine(ok)
  <2>1. /\ imagebase_ = Nothing /\ file.pe /\ UNCHANGED resource_dir_
        /\ IF ok /\ file.machine \in Supported
           THEN imagebase_' = file /\ platform_' = file.machine /\ pc' = "import"
           ELSE pc' = "idle"
    BY <1>5 DEF AttemptInv, HeadersRight, Attempt!ReadMachine, Attempt!LoadVersionIf,
                Attempt!Read, Attempt!Accepted
  <2>2. file.machine \notin Supported => Attempt!Facts(file) = Nothing
    BY FactsAre
  <2> QED
    BY <1>1, <1>2, <2>1, <2>2 DEF AttemptInv, HeadersRight, ResourcesRight, SearchRight, Decides,
                                  Loading, Recognised
<1>6. CASE Attempt!ReadImportDirectory(ok)
  <2>1. /\ Recognised /\ UNCHANGED <<imagebase_, platform_, resource_dir_>>
        /\ IF ok THEN pc' = "resource" ELSE pc' = "directory" /\ level' = 0
    BY <1>2, <1>6 DEF AttemptInv, HeadersRight, Attempt!ReadImportDirectory,
                      Attempt!LoadVersionIf, Attempt!Read, Attempt!pe, Recognised
  <2>2. /\ file' \in Files \cup {Nothing} /\ failed' \in BOOLEAN /\ file' \in Files /\ known' = Nothing
        /\ pc' \in {"idle", "dos", "signature", "machine", "import", "resource"} \cup Loading
    BY <1>1, <1>2, <2>1 DEF AttemptInv, Loading
  <2>3. HeadersRight'
    BY <1>1, <1>2, <2>1 DEF HeadersRight, Recognised, AttemptInv, Loading
  <2>4. pc' \in Loading => Recognised' /\ level' = 0
    BY <1>1, <1>2, <2>1 DEF Recognised, Loading
  <2>5. pc' \in Loading => resource_dir_' = IF failed' THEN Nothing ELSE file'.resources
    BY <1>1, <1>2, <2>1 DEF Loading
  <2>6. ~(0 > 0) /\ ~(0 > 1) /\ 0 \in 0..2
    OBVIOUS
  <2>7. ResourcesRight'
    BY <2>4, <2>5, <2>6, Zenon DEF ResourcesRight
  <2>8. SearchRight'
    BY <1>1, <1>2, <2>1 DEF SearchRight
  <2>9. Decides
    BY <1>1, <1>2, <2>1 DEF Decides
  <2> QED
    BY <1>1, <2>2, <2>3, <2>7, <2>8, <2>9 DEF AttemptInv
<1>7. CASE Attempt!ReadResourceDirectory(ok)
  <2>1. /\ Recognised /\ UNCHANGED <<imagebase_, platform_>> /\ pc' = "directory" /\ level' = 0
        /\ resource_dir_' = IF ok THEN file.resources ELSE Nothing
    BY <1>2, <1>7 DEF AttemptInv, HeadersRight, Attempt!ReadResourceDirectory,
                      Attempt!LoadVersionIf, Attempt!Read, Recognised
  <2>2. /\ file' \in Files \cup {Nothing} /\ failed' \in BOOLEAN /\ file' \in Files /\ known' = Nothing
        /\ pc' \in {"idle", "dos", "signature", "machine", "import", "resource"} \cup Loading
    BY <1>1, <1>2, <2>1 DEF AttemptInv, Loading
  <2>3. HeadersRight'
    BY <1>1, <1>2, <2>1 DEF HeadersRight, Recognised, AttemptInv, Loading
  <2>4. pc' \in Loading => Recognised' /\ level' = 0
    BY <1>1, <1>2, <2>1 DEF Recognised, Loading
  <2>5. pc' \in Loading => resource_dir_' = IF failed' THEN Nothing ELSE file'.resources
    BY <1>1, <1>2, <2>1 DEF Loading
  <2>6. ~(0 > 0) /\ ~(0 > 1) /\ 0 \in 0..2
    OBVIOUS
  <2>7. ResourcesRight'
    BY <2>4, <2>5, <2>6, Zenon DEF ResourcesRight
  <2>8. SearchRight'
    BY <1>1, <1>2, <2>1 DEF SearchRight
  <2>9. Decides
    BY <1>1, <1>2, <2>1 DEF Decides
  <2> QED
    BY <1>1, <2>2, <2>3, <2>7, <2>8, <2>9 DEF AttemptInv
<1> QED
  BY <1>3, <1>4, <1>5, <1>6, <1>7, <1>1

(* An attempt that is over leaves nothing to be said of it.                  *)
LEMMA AttemptOver ==
  ASSUME file' \in Files \cup {Nothing}, failed' \in BOOLEAN, pc' = "idle"
  PROVE  AttemptInv'
BY DEF AttemptInv, HeadersRight, ResourcesRight, SearchRight, Loading

(* A step of LoadVersion that stays on the way to the version.               *)
LEMMA OnTheWay ==
  ASSUME AttemptInv, pc \in Loading, pc' \in Loading, NEW l \in 0..2, level' = l,
         UNCHANGED <<file, known, imagebase_, platform_, resource_dir_, failed>>, failed => l = 0,
         l > 0 => Attempt!Below(Type) /\ Type \in Attempt!EntriesOf(file.resources),
         l > 1 => Attempt!Below(Name) /\ Name \in Attempt!EntriesOf(Type.to)
  PROVE  SearchRight' => AttemptInv'
<1>1. Type' = Type /\ Name' = Name
  BY WayStays
<1>2. /\ file \in Files /\ known = Nothing /\ failed \in BOOLEAN /\ Recognised
      /\ resource_dir_ = IF failed THEN Nothing ELSE file.resources
  BY DEF AttemptInv, ResourcesRight, Loading
<1>3. Recognised'
  BY <1>2 DEF Recognised
<1>4. HeadersRight'
  BY DEF HeadersRight, Loading
<1>5. /\ (Attempt!Below(Type) => Attempt!Below(Type)') /\ (Attempt!Below(Name) => Attempt!Below(Name)')
      /\ (Type \in Attempt!EntriesOf(file.resources) => (Type \in Attempt!EntriesOf(file.resources))')
      /\ (Name \in Attempt!EntriesOf(Type.to) => (Name \in Attempt!EntriesOf(Type.to))')
  BY <1>1, Zenon DEF Attempt!Below
<1>6. ResourcesRight'
  BY <1>2, <1>3, <1>5 DEF ResourcesRight
<1> QED
  BY <1>2, <1>4, <1>6 DEF AttemptInv, Loading

(* A directory is opened: on the way to the version it is the next one.      *)
LEMMA OpenStep ==
  ASSUME AttemptsAssumed, AttemptInv, NEW ok \in BOOLEAN, Attempt!OpenDirectory(ok)
  PROVE  AttemptInv' /\ Decides /\ UNCHANGED <<file, known>>
<1> DEFINE opened == IF level = 2 THEN Name.to ELSE Searched
<1>1. /\ UNCHANGED <<file, known, imagebase_, platform_, resource_dir_, level, ResDirEntry>>
      /\ failed' = (failed \/ ~ok) /\ pc = "directory"
  BY DEF Attempt!OpenDirectory, Attempt!Read, Attempt!pe
<1>2. /\ file \in Files /\ file # Nothing /\ known = Nothing /\ failed \in BOOLEAN
      /\ Recognised /\ level \in 0..2 /\ (failed => level = 0)
      /\ resource_dir_ = IF failed THEN Nothing ELSE file.resources
      /\ (level > 0 => Attempt!Below(Type) /\ Type \in Attempt!EntriesOf(file.resources))
      /\ (level > 1 => Attempt!Below(Name) /\ Name \in Attempt!EntriesOf(Type.to))
      /\ (level = 1 => ResDirEntry = Type) /\ (level = 2 => ResDirEntry = Name)
  BY <1>1, DirectoriesOnTheWay DEF AttemptInv, ResourcesRight, SearchRight, Loading
<1>3. /\ file.resources # Nothing /\ Attempt!IsDirectory(file.resources)
      /\ (level > 0 => Attempt!IsDirectory(Type.to)) /\ (level > 1 => Attempt!IsDirectory(Name.to))
      /\ Len(Attempt!DosHeader.ids) = 0
  BY <1>1, DirectoriesOnTheWay DEF Loading
<1>4. opened = IF level > 0 THEN ResDirEntry.to
               ELSE IF resource_dir_ = Nothing THEN Attempt!DosHeader ELSE resource_dir_
  BY <1>2, <1>3 DEF Searched
<1> HIDE DEF opened
<1>5. /\ ResDirectory' = IF ok THEN opened ELSE ResDirectory
      /\ i' = 0
      /\ pc' = IF ~ok \/ (level = 2 /\ Len(opened.ids) < 1) THEN "idle"
               ELSE IF level < 2 THEN "search" ELSE "language"
  BY <1>4, Zenon DEF Attempt!OpenDirectory
<1>6. Type' = Type /\ Name' = Name /\ Language' = Language
  BY <1>1, WayStays
<1>7. CASE pc' = "idle"
  <2>1. ok => level = 2 /\ ~(Len(Name.to.ids) > 0)
    BY <1>3, <1>5, <1>7 DEF opened, Attempt!IsDirectory
  <2>2. ok => Attempt!Facts(file) = Nothing
    BY <2>1, NothingFound, Zenon
  <2> QED
    BY <1>1, <1>2, <1>7, <2>2, AttemptOver DEF Decides
<1>8. CASE pc' # "idle"
  <2>1. /\ ok /\ failed' = failed /\ ResDirectory' = opened
        /\ IF level < 2 THEN pc' = "search" ELSE pc' = "language" /\ Len(Name.to.ids) > 0
    BY <1>1, <1>2, <1>3, <1>5, <1>8 DEF opened, Attempt!IsDirectory
  <2>2. SearchRight'
    <3>1. CASE level < 2
      <4>1. Searched' = Searched /\ Len(Searched.ids) \in Nat
        BY <1>1, <1>2, <1>3, <1>6, <2>1 DEF Searched, Attempt!IsDirectory
      <4> QED
        BY <1>1, <1>2, <1>5, <2>1, <3>1, <4>1 DEF SearchRight, opened
    <3>2. CASE level = 2
      BY <1>1, <1>5, <1>6, <2>1, <3>2 DEF SearchRight, opened
    <3> QED
      BY <1>2, <3>1, <3>2
  <2> QED
    BY <1>1, <1>2, <2>1, <2>2, OnTheWay DEF Decides, Loading
<1> QED
  BY <1>7, <1>8

(* An entry is read: the one looked for leads one level down, another is     *)
(* passed.                                                                   *)
LEMMA SearchStep ==
  ASSUME AttemptsAssumed, AttemptInv, NEW ok \in BOOLEAN, Attempt!SearchEntry(ok)
  PROVE  AttemptInv' /\ Decides /\ UNCHANGED <<file, known>>
<1> DEFINE e == Searched.ids[i + 1]
           hit == ~e.string /\ e.id = Attempt!Wanted
<1>1. /\ UNCHANGED <<file, known, imagebase_, platform_, resource_dir_, ResDirectory>>
      /\ failed' = (failed \/ ~ok) /\ pc = "search"
  BY DEF Attempt!SearchEntry, Attempt!Read, Attempt!pe
<1>2. /\ file \in Files /\ known = Nothing /\ failed \in BOOLEAN
      /\ Recognised /\ level \in {0, 1} /\ (failed => level = 0)
      /\ (level > 0 => Attempt!Below(Type) /\ Type \in Attempt!EntriesOf(file.resources))
      /\ ResDirectory = Searched /\ i \in 0..Len(Searched.ids)
      /\ \A k \in 1..i : ~(~Searched.ids[k].string /\ Searched.ids[k].id = Attempt!Wanted)
  BY <1>1 DEF AttemptInv, ResourcesRight, SearchRight, Loading
<1>3. /\ Attempt!IsDirectory(file.resources) /\ (level > 0 => Attempt!IsDirectory(Type.to))
      /\ Len(Attempt!DosHeader.ids) = 0
  BY <1>1, DirectoriesOnTheWay DEF Loading
<1>4. /\ i < Len(Searched.ids)
      /\ ResDirEntry' = IF ok THEN e ELSE ResDirEntry
      /\ i' = IF ok /\ ~hit THEN i + 1 ELSE i
      /\ level' = IF ok /\ hit /\ e.dir THEN level + 1 ELSE level
      /\ pc' = IF ok /\ ~hit THEN "search" ELSE IF ok /\ hit /\ e.dir THEN "directory" ELSE "idle"
  BY <1>2 DEF Attempt!SearchEntry, Attempt!SearchedEntry, Attempt!NextEntry
<1>5. Attempt!IsDirectory(Searched) /\ ~failed
  BY <1>2, <1>3, <1>4 DEF Searched
<1>6. Type' = Type /\ Name' = Name
  BY <1>1, WayStays
<1>7. hit => IF level = 0 THEN e = Type /\ Type \in Attempt!EntriesOf(file.resources)
                          ELSE e = Name /\ Name \in Attempt!EntriesOf(Type.to)
  <2>1. SUFFICES ASSUME hit
               PROVE  e = Attempt!EntryOf(Searched, Attempt!Wanted) /\ e \in Attempt!EntriesOf(Searched)
    BY <1>2, <1>5 DEF Searched, Type, Name, Attempt!Wanted
  <2>2. i + 1 \in 1..Len(Searched.ids) /\ \A k \in 1..((i + 1) - 1) :
          ~(~Searched.ids[k].string /\ Searched.ids[k].id = Attempt!Wanted)
    BY <1>2, <1>4, <1>5 DEF Attempt!IsDirectory
  <2> QED
    BY <1>5, <2>1, <2>2, EntryFound
<1> HIDE DEF e, hit
<1>8. CASE ok /\ ~hit
  <2>1. failed' = failed /\ level' = level /\ i' = i + 1 /\ pc' = "search" /\ Searched' = Searched
    BY <1>1, <1>2, <1>4, <1>6, <1>8 DEF Searched
  <2>2. i + 1 \in 0..Len(Searched.ids) /\ \A k \in 1..(i + 1) :
          ~(~Searched.ids[k].string /\ Searched.ids[k].id = Attempt!Wanted)
    BY <1>2, <1>4, <1>5, <1>8 DEF e, hit, Attempt!IsDirectory
  <2>3. Attempt!Wanted' = Attempt!Wanted
    BY <2>1 DEF Attempt!Wanted
  <2>4. SearchRight'
    BY <1>1, <1>2, <2>1, <2>2, <2>3 DEF SearchRight
  <2> QED
    BY <1>1, <1>2, <2>1, <2>4, OnTheWay DEF Decides, Loading
<1>9. CASE ok /\ hit /\ e.dir
  <2>1. failed' = failed /\ level' = level + 1 /\ pc' = "directory" /\ ResDirEntry' = e
    BY <1>1, <1>2, <1>4, <1>9
  <2>2. SearchRight'
    BY <1>2, <1>6, <1>7, <1>9, <2>1 DEF SearchRight
  <2>3. level = 0 => Attempt!Below(Type)
    BY <1>5, <1>7, <1>9 DEF Attempt!Below, Attempt!IsDirectory, Searched
  <2>4. level = 1 => Attempt!Below(Name)
    BY <1>5, <1>7, <1>9 DEF Attempt!Below, Attempt!IsDirectory, Searched
  <2> QED
    BY <1>1, <1>2, <1>5, <1>7, <1>9, <2>1, <2>2, <2>3, <2>4, OnTheWay DEF Decides, Loading
<1>10. CASE pc' = "idle"
  <2>1. ok => hit /\ ~e.dir
    BY <1>4, <1>10
  <2>2. ok => ~Attempt!Below(Type) \/ ~Attempt!Below(Name)
    BY <1>2, <1>7, <2>1 DEF Attempt!Below
  <2>3. ok => Attempt!Facts(file) = Nothing
    BY <2>2, NothingFound, Zenon
  <2> QED
    BY <1>1, <1>2, <1>10, <2>3, AttemptOver DEF Decides
<1> QED
  BY <1>1, <1>4, <1>8, <1>9, <1>10

(* No entry is the one looked for.                                           *)
LEMMA NotFoundStep ==
  ASSUME AttemptsAssumed, AttemptInv, Attempt!NotFound
  PROVE  AttemptInv' /\ Decides /\ UNCHANGED <<file, known>>
<1>1. /\ UNCHANGED <<file, known, failed>> /\ pc = "search" /\ pc' = "idle"
      /\ i >= Len(ResDirectory.ids)
  BY DEF Attempt!NotFound
<1>2. /\ file \in Files /\ known = Nothing /\ failed \in BOOLEAN
      /\ level \in {0, 1} /\ ResDirectory = Searched /\ i \in 0..Len(Searched.ids)
      /\ \A k \in 1..i : ~(~Searched.ids[k].string /\ Searched.ids[k].id = Attempt!Wanted)
  BY <1>1 DEF AttemptInv, ResourcesRight, SearchRight, Loading
<1>3. ASSUME ~failed PROVE Attempt!Facts(file) = Nothing
  <2>1. Attempt!IsDirectory(Searched)
    BY <1>1, <1>2, <1>3, DirectoriesOnTheWay DEF Loading, Searched
  <2>2. \A k \in 1..Len(Searched.ids) : ~(~Searched.ids[k].string /\ Searched.ids[k].id = Attempt!Wanted)
    BY <1>1, <1>2, <2>1 DEF Attempt!IsDirectory
  <2>3. Attempt!EntryOf(Searched, Attempt!Wanted) = Nothing
    BY <2>2, EntryMissing
  <2>4. Type = Nothing \/ Name = Nothing
    BY <1>2, <1>3, <2>3 DEF Searched, Type, Name, Attempt!Wanted
  <2> QED
    BY <2>4, NothingFound, Zenon DEF Attempt!Below
<1> QED
  BY <1>1, <1>2, <1>3, AttemptOver DEF Decides

(* The first of two sequences, the second of which has an element.           *)
LEMMA HeadOfBoth ==
  ASSUME NEW S, NEW s \in Seq(S), NEW t \in Seq(S), Len(t) > 0
  PROVE  Head(s \o t) = (s \o t)[1]
<1>1. s \o t \in Seq(S) /\ Len(s \o t) = Len(s) + Len(t) /\ Len(s) \in Nat /\ Len(t) \in Nat
  OBVIOUS
<1>2. Len(s \o t) > 0
  BY <1>1
<1> QED
  BY <1>1, <1>2

(* The last reads: the first entry of the directory of languages, what it    *)
(* leads to, and the version itself.                                         *)
LEMMA VersionStep ==
  ASSUME AttemptsAssumed, AttemptInv, NEW ok \in BOOLEAN,
         Attempt!ReadLanguage(ok) \/ Attempt!ReadDataEntry(ok) \/ Attempt!ReadVersion(ok)
  PROVE  /\ AttemptInv' /\ Decides /\ UNCHANGED file
         /\ known' # known => known = Nothing /\ file # Nothing /\ known' = Attempt!Facts(file)
<1>1. /\ UNCHANGED <<file, imagebase_, platform_, resource_dir_, level>>
      /\ failed' = (failed \/ ~ok) /\ pc \in {"language", "data", "version"}
  BY DEF Attempt!ReadLanguage, Attempt!ReadDataEntry, Attempt!ReadVersion, Attempt!Read,
         Attempt!pe, Attempt!locals
<1>2. /\ file \in Files /\ file # Nothing /\ known = Nothing /\ failed \in BOOLEAN
      /\ Recognised /\ level = 2 /\ ~failed /\ Len(Name.to.ids) > 0
      /\ Attempt!Below(Type) /\ Type \in Attempt!EntriesOf(file.resources)
      /\ Attempt!Below(Name) /\ Name \in Attempt!EntriesOf(Type.to)
  BY <1>1, DirectoriesOnTheWay DEF AttemptInv, ResourcesRight, SearchRight, Loading
<1>3. Language' = Language /\ Name' = Name
  BY <1>1, WayStays
<1>4. CASE Attempt!ReadLanguage(ok)
  <2>1. UNCHANGED known /\ pc = "language" /\ ResDirectory = Name.to
    BY <1>4 DEF Attempt!ReadLanguage, Attempt!Read, AttemptInv, SearchRight
  <2>2. Language = (Name.to.named \o Name.to.ids)[1]
    <3>1. Attempt!IsDirectory(Name.to)
      BY <1>1, <1>2, DirectoriesOnTheWay DEF Loading
    <3> QED
      BY <1>2, <3>1, HeadOfBoth DEF Attempt!IsDirectory, Language
  <2>3. /\ ResDirEntry' = IF ok THEN Language ELSE ResDirEntry
        /\ pc' = IF ok /\ ~Language.dir THEN "data" ELSE "idle"
    BY <1>4, <2>1, <2>2, Zenon DEF Attempt!ReadLanguage
  <2>4. Language.dir => Attempt!Facts(file) = Nothing
    BY NothingFound, Zenon
  <2>5. CASE pc' = "idle"
    BY <1>1, <1>2, <2>1, <2>3, <2>4, <2>5, AttemptOver DEF Decides
  <2>6. CASE pc' # "idle"
    <3>1. failed' = failed /\ pc' = "data" /\ ResDirEntry' = Language /\ ~Language.dir
      BY <1>1, <1>2, <2>3, <2>6
    <3>2. SearchRight'
      BY <1>1, <1>2, <1>3, <3>1 DEF SearchRight
    <3> QED
      BY <1>1, <1>2, <2>1, <3>1, <3>2, OnTheWay DEF Decides, Loading
  <2> QED
    BY <2>5, <2>6
<1>5. CASE Attempt!ReadDataEntry(ok)
  <2>1. /\ UNCHANGED <<known, ResDirEntry>> /\ pc = "data" /\ ResDirEntry = Language /\ ~Language.dir
        /\ pc' = IF ok /\ Language.to.size >= Attempt!SizeOfVersionInfo THEN "version" ELSE "idle"
    BY <1>5 DEF Attempt!ReadDataEntry, Attempt!Read, Attempt!locals, AttemptInv, SearchRight
  <2>2. ~(Language.to.size >= Attempt!SizeOfVersionInfo) => Attempt!Facts(file) = Nothing
    BY NothingFound, Zenon
  <2>3. CASE pc' = "idle"
    BY <1>1, <1>2, <2>1, <2>2, <2>3, AttemptOver DEF Decides
  <2>4. CASE pc' # "idle"
    <3>1. failed' = failed /\ pc' = "version" /\ Language.to.size >= Attempt!SizeOfVersionInfo
      BY <1>1, <1>2, <2>1, <2>4
    <3>2. SearchRight'
      BY <1>1, <1>2, <1>3, <2>1, <3>1 DEF SearchRight, Attempt!SizeOfVersionInfo
    <3> QED
      BY <1>1, <1>2, <2>1, <3>1, <3>2, OnTheWay DEF Decides, Loading
  <2> QED
    BY <2>3, <2>4
<1>6. CASE Attempt!ReadVersion(ok)
  <2>1. /\ pc = "version" /\ pc' = "idle" /\ ResDirEntry = Language /\ ~Language.dir
        /\ Language.to.size >= Attempt!SizeOfVersionInfo
        /\ known' = IF ok /\ Language.to.magic
                    THEN [is64bit_ |-> file.machine \in Machines64, version_ |-> Language.to.version]
                    ELSE known
    BY <1>2, <1>6 DEF Attempt!ReadVersion, Attempt!Read, Attempt!Learned, Attempt!Is64bit,
                      AttemptInv, SearchRight, Recognised
  <2>2. Attempt!Facts(file) = IF Language.to.magic
                    THEN [is64bit_ |-> file.machine \in Machines64, version_ |-> Language.to.version]
                    ELSE Nothing
    BY <1>2, <2>1, FactsAre, Zenon DEF Recognised
  <2> QED
    BY <1>1, <1>2, <2>1, <2>2, AttemptOver DEF Decides
<1> QED
  BY <1>4, <1>5, <1>6

------------------------------------------------------------------------------

(* Between attempts the target may map another image.                        *)
LEMMA BetweenAttempts ==
  ASSUME AttemptsAssumed, AttemptInv, Attempt!Remap \/ Attempt!Construct \/ UNCHANGED Attempt!vars
  PROVE  /\ AttemptInv' /\ Decides /\ UNCHANGED known /\ file' \in Files \cup {Nothing}
<1>1. CASE Attempt!Remap
  <2>1. /\ UNCHANGED known /\ pc = "idle" /\ pc' = "idle" /\ failed' = FALSE
        /\ file' \in Files \cup {Nothing}
    BY <1>1 DEF Attempt!Remap, Attempt!Fresh
  <2> QED
    BY <2>1, AttemptOver DEF Decides
<1>2. CASE Attempt!Construct
  <2>1. /\ UNCHANGED <<file, known>> /\ file # Nothing /\ known = Nothing /\ pc = "idle" /\ pc' = "dos"
        /\ failed' = FALSE /\ imagebase_' = Nothing /\ resource_dir_' = Nothing
    BY <1>2 DEF Attempt!Construct, Attempt!Fresh
  <2> QED
    BY <2>1 DEF AttemptInv, HeadersRight, ResourcesRight, SearchRight, Loading, Decides
<1>3. CASE UNCHANGED Attempt!vars
  <2>1. UNCHANGED <<file, known, pc, imagebase_, platform_, resource_dir_, ResDirectory, level, i,
                    ResDirEntry, failed>>
    BY <1>3 DEF Attempt!vars, Attempt!pe, Attempt!locals
  <2>2. Type' = Type /\ Name' = Name /\ Language' = Language
    BY <2>1, WayStays
  <2>3. CASE pc = "idle"
    BY <2>1, <2>3, AttemptOver DEF AttemptInv, Decides
  <2>4. CASE pc # "idle"
    <3>1. HeadersRight'
      BY <2>1 DEF AttemptInv, HeadersRight, Recognised
    <3>2. Recognised' = Recognised /\ Searched' = Searched /\ Attempt!Wanted' = Attempt!Wanted
      BY <2>1, <2>2 DEF Recognised, Searched, Attempt!Wanted
    <3>3. SearchRight'
      BY <2>1, <2>2, <3>2 DEF AttemptInv, SearchRight
    <3>4. ResourcesRight'
      BY <2>1, <2>2, <3>2 DEF AttemptInv, ResourcesRight
    <3> QED
      BY <2>1, <2>4, <3>1, <3>3, <3>4 DEF AttemptInv, Decides
  <2> QED
    BY <2>3, <2>4
<1> QED
  BY <1>1, <1>2, <1>3

(* Every step of an attempt.                                                 *)
LEMMA AttemptStep ==
  ASSUME AttemptsAssumed, AttemptInv, [Attempt!Next]_Attempt!vars
  PROVE  AttemptInv' /\ Decides /\ Learns
<1>1. CASE Attempt!Remap \/ Attempt!Construct \/ UNCHANGED Attempt!vars
  BY <1>1, BetweenAttempts DEF Learns, Attempt!Probe!Next, Attempt!Probe!Remap
<1>2. CASE Attempt!NotFound
  BY <1>2, NotFoundStep DEF Learns
<1>3. ASSUME NEW ok \in BOOLEAN, Attempt!Step(ok)
      PROVE  AttemptInv' /\ Decides /\ Learns
  <2>1. CASE Attempt!ReadLanguage(ok) \/ Attempt!ReadDataEntry(ok) \/ Attempt!ReadVersion(ok)
    <3>1. file \in Files => [f \in Files |-> Attempt!Facts(f)][file] = Attempt!Facts(file)
      BY Zenon
    <3> QED
      BY <2>1, <3>1, VersionStep DEF Learns, Attempt!Probe!Next, Attempt!Probe!Learn, AttemptInv
  <2>2. CASE Attempt!OpenDirectory(ok)
    BY <2>2, OpenStep DEF Learns
  <2>3. CASE Attempt!SearchEntry(ok)
    BY <2>3, SearchStep DEF Learns
  <2>4. CASE \/ Attempt!ReadDosHeader(ok) \/ Attempt!ReadSignature(ok) \/ Attempt!ReadMachine(ok)
             \/ Attempt!ReadImportDirectory(ok) \/ Attempt!ReadResourceDirectory(ok)
    BY <2>4, HeadersStep DEF Learns
  <2> QED
    BY <1>3, <2>1, <2>2, <2>3, <2>4 DEF Attempt!Step
<1> QED
  BY <1>1, <1>2, <1>3 DEF Attempt!Next

(* An attempt to find out about the target, with the invariant that says     *)
(* where on the way to the version resource it is.                           *)
LEMMA AttemptSafe ==
  ASSUME AttemptsAssumed
  PROVE  Attempt!Spec => []AttemptInv /\ [][Decides /\ Learns]_Attempt!vars
<1>1. Attempt!Init => AttemptInv
  BY DEF Attempt!Init, AttemptInv, HeadersRight, ResourcesRight, SearchRight, Loading
<1>2. AttemptInv /\ [Attempt!Next]_Attempt!vars => AttemptInv' /\ Decides /\ Learns
  BY AttemptStep
<1> QED
  BY <1>1, <1>2, PTL DEF Attempt!Spec

(* CPEImage::LoadVersion never stops at a decoy and never misses the version: *)
(* an attempt no read of which failed leaves in targetinfo_ exactly what the *)
(* image has.                                                                *)
THEOREM AttemptsDecide ==
  ASSUME AttemptsAssumed
  PROVE  Attempt!Spec => Attempt!CleanAttemptDecides
<1>1. Decides => (pc # "idle" /\ pc' = "idle" /\ ~failed' => known' = Attempt!Facts(file))
  BY DEF Decides
<1> QED
  BY <1>1, AttemptSafe, PTL DEF Attempt!CleanAttemptDecides

(* InitializeTargetInfo assigns the members of targetinfo_ only when all of  *)
(* them are known, and what it assigns is true of the image mapped then.     *)
THEOREM AttemptsTellTheTruth ==
  ASSUME AttemptsAssumed
  PROVE  Attempt!Spec => Attempt!TellsTheTruth
<1>1. Attempt!Init => Attempt!Probe!Init
  BY DEF Attempt!Init, Attempt!Probe!Init
<1>2. Learns => [Attempt!Probe!Next]_<<file, known>>
  BY DEF Learns
<1>3. UNCHANGED Attempt!vars => UNCHANGED <<file, known>>
  BY DEF Attempt!vars
<1> QED
  BY <1>1, <1>2, <1>3, AttemptSafe, PTL DEF Attempt!Spec, Attempt!TellsTheTruth, Attempt!Probe!Spec

==============================================================================
