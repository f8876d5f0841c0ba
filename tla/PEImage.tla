------------------------------- MODULE PEImage -------------------------------
(***************************************************************************)
(* How Object::InitializeTargetInfo finds the bitness and the version of   *)
(* chrome_child: a CPEImage is constructed over the mapped image and reads *)
(* its headers, then LoadVersion descends through the resource directories *)
(* to the version resource.  One action per ReadMemory; any of them may    *)
(* fail.  The constructor of every Object makes another attempt until one  *)
(* has succeeded.                                                          *)
(***************************************************************************)
EXTENDS Naturals, SequencesExt

CONSTANTS
  Files,      \* the images; each has fields pe, machine and resources
  Nothing,    \* no image, no directory, nothing known
  Machines,   \* the values of FileHeader.Machine
  Machines64, \* AMD64 and IA64
  Supported   \* those and I386

ASSUME MachinesOK ==
  /\ Machines64 \subseteq Supported /\ Supported \subseteq Machines
  /\ Nothing \notin Files /\ \A f \in Files : f.machine \in Machines

(* A resource directory is [named, ids], two sequences of entries, the named *)
(* ones first in memory; an entry is [string, id, dir, to], where "to" is a  *)
(* directory if dir and data [size, magic, version] if not.                  *)
VS_FILE_INFO == 16
VS_VERSION_INFO == 1
SizeOfVersionInfo == 92

EntriesOf(d) == Range(d.named) \cup Range(d.ids)
IsDirectory(d) ==
  /\ d # Nothing /\ Nothing \notin EntriesOf(d)
  /\ d.named \in Seq(EntriesOf(d)) /\ d.ids \in Seq(EntriesOf(d))

ASSUME ResourcesOK ==
  \A f \in Files :
    /\ IsDirectory(f.resources)
    /\ \A type \in EntriesOf(f.resources) : type.dir =>
         /\ IsDirectory(type.to)
         /\ \A name \in EntriesOf(type.to) : name.dir => IsDirectory(name.to)

(* The bytes at the image base read as a resource directory: the DOS header, *)
(* whose e_ss, zero in an image, is where NumberOfIdEntries would be.        *)
DosHeader == [named |-> <<>>, ids |-> <<>>]

VARIABLES
  file,          \* the image mapped as chrome_child, or Nothing
  targetinfo_,   \* [is64bit_, version_] once known, Nothing before
  pc,            \* the read that comes next, or "idle"
  imagebase_, platform_, resource_dir_,  \* of the CPEImage under construction
  ResDirectory,  \* the directory read last
  level,         \* how many entries lead to it
  i,             \* the loop counter of the search in it
  ResDirEntry,   \* the entry read last
  failed         \* history: whether a read of this attempt failed

pe == <<imagebase_, platform_, resource_dir_>>
locals == <<ResDirectory, level, i, ResDirEntry>>
vars == <<file, targetinfo_, pc, pe, locals, failed>>

Init ==
  /\ file = Nothing /\ targetinfo_ = Nothing
  /\ pc = "idle" /\ failed = FALSE
  /\ imagebase_ = Nothing /\ platform_ \in Machines /\ resource_dir_ = Nothing
  /\ ResDirectory = DosHeader /\ level = 0 /\ i = 0 /\ ResDirEntry = Nothing

(* A new CPEImage: platform_(platform_) leaves platform_ with whatever was   *)
(* on the stack.  The locals of the two functions start afresh as well.      *)
Fresh ==
  /\ imagebase_' = Nothing /\ platform_' \in Machines /\ resource_dir_' = Nothing
  /\ ResDirectory' = DosHeader /\ level' = 0 /\ i' = 0 /\ ResDirEntry' = Nothing
  /\ failed' = FALSE

(* Images come and go between commands; the CPEImage is gone by then. *)
Remap ==
  /\ pc = "idle"
  /\ file' \in Files \cup {Nothing}
  /\ Fresh
  /\ UNCHANGED <<targetinfo_, pc>>

Construct ==
  /\ pc = "idle" /\ targetinfo_ = Nothing /\ file # Nothing
  /\ pc' = "dos" /\ Fresh
  /\ UNCHANGED <<file, targetinfo_>>

(* A read that fails, or reads what it should not, leaves the function. *)
Read(at, ok) == pc = at /\ failed' = (failed \/ ~ok) /\ UNCHANGED file

(* What follows Initialize, however it ended: IsInitialized() && LoadVersion(). *)
LoadVersionIf(initialized) ==
  IF initialized THEN pc' = "directory" /\ level' = 0
                 ELSE pc' = "idle" /\ UNCHANGED level

Is64bit == platform_ \in Machines64

ReadDosHeader(ok) ==
  /\ Read("dos", ok)
  /\ IF ok THEN pc' = "signature" /\ UNCHANGED level ELSE LoadVersionIf(imagebase_ # Nothing)
  /\ UNCHANGED <<targetinfo_, pe, ResDirectory, i, ResDirEntry>>

ReadSignature(ok) ==
  /\ Read("signature", ok)
  /\ IF ok /\ file.pe THEN pc' = "machine" /\ UNCHANGED level
                      ELSE LoadVersionIf(imagebase_ # Nothing)
  /\ UNCHANGED <<targetinfo_, pe, ResDirectory, i, ResDirEntry>>

(* imagebase_ and platform_ are set together, once the machine is known to   *)
(* be supported and before the data directories are read.                    *)
Accepted(ok) == ok /\ file.machine \in Supported

ReadMachine(ok) ==
  /\ Read("machine", ok)
  /\ imagebase_' = IF Accepted(ok) THEN file ELSE imagebase_
  /\ platform_' = IF Accepted(ok) THEN file.machine ELSE platform_
  /\ IF Accepted(ok) THEN pc' = "import" /\ UNCHANGED level
                     ELSE LoadVersionIf(imagebase_' # Nothing)
  /\ UNCHANGED <<targetinfo_, resource_dir_, ResDirectory, i, ResDirEntry>>

ReadImportDirectory(ok) ==
  /\ Read("import", ok)
  /\ IF ok THEN pc' = "resource" /\ UNCHANGED level ELSE LoadVersionIf(imagebase_ # Nothing)
  /\ UNCHANGED <<targetinfo_, pe, ResDirectory, i, ResDirEntry>>

ReadResourceDirectory(ok) ==
  /\ Read("resource", ok)
  /\ resource_dir_' = IF ok THEN file.resources ELSE resource_dir_
  /\ LoadVersionIf(imagebase_ # Nothing)
  /\ UNCHANGED <<targetinfo_, imagebase_, platform_, ResDirectory, i, ResDirEntry>>

(* An IMAGE_RESOURCE_DIRECTORY: the root, the one of VS_FILE_INFO, and the   *)
(* one of VS_VERSION_INFO, which must have an id entry.                      *)
OpenDirectory(ok) ==
  LET opened == IF level > 0 THEN ResDirEntry.to
                ELSE IF resource_dir_ = Nothing THEN DosHeader ELSE resource_dir_
  IN
  /\ Read("directory", ok)
  /\ ResDirectory' = IF ok THEN opened ELSE ResDirectory
  /\ i' = 0
  /\ pc' = IF ~ok \/ (level = 2 /\ Len(opened.ids) < 1) THEN "idle"
           ELSE IF level < 2 THEN "search" ELSE "language"
  /\ UNCHANGED <<targetinfo_, pe, level, ResDirEntry>>

SearchedEntry_FromFirst == (ResDirectory.named \o ResDirectory.ids)[i + 1]
(* ll has been moved past the named entries. *)
SearchedEntry == ResDirectory.ids[i + 1]
NextEntry_SameIndex == i
NextEntry == i + 1
Wanted == IF level = 0 THEN VS_FILE_INFO ELSE VS_VERSION_INFO

SearchEntry(ok) ==
  /\ i < Len(ResDirectory.ids) /\ Read("search", ok)
  /\ ResDirEntry' = IF ok THEN SearchedEntry ELSE ResDirEntry
  /\ LET found == ok /\ ~SearchedEntry.string /\ SearchedEntry.id = Wanted IN
     /\ i' = IF ok /\ ~found THEN NextEntry ELSE i
     /\ level' = IF found /\ SearchedEntry.dir THEN level + 1 ELSE level
     /\ pc' = IF ok /\ ~found THEN "search"
              ELSE IF found /\ SearchedEntry.dir THEN "directory" ELSE "idle"
  /\ UNCHANGED <<targetinfo_, pe, ResDirectory>>

NotFound ==
  /\ pc = "search" /\ i >= Len(ResDirectory.ids)
  /\ pc' = "idle"
  /\ UNCHANGED <<file, targetinfo_, pe, locals, failed>>

(* The first entry, named or not, whatever its language. *)
ReadLanguage(ok) ==
  LET first == (ResDirectory.named \o ResDirectory.ids)[1] IN
  /\ Read("language", ok)
  /\ ResDirEntry' = IF ok THEN first ELSE ResDirEntry
  /\ pc' = IF ok /\ ~first.dir THEN "data" ELSE "idle"
  /\ UNCHANGED <<targetinfo_, pe, ResDirectory, level, i>>

ReadDataEntry(ok) ==
  /\ Read("data", ok)
  /\ pc' = IF ok /\ ResDirEntry.to.size >= SizeOfVersionInfo THEN "version" ELSE "idle"
  /\ UNCHANGED <<targetinfo_, pe, locals>>

Learned_Unsigned(ok) == ok
Learned(ok) == ok /\ ResDirEntry.to.magic

(* The members of targetinfo_ are assigned once LoadVersion has succeeded, *)
(* engine_, which ends the attempts, last.                                 *)
ReadVersion(ok) ==
  /\ Read("version", ok)
  /\ targetinfo_' = IF Learned(ok)
                    THEN [is64bit_ |-> Is64bit, version_ |-> ResDirEntry.to.version]
                    ELSE targetinfo_
  /\ pc' = "idle"
  /\ UNCHANGED <<pe, locals>>

Step(ok) ==
  \/ ReadDosHeader(ok) \/ ReadSignature(ok) \/ ReadMachine(ok)
  \/ ReadImportDirectory(ok) \/ ReadResourceDirectory(ok)
  \/ OpenDirectory(ok) \/ SearchEntry(ok) \/ ReadLanguage(ok)
  \/ ReadDataEntry(ok) \/ ReadVersion(ok)

Next == Remap \/ Construct \/ NotFound \/ \E ok \in BOOLEAN : Step(ok)

(* A command that has begun an attempt runs on.  Fairness is stated of the   *)
(* reads that succeed: a search must come to its end without being rescued   *)
(* by a read that fails.                                                     *)
Spec == Init /\ [][Next]_vars /\ WF_vars(NotFound \/ Step(TRUE))

------------------------------------------------------------------------------
(* Properties. *)

(* What an image's version resource says, without reading it step by step. *)
EntryOf(d, id) == LET at == SelectInSeq(d.ids, LAMBDA e : ~e.string /\ e.id = id)
                  IN  IF at = 0 THEN Nothing ELSE d.ids[at]
Below(e) == e # Nothing /\ e.dir

Facts(f) ==
  LET type == EntryOf(f.resources, VS_FILE_INFO)
      name == EntryOf(type.to, VS_VERSION_INFO)
      lang == Head(name.to.named \o name.to.ids)
  IN IF /\ f.pe /\ f.machine \in Supported
        /\ Below(type) /\ Below(name) /\ Len(name.to.ids) > 0
        /\ ~lang.dir /\ lang.to.size >= SizeOfVersionInfo /\ lang.to.magic
     THEN [is64bit_ |-> f.machine \in Machines64, version_ |-> lang.to.version]
     ELSE Nothing

(* An attempt no read of which failed finds out exactly what the image has;  *)
(* LoadVersion never stops at a decoy and never misses the version.          *)
CleanAttemptDecides ==
  [][pc # "idle" /\ pc' = "idle" /\ ~failed' => targetinfo_' = Facts(file)]_vars

Probe == INSTANCE VersionProbe WITH
  FactsOf <- [f \in Files |-> Facts(f)], mapped <- file, known <- targetinfo_

(* However many reads fail, in an Initialize that is only half done or in    *)
(* LoadVersion, targetinfo_ is all unknown or all true of the image that was *)
(* mapped when it became known.                                              *)
TellsTheTruth == Probe!Spec

(* Every attempt ends, found or not: no directory is searched twice. *)
AttemptEnds == (pc # "idle") ~> (pc = "idle")

==============================================================================
