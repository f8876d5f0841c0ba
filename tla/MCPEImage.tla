------------------------------ MODULE MCPEImage ------------------------------
(***************************************************************************)
(* Images of each machine, with a version resource and with each thing     *)
(* that can be wrong about one.                                            *)
(***************************************************************************)
EXTENDS PEImage

MCMachines64 == {"AMD64", "IA64"}
MCSupported == MCMachines64 \cup {"I386"}
MCMachines == MCSupported \cup {"ARM64"}

Data(size, magic, version) == [size |-> size, magic |-> magic, version |-> version]
Entry(id, dir, to) == [string |-> FALSE, id |-> id, dir |-> dir, to |-> to]
Named(dir, to) == [string |-> TRUE, id |-> VS_FILE_INFO, dir |-> dir, to |-> to]
Dir(named, ids) == [named |-> named, ids |-> ids]

Icon == Entry(3, TRUE, Dir(<<>>, <<>>))
Languages(ids) == Dir(<<>>, <<Icon>> \o <<Entry(VS_VERSION_INFO, TRUE, Dir(<<>>, ids))>>)
Leaf(size, magic, version) == Entry(1033, FALSE, Data(size, magic, version))
Resources(ids) == Dir(<<>>, <<Icon, Entry(VS_FILE_INFO, TRUE, Languages(ids))>>)
Good == Resources(<<Leaf(SizeOfVersionInfo, TRUE, 61), Leaf(SizeOfVersionInfo, TRUE, 65)>>)

File(machine, resources) == [pe |-> TRUE, machine |-> machine, resources |-> resources]
MCFiles ==
  {File(m, Good) : m \in MCMachines}
  \cup {[pe |-> FALSE, machine |-> "AMD64", resources |-> Good]}
  \cup {File("AMD64", r) : r \in {
     Dir(<<>>, <<Icon>>),
     Dir(<<Named(TRUE, Dir(<<>>, <<>>))>>, Good.ids),
     Dir(<<>>, <<Leaf(92, TRUE, 65)>> \o <<Entry(VS_FILE_INFO, FALSE, Data(92, TRUE, 65))>>),
     Dir(<<>>, <<Entry(VS_FILE_INFO, TRUE, Dir(<<>>, <<Entry(VS_VERSION_INFO, FALSE, Data(92, TRUE, 65))>>))>>),
     Resources(<<>>),
     Resources(<<Icon>>),
     Resources(<<Leaf(SizeOfVersionInfo - 1, TRUE, 65)>>),
     Resources(<<Leaf(SizeOfVersionInfo, FALSE, 65)>>)}}

==============================================================================
