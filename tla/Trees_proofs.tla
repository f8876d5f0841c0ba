---------------------------- MODULE Trees_proofs ----------------------------
(***************************************************************************)
(* What !dom and !lay print, for any heap and any cells that cannot be     *)
(* read: first of the walk of TreeDump over links of any shape, then over  *)
(* what is left of a tree, then of each command.                           *)
(***************************************************************************)
EXTENDS Dom, Chains_proofs

(* What Layout has besides the walk. *)
CONSTANTS Container, Leaf, Foreign, NoName, Garbage, LayoutHeaps, LayoutUnreadables
VARIABLES layout_heap, layout_unreadable, garbage

Lay == INSTANCE Layout WITH Heaps <- LayoutHeaps, Unreadables <- LayoutUnreadables,
  heap <- layout_heap, unreadable <- layout_unreadable

(* The cursor and the frames of the walk are addresses, a frame is pending   *)
(* exactly while it dumps, and nothing is printed while it climbs. *)
THEOREM WalkTypes == WalkSpec => []WalkTypeOK
<1>1. LinksOK /\ StartWalk => WalkTypeOK
  BY DEF StartWalk, WalkTypeOK
<1>2. WalkTypeOK /\ [Walk]_walk => WalkTypeOK'
  <2> SUFFICES ASSUME WalkTypeOK, [Walk]_walk PROVE WalkTypeOK'
    OBVIOUS
  <2> DEFINE Lines == [addr : Addresses, depth : Nat, label : {links.label[n] : n \in Addresses}]
  <2>1. LinksOK' /\ Lines' = Lines /\ links' = links
    BY DEF walk, Walk, Climb, DumpRoot, DumpChild, Return, WalkTypeOK, LinksOK
  <2>2. ASSUME NEW n \in Addresses, NEW d \in Nat PROVE Line(n, d) \in Lines
    BY DEF Line
  <2>9. out \in Seq(Lines)
    BY DEF WalkTypeOK
  <2> HIDE DEF Lines
  <2>3. CASE Climb
    BY <2>1, <2>3 DEF Climb, WalkTypeOK, LinksOK, Lines
  <2>4. CASE DumpRoot
    <3>1. out' \in Seq(Lines) /\ out' # <<>>
      <4>1. Line(node, 0) \in Lines
        BY <2>2 DEF WalkTypeOK
      <4>2. QED
        BY <4>1, <2>4 DEF DumpRoot
    <3>2. QED
      BY <3>1, <2>1, <2>4 DEF DumpRoot, RootFrames, WalkTypeOK, LinksOK, Lines
  <2>5. CASE DumpChild
    <3>1. Head(pending) \in Addresses /\ Len(pending) \in Nat
      BY <2>5 DEF DumpChild, WalkTypeOK
    <3>2. out' \in Seq(Lines) /\ out' # <<>>
      <4>1. Line(Head(pending), Len(pending)) \in Lines
        BY <3>1, <2>2
      <4>2. QED
        BY <4>1, <2>9, <2>5 DEF DumpChild
    <3>3. pending' \in Seq(Addresses) /\ pending' # <<>>
      BY <3>1, <2>5 DEF DumpChild, AfterChild, WalkTypeOK, LinksOK
    <3>4. QED
      BY <3>2, <3>3, <2>1, <2>5 DEF DumpChild, WalkTypeOK, Lines
  <2>6. CASE Return
    BY <2>1, <2>6 DEF Return, WalkTypeOK
  <2>7. CASE UNCHANGED walk
    BY <2>1, <2>7 DEF walk, WalkTypeOK
  <2>8. QED
    BY <2>3, <2>4, <2>5, <2>6, <2>7 DEF Walk
<1>3. QED
  BY <1>1, <1>2, PTL DEF WalkSpec

(* The lines below the root grow by the child that is dumped. *)
LEMMA BelowGrows ==
  ASSUME WalkTypeOK, DumpChild
  PROVE  /\ Below' = Below \cup {Head(pending)}
         /\ out'[1] = out[1]
<1>1. out # <<>> /\ out' = Append(out, Line(Head(pending), Len(pending)))
  BY DEF WalkTypeOK, DumpChild
<1>2. Line(Head(pending), Len(pending)).addr = Head(pending)
  BY DEF Line
<1>3. out \in Seq([addr : Addresses, depth : Nat, label : {links.label[n] : n \in Addresses}])
  BY DEF WalkTypeOK
<1> DEFINE last == Line(Head(pending), Len(pending))
           all == [addr : Addresses, depth : Nat, label : {links.label[n] : n \in Addresses}]
<1> HIDE DEF last, all
<1>4. /\ Len(out) \in Nat /\ Len(out) > 0 /\ Len(out') = Len(out) + 1
      /\ \A k \in 1..Len(out) : out'[k] = out[k]
      /\ out'[Len(out) + 1] = last
  <2>1. out \in Seq(all) /\ out' = Append(out, last) /\ out # <<>>
    BY <1>1, <1>3 DEF last, all
  <2>2. QED
    BY <2>1
<1>5. 2..Len(out') = 2..Len(out) \cup {Len(out) + 1}
  BY <1>4
<1>6. QED
  BY <1>2, <1>4, <1>5 DEF Below, last

------------------------------------------------------------------------------
(* Nothing is invented: neither are the pending children.                    *)

Pending == {pending[k] : k \in DOMAIN pending}

Closed(S) == /\ links.first[node] \in S
             /\ \A n \in S : links.first[n] \in S /\ links.next[n] \in S

WithinClosed ==
  pc # "climb" => \A S \in SUBSET Addresses : Closed(S) => Below \cup Pending \subseteq S

(* All lines but the first come from below the root, whatever the links. *)
THEOREM NothingIsInvented == WalkSpec => []NothingInvented
<1>1. LinksOK /\ StartWalk => WithinClosed
  BY DEF StartWalk, WithinClosed
<1>2. WithinClosed /\ WalkTypeOK /\ [Walk]_walk => WithinClosed'
  <2> SUFFICES ASSUME WithinClosed, WalkTypeOK, [Walk]_walk,
                      pc' # "climb", NEW S \in SUBSET Addresses, Closed(S)'
               PROVE  (Below \cup Pending)' \subseteq S
    BY DEF WithinClosed, Addresses
  <2>1. CASE DumpRoot
    <3>1. Below' = {} /\ Pending' = {links.first[node]}
      BY <2>1 DEF DumpRoot, RootFrames, Below, Pending
    <3>2. QED
      BY <3>1, <2>1 DEF DumpRoot, Closed
  <2>2. CASE DumpChild
    <3>1. Closed(S) /\ pc # "climb"
      BY <2>2 DEF DumpChild, Closed
    <3>2. Head(pending) \in S /\ \A k \in DOMAIN Tail(pending) : Tail(pending)[k] \in S
      <4>1. \A k \in DOMAIN pending : pending[k] \in S
        BY <3>1 DEF WithinClosed, Pending
      <4>2. pending \in Seq(Addresses) /\ pending # <<>>
        BY <2>2 DEF DumpChild, WalkTypeOK
      <4> QED
        BY <4>1, <4>2
    <3>3. pending' = <<links.first[Head(pending)], links.next[Head(pending)]>> \o Tail(pending)
      BY <2>2 DEF DumpChild, AfterChild
    <3>4. \A k \in DOMAIN pending' : pending'[k] \in S
      <4>1. links.first[Head(pending)] \in S /\ links.next[Head(pending)] \in S
        BY <3>1, <3>2, <2>2 DEF Closed, DumpChild
      <4>2. Tail(pending) \in Seq(Addresses)
        BY <2>2 DEF WalkTypeOK, DumpChild
      <4> QED
        BY <3>2, <3>3, <4>1, <4>2
    <3>5. Below' \subseteq S
      BY <3>1, <3>2, <2>2, BelowGrows DEF WithinClosed
    <3>6. QED
      BY <3>4, <3>5 DEF Pending
  <2>3. CASE Return
    <3>1. Closed(S) /\ pc # "climb"
      BY <2>3 DEF Return, Closed
    <3>2. Pending' \subseteq Pending
      BY <2>3 DEF Return, Pending, WalkTypeOK
    <3>3. QED
      BY <3>1, <3>2, <2>3 DEF WithinClosed, Return, Below
  <2>4. CASE Climb
    BY <2>4 DEF Climb
  <2>5. CASE UNCHANGED walk
    BY <2>5 DEF walk, WithinClosed, Closed, Below, Pending
  <2>6. QED
    BY <2>1, <2>2, <2>3, <2>4, <2>5 DEF Walk
<1>3. WithinClosed => NothingInvented
  BY DEF WithinClosed, NothingInvented, Closed
<1>4. QED
  BY <1>1, <1>2, <1>3, WalkTypes, PTL DEF WalkSpec

------------------------------------------------------------------------------
(* Nothing is forgotten: what has not been printed yet is pending.           *)

Accounted == Below \cup Pending \cup {Null}

NoneForgotten ==
  pc # "climb" =>
    /\ out[1].addr = node /\ links.parent[node] = Null
    /\ links.first[node] \in Accounted
    /\ \A n \in Below : {links.first[n], links.next[n]} \subseteq Accounted

(* When the walk ends, all there is below the root has been printed. *)
THEOREM NothingIsForgotten == WalkSpec => []NothingForgotten
<1>1. LinksOK /\ StartWalk => NoneForgotten
  BY DEF StartWalk, NoneForgotten
<1>2. NoneForgotten /\ WalkTypeOK /\ [Walk]_walk => NoneForgotten'
  <2> SUFFICES ASSUME NoneForgotten, WalkTypeOK, [Walk]_walk, pc' # "climb"
               PROVE  NoneForgotten'
    BY DEF NoneForgotten
  <2>1. CASE DumpRoot
    BY <2>1 DEF DumpRoot, RootFrames, NoneForgotten, Accounted, Below, Pending, Line
  <2>2. CASE DumpChild
    <3> DEFINE child == Head(pending)
    <3>1. pending = <<child>> \o Tail(pending) /\ Tail(pending) \in Seq(Addresses)
      BY <2>2 DEF DumpChild, WalkTypeOK
    <3>2. pending' = <<links.first[child], links.next[child]>> \o Tail(pending)
      BY <2>2 DEF DumpChild, AfterChild
    <3>3. Pending \subseteq Pending' \cup {child}
      <4>1. ASSUME NEW k \in DOMAIN pending PROVE pending[k] \in Pending' \cup {child}
        <5>1. CASE k = 1
          BY <5>1
        <5>2. CASE k # 1
          <6>1. pending[k] = pending'[k + 1] /\ k + 1 \in DOMAIN pending'
            BY <5>2, <3>1, <3>2
          <6>2. QED
            BY <6>1 DEF Pending
        <5>3. QED
          BY <5>1, <5>2
      <4>2. QED
        BY <4>1 DEF Pending
    <3>4. {links.first[child], links.next[child]} \subseteq Pending'
      <4>1. /\ 1 \in DOMAIN pending' /\ 2 \in DOMAIN pending'
            /\ pending'[1] = links.first[child] /\ pending'[2] = links.next[child]
        BY <3>1, <3>2
      <4>2. QED
        BY <4>1 DEF Pending
    <3>5. Below' = Below \cup {child} /\ out'[1] = out[1]
      BY <2>2, BelowGrows
    <3>6. Accounted \subseteq Accounted'
      BY <3>3, <3>5 DEF Accounted
    <3>7. pc # "climb" /\ UNCHANGED <<links, node>>
      BY <2>2 DEF DumpChild
    <3>8. QED
      BY <3>4, <3>5, <3>6, <3>7 DEF NoneForgotten, Accounted
  <2>3. CASE Return
    <3>1. Pending \subseteq Pending' \cup {Null}
      <4>1. ASSUME NEW k \in DOMAIN pending PROVE pending[k] \in Pending' \cup {Null}
        <5>1. CASE k = 1
          BY <5>1, <2>3 DEF Return, WalkTypeOK
        <5>2. CASE k # 1
          <6>1. pending[k] = pending'[k - 1] /\ k - 1 \in DOMAIN pending'
            <7>1. pending \in Seq(Addresses) /\ pending # <<>> /\ pending' = Tail(pending)
              BY <2>3 DEF Return, WalkTypeOK
            <7>2. QED
              BY <5>2, <7>1
          <6>2. QED
            BY <6>1 DEF Pending
        <5>3. QED
          BY <5>1, <5>2
      <4>2. QED
        BY <4>1 DEF Pending
    <3>2. Below' = Below /\ out' = out /\ pc # "climb" /\ UNCHANGED <<links, node>>
      BY <2>3 DEF Return, Below
    <3>3. QED
      BY <3>1, <3>2 DEF NoneForgotten, Accounted
  <2>4. CASE Climb
    BY <2>4 DEF Climb
  <2>5. CASE UNCHANGED walk
    BY <2>5 DEF walk, NoneForgotten, Accounted, Below, Pending
  <2>6. QED
    BY <2>1, <2>2, <2>3, <2>4, <2>5 DEF Walk
<1>3. NoneForgotten /\ WalkTypeOK => NothingForgotten
  <2> SUFFICES ASSUME NoneForgotten, WalkTypeOK, pc = "done" PROVE NothingForgotten
    BY DEF NothingForgotten
  <2>1. Pending = {}
    BY DEF WalkTypeOK, Pending
  <2>2. QED
    BY <2>1 DEF NoneForgotten, NothingForgotten, Accounted
<1>4. QED
  BY <1>1, <1>2, <1>3, WalkTypes, PTL DEF WalkSpec

------------------------------------------------------------------------------
(* Labels. *)

(* A line has the label its address reads as. *)
LabelsLoaded == \A k \in DOMAIN out : out[k].addr \in Addresses /\ out[k].label = links.label[out[k].addr]

(* Every line is printed with what was read of its own address. *)
THEOREM LabelsAreLoaded == WalkSpec => []LabelsLoaded
<1>1. LinksOK /\ StartWalk => LabelsLoaded
  BY DEF StartWalk, LabelsLoaded
<1>2. LabelsLoaded /\ WalkTypeOK /\ [Walk]_walk => LabelsLoaded'
  <2> SUFFICES ASSUME LabelsLoaded, WalkTypeOK, [Walk]_walk PROVE LabelsLoaded'
    OBVIOUS
  <2>1. CASE DumpRoot
    <3>1. out' = <<Line(node, 0)>> /\ links' = links /\ node \in Addresses
      BY <2>1 DEF DumpRoot, WalkTypeOK
    <3>. QED
      BY <3>1 DEF LabelsLoaded, Line
  <2>2. CASE DumpChild
    <3>1. out' = Append(out, Line(Head(pending), Len(pending))) /\ links' = links /\ Head(pending) \in Addresses
      BY <2>2 DEF DumpChild, WalkTypeOK
    <3>2. Line(Head(pending), Len(pending)).addr = Head(pending)
          /\ Line(Head(pending), Len(pending)).label = links.label[Head(pending)]
      BY DEF Line
    <3>3. \A k \in DOMAIN out' : out'[k] = Line(Head(pending), Len(pending)) \/ (k \in DOMAIN out /\ out'[k] = out[k])
      BY <3>1 DEF WalkTypeOK
    <3>. QED
      BY <3>1, <3>2, <3>3 DEF LabelsLoaded
  <2>3. CASE Climb \/ Return \/ UNCHANGED walk
    BY <2>3 DEF Climb, Return, walk, LabelsLoaded
  <2>. QED
    BY <2>1, <2>2, <2>3 DEF Walk
<1>. QED
  BY <1>1, <1>2, WalkTypes, PTL DEF WalkSpec
------------------------------------------------------------------------------
(* What can be read of a tree: each link as it is, or null.                  *)

Remains(t) ==
  /\ IsTree(t)
  /\ \A n \in Addresses :
       /\ links.parent[n] # Null => n # Null /\ links.parent[n] = t.parent[n]
       /\ links.first[n] # Null => n # Null /\ links.first[n] = t.first[n]
       /\ links.next[n] # Null => n # Null /\ links.next[n] = t.next[n]

(* A node hangs on the lines printed so far if its parent is one of them, at *)
(* the depth above it, and a line leads to it.                               *)
LedTo(t, n) == \E m \in Listed \ {Null} : t.first[m] = n \/ t.next[m] = n

Hangs(t, n, depth) ==
  /\ n # Null /\ t.parent[n] # Null /\ LedTo(t, n)
  /\ \E j \in DOMAIN out : out[j].addr = t.parent[n] /\ out[j].depth + 1 = depth

PrintedOnce(t) == \A j, k \in DOMAIN out : out[j].addr = out[k].addr => j = k

PrintedHang(t) ==
  \A k \in 2..Len(out) :
    /\ out[k].addr # Null /\ t.parent[out[k].addr] # Null /\ LedTo(t, out[k].addr)
    /\ \E j \in 1..k-1 : out[j].addr = t.parent[out[k].addr] /\ out[j].depth + 1 = out[k].depth

PendingHang(t) ==
  \A i \in DOMAIN pending : pending[i] # Null =>
    /\ pending[i] \notin Listed
    /\ \A j \in DOMAIN pending : pending[j] = pending[i] => j = i
    /\ Hangs(t, pending[i], Len(pending) - i + 1)

InPlace(t) == PrintedOnce(t) /\ PrintedHang(t) /\ PendingHang(t)

(* Lines are for addresses.                                                  *)
LEMMA LinesOK ==
  ASSUME WalkTypeOK
  PROVE  /\ Listed \subseteq Addresses /\ Len(out) \in Nat /\ DOMAIN out = 1..Len(out)
         /\ \A k \in DOMAIN out : out[k].addr \in Addresses /\ out[k].addr \in Listed /\ out[k].depth \in Nat
<1> DEFINE Lines == [addr : Addresses, depth : Nat, label : {links.label[n] : n \in Addresses}]
<1>1. out \in Seq(Lines)
  BY DEF WalkTypeOK
<1>2. \A line \in Lines : line.addr \in Addresses /\ line.depth \in Nat
  OBVIOUS
<1>. HIDE DEF Lines
<1>3. \A k \in DOMAIN out : out[k] \in Lines
  BY <1>1
<1>. QED BY <1>1, <1>2, <1>3 DEF Listed

(* What leads to a node of a tree is its parent or one node of its parent's. *)
LEMMA LedByOne ==
  ASSUME NEW t, IsTree(t), NEW a \in Nodes, NEW b \in Nodes
  PROVE  /\ t.first[a] = t.first[b] /\ t.first[a] # Null => a = b
         /\ t.next[a] = t.next[b] /\ t.next[a] # Null => a = b
         /\ t.first[a] # Null => t.first[a] # t.next[b]
         /\ t.first[a] # a /\ t.next[a] # a /\ t.parent[a] # a
<1>1. /\ t.first[a] \in Addresses /\ t.next[a] \in Addresses
      /\ t.first[b] \in Addresses /\ t.next[b] \in Addresses
  BY DEF IsTree
<1>2. t.parent[a] # a /\ t.next[a] # a
  <2>1. {a} \in (SUBSET Nodes) \ {{}}
    OBVIOUS
  <2>2. \A S \in (SUBSET Nodes) \ {{}} :
          (\E n \in S : t.parent[n] \notin S) /\ \E n \in S : \A m \in S : t.next[m] # n
    BY DEF IsTree
  <2>3. (\E n \in {a} : t.parent[n] \notin {a}) /\ \E n \in {a} : \A m \in {a} : t.next[m] # n
    BY <2>1, <2>2, Zenon
  <2>. QED BY <2>3
<1>3. t.first[a] # a
  BY <1>2, NullOK DEF IsTree, Addresses
<1>4. /\ t.first[a] = t.first[b] /\ t.first[a] # Null => a = b
      /\ t.next[a] = t.next[b] /\ t.next[a] # Null => a = b
      /\ t.first[a] # Null => t.first[a] # t.next[b]
  BY DEF IsTree
<1>. QED BY <1>2, <1>3, <1>4

(* A child that is dumped leads to nodes no line or pending frame is for.    *)
LEMMA ChildIsNew ==
  ASSUME NEW t, Remains(t), WalkTypeOK, InPlace(t), DumpChild, NEW c, c = Head(pending),
         NEW n \in {links.first[c], links.next[c]}, n # Null
  PROVE  /\ n \in Nodes /\ n \notin Listed /\ n # c /\ t.parent[n] # Null
         /\ \A i \in DOMAIN pending : pending[i] # n
         /\ n = t.first[c] \/ n = t.next[c]
<1>1. c \in Nodes /\ 1 \in DOMAIN pending /\ pending[1] = c /\ c \notin Listed
  BY DEF WalkTypeOK, DumpChild, InPlace, PendingHang, Addresses
<1>2. n \in Nodes /\ (n = t.first[c] \/ n = t.next[c])
  BY <1>1 DEF Remains, WalkTypeOK, LinksOK, Addresses
<1>3. /\ t.parent[c] # Null
      /\ \E j \in DOMAIN out : out[j].addr = t.parent[c]
  BY <1>1, NullOK DEF InPlace, PendingHang, Hangs
<1>4. n # c
  BY <1>1, <1>2, LedByOne DEF Remains
<1>5. t.parent[n] # Null /\ (t.parent[n] = c \/ t.parent[n] = t.parent[c])
  BY <1>1, <1>2, NullOK DEF Remains, IsTree
<1>6. ASSUME NEW m \in Nodes, t.first[m] = n \/ t.next[m] = n PROVE m = c
  BY <1>1, <1>2, <1>6, NullOK, LedByOne DEF Remains
<1>7. ~LedTo(t, n)
  BY <1>1, <1>6, LinesOK DEF LedTo, Addresses
<1>8. \A i \in DOMAIN pending : pending[i] # n
  BY <1>2, <1>7, NullOK DEF InPlace, PendingHang, Hangs
<1>9. n \notin Listed
  <2>. SUFFICES ASSUME NEW k \in DOMAIN out, out[k].addr = n PROVE FALSE
    BY DEF Listed
  <2>1. CASE k # 1
    <3>1. k \in 2..Len(out)
      BY <2>1 DEF WalkTypeOK
    <3>. QED BY <3>1, <1>7 DEF InPlace, PrintedHang
  <2>2. CASE k = 1
    <3> DEFINE S == (Listed \ {Null}) \cup {c}
    <3>1. S \in (SUBSET Nodes) \ {{}}
      BY <1>1, LinesOK DEF Addresses
    <3>2. t.parent[c] \in S /\ t.parent[n] \in S
      BY <1>3, <1>5 DEF Listed
    <3>3. \A m \in S : t.parent[m] \in S
      <4>. SUFFICES ASSUME NEW i \in DOMAIN out, out[i].addr # Null PROVE t.parent[out[i].addr] \in S
        BY <3>2 DEF Listed
      <4>1. CASE i = 1
        BY <4>1, <2>2, <3>2
      <4>2. CASE i # 1
        <5>1. i \in 2..Len(out)
          BY <4>2 DEF WalkTypeOK
        <5>2. PICK j \in 1..i-1 : out[j].addr = t.parent[out[i].addr] /\ t.parent[out[i].addr] # Null
          BY <5>1 DEF InPlace, PrintedHang
        <5>3. out[j].addr \in Listed
          BY <5>1, <5>2, LinesOK
        <5>. QED BY <5>2, <5>3
      <4>. QED BY <4>1, <4>2
    <3>. HIDE DEF S
    <3>. QED BY <3>1, <3>3, Zenon DEF Remains, IsTree
  <2>. QED BY <2>1, <2>2
<1>. QED BY <1>2, <1>4, <1>5, <1>8, <1>9

(* A child's line is put where it belongs, and so will its own children be.  *)
LEMMA ChildInPlace ==
  ASSUME NEW t, Remains(t), WalkTypeOK, InPlace(t), DumpChild
  PROVE  InPlace(t)'
<1>0. SUFFICES ASSUME NEW c, c = Head(pending) PROVE InPlace(t)'
  OBVIOUS
<1> DEFINE last == Len(out) + 1
<1>1. /\ c \in Nodes /\ c # Null /\ c \notin Listed /\ Hangs(t, c, Len(pending))
      /\ pending \in Seq(Addresses) /\ Len(pending) \in Nat \ {0}
      /\ \A i \in DOMAIN pending : i # 1 => pending[i] # c
  <2>1. /\ pending \in Seq(Addresses) /\ Len(pending) \in Nat \ {0} /\ c = pending[1] /\ 1 \in DOMAIN pending
        /\ c \in Addresses /\ c # Null /\ Len(pending) - 1 + 1 = Len(pending)
    BY <1>0 DEF WalkTypeOK, DumpChild
  <2>2. /\ c \notin Listed /\ Hangs(t, c, Len(pending))
        /\ \A i \in DOMAIN pending : pending[i] = c => i = 1
    BY <2>1 DEF InPlace, PendingHang
  <2>. QED BY <2>1, <2>2 DEF Addresses
<1>2. /\ Len(out') = last /\ DOMAIN out' = 1..last /\ last \in Nat
      /\ \A k \in DOMAIN out : out'[k] = out[k]
      /\ out'[last].addr = c /\ out'[last].depth = Len(pending)
      /\ last \notin DOMAIN out
  <2>1. out' = Append(out, Line(c, Len(pending)))
    BY <1>0 DEF DumpChild
  <2>2. Line(c, Len(pending)).addr = c /\ Line(c, Len(pending)).depth = Len(pending)
    BY DEF Line
  <2>. QED BY <2>1, <2>2 DEF WalkTypeOK
<1>3. Listed' = Listed \cup {c}
  BY <1>2, LinesOK DEF Listed
<1>. HIDE DEF last
<1>4. PrintedOnce(t)'
  <2>1. \A k \in DOMAIN out : out[k].addr # c
    BY <1>1 DEF Listed
  <2>2. \A k \in DOMAIN out' : k \in DOMAIN out \/ k = last
    BY <1>2, LinesOK DEF last
  <2>. QED BY <1>2, <2>1, <2>2 DEF InPlace, PrintedOnce
<1>5. ASSUME NEW n, LedTo(t, n) PROVE LedTo(t, n)'
  BY <1>3, <1>5 DEF LedTo
<1>6. PrintedHang(t)'
  <2>. SUFFICES ASSUME NEW k \in 2..last, NEW n, n = out'[k].addr
       PROVE  /\ n # Null /\ t.parent[n] # Null /\ LedTo(t, n)'
              /\ \E j \in 1..k-1 : out'[j].addr = t.parent[n] /\ out'[j].depth + 1 = out'[k].depth
    BY <1>2 DEF PrintedHang, LedTo
  <2>1. CASE k = last
    <3>1. PICK j \in DOMAIN out : out[j].addr = t.parent[c] /\ out[j].depth + 1 = Len(pending)
      BY <1>1 DEF Hangs
    <3>2. out'[j] = out[j] /\ j \in 1..k-1 /\ n = c
      BY <1>2, <2>1, <3>1, LinesOK DEF last
    <3>3. t.parent[c] # Null /\ LedTo(t, c)'
      BY <1>1, <1>5 DEF Hangs
    <3>. QED BY <1>1, <1>2, <2>1, <3>1, <3>2, <3>3
  <2>2. CASE k # last
    <3>1. k \in 2..Len(out) /\ k \in DOMAIN out /\ out'[k] = out[k]
      BY <1>2, <2>2, LinesOK DEF last
    <3>2. PICK j \in 1..k-1 : out[j].addr = t.parent[n] /\ out[j].depth + 1 = out[k].depth
      BY <3>1 DEF InPlace, PrintedHang
    <3>3. j \in DOMAIN out /\ out'[j] = out[j]
      BY <1>2, <3>1, LinesOK
    <3>4. n # Null /\ t.parent[n] # Null /\ LedTo(t, n)'
      BY <1>5, <3>1 DEF InPlace, PrintedHang
    <3>. QED BY <3>1, <3>2, <3>3, <3>4
  <2>. QED BY <2>1, <2>2
<1>7. PendingHang(t)'
  <2>1. /\ pending' = <<links.first[c], links.next[c]>> \o Tail(pending)
        /\ Len(pending') = Len(pending) + 1 /\ DOMAIN pending' = 1..(Len(pending) + 1)
        /\ pending'[1] = links.first[c] /\ pending'[2] = links.next[c]
        /\ \A i \in 3..(Len(pending) + 1) : pending'[i] = pending[i - 1]
    <3>1. pending' = <<links.first[c], links.next[c]>> \o Tail(pending)
      BY <1>0 DEF DumpChild, AfterChild
    <3>. QED BY <1>1, <3>1
  <2>2. ASSUME NEW n \in {links.first[c], links.next[c]}, n # Null
        PROVE  /\ n \in Nodes /\ n \notin Listed' /\ t.parent[n] # Null /\ LedTo(t, n)'
               /\ \A i \in DOMAIN pending : pending[i] # n
               /\ n = t.first[c] \/ n = t.next[c]
    <3>1. /\ n \in Nodes /\ n \notin Listed /\ n # c /\ t.parent[n] # Null
          /\ \A i \in DOMAIN pending : pending[i] # n
          /\ n = t.first[c] \/ n = t.next[c]
      BY <1>0, <2>2, ChildIsNew
    <3>2. LedTo(t, n)'
      BY <1>1, <1>3, <3>1 DEF LedTo
    <3>. QED BY <1>3, <3>1, <3>2
  <2>3. links.first[c] # Null => links.first[c] # links.next[c]
    BY <1>1, LedByOne DEF Remains, Addresses
  <2>4. ASSUME NEW n, n = links.first[c], n # Null, NEW d, d = Len(pending) + 1
        PROVE  Hangs(t, n, d)'
    <3>1. t.parent[n] = c
      BY <1>1, <2>4 DEF Remains, IsTree, Addresses
    <3>2. last \in DOMAIN out'
      BY <1>2, LinesOK DEF last
    <3>. QED BY <1>1, <1>2, <2>2, <2>4, <3>1, <3>2 DEF Hangs
  <2>5. ASSUME NEW n, n = links.next[c], n # Null, NEW d, d = Len(pending)
        PROVE  Hangs(t, n, d)'
    <3>1. t.parent[n] = t.parent[c]
      BY <1>1, <2>5 DEF Remains, IsTree, Addresses
    <3>2. PICK j \in DOMAIN out : out[j].addr = t.parent[c] /\ out[j].depth + 1 = Len(pending)
      BY <1>1 DEF Hangs
    <3>3. j \in DOMAIN out' /\ out'[j] = out[j]
      BY <1>2, <3>2, LinesOK DEF last
    <3>. QED BY <1>1, <1>2, <2>2, <2>5, <3>1, <3>2, <3>3 DEF Hangs
  <2>6. ASSUME NEW i \in 3..(Len(pending) + 1), NEW n, n = pending'[i], n # Null,
               NEW d, d = Len(pending') - i + 1
        PROVE  Hangs(t, n, d)' /\ n \notin Listed'
               /\ \A j \in 3..(Len(pending) + 1) : pending'[j] = n => j = i
    <3>1. i - 1 \in DOMAIN pending /\ n = pending[i - 1] /\ d = Len(pending) - (i - 1) + 1
      BY <1>1, <2>1, <2>6
    <3>2. n \notin Listed /\ Hangs(t, n, d) /\ \A j \in DOMAIN pending : pending[j] = n => j = i - 1
      BY <2>6, <3>1 DEF InPlace, PendingHang
    <3>3. n # c
      BY <1>1, <2>6, <3>1
    <3>4. Hangs(t, n, d)'
      <4>1. PICK j \in DOMAIN out : out[j].addr = t.parent[n] /\ out[j].depth + 1 = d
        BY <3>2 DEF Hangs
      <4>2. j \in DOMAIN out' /\ out'[j] = out[j]
        BY <1>2, <4>1, LinesOK DEF last
      <4>. QED BY <1>5, <2>6, <3>2, <4>1, <4>2 DEF Hangs
    <3>5. ASSUME NEW j \in 3..(Len(pending) + 1), pending'[j] = n PROVE j = i
      BY <1>1, <2>1, <3>2, <3>5
    <3>. QED BY <1>3, <3>2, <3>3, <3>4, <3>5
  <2>7. ASSUME NEW i \in DOMAIN pending', NEW n, n = pending'[i], n # Null, NEW d, d = Len(pending') - i + 1
        PROVE  Hangs(t, n, d)' /\ n \notin Listed' /\ \A j \in DOMAIN pending' : pending'[j] = n => j = i
    <3>1. i = 1 \/ i = 2 \/ i \in 3..(Len(pending) + 1)
      BY <1>1, <2>1
    <3>2. \A j \in DOMAIN pending' : j = 1 \/ j = 2 \/ j \in 3..(Len(pending) + 1)
      BY <1>1, <2>1
    <3>3. \A j \in 3..(Len(pending) + 1) : j - 1 \in DOMAIN pending /\ pending'[j] = pending[j - 1]
      BY <1>1, <2>1
    <3>4. CASE i = 1
      <4>1. n = links.first[c] /\ d = Len(pending) + 1
        BY <1>1, <2>1, <2>7, <3>4
      <4>. QED BY <2>1, <2>2, <2>3, <2>4, <2>7, <3>2, <3>3, <3>4, <4>1
    <3>5. CASE i = 2
      <4>1. n = links.next[c] /\ d = Len(pending)
        BY <1>1, <2>1, <2>7, <3>5
      <4>. QED BY <2>1, <2>2, <2>3, <2>5, <2>7, <3>2, <3>3, <3>5, <4>1
    <3>6. CASE i \in 3..(Len(pending) + 1)
      <4>1. n # links.first[c] /\ n # links.next[c]
        BY <2>2, <2>7, <3>3, <3>6
      <4>. QED BY <2>1, <2>6, <2>7, <3>2, <3>6, <4>1
    <3>. QED BY <3>1, <3>4, <3>5, <3>6
  <2>8. ASSUME NEW i \in DOMAIN pending', pending'[i] # Null, NEW n, n = pending'[i]
        PROVE  /\ n \notin Listed' /\ Hangs(t, n, Len(pending) - i + 1)'
               /\ \A j \in DOMAIN pending' : pending'[j] = n => j = i
    BY <2>7, <2>8
  <2>. QED BY <2>8 DEF PendingHang, Hangs, LedTo
<1>. QED BY <1>4, <1>6, <1>7 DEF InPlace

(* Every step puts its line where it belongs.                                *)
LEMMA StaysInPlace ==
  ASSUME NEW t, Remains(t), WalkTypeOK, InPlace(t), [Walk]_walk
  PROVE  InPlace(t)'
<1>1. CASE DumpChild
  BY <1>1, ChildInPlace
<1>2. CASE DumpRoot
  <2>1. /\ Len(out') = 1 /\ out'[1].addr = node /\ out'[1].depth = 0 /\ Listed' = {node}
        /\ DOMAIN out' = {1}
    BY <1>2 DEF DumpRoot, Line, Listed
  <2>2. /\ pending' = <<links.first[node]>> /\ node \in Addresses
        /\ links.first[node] \in Addresses
    BY <1>2 DEF DumpRoot, RootFrames, WalkTypeOK, LinksOK
  <2>3. PrintedOnce(t)' /\ PrintedHang(t)'
    BY <2>1 DEF PrintedOnce, PrintedHang
  <2>4. ASSUME NEW n, n = links.first[node], n # Null
        PROVE  n \notin Listed' /\ Hangs(t, n, 1)'
    <3>1. node \in Nodes /\ n = t.first[node] /\ t.parent[n] = node /\ n # node
      <4>1. node \in Nodes /\ n = t.first[node]
        BY <2>2, <2>4 DEF Remains, Addresses
      <4>2. t.first[node] # node
        BY <4>1, LedByOne DEF Remains
      <4>. QED BY <2>4, <4>1, <4>2 DEF Remains, IsTree
    <3>2. node # Null
      BY <3>1, NullOK
    <3>. QED BY <2>1, <2>4, <3>1, <3>2 DEF Hangs, LedTo
  <2>5. ASSUME NEW i \in DOMAIN pending', pending'[i] # Null, NEW n, n = pending'[i]
        PROVE  /\ n \notin Listed' /\ Hangs(t, n, Len(pending) - i + 1)'
               /\ \A j \in DOMAIN pending' : pending'[j] = n => j = i
    <3>1. i = 1 /\ DOMAIN pending' = {1} /\ Len(pending') - i + 1 = 1 /\ n = links.first[node]
      BY <2>2, <2>5
    <3>. QED BY <2>4, <2>5, <3>1
  <2>6. PendingHang(t)'
    BY <2>5 DEF PendingHang, Hangs, LedTo
  <2>. QED BY <2>3, <2>6 DEF InPlace
<1>3. CASE Return
  <2>1. /\ out' = out /\ pending' = Tail(pending) /\ pending \in Seq(Addresses) /\ pending # <<>>
        /\ Listed' = Listed
    BY <1>3 DEF Return, WalkTypeOK, Listed
  <2>2. PrintedOnce(t)' /\ PrintedHang(t)'
    BY <2>1 DEF InPlace, PrintedOnce, PrintedHang, LedTo
  <2>3. ASSUME NEW i \in DOMAIN pending', pending'[i] # Null, NEW n, n = pending'[i]
        PROVE  /\ n \notin Listed' /\ Hangs(t, n, Len(pending) - i + 1)'
               /\ \A j \in DOMAIN pending' : pending'[j] = n => j = i
    <3>1. /\ i + 1 \in DOMAIN pending /\ n = pending[i + 1]
          /\ Len(pending) - (i + 1) + 1 = Len(pending') - i + 1
          /\ \A j \in DOMAIN pending' : j + 1 \in DOMAIN pending /\ pending'[j] = pending[j + 1] /\ j \in Nat
          /\ i \in Nat
      BY <2>1, <2>3
    <3>2. /\ n \notin Listed /\ Hangs(t, n, Len(pending) - (i + 1) + 1)
          /\ \A j \in DOMAIN pending : pending[j] = n => j = i + 1
      BY <2>3, <3>1 DEF InPlace, PendingHang
    <3>3. ASSUME NEW j \in DOMAIN pending', pending'[j] = n PROVE j = i
      <4>1. j + 1 \in DOMAIN pending /\ pending[j + 1] = n /\ j \in Nat /\ i \in Nat
        BY <3>1, <3>3
      <4>2. j + 1 = i + 1
        BY <3>2, <4>1
      <4>. QED BY <4>1, <4>2
    <3>. QED BY <2>1, <3>1, <3>2, <3>3 DEF Hangs, LedTo
  <2>4. PendingHang(t)'
    BY <2>3 DEF PendingHang, Hangs, LedTo
  <2>. QED BY <2>2, <2>4 DEF InPlace
<1>4. CASE Climb \/ UNCHANGED walk
  <2>1. out' = out /\ pending' = pending
    BY <1>4 DEF Climb, walk
  <2>2. Listed' = Listed /\ \A n : LedTo(t, n)' <=> LedTo(t, n)
    BY <2>1 DEF Listed, LedTo
  <2>3. PrintedOnce(t)' /\ PrintedHang(t)'
    BY <2>1, <2>2 DEF InPlace, PrintedOnce, PrintedHang, LedTo
  <2>4. PendingHang(t)'
    BY <2>1, <2>2 DEF InPlace, PendingHang, Hangs, LedTo
  <2>. QED BY <2>3, <2>4 DEF InPlace
<1>. QED BY <1>1, <1>2, <1>3, <1>4 DEF Walk

(* So no node is printed twice, and each under its parent.                   *)
LEMMA InPlaceSuffices ==
  ASSUME NEW t, WalkTypeOK, InPlace(t)
  PROVE  UnderParents(t)
<1>. SUFFICES ASSUME NEW k \in DOMAIN out, NEW n, n = out[k].addr, n # Null
     PROVE  /\ \A j \in DOMAIN out : out[j].addr = n => j = k
            /\ k > 1 => \E j \in 1..k-1 : /\ out[j].addr = t.parent[n]
                                          /\ out[j].depth + 1 = out[k].depth
  BY DEF UnderParents
<1>1. \A j \in DOMAIN out : out[j].addr = n => j = k
  BY DEF InPlace, PrintedOnce
<1>2. k > 1 => k \in 2..Len(out)
  BY LinesOK
<1>. QED BY <1>1, <1>2 DEF InPlace, PrintedHang

------------------------------------------------------------------------------
(* Nothing is lost but behind a link that could not be read.                 *)

(* The nodes above a node are itself and those above its parent.             *)
LEMMA PathStep ==
  ASSUME NEW t, IsTree(t), NEW n \in Nodes
  PROVE  /\ n \in Path(t, n)
         /\ \A m : m \in Path(t, n) <=> m = n \/ m \in Path(t, t.parent[n])
<1>1. t.parent[n] \in Addresses /\ n \in Addresses
  BY DEF IsTree, Addresses
<1>2. ASSUME NEW m \in Path(t, n), m # n PROVE m \in Path(t, t.parent[n])
  <2>. SUFFICES ASSUME NEW S \in SUBSET Addresses, t.parent[n] \in S,
                       \A x \in S \ {Null} : t.parent[x] \in S
       PROVE  m \in S
    BY DEF Path
  <2>1. S \cup {n} \in SUBSET Addresses /\ \A x \in (S \cup {n}) \ {Null} : t.parent[x] \in S \cup {n}
    BY <1>1
  <2>2. m \in S \cup {n}
    BY <2>1 DEF Path
  <2>. QED BY <1>2, <2>2
<1>3. ASSUME NEW m \in Path(t, t.parent[n]) PROVE m \in Path(t, n)
  BY NullOK DEF Path
<1>. QED BY <1>2, <1>3 DEF Path

(* There is nothing above or below null.                                     *)
LEMMA NothingAtNull ==
  ASSUME NEW t
  PROVE  Path(t, Null) = {} /\ Within(t, Null) = {}
<1>1. {Null} \in SUBSET Addresses
  BY DEF Addresses
<1>2. Null \in {Null} /\ \A x \in {Null} \ {Null} : t.parent[x] \in {Null} /\ t.first[x] \in {Null} /\ t.next[x] \in {Null}
  OBVIOUS
<1>3. \A m \in Path(t, Null) : m \in {Null} /\ m \in Nodes
  BY <1>1, <1>2 DEF Path
<1>4. \A m \in Within(t, Null) : m \in {Null} /\ m \in Nodes
  BY <1>1, <1>2 DEF Within
<1>. QED BY <1>3, <1>4, NullOK

(* Of a node's forest is what is of its first child's or its next sibling's. *)
LEMMA WithinStep ==
  ASSUME NEW t, NEW n \in Nodes
  PROVE  /\ n \in Within(t, n)
         /\ Within(t, t.first[n]) \subseteq Within(t, n)
         /\ Within(t, t.next[n]) \subseteq Within(t, n)
<1>1. n # Null
  BY NullOK
<1>. QED BY <1>1 DEF Within

(* The climb keeps to the path of the given address, whose top is above.     *)
Climbing(t) ==
  /\ node # Null => node \in Path(t, start)
  /\ \A top \in Path(t, start) : t.parent[top] = Null => top \in Path(t, node)

(* It starts there.                                                          *)
LEMMA ClimbStarts ==
  ASSUME NEW t, IsTree(t), StartWalk
  PROVE  Climbing(t)
BY PathStep DEF StartWalk, Climbing, Addresses

(* And goes on there.                                                        *)
LEMMA StaysClimbing ==
  ASSUME NEW t, Remains(t), WalkTypeOK, Climbing(t), [Walk]_walk
  PROVE  Climbing(t)'
<1>1. CASE Climb
  <2>1. /\ node' = t.parent[node] /\ node' # Null /\ node \in Nodes /\ start' = start
        /\ node' \in Nodes
    BY <1>1 DEF Climb, WalkTypeOK, Remains, LinksOK, Addresses
  <2>2. ASSUME NEW top \in Path(t, start), t.parent[top] = Null PROVE top \in Path(t, node')
    <3>1. top \in Path(t, node) /\ top # node
      BY <2>1, <2>2 DEF Climbing
    <3>. QED BY <2>1, <3>1, PathStep DEF Remains
  <2>3. node' \in Path(t, start)
    <3>1. node \in Path(t, start)
      BY <2>1, NullOK DEF Climbing
    <3>2. \A S \in SUBSET Addresses :
            start \in S /\ (\A x \in S \ {Null} : t.parent[x] \in S) => t.parent[node] \in S
      BY <2>1, <3>1, NullOK DEF Path
    <3>. QED BY <2>1, <3>2 DEF Path
  <2>. QED BY <2>1, <2>2, <2>3 DEF Climbing
<1>2. CASE UNCHANGED <<node, start>>
  BY <1>2 DEF Climbing
<1>. QED BY <1>1, <1>2 DEF Walk, DumpRoot, DumpChild, Return, walk

(* When the dump is done, a node of the tree is missing only behind a link   *)
(* that was not read as it is.                                               *)
LEMMA LostBehindLink ==
  ASSUME NEW t, Remains(t), WalkTypeOK, NothingForgotten, Climbing(t), pc = "done",
         NEW top \in Path(t, start), t.parent[top] = Null,
         NEW n \in Within(t, top) \ Listed
  PROVE  \E m \in Nodes :
           \/ m \in Path(t, start) /\ links.parent[m] # t.parent[m]
           \/ n \in Within(t, t.first[m]) /\ links.first[m] # t.first[m]
           \/ n \in Within(t, t.next[m]) /\ links.next[m] # t.next[m]
<1>1. SUFFICES ASSUME \A m \in Nodes :
                        /\ m \in Path(t, start) => links.parent[m] = t.parent[m]
                        /\ n \in Within(t, t.first[m]) => links.first[m] = t.first[m]
                        /\ n \in Within(t, t.next[m]) => links.next[m] = t.next[m]
               PROVE  FALSE
  OBVIOUS
<1>2. top \in Nodes /\ n \in Nodes /\ n \notin Listed /\ node \in Addresses
  BY DEF Path, Within, WalkTypeOK
<1>3. /\ out[1].addr = node /\ links.parent[node] = Null
      /\ links.first[node] \in Below \cup {Null}
      /\ \A m \in Below : {links.first[m], links.next[m]} \subseteq Below \cup {Null}
  BY DEF NothingForgotten
<1>4. top = node
  <2>1. top \in Path(t, node)
    BY DEF Climbing
  <2>2. node # Null
    BY <2>1, NothingAtNull
  <2>3. node \in Nodes /\ node \in Path(t, start) /\ t.parent[node] = Null
    BY <1>1, <1>2, <1>3, <2>2 DEF Climbing, Addresses
  <2>. QED BY <2>1, <2>3, PathStep, NothingAtNull DEF Remains
<1>5. /\ Below \subseteq Listed /\ node \in Listed
      /\ \A m \in Listed : m = node \/ m \in Below
  <2>1. out # <<>>
    BY DEF WalkTypeOK
  <2>. QED BY <1>3, <2>1, LinesOK DEF Listed, Below
<1>6. t.next[node] = Null
  BY <1>2, <1>4 DEF Remains, IsTree
<1> DEFINE S == {x \in Addresses : x = Null \/ x \in Listed \/ n \notin Within(t, x)}
<1>7. ASSUME NEW x \in S \ {Null} PROVE t.first[x] \in S /\ t.next[x] \in S
  <2>1. x \in Nodes /\ t.first[x] \in Addresses /\ t.next[x] \in Addresses
    BY <1>7 DEF Remains, IsTree, Addresses
  <2>2. CASE x \notin Listed
    <3>1. n \notin Within(t, t.first[x]) /\ n \notin Within(t, t.next[x])
      BY <1>7, <2>1, <2>2, WithinStep
    <3>. QED BY <2>1, <3>1
  <2>3. CASE x \in Listed
    <3>1. n \in Within(t, t.first[x]) => t.first[x] \in Below \cup {Null}
      BY <1>1, <1>3, <1>5, <2>1, <2>3
    <3>2. n \in Within(t, t.next[x]) => t.next[x] \in Below \cup {Null}
      BY <1>1, <1>3, <1>5, <1>6, <2>1, <2>3
    <3>. QED BY <1>5, <2>1, <3>1, <3>2
  <2>. QED BY <2>2, <2>3
<1>8. top \in S /\ S \in SUBSET Addresses
  BY <1>2, <1>4, <1>5
<1>9. n \in S
  <2>. HIDE DEF S
  <2>1. n \in Within(t, top)
    OBVIOUS
  <2>. QED BY <1>7, <1>8, <2>1 DEF Within
<1>. QED BY <1>2, <1>9, WithinStep, NullOK

(* The nodes that are linked with their parent's children.                   *)
Linked(t) == {m \in Nodes : t.first[t.parent[m]] = m \/ \E k \in Nodes : t.next[k] = m}

(* If every link is read as it is, the dump has the given node if and only   *)
(* if each node on its path that has a parent is linked with its children.   *)
LEMMA ListedIfLinked ==
  ASSUME NEW t, Remains(t), WalkTypeOK, NothingForgotten, Climbing(t), InPlace(t),
         pc = "done", start # Null,
         \A m \in Nodes : /\ links.parent[m] = t.parent[m]
                          /\ links.first[m] = t.first[m] /\ links.next[m] = t.next[m],
         \A m \in Nodes : t.next[m] # Null => m \in Linked(t)
  PROVE  start \in Listed <=> \A m \in Path(t, start) : t.parent[m] # Null => m \in Linked(t)
<1>1. /\ out[1].addr = node /\ links.parent[node] = Null /\ out # <<>>
      /\ links.first[node] \in Below \cup {Null}
      /\ \A m \in Below : {links.first[m], links.next[m]} \subseteq Below \cup {Null}
  BY DEF NothingForgotten, WalkTypeOK
<1>2. /\ Below \subseteq Listed /\ node \in Listed /\ Listed \subseteq Addresses
      /\ \A m \in Listed : m = node \/ m \in Below
  BY <1>1, LinesOK DEF Listed, Below
<1>3. start \in Nodes /\ start \in Path(t, start) /\ node \in Addresses /\ Path(t, start) \subseteq Nodes
  BY PathStep DEF WalkTypeOK, Addresses, Remains, Path
<1>4. node # Null
  <2>. SUFFICES ASSUME node = Null PROVE FALSE
    OBVIOUS
  <2>1. \A top \in Path(t, start) : t.parent[top] # Null
    BY NothingAtNull DEF Climbing
  <2>2. \A m \in Path(t, start) : t.parent[m] \in Path(t, start)
    <3>. SUFFICES ASSUME NEW m \in Path(t, start) PROVE t.parent[m] \in Path(t, start)
      OBVIOUS
    <3>1. m \in Nodes /\ m # Null /\ t.parent[m] \in Nodes
      BY <1>3, <2>1, NullOK DEF Remains, IsTree, Addresses
    <3>2. \A S \in SUBSET Addresses :
            start \in S /\ (\A x \in S \ {Null} : t.parent[x] \in S) => t.parent[m] \in S
      BY <3>1 DEF Path
    <3>. QED BY <3>1, <3>2 DEF Path
  <2>3. \A S \in (SUBSET Nodes) \ {{}} : \E m \in S : t.parent[m] \notin S
    BY DEF Remains, IsTree
  <2>. QED BY <1>3, <2>2, <2>3
<1>5. node \in Nodes /\ node \in Path(t, start) /\ t.parent[node] = Null /\ t.next[node] = Null
  BY <1>1, <1>3, <1>4 DEF Climbing, Addresses, Remains, IsTree
<1>6. ASSUME NEW m \in Listed, m # node
      PROVE  m \in Nodes /\ t.parent[m] \in Listed /\ m \in Linked(t)
  <2>1. PICK k \in 2..Len(out) : out[k].addr = m
    BY <1>2, <1>6 DEF Below
  <2>2. /\ m # Null /\ t.parent[m] # Null /\ LedTo(t, m)
        /\ \E j \in 1..k-1 : out[j].addr = t.parent[m]
    BY <2>1 DEF InPlace, PrintedHang
  <2>3. t.parent[m] \in Listed
    BY <2>1, <2>2, LinesOK
  <2>4. PICK led \in Listed \ {Null} : t.first[led] = m \/ t.next[led] = m
    BY <2>2 DEF LedTo
  <2>5. led \in Nodes /\ m \in Nodes
    BY <1>2, <2>2, <2>4 DEF Addresses
  <2>6. m \in Linked(t)
    BY <2>2, <2>4, <2>5 DEF Remains, IsTree, Linked
  <2>. QED BY <2>3, <2>5, <2>6
<1>7. ASSUME start \in Listed, NEW m \in Path(t, start), t.parent[m] # Null PROVE m \in Linked(t)
  <2> DEFINE S == Listed \cup {Null}
  <2>1. S \in SUBSET Addresses /\ start \in S /\ \A x \in S \ {Null} : t.parent[x] \in S
    BY <1>2, <1>5, <1>6, <1>7 DEF Addresses
  <2>. HIDE DEF S
  <2>2. m \in S
    BY <2>1 DEF Path
  <2>3. m \in Nodes /\ m # Null
    BY <1>3, NullOK
  <2>. QED BY <1>5, <1>6, <1>7, <2>2, <2>3 DEF S
<1>8. ASSUME \A m \in Path(t, start) : t.parent[m] # Null => m \in Linked(t), start \notin Listed PROVE FALSE
  <2> DEFINE S == {x \in Path(t, start) : x \notin Listed}
  <2>1. S \in (SUBSET Nodes) \ {{}}
    BY <1>3, <1>8
  <2>2. \A T \in (SUBSET Nodes) \ {{}} :
          (\E m \in T : t.parent[m] \notin T) /\ \E m \in T : \A k \in T : t.next[k] # m
    BY DEF Remains, IsTree
  <2>3. PICK x \in S : t.parent[x] \notin S
    <3>. HIDE DEF S
    <3>. QED BY <2>1, <2>2
  <2>4. x \in Path(t, start) /\ x \in Nodes /\ x \notin Listed
    BY <1>3
  <2>5. t.parent[x] # Null
    <3>. SUFFICES ASSUME t.parent[x] = Null PROVE FALSE
      OBVIOUS
    <3>1. x \in Path(t, node)
      BY <2>4 DEF Climbing
    <3>. QED BY <1>2, <1>5, <2>4, <3>1, PathStep, NothingAtNull DEF Remains
  <2>6. t.parent[x] \in Path(t, start)
    <3>1. t.parent[x] \in Nodes /\ x # Null
      BY <2>4, <2>5, NullOK DEF Remains, IsTree, Addresses
    <3>2. \A U \in SUBSET Addresses :
            start \in U /\ (\A y \in U \ {Null} : t.parent[y] \in U) => t.parent[x] \in U
      BY <2>4, <3>1 DEF Path
    <3>. QED BY <3>1, <3>2 DEF Path
  <2>7. PICK p \in Listed : p = t.parent[x] /\ p \in Nodes
    BY <1>3, <2>3, <2>6
  <2>8. x \in Linked(t)
    BY <1>8, <2>4, <2>5
  <2> DEFINE T == {y \in Linked(t) : t.parent[y] = p /\ y \notin Listed}
  <2>9. T \in (SUBSET Nodes) \ {{}}
    BY <2>4, <2>7, <2>8 DEF Linked
  <2>10. PICK y \in T : \A k \in T : t.next[k] # y
    <3>. HIDE DEF T
    <3>. QED BY <2>2, <2>9
  <2>11. y \in Nodes /\ y # Null /\ t.parent[y] = p /\ y \notin Listed
    BY NullOK DEF Linked
  <2>12. t.first[p] # y
    BY <1>1, <1>2, <2>7, <2>11
  <2>13. PICK k \in Nodes : t.next[k] = y
    BY <2>11, <2>12 DEF Linked
  <2>14. k \notin Listed
    BY <1>1, <1>2, <1>5, <2>11, <2>13
  <2>15. t.parent[k] = p /\ k \in Linked(t)
    BY <2>11, <2>13 DEF Remains, IsTree, Linked
  <2>. QED BY <2>10, <2>13, <2>14, <2>15
<1>. QED BY <1>7, <1>8

------------------------------------------------------------------------------
(* !dom. *)

(* Links read as addresses: one that cannot be read as null.                 *)
LEMMA LoadedLinksOK == Init => LinksOK
<1> SUFFICES ASSUME Init PROVE LinksOK
  OBVIOUS
<1>1. ASSUME NEW n \in Addresses, NEW f \in {"parent", "next", "first"}
      PROVE  ReadLink(n, f) \in Addresses
  BY HeapsOK DEF Init, ReadLink, Readable, Addresses
<1>2. \A n \in Addresses : /\ Parent(n) \in Addresses
                           /\ ReadLink(n, "next") \in Addresses
                           /\ FirstChild(n) \in Addresses
  BY <1>1 DEF Parent, FirstChild, Addresses
<1>3. /\ links.parent = [n \in Addresses |-> Parent(n)]
      /\ links.next = [n \in Addresses |-> ReadLink(n, "next")]
      /\ links.first = [n \in Addresses |-> FirstChild(n)]
  BY DEF Init, Loaded
<1>4. QED
  BY <1>2, <1>3 DEF LinksOK

(* Every step of the command is a step of the walk. *)
THEOREM DomWalks == Spec => WalkSpec
<1>1. Init => LinksOK /\ StartWalk
  BY LoadedLinksOK DEF Init
<1>2. [Next]_vars => [Walk]_walk
  BY DEF Next, vars
<1>3. QED
  BY <1>1, <1>2, PTL DEF Spec, WalkSpec

(* What !dom prints below the root is below the root, and when it ends all   *)
(* of that has been printed.                                                 *)
THEOREM DomComplete == Spec => [](NothingInvented /\ NothingForgotten)
BY DomWalks, NothingIsInvented, NothingIsForgotten, PTL

(* What the walk goes over stays what was read of a tree.                    *)
DomLoaded == heap \in Heaps /\ unreadable \in Unreadables /\ links = Loaded

(* The tree, each link of it that can be read, and nothing else.             *)
LEMMA DomRemains == ASSUME DomLoaded PROVE Remains(Tree(heap))
<1>1. IsTree(Tree(heap))
  BY HeapsOK DEF DomLoaded
<1>2. ASSUME NEW n \in Addresses
      PROVE  /\ links.parent[n] = ReadLink(n, "parent") /\ links.next[n] = ReadLink(n, "next")
             /\ links.first[n] = FirstChild(n)
  BY DEF DomLoaded, Loaded, Parent
<1>3. ASSUME NEW n \in Addresses
      PROVE  /\ ReadLink(n, "parent") # Null => n # Null /\ ReadLink(n, "parent") = heap.parent[n]
             /\ ReadLink(n, "next") # Null => n # Null /\ ReadLink(n, "next") = heap.next[n]
             /\ FirstChild(n) # Null => n # Null /\ n \in heap.container /\ FirstChild(n) = heap.first[n]
  BY DEF ReadLink, Readable, FirstChild, HasFlag
<1>4. ASSUME NEW n \in Nodes
      PROVE  /\ Tree(heap).parent[n] = heap.parent[n] /\ Tree(heap).next[n] = heap.next[n]
             /\ n \in heap.container => Tree(heap).first[n] = heap.first[n]
  BY DEF Tree
<1>5. ASSUME NEW n \in Addresses
      PROVE  /\ links.parent[n] # Null => n # Null /\ links.parent[n] = Tree(heap).parent[n]
             /\ links.first[n] # Null => n # Null /\ links.first[n] = Tree(heap).first[n]
             /\ links.next[n] # Null => n # Null /\ links.next[n] = Tree(heap).next[n]
  BY <1>2, <1>3, <1>4 DEF Addresses
<1>. QED BY <1>1, <1>5 DEF Remains

(* Each line is in its place in the tree, and so is the climb.               *)
DomInPlace == DomLoaded /\ InPlace(Tree(heap)) /\ Climbing(Tree(heap))

(* Whatever the tree and whatever cannot be read of it.                      *)
THEOREM DomStaysInPlace == Spec => []DomInPlace
<1>1. Init => DomInPlace
  <2>. SUFFICES ASSUME Init PROVE DomInPlace
    OBVIOUS
  <2>1. DomLoaded /\ StartWalk
    BY DEF Init, DomLoaded
  <2>2. InPlace(Tree(heap))
    BY <2>1 DEF StartWalk, InPlace, PrintedOnce, PrintedHang, PendingHang
  <2>3. Climbing(Tree(heap))
    BY <2>1, DomRemains, ClimbStarts DEF Remains
  <2>. QED BY <2>1, <2>2, <2>3 DEF DomInPlace
<1>2. DomInPlace /\ WalkTypeOK /\ [Next]_vars => DomInPlace'
  <2>. SUFFICES ASSUME DomInPlace, WalkTypeOK, [Next]_vars, NEW t, t = Tree(heap) PROVE DomInPlace'
    OBVIOUS
  <2>1. [Walk]_walk /\ UNCHANGED target /\ links' = links
    BY DEF Next, vars, target, Walk, walk, Climb, DumpRoot, DumpChild, Return
  <2>2. t = Tree(heap)' /\ DomLoaded'
    BY <2>1 DEF target, Tree, DomInPlace, DomLoaded, Loaded, Parent, FirstChild, HasFlag,
                GetLayoutObject, LayoutOfRareData, LayoutOf, ReadLink, Readable
  <2>3. Remains(t) /\ InPlace(t) /\ Climbing(t)
    BY DomRemains DEF DomInPlace
  <2>4. InPlace(t)' /\ Climbing(t)'
    BY <2>1, <2>3, StaysInPlace, StaysClimbing
  <2>. QED BY <2>2, <2>4 DEF DomInPlace, InPlace, PrintedOnce, PrintedHang, PendingHang, Hangs, LedTo, Climbing, Path
<1>. QED
  BY <1>1, <1>2, DomWalks, WalkTypes, PTL DEF Spec

(* Every line of !dom stands under its parent's, once, and shows the layout  *)
(* object of its own node or none where that could not be read; junk only    *)
(* for flags that could not be read.                                         *)
THEOREM DomLinesTrue == Spec => []EveryLineTrue
<1>1. DomInPlace /\ WalkTypeOK => UnderItsParent
  BY InPlaceSuffices DEF DomInPlace, UnderItsParent
<1>2. DomInPlace /\ LabelsLoaded => LabelsTrue
  <2> SUFFICES ASSUME DomInPlace, LabelsLoaded PROVE LabelsTrue
    OBVIOUS
  <2>1. \A k \in DOMAIN out : LET n == out[k].addr IN out[k].label = GetLayoutObject(n)
    BY DEF DomInPlace, DomLoaded, Loaded, LabelsLoaded
  <2>. QED
    BY <2>1 DEF LabelsTrue, GetLayoutObject, LayoutOfRareData, LayoutOf, ReadLink, HasFlag, Readable
<1>. QED
  BY <1>1, <1>2, DomStaysInPlace, DomWalks, WalkTypes, LabelsAreLoaded, PTL DEF EveryLineTrue

(* A node of the document that a complete dump lacks is behind a link that   *)
(* could not be read.                                                        *)
THEOREM DomLossExplained == Spec => []LossExplained
<1>1. DomInPlace /\ WalkTypeOK /\ NothingForgotten => LossExplained
  <2>. SUFFICES ASSUME DomInPlace, WalkTypeOK, NothingForgotten, pc = "done", NEW t, t = Tree(heap),
                       NEW top \in Path(t, start), heap.parent[top] = Null, NEW n \in Within(t, top) \ Listed
       PROVE  \E m \in Nodes :
                \/ m \in Path(t, start) /\ ~Readable(m, "parent")
                \/ /\ n \in Within(t, t.first[m])
                   /\ ~(Readable(m, "flags") /\ Readable(m, "first"))
                \/ n \in Within(t, heap.next[m]) /\ ~Readable(m, "next")
    BY DEF LossExplained
  <2>1. Remains(t) /\ Climbing(t) /\ t.parent[top] = Null
    BY DomRemains DEF DomInPlace, Tree
  <2>2. PICK m \in Nodes :
           \/ m \in Path(t, start) /\ links.parent[m] # t.parent[m]
           \/ n \in Within(t, t.first[m]) /\ links.first[m] # t.first[m]
           \/ n \in Within(t, t.next[m]) /\ links.next[m] # t.next[m]
    BY <2>1, LostBehindLink
  <2>3. /\ links.parent[m] = ReadLink(m, "parent") /\ links.next[m] = ReadLink(m, "next")
        /\ links.first[m] = FirstChild(m)
    BY DEF DomInPlace, DomLoaded, Loaded, Parent, Addresses
  <2>4. /\ t.parent[m] = heap.parent[m] /\ t.next[m] = heap.next[m]
        /\ t.first[m] = IF m \in heap.container THEN heap.first[m] ELSE Null
    BY DEF Tree
  <2>5. /\ Readable(m, "parent") => links.parent[m] = t.parent[m]
        /\ Readable(m, "next") => links.next[m] = t.next[m]
        /\ Readable(m, "flags") /\ Readable(m, "first") => links.first[m] = t.first[m]
    BY <2>3, <2>4 DEF ReadLink, FirstChild, HasFlag
  <2>. QED BY <2>2, <2>4, <2>5
<1>. QED
  BY <1>1, DomStaysInPlace, DomComplete, DomWalks, WalkTypes, PTL

(* With everything readable the node asked for is in the dump, unless it is  *)
(* in a shadow tree.                                                         *)
THEOREM DomStartListed == Spec => []StartListed
<1>1. DomInPlace /\ WalkTypeOK /\ NothingForgotten => StartListed
  <2>. SUFFICES ASSUME DomInPlace, WalkTypeOK, NothingForgotten, pc = "done", start # Null, unreadable = {},
                       NEW t, t = Tree(heap)
       PROVE  start \in Listed <=> Path(t, start) \cap heap.shadow = {}
    BY DEF StartListed
  <2>1. Remains(t) /\ Climbing(t) /\ InPlace(t) /\ heap \in Heaps
    BY DomRemains DEF DomInPlace, DomLoaded
  <2>2. ASSUME NEW m \in Nodes
        PROVE  /\ links.parent[m] = t.parent[m] /\ links.first[m] = t.first[m] /\ links.next[m] = t.next[m]
               /\ t.parent[m] = heap.parent[m] /\ t.next[m] = heap.next[m]
    <3>1. /\ links.parent[m] = ReadLink(m, "parent") /\ links.next[m] = ReadLink(m, "next")
          /\ links.first[m] = FirstChild(m)
      BY DEF DomInPlace, DomLoaded, Loaded, Parent, Addresses
    <3>2. \A f : Readable(m, f)
      BY NullOK DEF Readable
    <3>3. /\ t.parent[m] = heap.parent[m] /\ t.next[m] = heap.next[m]
          /\ t.first[m] = IF m \in heap.container THEN heap.first[m] ELSE Null
      BY DEF Tree
    <3>. QED BY <3>1, <3>2, <3>3 DEF ReadLink, FirstChild, HasFlag
  <2>3. \A m \in Nodes : heap.parent[m] # Null => (m \notin heap.shadow <=> m \in Linked(t))
    BY <2>1, <2>2, HeapsOK DEF Linked
  <2>4. \A m \in Nodes : m \in heap.shadow => heap.parent[m] # Null /\ heap.next[m] = Null
    BY <2>1, HeapsOK
  <2>5. \A m \in Nodes : t.next[m] # Null => m \in Linked(t)
    BY <2>1, <2>2, <2>3, <2>4 DEF Remains, IsTree
  <2>6. start \in Listed <=> \A m \in Path(t, start) : t.parent[m] # Null => m \in Linked(t)
    BY <2>1, <2>2, <2>5, ListedIfLinked
  <2>7. Path(t, start) \subseteq Nodes
    BY DEF Path
  <2>. QED BY <2>2, <2>3, <2>4, <2>6, <2>7
<1>. QED
  BY <1>1, DomStaysInPlace, DomComplete, DomWalks, WalkTypes, PTL

------------------------------------------------------------------------------
(* !lay.  Lay!HeapsOK is the assumption of module Layout.                    *)

LayoutLoaded ==
  layout_heap \in LayoutHeaps /\ layout_unreadable \in LayoutUnreadables /\ links = Lay!Loaded

(* What the two modules mean by a tree and a walk is the same.               *)
LEMMA SameWalk ==
  /\ Lay!Addresses = Addresses /\ Lay!Listed = Listed
  /\ \A t : /\ Lay!IsTree(t) <=> IsTree(t)
            /\ Lay!UnderParents(t) <=> UnderParents(t)
            /\ \A n : Lay!Path(t, n) = Path(t, n) /\ Lay!Within(t, n) = Within(t, n)
<1>1. Lay!Addresses = Addresses /\ Lay!Listed = Listed
  BY DEF Lay!Addresses, Addresses, Lay!Listed, Listed
<1>2. ASSUME NEW t PROVE Lay!IsTree(t) <=> IsTree(t)
  BY <1>1, Zenon DEF Lay!IsTree, IsTree
<1>3. ASSUME NEW t PROVE Lay!UnderParents(t) <=> UnderParents(t)
  BY DEF Lay!UnderParents, UnderParents
<1>4. ASSUME NEW t, NEW n PROVE Lay!Path(t, n) = Path(t, n) /\ Lay!Within(t, n) = Within(t, n)
  BY <1>1, Zenon DEF Lay!Path, Path, Lay!Within, Within
<1>. QED BY <1>1, <1>2, <1>3, <1>4

(* The tree, each link of it that can be read, and nothing else: a class     *)
(* CreateNode does not know counts as one whose children cannot be read.     *)
LEMMA LayoutRemains ==
  ASSUME Lay!HeapsOK, LayoutLoaded
  PROVE  /\ Remains(layout_heap) /\ LinksOK
         /\ \A m \in Nodes :
              /\ Lay!Readable(m, "parent") => links.parent[m] = layout_heap.parent[m]
              /\ Lay!Readable(m, "next") => links.next[m] = layout_heap.next[m]
              /\ Lay!Readable(m, "first") /\ Lay!Readable(m, "vtable") /\ layout_heap.class[m] \notin Foreign
                   => links.first[m] = layout_heap.first[m]
<1>1. /\ IsTree(layout_heap) /\ layout_heap.class \in [Nodes -> Container \cup Leaf \cup Foreign]
      /\ \A n \in Nodes : layout_heap.class[n] \in Leaf => layout_heap.first[n] = Null
      /\ NoName \notin Container
  BY SameWalk DEF Lay!HeapsOK, LayoutLoaded
<1>2. ASSUME NEW n \in Addresses
      PROVE  /\ links.parent[n] = Lay!ReadLink(n, "parent") /\ links.next[n] = Lay!ReadLink(n, "next")
             /\ links.first[n] = Lay!FirstChild(n)
  BY SameWalk DEF LayoutLoaded, Lay!Loaded
<1>3. ASSUME NEW n \in Addresses
      PROVE  /\ Lay!ReadLink(n, "parent") # Null => n # Null /\ Lay!ReadLink(n, "parent") = layout_heap.parent[n]
             /\ Lay!ReadLink(n, "next") # Null => n # Null /\ Lay!ReadLink(n, "next") = layout_heap.next[n]
             /\ Lay!FirstChild(n) # Null => n # Null /\ Lay!FirstChild(n) = layout_heap.first[n]
  BY DEF Lay!ReadLink, Lay!Readable, Lay!FirstChild
<1>4. Remains(layout_heap)
  BY <1>1, <1>2, <1>3 DEF Remains
<1>5. LinksOK
  <2>1. ASSUME NEW n \in Addresses
        PROVE  links.parent[n] \in Addresses /\ links.next[n] \in Addresses /\ links.first[n] \in Addresses
    BY <1>1, <1>4 DEF Remains, IsTree, Addresses
  <2>2. /\ links.parent = [n \in Addresses |-> Lay!ReadLink(n, "parent")]
        /\ links.next = [n \in Addresses |-> Lay!ReadLink(n, "next")]
        /\ links.first = [n \in Addresses |-> Lay!FirstChild(n)]
    BY SameWalk DEF LayoutLoaded, Lay!Loaded
  <2>. QED BY <2>1, <2>2 DEF LinksOK
<1>6. ASSUME NEW m \in Nodes
      PROVE  /\ Lay!Readable(m, "parent") => links.parent[m] = layout_heap.parent[m]
             /\ Lay!Readable(m, "next") => links.next[m] = layout_heap.next[m]
             /\ Lay!Readable(m, "first") /\ Lay!Readable(m, "vtable") /\ layout_heap.class[m] \notin Foreign
                  => links.first[m] = layout_heap.first[m]
  BY <1>1, <1>2 DEF Lay!ReadLink, Lay!FirstChild, Lay!ResolveType, Addresses
<1>. QED BY <1>4, <1>5, <1>6

(* Every step of the command is a step of the walk.                          *)
THEOREM LayoutWalks == ASSUME Lay!HeapsOK PROVE Lay!Spec => WalkSpec
<1>1. Lay!Init => LinksOK /\ StartWalk
  BY LayoutRemains, SameWalk DEF LayoutLoaded, Lay!Init, Lay!StartWalk, StartWalk
<1>2. [Lay!Next]_Lay!vars => [Walk]_walk
  BY DEF Lay!Next, Lay!vars, Lay!walk, walk, Lay!Walk, Walk, Lay!Climb, Climb,
         Lay!DumpRoot, DumpRoot, Lay!DumpChild, DumpChild, Lay!Return, Return,
         Lay!Line, Line, Lay!RootFrames, RootFrames, Lay!AfterChild, AfterChild
<1>. QED
  BY <1>1, <1>2, PTL DEF Lay!Spec, WalkSpec

(* What !lay prints below the root is below the root, and when it ends all   *)
(* of that has been printed.                                                 *)
THEOREM LayoutComplete ==
  ASSUME Lay!HeapsOK PROVE Lay!Spec => [](NothingInvented /\ NothingForgotten)
BY LayoutWalks, NothingIsInvented, NothingIsForgotten, PTL

(* Each line is in its place in the tree, and so is the climb.               *)
LayoutInPlace == LayoutLoaded /\ InPlace(layout_heap) /\ Climbing(layout_heap)

(* Whatever the tree and whatever cannot be read of it.                      *)
THEOREM LayoutStaysInPlace == ASSUME Lay!HeapsOK PROVE Lay!Spec => []LayoutInPlace
<1>1. Lay!Init => LayoutInPlace
  <2>. SUFFICES ASSUME Lay!Init PROVE LayoutInPlace
    OBVIOUS
  <2>1. LayoutLoaded /\ StartWalk
    BY SameWalk DEF Lay!Init, LayoutLoaded, Lay!StartWalk, StartWalk
  <2>2. InPlace(layout_heap)
    BY <2>1 DEF StartWalk, InPlace, PrintedOnce, PrintedHang, PendingHang
  <2>3. Climbing(layout_heap)
    BY <2>1, LayoutRemains, ClimbStarts DEF Remains
  <2>. QED BY <2>1, <2>2, <2>3 DEF LayoutInPlace
<1>2. [Lay!Next]_Lay!vars => [Walk]_walk /\ UNCHANGED <<layout_heap, layout_unreadable, garbage, links>>
  BY DEF Lay!Next, Lay!vars, Lay!target, Lay!walk, walk, Lay!Walk, Walk, Lay!Climb, Climb,
         Lay!DumpRoot, DumpRoot, Lay!DumpChild, DumpChild, Lay!Return, Return,
         Lay!Line, Line, Lay!RootFrames, RootFrames, Lay!AfterChild, AfterChild
<1>3. LayoutInPlace /\ WalkTypeOK /\ [Lay!Next]_Lay!vars => LayoutInPlace'
  <2>. SUFFICES ASSUME LayoutInPlace, WalkTypeOK, [Lay!Next]_Lay!vars, NEW t, t = layout_heap
       PROVE  LayoutInPlace'
    OBVIOUS
  <2>1. t = layout_heap' /\ LayoutLoaded'
    BY <1>2 DEF LayoutInPlace, LayoutLoaded, Lay!Loaded, Lay!ReadLink, Lay!FirstChild, Lay!ResolveType,
                Lay!NodeOf, Lay!Readable
  <2>2. Remains(t) /\ InPlace(t) /\ Climbing(t)
    BY LayoutRemains DEF LayoutInPlace
  <2>3. InPlace(t)' /\ Climbing(t)'
    BY <1>2, <2>2, StaysInPlace, StaysClimbing
  <2>. QED BY <2>1, <2>3 DEF LayoutInPlace, InPlace, PrintedOnce, PrintedHang, PendingHang, Hangs, LedTo, Climbing, Path
<1>. QED
  BY <1>1, <1>3, LayoutWalks, WalkTypes, PTL DEF Lay!Spec

(* Every line of !lay stands under its parent's, once, and shows the class   *)
(* and the node of its own object, or none where that could not be read.     *)
THEOREM LayoutLinesTrue == ASSUME Lay!HeapsOK PROVE Lay!Spec => []Lay!EveryLineTrue
<1>1. LayoutInPlace /\ WalkTypeOK => Lay!UnderItsParent
  BY InPlaceSuffices, SameWalk DEF LayoutInPlace, Lay!UnderItsParent
<1>2. LayoutInPlace /\ LabelsLoaded => Lay!LabelsTrue
  <2> SUFFICES ASSUME LayoutInPlace, LabelsLoaded PROVE Lay!LabelsTrue
    OBVIOUS
  <2>1. \A k \in DOMAIN out : LET n == out[k].addr IN out[k].label = <<Lay!ResolveType(n), Lay!NodeOf(n)>>
    BY SameWalk DEF LayoutInPlace, LayoutLoaded, Lay!Loaded, LabelsLoaded
  <2>. QED
    BY <2>1 DEF Lay!LabelsTrue, Lay!NodeOf, Lay!ReadLink, Lay!ResolveType, Lay!Readable
<1>3. Lay!UnderItsParent /\ Lay!LabelsTrue => Lay!EveryLineTrue
  BY DEF Lay!EveryLineTrue
<1>. QED
  BY <1>1, <1>2, <1>3, LayoutStaysInPlace, LayoutWalks, WalkTypes, LabelsAreLoaded, PTL

(* An object of the tree that a complete dump lacks is behind a link that    *)
(* could not be read, or below an object of a class CreateNode does not know.*)
THEOREM LayoutLossExplained == ASSUME Lay!HeapsOK PROVE Lay!Spec => []Lay!LossExplained
<1>1. LayoutInPlace /\ WalkTypeOK /\ NothingForgotten => Lay!LossExplained
  <2>. SUFFICES ASSUME LayoutInPlace, WalkTypeOK, NothingForgotten, pc = "done", NEW t, t = layout_heap,
                       NEW top \in Path(t, start), t.parent[top] = Null, NEW n \in Within(t, top) \ Listed
       PROVE  \E m \in Nodes :
                \/ m \in Path(t, start) /\ ~Lay!Readable(m, "parent")
                \/ n \in Within(t, t.next[m]) /\ ~Lay!Readable(m, "next")
                \/ /\ n \in Within(t, t.first[m])
                   /\ ~Lay!Readable(m, "first") \/ ~Lay!Readable(m, "vtable") \/ t.class[m] \in Foreign
    BY SameWalk DEF Lay!LossExplained
  <2>1. Remains(t) /\ Climbing(t)
    BY LayoutRemains DEF LayoutInPlace
  <2>2. PICK m \in Nodes :
           \/ m \in Path(t, start) /\ links.parent[m] # t.parent[m]
           \/ n \in Within(t, t.first[m]) /\ links.first[m] # t.first[m]
           \/ n \in Within(t, t.next[m]) /\ links.next[m] # t.next[m]
    BY <2>1, LostBehindLink
  <2>3. /\ Lay!Readable(m, "parent") => links.parent[m] = t.parent[m]
        /\ Lay!Readable(m, "next") => links.next[m] = t.next[m]
        /\ Lay!Readable(m, "first") /\ Lay!Readable(m, "vtable") /\ t.class[m] \notin Foreign
             => links.first[m] = t.first[m]
    BY LayoutRemains DEF LayoutInPlace
  <2>. QED BY <2>2, <2>3
<1>. QED
  BY <1>1, LayoutStaysInPlace, LayoutComplete, LayoutWalks, WalkTypes, PTL

------------------------------------------------------------------------------
(* What is dumped.                                                           *)

(* A line.                                                                   *)
DumpLine == [addr : Addresses, depth : Nat, label : {links.label[n] : n \in Addresses}]

(* Links without a cycle, neither up nor down.                               *)
Grounded ==
  /\ links.first[Null] = Null /\ links.next[Null] = Null /\ links.parent[Null] = Null
  /\ \A S \in SUBSET Nodes : S # {} =>
       /\ \E n \in S : \A m \in S : links.first[m] # n /\ links.next[m] # n
       /\ \E n \in S : links.parent[n] \notin S

(* Those of a tree have none, however many of them cannot be read.           *)
LEMMA RemainsGrounded ==
  ASSUME NEW t, Remains(t)
  PROVE  Grounded
<1>1. /\ \A n \in Addresses :
           /\ links.parent[n] # Null => n # Null /\ links.parent[n] = t.parent[n]
           /\ links.first[n] # Null => n # Null /\ links.first[n] = t.first[n]
           /\ links.next[n] # Null => n # Null /\ links.next[n] = t.next[n]
      /\ \A n \in Nodes :
           /\ t.first[n] # Null => t.parent[t.first[n]] = n
           /\ t.next[n] # Null => t.parent[t.next[n]] = t.parent[n]
      /\ Null \in Addresses /\ Null \notin Nodes /\ Nodes \subseteq Addresses
  BY NullOK DEF Remains, IsTree, Addresses
<1>2. ASSUME NEW S \in SUBSET Nodes, S # {}
      PROVE  \E n \in S : \A m \in S : links.first[m] # n /\ links.next[m] # n
  <2> DEFINE top == {n \in S : t.parent[n] \notin S}
  <2>1. top # {} /\ top \in SUBSET Nodes
    BY <1>2 DEF Remains, IsTree
  <2>2. PICK n \in top : \A m \in top : t.next[m] # n
    BY <2>1 DEF Remains, IsTree
  <2>3. ASSUME NEW m \in S PROVE links.first[m] # n /\ links.next[m] # n
    <3>1. n # Null /\ m \in Nodes /\ n \in S /\ t.parent[n] \notin S
      BY <1>1, <1>2
    <3>2. links.first[m] # n
      BY <1>1, <3>1
    <3>3. ASSUME links.next[m] = n PROVE FALSE
      <4>1. t.next[m] = n /\ t.parent[n] = t.parent[m]
        BY <1>1, <3>1, <3>3
      <4>2. m \in top
        BY <3>1, <4>1
      <4> QED
        BY <2>2, <4>1, <4>2
    <3> QED
      BY <3>2, <3>3
  <2> QED
    BY <2>2, <2>3
<1>3. ASSUME NEW S \in SUBSET Nodes, S # {}
      PROVE  \E n \in S : links.parent[n] \notin S
  <2>1. PICK n \in S : t.parent[n] \notin S
    BY <1>3 DEF Remains, IsTree
  <2>2. links.parent[n] = Null \/ links.parent[n] = t.parent[n]
    BY <1>1
  <2> QED
    BY <1>1, <2>1, <2>2
<1> QED
  BY <1>1, <1>2, <1>3 DEF Grounded

(* What holds of a node if it does of its first child and its next sibling   *)
(* holds of all nodes.                                                       *)
LEMMA ChildrenFirst ==
  ASSUME Grounded, NEW C, {} \in C,
         \A X \in SUBSET Nodes : X \in C =>
           \A n \in Nodes \ X :
             (/\ links.first[n] \in Nodes => links.first[n] \in X
              /\ links.next[n] \in Nodes => links.next[n] \in X) => X \cup {n} \in C
  PROVE  Nodes \in C
<1> DEFINE succ == [n \in Nodes |-> {links.first[n], links.next[n]}]
<1>1. Begun(Nodes, succ)
  BY DEF Grounded, Begun
<1>2. \A n \in Nodes : succ[n] = {links.first[n], links.next[n]}
  OBVIOUS
<1> HIDE DEF succ
<1>3. Grows(Nodes, succ, C)
  <2>1. SUFFICES ASSUME NEW X \in SUBSET Nodes, X \in C, NEW n \in Nodes \ X,
                        \A m \in Nodes : m \in succ[n] => m \in X
                 PROVE  X \cup {n} \in C
    BY DEF Grows
  <2>2. /\ links.first[n] \in Nodes => links.first[n] \in X
        /\ links.next[n] \in Nodes => links.next[n] \in X
    BY <1>2, <2>1
  <2> QED
    BY <2>1, <2>2
<1> QED
  BY <1>1, <1>3, NodesFinite, LeavesFirst

(* What holds of a node if it does of its parent holds of all nodes.         *)
LEMMA ParentsFirst ==
  ASSUME Grounded, NEW C, {} \in C,
         \A X \in SUBSET Nodes : X \in C =>
           \A n \in Nodes \ X : (links.parent[n] \in Nodes => links.parent[n] \in X) => X \cup {n} \in C
  PROVE  Nodes \in C
<1> DEFINE below == [n \in Nodes |-> {m \in Nodes : links.parent[m] = n}]
           succ == [n \in Nodes |-> {links.parent[n]}]
<1>1. \A n \in Nodes : succ[n] = {links.parent[n]} /\ \A m \in Nodes : m \in below[n] <=> links.parent[m] = n
  OBVIOUS
<1> HIDE DEF below, succ
<1>2. Begun(Nodes, below)
  <2>1. SUFFICES ASSUME NEW S \in SUBSET Nodes, S # {} PROVE \E n \in S : \A m \in S : n \notin below[m]
    BY DEF Begun
  <2>2. PICK n \in S : links.parent[n] \notin S
    BY <2>1 DEF Grounded
  <2> QED
    BY <1>1, <2>2
<1>3. Ended(Nodes, below)
  BY <1>2, NodesFinite, LeavesExist
<1>4. Begun(Nodes, succ)
  <2>1. SUFFICES ASSUME NEW S \in SUBSET Nodes, S # {} PROVE \E n \in S : \A m \in S : n \notin succ[m]
    BY DEF Begun
  <2>2. PICK n \in S : \A m \in S : m \notin below[n]
    BY <1>3, <2>1 DEF Ended
  <2> QED
    BY <1>1, <2>2
<1>5. Grows(Nodes, succ, C)
  BY <1>1 DEF Grows
<1> QED
  BY <1>4, <1>5, NodesFinite, LeavesFirst

(* The forest of n at a depth, given those that follow.                      *)
Trees(f, n) ==
  [depth \in Nat |->
     IF n = Null THEN <<>>
     ELSE <<Line(n, depth)>> \o f[links.first[n]][depth + 1] \o f[links.next[n]][depth]]

(* There is a function that does what Forest asks for.                       *)
LEMMA ForestExists ==
  ASSUME LinksOK, Grounded
  PROVE  \E f : f = [n \in Addresses |-> Trees(f, n)]
<1> DEFINE Sol(X, f) == f = [n \in X \cup {Null} |-> Trees(f, n)]
           Shut(X) == \A n \in X : links.first[n] \in X \cup {Null} /\ links.next[n] \in X \cup {Null}
           C == {X \in SUBSET Nodes : Shut(X) /\ \E f : Sol(X, f)}
<1>1. {} \in C
  <2> DEFINE f == [n \in {} \cup {Null} |-> [depth \in Nat |-> <<>>]]
  <2>1. \A n \in {} \cup {Null} : Trees(f, n) = [depth \in Nat |-> <<>>]
    BY DEF Trees
  <2> HIDE DEF f
  <2>2. f = [n \in {} \cup {Null} |-> [depth \in Nat |-> <<>>]]
    BY DEF f
  <2>3. Sol({}, f)
    BY <2>1, <2>2, Zenon
  <2> QED
    BY <2>3
<1>2. ASSUME NEW X \in SUBSET Nodes, X \in C, NEW n \in Nodes \ X,
             links.first[n] \in Nodes => links.first[n] \in X,
             links.next[n] \in Nodes => links.next[n] \in X
      PROVE  X \cup {n} \in C
  <2>1. PICK f : Sol(X, f)
    BY <1>2
  <2> DEFINE Y == (X \cup {n}) \cup {Null}
             g == [k \in Y |-> Trees(f, k)]
  <2>2. \A k \in X \cup {n} : links.first[k] \in X \cup {Null} /\ links.next[k] \in X \cup {Null}
    BY <1>2 DEF LinksOK, Addresses
  <2>3. \A k \in X \cup {Null} : g[k] = f[k]
    BY <2>1
  <2>4. ASSUME NEW k \in Y PROVE Trees(g, k) = Trees(f, k)
    <3>1. CASE k = Null
      BY <3>1, Zenon DEF Trees
    <3>2. CASE k # Null
      <4>1. g[links.first[k]] = f[links.first[k]] /\ g[links.next[k]] = f[links.next[k]]
        BY <2>2, <2>3, <3>2
      <4> HIDE DEF g
      <4> QED
        BY <4>1, Zenon DEF Trees
    <3> QED
      BY <3>1, <3>2
  <2>5. g = [k \in Y |-> Trees(g, k)]
    BY <2>4, Zenon
  <2>6. Shut(X \cup {n})
    BY <2>2
  <2> HIDE DEF g
  <2>7. \E h : Sol(X \cup {n}, h)
    BY <2>5, Zenon
  <2> QED
    BY <1>2, <2>6, <2>7
<1>3. Nodes \in C
  <2> HIDE DEF C
  <2> QED
    BY <1>1, <1>2, ChildrenFirst
<1> QED
  BY <1>3, Zenon DEF Addresses

(* So Forest does.                                                           *)
LEMMA ForestIs ==
  ASSUME LinksOK, Grounded
  PROVE  \A n \in Addresses : Forest[n] = Trees(Forest, n)
<1>1. Forest = [n \in Addresses |-> Trees(Forest, n)]
  BY ForestExists, Zenon DEF Forest, Trees
<1> QED
  BY <1>1, Zenon

(* And what it gives are sequences of lines.                                 *)
LEMMA ForestType ==
  ASSUME LinksOK, Grounded
  PROVE  \A n \in Addresses : \A depth \in Nat : Forest[n][depth] \in Seq(DumpLine)
<1> DEFINE C == {X \in SUBSET Nodes :
                   /\ \A n \in X : links.first[n] \in X \cup {Null} /\ links.next[n] \in X \cup {Null}
                   /\ \A n \in X : \A depth \in Nat : Forest[n][depth] \in Seq(DumpLine)}
<1>1. \A depth \in Nat : Forest[Null][depth] \in Seq(DumpLine)
  <2>1. Forest[Null] = [depth \in Nat |-> <<>>]
    BY ForestIs, Zenon DEF Trees, Addresses
  <2> QED
    BY <2>1
<1>2. {} \in C
  OBVIOUS
<1>3. ASSUME NEW X \in SUBSET Nodes, X \in C, NEW n \in Nodes \ X,
             links.first[n] \in Nodes => links.first[n] \in X,
             links.next[n] \in Nodes => links.next[n] \in X
      PROVE  X \cup {n} \in C
  <2>1. links.first[n] \in X \cup {Null} /\ links.next[n] \in X \cup {Null}
    BY <1>3 DEF LinksOK, Addresses
  <2>2. ASSUME NEW depth \in Nat PROVE Forest[n][depth] \in Seq(DumpLine)
    <3>1. Forest[n][depth] = <<Line(n, depth)>> \o Forest[links.first[n]][depth + 1] \o Forest[links.next[n]][depth]
      <4>1. n \in Addresses /\ n # Null
        BY NullOK DEF Addresses
      <4>2. Forest[n] = Trees(Forest, n)
        BY <4>1, ForestIs
      <4> QED
        BY <4>1, <4>2 DEF Trees
    <3>2. \A k \in X \cup {Null} : \A d \in Nat : Forest[k][d] \in Seq(DumpLine)
      BY <1>1, <1>3
    <3>3. depth + 1 \in Nat
      OBVIOUS
    <3>4. Line(n, depth) \in DumpLine
      BY DEF Line, DumpLine, Addresses
    <3>5. /\ Forest[links.first[n]][depth + 1] \in Seq(DumpLine)
          /\ Forest[links.next[n]][depth] \in Seq(DumpLine)
      BY <2>1, <3>2, <3>3, Zenon
    <3> DEFINE below == Forest[links.first[n]][depth + 1]
               later == Forest[links.next[n]][depth]
    <3>6. below \in Seq(DumpLine) /\ later \in Seq(DumpLine)
      BY <3>5
    <3>7. Forest[n][depth] = <<Line(n, depth)>> \o below \o later
      BY <3>1
    <3> HIDE DEF below, later
    <3> QED
      BY <3>4, <3>6, <3>7
  <2> QED
    BY <1>3, <2>1, <2>2
<1>4. Nodes \in C
  <2> HIDE DEF C
  <2> QED
    BY <1>2, <1>3, ChildrenFirst
<1> QED
  BY <1>1, <1>4 DEF Addresses

(* The root of n, given that of its parent.                                  *)
Up(f, n) == IF links.parent[n] = Null THEN n ELSE f[links.parent[n]]

(* There is a function that does what Root asks for, so Root does.           *)
LEMMA RootIs ==
  ASSUME LinksOK, Grounded
  PROVE  \A n \in Addresses : Root[n] = Up(Root, n)
<1> DEFINE Sol(X, f) == f = [n \in X \cup {Null} |-> Up(f, n)]
           C == {X \in SUBSET Nodes : (\A n \in X : links.parent[n] \in X \cup {Null}) /\ \E f : Sol(X, f)}
<1>1. {} \in C
  <2>1. Sol({}, [n \in {} \cup {Null} |-> Null])
    BY DEF Up, Grounded
  <2> QED
    BY <2>1
<1>2. ASSUME NEW X \in SUBSET Nodes, X \in C, NEW n \in Nodes \ X,
             links.parent[n] \in Nodes => links.parent[n] \in X
      PROVE  X \cup {n} \in C
  <2>1. PICK f : Sol(X, f)
    BY <1>2
  <2> DEFINE Y == (X \cup {n}) \cup {Null}
             g == [k \in Y |-> Up(f, k)]
  <2>2. \A k \in Y : links.parent[k] \in X \cup {Null}
    BY <1>2 DEF LinksOK, Addresses, Grounded
  <2>3. \A k \in X \cup {Null} : g[k] = f[k]
    BY <2>1
  <2>4. \A k \in Y : Up(g, k) = Up(f, k)
    BY <2>2, <2>3 DEF Up
  <2>5. g = [k \in Y |-> Up(g, k)]
    BY <2>4, Zenon
  <2> HIDE DEF g
  <2>6. \E h : Sol(X \cup {n}, h)
    BY <2>5, Zenon
  <2> QED
    BY <1>2, <2>2, <2>6
<1>3. Nodes \in C
  <2> HIDE DEF C
  <2> QED
    BY <1>1, <1>2, ParentsFirst
<1>4. \E f : f = [n \in Addresses |-> Up(f, n)]
  BY <1>3, Zenon DEF Addresses
<1>5. Root = [n \in Addresses |-> Up(Root, n)]
  BY <1>4, Zenon DEF Root, Up
<1> QED
  BY <1>5, Zenon

(* The two again, with the links as an argument.                             *)
ForestOf(l) ==
  CHOOSE f : f = [n \in Addresses |->
    [depth \in Nat |->
       IF n = Null THEN <<>>
       ELSE <<[addr |-> n, depth |-> depth, label |-> l.label[n]]>>
              \o f[l.first[n]][depth + 1] \o f[l.next[n]][depth]]]

RootOf(l) == CHOOSE f : f = [n \in Addresses |-> IF l.parent[n] = Null THEN n ELSE f[l.parent[n]]]

(* Links that are left alone lead to an end as before.                       *)
LEMMA GroundedStays ==
  ASSUME UNCHANGED links, Grounded
  PROVE  Grounded'
<1>1. links' = links
  OBVIOUS
<1> QED
  BY <1>1, Zenon DEF Grounded

(* The links do not change while they are followed, so neither does what is  *)
(* to be printed.                                                            *)
LEMMA DocumentStays ==
  ASSUME UNCHANGED links
  PROVE  Forest' = Forest /\ Root' = Root /\ (start' = start => Document' = Document)
<1>1. Forest' = Forest
  <2>1. Forest = ForestOf(links)
    BY Zenon DEF Forest, Line, ForestOf
  <2>2. Forest' = ForestOf(links')
    BY Zenon DEF Forest, Line, ForestOf
  <2> QED
    BY <2>1, <2>2, Zenon
<1>2. Root' = Root
  <2>1. Root = RootOf(links)
    BY Zenon DEF Root, RootOf
  <2>2. Root' = RootOf(links')
    BY Zenon DEF Root, RootOf
  <2> QED
    BY <2>1, <2>2, Zenon
<1> QED
  BY <1>1, <1>2, Zenon DEF Document, Line

(* What pending frames owe: the innermost the forest of its child, and then  *)
(* those around it theirs.                                                   *)
Owed(F, S, frames, rest) ==
  \E r \in [0..Len(frames) -> Seq(S)] :
    /\ r[0] = <<>> /\ r[Len(frames)] = rest
    /\ \A j \in 1..Len(frames) : r[j] = F[frames[Len(frames) - j + 1]][j] \o r[j - 1]

(* Nothing is owed if there is no frame.                                     *)
LEMMA OwedNone ==
  ASSUME NEW F, NEW S, NEW rest
  PROVE  Owed(F, S, <<>>, rest) <=> rest = <<>>
<1>1. Len(<<>>) = 0 /\ 0 \in 0..0 /\ <<>> \in Seq(S)
  OBVIOUS
<1>2. ASSUME rest = <<>> PROVE Owed(F, S, <<>>, rest)
  <2> DEFINE r == [j \in 0..0 |-> <<>>]
  <2>1. r \in [0..0 -> Seq(S)] /\ r[0] = <<>>
    BY <1>1
  <2>2. \A j \in 1..0 : FALSE
    OBVIOUS
  <2> HIDE DEF r
  <2> QED
    BY <1>1, <1>2, <2>1, <2>2 DEF Owed
<1>3. ASSUME Owed(F, S, <<>>, rest) PROVE rest = <<>>
  BY <1>1, <1>3, Zenon DEF Owed
<1> QED
  BY <1>2, <1>3

(* A new innermost frame owes the forest of its child first.                 *)
LEMMA OwedPush ==
  ASSUME NEW F, NEW S, NEW A, NEW frames \in Seq(A), NEW rest, NEW c \in A,
         F[c][Len(frames) + 1] \in Seq(S), Owed(F, S, frames, rest)
  PROVE  Owed(F, S, <<c>> \o frames, F[c][Len(frames) + 1] \o rest)
<1> DEFINE L == Len(frames)
           f == <<c>> \o frames
           all == F[c][L + 1] \o rest
<1>1. PICK r \in [0..L -> Seq(S)] :
        /\ r[0] = <<>> /\ r[L] = rest
        /\ \A j \in 1..L : r[j] = F[frames[L - j + 1]][j] \o r[j - 1]
  BY DEF Owed
<1>2. L \in Nat /\ Len(f) = L + 1 /\ f[1] = c /\ \A i \in 1..L : f[i + 1] = frames[i]
  OBVIOUS
<1> HIDE DEF L, f
<1>3. rest \in Seq(S) /\ all \in Seq(S)
  <2>1. rest \in Seq(S)
    BY <1>1, <1>2
  <2> QED
    BY <2>1 DEF L
<1> DEFINE u == [j \in 0..L + 1 |-> IF j = L + 1 THEN all ELSE r[j]]
<1> HIDE DEF all
<1>4. /\ u \in [0..L + 1 -> Seq(S)] /\ u[L + 1] = all
      /\ \A j \in 0..L : u[j] = r[j]
  <2>1. \A j \in 0..L + 1 : j # L + 1 => j \in 0..L
    BY <1>2
  <2>2. \A j \in 0..L + 1 : u[j] \in Seq(S)
    BY <1>1, <1>3, <2>1
  <2>3. \A j \in 0..L : j \in 0..L + 1 /\ j # L + 1
    BY <1>2
  <2>4. L + 1 \in 0..L + 1
    BY <1>2
  <2> QED
    BY <2>2, <2>3, <2>4
<1> HIDE DEF u
<1>5. u[0] = <<>>
  BY <1>1, <1>2, <1>4
<1>6. ASSUME NEW j \in 1..L + 1
      PROVE  u[j] = F[f[(L + 1) - j + 1]][j] \o u[j - 1]
  <2>1. CASE j = L + 1
    <3>1. (L + 1) - j + 1 = 1 /\ j - 1 = L /\ L \in 0..L
      BY <1>2, <2>1
    <3>2. u[j - 1] = rest
      BY <1>1, <1>4, <3>1
    <3> QED
      BY <1>2, <1>4, <2>1, <3>1, <3>2 DEF all
  <2>2. CASE j # L + 1
    <3>1. j \in 1..L /\ j \in 0..L /\ j - 1 \in 0..L /\ L - j + 1 \in 1..L
          /\ (L + 1) - j + 1 = (L - j + 1) + 1
      BY <1>2, <1>6, <2>2
    <3>2. u[j] = r[j] /\ u[j - 1] = r[j - 1] /\ f[(L + 1) - j + 1] = frames[L - j + 1]
      BY <1>2, <1>4, <3>1
    <3>3. r[j] = F[frames[L - j + 1]][j] \o r[j - 1]
      BY <1>1, <3>1, Zenon
    <3> QED
      BY <3>2, <3>3, Zenon
  <2> QED
    BY <2>1, <2>2
<1>7. Owed(F, S, f, all)
  <2>1. Len(f) = L + 1
    BY <1>2
  <2>2. \E r1 \in [0..L + 1 -> Seq(S)] :
          /\ r1[0] = <<>> /\ r1[L + 1] = all
          /\ \A j \in 1..L + 1 : r1[j] = F[f[(L + 1) - j + 1]][j] \o r1[j - 1]
    BY <1>4, <1>5, <1>6, Zenon
  <2> QED
    BY <2>1, <2>2, Zenon DEF Owed
<1> QED
  BY <1>7 DEF f, all, L

(* Two new frames, the outer one first.                                      *)
LEMMA OwedPushTwo ==
  ASSUME NEW F, NEW S, NEW A, NEW t \in Seq(A), NEW a \in A, NEW b \in A, NEW rest,
         F[b][Len(t) + 1] \in Seq(S), F[a][Len(t) + 2] \in Seq(S), Owed(F, S, t, rest)
  PROVE  Owed(F, S, <<a, b>> \o t, F[a][Len(t) + 2] \o (F[b][Len(t) + 1] \o rest))
<1>1. Owed(F, S, <<b>> \o t, F[b][Len(t) + 1] \o rest)
  BY OwedPush
<1>2. <<b>> \o t \in Seq(A) /\ Len(<<b>> \o t) + 1 = Len(t) + 2
  OBVIOUS
<1>3. Owed(F, S, <<a>> \o (<<b>> \o t), F[a][Len(t) + 2] \o (F[b][Len(t) + 1] \o rest))
  BY <1>1, <1>2, OwedPush
<1> DEFINE two == <<a, b>> \o t
           one == <<a>> \o (<<b>> \o t)
<1>4. two \in Seq(A) /\ one \in Seq(A) /\ Len(two) = Len(t) + 2 /\ Len(one) = Len(t) + 2 /\ Len(t) \in Nat
  OBVIOUS
<1>5. ASSUME NEW i \in 1..Len(t) + 2
      PROVE  two[i] = one[i]
  <2>1. CASE i = 1
    BY <2>1
  <2>2. CASE i = 2
    BY <2>2
  <2>3. CASE i > 2
    <3>1. two[i] = t[i - 2]
      BY <1>5, <2>3
    <3>2. (<<b>> \o t)[i - 1] = t[i - 2] /\ <<b>> \o t \in Seq(A) /\ Len(<<b>> \o t) = Len(t) + 1
      BY <1>5, <2>3
    <3>3. one[i] = (<<b>> \o t)[i - 1]
      BY <1>5, <2>3, <3>2
    <3> QED
      BY <3>1, <3>2, <3>3
  <2> QED
    BY <1>4, <1>5, <2>1, <2>2, <2>3
<1> HIDE DEF two, one
<1>6. two = one
  BY <1>4, <1>5, SeqEqual
<1>7. Owed(F, S, one, F[a][Len(t) + 2] \o (F[b][Len(t) + 1] \o rest))
  BY <1>3 DEF one
<1> QED
  BY <1>6, <1>7, Zenon DEF two

(* What the innermost frame owes, and then the others.                       *)
OwedByOthers(F, S, frames, rest, others) ==
  /\ others \in Seq(S) /\ Owed(F, S, Tail(frames), others)
  /\ rest = F[Head(frames)][Len(frames)] \o others

(* What is owed is made up of these two.                                     *)
LEMMA OwedPop ==
  ASSUME NEW F, NEW S, NEW A, NEW frames \in Seq(A), frames # <<>>, NEW rest, Owed(F, S, frames, rest)
  PROVE  \E others : OwedByOthers(F, S, frames, rest, others)
<1> DEFINE L == Len(frames)
           f == Tail(frames)
<1>1. PICK r \in [0..L -> Seq(S)] :
        /\ r[0] = <<>> /\ r[L] = rest
        /\ \A j \in 1..L : r[j] = F[frames[L - j + 1]][j] \o r[j - 1]
  BY DEF Owed
<1>2. L \in Nat /\ L > 0 /\ Len(f) = L - 1 /\ frames[1] = Head(frames)
      /\ \A i \in 1..L - 1 : f[i] = frames[i + 1]
  OBVIOUS
<1> HIDE DEF L, f
<1> DEFINE u == [j \in 0..L - 1 |-> r[j]]
<1>3. u \in [0..L - 1 -> Seq(S)] /\ \A j \in 0..L - 1 : u[j] = r[j]
  <2>1. \A j \in 0..L - 1 : j \in 0..L
    BY <1>2
  <2> QED
    BY <1>1, <2>1
<1> HIDE DEF u
<1>4. 0 \in 0..L - 1 /\ L - 1 \in 0..L - 1 /\ L - 1 \in 0..L /\ L \in 1..L /\ L - L + 1 = 1
  BY <1>2
<1>5. u[0] = <<>> /\ u[L - 1] = r[L - 1] /\ r[L - 1] \in Seq(S)
  BY <1>1, <1>3, <1>4
<1>6. ASSUME NEW j \in 1..L - 1
      PROVE  u[j] = F[f[(L - 1) - j + 1]][j] \o u[j - 1]
  <2>1. j \in 1..L /\ j \in 0..L - 1 /\ j - 1 \in 0..L - 1 /\ (L - 1) - j + 1 \in 1..L - 1
        /\ ((L - 1) - j + 1) + 1 = L - j + 1
    BY <1>2, <1>6
  <2>2. u[j] = r[j] /\ u[j - 1] = r[j - 1] /\ f[(L - 1) - j + 1] = frames[L - j + 1]
    <3>1. f[(L - 1) - j + 1] = frames[((L - 1) - j + 1) + 1]
      BY <1>2, <2>1, Zenon
    <3>2. u[j] = r[j] /\ u[j - 1] = r[j - 1]
      BY <1>3, <1>6, <2>1
    <3> QED
      BY <2>1, <3>1, <3>2, Zenon
  <2>3. r[j] = F[frames[L - j + 1]][j] \o r[j - 1]
    BY <1>1, <2>1, Zenon
  <2> QED
    BY <2>2, <2>3, Zenon
<1>7. Owed(F, S, f, r[L - 1])
  <2>1. Len(f) = L - 1
    BY <1>2
  <2>2. \E r1 \in [0..L - 1 -> Seq(S)] :
          /\ r1[0] = <<>> /\ r1[L - 1] = r[L - 1]
          /\ \A j \in 1..L - 1 : r1[j] = F[f[(L - 1) - j + 1]][j] \o r1[j - 1]
    BY <1>3, <1>5, <1>6, Zenon
  <2> QED
    BY <2>1, <2>2, Zenon DEF Owed
<1>8. rest = F[Head(frames)][L] \o r[L - 1]
  BY <1>1, <1>2, <1>4
<1>9. OwedByOthers(F, S, frames, rest, r[L - 1])
  BY <1>5, <1>7, <1>8 DEF OwedByOthers, f, L
<1> QED
  BY <1>9

(* What is still owed makes up, with what has been printed, the document.    *)
DocumentInv ==
  /\ Grounded
  /\ pc = "climb" => Root[start] = Root[node]
  /\ pc # "climb" => Root[start] = node
  /\ pc = "dump" => \E rest \in Seq(DumpLine) : Owed(Forest, DumpLine, pending, rest) /\ Document = out \o rest
  /\ pc = "done" => out = Document

(* A line ahead of the rest is the next of a document.                       *)
NextIs(printed, line, rest, whole) ==
  /\ Len(printed) < Len(whole) /\ whole[Len(printed) + 1] = line
  /\ whole = Append(printed, line) \o rest

(* So it is in the document made up of the printed lines, it and the rest.   *)
LEMMA NextLine ==
  ASSUME NEW S, NEW a \in Seq(S), NEW x \in S, NEW b \in Seq(S)
  PROVE  NextIs(a, x, b, a \o (<<x>> \o b))
<1> DEFINE whole == a \o (<<x>> \o b)
<1>1. Append(a, x) \in Seq(S) /\ Append(a, x) = a \o <<x>>
  OBVIOUS
<1>2. whole = Append(a, x) \o b
  <2>1. <<x>> \in Seq(S)
    OBVIOUS
  <2>2. (a \o <<x>>) \o b = a \o (<<x>> \o b)
    BY <2>1, ConcatAssociative
  <2> QED
    BY <1>1, <2>2
<1> HIDE DEF whole
<1>3. Len(whole) = Len(a) + 1 + Len(b) /\ Len(a) \in Nat /\ Len(b) \in Nat
  BY <1>1, <1>2
<1>4. whole[Len(a) + 1] = x
  BY <1>1, <1>2, <1>3
<1>5. NextIs(a, x, b, whole)
  BY <1>2, <1>3, <1>4 DEF NextIs
<1> QED
  BY <1>5 DEF whole

(* The climb does not change what the root is.                               *)
LEMMA ClimbOwes ==
  ASSUME WalkTypeOK, DocumentInv, Climb
  PROVE  DocumentInv' /\ UNCHANGED <<Document, out>>
<1>1. /\ UNCHANGED <<links, start, pc, pending, out>> /\ pc = "climb"
      /\ node \in Addresses /\ LinksOK /\ Grounded
      /\ links.parent[node] # Null /\ node' = links.parent[node]
  BY DEF WalkTypeOK, DocumentInv, Climb
<1>2. Root' = Root /\ Document' = Document
  BY <1>1, DocumentStays
<1>3. Root[node'] = Root[node]
  BY <1>1, RootIs DEF Up
<1> QED
  BY <1>1, <1>2, <1>3 DEF DocumentInv, Grounded

(* The line of the root is the first.                                        *)
LEMMA DumpRootOwes ==
  ASSUME WalkTypeOK, DocumentInv, DumpRoot
  PROVE  DocumentInv' /\ Dump!PrintLine
<1> DEFINE first == links.first[node]
           line == Line(node, 0)
           rest == Forest[first][1]
<1>1. /\ UNCHANGED <<links, start, node>> /\ pc = "climb" /\ pc' = "dump"
      /\ node \in Addresses /\ LinksOK /\ Grounded
      /\ links.parent[node] = Null /\ Root[start] = Root[node] /\ out = <<>>
      /\ out' = <<line>> /\ pending' = <<first>>
  BY DEF WalkTypeOK, DocumentInv, DumpRoot, RootFrames
<1>2. Forest' = Forest /\ Root' = Root /\ Document' = Document /\ DumpLine' = DumpLine
  BY <1>1, DocumentStays DEF DumpLine
<1>3. Root[start] = node
  BY <1>1, RootIs DEF Up
<1>4. Document = <<line>> \o rest
  BY <1>3 DEF Document
<1>5. first \in Addresses /\ line \in DumpLine /\ rest \in Seq(DumpLine)
  <2>1. first \in Addresses
    BY <1>1 DEF LinksOK
  <2> QED
    BY <1>1, <2>1, ForestType DEF Line, DumpLine
<1> HIDE DEF first, line
<1>6. Owed(Forest, DumpLine, pending', rest)
  <2>1. <<>> \in Seq(Addresses) /\ Len(<<>>) + 1 = 1 /\ <<first>> \o <<>> = <<first>> /\ rest \o <<>> = rest
    BY <1>5
  <2>2. Owed(Forest, DumpLine, <<>>, <<>>)
    BY OwedNone
  <2>3. Owed(Forest, DumpLine, <<first>> \o <<>>, rest \o <<>>)
    BY <1>5, <2>1, <2>2, OwedPush
  <2> QED
    BY <1>1, <2>1, <2>3
<1> HIDE DEF rest
<1>7. Document = out' \o rest
  BY <1>1, <1>4
<1>8. Dump!PrintLine
  <2>1. Len(Document) = Len(rest) + 1 /\ Len(rest) \in Nat /\ Document[1] = line
    BY <1>4, <1>5
  <2>2. Len(out) < Len(Document) /\ Document[Len(out) + 1] = line /\ out' = Append(out, line)
    BY <1>1, <2>1
  <2> QED
    BY <1>2, <2>2 DEF Dump!PrintLine
<1>9. Grounded'
  BY <1>1, GroundedStays
<1> QED
  BY <1>1, <1>2, <1>3, <1>5, <1>6, <1>7, <1>8, <1>9 DEF DocumentInv

(* The line of a child is the next, before those of its children and those   *)
(* of its later siblings.                                                    *)
LEMMA DumpChildOwes ==
  ASSUME WalkTypeOK, DocumentInv, DumpChild
  PROVE  DocumentInv' /\ Dump!PrintLine
<1> DEFINE child == Head(pending)
           L == Len(pending)
           line == Line(child, L)
           first == links.first[child]
           next == links.next[child]
           below == Forest[first][L + 1]
           later == Forest[next][L]
<1>1. /\ UNCHANGED <<links, start, pc, node>> /\ pc = "dump"
      /\ LinksOK /\ Grounded /\ Root[start] = node
      /\ pending \in Seq(Addresses) /\ pending # <<>> /\ child # Null
      /\ out \in Seq(DumpLine) /\ out' = Append(out, line)
      /\ pending' = <<first, next>> \o Tail(pending)
  BY DEF WalkTypeOK, DocumentInv, DumpChild, AfterChild, DumpLine
<1>2. Forest' = Forest /\ Root' = Root /\ Document' = Document /\ DumpLine' = DumpLine
  BY <1>1, DocumentStays DEF DumpLine
<1>3. PICK rest \in Seq(DumpLine) : Owed(Forest, DumpLine, pending, rest) /\ Document = out \o rest
  BY <1>1 DEF DocumentInv
<1>4. L \in Nat /\ L > 0 /\ child \in Addresses /\ Tail(pending) \in Seq(Addresses) /\ Len(Tail(pending)) + 1 = L
  BY <1>1
<1>5. first \in Addresses /\ next \in Addresses
  BY <1>1, <1>4 DEF LinksOK
<1>6. line \in DumpLine
  BY <1>4 DEF Line, DumpLine
<1>7. Forest[child][L] = <<line>> \o below \o later /\ below \in Seq(DumpLine) /\ later \in Seq(DumpLine)
  <2>1. Forest[child] = Trees(Forest, child)
    BY <1>1, <1>4, ForestIs
  <2>2. L + 1 \in Nat
    BY <1>4
  <2> QED
    BY <1>1, <1>4, <1>5, <2>1, <2>2, ForestType DEF Trees
<1>8. PICK others \in Seq(DumpLine) :
        Owed(Forest, DumpLine, Tail(pending), others) /\ rest = Forest[child][L] \o others
  <2>1. PICK others : OwedByOthers(Forest, DumpLine, pending, rest, others)
    BY <1>1, <1>3, OwedPop
  <2> QED
    BY <2>1 DEF OwedByOthers
<1> HIDE DEF child, L, line, first, next
<1>9. Owed(Forest, DumpLine, pending', below \o (later \o others))
  <2>1. Len(Tail(pending)) + 1 = L /\ Len(Tail(pending)) + 2 = L + 1
    BY <1>4
  <2> DEFINE t == Tail(pending)
  <2>2. Forest[next][Len(t) + 1] \in Seq(DumpLine) /\ Forest[first][Len(t) + 2] \in Seq(DumpLine)
    BY <1>7, <2>1
  <2>3. Owed(Forest, DumpLine, <<first, next>> \o t,
             Forest[first][Len(t) + 2] \o (Forest[next][Len(t) + 1] \o others))
    <3> HIDE DEF below, later
    <3>1. t \in Seq(Addresses) /\ Owed(Forest, DumpLine, t, others)
      BY <1>4, <1>8
    <3> HIDE DEF t
    <3> QED
      BY <1>5, <2>2, <3>1, OwedPushTwo
  <2> QED
    BY <1>1, <2>1, <2>3
<1> DEFINE left == below \o (later \o others)
<1> HIDE DEF below, later
<1>13. left \in Seq(DumpLine)
  <2>1. later \o others \in Seq(DumpLine)
    BY <1>7, <1>8
  <2> QED
    BY <1>7, <2>1
<1>14. rest = <<line>> \o left
  <2>1. <<line>> \in Seq(DumpLine)
    BY <1>6
  <2>2. Regrouped(<<line>>, below, later, others)
    BY <1>7, <1>8, <2>1, RegroupedAlways
  <2>3. rest = ((<<line>> \o below) \o later) \o others
    BY <1>7, <1>8, Zenon
  <2> QED
    BY <2>2, <2>3, Zenon DEF Regrouped, left
<1> HIDE DEF left
<1>15. Len(out) < Len(Document) /\ Document[Len(out) + 1] = line /\ Document = out' \o left
  <2>1. Document = out \o (<<line>> \o left)
    BY <1>3, <1>14, Zenon
  <2>2. NextIs(out, line, left, out \o (<<line>> \o left))
    BY <1>1, <1>6, <1>13, NextLine
  <2>3. NextIs(out, line, left, Document)
    BY <2>1, <2>2, Zenon
  <2> QED
    BY <1>1, <2>3 DEF NextIs
<1>16. Dump!PrintLine
  BY <1>1, <1>2, <1>15 DEF Dump!PrintLine
<1>17. Owed(Forest, DumpLine, pending', left)
  BY <1>9 DEF left
<1>18. Grounded'
  BY <1>1, GroundedStays
<1> QED
  BY <1>1, <1>2, <1>13, <1>15, <1>16, <1>17, <1>18 DEF DocumentInv

(* A frame without a child left owes nothing.                                *)
LEMMA ReturnOwes ==
  ASSUME WalkTypeOK, DocumentInv, Return
  PROVE  DocumentInv' /\ UNCHANGED <<Document, out>>
<1> DEFINE L == Len(pending)
<1>1. /\ UNCHANGED <<links, start, node, out>> /\ pc = "dump"
      /\ LinksOK /\ Grounded /\ Root[start] = node
      /\ pending \in Seq(Addresses) /\ pending # <<>> /\ Head(pending) = Null
      /\ out \in Seq(DumpLine) /\ pending' = Tail(pending)
      /\ pc' = IF Tail(pending) = <<>> THEN "done" ELSE "dump"
  BY DEF WalkTypeOK, DocumentInv, Return, DumpLine
<1>2. Forest' = Forest /\ Root' = Root /\ Document' = Document /\ DumpLine' = DumpLine
  BY <1>1, DocumentStays DEF DumpLine
<1>3. PICK rest \in Seq(DumpLine) : Owed(Forest, DumpLine, pending, rest) /\ Document = out \o rest
  BY <1>1 DEF DocumentInv
<1>4. PICK others \in Seq(DumpLine) :
        Owed(Forest, DumpLine, Tail(pending), others) /\ rest = Forest[Null][L] \o others
  <2>1. PICK others : OwedByOthers(Forest, DumpLine, pending, rest, others)
    BY <1>1, <1>3, OwedPop
  <2> QED
    BY <1>1, <2>1 DEF OwedByOthers
<1>5. Forest[Null][L] = <<>>
  <2>1. Forest[Null] = [depth \in Nat |-> <<>>]
    BY <1>1, ForestIs, Zenon DEF Addresses, Trees
  <2>2. L \in Nat
    BY <1>1
  <2> QED
    BY <2>1, <2>2
<1>6. Document = out \o others
  <2>1. rest = others
    BY <1>4, <1>5
  <2> QED
    BY <1>3, <2>1
<1>7. Grounded'
  BY <1>1, GroundedStays
<1>8. CASE Tail(pending) = <<>>
  <2>1. Owed(Forest, DumpLine, <<>>, others)
    BY <1>4, <1>8
  <2>2. others = <<>>
    BY <2>1, OwedNone
  <2>3. Document = out
    BY <1>1, <1>6, <2>2
  <2> QED
    BY <1>1, <1>2, <1>7, <1>8, <2>3 DEF DocumentInv
<1>9. CASE Tail(pending) # <<>>
  BY <1>1, <1>2, <1>4, <1>6, <1>7, <1>9 DEF DocumentInv
<1> QED
  BY <1>8, <1>9

(* Whatever the links of a tree read as, the walk prints the document, line  *)
(* by line and in order.                                                     *)
THEOREM WalkDumps == WalkSpec /\ Grounded => Dump!Steps /\ [](pc = "done" => out = Document)
<1>1. StartWalk /\ LinksOK /\ Grounded => DocumentInv /\ Dump!Init
  BY DEF StartWalk, DocumentInv, Dump!Init
<1>2. WalkTypeOK /\ DocumentInv /\ [Walk]_walk => DocumentInv' /\ [Dump!PrintLine]_<<Document, out>>
  <2>1. SUFFICES ASSUME WalkTypeOK, DocumentInv, [Walk]_walk
                 PROVE  DocumentInv' /\ [Dump!PrintLine]_<<Document, out>>
    OBVIOUS
  <2>2. CASE UNCHANGED walk
    <3>1. UNCHANGED <<links, start, pc, node, pending, out>>
      BY <2>2 DEF walk
    <3>2. Forest' = Forest /\ Root' = Root /\ Document' = Document
      BY <3>1, DocumentStays
    <3>3. DumpLine' = DumpLine
      BY <3>1 DEF DumpLine
    <3>4. pc = "dump" => \E rest \in Seq(DumpLine) :
            Owed(Forest, DumpLine, pending, rest) /\ Document = out \o rest
      BY <2>1 DEF DocumentInv
    <3>5. pc' = "dump" => \E rest \in Seq(DumpLine') :
            Owed(Forest', DumpLine', pending', rest) /\ Document' = out' \o rest
      BY <3>1, <3>2, <3>3, <3>4, Zenon
    <3>6. Grounded'
      BY <2>1, <3>1, GroundedStays DEF DocumentInv
    <3>7. DocumentInv'
      BY <2>1, <3>1, <3>2, <3>5, <3>6, Zenon DEF DocumentInv
    <3> QED
      BY <3>1, <3>2, <3>7
  <2> QED
    BY <2>1, <2>2, ClimbOwes, DumpRootOwes, DumpChildOwes, ReturnOwes DEF Walk
<1>3. DocumentInv => (pc = "done" => out = Document)
  BY DEF DocumentInv
<1> QED
  BY <1>1, <1>2, <1>3, WalkTypes, PTL DEF WalkSpec, Dump!Steps

(* !dom prints the document of the address it is given, of every tree and    *)
(* whatever cannot be read of it: line by line, in order, and none twice.    *)
THEOREM DomDumpsDocument == Spec => Dump!Steps /\ [](pc = "done" => out = Document)
<1>1. Init => Grounded
  BY DomRemains, RemainsGrounded DEF Init, DomLoaded
<1> QED
  BY <1>1, DomWalks, WalkDumps, PTL DEF Spec

(* So does !lay.                                                             *)
THEOREM LayoutDumpsDocument ==
  ASSUME Lay!HeapsOK
  PROVE  Lay!Spec => Lay!Dump!Steps /\ [](pc = "done" => out = Lay!Document)
<1>1. Lay!Init => Grounded
  BY LayoutRemains, RemainsGrounded, SameWalk DEF Lay!Init, LayoutLoaded
<1>2. Lay!Document = Document
  BY SameWalk, Zenon DEF Lay!Document, Document, Lay!Forest, Forest, Lay!Root, Root, Lay!Line, Line
<1>3. Dump!Init => Lay!Dump!Init
  BY DEF Dump!Init, Lay!Dump!Init
<1>4. Lay!Document = Document /\ (Lay!Document = Document)' /\ [Dump!PrintLine]_<<Document, out>>
        => [Lay!Dump!PrintLine]_<<Lay!Document, out>>
  BY DEF Dump!PrintLine, Lay!Dump!PrintLine
<1>5. Lay!Document = Document /\ (pc = "done" => out = Document) => (pc = "done" => out = Lay!Document)
  OBVIOUS
<1> QED
  BY <1>1, <1>2, <1>3, <1>4, <1>5, LayoutWalks, WalkDumps, PTL
     DEF Lay!Spec, Dump!Steps, Lay!Dump!Steps

==============================================================================
