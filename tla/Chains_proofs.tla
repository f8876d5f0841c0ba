---------------------------- MODULE Chains_proofs ----------------------------
(***************************************************************************)
(* What a loop over a linked list comes by: the members of the list in     *)
(* their order, up to a link that cannot be read.  And what may be said of *)
(* everything in a structure without cycles because it may be said of each *)
(* thing in it once it may of those it leads to.                           *)
(***************************************************************************)
EXTENDS Chains, SequenceTheorems, FiniteSetTheorems, WellFoundedInduction, TLAPS

(* A set of natural numbers that has a member has a least one.               *)
LEMMA LeastExists ==
  ASSUME NEW T \in SUBSET Nat, T # {}
  PROVE  \E x \in T : \A y \in T : x <= y
<1> DEFINE R == OpToRel(<, Nat)
<1>1. IsWellFoundedOn(R, Nat)
  BY NatLessThanWellFounded
<1>2. \A x, y \in Nat : <<y, x>> \in R <=> y < x
  BY SMT DEF OpToRel
<1>. HIDE DEF R
<1>3. PICK x \in T : \A y \in T : <<y, x>> \notin R
  BY <1>1, WFMin
<1>4. x \in Nat /\ \A y \in T : y \in Nat /\ ~(y < x)
  BY <1>2, <1>3, Zenon
<1>. QED
  BY <1>4, SMT

(* A link is null or leads to a member of the list, whatever it is read of.  *)
LEMMA NextStays ==
  ASSUME NEW S, NEW list \in Seq(S), NEW x
  PROVE  NextIn(list, x) \in {0} \cup {list[k] : k \in DOMAIN list}
<1>1. SUFFICES ASSUME \E i \in 1..(Len(list) - 1) : list[i] = x
      PROVE  NextIn(list, x) \in {list[k] : k \in DOMAIN list}
  BY DEF NextIn
<1> DEFINE c == CHOOSE i \in 1..(Len(list) - 1) : list[i] = x
<1>2. c \in 1..(Len(list) - 1)
  BY <1>1
<1>3. c + 1 \in DOMAIN list
  BY <1>1, <1>2
<1>. QED
  BY <1>1, <1>3 DEF NextIn

(* The link of a member leads to the next one, that of the last is null.     *)
LEMMA NextOfMember ==
  ASSUME NEW S, NEW list \in Seq(S), Distinct(list), NEW n \in 1..Len(list)
  PROVE  NextIn(list, list[n]) = IF n = Len(list) THEN 0 ELSE list[n + 1]
<1>1. \A i \in 1..(Len(list) - 1) : list[i] = list[n] => i = n
  BY SMT DEF Distinct
<1>2. CASE n = Len(list)
  <2>1. ~ \E i \in 1..(Len(list) - 1) : list[i] = list[n]
    BY <1>1, <1>2, SMT
  <2>. QED BY <2>1, <1>2 DEF NextIn
<1>3. CASE n # Len(list)
  <2>1. n \in 1..(Len(list) - 1)
    BY <1>3, SMT
  <2>2. (CHOOSE i \in 1..(Len(list) - 1) : list[i] = list[n]) = n
    BY <2>1, <1>1, Zenon
  <2>. QED BY <2>1, <2>2, <1>3 DEF NextIn
<1>. QED BY <1>2, <1>3

(* What is left of a list from one of its members on.                        *)
LEMMA FromMember ==
  ASSUME NEW S, NEW list \in Seq(S), Distinct(list), NEW n \in 1..Len(list)
  PROVE  /\ From(list, list[n]) \in Seq(S)
         /\ Len(From(list, list[n])) = Len(list) - n + 1
         /\ \A k \in 1..(Len(list) - n + 1) : From(list, list[n])[k] = list[n + k - 1]
         /\ Distinct(From(list, list[n]))
<1>1. (CHOOSE i \in DOMAIN list : list[i] = list[n]) = n
  <2>1. \A i \in DOMAIN list : list[i] = list[n] => i = n
    BY SMT DEF Distinct
  <2>2. n \in DOMAIN list
    BY SMT
  <2>. QED BY <2>1, <2>2, Zenon
<1>2. From(list, list[n]) = SubSeq(list, n, Len(list))
  <2>1. n \in DOMAIN list
    BY SMT
  <2>. QED BY <1>1, <2>1, Zenon DEF From
<1>3. \A i \in n..Len(list) : list[i] \in S
  BY SMT
<1>4. /\ SubSeq(list, n, Len(list)) \in Seq(S)
      /\ Len(SubSeq(list, n, Len(list))) = Len(list) - n + 1
      /\ \A k \in 1..(Len(list) - n + 1) : SubSeq(list, n, Len(list))[k] = list[n + k - 1]
  <2>1. n \in Int /\ Len(list) \in Int /\ n <= Len(list)
    BY SMT
  <2>2. /\ SubSeq(list, n, Len(list)) \in Seq(S)
        /\ Len(SubSeq(list, n, Len(list))) = IF n <= Len(list) THEN Len(list) - n + 1 ELSE 0
        /\ \A i \in 1..(Len(list) - n + 1) : SubSeq(list, n, Len(list))[i] = list[n + i - 1]
    BY <1>3, <2>1, SubSeqProperties
  <2>. QED BY <2>1, <2>2
<1>5. Distinct(From(list, list[n]))
  <2> DEFINE rest == From(list, list[n])
  <2>1. SUFFICES ASSUME NEW i \in DOMAIN rest, NEW j \in DOMAIN rest, rest[i] = rest[j]
        PROVE  i = j
    BY DEF Distinct
  <2>2. DOMAIN rest = 1..(Len(list) - n + 1)
    BY <1>2, <1>4
  <2>3. rest[i] = list[n + i - 1] /\ rest[j] = list[n + j - 1]
    BY <1>2, <1>4, <2>2
  <2>4. n + i - 1 \in DOMAIN list /\ n + j - 1 \in DOMAIN list /\ i \in Nat /\ j \in Nat
    BY <2>2, SMT
  <2>5. n + i - 1 = n + j - 1
    BY <2>1, <2>3, <2>4 DEF Distinct
  <2>. QED BY <2>4, <2>5, SMT
<1>. QED BY <1>2, <1>4, <1>5

(* What of a list can be read.                                               *)
LEMMA UpToIsPrefix ==
  ASSUME NEW S, NEW list \in Seq(S), NEW stops
  PROVE  /\ UpTo(list, stops) \in Seq(S)
         /\ Len(UpTo(list, stops)) \in 0..Len(list)
         /\ list # <<>> => UpTo(list, stops) # <<>>
         /\ \A k \in 1..Len(UpTo(list, stops)) : UpTo(list, stops)[k] = list[k]
         /\ \A k \in 1..Len(UpTo(list, stops)) :
              k < Len(UpTo(list, stops)) => list[k] \notin stops
         /\ Len(UpTo(list, stops)) < Len(list) =>
              Len(UpTo(list, stops)) > 0 /\ list[Len(UpTo(list, stops))] \in stops
<1> DEFINE ends == {i \in DOMAIN list : list[i] \in stops}
           end == CHOOSE i \in ends : \A j \in ends : i <= j
<1>1. CASE ends = {}
  <2>1. UpTo(list, stops) = list
    BY <1>1 DEF UpTo
  <2>2. \A k \in 1..Len(list) : list[k] \notin stops
    BY <1>1
  <2>. QED BY <2>1, <2>2
<1>2. CASE ends # {}
  <2>1. end \in ends /\ \A j \in ends : end <= j
    <3>1. ends \in SUBSET Nat
      BY SMT
    <3>2. \E i \in ends : \A j \in ends : i <= j
      <4>. HIDE DEF ends
      <4>. QED BY <1>2, <3>1, LeastExists
    <3>. QED BY <3>2
  <2>2. end \in 1..Len(list) /\ end \in Int /\ 1 \in Int /\ 1 <= end
    BY <2>1
  <2>3. UpTo(list, stops) = SubSeq(list, 1, end)
    BY <1>2 DEF UpTo
  <2>. HIDE DEF end
  <2>4. \A i \in 1..end : list[i] \in S
    BY <2>2
  <2>5. /\ SubSeq(list, 1, end) \in Seq(S)
        /\ Len(SubSeq(list, 1, end)) = end
        /\ \A i \in 1..end : SubSeq(list, 1, end)[i] = list[i]
    <3>1. /\ SubSeq(list, 1, end) \in Seq(S)
          /\ Len(SubSeq(list, 1, end)) = IF 1 <= end THEN end - 1 + 1 ELSE 0
          /\ \A i \in 1..(end - 1 + 1) : SubSeq(list, 1, end)[i] = list[1 + i - 1]
      BY <2>2, <2>4, SubSeqProperties
    <3>2. end - 1 + 1 = end /\ \A i \in 1..end : 1 + i - 1 = i
      BY <2>2, SMT
    <3>. QED BY <2>2, <3>1, <3>2
  <2>6. \A k \in 1..end : k < end => list[k] \notin stops
    <3>. SUFFICES ASSUME NEW k \in 1..end, k < end, list[k] \in stops PROVE FALSE
      OBVIOUS
    <3>1. k \in ends
      BY <2>2
    <3>. QED BY <2>1, <2>2, <3>1
  <2>. QED BY <2>1, <2>2, <2>3, <2>5, <2>6
<1>. QED BY <1>1, <1>2

------------------------------------------------------------------------------
(* A walk: from a member x of the list, each link read, unless it is that of *)
(* a member of stops and reads as null.                                      *)

WalkFrom(list, x, stops) == UpTo(From(list, x), stops)

(* It starts at x and comes to members of the list only, to none twice.      *)
LEMMA WalkStarts ==
  ASSUME NEW S, NEW list \in Seq(S), Distinct(list), NEW stops, NEW x,
         \E n \in DOMAIN list : list[n] = x
  PROVE  /\ WalkFrom(list, x, stops) \in Seq(S) /\ Len(WalkFrom(list, x, stops)) > 0
         /\ WalkFrom(list, x, stops)[1] = x
         /\ \A k \in 1..Len(WalkFrom(list, x, stops)) :
              \E n \in DOMAIN list : list[n] = WalkFrom(list, x, stops)[k]
         /\ Distinct(WalkFrom(list, x, stops))
<1>1. PICK n \in 1..Len(list) : list[n] = x
  OBVIOUS
<1> DEFINE rest == From(list, x)
           left == WalkFrom(list, x, stops)
<1>2. /\ rest \in Seq(S) /\ Len(rest) = Len(list) - n + 1 /\ Distinct(rest)
      /\ \A k \in 1..(Len(list) - n + 1) : rest[k] = list[n + k - 1]
  BY <1>1, FromMember
<1>3. Len(rest) >= 1 /\ n \in Nat /\ Len(list) \in Nat /\ n <= Len(list)
  BY <1>2, SMT
<1>4. /\ left \in Seq(S) /\ Len(left) \in 0..Len(rest)
      /\ \A k \in 1..Len(left) : left[k] = rest[k]
      /\ Len(left) < Len(rest) => Len(left) > 0
  BY <1>2, UpToIsPrefix DEF WalkFrom
<1>. HIDE DEF rest, left
<1>5. Len(left) > 0 /\ Len(left) \in Nat
  BY <1>3, <1>4, SMT
<1>6. left[1] = x
  <2>1. 1 \in 1..Len(left) /\ 1 \in 1..(Len(list) - n + 1) /\ n + 1 - 1 = n
    BY <1>3, <1>5, SMT
  <2>. QED BY <1>1, <1>2, <1>4, <2>1
<1>7. \A k \in 1..Len(left) : \E m \in DOMAIN list : list[m] = left[k]
  <2>. SUFFICES ASSUME NEW k \in 1..Len(left) PROVE \E m \in DOMAIN list : list[m] = left[k]
    OBVIOUS
  <2>1. k \in 1..(Len(list) - n + 1) /\ n + k - 1 \in 1..Len(list)
    BY <1>2, <1>3, <1>4, SMT
  <2>2. left[k] = list[n + k - 1]
    BY <1>2, <1>4, <2>1
  <2>. QED BY <2>1, <2>2
<1>8. Distinct(left)
  <2>. SUFFICES ASSUME NEW i \in 1..Len(left), NEW j \in 1..Len(left), left[i] = left[j] PROVE i = j
    BY <1>4 DEF Distinct
  <2>1. rest[i] = rest[j] /\ i \in DOMAIN rest /\ j \in DOMAIN rest
    BY <1>2, <1>3, <1>4
  <2>. QED BY <1>2, <2>1 DEF Distinct
<1>. QED BY <1>4, <1>5, <1>6, <1>7, <1>8 DEF left

(* From each member it goes on to the next one, and from the last it ends.   *)
LEMMA WalkGoesOn ==
  ASSUME NEW S, NEW list \in Seq(S), Distinct(list), NEW stops, NEW x,
         \E n \in DOMAIN list : list[n] = x,
         NEW k \in 1..Len(WalkFrom(list, x, stops))
  PROVE  LET here == WalkFrom(list, x, stops)[k] IN
         (IF here \in stops THEN 0 ELSE NextIn(list, here))
           = IF k = Len(WalkFrom(list, x, stops)) THEN 0 ELSE WalkFrom(list, x, stops)[k + 1]
<1>1. PICK n \in 1..Len(list) : list[n] = x
  OBVIOUS
<1> DEFINE rest == From(list, x)
           left == WalkFrom(list, x, stops)
<1>2. /\ rest \in Seq(S) /\ Len(rest) = Len(list) - n + 1
      /\ \A i \in 1..(Len(list) - n + 1) : rest[i] = list[n + i - 1]
  BY <1>1, FromMember
<1>3. Len(rest) \in Nat /\ n \in Nat /\ Len(list) \in Nat /\ n <= Len(list)
  BY <1>2, SMT
<1>4. /\ left \in Seq(S) /\ Len(left) \in 0..Len(rest)
      /\ \A i \in 1..Len(left) : left[i] = rest[i]
      /\ \A i \in 1..Len(left) : i < Len(left) => rest[i] \notin stops
      /\ Len(left) < Len(rest) => rest[Len(left)] \in stops
  BY <1>2, UpToIsPrefix DEF WalkFrom
<1>5. k \in 1..Len(left)
  OBVIOUS
<1>. HIDE DEF rest, left
<1>6. /\ n + k - 1 \in 1..Len(list) /\ k \in 1..(Len(list) - n + 1)
      /\ (n + k - 1) + 1 = n + (k + 1) - 1 /\ k \in Nat /\ Len(left) \in Nat
  BY <1>2, <1>3, <1>4, <1>5, SMT
<1>7. left[k] = list[n + k - 1] /\ left[k] = rest[k]
  BY <1>2, <1>4, <1>5, <1>6
<1>8. NextIn(list, left[k]) = IF n + k - 1 = Len(list) THEN 0 ELSE list[n + k - 1 + 1]
  BY <1>6, <1>7, NextOfMember
<1>9. CASE k < Len(left)
  <2>1. k + 1 \in 1..Len(left) /\ k + 1 \in 1..(Len(list) - n + 1) /\ n + k - 1 # Len(list)
    BY <1>2, <1>3, <1>4, <1>6, <1>9, SMT
  <2>2. left[k + 1] = list[n + (k + 1) - 1]
    BY <1>2, <1>4, <2>1
  <2>3. left[k] \notin stops /\ k # Len(left)
    BY <1>4, <1>5, <1>6, <1>7, <1>9
  <2>. QED BY <1>6, <1>8, <2>1, <2>2, <2>3 DEF left
<1>10. CASE k = Len(left)
  <2>1. n + k - 1 = Len(list) \/ Len(left) < Len(rest)
    BY <1>2, <1>3, <1>4, <1>6, <1>10, SMT
  <2>2. left[k] \in stops \/ NextIn(list, left[k]) = 0
    BY <1>4, <1>7, <1>8, <1>10, <2>1
  <2>. QED BY <1>10, <2>2 DEF left
<1>. QED BY <1>5, <1>6, <1>9, <1>10

(* There is nothing to walk from an address that is not in the list.         *)
LEMMA NoWalk ==
  ASSUME NEW list, NEW stops, NEW x, ~ \E n \in DOMAIN list : list[n] = x
  PROVE  WalkFrom(list, x, stops) = <<>>
<1>1. From(list, x) = <<>>
  BY DEF From
<1>2. {i \in DOMAIN <<>> : <<>>[i] \in stops} = {}
  OBVIOUS
<1>. QED BY <1>1, <1>2 DEF WalkFrom, UpTo

(* All of a list is the walk from its first member.                          *)
LEMMA WholeWalk ==
  ASSUME NEW S, NEW list \in Seq(S), Distinct(list), list # <<>>, NEW stops
  PROVE  WalkFrom(list, list[1], stops) = UpTo(list, stops)
<1>1. 1 \in 1..Len(list)
  OBVIOUS
<1>2. (CHOOSE i \in DOMAIN list : list[i] = list[1]) = 1
  BY <1>1 DEF Distinct
<1>3. From(list, list[1]) = SubSeq(list, 1, Len(list))
  <2>1. 1 \in DOMAIN list
    BY <1>1
  <2>. QED BY <1>2, <2>1, Zenon DEF From
<1>4. SubSeq(list, 1, Len(list)) = list
  BY SubSeqFull
<1>. QED BY <1>3, <1>4 DEF WalkFrom

------------------------------------------------------------------------------
(* A loop goes along a chain if reading the link of a member gives the next  *)
(* member, and of the last null.  It has made progress if it has shown the   *)
(* lines of the first members of the chain and its cursor is on the next.    *)

Follows(chain, list, stops) ==
  \A k \in DOMAIN chain :
    (IF chain[k] \in stops THEN 0 ELSE NextIn(list, chain[k]))
      = IF k = Len(chain) THEN 0 ELSE chain[k + 1]

Progress(chain, lines, shown, cur) ==
  \E n \in 0..Len(chain) :
    shown = SubSeq(lines, 1, n) /\ cur = IF n = Len(chain) THEN 0 ELSE chain[n + 1]

(* A loop goes along what is left of a list from one of its members on.      *)
LEMMA WalkFollows ==
  ASSUME NEW S, NEW list \in Seq(S), Distinct(list), NEW stops, NEW x
  PROVE  Follows(WalkFrom(list, x, stops), list, stops)
<1>1. CASE \E n \in DOMAIN list : list[n] = x
  <2>1. DOMAIN WalkFrom(list, x, stops) = 1..Len(WalkFrom(list, x, stops))
    BY <1>1, WalkStarts
  <2>. QED BY <1>1, <2>1, WalkGoesOn DEF Follows
<1>2. CASE ~ \E n \in DOMAIN list : list[n] = x
  BY <1>2, NoWalk DEF Follows
<1>. QED BY <1>1, <1>2

(* What is left of a whole list, from its head.                              *)
LEMMA WholeChain ==
  ASSUME NEW S, NEW list \in Seq(S), Distinct(list), NEW stops
  PROVE  /\ UpTo(list, stops) \in Seq(S) /\ Follows(UpTo(list, stops), list, stops)
         /\ (IF list = <<>> THEN 0 ELSE list[1])
              = IF UpTo(list, stops) = <<>> THEN 0 ELSE UpTo(list, stops)[1]
<1>1. CASE list = <<>>
  <2>1. {i \in DOMAIN <<>> : <<>>[i] \in stops} = {}
    OBVIOUS
  <2>2. UpTo(list, stops) = <<>>
    BY <1>1, <2>1 DEF UpTo
  <2>3. UpTo(list, stops) \in Seq(S) /\ DOMAIN UpTo(list, stops) = {}
    BY <2>2
  <2>4. Follows(UpTo(list, stops), list, stops)
    BY <2>3 DEF Follows
  <2>. QED BY <1>1, <2>2, <2>3, <2>4
<1>2. CASE list # <<>>
  <2> DEFINE chain == UpTo(list, stops)
  <2>1. chain \in Seq(S) /\ chain # <<>> /\ \A k \in 1..Len(chain) : chain[k] = list[k]
    BY <1>2, UpToIsPrefix
  <2>2. Follows(chain, list, stops)
    <3>1. chain = WalkFrom(list, list[1], stops)
      BY <1>2, WholeWalk
    <3>. QED BY <3>1, WalkFollows
  <2>3. chain[1] = list[1]
    <3>. HIDE DEF chain
    <3>. QED BY <2>1
  <2>. QED BY <1>2, <2>1, <2>2, <2>3
<1>. QED BY <1>1, <1>2

(* Of a sequence, the first members and one more.                            *)
LEMMA OneMore ==
  ASSUME NEW S, NEW seq \in Seq(S), NEW n \in 0..(Len(seq) - 1)
  PROVE  Append(SubSeq(seq, 1, n), seq[n + 1]) = SubSeq(seq, 1, n + 1)
<1>1. /\ 1 \in 1..Len(seq) /\ n + 1 \in 1..Len(seq) /\ n \in Nat /\ Len(seq) \in Nat
      /\ n + 1 - 1 = n /\ 1 \in 1..(Len(seq) + 1)
  BY SMT
<1>2. SubSeq(seq, 1, n) \in Seq(S)
  BY <1>1, SMT
<1>3. SubSeq(seq, 1, n + 1) = SubSeq(seq, 1, n) \o <<seq[n + 1]>>
  <2>1. SubSeq(seq, 1, n + 1) =
          IF 1 <= n + 1 THEN SubSeq(seq, 1, n + 1 - 1) \o << seq[n + 1] >> ELSE << >>
    BY <1>1, SubSeqRecursiveSecond
  <2>. QED BY <1>1, <2>1
<1>4. seq[n + 1] \in S
  BY <1>1
<1>. QED BY <1>2, <1>3, <1>4, AppendIsConcat

(* Nothing has been shown when the cursor is on the first member.            *)
LEMMA ProgressStarts ==
  ASSUME NEW S, NEW chain \in Seq(S), NEW lines,
         NEW cur, cur = IF chain = <<>> THEN 0 ELSE chain[1]
  PROVE  Progress(chain, lines, <<>>, cur)
<1>1. SubSeq(lines, 1, 0) = <<>>
  BY SubSeqEmpty
<1>2. 0 \in 0..Len(chain) /\ (0 = Len(chain) <=> chain = <<>>)
  OBVIOUS
<1>. QED BY <1>1, <1>2 DEF Progress

(* A turn of the loop shows the line of the member the cursor is on.         *)
LEMMA ProgressGoesOn ==
  ASSUME NEW S, NEW chain \in Seq(S), NEW T, NEW lines \in Seq(T), Len(lines) = Len(chain),
         NEW list, NEW stops, Follows(chain, list, stops),
         NEW shown, NEW cur, Progress(chain, lines, shown, cur), cur # 0
  PROVE  \E k \in DOMAIN chain :
           /\ cur = chain[k]
           /\ Progress(chain, lines, Append(shown, lines[k]), IF cur \in stops THEN 0 ELSE NextIn(list, cur))
<1>1. PICK n \in 0..Len(chain) :
        shown = SubSeq(lines, 1, n) /\ cur = IF n = Len(chain) THEN 0 ELSE chain[n + 1]
  BY DEF Progress
<1>2. n \in 0..(Len(chain) - 1) /\ n + 1 \in DOMAIN chain /\ cur = chain[n + 1] /\ n + 1 \in 0..Len(chain)
  BY <1>1
<1>3. Append(shown, lines[n + 1]) = SubSeq(lines, 1, n + 1)
  BY <1>1, <1>2, OneMore
<1>4. (IF cur \in stops THEN 0 ELSE NextIn(list, cur)) = IF n + 1 = Len(chain) THEN 0 ELSE chain[n + 1 + 1]
  BY <1>2 DEF Follows
<1>. QED BY <1>2, <1>3, <1>4 DEF Progress

(* All lines have been shown when the cursor is null.                        *)
LEMMA ProgressEnds ==
  ASSUME NEW S, NEW chain \in Seq(S), NEW T, NEW lines \in Seq(T), Len(lines) = Len(chain),
         \A k \in DOMAIN chain : chain[k] # 0,
         NEW shown, Progress(chain, lines, shown, 0)
  PROVE  shown = lines
<1>1. PICK n \in 0..Len(chain) :
        shown = SubSeq(lines, 1, n) /\ 0 = IF n = Len(chain) THEN 0 ELSE chain[n + 1]
  BY DEF Progress
<1>2. n = Len(lines)
  BY <1>1
<1>. QED BY <1>1, <1>2, SubSeqFull

------------------------------------------------------------------------------
(* Sequences in ascending order. *)

(* What lists each member of a set of numbers in ascending order counts them.*)
LEMMA CountAscending ==
  ASSUME NEW S \in SUBSET Nat, NEW n \in Nat, NEW f \in [1..n -> S],
         \A j, k \in 1..n : j < k => f[j] < f[k],
         \A i \in S : \E k \in 1..n : f[k] = i
  PROVE  Cardinality(S) = n
<1>1. \A j, k \in 1..n : f[j] = f[k] => j = k
  <2>1. SUFFICES ASSUME NEW j \in 1..n, NEW k \in 1..n, f[j] = f[k], j # k
        PROVE  FALSE
    OBVIOUS
  <2>2. j < k \/ k < j
    BY <2>1
  <2>3. f[j] \in Nat /\ f[k] \in Nat
    OBVIOUS
  <2>. QED BY <2>1, <2>2, <2>3
<1>2. f \in Bijection(1..n, S)
  BY <1>1 DEF Bijection, Injection, IsInjective, Surjection
<1>. QED BY <1>2, FS_CountingElements DEF ExistsBijection

(* Such a sequence is the one and only Ascending gives.                      *)
LEMMA AscendingIs ==
  ASSUME NEW S \in SUBSET Nat, NEW n \in Nat, NEW f \in [1..n -> S],
         \A j, k \in 1..n : j < k => f[j] < f[k],
         \A i \in S : \E k \in 1..n : f[k] = i
  PROVE  Ascending(S) = f
<1>1. Cardinality(S) = n
  BY CountAscending
<1>2. ASSUME NEW k \in 1..n
      PROVE  Cardinality({h \in S : h < f[k]}) = k - 1
  <2> DEFINE below == {h \in S : h < f[k]}
             g == [j \in 1..(k - 1) |-> f[j]]
  <2>1. k - 1 \in Nat /\ \A j \in 1..(k - 1) : j \in 1..n /\ j < k
    OBVIOUS
  <2>2. \A j \in 1..n : f[j] < f[k] => j \in 1..(k - 1)
    <3>1. SUFFICES ASSUME NEW j \in 1..n, f[j] < f[k], ~(j < k) PROVE FALSE
      OBVIOUS
    <3>2. f[j] \in Nat /\ f[k] \in Nat
      OBVIOUS
    <3>3. j = k \/ k < j
      BY <3>1
    <3>. QED BY <3>1, <3>2, <3>3
  <2>3. g \in [1..(k - 1) -> below] /\ below \in SUBSET Nat
    BY <2>1
  <2>4. \A i, j \in 1..(k - 1) : i < j => g[i] < g[j]
    BY <2>1
  <2>5. \A i \in below : \E j \in 1..(k - 1) : g[j] = i
    <3>1. SUFFICES ASSUME NEW i \in below PROVE \E j \in 1..(k - 1) : g[j] = i
      OBVIOUS
    <3>2. PICK j \in 1..n : f[j] = i
      OBVIOUS
    <3>3. j \in 1..(k - 1)
      BY <2>2, <3>2
    <3>. QED BY <3>2, <3>3
  <2>. HIDE DEF below, g
  <2>6. Cardinality(below) = k - 1
    BY <2>1, <2>3, <2>4, <2>5, CountAscending
  <2>. QED BY <2>6 DEF below
<1>3. ASSUME NEW k \in 1..n
      PROVE  (CHOOSE i \in S : Cardinality({h \in S : h < i}) = k - 1) = f[k]
  <2>1. f[k] \in S /\ Cardinality({h \in S : h < f[k]}) = k - 1
    BY <1>2
  <2>2. ASSUME NEW i \in S, Cardinality({h \in S : h < i}) = k - 1
        PROVE  i = f[k]
    <3>1. PICK j \in 1..n : f[j] = i
      OBVIOUS
    <3>2. Cardinality({h \in S : h < i}) = j - 1
      BY <1>2, <3>1
    <3>3. j = k
      BY <2>2, <3>2
    <3>. QED BY <3>1, <3>3
  <2>. QED BY <2>1, <2>2
<1>. QED BY <1>1, <1>3 DEF Ascending

------------------------------------------------------------------------------
(* Trees.  Every part of D has a member that nothing in the part leads to.   *)
Begun(D, succ) == \A S \in SUBSET D : S # {} => \E n \in S : \A m \in S : n \notin succ[m]

(* Every part of D has a member that leads to nothing in the part.           *)
Ended(D, succ) == \A S \in SUBSET D : S # {} => \E n \in S : \A m \in S : m \notin succ[n]

(* C has, with a part of D, also the part with one member more, as soon as   *)
(* the part has what that member leads to.                                   *)
Grows(D, succ, C) ==
  \A X \in SUBSET D : X \in C =>
    \A n \in D \ X : (\A m \in D : m \in succ[n] => m \in X) => X \cup {n} \in C

(* In a finite set, what is begun is ended.                                  *)
LEMMA LeavesExist ==
  ASSUME NEW D, IsFiniteSet(D), NEW succ, Begun(D, succ)
  PROVE  Ended(D, succ)
<1> USE DEF Begun, Ended
<1> DEFINE Bad(S) == S # {} /\ \A n \in S : \E m \in S : m \in succ[n]
           T == {k \in Nat : \E S \in SUBSET D : Bad(S) /\ Cardinality(S) = k}
<1>1. SUFFICES ASSUME NEW S0 \in SUBSET D, Bad(S0) PROVE FALSE
  OBVIOUS
<1>2. \A S \in SUBSET D : IsFiniteSet(S) /\ Cardinality(S) \in Nat
  BY FS_Subset, FS_CardinalityType
<1>3. T # {} /\ T \in SUBSET Nat
  BY <1>1, <1>2
<1>4. PICK k \in T : \A l \in T : k <= l
  BY <1>3, LeastExists
<1>5. PICK S \in SUBSET D : Bad(S) /\ Cardinality(S) = k
  BY <1>4
<1>6. PICK n \in S : \A m \in S : n \notin succ[m]
  BY <1>5
<1>7. Bad(S \ {n}) /\ S \ {n} \in SUBSET D
  BY <1>5, <1>6
<1>8. Cardinality(S \ {n}) = k - 1
  BY <1>2, <1>5, <1>6, FS_RemoveElement
<1>9. k - 1 \in T
  <2>1. Cardinality(S \ {n}) \in Nat
    BY <1>2, <1>7
  <2>. QED BY <1>7, <1>8, <2>1
<1>. QED BY <1>4, <1>9

(* What grows from the empty set reaches all of D.                           *)
LEMMA LeavesFirst ==
  ASSUME NEW D, IsFiniteSet(D), NEW succ, Begun(D, succ), NEW C, {} \in C, Grows(D, succ, C)
  PROVE  D \in C
<1> USE DEF Grows
<1> DEFINE T == {k \in Nat : \E X \in SUBSET D : X \in C /\ Cardinality(D \ X) = k}
<1>1. \A X \in SUBSET D : IsFiniteSet(D \ X) /\ Cardinality(D \ X) \in Nat
  BY FS_Subset, FS_CardinalityType
<1>2. T # {} /\ T \in SUBSET Nat
  <2>1. {} \in SUBSET D
    OBVIOUS
  <2>. QED BY <1>1, <2>1
<1>3. PICK k \in T : \A l \in T : k <= l
  BY <1>2, LeastExists
<1>4. PICK X \in SUBSET D : X \in C /\ Cardinality(D \ X) = k
  BY <1>3
<1>5. SUFFICES ASSUME D \ X # {} PROVE FALSE
  <2>1. CASE D \ X # {}
    BY <1>5, <2>1
  <2>2. CASE D \ X = {}
    <3>1. X = D
      BY <2>2
    <3>. QED BY <1>4, <3>1
  <2>. QED BY <2>1, <2>2
<1>6. PICK n \in D \ X : \A m \in D \ X : m \notin succ[n]
  <2>1. Ended(D, succ)
    BY LeavesExist
  <2>. QED BY <1>5, <2>1 DEF Ended
<1>7. X \cup {n} \in C /\ X \cup {n} \in SUBSET D
  BY <1>4, <1>6
<1>8. Cardinality(D \ (X \cup {n})) = k - 1
  <2>1. D \ (X \cup {n}) = (D \ X) \ {n}
    BY Zenon
  <2>2. IsFiniteSet(D \ X) /\ n \in D \ X
    BY <1>1, <1>6
  <2>3. Cardinality((D \ X) \ {n}) = Cardinality(D \ X) - 1
    BY <2>2, FS_RemoveElement
  <2>. QED BY <1>4, <2>1, <2>3
<1>9. k - 1 \in T
  <2>1. Cardinality(D \ (X \cup {n})) \in Nat
    BY <1>1, <1>7
  <2>. QED BY <1>7, <1>8, <2>1
<1> HIDE DEF T
<1>10. k \in Nat /\ ~(k <= k - 1)
  BY <1>2, <1>3
<1>. QED BY <1>3, <1>9, <1>10

------------------------------------------------------------------------------
(* Concatenation. *)

(* Three sequences in a row, grouped from the left and from the right.      *)
Associated(a, b, c) == (a \o b) \o c = a \o (b \o c)

(* It does not matter which.                                                 *)
LEMMA AssociatedAlways ==
  ASSUME NEW S, NEW a \in Seq(S), NEW b \in Seq(S), NEW c \in Seq(S)
  PROVE  Associated(a, b, c)
BY ConcatAssociative DEF Associated

(* Four sequences in a row, grouped from the left and from the right.       *)
Regrouped(a, b, c, d) == ((a \o b) \o c) \o d = a \o (b \o (c \o d))

(* Nor does it there.                                                        *)
LEMMA RegroupedAlways ==
  ASSUME NEW S, NEW a \in Seq(S), NEW b \in Seq(S), NEW c \in Seq(S), NEW d \in Seq(S)
  PROVE  Regrouped(a, b, c, d)
<1>1. a \o b \in Seq(S) /\ c \o d \in Seq(S)
  OBVIOUS
<1>2. Associated(a \o b, c, d) /\ Associated(a, b, c \o d)
  BY <1>1, AssociatedAlways
<1> QED
  BY <1>2, Zenon DEF Associated, Regrouped

==============================================================================
