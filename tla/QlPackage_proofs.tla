-------------------------- MODULE QlPackage_proofs --------------------------
(***************************************************************************)
(* Proofs about the import of packages and the layout of a cartridge, for  *)
(* any archives, any cartridge and any sizes.  First lemmas about lists,   *)
(* about the checks and about the blocks of the units; then the inductive  *)
(* invariant of the loops over the sectors, one lemma per action.          *)
(***************************************************************************)
EXTENDS QlPackage, SequenceTheorems, WellFoundedInduction, TLAPS

----------------------------------------------------------------------------
(* Lists.                                                                  *)

\* A list is a sequence of what it holds.
LEMMA ListIsSequence ==
    ASSUME NEW s, IsList(s)
    PROVE  s \in Seq({s[i] : i \in 1 .. Len(s)})
<1> DEFINE S == {s[i] : i \in 1 .. Len(s)}
<1>1. Len(s) \in Nat /\ s = [i \in 1 .. Len(s) |-> s[i]]
  BY DEF IsList
<1>2. s \in [1 .. Len(s) -> S]
  BY <1>1
<1> QED
  BY <1>1, <1>2, SeqDef

LEMMA SequenceIsList ==
    ASSUME NEW S, NEW s \in Seq(S)
    PROVE  IsList(s)
<1>1. Len(s) \in Nat /\ s \in [1 .. Len(s) -> S]
  BY LenProperties
<1> QED
  BY <1>1 DEF IsList

LEMMA EmptyHoldsLists == HoldsLists(<<>>)
<1>1. <<>> \in Seq({}) /\ Len(<<>>) = 0
  BY EmptySeq
<1>2. IsList(<<>>)
  BY <1>1, SequenceIsList
<1>3. \A i \in 1 .. 0 : FALSE
  OBVIOUS
<1> QED
  BY <1>1, <1>2, <1>3 DEF HoldsLists

\* A list of pieces with their content, one longer.
LEMMA AppendHoldsLists ==
    ASSUME NEW s, NEW e, HoldsLists(s), IsList(e.bytes)
    PROVE  HoldsLists(Append(s, e))
<1> DEFINE S == {s[i] : i \in 1 .. Len(s)}
           T == S \cup {e}
<1>1. s \in Seq(S) /\ \A i \in 1 .. Len(s) : IsList(s[i].bytes)
  BY ListIsSequence DEF HoldsLists
<1> HIDE DEF S
<1>2. s \in Seq(T) /\ e \in T
  BY <1>1, SeqMonotonic
<1> HIDE DEF T
<1>3. /\ Append(s, e) \in Seq(T)
      /\ Len(s) \in Nat /\ Len(Append(s, e)) = Len(s) + 1
      /\ \A i \in 1 .. Len(s) : Append(s, e)[i] = s[i]
      /\ Append(s, e)[Len(s) + 1] = e
  BY <1>2, AppendProperties, LenProperties
<1>4. IsList(Append(s, e))
  BY <1>3, SequenceIsList
<1>5. ASSUME NEW i \in 1 .. Len(Append(s, e))
      PROVE  IsList(Append(s, e)[i].bytes)
  <2>1. CASE i = Len(s) + 1
    BY <1>3, <2>1, Zenon
  <2>2. CASE i # Len(s) + 1
    <3>1. i \in 1 .. Len(s)
      BY <1>3, <2>2
    <3> QED BY <1>1, <1>3, <3>1, Zenon
  <2> QED BY <2>1, <2>2
<1> QED
  BY <1>4, <1>5 DEF HoldsLists

\* What is laid out in front of a list makes it longer.
LEMMA PrefixedLength ==
    ASSUME NEW e, NEW s, IsList(s)
    PROVE  Len(<<e>> \o s) = Len(s) + 1 /\ Len(s) \in Nat
<1> DEFINE S == {s[i] : i \in 1 .. Len(s)}
           T == S \cup {e}
<1>1. s \in Seq(S)
  BY ListIsSequence
<1> HIDE DEF S
<1>2. s \in Seq(T) /\ e \in T
  BY <1>1, SeqMonotonic
<1> HIDE DEF T
<1>3. <<e>> \in Seq(T) /\ Len(<<e>>) = 1
  BY <1>2
<1>4. Len(<<e>> \o s) = Len(<<e>>) + Len(s) /\ Len(s) \in Nat
  BY <1>2, <1>3, ConcatProperties, LenProperties
<1> QED
  BY <1>3, <1>4
----------------------------------------------------------------------------
(* Checks and blocks.                                                      *)

\* An argument about the least counterexample.
LEMMA LeastElement ==
    ASSUME NEW S, S \subseteq Nat, S # {}
    PROVE  \E m \in S : \A k \in S : m <= k
<1> DEFINE R == OpToRel(<, Nat)
<1>1. IsWellFoundedOn(R, Nat)
  BY NatLessThanWellFounded
<1>2. \A k, m \in Nat : k < m => <<k, m>> \in R
  BY DEF OpToRel
<1> HIDE DEF R
<1>3. PICK m \in S : \A k \in S : ~(<<k, m>> \in R)
  BY <1>1, WFMin, Zenon
<1>4. ASSUME NEW k \in S
      PROVE  m <= k
  <2>1. ~(k < m)
    BY <1>2, <1>3, Zenon
  <2> QED BY <2>1
<1> QED
  BY <1>4

\* Where nothing is refused no check was met.
LEMMA NothingRefused ==
    ASSUME NEW checks, DOMAIN checks \subseteq Nat,
           \A i \in DOMAIN checks : checks[i][2] # "none",
           FirstRefusal(checks) = "none"
    PROVE  \A i \in DOMAIN checks : ~checks[i][1]
<1> DEFINE met == {i \in DOMAIN checks : checks[i][1]}
<1>1. SUFFICES ASSUME met # {} PROVE FALSE
  BY Zenon
<1>2. checks[Min(met)][2] = "none"
  BY <1>1, Zenon DEF FirstRefusal
<1>3. met \subseteq Nat /\ met \subseteq DOMAIN checks
  BY Zenon
<1> HIDE DEF met
<1>4. \E m \in met : \A k \in met : m <= k
  BY <1>1, <1>3, LeastElement
<1>5. Min(met) \in met
  BY <1>4, Zenon DEF Min
<1> QED
  BY <1>2, <1>3, <1>5, Zenon

\* What holds at least one cell takes at least one block.
LEMMA BlocksArePositive ==
    ASSUME NEW unit, Len(unit) \in Nat \ {0}
    PROVE  BlockCount(unit) \in Nat \ {0}
<1> DEFINE cells == Len(unit) + DataSize - 1
<1>1. cells \in Nat /\ DataSize \in Nat \ {0} /\ DataSize <= cells
  BY QlPackageAssumption
<1> HIDE DEF cells
<1>2. cells \div DataSize \in Nat
  BY <1>1
<1>3. cells \div DataSize # 0
  BY <1>1
<1> QED
  BY <1>2, <1>3 DEF BlockCount, cells

\* Every unit takes at least one block: the directory counts itself, and a file
\* has its header.
LEMMA UnitsTakeBlocks ==
    ASSUME NEW theFiles, HoldsLists(theFiles), NEW n \in 0 .. Len(theFiles)
    PROVE  BlockCount(Unit(theFiles, n)) \in Nat \ {0}
<1>1. IsList(theFiles) /\ Len(theFiles) \in Nat
  BY DEF HoldsLists, IsList
<1>2. CASE n = 0
  <2> DEFINE headers == [i \in DOMAIN theFiles |-> Header(theFiles[i])]
  <2>1. DOMAIN theFiles = 1 .. Len(theFiles)
    BY <1>1 DEF IsList
  <2>2. headers \in [1 .. Len(theFiles) -> {Header(theFiles[i]) : i \in 1 .. Len(theFiles)}]
    BY <2>1
  <2>3. headers \in Seq({Header(theFiles[i]) : i \in 1 .. Len(theFiles)})
    BY <1>1, <2>2, SeqDef
  <2> HIDE DEF headers
  <2>4. IsList(headers)
    BY <2>3, SequenceIsList
  <2>5. Len(<<<<"length", Len(theFiles) + 1>>>> \o headers) \in Nat \ {0}
    BY <2>4, PrefixedLength
  <2>6. Unit(theFiles, n) = <<<<"length", Len(theFiles) + 1>>>> \o headers
    BY <1>2 DEF Unit, Directory, headers
  <2> QED BY <2>5, <2>6, BlocksArePositive
<1>3. CASE n # 0
  <2>1. n \in 1 .. Len(theFiles)
    BY <1>1, <1>3
  <2>2. IsList(theFiles[n].bytes)
    BY <2>1 DEF HoldsLists
  <2>3. Len(<<Header(theFiles[n])>> \o theFiles[n].bytes) \in Nat \ {0}
    BY <2>2, PrefixedLength
  <2>4. Unit(theFiles, n) = <<Header(theFiles[n])>> \o theFiles[n].bytes
    BY <1>3 DEF Unit
  <2> QED BY <2>3, <2>4, BlocksArePositive
<1> QED
  BY <1>2, <1>3

\* A function adds up the blocks of the units up to n.
AddsUp(f, theFiles, n) ==
    f = [k \in 0 .. n |-> BlockCount(Unit(theFiles, k)) + (IF k = 0 THEN 0 ELSE f[k - 1])]

LEMMA AddsUpExists ==
    ASSUME NEW theFiles, NEW n \in Nat
    PROVE  \E f : AddsUp(f, theFiles, n)
<1> DEFINE S == {m \in Nat : ~ \E f : AddsUp(f, theFiles, m)}
<1>1. SUFFICES ASSUME S # {} PROVE FALSE
  OBVIOUS
<1>2. PICK m \in S : \A k \in S : m <= k
  <2>1. S \subseteq Nat
    OBVIOUS
  <2> HIDE DEF S
  <2> QED BY <1>1, <2>1, LeastElement
<1>3. m # 0
  <2>1. SUFFICES ASSUME m = 0 PROVE FALSE
    OBVIOUS
  <2> DEFINE f == [k \in 0 .. 0 |-> BlockCount(Unit(theFiles, k)) + 0]
  <2>2. AddsUp(f, theFiles, 0)
    BY DEF AddsUp
  <2> QED BY <2>1, <2>2
<1>4. m - 1 \in Nat /\ ~(m - 1 \in S)
  BY <1>2, <1>3
<1>5. PICK f : AddsUp(f, theFiles, m - 1)
  BY <1>4
<1> DEFINE g == [k \in 0 .. m |-> IF k = m THEN BlockCount(Unit(theFiles, k)) + f[m - 1] ELSE f[k]]
<1>6. AddsUp(g, theFiles, m)
  <2>1. ASSUME NEW k \in 0 .. m
        PROVE  g[k] = BlockCount(Unit(theFiles, k)) + (IF k = 0 THEN 0 ELSE g[k - 1])
    BY <1>3, <1>4, <1>5 DEF AddsUp
  <2>2. g = [k \in 0 .. m |-> g[k]]
    OBVIOUS
  <2> HIDE DEF g
  <2> QED BY <2>1, <2>2 DEF AddsUp
<1> QED
  BY <1>2, <1>6

\* The blocks up to a unit are its own and those before it.
LEMMA BlocksUpToAddsUp ==
    ASSUME NEW theFiles, HoldsLists(theFiles)
    PROVE  /\ BlocksUpTo(theFiles)[0] = BlockCount(Unit(theFiles, 0))
           /\ \A n \in 1 .. Len(theFiles) :
                  BlocksUpTo(theFiles)[n] =
                      BlockCount(Unit(theFiles, n)) + BlocksUpTo(theFiles)[n - 1]
           /\ \A n \in 0 .. Len(theFiles) : BlocksUpTo(theFiles)[n] \in Nat
<1> DEFINE f == BlocksUpTo(theFiles)
           count(n) == BlockCount(Unit(theFiles, n))
<1>1. Len(theFiles) \in Nat
  BY DEF HoldsLists, IsList
<1>2. AddsUp(f, theFiles, Len(theFiles))
  <2>1. f = CHOOSE h : AddsUp(h, theFiles, Len(theFiles))
    BY DEF BlocksUpTo, AddsUp
  <2> QED BY <1>1, <2>1, AddsUpExists, Zenon
<1>3. \A n \in 0 .. Len(theFiles) : count(n) \in Nat
  BY UnitsTakeBlocks
<1> HIDE DEF f
<1>4. \A n \in 0 .. Len(theFiles) : f[n] = count(n) + (IF n = 0 THEN 0 ELSE f[n - 1])
  <2>1. f = [n \in 0 .. Len(theFiles) |-> count(n) + (IF n = 0 THEN 0 ELSE f[n - 1])]
    BY <1>2 DEF AddsUp
  <2> HIDE DEF count
  <2> QED BY <2>1
<1> HIDE DEF count
<1>5. f[0] = count(0) /\ \A n \in 1 .. Len(theFiles) : f[n] = count(n) + f[n - 1]
  BY <1>1, <1>3, <1>4
<1>6. \A n \in 0 .. Len(theFiles) : f[n] \in Nat
  <2> DEFINE S == {n \in 0 .. Len(theFiles) : f[n] \notin Nat}
  <2>1. SUFFICES ASSUME S # {} PROVE FALSE
    OBVIOUS
  <2>2. PICK m \in S : \A k \in S : m <= k
    <3>1. S \subseteq Nat
      OBVIOUS
    <3> HIDE DEF S
    <3> QED BY <2>1, <3>1, LeastElement
  <2>3. m # 0 /\ m - 1 \in 0 .. Len(theFiles) /\ ~(m - 1 \in S)
    BY <1>1, <1>3, <1>5, <2>2
  <2>4. f[m - 1] \in Nat /\ f[m] = count(m) + f[m - 1] /\ count(m) \in Nat
    BY <1>1, <1>3, <1>5, <2>2, <2>3
  <2> QED BY <2>2, <2>4
<1> QED
  BY <1>5, <1>6 DEF f, count

\* No unit needs more sectors than were counted for all of them.
LEMMA BlocksUpToGrows ==
    ASSUME NEW theFiles, HoldsLists(theFiles), NEW n \in 0 .. Len(theFiles)
    PROVE  BlocksUpTo(theFiles)[n] <= BlocksUpTo(theFiles)[Len(theFiles)]
<1> DEFINE f == BlocksUpTo(theFiles)
           count(k) == BlockCount(Unit(theFiles, k))
           S == {k \in n .. Len(theFiles) : ~(f[n] <= f[k])}
<1>1. Len(theFiles) \in Nat
  BY DEF HoldsLists, IsList
<1>2. /\ \A k \in 1 .. Len(theFiles) : f[k] = count(k) + f[k - 1]
      /\ \A k \in 0 .. Len(theFiles) : f[k] \in Nat /\ count(k) \in Nat
  BY BlocksUpToAddsUp, UnitsTakeBlocks
<1> HIDE DEF f, count
<1>3. SUFFICES ASSUME S # {} PROVE FALSE
  <2>1. ~(Len(theFiles) \in S)
    BY <1>3
  <2> QED BY <1>1, <2>1 DEF f
<1>4. PICK m \in S : \A k \in S : m <= k
  <2>1. S \subseteq Nat
    BY <1>1
  <2> HIDE DEF S
  <2> QED BY <1>3, <2>1, LeastElement
<1>5. m # n /\ m - 1 \in n .. Len(theFiles) /\ ~(m - 1 \in S)
  BY <1>1, <1>2, <1>4
<1>6. f[n] <= f[m - 1] /\ f[m] = count(m) + f[m - 1] /\ f[n] \in Nat /\ f[m - 1] \in Nat /\ count(m) \in Nat
  BY <1>1, <1>2, <1>4, <1>5
<1> QED
  BY <1>4, <1>6
----------------------------------------------------------------------------
(* What is carried from the archive to the files keeps its content.        *)

\* A function collects the accessible entries up to n.
Collects(f, theEntries, n) ==
    f = [k \in 0 .. n |-> IF k = 0 THEN <<>>
                          ELSE IF Accessible(theEntries[k]) THEN Append(f[k - 1], theEntries[k])
                          ELSE f[k - 1]]

LEMMA CollectsExists ==
    ASSUME NEW theEntries, NEW n \in Nat
    PROVE  \E f : Collects(f, theEntries, n)
<1> DEFINE S == {m \in Nat : ~ \E f : Collects(f, theEntries, m)}
<1>1. SUFFICES ASSUME S # {} PROVE FALSE
  OBVIOUS
<1>2. PICK m \in S : \A k \in S : m <= k
  <2>1. S \subseteq Nat
    OBVIOUS
  <2> HIDE DEF S
  <2> QED BY <1>1, <2>1, LeastElement
<1>3. m # 0
  <2>1. SUFFICES ASSUME m = 0 PROVE FALSE
    OBVIOUS
  <2> DEFINE f == [k \in 0 .. 0 |-> <<>>]
  <2>2. Collects(f, theEntries, 0)
    BY DEF Collects
  <2> QED BY <2>1, <2>2
<1>4. m - 1 \in Nat /\ ~(m - 1 \in S)
  BY <1>2, <1>3
<1>5. PICK f : Collects(f, theEntries, m - 1)
  BY <1>4
<1> DEFINE collected(h, k) == IF Accessible(theEntries[k])
                              THEN Append(h[k - 1], theEntries[k]) ELSE h[k - 1]
           g == [k \in 0 .. m |-> IF k = m THEN collected(f, m) ELSE f[k]]
<1>6. Collects(g, theEntries, m)
  <2>1. \A k \in 0 .. m - 1 : f[k] = IF k = 0 THEN <<>> ELSE collected(f, k)
    BY <1>5 DEF Collects
  <2>2. ASSUME NEW k \in 0 .. m
        PROVE  g[k] = IF k = 0 THEN <<>> ELSE collected(g, k)
    <3>1. CASE k = m
      BY <1>3, <1>4, <3>1
    <3>2. CASE k # m
      <4>1. k \in 0 .. m - 1 /\ g[k] = f[k]
        BY <1>4, <3>2
      <4>2. k # 0 => g[k - 1] = f[k - 1]
        BY <1>4, <4>1
      <4> QED BY <2>1, <4>1, <4>2
    <3> QED BY <3>1, <3>2
  <2>3. g = [k \in 0 .. m |-> g[k]]
    OBVIOUS
  <2> HIDE DEF g
  <2> QED BY <2>2, <2>3 DEF Collects
<1> QED
  BY <1>2, <1>6

\* The files of the package are entries with their content.
LEMMA PackageFilesHoldLists ==
    ASSUME HoldsLists(entries)
    PROVE  HoldsLists(PackageFiles)
<1> DEFINE f == CHOOSE h : Collects(h, entries, Len(entries))
<1>1. Len(entries) \in Nat /\ \A i \in 1 .. Len(entries) : IsList(entries[i].bytes)
  BY DEF HoldsLists, IsList
<1>2. PackageFiles = f[Len(entries)]
  BY DEF PackageFiles, Collects
<1>3. Collects(f, entries, Len(entries))
  BY <1>1, CollectsExists, Zenon
<1> HIDE DEF f
<1> DEFINE collected(n) == IF Accessible(entries[n]) THEN Append(f[n - 1], entries[n])
                           ELSE f[n - 1]
<1>4. \A n \in 0 .. Len(entries) : f[n] = IF n = 0 THEN <<>> ELSE collected(n)
  <2>1. f = [n \in 0 .. Len(entries) |-> IF n = 0 THEN <<>> ELSE collected(n)]
    BY <1>3, Zenon DEF Collects
  <2> HIDE DEF collected
  <2> QED BY <2>1
<1>5. /\ f[0] = <<>>
      /\ \A n \in 1 .. Len(entries) :
             f[n] = IF Accessible(entries[n]) THEN Append(f[n - 1], entries[n]) ELSE f[n - 1]
  <2>1. f[0] = <<>>
    <3> HIDE DEF collected
    <3>1. 0 \in 0 .. Len(entries)
      BY <1>1
    <3> QED BY <1>4, <3>1
  <2>2. ASSUME NEW n \in 1 .. Len(entries)
        PROVE  f[n] = collected(n)
    <3> HIDE DEF collected
    <3>1. n \in 0 .. Len(entries) /\ n # 0
      BY <1>1
    <3> QED BY <1>4, <3>1
  <2> QED BY <2>1, <2>2
<1> DEFINE S == {n \in 0 .. Len(entries) : ~HoldsLists(f[n])}
<1>6. SUFFICES ASSUME S # {} PROVE FALSE
  <2>1. HoldsLists(f[Len(entries)])
    BY <1>1, <1>6
  <2> QED BY <1>2, <2>1
<1>7. PICK m \in S : \A k \in S : m <= k
  <2>1. S \subseteq Nat
    OBVIOUS
  <2> HIDE DEF S
  <2> QED BY <1>6, <2>1, LeastElement
<1>8. m # 0
  BY <1>5, <1>7, EmptyHoldsLists
<1>9. m \in 1 .. Len(entries) /\ m - 1 \in 0 .. Len(entries) /\ ~(m - 1 \in S)
  BY <1>1, <1>7, <1>8
<1>10. HoldsLists(f[m - 1]) /\ IsList(entries[m].bytes)
  BY <1>1, <1>9
<1>11. HoldsLists(f[m])
  <2>1. CASE Accessible(entries[m])
    <3>1. HoldsLists(Append(f[m - 1], entries[m]))
      BY <1>10, AppendHoldsLists
    <3> QED BY <1>5, <1>9, <2>1, <3>1
  <2>2. CASE ~Accessible(entries[m])
    BY <1>5, <1>9, <1>10, <2>2
  <2> QED BY <2>1, <2>2
<1> QED
  BY <1>7, <1>11

\* A converted file has as many bytes as its entry.
LEMMA ConvertedHoldsLists ==
    ASSUME NEW theEntries, HoldsLists(theEntries)
    PROVE  HoldsLists([i \in DOMAIN theEntries |-> Converted(theEntries[i])])
<1> DEFINE converted == [i \in DOMAIN theEntries |-> Converted(theEntries[i])]
<1>1. /\ Len(theEntries) \in Nat /\ DOMAIN theEntries = 1 .. Len(theEntries)
      /\ \A i \in 1 .. Len(theEntries) : IsList(theEntries[i].bytes)
  BY DEF HoldsLists, IsList
<1>2. converted \in [1 .. Len(theEntries) -> {Converted(theEntries[i]) : i \in 1 .. Len(theEntries)}]
  BY <1>1
<1>3. converted \in Seq({Converted(theEntries[i]) : i \in 1 .. Len(theEntries)})
  BY <1>1, <1>2, SeqDef
<1>4. Len(converted) = Len(theEntries)
  <2>1. DOMAIN converted = 1 .. Len(converted) /\ Len(converted) \in Nat
    BY <1>3, LenProperties
  <2>2. DOMAIN converted = 1 .. Len(theEntries)
    BY <1>1
  <2> HIDE DEF converted
  <2>3. \A k \in Int : k \in 1 .. Len(converted) <=> k \in 1 .. Len(theEntries)
    BY <2>1, <2>2
  <2>4. ~(Len(converted) < Len(theEntries))
    BY <1>1, <2>1, <2>3
  <2>5. ~(Len(theEntries) < Len(converted))
    BY <1>1, <2>1, <2>3
  <2>6. Len(theEntries) \in Nat /\ Len(converted) \in Nat
    BY <1>1, <2>1
  <2>7. \A a, b \in Nat : ~(a < b) /\ ~(b < a) => a = b
    OBVIOUS
  <2> QED BY <2>4, <2>5, <2>6, <2>7, Zenon
<1>5. ASSUME NEW bytes, IsList(bytes), NEW device
      PROVE  IsList(RewriteBootDevice(bytes, device))
  <2> DEFINE rewritten(i) ==
                 IF bytes[i][1] = "device" /\ LowerCase[bytes[i][2]] = device /\ bytes[i][3] = 1
                 THEN <<"device", "mdv", microdrive>>
                 ELSE bytes[i]
             all == [i \in DOMAIN bytes |-> rewritten(i)]
  <2>1. RewriteBootDevice(bytes, device) = bytes \/ RewriteBootDevice(bytes, device) = all
    BY Zenon DEF RewriteBootDevice
  <2>2. IsList(all)
    <3>1. Len(bytes) \in Nat /\ DOMAIN bytes = 1 .. Len(bytes)
      BY <1>5 DEF IsList
    <3> HIDE DEF rewritten
    <3>2. all \in [1 .. Len(bytes) -> {rewritten(i) : i \in 1 .. Len(bytes)}]
      BY <3>1
    <3>3. all \in Seq({rewritten(i) : i \in 1 .. Len(bytes)})
      BY <3>1, <3>2, SeqDef
    <3> QED BY <3>3, SequenceIsList
  <2> HIDE DEF all
  <2> QED BY <1>5, <2>1, <2>2, Zenon
<1>6. ASSUME NEW i \in 1 .. Len(theEntries)
      PROVE  IsList(converted[i].bytes)
  <2>1. IsList(theEntries[i].bytes)
    BY <1>1
  <2>2. \/ Converted(theEntries[i]).bytes = theEntries[i].bytes
        \/ \E device : Converted(theEntries[i]).bytes = RewriteBootDevice(theEntries[i].bytes, device)
    BY DEF Converted
  <2>3. IsList(Converted(theEntries[i]).bytes)
    BY <1>5, <2>1, <2>2, Zenon
  <2>4. converted[i] = Converted(theEntries[i])
    BY <1>1
  <2> HIDE DEF converted
  <2> QED BY <2>3, <2>4
<1> HIDE DEF converted
<1>7. IsList(converted)
  BY <1>3, SequenceIsList
<1> QED
  BY <1>4, <1>6, <1>7 DEF HoldsLists, converted
----------------------------------------------------------------------------
(* The inductive invariant.                                                *)

\* Everything that holds content holds it as a list.
Content ==
    /\ HoldsLists(archive.entries) /\ HoldsLists(metadata)
    /\ HoldsLists(entries) /\ HoldsLists(files)
    /\ next \in Nat \ {0}

Building == phase \in {"allocate", "done"}

Count(n)  == BlockCount(Unit(files, n))
Before(n) == IF n = 0 THEN 0 ELSE BlocksUpTo(files)[n - 1]

\* Until the checks have passed nothing is laid out.
Untouched == ~Building => BuilderInit

\* What the checks have shown.
Checked == Building => Len(files) <= MaxFiles /\ RequiredSectors <= LastSector - 1

\* The sector follows from the unit and the block that come next.
InOrder ==
    Building =>
        /\ fileNumber \in 0 .. Len(files) + 1 /\ block \in Nat
        /\ fileNumber <= Len(files) => block < Count(fileNumber)
        /\ fileNumber > Len(files) => block = 0
        /\ sector = 1 + Before(fileNumber) + block

EarlierThan(s, n, b) == fileNumbers[s] < n \/ (fileNumbers[s] = n /\ blocks[s] < b)

\* A sector that was given out has an earlier block than the next one and a later
\* one than those in front of it, and a record with the mark where it belongs.
IsTaken(s) ==
    /\ fileNumbers[s] \in 0 .. Len(files) /\ blocks[s] \in Nat
    /\ recordFileNumbers[s] =
           fileNumbers[s] + (IF blocks[s] = Count(fileNumbers[s]) - 1 THEN LastBit ELSE 0)
    /\ EarlierThan(s, fileNumber, block)
    /\ \A t \in 1 .. s - 1 : EarlierThan(t, fileNumbers[s], blocks[s])

Taken == Building => \A s \in 1 .. sector - 1 : IsTaken(s)

\* The sectors that are free, that of the map and the bad one.
Untaken ==
    Building =>
        /\ DOMAIN fileNumbers = Sectors /\ DOMAIN recordFileNumbers = Sectors
        /\ DOMAIN blocks = Sectors
        /\ fileNumbers[0] = MapFile /\ fileNumbers[LastSector] = DamagedSector
        /\ \A s \in sector .. LastSector - 1 :
               fileNumbers[s] = FreeSector /\ recordFileNumbers[s] = FreeSector

ImageIsWritten ==
    phase = "done" =>
        image = [s \in Sectors |-> Sector(s, IF s = 0 THEN AllocationMap ELSE data[s])]

Layout == Untouched /\ Checked /\ InOrder /\ Taken /\ Untaken /\ ImageIsWritten

IInv == Content /\ Layout

----------------------------------------------------------------------------
(* The content.                                                            *)

LEMMA InitiallyContent == Init => Content
<1>1. SUFFICES ASSUME Init PROVE Content
  OBVIOUS
<1>2. HoldsLists(archive.entries)
  BY <1>1, ArchivesAssumption, Zenon DEF Init
<1>3. metadata = <<>> /\ entries = <<>> /\ files = <<>> /\ next = 1
  BY <1>1 DEF Init, Archive!ZipInit
<1> QED
  BY <1>2, <1>3, EmptyHoldsLists DEF Content

\* The steps of the reader pass on what they read.
LEMMA ZipKeepsContent ==
    ASSUME Content, Archive!ZipNext, files' = files
    PROVE  Content'
<1> USE DEF Content
<1>1. CASE Archive!ReadEnd
  BY <1>1, Zenon DEF Archive!ReadEnd
<1>2. CASE Archive!ReadCentralEntry
  <2>1. archive' = archive /\ entries' = entries /\ next' = next + 1
    BY <1>2, Zenon DEF Archive!ReadCentralEntry
  <2>2. next \in 1 .. Len(archive.entries) /\ next' \in Nat \ {0}
    <3>1. next <= Len(archive.entries) /\ Len(archive.entries) \in Nat
      BY <1>2 DEF Archive!ReadCentralEntry, HoldsLists, IsList
    <3> QED BY <2>1, <3>1
  <2>3. IsList(archive.entries[next].bytes)
    BY <2>2, Zenon DEF HoldsLists
  <2>4. metadata' = metadata \/ metadata' = Append(metadata, archive.entries[next])
    BY <1>2, Zenon DEF Archive!ReadCentralEntry
  <2>5. HoldsLists(metadata')
    BY <2>3, <2>4, AppendHoldsLists, Zenon
  <2> QED BY <2>1, <2>2, <2>5, Zenon
<1>3. CASE Archive!EndCentral
  <2>1. next' = 1 /\ UNCHANGED <<archive, metadata, entries>>
    BY <1>3, Zenon DEF Archive!EndCentral
  <2> QED BY <2>1
<1>4. CASE Archive!UnpackEntry
  <2> DEFINE unpacked == [path |-> metadata[next].path, bytes |-> metadata[next].bytes,
                          inline |-> metadata[next].inline, config |-> metadata[next].config,
                          extra |-> Archive!FirstExtra(metadata[next])]
  <2>1. archive' = archive /\ metadata' = metadata /\ next' = next + 1
    BY <1>4, Zenon DEF Archive!UnpackEntry
  <2>2. next \in 1 .. Len(metadata) /\ next' \in Nat \ {0}
    <3>1. next <= Len(metadata) /\ Len(metadata) \in Nat
      BY <1>4 DEF Archive!UnpackEntry, HoldsLists, IsList
    <3> QED BY <2>1, <3>1
  <2>3. IsList(metadata[next].bytes)
    BY <2>2, Zenon DEF HoldsLists
  <2>4. entries' = entries \/ entries' = Append(entries, unpacked)
    BY <1>4, Zenon DEF Archive!UnpackEntry
  <2>5. unpacked.bytes = metadata[next].bytes
    OBVIOUS
  <2> HIDE DEF unpacked
  <2>6. HoldsLists(entries')
    BY <2>3, <2>4, <2>5, AppendHoldsLists, Zenon
  <2> QED BY <2>1, <2>2, <2>6, Zenon
<1>5. CASE Archive!EndUnpacking
  BY <1>5, Zenon DEF Archive!EndUnpacking
<1> QED
  BY <1>1, <1>2, <1>3, <1>4, <1>5, Zenon DEF Archive!ZipNext

LEMMA ContentKept ==
    ASSUME Content, [Next]_vars
    PROVE  Content'
<1>1. CASE CheckDrive
  BY <1>1, Zenon DEF CheckDrive, zip, disc, Content
<1>2. CASE Archive!ZipNext /\ UNCHANGED <<disc, microdrive>>
  BY <1>2, ZipKeepsContent, Zenon DEF disc
<1>3. CASE ConvertFiles
  <2>1. UNCHANGED <<archive, next, metadata, entries>>
    BY <1>3, Zenon DEF ConvertFiles, zip
  <2>2. files' = files \/ files' = [i \in DOMAIN PackageFiles |-> Converted(PackageFiles[i])]
    BY <1>3, Zenon DEF ConvertFiles
  <2>3. HoldsLists(PackageFiles)
    BY PackageFilesHoldLists, Zenon DEF Content
  <2>4. HoldsLists([i \in DOMAIN PackageFiles |-> Converted(PackageFiles[i])])
    BY <2>3, ConvertedHoldsLists, Zenon
  <2>5. HoldsLists(files')
    BY <2>2, <2>4, Zenon DEF Content
  <2> QED BY <2>1, <2>5, Zenon DEF Content
<1>4. CASE BuilderNext(MediumName) /\ UNCHANGED <<zip, microdrive>>
  <2>1. UNCHANGED <<archive, next, metadata, entries>>
    BY <1>4, Zenon DEF zip
  <2>2. files' = files
    BY <1>4, Zenon DEF BuilderNext, StartBuilding, AllocateBlock, WriteImage
  <2> QED BY <2>1, <2>2, Zenon DEF Content
<1>5. CASE UNCHANGED vars
  BY <1>5, Zenon DEF vars, zip, disc, Content
<1> QED
  BY <1>1, <1>2, <1>3, <1>4, <1>5, Zenon DEF Next
----------------------------------------------------------------------------
(* The layout.                                                             *)

\* What the steps need to know of the constants.
LEMMA Sizes ==
    /\ LastSector \in Nat /\ LastSector >= 2 /\ Sectors = 0 .. LastSector
    /\ LastBit \in Nat /\ MaxFiles \in Nat /\ FreeSector \in Nat /\ DamagedSector \in Nat
    /\ MapFile \in Nat
    /\ MaxFiles < LastBit /\ LastBit < FreeSector /\ FreeSector < DamagedSector
    /\ MapFile # FreeSector /\ MaxFiles < MapFile
  BY QlPackageAssumption DEF LastSector, Sectors

\* And of the files.
LEMMA Counts ==
    ASSUME Content
    PROVE  /\ Len(files) \in Nat
           /\ \A n \in 0 .. Len(files) : Count(n) \in Nat \ {0}
           /\ \A n \in 0 .. Len(files) : Before(n) \in Nat
           /\ \A n \in 0 .. Len(files) : Before(n + 1) = Before(n) + Count(n)
           /\ \A n \in 0 .. Len(files) : Before(n + 1) <= RequiredSectors
           /\ RequiredSectors \in Nat
<1> DEFINE upTo == BlocksUpTo(files)
<1>1. HoldsLists(files)
  BY DEF Content
<1>2. Len(files) \in Nat
  BY <1>1 DEF HoldsLists, IsList
<1>3. \A n \in 0 .. Len(files) : Count(n) \in Nat \ {0}
  BY <1>1, UnitsTakeBlocks DEF Count
<1>4. /\ upTo[0] = Count(0)
      /\ \A n \in 1 .. Len(files) : upTo[n] = Count(n) + upTo[n - 1]
      /\ \A n \in 0 .. Len(files) : upTo[n] \in Nat
  BY <1>1, BlocksUpToAddsUp DEF Count
<1>5. \A n \in 0 .. Len(files) : upTo[n] <= RequiredSectors
  BY <1>1, BlocksUpToGrows DEF RequiredSectors
<1>6. \A n : Before(n) = IF n = 0 THEN 0 ELSE upTo[n - 1]
  BY DEF Before
<1>7. RequiredSectors \in Nat
  BY <1>2, <1>4 DEF RequiredSectors
<1> HIDE DEF upTo
<1>8. ASSUME NEW n \in 0 .. Len(files)
      PROVE  /\ Before(n) \in Nat /\ Before(n + 1) = upTo[n]
             /\ Before(n + 1) = Before(n) + Count(n)
  <2>1. Before(n + 1) = upTo[n]
    BY <1>2, <1>6
  <2>2. CASE n = 0
    BY <1>3, <1>4, <1>6, <2>1, <2>2
  <2>3. CASE n # 0
    <3>1. n \in 1 .. Len(files) /\ n - 1 \in 0 .. Len(files)
      BY <1>2, <2>3
    <3>2. Before(n) = upTo[n - 1]
      BY <1>6, <2>3
    <3> QED BY <1>3, <1>4, <2>1, <3>1, <3>2
  <2> QED BY <2>2, <2>3
<1> QED
  BY <1>2, <1>3, <1>5, <1>7, <1>8

LEMMA InitiallyLayout == Init => Layout
<1>1. SUFFICES ASSUME Init PROVE Layout
  OBVIOUS
<1>2. phase = "start" /\ BuilderInit
  BY <1>1, Zenon DEF Init
<1>3. ~Building /\ phase # "done"
  BY <1>2 DEF Building
<1> QED
  BY <1>2, <1>3, Zenon DEF Layout, Untouched, Checked, InOrder, Taken, Untaken, ImageIsWritten

\* Nothing is laid out before the building.
LEMMA StaysUntouched ==
    ASSUME Layout, ~Building, ~Building', UNCHANGED <<indices, tables, image>>
    PROVE  Layout'
<1>1. BuilderInit
  BY DEF Layout, Untouched
<1>2. BuilderInit'
  <2>1. UNCHANGED <<fileNumber, block, sector, fileNumbers, recordFileNumbers, blocks, data, image>>
    BY Zenon DEF indices, tables
  <2> QED BY <1>1, <2>1 DEF BuilderInit
<1>3. phase' # "done"
  BY DEF Building
<1> QED
  BY <1>2, <1>3, Zenon DEF Layout, Untouched, Checked, InOrder, Taken, Untaken, ImageIsWritten

\* A step that leaves the files, the phase and what was built leaves the layout.
LEMMA StaysLaidOut ==
    ASSUME Layout, UNCHANGED <<phase, disc>>
    PROVE  Layout'
<1>1. UNCHANGED <<phase, files, fileNumber, block, sector,
                  fileNumbers, recordFileNumbers, blocks, data, image>>
  BY Zenon DEF disc, indices, tables
<1> QED
  BY <1>1 DEF Layout, Untouched, BuilderInit, Checked, RequiredSectors, InOrder, Taken, IsTaken,
              EarlierThan, Untaken, ImageIsWritten, Building, Count, Before, Sector, AllocationMap

\* The checks pass, or the image is refused.
LEMMA StartBuildingKeeps ==
    ASSUME Content, Layout, NEW mediumName, StartBuilding(mediumName)
    PROVE  Layout'
<1> DEFINE checks == <<
        <<files = <<>>, "no files">>,
        <<Len(files) > MaxFiles, "too many files">>,
        <<~Representable(mediumName), "medium name">>,
        <<DuplicateName \/ \E n \in DOMAIN files : ~Representable(files[n].name), "name">>,
        <<RequiredSectors > SectorCount - 2, "capacity">> >>
<1>1. /\ phase = "build" /\ error' = FirstRefusal(checks)
      /\ phase' = IF error' = "none" THEN "allocate" ELSE "failed"
      /\ UNCHANGED <<files, indices, tables, image>>
  BY Zenon DEF StartBuilding
<1>2. ~Building /\ BuilderInit
  BY <1>1 DEF Building, Layout, Untouched
<1>3. CASE error' # "none"
  <2>1. ~Building'
    BY <1>1, <1>3 DEF Building
  <2> QED BY <1>1, <1>2, <2>1, StaysUntouched, Zenon
<1>4. CASE error' = "none"
  <2>1. Building' /\ phase' # "done"
    BY <1>1, <1>4 DEF Building
  <2>2. Len(files) <= MaxFiles /\ RequiredSectors <= LastSector - 1
    <3>1. DOMAIN checks = 1 .. 5
      OBVIOUS
    <3>2. /\ checks[1][2] = "no files" /\ checks[2][2] = "too many files"
          /\ checks[3][2] = "medium name" /\ checks[4][2] = "name" /\ checks[5][2] = "capacity"
      BY Zenon
    <3>3. /\ checks[2][1] = (Len(files) > MaxFiles)
          /\ checks[5][1] = (RequiredSectors > SectorCount - 2)
      BY Zenon
    <3>4. FirstRefusal(checks) = "none"
      BY <1>1, <1>4, Zenon
    <3> HIDE DEF checks
    <3>5. ASSUME NEW i \in DOMAIN checks
          PROVE  checks[i][2] # "none"
      <4>1. i = 1 \/ i = 2 \/ i = 3 \/ i = 4 \/ i = 5
        BY <3>1
      <4> QED BY <3>2, <4>1
    <3>6. DOMAIN checks \subseteq Nat /\ 2 \in DOMAIN checks /\ 5 \in DOMAIN checks
      BY <3>1
    <3>7. ~checks[2][1] /\ ~checks[5][1]
      BY <3>4, <3>5, <3>6, NothingRefused, Zenon
    <3>8. ~(Len(files) > MaxFiles) /\ ~(RequiredSectors > SectorCount - 2)
      BY <3>3, <3>7, Zenon
    <3> QED BY <3>8, Counts, Sizes, QlPackageAssumption DEF LastSector
  <2>3. /\ fileNumber' = 0 /\ block' = 0 /\ sector' = 1 /\ files' = files
        /\ fileNumbers' = fileNumbers /\ recordFileNumbers' = recordFileNumbers
        /\ blocks' = blocks
    BY <1>1, <1>2, Zenon DEF BuilderInit, indices, tables
  <2>4. Checked'
    BY <2>2, <2>3 DEF Checked, RequiredSectors, LastSector
  <2>5. InOrder'
    <3>1. Count(0) \in Nat \ {0} /\ Len(files) \in Nat
      BY Counts
    <3>2. Count(0)' = Count(0) /\ Before(0)' = 0
      BY <2>3 DEF Count, Before
    <3> QED BY <2>3, <3>1, <3>2 DEF InOrder
  <2>6. Taken'
    BY <2>3 DEF Taken
  <2>7. Untaken'
    BY <1>2, <2>3, Sizes DEF Untaken, BuilderInit
  <2>8. Untouched' /\ ImageIsWritten'
    BY <2>1, Zenon DEF Untouched, ImageIsWritten
  <2> QED BY <2>4, <2>5, <2>6, <2>7, <2>8 DEF Layout
<1> QED
  BY <1>3, <1>4

\* The next block is that of a unit there is, and its sector is free: what comes
\* before it fits in the sectors that were counted.
LEMMA NextBlock ==
    ASSUME Content, Layout, AllocateBlock
    PROVE  /\ fileNumber \in 0 .. Len(files) /\ block \in Nat /\ block < Count(fileNumber)
           /\ sector \in 1 .. LastSector - 1
           /\ Before(fileNumber + 1) = Before(fileNumber) + Count(fileNumber)
           /\ sector = 1 + Before(fileNumber) + block
           /\ Before(fileNumber) \in Nat /\ Count(fileNumber) \in Nat
           /\ Len(files) \in Nat /\ Len(files) <= MaxFiles
<1>1. phase = "allocate" /\ fileNumber <= Len(files)
  BY Zenon DEF AllocateBlock
<1>2. /\ fileNumber \in 0 .. Len(files) + 1 /\ block \in Nat
      /\ fileNumber <= Len(files) => block < Count(fileNumber)
      /\ sector = 1 + Before(fileNumber) + block
      /\ Len(files) <= MaxFiles /\ RequiredSectors <= LastSector - 1
  BY <1>1 DEF Layout, Checked, InOrder, Building
<1>3. Len(files) \in Nat
  BY Counts
<1>4. fileNumber \in 0 .. Len(files) /\ block < Count(fileNumber)
  BY <1>1, <1>2, <1>3
<1>5. /\ Count(fileNumber) \in Nat /\ Before(fileNumber) \in Nat
      /\ Before(fileNumber + 1) = Before(fileNumber) + Count(fileNumber)
      /\ Before(fileNumber + 1) <= RequiredSectors /\ RequiredSectors \in Nat
  BY <1>4, Counts
<1>6. sector \in 1 .. LastSector - 1
  BY <1>2, <1>4, <1>5, Sizes
<1> QED
  BY <1>2, <1>3, <1>4, <1>5, <1>6

LEMMA AllocateBlockKeeps ==
    ASSUME Content, Layout, AllocateBlock
    PROVE  Layout'
<1> DEFINE isLast == block = Count(fileNumber) - 1
           mark   == IF isLast THEN LastBit ELSE 0
<1>1. /\ fileNumber \in 0 .. Len(files) /\ block \in Nat /\ block < Count(fileNumber)
      /\ sector \in 1 .. LastSector - 1
      /\ Before(fileNumber + 1) = Before(fileNumber) + Count(fileNumber)
      /\ sector = 1 + Before(fileNumber) + block
      /\ Before(fileNumber) \in Nat /\ Count(fileNumber) \in Nat
      /\ Len(files) \in Nat /\ Len(files) <= MaxFiles
  BY NextBlock
<1>2. /\ phase = "allocate" /\ phase' = phase /\ files' = files
      /\ fileNumbers' = [fileNumbers EXCEPT ![sector] = fileNumber]
      /\ recordFileNumbers' = [recordFileNumbers EXCEPT ![sector] = fileNumber + mark]
      /\ blocks' = [blocks EXCEPT ![sector] = block]
      /\ sector' = sector + 1
      /\ IF isLast THEN fileNumber' = fileNumber + 1 /\ block' = 0
                   ELSE fileNumber' = fileNumber /\ block' = block + 1
  BY Zenon DEF AllocateBlock, RecordMark, Count
<1>3. Building /\ Building' /\ phase' # "done"
  BY <1>2 DEF Building
<1>4. (\A n : Count(n)' = Count(n)) /\ \A n : Before(n)' = Before(n)
  BY <1>2 DEF Count, Before
<1>5. Checked'
  BY <1>2, <1>3 DEF Layout, Checked, RequiredSectors, LastSector
<1>6. InOrder'
  <2>1. /\ fileNumber' \in 0 .. Len(files) + 1 /\ block' \in Nat
        /\ fileNumber' <= Len(files) => block' < Count(fileNumber')
        /\ fileNumber' > Len(files) => block' = 0
        /\ sector' = 1 + Before(fileNumber') + block'
    <3>1. CASE isLast
      <4>1. fileNumber' = fileNumber + 1 /\ block' = 0
        BY <1>2, <3>1
      <4>2. fileNumber + 1 <= Len(files) => Count(fileNumber + 1) \in Nat \ {0}
        BY <1>1, Counts
      <4>3. fileNumber' <= Len(files) => block' < Count(fileNumber')
        BY <4>1, <4>2
      <4>4. sector' = 1 + Before(fileNumber') + block'
        BY <1>1, <1>2, <3>1, <4>1
      <4> QED BY <1>1, <4>1, <4>3, <4>4
    <3>2. CASE ~isLast
      <4>1. fileNumber' = fileNumber /\ block' = block + 1
        BY <1>2, <3>2
      <4>2. block + 1 < Count(fileNumber)
        BY <1>1, <3>2
      <4> QED BY <1>1, <1>2, <4>1, <4>2
    <3> QED BY <3>1, <3>2
  <2>2. Count(fileNumber)' = Count(fileNumber') /\ Before(fileNumber)' = Before(fileNumber')
    BY <1>2 DEF Count, Before
  <2> HIDE DEF isLast
  <2> QED BY <1>2, <2>1, <2>2 DEF InOrder
<1>7. /\ DOMAIN fileNumbers = Sectors /\ DOMAIN recordFileNumbers = Sectors
      /\ DOMAIN blocks = Sectors
      /\ fileNumbers[0] = MapFile /\ fileNumbers[LastSector] = DamagedSector
      /\ \A s \in sector .. LastSector - 1 :
             fileNumbers[s] = FreeSector /\ recordFileNumbers[s] = FreeSector
  BY <1>3 DEF Layout, Untaken
<1>8. sector \in Sectors /\ sector # 0 /\ sector # LastSector
  BY <1>1, Sizes
<1>9. /\ fileNumbers'[sector] = fileNumber /\ blocks'[sector] = block
      /\ recordFileNumbers'[sector] = fileNumber + mark
      /\ \A s \in Sectors : s # sector =>
             /\ fileNumbers'[s] = fileNumbers[s] /\ blocks'[s] = blocks[s]
             /\ recordFileNumbers'[s] = recordFileNumbers[s]
  <2> HIDE DEF mark, isLast
  <2> QED BY <1>2, <1>7, <1>8
<1>10. Untaken'
  <2>1. DOMAIN fileNumbers' = Sectors /\ DOMAIN recordFileNumbers' = Sectors /\ DOMAIN blocks' = Sectors
    <3> HIDE DEF mark, isLast
    <3> QED BY <1>2, <1>7
  <2>2. fileNumbers'[0] = MapFile /\ fileNumbers'[LastSector] = DamagedSector
    <3>1. 0 \in Sectors /\ LastSector \in Sectors
      BY Sizes
    <3> QED BY <1>7, <1>8, <1>9, <3>1, Zenon
  <2>3. ASSUME NEW s \in sector' .. LastSector - 1
        PROVE  fileNumbers'[s] = FreeSector /\ recordFileNumbers'[s] = FreeSector
    <3>1. s \in sector + 1 .. LastSector - 1
      BY <1>2, Zenon
    <3>2. s \in sector .. LastSector - 1 /\ s # sector /\ s \in Sectors
      BY <1>1, <3>1, Sizes
    <3> QED BY <1>7, <1>9, <3>2, Zenon
  <2>4. Sectors' = Sectors /\ LastSector' = LastSector
    BY DEF Sectors, LastSector
  <2> QED BY <2>1, <2>2, <2>3, <2>4, Zenon DEF Untaken
<1>11. Taken'
  <2>1. \A s \in 1 .. sector - 1 : IsTaken(s)
    BY <1>3 DEF Layout, Taken
  <2>2. \A t \in 1 .. sector - 1 : EarlierThan(t, fileNumber, block)
    BY <2>1, Zenon DEF IsTaken
  <2>3. \A s \in 1 .. sector - 1 : s \in Sectors /\ s # sector
    BY <1>1, Sizes
  <2>4. ASSUME NEW s \in 1 .. sector - 1
        PROVE  /\ fileNumbers'[s] = fileNumbers[s] /\ blocks'[s] = blocks[s]
               /\ recordFileNumbers'[s] = recordFileNumbers[s]
    BY <1>9, <2>3, Zenon
  <2>5. ASSUME NEW s \in 1 .. sector
        PROVE  \/ fileNumbers'[s] < fileNumber'
               \/ fileNumbers'[s] = fileNumber' /\ blocks'[s] < block'
    <3>1. CASE s = sector
      <4>1. fileNumbers'[s] = fileNumber /\ blocks'[s] = block
        BY <1>9, <3>1, Zenon
      <4>2. \/ fileNumber' = fileNumber + 1
            \/ fileNumber' = fileNumber /\ block' = block + 1
        BY <1>2, Zenon
      <4> QED BY <1>1, <4>1, <4>2
    <3>2. CASE s # sector
      <4>1. s \in 1 .. sector - 1
        BY <1>1, <3>2
      <4>2. /\ fileNumbers[s] \in 0 .. Len(files) /\ blocks[s] \in Nat
            /\ fileNumbers[s] < fileNumber \/ (fileNumbers[s] = fileNumber /\ blocks[s] < block)
        BY <2>1, <4>1, Zenon DEF IsTaken, EarlierThan
      <4>3. fileNumbers'[s] = fileNumbers[s] /\ blocks'[s] = blocks[s]
        BY <2>4, <4>1, Zenon
      <4>4. \/ fileNumber' = fileNumber + 1
            \/ fileNumber' = fileNumber /\ block' = block + 1
        BY <1>2, Zenon
      <4> QED BY <1>1, <4>2, <4>3, <4>4
    <3> QED BY <3>1, <3>2
  <2>6. ASSUME NEW s \in 1 .. sector
        PROVE  /\ fileNumbers'[s] \in 0 .. Len(files) /\ blocks'[s] \in Nat
               /\ recordFileNumbers'[s] = fileNumbers'[s]
                      + (IF blocks'[s] = Count(fileNumbers'[s]) - 1 THEN LastBit ELSE 0)
               /\ \A t \in 1 .. s - 1 :
                      \/ fileNumbers'[t] < fileNumbers'[s]
                      \/ fileNumbers'[t] = fileNumbers'[s] /\ blocks'[t] < blocks'[s]
    <3>1. CASE s = sector
      <4>1. /\ fileNumbers'[s] = fileNumber /\ blocks'[s] = block
            /\ recordFileNumbers'[s] = fileNumber + mark
        BY <1>9, <3>1, Zenon
      <4>2. \A t \in 1 .. sector - 1 :
                \/ fileNumbers'[t] < fileNumber
                \/ fileNumbers'[t] = fileNumber /\ blocks'[t] < block
        BY <2>2, <2>4, Zenon DEF EarlierThan
      <4> QED BY <1>1, <3>1, <4>1, <4>2, Zenon
    <3>2. CASE s # sector
      <4>1. s \in 1 .. sector - 1 /\ \A t \in 1 .. s - 1 : t \in 1 .. sector - 1
        BY <1>1, <3>2
      <4>2. IsTaken(s)
        BY <2>1, <4>1, Zenon
      <4>3. /\ fileNumbers'[s] = fileNumbers[s] /\ blocks'[s] = blocks[s]
            /\ recordFileNumbers'[s] = recordFileNumbers[s]
            /\ \A t \in 1 .. s - 1 :
                   fileNumbers'[t] = fileNumbers[t] /\ blocks'[t] = blocks[t]
        BY <2>4, <4>1, Zenon
      <4> QED BY <4>2, <4>3, Zenon DEF IsTaken, EarlierThan
    <3> QED BY <3>1, <3>2
  <2>7. ASSUME NEW s \in 1 .. sector
        PROVE  IsTaken(s)'
    <3>1. Count(fileNumbers[s])' = Count(fileNumbers'[s])
      BY <1>2 DEF Count
    <3> QED BY <1>2, <2>5, <2>6, <3>1, Zenon DEF IsTaken, EarlierThan
  <2>8. \A s \in 1 .. sector' - 1 : s \in 1 .. sector
    <3>1. sector' - 1 = sector
      <4>1. sector' = sector + 1
        BY <1>2, Zenon
      <4> QED BY <1>1, <4>1
    <3> QED BY <3>1
  <2> QED BY <2>7, <2>8, Zenon DEF Taken
<1>12. Untouched' /\ ImageIsWritten'
  BY <1>3, Zenon DEF Untouched, ImageIsWritten
<1> QED
  BY <1>5, <1>6, <1>10, <1>11, <1>12 DEF Layout

LEMMA WriteImageKeeps ==
    ASSUME Content, Layout, WriteImage
    PROVE  Layout'
<1>1. /\ phase = "allocate" /\ phase' = "done"
      /\ image' = [s \in Sectors |-> Sector(s, IF s = 0 THEN AllocationMap ELSE data[s])]
      /\ UNCHANGED <<files, fileNumber, block, sector, fileNumbers, recordFileNumbers, blocks, data>>
  BY Zenon DEF WriteImage, indices, tables
<1>2. Building /\ Building'
  BY <1>1 DEF Building
<1>3. ImageIsWritten'
  BY <1>1 DEF ImageIsWritten, Sector, AllocationMap, Sectors, LastSector
<1>4. Checked'
  BY <1>1, <1>2 DEF Layout, Checked, RequiredSectors, LastSector
<1>5. InOrder'
  <2>1. Count(fileNumber)' = Count(fileNumber) /\ Before(fileNumber)' = Before(fileNumber)
    BY <1>1 DEF Count, Before
  <2> QED BY <1>1, <1>2, <2>1 DEF Layout, InOrder
<1>6. Taken'
  BY <1>1, <1>2 DEF Layout, Taken, IsTaken, EarlierThan, Count
<1>7. Untaken'
  BY <1>1, <1>2 DEF Layout, Untaken, Sectors, LastSector
<1> QED
  BY <1>2, <1>3, <1>4, <1>5, <1>6, <1>7, Zenon DEF Layout, Untouched

LEMMA LayoutKept ==
    ASSUME IInv, [Next]_vars
    PROVE  Layout'
<1>1. Content /\ Layout
  BY DEF IInv
<1>2. CASE CheckDrive
  <2>1. ~Building /\ ~Building' /\ UNCHANGED <<indices, tables, image>>
    BY <1>2 DEF CheckDrive, Archive!Proceed, Building, disc
  <2> QED BY <1>1, <2>1, StaysUntouched
<1>3. CASE Archive!ZipNext /\ UNCHANGED <<disc, microdrive>>
  <2>1. ~Building /\ ~Building'
    BY <1>3 DEF Archive!ZipNext, Archive!ReadEnd, Archive!ReadCentralEntry, Archive!EndCentral,
                Archive!UnpackEntry, Archive!EndUnpacking, Archive!Proceed, Building
  <2>2. UNCHANGED <<indices, tables, image>>
    BY <1>3, Zenon DEF disc
  <2> QED BY <1>1, <2>1, <2>2, StaysUntouched
<1>4. CASE ConvertFiles
  <2>1. ~Building /\ ~Building' /\ UNCHANGED <<indices, tables, image>>
    BY <1>4 DEF ConvertFiles, Archive!Proceed, Building
  <2> QED BY <1>1, <2>1, StaysUntouched
<1>5. CASE BuilderNext(MediumName)
  BY <1>1, <1>5, StartBuildingKeeps, AllocateBlockKeeps, WriteImageKeeps, Zenon DEF BuilderNext
<1>6. CASE UNCHANGED vars
  BY <1>1, <1>6, StaysLaidOut, Zenon DEF vars
<1> QED
  BY <1>2, <1>3, <1>4, <1>5, <1>6, Zenon DEF Next
----------------------------------------------------------------------------
\* Whatever is imported, the loops run over the sectors that were counted before,
\* in the order of the units and their blocks; AllocationIsSound alone would not
\* say that the next sector is still free.
THEOREM InvariantHolds == Spec => []IInv
<1>1. Init => IInv
  BY InitiallyContent, InitiallyLayout DEF IInv
<1>2. IInv /\ [Next]_vars => IInv'
  BY ContentKept, LayoutKept DEF IInv
<1> QED
  BY <1>1, <1>2, PTL DEF Spec

LEMMA IInvAllocates == IInv => AllocationIsSound
<1>1. SUFFICES ASSUME IInv PROVE AllocationIsSound
  OBVIOUS
<1>2. Content /\ Layout
  BY <1>1 DEF IInv
<1>3. CASE ~Building
  <2>1. sector = 1 /\ fileNumbers = [s \in Sectors |-> IF s = 0 THEN MapFile
                                                       ELSE IF s = LastSector THEN DamagedSector
                                                       ELSE FreeSector]
    BY <1>2, <1>3 DEF Layout, Untouched, BuilderInit
  <2> QED BY <2>1, Sizes DEF AllocationIsSound
<1>4. CASE Building
  <2>1. /\ fileNumber \in 0 .. Len(files) + 1 /\ block \in Nat
        /\ fileNumber <= Len(files) => block < Count(fileNumber)
        /\ fileNumber > Len(files) => block = 0
        /\ sector = 1 + Before(fileNumber) + block
        /\ Len(files) <= MaxFiles /\ RequiredSectors <= LastSector - 1
    BY <1>2, <1>4 DEF Layout, InOrder, Checked
  <2>2. /\ Len(files) \in Nat /\ RequiredSectors \in Nat
        /\ \A n \in 0 .. Len(files) :
               /\ Count(n) \in Nat /\ Before(n) \in Nat
               /\ Before(n + 1) = Before(n) + Count(n) /\ Before(n + 1) <= RequiredSectors
    BY <1>2, Counts
  <2>3. sector \in 1 .. LastSector
    <3>1. CASE fileNumber <= Len(files)
      <4>1. fileNumber \in 0 .. Len(files) /\ block < Count(fileNumber)
        BY <2>1, <2>2, <3>1
      <4> QED BY <2>1, <2>2, <4>1, Sizes
    <3>2. CASE fileNumber = Len(files) + 1
      <4>1. /\ Before(Len(files) + 1) <= RequiredSectors
            /\ Before(Len(files) + 1) \in Nat
        BY <2>2
      <4>2. block = 0
        BY <2>1, <2>2, <3>2
      <4> QED BY <2>1, <2>2, <3>2, <4>1, <4>2, Sizes
    <3> QED BY <2>1, <2>2, <3>1, <3>2
  <2>4. \A s \in 1 .. sector - 1 : IsTaken(s)
    BY <1>2, <1>4 DEF Layout, Taken
  <2>5. /\ fileNumbers[0] = MapFile /\ fileNumbers[LastSector] = DamagedSector
        /\ \A s \in sector .. LastSector - 1 : fileNumbers[s] = FreeSector
    BY <1>2, <1>4 DEF Layout, Untaken
  <2>6. ASSUME NEW s \in Sectors
        PROVE  fileNumbers[s] = FreeSector <=> s \in sector .. LastSector - 1
    <3>1. CASE s \in 1 .. sector - 1
      <4>1. fileNumbers[s] \in 0 .. Len(files)
        BY <2>4, <3>1, Zenon DEF IsTaken
      <4>2. Len(files) \in Nat /\ Len(files) <= MaxFiles
        BY <2>1, <2>2
      <4>3. fileNumbers[s] # FreeSector
        BY <4>1, <4>2, Sizes
      <4>4. ~(s \in sector .. LastSector - 1)
        BY <2>3, <3>1, Sizes
      <4> QED BY <4>3, <4>4
    <3>2. CASE s = 0 \/ s = LastSector
      BY <2>3, <2>5, <3>2, Sizes
    <3>3. CASE s \in sector .. LastSector - 1
      BY <2>5, <3>3
    <3> QED BY <2>3, <3>1, <3>2, <3>3, Sizes
  <2>7. ASSUME NEW s \in 1 .. sector - 1, NEW t \in 1 .. sector - 1, s < t
        PROVE  \/ fileNumbers[s] < fileNumbers[t]
               \/ fileNumbers[s] = fileNumbers[t] /\ blocks[s] < blocks[t]
    <3>1. s \in 1 .. t - 1
      BY <2>3, <2>7, Sizes
    <3> QED BY <2>4, <3>1, Zenon DEF IsTaken, EarlierThan
  <2> QED BY <2>3, <2>5, <2>6, <2>7, Zenon DEF AllocationIsSound
<1> QED
  BY <1>3, <1>4

\* No sector is given out twice, the map and the bad sector are never given out,
\* and the loops end where the count said, for any number and sizes of files.
THEOREM AllocationCorrect == Spec => []AllocationIsSound
  BY InvariantHolds, IInvAllocates, PTL

LEMMA IInvTells == IInv => RecordsTellTheirFile
<1>1. SUFFICES ASSUME IInv, phase = "done", Len(files) < FreeSector - LastBit,
                      NEW s \in Sectors \ {0, LastSector}
               PROVE  /\ image[s].file = FreeSector <=> s >= sector
                      /\ s < sector =>
                           /\ image[s].file % LastBit = fileNumbers[s]
                           /\ image[s].file >= LastBit
                                  <=> image[s].block = BlockCount(Unit(files, fileNumbers[s])) - 1
  BY Zenon DEF RecordsTellTheirFile
<1>2. Content /\ Layout /\ Building
  BY <1>1 DEF IInv, Building
<1>3. image[s].file = recordFileNumbers[s] /\ image[s].block = blocks[s]
  <2>1. image = [t \in Sectors |-> Sector(t, IF t = 0 THEN AllocationMap ELSE data[t])]
    BY <1>1, <1>2 DEF Layout, ImageIsWritten
  <2>2. image[s] = Sector(s, data[s])
    BY <1>1, <2>1
  <2> QED BY <2>2 DEF Sector
<1>4. sector \in 1 .. LastSector
  BY <1>1, IInvAllocates, Zenon DEF AllocationIsSound
<1>5. Len(files) \in Nat /\ Len(files) <= MaxFiles
  BY <1>2, Counts DEF Layout, Checked
<1>6. CASE s >= sector
  <2>1. s \in sector .. LastSector - 1
    BY <1>4, <1>6, Sizes
  <2>2. recordFileNumbers[s] = FreeSector
    BY <1>2, <2>1 DEF Layout, Untaken
  <2>3. ~(s < sector)
    BY <1>4, <2>1
  <2> QED BY <1>3, <1>6, <2>2, <2>3, Zenon
<1>7. CASE s < sector
  <2>1. s \in 1 .. sector - 1
    BY <1>4, <1>7, Sizes
  <2>2. IsTaken(s)
    BY <1>2, <2>1 DEF Layout, Taken
  <2> DEFINE ends == blocks[s] = BlockCount(Unit(files, fileNumbers[s])) - 1
  <2>3. /\ fileNumbers[s] \in 0 .. Len(files)
        /\ recordFileNumbers[s] = fileNumbers[s] + (IF ends THEN LastBit ELSE 0)
    BY <2>2, Zenon DEF IsTaken, Count
  <2> HIDE DEF ends
  <2>4. fileNumbers[s] \in Nat /\ fileNumbers[s] < LastBit /\ fileNumbers[s] + LastBit < FreeSector
    BY <1>1, <1>5, <2>3, Sizes
  <2>5. recordFileNumbers[s] # FreeSector
    BY <2>3, <2>4, Sizes
  <2>6. recordFileNumbers[s] % LastBit = fileNumbers[s]
    <3>1. fileNumbers[s] % LastBit = fileNumbers[s]
      BY <2>4, Sizes
    <3>2. (fileNumbers[s] + LastBit) % LastBit = fileNumbers[s]
      BY <2>4, Sizes
    <3> QED BY <2>3, <2>4, <3>1, <3>2, Sizes
  <2>7. recordFileNumbers[s] >= LastBit <=> ends
    BY <2>3, <2>4, Sizes
  <2>8. ~(s >= sector)
    BY <1>4, <1>7, <2>1
  <2> QED BY <1>3, <2>5, <2>6, <2>7, <2>8, Zenon DEF ends
<1> QED
  <2>1. s >= sector \/ s < sector
    BY <1>4, Sizes
  <2> QED BY <1>6, <1>7, <2>1

\* A record tells by itself whether it is free and whether it ends its file, for
\* as many files as the numbers of the format leave room for.
THEOREM RecordsCorrect == Spec => []RecordsTellTheirFile
  BY InvariantHolds, IInvTells, PTL
----------------------------------------------------------------------------
(* What the image holds.                                                   *)

\* The sector s has block b of unit n.
Holds(s, n, b) ==
    /\ s \in 1 .. sector - 1
    /\ fileNumbers[s] = n /\ blocks[s] = b
    /\ data[s] = Payload(Unit(files, n), b)

IsLaid(n, b) == \E s \in 1 .. sector - 1 : Holds(s, n, b)

\* Every block in front of the next one has its sector, and that is every block at
\* the end.
Laid ==
    /\ DOMAIN data = Sectors
    /\ phase = "done" => fileNumber > Len(files)
    /\ Building =>
         \A n \in 0 .. Len(files) : \A b \in Nat :
             b < Count(n) /\ (n < fileNumber \/ (n = fileNumber /\ b < block)) => IsLaid(n, b)

\* The next block gets the next sector, and the others keep theirs.
LEMMA AllocateBlockLays ==
    ASSUME IInv, Laid, AllocateBlock
    PROVE  Laid'
<1>1. /\ fileNumber \in 0 .. Len(files) /\ block \in Nat /\ block < Count(fileNumber)
      /\ sector \in 1 .. LastSector - 1 /\ Count(fileNumber) \in Nat /\ Len(files) \in Nat
  BY NextBlock DEF IInv
<1>2. /\ phase = "allocate" /\ phase' = phase /\ files' = files
      /\ fileNumbers' = [fileNumbers EXCEPT ![sector] = fileNumber]
      /\ blocks' = [blocks EXCEPT ![sector] = block]
      /\ data' = [data EXCEPT ![sector] = Payload(Unit(files, fileNumber), block)]
      /\ sector' = sector + 1
      /\ IF block = Count(fileNumber) - 1
           THEN fileNumber' = fileNumber + 1 /\ block' = 0
           ELSE fileNumber' = fileNumber /\ block' = block + 1
  BY Zenon DEF AllocateBlock, Count
<1>3. Building /\ (\A n : Count(n)' = Count(n)) /\ sector \in Sectors
  BY <1>1, <1>2, Sizes DEF Building, Count
<1>4. DOMAIN fileNumbers = Sectors /\ DOMAIN blocks = Sectors /\ DOMAIN data = Sectors
  BY <1>3 DEF IInv, Layout, Untaken, Laid
<1>5. /\ fileNumbers'[sector] = fileNumber /\ blocks'[sector] = block
      /\ data'[sector] = Payload(Unit(files, fileNumber), block)
      /\ \A s \in 1 .. sector - 1 : /\ fileNumbers'[s] = fileNumbers[s]
                                    /\ blocks'[s] = blocks[s] /\ data'[s] = data[s]
  <2>1. \A s \in 1 .. sector - 1 : s \in Sectors /\ s # sector
    BY <1>1, Sizes
  <2> QED BY <1>2, <1>3, <1>4, <2>1
<1>6. sector' - 1 = sector /\ \A s \in 1 .. sector - 1 : s \in 1 .. sector
  BY <1>1, <1>2
<1>7. ASSUME NEW n \in 0 .. Len(files), NEW b \in Nat, b < Count(n),
             n < fileNumber' \/ (n = fileNumber' /\ b < block')
      PROVE  IsLaid(n, b)'
  <2>1. CASE n = fileNumber /\ b = block
    <3>1. PICK s \in 1 .. sector : s = sector
      BY <1>1
    <3>2. Holds(s, n, b)'
      BY <1>2, <1>5, <1>6, <2>1, <3>1, Zenon DEF Holds, Payload
    <3> QED BY <1>6, <3>1, <3>2, Zenon DEF IsLaid
  <2>2. CASE ~(n = fileNumber /\ b = block)
    <3>1. n < fileNumber \/ (n = fileNumber /\ b < block)
      <4>1. CASE block = Count(fileNumber) - 1
        BY <1>1, <1>2, <1>7, <2>2, <4>1
      <4>2. CASE block # Count(fileNumber) - 1
        BY <1>1, <1>2, <1>7, <2>2, <4>2
      <4> QED BY <4>1, <4>2
    <3>2. PICK s \in 1 .. sector - 1 : Holds(s, n, b)
      BY <1>3, <1>7, <3>1, Zenon DEF Laid, IsLaid
    <3>3. Holds(s, n, b)'
      BY <1>2, <1>5, <1>6, <3>2, Zenon DEF Holds, Payload
    <3> QED BY <1>6, <3>2, <3>3, Zenon DEF IsLaid
  <2> QED BY <2>1, <2>2
<1>8. DOMAIN data' = Sectors'
  BY <1>2, <1>4 DEF Sectors, LastSector
<1>9. phase' # "done"
  BY <1>2
<1> QED
  BY <1>2, <1>3, <1>7, <1>8, <1>9, Zenon DEF Laid

LEMMA LaidKept ==
    ASSUME IInv, Laid, [Next]_vars
    PROVE  Laid'
<1> DEFINE Stays == UNCHANGED <<fileNumber, block, sector, fileNumbers, blocks, data>>
<1>1. ASSUME ~Building, Stays, phase' # "done"
      PROVE  Laid'
  <2>1. fileNumber = 0 /\ block = 0
    BY <1>1 DEF IInv, Layout, Untouched, BuilderInit
  <2>2. fileNumber' = 0 /\ block' = 0 /\ DOMAIN data' = Sectors'
    BY <1>1, <2>1 DEF Laid, Sectors, LastSector
  <2>3. ASSUME NEW n \in 0 .. Len(files'), NEW b \in Nat
        PROVE  ~(n < fileNumber' \/ (n = fileNumber' /\ b < block'))
    BY <2>2
  <2> QED BY <1>1, <2>2, <2>3, Zenon DEF Laid
<1>2. ASSUME Building, Stays, files' = files, phase' = "done" => fileNumber > Len(files)
      PROVE  Laid'
  <2>1. (\A n : Count(n)' = Count(n)) /\ \A n, b : IsLaid(n, b)' = IsLaid(n, b)
    BY <1>2 DEF Count, IsLaid, Holds
  <2>2. fileNumber' = fileNumber /\ block' = block /\ DOMAIN data' = Sectors'
    BY <1>2 DEF Laid, Sectors, LastSector
  <2> QED BY <1>2, <2>1, <2>2, Zenon DEF Laid
<1> HIDE DEF Stays
<1>3. CASE CheckDrive
  <2>1. ~Building /\ phase' # "done"
    BY <1>3 DEF CheckDrive, Archive!Proceed, Building
  <2>2. Stays
    BY <1>3, Zenon DEF CheckDrive, disc, indices, tables, Stays
  <2> QED BY <1>1, <2>1, <2>2
<1>4. CASE Archive!ZipNext /\ UNCHANGED <<disc, microdrive>>
  <2>1. ~Building /\ phase' # "done"
    BY <1>4 DEF Archive!ZipNext, Archive!ReadEnd, Archive!ReadCentralEntry, Archive!EndCentral,
                Archive!UnpackEntry, Archive!EndUnpacking, Archive!Proceed, Building
  <2>2. Stays
    BY <1>4, Zenon DEF disc, indices, tables, Stays
  <2> QED BY <1>1, <2>1, <2>2
<1>5. CASE ConvertFiles
  <2>1. ~Building /\ phase' # "done"
    BY <1>5 DEF ConvertFiles, Archive!Proceed, Building
  <2>2. Stays
    BY <1>5, Zenon DEF ConvertFiles, indices, tables, Stays
  <2> QED BY <1>1, <2>1, <2>2
<1>6. CASE StartBuilding(MediumName)
  <2>1. ~Building /\ phase' # "done"
    BY <1>6 DEF StartBuilding, Building
  <2>2. Stays
    BY <1>6, Zenon DEF StartBuilding, indices, tables, Stays
  <2> QED BY <1>1, <2>1, <2>2
<1>7. CASE AllocateBlock
  BY <1>7, AllocateBlockLays
<1>8. CASE WriteImage
  <2>1. Building /\ fileNumber > Len(files)
    BY <1>8 DEF WriteImage, Building
  <2>2. Stays /\ files' = files
    BY <1>8, Zenon DEF WriteImage, indices, tables, Stays
  <2> QED BY <1>2, <2>1, <2>2
<1>9. CASE UNCHANGED vars
  <2>1. Stays /\ files' = files /\ phase' = phase
    BY <1>9, Zenon DEF vars, disc, indices, tables, Stays
  <2>2. phase = "done" => Building /\ fileNumber > Len(files)
    BY DEF Building, Laid
  <2> QED BY <1>1, <1>2, <2>1, <2>2
<1> QED
  BY <1>3, <1>4, <1>5, <1>6, <1>7, <1>8, <1>9, Zenon DEF Next, BuilderNext

\* Every block of the directory and of every file is in the image: the map leads to
\* one sector and no other, and its data is the block, filled with zeros.
BlocksAreFound ==
    phase = "done" =>
        \A n \in 0 .. Len(files) : \A b \in Nat :
            b < BlockCount(Unit(files, n)) =>
                \E s \in Sectors \ {0, LastSector} :
                    /\ Map[s] = <<n, b>> /\ image[s].data = Payload(Unit(files, n), b)
                    /\ \A t \in Sectors : Map[t] = <<n, b>> => t = s

LEMMA LaidBlocksAreFound == IInv /\ Laid => BlocksAreFound
<1> SUFFICES ASSUME IInv, Laid, phase = "done", NEW n \in 0 .. Len(files), NEW b \in Nat,
                    b < Count(n)
             PROVE  \E s \in Sectors \ {0, LastSector} :
                        /\ Map[s] = <<n, b>> /\ image[s].data = Payload(Unit(files, n), b)
                        /\ \A t \in Sectors : Map[t] = <<n, b>> => t = s
  BY Zenon DEF BlocksAreFound, Count
<1>1. Content /\ Layout /\ Building /\ fileNumber > Len(files) /\ Len(files) \in Nat
  BY Counts DEF IInv, Building, Laid
<1>2. /\ sector \in 1 .. LastSector
      /\ \A s \in Sectors : fileNumbers[s] = FreeSector <=> s \in sector .. LastSector - 1
      /\ \A s, t \in 1 .. sector - 1 : s < t =>
             \/ fileNumbers[s] < fileNumbers[t]
             \/ fileNumbers[s] = fileNumbers[t] /\ blocks[s] < blocks[t]
      /\ fileNumbers[0] = MapFile /\ fileNumbers[LastSector] = DamagedSector
  BY IInvAllocates, Zenon DEF AllocationIsSound
<1>3. fileNumber \in 0 .. Len(files) + 1
  BY <1>1 DEF Layout, InOrder
<1>4. n < fileNumber
  BY <1>1, <1>3
<1>5. PICK s \in 1 .. sector - 1 : Holds(s, n, b)
  BY <1>1, <1>4, Zenon DEF Laid, IsLaid
<1>6. image = [t \in Sectors |-> Sector(t, IF t = 0 THEN AllocationMap ELSE data[t])]
  BY <1>1 DEF Layout, ImageIsWritten
<1>7. 0 \in Sectors /\ s \in Sectors \ {0, LastSector}
  BY <1>2, <1>5, Sizes
<1>8. Map = [t \in Sectors |-> <<fileNumbers[t], blocks[t]>>]
  <2>1. image[0] = Sector(0, AllocationMap)
    BY <1>6, <1>7
  <2>2. image[0].data = AllocationMap
    BY <2>1 DEF Sector
  <2> QED BY <2>2 DEF Map, AllocationMap
<1>9. image[s].data = data[s]
  <2>1. image[s] = Sector(s, data[s])
    BY <1>6, <1>7
  <2> QED BY <2>1 DEF Sector
<1>10. Map[s] = <<n, b>> /\ image[s].data = Payload(Unit(files, n), b)
  BY <1>5, <1>7, <1>8, <1>9 DEF Holds
<1>11. ASSUME NEW t \in Sectors, Map[t] = <<n, b>>
       PROVE  t = s
  <2>1. fileNumbers[t] = n /\ blocks[t] = b
    BY <1>8, <1>11
  <2>2. n < FreeSector /\ n < DamagedSector /\ n < MapFile
    BY <1>1, Sizes DEF Layout, Checked
  <2>3. t \in 1 .. sector - 1
    <3>1. t # 0 /\ t # LastSector
      BY <1>2, <2>1, <2>2, Sizes
    <3>2. ~(t \in sector .. LastSector - 1)
      BY <1>2, <2>1, <2>2, Sizes
    <3> QED BY <1>2, <3>1, <3>2, Sizes
  <2>4. s \in Int /\ t \in Int
    BY <2>3
  <2>5. CASE s < t
    BY <1>2, <1>5, <2>1, <2>3, <2>5 DEF Holds
  <2>6. CASE t < s
    BY <1>2, <1>5, <2>1, <2>3, <2>6 DEF Holds
  <2> QED BY <2>4, <2>5, <2>6
<1> QED
  BY <1>7, <1>10, <1>11

\* Whatever is imported, no block of it is missing from the image, none is there
\* twice, and none was written over.
THEOREM ImageCorrect == Spec => []BlocksAreFound
<1>1. Init => Laid
  BY DEF Init, Laid, BuilderInit, Building
<1>2. IInv /\ Laid /\ [Next]_vars => Laid'
  BY LaidKept
<1> QED
  BY <1>1, <1>2, LaidBlocksAreFound, InvariantHolds, PTL DEF Spec
=============================================================================
