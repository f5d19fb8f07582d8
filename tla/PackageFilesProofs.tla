------------------------- MODULE PackageFilesProofs -------------------------
(* Theorems about the files of a package, for any tree, links and names. *)
EXTENDS PackageFiles, FiniteSetTheorems, TLAPS

LEMMA FoundIsInside ==
    ASSUME NEW relative, NEW missing, missing # "none", Ok(ResolveRegularFile(relative, missing))
    PROVE  Inside(ResolveRegularFile(relative, missing).path)
  BY DEF ResolveRegularFile, Found, Refused, Ok

LEMMA DescriptorIsInside ==
    ASSUME Ok(DescriptorFile)
    PROVE  Inside(DescriptorFile.path)
<1> DEFINE relative == NormalizeDescriptorPath(entrypoint)
           file == ResolveRegularFile(relative.path, "invalid-descriptor")
<1>1. DescriptorFile = file
  BY DEF DescriptorFile, Ok, Refused
<1>2. QED
  BY <1>1, FoundIsInside

LEMMA LocatedIsInside ==
    ASSUME NEW name, Ok(Locate(name))
    PROVE  IsPrefix(Canonical(root), Locate(name).path)
  BY DEF Locate, Inside, Found, Refused, Ok

\* What a step reads is inside, and the package is the same after it.
LEMMA ReadsInside ==
    ASSUME Next
    PROVE  /\ root' = root
           /\ \A file \in reads' \ reads : IsPrefix(Canonical(root), file)
<1>1. CASE DescriptorMissing
  BY <1>1 DEF DescriptorMissing, Fail, package
<1>2. CASE ReadDescriptor
  <2>1. reads' = reads \cup {Canonical(DescriptorFile.path)}
    BY <1>2 DEF ReadDescriptor, Read
  <2>2. IsPrefix(Canonical(root), Canonical(DescriptorFile.path))
    BY <1>2, DescriptorIsInside DEF ReadDescriptor, Inside
  <2>3. root' = root
    BY <1>2 DEF ReadDescriptor, Fail, package
  <2>4. QED
    BY <2>1, <2>2, <2>3
<1>3. ASSUME NEW name, Load(name)
      PROVE  \A file \in reads' \ reads : IsPrefix(Canonical(root), file)
  <2>1. CASE Ok(Locate(name))
    BY <1>3, <2>1, LocatedIsInside DEF Load, Read
  <2>2. CASE ~ Ok(Locate(name))
    BY <1>3, <2>2 DEF Load
  <2>3. QED
    BY <2>1, <2>2
<1>4. CASE LoadRoot
  <2>1. root' = root
    BY <1>4 DEF LoadRoot, Fail, package
  <2>2. CASE Ok(RootName)
    BY <1>3, <1>4, <2>1, <2>2 DEF LoadRoot
  <2>3. CASE ~ Ok(RootName)
    BY <1>4, <2>1, <2>3 DEF LoadRoot
  <2>4. QED
    BY <2>2, <2>3
<1>5. ASSUME NEW base \in modules, NEW specifier \in Specifiers, Import(base, specifier)
      PROVE  root' = root /\ \A file \in reads' \ reads : IsPrefix(Canonical(root), file)
  <2> DEFINE name == NormalizeName(base, specifier)
  <2>1. root' = root
    BY <1>5 DEF Import, package
  <2>2. UNCHANGED reads \/ Load(name.path)
    BY <1>5 DEF Import
  <2>3. QED
    BY <1>3, <2>1, <2>2
<1>6. QED
  BY <1>1, <1>2, <1>4, <1>5 DEF Next

(* Whatever the tree, its links, the descriptor and the imports, every     *)
(* file read lies inside the package.                                      *)
THEOREM ReadsAreContained == Spec => []Contained
<1>1. Init => Contained
  BY DEF Init, Contained
<1>2. Contained /\ [Next]_vars => Contained'
  <2> SUFFICES ASSUME Contained, [Next]_vars PROVE Contained'
    OBVIOUS
  <2>1. root' = root /\ \A file \in reads' \ reads : IsPrefix(Canonical(root), file)
    BY ReadsInside DEF vars, package
  <2>2. Canonical(root)' = Canonical(root)
    BY <2>1
  <2>3. QED
    BY <2>1, <2>2 DEF Contained
<1>3. QED
  BY <1>1, <1>2, PTL DEF Spec

-----------------------------------------------------------------------------
(* Walks *)

\* Counting reaches every natural number: there is no least interval that it does not fill.
LEMMA Counting ==
    ASSUME NEW G, 0 \in G, \A n \in Nat : n \in G => n + 1 \in G
    PROVE  Nat \subseteq G
<1> DEFINE Missed == {n \in Nat : n \notin G}
           Intervals == {1..n : n \in Missed}
<1> SUFFICES ASSUME Missed # {} PROVE FALSE
  OBVIOUS
<1>1. Intervals \subseteq FiniteSubsetsOf(Nat) /\ Intervals # {}
  <2>1. \A n \in Nat : IsFiniteSet(1..n) /\ 1..n \in SUBSET Nat
    BY FS_Interval
  <2>2. QED
    BY <2>1 DEF FiniteSubsetsOf
<1>2. \E x \in Intervals : \A y \in Intervals : ~ (<<y, x>> \in StrictSubsetOrdering(Nat))
  <2> HIDE DEF Intervals
  <2>1. IsWellFoundedOn(StrictSubsetOrdering(Nat), FiniteSubsetsOf(Nat))
    BY FS_StrictSubsetOrderingWellFounded
  <2>2. QED
    BY <1>1, <2>1, WFMin
<1>3. PICK n \in Missed : \A m \in Missed : <<1..m, 1..n>> \notin StrictSubsetOrdering(Nat)
  BY <1>2
<1>4. n # 0 /\ n \in Nat /\ n - 1 \in Nat
  OBVIOUS
<1>5. n - 1 \in G
  <2>1. 1..(n - 1) \subseteq 1..n /\ n \in 1..n /\ n \notin 1..(n - 1)
    BY <1>4
  <2>2. 1..(n - 1) \in SUBSET Nat /\ 1..n \in SUBSET Nat
    BY <1>4
  <2>3. <<1..(n - 1), 1..n>> \in StrictSubsetOrdering(Nat)
    BY <2>1, <2>2 DEF StrictSubsetOrdering
  <2>4. QED
    BY <1>3, <1>4, <2>3
<1>6. QED
  BY <1>4, <1>5

\* done is where each part leads.
Walked(done, start, parts, forbidden, code) ==
    /\ done[0] = Found(start)
    /\ \A n \in 1..Len(parts) : done[n] = Step(done[n - 1], parts[n], forbidden, code)

\* Walk goes from one part to the next.
LEMMA WalkIsWalked ==
    ASSUME NEW start, NEW parts \in Seq(STRING), NEW forbidden, NEW code
    PROVE  \E done : /\ Walked(done, start, parts, forbidden, code)
                     /\ Walk(start, parts, forbidden, code) = done[Len(parts)]
<1> DEFINE Turn(f, n) == IF n = 0 THEN Found(start) ELSE Step(f[n - 1], parts[n], forbidden, code)
           Reached == {n \in Nat : \E f : f = [i \in 0..n |-> Turn(f, i)]}
           walk == CHOOSE f : f = [i \in 0..Len(parts) |-> Turn(f, i)]
<1>1. Len(parts) \in Nat
  OBVIOUS
<1>2. Nat \subseteq Reached
  <2>1. 0 \in Reached
    <3> DEFINE g == [i \in 0..0 |-> Found(start)]
    <3>1. g = [i \in 0..0 |-> Turn(g, i)]
      OBVIOUS
    <3>2. QED
      BY <3>1
  <2>2. ASSUME NEW n \in Nat, n \in Reached PROVE n + 1 \in Reached
    <3>1. PICK f : f = [i \in 0..n |-> Turn(f, i)]
      BY <2>2
    <3> DEFINE g == [i \in 0..(n + 1) |-> IF i = n + 1 THEN Step(f[n], parts[n + 1], forbidden, code) ELSE f[i]]
    <3>2. ASSUME NEW i \in 0..(n + 1) PROVE g[i] = Turn(g, i)
      <4>1. CASE i = 0
        <5>1. g[i] = f[0] /\ f[0] = Turn(f, 0)
          BY <3>1, <4>1
        <5>2. QED
          BY <4>1, <5>1
      <4>2. CASE i \in 1..n
        <5>1. g[i] = f[i] /\ g[i - 1] = f[i - 1]
          BY <4>2
        <5>2. f[i] = Turn(f, i)
          <6>1. i \in 0..n
            BY <4>2
          <6>2. QED
            BY <3>1, <6>1
        <5>3. QED
          BY <4>2, <5>1, <5>2
      <4>3. CASE i = n + 1
        <5>1. g[i - 1] = f[n] /\ g[i] = Step(f[n], parts[i], forbidden, code) /\ i # 0
          BY <4>3
        <5>2. QED
          BY <5>1
      <4>4. QED
        BY <4>1, <4>2, <4>3
    <3>3. g = [i \in 0..(n + 1) |-> g[i]]
      OBVIOUS
    <3> HIDE DEF g
    <3>4. g = [i \in 0..(n + 1) |-> Turn(g, i)]
      BY <3>2, <3>3
    <3> HIDE DEF Turn
    <3>5. \E h : h = [i \in 0..(n + 1) |-> Turn(h, i)]
      BY <3>4
    <3>6. n + 1 \in Nat
      OBVIOUS
    <3>7. QED
      BY <3>5, <3>6, Zenon
  <2> HIDE DEF Reached
  <2>3. QED
    BY <2>1, <2>2, Counting
<1>3. walk = [i \in 0..Len(parts) |-> Turn(walk, i)]
  <2>1. \E f : f = [i \in 0..Len(parts) |-> Turn(f, i)]
    BY <1>1, <1>2
  <2> HIDE DEF Turn
  <2>2. QED
    BY <2>1, Zenon
<1>4. Walk(start, parts, forbidden, code) = walk[Len(parts)]
  BY Zenon DEF Walk
<1> HIDE DEF walk
<1>5. Walked(walk, start, parts, forbidden, code)
  BY <1>1, <1>3 DEF Walked
<1>6. QED
  BY <1>4, <1>5

\* There is one walk.
LEMMA WalkIs ==
    ASSUME NEW start, NEW parts \in Seq(STRING), NEW forbidden, NEW code,
           NEW done, Walked(done, start, parts, forbidden, code)
    PROVE  Walk(start, parts, forbidden, code) = done[Len(parts)]
<1>1. PICK walk : /\ Walked(walk, start, parts, forbidden, code)
                  /\ Walk(start, parts, forbidden, code) = walk[Len(parts)]
  BY WalkIsWalked
<1> DEFINE Same == {n \in Nat : n <= Len(parts) => walk[n] = done[n]}
<1>2. 0 \in Same
  BY <1>1 DEF Walked
<1>3. ASSUME NEW n \in Nat, n \in Same PROVE n + 1 \in Same
  <2>1. CASE n + 1 \in 1..Len(parts)
    <3>1. /\ walk[n + 1] = Step(walk[(n + 1) - 1], parts[n + 1], forbidden, code)
          /\ done[n + 1] = Step(done[(n + 1) - 1], parts[n + 1], forbidden, code)
      BY <1>1, <2>1 DEF Walked
    <3>2. walk[n] = done[n] /\ (n + 1) - 1 = n
      BY <1>3, <2>1
    <3>3. QED
      BY <3>1, <3>2
  <2>2. QED
    BY <2>1
<1>4. Nat \subseteq Same
  <2> HIDE DEF Same
  <2>1. QED
    BY <1>2, <1>3, Counting
<1>5. Len(parts) \in Nat
  OBVIOUS
<1>6. QED
  BY <1>1, <1>4, <1>5

Dots == {NoName, CurDir, ParentDir}

LEMMA DotsDiffer == NoName # CurDir /\ NoName # ParentDir /\ CurDir # ParentDir
<1>1. NoName # CurDir
  BY DEF NoName, CurDir
<1>2. NoName # ParentDir
  BY DEF NoName, ParentDir
<1>3. CurDir # ParentDir
  BY DEF CurDir, ParentDir
<1>4. QED
  BY <1>1, <1>2, <1>3

\* What is neither refused nor skipped nor ".." is in the path that is found.
LEMMA StepFinds ==
    ASSUME NEW S, NEW path \in Seq(S), NEW part, part \in S \cup Dots,
           NEW forbidden, NEW code, code # "none"
    PROVE  LET there == Step(Found(path), part, forbidden, code)
           IN  Ok(there) => there.path \in Seq(S) /\ there = Found(there.path)
<1>1. CASE part \in forbidden
  BY <1>1 DEF Step, Ok, Found, Refused
<1>2. CASE part \notin forbidden /\ part \in {NoName, CurDir}
  <2>1. Step(Found(path), part, forbidden, code) = Found(path)
    BY <1>2, DotsDiffer DEF Step, Ok, Found
  <2>2. QED
    BY <2>1 DEF Ok, Found
<1>3. CASE part \notin forbidden /\ part = ParentDir
  <2>1. path # <<>> => Front(path) \in Seq(S)
    BY DEF Front
  <2>2. Step(Found(path), part, forbidden, code)
            = IF path = <<>> THEN Refused("path-escape") ELSE Found(Front(path))
    BY <1>3, DotsDiffer DEF Step, Ok, Found
  <2>3. QED
    BY <2>1, <2>2 DEF Ok, Found, Refused
<1>4. CASE part \notin forbidden /\ part \notin Dots
  <2>1. Append(path, part) \in Seq(S)
    BY <1>4 DEF Dots
  <2>2. Step(Found(path), part, forbidden, code) = Found(Append(path, part))
    BY <1>4 DEF Step, Ok, Found, Dots
  <2>3. QED
    BY <2>1, <2>2 DEF Ok, Found, Refused
<1>5. QED
  BY <1>1, <1>2, <1>3, <1>4 DEF Dots

\* No walk goes on after a refusal.
LEMMA StepStays ==
    ASSUME NEW done, ~ Ok(done), NEW part, NEW forbidden, NEW code
    PROVE  Step(done, part, forbidden, code) = done
  BY DEF Step

\* A walk finds paths made of names among the parts.
LEMMA WalkFinds ==
    ASSUME NEW S, NEW parts \in Seq(STRING),
           \A i \in 1..Len(parts) : parts[i] \in S \cup Dots,
           NEW forbidden, NEW code, code # "none"
    PROVE  LET end == Walk(<<>>, parts, forbidden, code)
           IN  Ok(end) => end.path \in Seq(S) /\ end = Found(end.path)
<1>1. PICK done : /\ Walked(done, <<>>, parts, forbidden, code)
                  /\ Walk(<<>>, parts, forbidden, code) = done[Len(parts)]
  BY WalkIsWalked
<1> DEFINE Good == {n \in Nat : n <= Len(parts) /\ Ok(done[n]) =>
                                    done[n].path \in Seq(S) /\ done[n] = Found(done[n].path)}
<1>2. 0 \in Good
  <2>1. done[0] = Found(<<>>) /\ <<>> \in Seq(S)
    BY <1>1 DEF Walked
  <2>2. done[0].path \in Seq(S) /\ done[0] = Found(done[0].path)
    BY <2>1 DEF Found
  <2>3. QED
    BY <2>2
<1>3. ASSUME NEW n \in Nat, n \in Good PROVE n + 1 \in Good
  <2> SUFFICES ASSUME n + 1 <= Len(parts), Ok(done[n + 1])
               PROVE  done[n + 1].path \in Seq(S) /\ done[n + 1] = Found(done[n + 1].path)
    OBVIOUS
  <2>1. n + 1 \in 1..Len(parts) /\ (n + 1) - 1 = n
    OBVIOUS
  <2>2. done[n + 1] = Step(done[n], parts[n + 1], forbidden, code)
    BY <1>1, <2>1 DEF Walked
  <2>3. Ok(done[n])
    BY <2>2, StepStays
  <2>4. PICK path \in Seq(S) : done[n] = Found(path)
    BY <1>3, <2>1, <2>3
  <2>5. QED
    BY <2>1, <2>2, <2>4, StepFinds
<1>4. Nat \subseteq Good
  <2> HIDE DEF Good
  <2>1. QED
    BY <1>2, <1>3, Counting
<1>5. Len(parts) \in Nat
  OBVIOUS
<1>6. QED
  BY <1>1, <1>4, <1>5

\* A walk from a path without dots is the end of the walk along it and further.
LEMMA WalkJoins ==
    ASSUME NEW base \in Seq(STRING), \A i \in 1..Len(base) : base[i] \notin Dots,
           NEW specifier \in Seq(STRING), NEW forbidden \in SUBSET Dots, NEW code
    PROVE  Walk(base, specifier, forbidden, code) = Walk(<<>>, base \o specifier, forbidden, code)
<1> DEFINE parts == base \o specifier
           B == Len(base)
<1>1. /\ parts \in Seq(STRING) /\ B \in Nat /\ Len(specifier) \in Nat
      /\ Len(parts) = B + Len(specifier)
      /\ \A i \in 1..B : parts[i] = base[i]
      /\ \A i \in 1..Len(specifier) : parts[B + i] = specifier[i]
  OBVIOUS
<1> HIDE DEF parts
<1>2. PICK done : /\ Walked(done, <<>>, parts, forbidden, code)
                  /\ Walk(<<>>, parts, forbidden, code) = done[Len(parts)]
  <2>1. parts \in Seq(STRING)
    BY <1>1
  <2>2. QED
    BY <2>1, WalkIsWalked
<1> DEFINE Along == {n \in Nat : n <= B => done[n] = Found(SubSeq(base, 1, n))}
<1>3. 0 \in Along
  <2>1. SubSeq(base, 1, 0) = <<>>
    OBVIOUS
  <2>2. QED
    BY <1>2, <2>1 DEF Walked
<1>4. ASSUME NEW n \in Nat, n \in Along PROVE n + 1 \in Along
  <2> SUFFICES ASSUME n + 1 <= B PROVE done[n + 1] = Found(SubSeq(base, 1, n + 1))
    OBVIOUS
  <2>1. n + 1 \in 1..Len(parts) /\ (n + 1) - 1 = n /\ n + 1 \in 1..B
    BY <1>1
  <2>2. done[n + 1] = Step(done[n], parts[n + 1], forbidden, code)
    BY <1>2, <2>1 DEF Walked
  <2>3. done[n] = Found(SubSeq(base, 1, n)) /\ parts[n + 1] = base[n + 1]
    BY <1>1, <1>4, <2>1
  <2>4. base[n + 1] \notin Dots /\ base[n + 1] \notin forbidden
    BY <2>1
  <2>5. done[n + 1] = Found(Append(SubSeq(base, 1, n), base[n + 1]))
    <3> DEFINE path == SubSeq(base, 1, n)
               part == base[n + 1]
    <3> HIDE DEF path, part
    <3>1. part \notin Dots /\ part \notin forbidden
      BY <2>4 DEF part
    <3>2. Step(Found(path), part, forbidden, code) = Found(Append(path, part))
      BY <3>1 DEF Step, Ok, Found, Dots
    <3>3. QED
      BY <2>2, <2>3, <3>2 DEF path, part
  <2>6. Append(SubSeq(base, 1, n), base[n + 1]) = SubSeq(base, 1, n + 1)
    BY <2>1
  <2>7. QED
    BY <2>5, <2>6
<1>5. done[B] = Found(base)
  <2>1. Nat \subseteq Along
    <3> HIDE DEF Along
    <3>1. QED
      BY <1>3, <1>4, Counting
  <2>2. SubSeq(base, 1, B) = base
    OBVIOUS
  <2>3. done[B] = Found(SubSeq(base, 1, B))
    BY <1>1, <2>1
  <2>4. QED
    BY <2>2, <2>3
<1> DEFINE on == [n \in 0..Len(specifier) |-> done[B + n]]
<1>6. Walked(on, base, specifier, forbidden, code)
  <2>1. on[0] = Found(base)
    BY <1>1, <1>5
  <2>2. ASSUME NEW n \in 1..Len(specifier) PROVE on[n] = Step(on[n - 1], specifier[n], forbidden, code)
    <3>1. B + n \in 1..Len(parts) /\ parts[B + n] = specifier[n] /\ (B + n) - 1 = B + (n - 1) /\ n - 1 \in 0..Len(specifier)
      BY <1>1
    <3>2. done[B + n] = Step(done[(B + n) - 1], parts[B + n], forbidden, code)
      BY <1>2, <3>1 DEF Walked
    <3>3. on[n] = done[B + n] /\ on[n - 1] = done[B + (n - 1)]
      BY <1>1, <3>1
    <3>4. QED
      BY <3>1, <3>2, <3>3
  <2> HIDE DEF on
  <2>3. QED
    BY <2>1, <2>2 DEF Walked
<1>7. on[Len(specifier)] = done[Len(parts)]
  BY <1>1
<1> HIDE DEF on
<1>8. Walk(base, specifier, forbidden, code) = on[Len(specifier)]
  BY <1>6, WalkIs
<1>9. QED
  BY <1>2, <1>7, <1>8 DEF parts

\* Of two walks of which one refuses an empty part and the other skips it, the
\* second leads where the first does, if the first leads anywhere.
LEMMA WalksAgree ==
    ASSUME NEW parts \in Seq(STRING), NEW code, NEW lax, code # "none",
           Ok(Walk(<<>>, parts, {NoName}, code))
    PROVE  Walk(<<>>, parts, {}, lax) = Walk(<<>>, parts, {NoName}, code)
<1>1. PICK strict : /\ Walked(strict, <<>>, parts, {NoName}, code)
                    /\ Walk(<<>>, parts, {NoName}, code) = strict[Len(parts)]
  BY WalkIsWalked
<1>2. PICK done : /\ Walked(done, <<>>, parts, {}, lax)
                  /\ Walk(<<>>, parts, {}, lax) = done[Len(parts)]
  BY WalkIsWalked
<1> DEFINE Agreed == {n \in Nat : n <= Len(parts) /\ Ok(strict[n]) => done[n] = strict[n]}
<1>3. 0 \in Agreed
  BY <1>1, <1>2 DEF Walked
<1>4. ASSUME NEW n \in Nat, n \in Agreed PROVE n + 1 \in Agreed
  <2> SUFFICES ASSUME n + 1 <= Len(parts), Ok(strict[n + 1]) PROVE done[n + 1] = strict[n + 1]
    OBVIOUS
  <2>1. n + 1 \in 1..Len(parts) /\ (n + 1) - 1 = n
    OBVIOUS
  <2>2. /\ strict[n + 1] = Step(strict[n], parts[n + 1], {NoName}, code)
        /\ done[n + 1] = Step(done[n], parts[n + 1], {}, lax)
    BY <1>1, <1>2, <2>1 DEF Walked
  <2>3. Ok(strict[n])
    BY <2>2, StepStays
  <2>4. done[n] = strict[n]
    BY <1>4, <2>1, <2>3
  <2>5. parts[n + 1] # NoName
    BY <2>2, <2>3 DEF Step, Refused, Ok
  <2>6. QED
    BY <2>2, <2>3, <2>4, <2>5 DEF Step
<1>5. Nat \subseteq Agreed
  <2> HIDE DEF Agreed
  <2>1. QED
    BY <1>3, <1>4, Counting
<1>6. Len(parts) \in Nat
  OBVIOUS
<1>7. QED
  BY <1>1, <1>2, <1>5, <1>6

-----------------------------------------------------------------------------
(* Where names lead *)

\* One more index is in a filtered interval, or it is as it was.
LEMMA CountOne ==
    ASSUME NEW T, NEW k \in Nat
    PROVE  LET Of(n) == {i \in 1..n : i \in T}
           IN  /\ Cardinality(Of(k)) \in Nat
               /\ Cardinality(Of(0)) = 0
               /\ Cardinality(Of(k + 1)) = Cardinality(Of(k)) + (IF k + 1 \in T THEN 1 ELSE 0)
<1> DEFINE Of(n) == {i \in 1..n : i \in T}
<1>1. IsFiniteSet(1..k) /\ Of(k) \subseteq 1..k
  BY FS_Interval
<1>2. IsFiniteSet(Of(k))
  BY <1>1, FS_Subset
<1>3. Cardinality(Of(k)) \in Nat
  BY <1>2, FS_CardinalityType
<1>4. Of(0) = {} /\ Cardinality({}) = 0
  BY FS_EmptySet
<1>5. k + 1 \in T => Of(k + 1) = Of(k) \cup {k + 1} /\ k + 1 \notin Of(k)
  OBVIOUS
<1>6. k + 1 \notin T => Of(k + 1) = Of(k)
  OBVIOUS
<1> HIDE DEF Of
<1>7. k + 1 \in T => Cardinality(Of(k + 1)) = Cardinality(Of(k)) + 1
  BY <1>2, <1>5, FS_AddElement
<1>8. /\ Cardinality(Of(k)) \in Nat
      /\ Cardinality(Of(0)) = 0
      /\ Cardinality(Of(k + 1)) = Cardinality(Of(k)) + (IF k + 1 \in T THEN 1 ELSE 0)
  BY <1>3, <1>4, <1>6, <1>7
<1>9. QED
  BY <1>8 DEF Of

\* A ".." leads up, a "." nowhere, and a name down.
LEMMA DepthSteps ==
    ASSUME NEW parts, NEW k \in Nat
    PROVE  /\ Depth(parts, 0) = 0
           /\ Depth(parts, k) \in Int
           /\ parts[k + 1] = ParentDir => Depth(parts, k + 1) = Depth(parts, k) - 1
           /\ parts[k + 1] = CurDir => Depth(parts, k + 1) = Depth(parts, k)
           /\ parts[k + 1] \notin {CurDir, ParentDir} => Depth(parts, k + 1) = Depth(parts, k) + 1
<1> DEFINE Down == {i \in Nat : parts[i] \notin {CurDir, ParentDir}}
           Up == {i \in Nat : parts[i] = ParentDir}
           Downs(n) == Cardinality({i \in 1..n : i \in Down})
           Ups(n) == Cardinality({i \in 1..n : i \in Up})
<1>1. ASSUME NEW n \in Nat PROVE Depth(parts, n) = Downs(n) - Ups(n)
  <2>1. /\ {i \in 1..n : i \in Down} = {i \in 1..n : parts[i] \notin {CurDir, ParentDir}}
        /\ {i \in 1..n : i \in Up} = {i \in 1..n : parts[i] = ParentDir}
    OBVIOUS
  <2>2. QED
    BY <2>1 DEF Depth
<1>2. k + 1 \in Nat /\ (k + 1 \in Down <=> parts[k + 1] \notin {CurDir, ParentDir}) /\ (k + 1 \in Up <=> parts[k + 1] = ParentDir)
  OBVIOUS
<1> HIDE DEF Down, Up
<1>3. Downs(k) \in Nat /\ Downs(0) = 0 /\ Downs(k + 1) = Downs(k) + (IF k + 1 \in Down THEN 1 ELSE 0)
  BY CountOne
<1>4. Ups(k) \in Nat /\ Ups(0) = 0 /\ Ups(k + 1) = Ups(k) + (IF k + 1 \in Up THEN 1 ELSE 0)
  BY CountOne
<1> HIDE DEF Downs, Ups
<1>5. Depth(parts, 0) = Downs(0) - Ups(0) /\ Depth(parts, k) = Downs(k) - Ups(k) /\ Depth(parts, k + 1) = Downs(k + 1) - Ups(k + 1)
  BY <1>1, <1>2
<1>6. Depth(parts, 0) = 0 /\ Depth(parts, k) \in Int
  BY <1>3, <1>4, <1>5
<1>7. parts[k + 1] = ParentDir => k + 1 \in Up /\ k + 1 \notin Down
  BY <1>2
<1>8. parts[k + 1] = CurDir => k + 1 \notin Up /\ k + 1 \notin Down
  BY <1>2, DotsDiffer
<1>9. parts[k + 1] \notin {CurDir, ParentDir} => k + 1 \notin Up /\ k + 1 \in Down
  BY <1>2
<1>10. QED
  BY <1>3, <1>4, <1>5, <1>6, <1>7, <1>8, <1>9

\* The name at each depth is the last one that reached it.
Leads(parts, path, n) ==
    /\ path \in Seq(STRING)
    /\ \A k \in 1..n : Depth(parts, k) >= 0
    /\ Len(path) = Depth(parts, n)
    /\ \A d \in 1..Len(path) : \E i \in 1..n :
           /\ parts[i] = path[d] /\ parts[i] \notin {CurDir, ParentDir}
           /\ Depth(parts, i) = d
           /\ \A j \in i + 1..n : Depth(parts, j) >= d

LEMMA LeadsOn ==
    ASSUME NEW parts \in Seq(STRING), NEW path, NEW n \in Nat, Leads(parts, path, n), n + 1 <= Len(parts),
           parts[n + 1] # NoName
    PROVE  LET there == Step(Found(path), parts[n + 1], {NoName}, "invalid-module")
           IN  /\ Ok(there) => Leads(parts, there.path, n + 1)
               /\ ~ Ok(there) => Depth(parts, n + 1) < 0
<1> DEFINE part == parts[n + 1]
           there == Step(Found(path), part, {NoName}, "invalid-module")
<1>1. part \in STRING /\ n + 1 \in Nat /\ path \in Seq(STRING) /\ Len(path) \in Nat /\ Len(path) = Depth(parts, n)
  BY DEF Leads
<1>2. \A k \in 1..(n + 1) : k \in 1..n \/ k = n + 1
  OBVIOUS
<1>3. CASE part = CurDir
  <2>1. there = Found(path)
    BY <1>3, DotsDiffer DEF Step, Ok, Found
  <2>2. Depth(parts, n + 1) = Len(path)
    BY <1>1, <1>3, DepthSteps
  <2>3. \A k \in 1..(n + 1) : Depth(parts, k) >= 0
    BY <1>1, <1>2, <2>2 DEF Leads
  <2>4. ASSUME NEW d \in 1..Len(path)
        PROVE  \E i \in 1..(n + 1) : /\ parts[i] = path[d] /\ parts[i] \notin {CurDir, ParentDir}
                                     /\ Depth(parts, i) = d
                                     /\ \A j \in i + 1..(n + 1) : Depth(parts, j) >= d
    <3>1. PICK i \in 1..n : /\ parts[i] = path[d] /\ parts[i] \notin {CurDir, ParentDir}
                            /\ Depth(parts, i) = d
                            /\ \A j \in i + 1..n : Depth(parts, j) >= d
      BY DEF Leads
    <3>2. \A j \in i + 1..(n + 1) : j \in i + 1..n \/ j = n + 1
      OBVIOUS
    <3>3. \A j \in i + 1..(n + 1) : Depth(parts, j) >= d
      BY <1>1, <2>2, <3>1, <3>2
    <3>4. i \in 1..(n + 1)
      OBVIOUS
    <3>5. QED
      BY <3>1, <3>3, <3>4
  <2>5. Leads(parts, path, n + 1)
    BY <1>1, <2>2, <2>3, <2>4 DEF Leads
  <2>6. QED
    BY <2>1, <2>5 DEF Ok, Found
<1>4. CASE part = ParentDir
  <2>1. there = IF path = <<>> THEN Refused("path-escape") ELSE Found(Front(path))
    BY <1>4, DotsDiffer DEF Step, Ok, Found
  <2>2. Depth(parts, n + 1) = Len(path) - 1
    BY <1>1, <1>4, DepthSteps
  <2>3. CASE path = <<>>
    <3>1. Len(path) = 0
      BY <2>3
    <3>2. QED
      BY <2>1, <2>2, <2>3, <3>1 DEF Ok, Refused
  <2>4. CASE path # <<>>
    <3>1. PICK up : up = Front(path)
      OBVIOUS
    <3>2. /\ Len(path) # 0 /\ up \in Seq(STRING) /\ Len(up) = Len(path) - 1
          /\ \A d \in 1..Len(up) : up[d] = path[d] /\ d \in 1..Len(path)
      BY <1>1, <2>4, <3>1 DEF Front
    <3>3. \A k \in 1..(n + 1) : Depth(parts, k) >= 0
      BY <1>1, <1>2, <2>2, <3>2 DEF Leads
    <3>4. ASSUME NEW d \in 1..Len(up)
          PROVE  \E i \in 1..(n + 1) : /\ parts[i] = up[d] /\ parts[i] \notin {CurDir, ParentDir}
                                       /\ Depth(parts, i) = d
                                       /\ \A j \in i + 1..(n + 1) : Depth(parts, j) >= d
      <4>1. d \in 1..Len(path) /\ up[d] = path[d] /\ Depth(parts, n + 1) >= d /\ d \in Nat
        BY <2>2, <3>2
      <4>2. PICK i \in 1..n : /\ parts[i] = path[d] /\ parts[i] \notin {CurDir, ParentDir}
                              /\ Depth(parts, i) = d
                              /\ \A j \in i + 1..n : Depth(parts, j) >= d
        BY <4>1 DEF Leads
      <4>3. \A j \in i + 1..(n + 1) : j \in i + 1..n \/ j = n + 1
        OBVIOUS
      <4>4. \A j \in i + 1..(n + 1) : Depth(parts, j) >= d
        BY <4>1, <4>2, <4>3
      <4>5. i \in 1..(n + 1)
        OBVIOUS
      <4>6. QED
        BY <4>1, <4>2, <4>4, <4>5
    <3>5. Leads(parts, up, n + 1)
      BY <2>2, <3>2, <3>3, <3>4 DEF Leads
    <3>6. QED
      BY <2>1, <2>4, <3>1, <3>5 DEF Ok, Found
  <2>5. QED
    BY <2>3, <2>4
<1>5. CASE part \notin {CurDir, ParentDir}
  <2>1. there = Found(Append(path, part))
    BY <1>5 DEF Step, Ok, Found
  <2>2. PICK down : down = Append(path, part)
    OBVIOUS
  <2>3. /\ down \in Seq(STRING) /\ Len(down) = Len(path) + 1
        /\ down[Len(down)] = part
        /\ \A d \in 1..Len(path) : down[d] = path[d]
    BY <1>1, <2>2
  <2>4. Depth(parts, n + 1) = Len(down)
    BY <1>1, <1>5, <2>3, DepthSteps
  <2>5. \A k \in 1..(n + 1) : Depth(parts, k) >= 0
    BY <1>1, <1>2, <2>3, <2>4 DEF Leads
  <2>6. ASSUME NEW d \in 1..Len(down)
        PROVE  \E i \in 1..(n + 1) : /\ parts[i] = down[d] /\ parts[i] \notin {CurDir, ParentDir}
                                     /\ Depth(parts, i) = d
                                     /\ \A j \in i + 1..(n + 1) : Depth(parts, j) >= d
    <3>1. CASE d = Len(down)
      <4>1. n + 1 \in 1..(n + 1) /\ (n + 1) + 1..(n + 1) = {}
        OBVIOUS
      <4>2. QED
        BY <1>5, <2>3, <2>4, <3>1, <4>1
    <3>2. CASE d # Len(down)
      <4>1. d \in 1..Len(path) /\ down[d] = path[d] /\ Depth(parts, n + 1) >= d /\ d \in Nat
        BY <1>1, <2>3, <2>4, <3>2
      <4>2. PICK i \in 1..n : /\ parts[i] = path[d] /\ parts[i] \notin {CurDir, ParentDir}
                              /\ Depth(parts, i) = d
                              /\ \A j \in i + 1..n : Depth(parts, j) >= d
        BY <4>1 DEF Leads
      <4>3. \A j \in i + 1..(n + 1) : j \in i + 1..n \/ j = n + 1
        OBVIOUS
      <4>4. \A j \in i + 1..(n + 1) : Depth(parts, j) >= d
        BY <4>1, <4>2, <4>3
      <4>5. i \in 1..(n + 1)
        OBVIOUS
      <4>6. QED
        BY <4>1, <4>2, <4>4, <4>5
    <3>3. QED
      BY <3>1, <3>2
  <2>7. Leads(parts, down, n + 1)
    BY <2>3, <2>4, <2>5, <2>6 DEF Leads
  <2>8. there = Found(down)
    BY <2>1, <2>2
  <2>9. QED
    BY <2>7, <2>8 DEF Ok, Found
<1>6. QED
  BY <1>3, <1>4, <1>5

\* A walk down the parts of a text, with its landmarks.
LEMMA WalkLeads ==
    ASSUME NEW parts \in Seq(STRING)
    PROVE  LET end == Walk(<<>>, parts, {NoName}, "invalid-module")
           IN  /\ Ok(end) => Leads(parts, end.path, Len(parts))
               /\ end.code = "path-escape" => \E k \in 1..Len(parts) : Depth(parts, k) < 0
<1>1. PICK done : /\ Walked(done, <<>>, parts, {NoName}, "invalid-module")
                  /\ Walk(<<>>, parts, {NoName}, "invalid-module") = done[Len(parts)]
  BY WalkIsWalked
<1> DEFINE Climbs == \E k \in 1..Len(parts) : Depth(parts, k) < 0
           Marked == {n \in Nat : n <= Len(parts) =>
                         /\ Ok(done[n]) => Leads(parts, done[n].path, n) /\ done[n] = Found(done[n].path)
                         /\ done[n].code = "path-escape" => Climbs}
<1>2. 0 \in Marked
  <2>1. done[0] = Found(<<>>)
    BY <1>1 DEF Walked
  <2>2. Leads(parts, <<>>, 0)
    <3>1. Depth(parts, 0) = 0
      BY DepthSteps
    <3>2. QED
      BY <3>1 DEF Leads
  <2>3. QED
    BY <2>1, <2>2 DEF Found
<1>3. ASSUME NEW n \in Nat, n \in Marked PROVE n + 1 \in Marked
  <2> SUFFICES ASSUME n + 1 <= Len(parts)
               PROVE  /\ Ok(done[n + 1]) => Leads(parts, done[n + 1].path, n + 1) /\ done[n + 1] = Found(done[n + 1].path)
                      /\ done[n + 1].code = "path-escape" => Climbs
    OBVIOUS
  <2>1. n + 1 \in 1..Len(parts) /\ (n + 1) - 1 = n /\ n <= Len(parts)
    OBVIOUS
  <2>2. done[n + 1] = Step(done[n], parts[n + 1], {NoName}, "invalid-module")
    BY <1>1, <2>1 DEF Walked
  <2> HIDE DEF Climbs
  <2>3. CASE ~ Ok(done[n])
    BY <1>3, <2>1, <2>2, <2>3, StepStays
  <2>4. CASE Ok(done[n])
    <3>1. PICK path : done[n] = Found(path) /\ Leads(parts, path, n)
      BY <1>3, <2>1, <2>4
    <3>2. CASE parts[n + 1] = NoName
      <4>1. done[n + 1] = Refused("invalid-module")
        BY <2>2, <3>1, <3>2 DEF Step, Ok, Found
      <4>2. QED
        BY <4>1 DEF Refused, Ok
    <3>3. CASE parts[n + 1] # NoName
      <4>1. /\ Ok(done[n + 1]) => Leads(parts, done[n + 1].path, n + 1)
            /\ ~ Ok(done[n + 1]) => Depth(parts, n + 1) < 0
        BY <2>2, <3>1, <3>3, LeadsOn
      <4>2. ~ Ok(done[n + 1]) => Climbs
        BY <2>1, <4>1 DEF Climbs
      <4>3. Ok(done[n + 1]) => done[n + 1] = Found(done[n + 1].path)
        <5>1. parts[n + 1] \in STRING \cup Dots /\ path \in Seq(STRING)
          BY <2>1, <3>1 DEF Leads
        <5>2. QED
          BY <2>2, <3>1, <5>1, StepFinds
      <4>4. Ok(done[n + 1]) => done[n + 1].code # "path-escape"
        BY DEF Ok
      <4>5. QED
        BY <4>1, <4>2, <4>3, <4>4
    <3>4. QED
      BY <3>2, <3>3
  <2>5. QED
    BY <2>3, <2>4
<1>4. Nat \subseteq Marked
  <2> HIDE DEF Marked
  <2>1. QED
    BY <1>2, <1>3, Counting
<1>5. Len(parts) \in Nat
  OBVIOUS
<1>6. QED
  BY <1>1, <1>4, <1>5

-----------------------------------------------------------------------------
(* Names of modules *)

Names == STRING \ Dots
NameSeqs == {path \in Seq(Names) : path # <<>>}

\* What is accepted of a descriptor is a path of names that it holds.
LEMMA DescriptorNames ==
    ASSUME NEW text \in Seq(STRING), text # <<>>, Ok(NormalizeDescriptorPath(text))
    PROVE  /\ NormalizeDescriptorPath(text).path \in Seq(Names \ Odd)
           /\ NormalizeDescriptorPath(text).path # <<>>
<1> DEFINE end == Walk(<<>>, text, {}, "path-escape")
<1>1. /\ \A i \in 1..Len(text) : text[i] \notin Odd
      /\ NormalizeDescriptorPath(text) = end /\ Ok(end) /\ end.path # <<>>
  <2> HIDE DEF end
  <2>1. ~ Ok(Refused("path-escape"))
    BY DEF Ok, Refused
  <2>2. \A i \in 1..Len(text) : text[i] \notin Odd
    BY <2>1 DEF NormalizeDescriptorPath
  <2>3. NormalizeDescriptorPath(text) = NormalizeRelative(text, {CurDir})
    BY <2>1 DEF NormalizeDescriptorPath
  <2>4. NormalizeRelative(text, {CurDir}) = end /\ ~ (Ok(end) /\ end.path = <<>>)
    BY <2>1, <2>3 DEF NormalizeRelative, end
  <2>5. QED
    BY <2>2, <2>3, <2>4
<1>2. \A i \in 1..Len(text) : text[i] \in (Names \ Odd) \cup Dots
  BY <1>1 DEF Names
<1>3. Ok(end) => end.path \in Seq(Names \ Odd)
  <2> DEFINE S == Names \ Odd
  <2> HIDE DEF S
  <2>1. \A i \in 1..Len(text) : text[i] \in S \cup Dots
    BY <1>2 DEF S
  <2>2. QED
    BY <2>1, WalkFinds DEF S
<1> HIDE DEF end
<1>4. QED
  BY <1>1, <1>3

LEMMA FrontOf ==
    ASSUME NEW S, NEW path \in Seq(S), path # <<>>
    PROVE  Front(path) \in Seq(S) /\ Len(Front(path)) = Len(path) - 1
<1> DEFINE n == Len(path) - 1
<1>1. n \in Nat
  OBVIOUS
<1>2. Front(path) \in Seq(S)
  BY DEF Front
<1>3. Len(SubSeq(path, 1, n)) = n
  <2> HIDE DEF n
  <2>1. QED
    BY <1>1
<1>4. QED
  BY <1>2, <1>3 DEF Front

\* The name of an import is where its parts lead, a path of names with the extension of a module.
LEMMA ImportNames ==
    ASSUME NEW base \in NameSeqs, NEW specifier \in Seq(STRING)
    PROVE  LET parts == Front(base) \o specifier
               end   == Walk(<<>>, parts, {NoName}, "invalid-module")
               name  == NormalizeName(base, specifier)
           IN  /\ parts \in Seq(STRING) /\ Len(parts) = Len(base) - 1 + Len(specifier)
               /\ Ok(name) /\ name.path # Builtin =>
                      /\ Ok(end) /\ name = end
                      /\ name.path \in NameSeqs /\ Last(name.path) \in Mjs
                      /\ Relative(specifier)
               /\ name.code = "path-escape" => name = end
<1> DEFINE parts == Front(base) \o specifier
           end   == Walk(<<>>, parts, {NoName}, "invalid-module")
           name  == NormalizeName(base, specifier)
<1>1. PICK directory : directory = Front(base)
  OBVIOUS
<1>2. /\ directory \in Seq(STRING) /\ directory \in Seq(Names) /\ Len(directory) = Len(base) - 1
      /\ \A i \in 1..Len(directory) : directory[i] \notin Dots
  <2>1. base \in Seq(Names) /\ base # <<>>
    BY DEF NameSeqs
  <2>2. directory \in Seq(Names) /\ Len(directory) = Len(base) - 1
    BY <1>1, <2>1, FrontOf
  <2>3. \A i \in 1..Len(directory) : directory[i] \in Names
    BY <2>2
  <2>4. \A i \in 1..Len(directory) : directory[i] \in STRING /\ directory[i] \notin Dots
    BY <2>3 DEF Names
  <2>5. directory \in Seq(STRING)
    BY <2>2, <2>4
  <2>6. QED
    BY <2>2, <2>4, <2>5
<1>3. parts = directory \o specifier
  BY <1>1
<1>4. parts \in Seq(STRING) /\ Len(parts) = Len(base) - 1 + Len(specifier)
  BY <1>2, <1>3
<1> HIDE DEF parts
<1>5. Walk(directory, specifier, {NoName}, "invalid-module") = end
  <2>1. {NoName} \in SUBSET Dots
    BY DEF Dots
  <2>2. QED
    BY <1>2, <1>3, <2>1, WalkJoins
<1>6. \/ name = Found(Builtin)
      \/ name = Refused("invalid-module")
      \/ Relative(specifier) /\ ~ Ok(end) /\ name = end
      \/ Relative(specifier) /\ Ok(end) /\ name = ValidateNormalizedName(end.path)
  <2>1. name = IF specifier = Builtin THEN Found(Builtin)
               ELSE IF ~ Relative(specifier) \/ \E i \in 1..Len(specifier) : specifier[i] \in Odd
               THEN Refused("invalid-module")
               ELSE IF ~ Ok(end) THEN end
               ELSE ValidateNormalizedName(end.path)
    BY <1>1, <1>5 DEF NormalizeName
  <2> HIDE DEF name, end
  <2>2. QED
    BY <2>1
<1>7. Ok(end) => end.path \in Seq(Names) /\ end = Found(end.path)
  <2>1. \A i \in 1..Len(parts) : parts[i] \in Names \cup Dots
    BY <1>4 DEF Names
  <2>2. parts \in Seq(STRING)
    BY <1>4
  <2>3. QED
    BY <2>1, <2>2, WalkFinds
<1> HIDE DEF name, end
<1>8. Ok(name) /\ name.path # Builtin =>
         /\ Ok(end) /\ name = end
         /\ name.path \in NameSeqs /\ Last(name.path) \in Mjs
         /\ Relative(specifier)
  <2> SUFFICES ASSUME Ok(name), name.path # Builtin
               PROVE  /\ Ok(end) /\ name = end
                      /\ name.path \in NameSeqs /\ Last(name.path) \in Mjs
                      /\ Relative(specifier)
    OBVIOUS
  <2>1. Relative(specifier) /\ Ok(end) /\ name = ValidateNormalizedName(end.path)
    BY <1>6 DEF Ok, Found, Refused
  <2>2. PICK path \in Seq(Names) : end = Found(path) /\ path = end.path
    BY <1>7, <2>1
  <2>3. path # <<>> /\ Last(path) \in Mjs /\ name = Found(path)
    BY <2>1, <2>2 DEF ValidateNormalizedName, Ok, Found, Refused
  <2>4. name.path = path
    BY <2>3 DEF Found
  <2>5. QED
    BY <2>1, <2>2, <2>3, <2>4 DEF NameSeqs
<1>9. name.code = "path-escape" => name = end
  <2>1. ASSUME Ok(end) PROVE ValidateNormalizedName(end.path).code # "path-escape"
    BY DEF ValidateNormalizedName, Found, Refused
  <2>2. QED
    BY <1>6, <2>1 DEF Found, Refused
<1>10. QED
  BY <1>4, <1>8, <1>9 DEF name, end, parts

-----------------------------------------------------------------------------
(* The inductive invariant *)

\* The module to load is the one that was named, and modules are named by paths.
NamesInv ==
    /\ descriptor \in Descriptors
    /\ stage = "load" => Ok(RootModule) /\ module = RootModule.path
    /\ \A name \in modules \ {Builtin} : name \in NameSeqs

\* What an accepted descriptor names can be loaded under that name.
LEMMA RootIsNamed ==
    ASSUME descriptor \in Descriptors, Ok(RootModule)
    PROVE  /\ RootModule.path \in NameSeqs
           /\ ValidateNormalizedName(RootModule.path) = Found(RootModule.path)
           /\ Ok(ResolveRegularFile(RootModule.path, "invalid-descriptor"))
<1> DEFINE relative == NormalizeDescriptorPath(descriptor.module)
<1>1. descriptor.module \in Seq(STRING) /\ descriptor.module # <<>>
  BY PackageAssumption
<1>2. /\ Ok(relative) /\ HasExtension(relative.path) /\ RootModule = relative
      /\ Ok(ResolveRegularFile(relative.path, "invalid-descriptor"))
  <2> HIDE DEF relative
  <2>1. RootModule = IF ~ descriptor.readable \/ descriptor.version # 1 THEN Refused("invalid-descriptor")
                     ELSE IF ~ Ok(relative) THEN relative
                     ELSE IF ~ HasExtension(relative.path) THEN Refused("invalid-descriptor")
                     ELSE IF Ok(ResolveRegularFile(relative.path, "invalid-descriptor")) THEN relative
                     ELSE ResolveRegularFile(relative.path, "invalid-descriptor")
    BY DEF RootModule, relative
  <2>2. ~ Ok(Refused("invalid-descriptor"))
    BY DEF Ok, Refused
  <2>3. QED
    BY <2>1, <2>2
<1>3. relative.path \in Seq(Names \ Odd) /\ relative.path # <<>>
  BY <1>1, <1>2, DescriptorNames
<1> HIDE DEF relative
<1>4. PICK path \in Seq(Names \ Odd) : path = relative.path
  BY <1>3
<1>5. \A i \in 1..Len(path) : path[i] \in Names /\ path[i] \notin Odd
  <2>1. \A i \in 1..Len(path) : path[i] \in Names \ Odd
    OBVIOUS
  <2>2. QED
    BY <2>1
<1>6. path \in NameSeqs
  <2>1. path \in Seq(Names)
    BY <1>5
  <2>2. QED
    BY <1>3, <1>4, <2>1 DEF NameSeqs
<1>7. ValidateNormalizedName(path) = Found(path)
  BY <1>2, <1>3, <1>4, <1>5 DEF ValidateNormalizedName, HasExtension
<1>8. QED
  BY <1>2, <1>4, <1>6, <1>7

LEMMA NamesInit == Init => NamesInv
  BY DEF Init, NamesInv

LEMMA NamesNext == NamesInv /\ [Next]_vars => NamesInv'
<1> SUFFICES ASSUME NamesInv, [Next]_vars PROVE NamesInv'
  OBVIOUS
<1>1. CASE UNCHANGED vars
  <2>1. RootModule' = RootModule
    BY <1>1 DEF vars, package, RootModule, ResolveRegularFile, Inside, Exists, IsDirectory
  <2>2. QED
    BY <1>1, <2>1 DEF NamesInv, vars, package
<1>2. CASE DescriptorMissing
  BY <1>2 DEF DescriptorMissing, Fail, NamesInv, package
<1>3. CASE ReadDescriptor
  <2>1. UNCHANGED <<package, modules>>
    BY <1>3 DEF ReadDescriptor, Fail
  <2>2. CASE Ok(RootModule)
    <3>1. module' = RootModule.path
      BY <1>3, <2>2 DEF ReadDescriptor
    <3>2. RootModule' = RootModule
      BY <2>1 DEF package, RootModule, ResolveRegularFile, Inside, Exists, IsDirectory
    <3>3. QED
      BY <2>1, <2>2, <3>1, <3>2 DEF NamesInv, package
  <2>3. CASE ~ Ok(RootModule)
    BY <1>3, <2>1, <2>3 DEF ReadDescriptor, Fail, NamesInv, package
  <2>4. QED
    BY <2>2, <2>3
<1>4. ASSUME NEW name, Load(name) PROVE modules' \subseteq modules \cup {name}
  BY <1>4 DEF Load
<1>5. CASE LoadRoot
  <2>1. UNCHANGED package /\ stage' # "load"
    BY <1>5 DEF LoadRoot, Fail
  <2>2. Ok(RootModule) /\ module = RootModule.path /\ RootName = Found(module) /\ module \in NameSeqs
    BY <1>5, RootIsNamed DEF LoadRoot, NamesInv, RootName
  <2>3. modules' \subseteq modules \cup {module}
    BY <1>4, <1>5, <2>2 DEF LoadRoot, Found, Ok
  <2>4. QED
    BY <2>1, <2>2, <2>3 DEF NamesInv, package
<1>6. ASSUME NEW base \in modules, NEW specifier \in Specifiers, Import(base, specifier)
      PROVE  NamesInv'
  <2>1. base \in NameSeqs /\ specifier \in Seq(STRING) /\ UNCHANGED <<package, stage, module>> /\ stage # "load"
    BY <1>6, PackageAssumption DEF Import, NamesInv
  <2>2. PICK name : name = NormalizeName(base, specifier)
    OBVIOUS
  <2>3. Ok(name) /\ name.path # Builtin => name.path \in NameSeqs
    BY <2>1, <2>2, ImportNames
  <2>4. modules' = modules \/ (Ok(name) /\ modules' \subseteq modules \cup {name.path})
    BY <1>4, <1>6, <2>2 DEF Import
  <2>5. QED
    BY <2>1, <2>3, <2>4 DEF NamesInv, package
<1>7. QED
  BY <1>1, <1>2, <1>3, <1>5, <1>6 DEF Next

THEOREM NamesHold == Spec => []NamesInv
  BY NamesInit, NamesNext, PTL DEF Spec

-----------------------------------------------------------------------------
(* What follows from it *)

\* A file is found by the policy and located by the loader under the same conditions.
LEMMA LocatedIsFound ==
    ASSUME NEW path, NEW missing
    PROVE  LET file == ResolveRegularFile(path, missing)
           IN  /\ Ok(Locate(path)) => /\ file = Found(root \o path)
                                      /\ Locate(path).path = Canonical(root \o path)
               /\ ~ Ok(Locate(path)) =>
                      file = IF Locate(path).code = "path-escape" THEN Refused("path-escape") ELSE Refused(missing)
               /\ Locate(path).code \in {"none", "path-escape", "invalid-module"}
<1>1. CASE ~ Exists(root \o path)
  <2>1. Locate(path) = Refused("invalid-module") /\ ResolveRegularFile(path, missing) = Refused(missing)
    BY <1>1 DEF Locate, ResolveRegularFile
  <2>2. QED
    BY <2>1 DEF Refused, Ok
<1>2. CASE Exists(root \o path) /\ ~ Inside(root \o path)
  <2>1. Locate(path) = Refused("path-escape") /\ ResolveRegularFile(path, missing) = Refused("path-escape")
    BY <1>2 DEF Locate, ResolveRegularFile
  <2>2. QED
    BY <2>1 DEF Refused, Ok
<1>3. CASE Exists(root \o path) /\ Inside(root \o path) /\ IsDirectory(root \o path)
  <2>1. Locate(path) = Refused("invalid-module") /\ ResolveRegularFile(path, missing) = Refused(missing)
    BY <1>3 DEF Locate, ResolveRegularFile
  <2>2. QED
    BY <2>1 DEF Refused, Ok
<1>4. CASE Exists(root \o path) /\ Inside(root \o path) /\ ~ IsDirectory(root \o path)
  <2>1. Locate(path) = Found(Canonical(root \o path)) /\ ResolveRegularFile(path, missing) = Found(root \o path)
    BY <1>4 DEF Locate, ResolveRegularFile
  <2>2. QED
    BY <2>1 DEF Found, Ok
<1>5. QED
  BY <1>1, <1>2, <1>3, <1>4

(* Whatever a descriptor holds, if it is accepted then the loader takes the *)
(* name it gives and finds the same file under it.                          *)
THEOREM AcceptedRootLoads == Spec => []RootLoads
<1>1. NamesInv => RootLoads
  <2> SUFFICES ASSUME NamesInv, stage = "load"
               PROVE  /\ Ok(RootName)
                      /\ Ok(Locate(RootName.path))
                      /\ Canonical(ResolveRegularFile(module, "none").path) = Locate(RootName.path).path
    BY DEF RootLoads
  <2>1. /\ module \in NameSeqs
        /\ RootName = Found(module)
        /\ Ok(ResolveRegularFile(module, "invalid-descriptor"))
    BY RootIsNamed DEF NamesInv, RootName
  <2>2. RootName.path = module /\ Ok(RootName)
    BY <2>1 DEF Found, Ok
  <2>3. Ok(Locate(module))
    <3>1. ~ Ok(Refused("path-escape")) /\ ~ Ok(Refused("invalid-descriptor"))
      BY DEF Ok, Refused
    <3>2. QED
      BY <2>1, <3>1, LocatedIsFound
  <2>4. ResolveRegularFile(module, "none") = Found(root \o module) /\ Locate(module).path = Canonical(root \o module)
    BY <2>3, LocatedIsFound
  <2>5. Canonical(ResolveRegularFile(module, "none").path) = Locate(module).path
    <3>1. ResolveRegularFile(module, "none").path = root \o module
      BY <2>4 DEF Found
    <3>2. QED
      BY <2>4, <3>1
  <2>6. QED
    BY <2>2, <2>3, <2>5
<1>2. QED
  BY <1>1, NamesHold, PTL

(* Whatever a module imports, a name the loader accepts is judged by the    *)
(* Host's policy as the loader judges it, and means the same file, unless   *)
(* it is the name of a module called ".mjs".                                *)
THEOREM OnePolicy == Spec => []SamePolicy
<1>1. NamesInv => SamePolicy
  <2> SUFFICES ASSUME NamesInv, NEW base \in modules \ {Builtin}, NEW specifier \in Specifiers,
                      Ok(NormalizeName(base, specifier)), NormalizeName(base, specifier).path # Builtin,
                      Last(NormalizeName(base, specifier).path) # ".mjs"
               PROVE  LET name   == NormalizeName(base, specifier)
                          policy == ResolveModule(specifier, base)
                      IN  IF Ok(Locate(name.path))
                          THEN Ok(policy) /\ Canonical(policy.path) = Locate(name.path).path
                          ELSE policy.code = Locate(name.path).code
    BY DEF SamePolicy
  <2> DEFINE parts == Front(base) \o specifier
             end   == Walk(<<>>, parts, {NoName}, "invalid-module")
             name  == NormalizeName(base, specifier)
             policy == ResolveModule(specifier, base)
  <2>1. base \in NameSeqs /\ specifier \in Seq(STRING)
    BY PackageAssumption DEF NamesInv
  <2>2. /\ parts \in Seq(STRING) /\ Ok(end) /\ name = end
        /\ name.path \in NameSeqs /\ Last(name.path) \in Mjs
        /\ Relative(specifier)
    BY <2>1, ImportNames
  <2>3. Walk(<<>>, parts, {}, "path-escape") = end
    BY <2>2, WalksAgree
  <2> HIDE DEF end
  <2>4. NormalizeRelative(parts, {}) = end
    BY <2>2, <2>3 DEF NormalizeRelative, NameSeqs
  <2>5. policy = ResolveRegularFile(name.path, "invalid-module")
    BY <2>2, <2>4 DEF ResolveModule, HasExtension
  <2> HIDE DEF name, policy
  <2>6. CASE Ok(Locate(name.path))
    <3>1. policy = Found(root \o name.path) /\ Locate(name.path).path = Canonical(root \o name.path)
      BY <2>5, <2>6, LocatedIsFound
    <3>2. Ok(policy) /\ Canonical(policy.path) = Locate(name.path).path
      BY <3>1 DEF Found, Ok
    <3>3. QED
      BY <2>6, <3>2 DEF name, policy
  <2>7. CASE ~ Ok(Locate(name.path))
    <3>1. policy.code = Locate(name.path).code
      BY <2>5, <2>7, LocatedIsFound DEF Refused, Ok
    <3>2. QED
      BY <2>7, <3>1 DEF name, policy
  <2>8. QED
    BY <2>6, <2>7
<1>2. QED
  BY <1>1, NamesHold, PTL

(* Whatever a module imports leads where its parts say, and is refused for  *)
(* leaving the package only if it does.                                     *)
THEOREM ImportsResolve == Spec => []NamesResolve
<1>1. NamesInv => NamesResolve
  <2> SUFFICES ASSUME NamesInv, NEW base \in modules \ {Builtin}, NEW specifier \in Specifiers
               PROVE  LET parts == Front(base) \o specifier
                          end   == Depth(parts, Len(parts))
                          name  == NormalizeName(base, specifier)
                          Climbs == \E k \in 1..Len(parts) : Depth(parts, k) < 0
                      IN  /\ name.code = "path-escape" => Climbs
                          /\ Ok(name) /\ name.path # Builtin =>
                                 /\ ~ Climbs
                                 /\ Len(name.path) = end
                                 /\ \A d \in 1..end : \E i \in 1..Len(parts) :
                                        /\ parts[i] = name.path[d] /\ parts[i] \notin {CurDir, ParentDir}
                                        /\ Depth(parts, i) = d
                                        /\ \A j \in i + 1..Len(parts) : Depth(parts, j) >= d
    BY DEF NamesResolve
  <2>1. base \in NameSeqs /\ specifier \in Seq(STRING)
    BY PackageAssumption DEF NamesInv
  <2> DEFINE parts == Front(base) \o specifier
             there == Walk(<<>>, parts, {NoName}, "invalid-module")
             name  == NormalizeName(base, specifier)
  <2>2. /\ parts \in Seq(STRING)
        /\ Ok(name) /\ name.path # Builtin => Ok(there) /\ name = there
        /\ name.code = "path-escape" => name = there
    BY <2>1, ImportNames
  <2>3. /\ Ok(there) => Leads(parts, there.path, Len(parts))
        /\ there.code = "path-escape" => \E k \in 1..Len(parts) : Depth(parts, k) < 0
    BY <2>2, WalkLeads
  <2> HIDE DEF parts, there, name
  <2>4. name.code = "path-escape" => \E k \in 1..Len(parts) : Depth(parts, k) < 0
    BY <2>2, <2>3
  <2>5. ASSUME Ok(name), name.path # Builtin
        PROVE  /\ ~ \E k \in 1..Len(parts) : Depth(parts, k) < 0
               /\ Len(name.path) = Depth(parts, Len(parts))
               /\ \A d \in 1..Depth(parts, Len(parts)) : \E i \in 1..Len(parts) :
                      /\ parts[i] = name.path[d] /\ parts[i] \notin {CurDir, ParentDir}
                      /\ Depth(parts, i) = d
                      /\ \A j \in i + 1..Len(parts) : Depth(parts, j) >= d
    <3>1. Leads(parts, name.path, Len(parts))
      BY <2>2, <2>3, <2>5
    <3>2. ASSUME NEW k \in 1..Len(parts) PROVE ~ (Depth(parts, k) < 0)
      <4>1. k \in Nat /\ Depth(parts, k) \in Int
        BY DepthSteps
      <4>2. Depth(parts, k) >= 0
        BY <3>1 DEF Leads
      <4>3. QED
        BY <4>1, <4>2
    <3>3. Len(name.path) = Depth(parts, Len(parts))
      BY <3>1 DEF Leads
    <3>4. \A d \in 1..Len(name.path) : \E i \in 1..Len(parts) :
                      /\ parts[i] = name.path[d] /\ parts[i] \notin {CurDir, ParentDir}
                      /\ Depth(parts, i) = d
                      /\ \A j \in i + 1..Len(parts) : Depth(parts, j) >= d
      BY <3>1 DEF Leads
    <3>5. QED
      BY <3>2, <3>3, <3>4
  <2>6. QED
    BY <2>4, <2>5 DEF parts, name
<1>2. QED
  BY <1>1, NamesHold, PTL
=============================================================================
