------------------------- MODULE ScriptValuesProofs -------------------------
(***************************************************************************)
(* Values in the payload's hands, for any objects, edits and limits: what  *)
(* from_raw is in the middle of; that it goes through the objects to_raw   *)
(* made of a value in step with the encoder, so that what a payload hands  *)
(* back untouched comes back as what it was; that the counters both        *)
(* encoder and decoder carry add up to what the limits mean; and that the  *)
(* payload's own objects become what they unfold to.                       *)
(***************************************************************************)
EXTENDS BridgeValueProofs, ScriptValues

-----------------------------------------------------------------------------
(* The conversion of a payload's objects *)

FramesOK == Listed(frames)

\* No object is in two frames.
Injective(stack) == \A i, j \in 1..Len(stack) : stack[i].object = stack[j].object => i = j

Objects(stack) == {stack[i].object : i \in 1..Len(stack)}

LEMMA GiveKeeps ==
    ASSUME NEW v, NEW around, Listed(around), Give(v, around)
    PROVE  /\ Listed(frames')
           /\ Len(frames') = Len(around)
           /\ \A i \in 1..Len(around) : frames'[i].object = around[i].object
<1>1. CASE around = <<>>
  BY <1>1, EmptySeq DEF Give, Listed
<1>2. CASE around # <<>>
  <2> DEFINE f == around[Len(around)]
             g == [f EXCEPT !.got = Append(@, v)]
  <2>1. frames' = [around EXCEPT ![Len(around)] = g]
    BY <1>2 DEF Give
  <2>2. g.object = f.object
    OBVIOUS
  <2>3. /\ Listed(frames') /\ Len(frames') = Len(around)
        /\ \A i \in 1..Len(around) - 1 : frames'[i] = around[i]
        /\ frames'[Len(around)] = g
    <3> HIDE DEF g
    <3>1. Replaced(around, g, frames')
      BY <1>2, <2>1, Replacing, Zenon
    <3>2. QED
      BY <3>1 DEF Replaced
  <2>4. Len(around) \in Nat \ {0}
    BY <1>2, ListedRest
  <2> HIDE DEF g
  <2>5. ASSUME NEW i \in 1..Len(around) PROVE frames'[i].object = around[i].object
    <3>1. i = Len(around) \/ i \in 1..Len(around) - 1
      BY <2>4
    <3>2. QED
      BY <2>2, <2>3, <3>1
  <2>6. QED
    BY <2>3, <2>5
<1>3. QED
  BY <1>1, <1>2

\* An object is entered only if it is in none of the frames.
LEMMA EnterKeeps ==
    ASSUME FramesOK, PathsAreSimple, Enter
    PROVE  FramesOK' /\ PathsAreSimple'
<1>1. PICK f : frames' = Append(frames, f) /\ f.object = Source.object
  BY DEF Enter
<1>2. /\ Listed(frames')
      /\ Len(frames) \in Nat
      /\ Len(frames') = Len(frames) + 1
      /\ \A i \in 1..Len(frames) : frames'[i] = frames[i]
      /\ frames'[Len(frames) + 1] = f
  BY <1>1, ListedAppend DEF FramesOK
<1>3. visited' = visited \cup {f.object} /\ f.object \notin visited
  BY <1>1 DEF Enter, Enterable
<1>4. visited = Objects(frames) /\ Injective(frames)
  BY DEF PathsAreSimple, Objects, Injective
<1>5. \A i \in 1..Len(frames') : i \in 1..Len(frames) \/ i = Len(frames) + 1
  BY <1>2
<1>6. \A i \in 1..Len(frames) : i \in 1..Len(frames') /\ frames'[i].object = frames[i].object
                                 /\ frames[i].object # f.object
  BY <1>2, <1>3, <1>4 DEF Objects
<1>7. Len(frames) + 1 \in 1..Len(frames') /\ frames'[Len(frames) + 1].object = f.object
  BY <1>2
<1>8. visited' = Objects(frames')
  <2>1. Objects(frames') = Objects(frames) \cup {f.object}
    BY <1>5, <1>6, <1>7 DEF Objects
  <2>2. QED
    BY <1>3, <1>4, <2>1
<1>9. Injective(frames')
  BY <1>4, <1>5, <1>6, <1>7 DEF Injective
<1>10. QED
  BY <1>2, <1>8, <1>9 DEF FramesOK, PathsAreSimple, Objects, Injective

\* The object left is in no other frame, so that the set loses that one alone.
LEMMA LeaveKeeps ==
    ASSUME FramesOK, PathsAreSimple, Leave
    PROVE  FramesOK' /\ PathsAreSimple'
<1> DEFINE r == Rest(frames)
           n == Len(frames)
<1>1. /\ Listed(r)
      /\ n \in Nat \ {0}
      /\ Len(r) = n - 1
      /\ \A i \in 1..n - 1 : r[i] = frames[i]
  BY ListedRest DEF Leave, Loops, FramesOK
<1>2. /\ Listed(frames')
      /\ Len(frames') = Len(r)
      /\ \A i \in 1..Len(r) : frames'[i].object = r[i].object
  <2>1. PICK v : Give(v, r)
    BY DEF Leave
  <2> HIDE DEF r
  <2>2. QED
    BY <1>1, <2>1, GiveKeeps
<1>3. visited' = visited \ {frames[n].object}
  BY DEF Leave, Forget, Top
<1>4. visited = Objects(frames) /\ Injective(frames)
  BY DEF PathsAreSimple, Objects, Injective
<1> HIDE DEF r, n
<1>5. Len(frames') = n - 1 /\ \A i \in 1..n - 1 : frames'[i].object = frames[i].object
  BY <1>1, <1>2
<1>6. n = Len(frames)
  BY DEF n
<1>7. \A i \in 1..n : i \in 1..n - 1 \/ i = n
  BY <1>1
<1>8. \A i \in 1..n - 1 : i \in 1..n /\ i # n
  BY <1>1
<1>9. n \in 1..n
  BY <1>1
<1>10. visited' = Objects(frames')
  <2>1. Objects(frames') = Objects(frames) \ {frames[n].object}
    <3>1. \A i \in 1..n - 1 : frames[i].object # frames[n].object
      BY <1>4, <1>6, <1>8, <1>9 DEF Injective
    <3>2. QED
      BY <1>5, <1>6, <1>7, <1>8, <3>1 DEF Objects
  <2>2. QED
    BY <1>3, <1>4, <2>1
<1>11. Injective(frames')
  BY <1>4, <1>5, <1>6, <1>8 DEF Injective
<1>12. QED
  BY <1>2, <1>10, <1>11 DEF FramesOK, PathsAreSimple, Objects, Injective

\* The frames keep their objects, whatever else becomes of them.
LEMMA SameObjects ==
    ASSUME FramesOK, PathsAreSimple, visited' = visited,
           Listed(frames'), Len(frames') = Len(frames),
           \A i \in 1..Len(frames) : frames'[i].object = frames[i].object
    PROVE  FramesOK' /\ PathsAreSimple'
  BY DEF FramesOK, PathsAreSimple

LEMMA NextEntryKeeps ==
    ASSUME FramesOK, PathsAreSimple, NextEntry
    PROVE  FramesOK' /\ PathsAreSimple'
<1> DEFINE f == frames[Len(frames)]
           g == [f EXCEPT !.gotKeys = Append(@, EntryKey.text)]
<1>1. frames' = [frames EXCEPT ![Len(frames)] = g] /\ frames # <<>> /\ visited' = visited
  BY DEF NextEntry, Loops
<1>2. g.object = f.object
  OBVIOUS
<1>3. Len(frames) \in Nat \ {0}
  BY <1>1, ListedRest DEF FramesOK
<1>4. /\ Listed(frames') /\ Len(frames') = Len(frames)
      /\ \A i \in 1..Len(frames) - 1 : frames'[i] = frames[i]
      /\ frames'[Len(frames)] = g
  <2> HIDE DEF g
  <2>1. Replaced(frames, g, frames')
    BY <1>1, Replacing, Zenon DEF FramesOK
  <2>2. QED
    BY <2>1 DEF Replaced
<1> HIDE DEF g
<1>5. ASSUME NEW i \in 1..Len(frames) PROVE frames'[i].object = frames[i].object
  <2>1. i = Len(frames) \/ i \in 1..Len(frames) - 1
    BY <1>3
  <2>2. QED
    BY <1>2, <1>4, <2>1
<1>6. QED
  BY <1>1, <1>4, <1>5, SameObjects

(* Whatever objects a payload passes and however its code changes them     *)
(* meanwhile, no object is converted within its own conversion, and the    *)
(* set with_visited keeps is the path to the object being converted.       *)
THEOREM PathsSimple == ScriptSpec => []PathsAreSimple
<1>1. ScriptInit => FramesOK /\ PathsAreSimple
  <2> SUFFICES ASSUME ScriptInit PROVE FramesOK /\ PathsAreSimple
    OBVIOUS
  <2>1. frames = <<>> /\ visited = {}
    BY DEF ScriptInit, NoScript, InitScript
  <2>2. QED
    BY <2>1, EmptySeq DEF FramesOK, Listed, PathsAreSimple
<1>2. FramesOK /\ PathsAreSimple /\ [ScriptNext]_scriptAndValueVars => FramesOK' /\ PathsAreSimple'
  <2> SUFFICES ASSUME FramesOK, PathsAreSimple, [ScriptNext]_scriptAndValueVars
               PROVE  FramesOK' /\ PathsAreSimple'
    OBVIOUS
  <2>1. CASE UNCHANGED <<frames, visited>>
    BY <2>1 DEF FramesOK, PathsAreSimple
  <2>2. CASE ConvertLeaf
    <3>1. PICK v : Give(v, frames)
      BY <2>2 DEF ConvertLeaf
    <3>2. QED
      BY <2>2, <3>1, GiveKeeps, SameObjects DEF ConvertLeaf, FramesOK
  <2>3. CASE Enter
    BY <2>3, EnterKeeps
  <2>4. CASE NextEntry
    BY <2>4, NextEntryKeeps
  <2>5. CASE Leave
    BY <2>5, LeaveKeeps
  <2>6. ASSUME HandOver \/ NextElement \/ Refuse \/ PayloadChanges \/ PayloadThrows \/ Converted
        PROVE  UNCHANGED <<frames, visited>>
    BY <2>6 DEF HandOver, NextElement, Refuse, PayloadChanges, PayloadThrows, Converted, scriptVars
  <2>7. CASE UNCHANGED scriptVars
    BY <2>1, <2>7 DEF scriptVars
  <2>8. QED
    BY <2>1, <2>2, <2>3, <2>4, <2>5, <2>6, <2>7 DEF ScriptNext, Convert, scriptAndValueVars
<1>3. QED
  BY <1>1, <1>2, PTL DEF ScriptSpec

-----------------------------------------------------------------------------
(* Ways into a value *)

\* Counting reaches every natural number: there is no least interval that it does not fill.
LEMMA Counting ==
    ASSUME NEW G, 0 \in G, \A n \in Nat : n \in G => n + 1 \in G
    PROVE  Nat \subseteq G
<1> DEFINE Missed == {n \in Nat : n \notin G}
           Intervals == {1..n : n \in Missed}
<1> SUFFICES ASSUME Missed # {} PROVE FALSE
  OBVIOUS
<1>1. Intervals \subseteq FiniteSubsetsOf(Nat) /\ Intervals # {}
  <2>1. \A n \in Nat : IsFiniteSet(1..n) /\ 1..n \in SUBSET Nat
    BY FS_Interval
  <2>2. QED
    BY <2>1 DEF FiniteSubsetsOf
<1>2. \E x \in Intervals : \A y \in Intervals : ~ (<<y, x>> \in StrictSubsetOrdering(Nat))
  <2> HIDE DEF Intervals
  <2>1. IsWellFoundedOn(StrictSubsetOrdering(Nat), FiniteSubsetsOf(Nat))
    BY FS_StrictSubsetOrderingWellFounded
  <2>2. QED
    BY <1>1, <2>1, WFMin
<1>3. PICK n \in Missed : \A m \in Missed : <<1..m, 1..n>> \notin StrictSubsetOrdering(Nat)
  BY <1>2
<1>4. n # 0 /\ n \in Nat /\ n - 1 \in Nat
  OBVIOUS
<1>5. n - 1 \in G
  <2>1. 1..(n - 1) \subseteq 1..n /\ n \in 1..n /\ n \notin 1..(n - 1)
    BY <1>4
  <2>2. 1..(n - 1) \in SUBSET Nat /\ 1..n \in SUBSET Nat
    BY <1>4
  <2>3. <<1..(n - 1), 1..n>> \in StrictSubsetOrdering(Nat)
    BY <2>1, <2>2 DEF StrictSubsetOrdering
  <2>4. QED
    BY <1>3, <1>4, <2>3
<1>6. QED
  BY <1>4, <1>5

\* down is the way to a place.
Leads(down, v, place) ==
    /\ down[0] = v
    /\ \A n \in 1..Len(place) : down[n] = down[n - 1].items[place[n]]

\* At goes down one index after the other.
LEMMA AtLeads ==
    ASSUME NEW v, NEW place, Len(place) \in Nat
    PROVE  \E down : Leads(down, v, place) /\ At(v, place) = down[Len(place)]
<1> DEFINE Turn(f, n) == IF n = 0 THEN v ELSE f[n - 1].items[place[n]]
           Reached == {n \in Nat : \E f : f = [i \in 0..n |-> Turn(f, i)]}
           way == CHOOSE f : f = [i \in 0..Len(place) |-> Turn(f, i)]
<1>1. Nat \subseteq Reached
  <2>1. 0 \in Reached
    <3> DEFINE g == [i \in 0..0 |-> v]
    <3>1. g = [i \in 0..0 |-> Turn(g, i)]
      OBVIOUS
    <3>2. QED
      BY <3>1
  <2>2. ASSUME NEW n \in Nat, n \in Reached PROVE n + 1 \in Reached
    <3>1. PICK f : f = [i \in 0..n |-> Turn(f, i)]
      BY <2>2
    <3> DEFINE g == [i \in 0..(n + 1) |-> IF i = n + 1 THEN f[n].items[place[n + 1]] ELSE f[i]]
    <3>2. ASSUME NEW i \in 0..(n + 1) PROVE g[i] = Turn(g, i)
      <4>1. CASE i = 0
        <5>1. g[i] = f[0] /\ f[0] = Turn(f, 0)
          BY <3>1, <4>1
        <5>2. QED
          BY <4>1, <5>1
      <4>2. CASE i \in 1..n
        <5>1. g[i] = f[i] /\ g[i - 1] = f[i - 1]
          BY <4>2
        <5>2. f[i] = Turn(f, i)
          <6>1. i \in 0..n
            BY <4>2
          <6>2. QED
            BY <3>1, <6>1
        <5>3. QED
          BY <4>2, <5>1, <5>2
      <4>3. CASE i = n + 1
        <5>1. g[i - 1] = f[n] /\ g[i] = f[n].items[place[i]] /\ i # 0
          BY <4>3
        <5>2. QED
          BY <5>1
      <4>4. QED
        BY <4>1, <4>2, <4>3
    <3>3. g = [i \in 0..(n + 1) |-> g[i]]
      OBVIOUS
    <3> HIDE DEF g
    <3>4. g = [i \in 0..(n + 1) |-> Turn(g, i)]
      BY <3>2, <3>3
    <3> HIDE DEF Turn
    <3>5. \E h : h = [i \in 0..(n + 1) |-> Turn(h, i)]
      BY <3>4
    <3>6. n + 1 \in Nat
      OBVIOUS
    <3>7. QED
      BY <3>5, <3>6, Zenon
  <2> HIDE DEF Reached
  <2>3. QED
    BY <2>1, <2>2, Counting
<1>2. way = [i \in 0..Len(place) |-> Turn(way, i)]
  <2>1. \E f : f = [i \in 0..Len(place) |-> Turn(f, i)]
    BY <1>1
  <2> HIDE DEF Turn
  <2>2. QED
    BY <2>1, Zenon
<1>3. At(v, place) = way[Len(place)]
  BY Zenon DEF At
<1> HIDE DEF way
<1>4. Leads(way, v, place)
  BY <1>2 DEF Leads
<1>5. QED
  BY <1>3, <1>4

LEMMA AtRoot ==
    ASSUME NEW v
    PROVE  At(v, <<>>) = v
  BY ListedEmpty, AtLeads DEF Leads

\* An item is one step further.
LEMMA AtItem ==
    ASSUME NEW v, NEW place, NEW i, Listed(place)
    PROVE  At(v, Append(place, i)) = At(v, place).items[i]
<1> DEFINE n == Len(place)
           further == Append(place, i)
<1>1. n \in Nat /\ Len(further) = n + 1 /\ further[n + 1] = i /\ \A k \in 1..n : further[k] = place[k]
  BY ListedAppend
<1>2. PICK down : Leads(down, v, place) /\ At(v, place) = down[n]
  BY <1>1, AtLeads
<1>3. PICK more : Leads(more, v, further) /\ At(v, further) = more[n + 1]
  <2> HIDE DEF further
  <2>1. QED
    BY <1>1, AtLeads
<1> DEFINE G == {k \in Nat : k <= n => more[k] = down[k]}
<1>4. 0 \in G
  BY <1>2, <1>3 DEF Leads
<1> HIDE DEF n, further
<1>5. ASSUME NEW k \in Nat, k \in G PROVE k + 1 \in G
  <2>1. SUFFICES ASSUME k + 1 <= n PROVE more[k + 1] = down[k + 1]
    OBVIOUS
  <2>2. more[k] = down[k] /\ k + 1 \in 1..n /\ k + 1 \in 1..Len(further) /\ (k + 1) - 1 = k
    BY <1>1, <1>5, <2>1
  <2>3. more[k + 1] = more[(k + 1) - 1].items[further[k + 1]] /\ down[k + 1] = down[(k + 1) - 1].items[place[k + 1]]
    BY <1>2, <1>3, <2>2 DEF Leads, n
  <2>4. QED
    BY <1>1, <2>2, <2>3
<1>6. Nat \subseteq G
  <2> HIDE DEF G
  <2>1. QED
    BY <1>4, <1>5, Counting
<1>7. more[n] = down[n]
  BY <1>1, <1>6
<1>8. more[n + 1] = more[n].items[i]
  <2>1. n + 1 \in 1..Len(further) /\ (n + 1) - 1 = n
    BY <1>1
  <2>2. more[n + 1] = more[(n + 1) - 1].items[further[n + 1]]
    BY <1>3, <2>1 DEF Leads
  <2>3. QED
    BY <1>1, <2>1, <2>2
<1>9. QED
  BY <1>2, <1>3, <1>7, <1>8 DEF further

\* deep[d] are the places d steps into v.
Deepens(deep, v) ==
    /\ deep[0] = {<<>>}
    /\ \A d \in 1..MaxDepth : \A place \in deep[d - 1] : \A i \in 1..Len(At(v, place).items) :
           At(v, place).items[i].kind \in Containers => Append(place, i) \in deep[d]
    /\ \A d \in 1..MaxDepth : \A place \in deep[d] : \E before \in deep[d - 1] : \E i \in 1..Len(At(v, before).items) :
           At(v, before).items[i].kind \in Containers /\ place = Append(before, i)
    /\ Places(v) = UNION {deep[d] : d \in 0..MaxDepth}

LEMMA PlacesDeepen ==
    ASSUME NEW v, v.kind \in Containers
    PROVE  \E deep : Deepens(deep, v)
<1> DEFINE Inner(w) == {i \in 1..Len(w.items) : w.items[i].kind \in Containers}
           Further(places) == UNION {{Append(place, i) : i \in Inner(At(v, place))} : place \in places}
           Turn(f, d) == IF d = 0 THEN {<<>>} ELSE Further(f[d - 1])
           Reached == {d \in Nat : \E f : f = [i \in 0..d |-> Turn(f, i)]}
           deep == CHOOSE f : f = [d \in 0..MaxDepth |-> Turn(f, d)]
<1>1. Nat \subseteq Reached
  <2> HIDE DEF Further
  <2>1. 0 \in Reached
    <3> DEFINE g == [i \in 0..0 |-> {<<>>}]
    <3>1. g = [i \in 0..0 |-> Turn(g, i)]
      OBVIOUS
    <3>2. QED
      BY <3>1
  <2>2. ASSUME NEW n \in Nat, n \in Reached PROVE n + 1 \in Reached
    <3>1. PICK f : f = [i \in 0..n |-> Turn(f, i)]
      BY <2>2
    <3> DEFINE g == [i \in 0..(n + 1) |-> IF i = n + 1 THEN Further(f[n]) ELSE f[i]]
    <3>2. ASSUME NEW i \in 0..(n + 1) PROVE g[i] = Turn(g, i)
      <4>1. CASE i = 0
        <5>1. g[i] = f[0] /\ f[0] = Turn(f, 0)
          BY <3>1, <4>1
        <5>2. QED
          BY <4>1, <5>1
      <4>2. CASE i \in 1..n
        <5>1. g[i] = f[i] /\ g[i - 1] = f[i - 1]
          BY <4>2
        <5>2. f[i] = Turn(f, i)
          <6>1. i \in 0..n
            BY <4>2
          <6>2. QED
            BY <3>1, <6>1
        <5>3. QED
          BY <4>2, <5>1, <5>2
      <4>3. CASE i = n + 1
        <5>1. g[i - 1] = f[n] /\ g[i] = Further(f[n]) /\ i # 0
          BY <4>3
        <5>2. QED
          BY <5>1
      <4>4. QED
        BY <4>1, <4>2, <4>3
    <3>3. g = [i \in 0..(n + 1) |-> g[i]]
      OBVIOUS
    <3> HIDE DEF g
    <3>4. g = [i \in 0..(n + 1) |-> Turn(g, i)]
      BY <3>2, <3>3
    <3> HIDE DEF Turn
    <3>5. \E h : h = [i \in 0..(n + 1) |-> Turn(h, i)]
      BY <3>4
    <3>6. n + 1 \in Nat
      OBVIOUS
    <3>7. QED
      BY <3>5, <3>6, Zenon
  <2> HIDE DEF Reached
  <2>3. QED
    BY <2>1, <2>2, Counting
<1>2. deep = [d \in 0..MaxDepth |-> Turn(deep, d)]
  <2>1. \E f : f = [d \in 0..MaxDepth |-> Turn(f, d)]
    BY <1>1, LimitsAssumption
  <2> HIDE DEF Turn
  <2>2. QED
    BY <2>1, Zenon
<1>3. Places(v) = UNION {deep[d] : d \in 0..MaxDepth}
  BY Zenon DEF Places
<1> HIDE DEF deep
<1>4. deep[0] = {<<>>}
  <2>1. 0 \in 0..MaxDepth
    BY LimitsAssumption
  <2> HIDE DEF Further
  <2>2. QED
    BY <1>2, <2>1
<1>5a. ASSUME NEW d \in 1..MaxDepth PROVE deep[d] = Further(deep[d - 1])
  <2> HIDE DEF Further
  <2>1. d \in 0..MaxDepth /\ d # 0
    BY LimitsAssumption
  <2>2. QED
    BY <1>2, <2>1
<1>5. ASSUME NEW d \in 1..MaxDepth, NEW place \in deep[d - 1], NEW i \in 1..Len(At(v, place).items),
             At(v, place).items[i].kind \in Containers
      PROVE  Append(place, i) \in deep[d]
  <2>1. Append(place, i) \in Further(deep[d - 1])
    BY <1>5
  <2>2. QED
    BY <1>5a, <2>1
<1>6. ASSUME NEW d \in 1..MaxDepth, NEW place \in deep[d]
      PROVE  \E before \in deep[d - 1] : \E i \in 1..Len(At(v, before).items) :
                 At(v, before).items[i].kind \in Containers /\ place = Append(before, i)
  <2>1. place \in Further(deep[d - 1])
    BY <1>5a
  <2>2. QED
    BY <2>1
<1>7. QED
  BY <1>3, <1>4, <1>5, <1>6 DEF Deepens

-----------------------------------------------------------------------------
(* The objects made of a value *)

Ways(v) == CHOOSE deep : Deepens(deep, v)

KeysOf(w) == [i \in 1..Len(w.keys) |-> Immediate("string", w.keys[i], 0)]
ItemsOf(w, place) == [i \in 1..Len(w.items) |-> ToScript(w.items[i], Append(place, i))]

\* Container w is at this place in v, so many steps from v itself.
Located(place, w, depth, v) ==
    /\ v.kind \in Containers
    /\ Listed(place) /\ Len(place) = depth
    /\ depth \in 0..MaxDepth
    /\ place \in Ways(v)[depth]
    /\ At(v, place) = w

LEMMA WaysDeepen ==
    ASSUME NEW v, v.kind \in Containers
    PROVE  Deepens(Ways(v), v)
<1>1. \E deep : Deepens(deep, v)
  BY PlacesDeepen
<1>2. QED
  BY <1>1, Zenon DEF Ways

LEMMA LocatedRoot ==
    ASSUME NEW v, v.kind \in Containers
    PROVE  Located(<<>>, v, 0, v)
<1>1. Ways(v)[0] = {<<>>}
  BY WaysDeepen DEF Deepens
<1>2. 0 \in 0..MaxDepth
  BY LimitsAssumption
<1>3. QED
  BY <1>1, <1>2, ListedEmpty, AtRoot DEF Located

LEMMA LocatedItem ==
    ASSUME NEW v, NEW place, NEW w, NEW depth, Located(place, w, depth, v), depth < MaxDepth,
           NEW i \in 1..Len(w.items), w.items[i].kind \in Containers
    PROVE  Located(Append(place, i), w.items[i], depth + 1, v)
<1>1. /\ Listed(Append(place, i)) /\ Len(Append(place, i)) = depth + 1
  BY ListedAppend DEF Located
<1>2. At(v, Append(place, i)) = w.items[i]
  BY AtItem DEF Located
<1>3. depth + 1 \in 1..MaxDepth /\ depth + 1 \in 0..MaxDepth /\ (depth + 1) - 1 = depth
  BY LimitsAssumption DEF Located
<1>4. Append(place, i) \in Ways(v)[depth + 1]
  <2>1. Deepens(Ways(v), v) /\ place \in Ways(v)[(depth + 1) - 1] /\ At(v, place) = w
    BY <1>3, WaysDeepen DEF Located
  <2>2. QED
    BY <1>3, <2>1 DEF Deepens
<1>5. QED
  BY <1>1, <1>2, <1>3, <1>4 DEF Located

\* What there is at a place.
LEMMA ObjectAt ==
    ASSUME NEW v, NEW place, NEW w, NEW depth, Located(place, w, depth, v), heap = ObjectsOf(v)
    PROVE  /\ heap[place].type = w.kind
           /\ heap[place].keys = KeysOf(w)
           /\ heap[place].items = ItemsOf(w, place)
<1>1. place \in Places(v)
  BY WaysDeepen DEF Deepens, Located
<1>2. At(v, place) = w
  BY DEF Located
<1>3. QED
  BY <1>1, <1>2 DEF ObjectsOf, KeysOf, ItemsOf

LEMMA NothingLooks ==
    ASSUME NEW v, heap = ObjectsOf(v)
    PROVE  ~ PayloadChanges /\ ~ PayloadThrows
<1>1. \A object \in DOMAIN heap : ~ heap[object].live
  BY DEF ObjectsOf
<1>2. QED
  BY <1>1 DEF PayloadChanges, PayloadThrows, LooksAt

LEMMA ItemsListed ==
    ASSUME NEW w, NEW place, Len(w.items) \in Nat
    PROVE  /\ Len(ItemsOf(w, place)) = Len(w.items)
           /\ \A i \in 1..Len(w.items) : ItemsOf(w, place)[i] = ToScript(w.items[i], Append(place, i))
<1> DEFINE n == Len(w.items)
<1> HIDE DEF n
<1>1. \A s : s = [i \in 1..n |-> s[i]] /\ n \in Nat => Len(s) = n
  <2>1. ASSUME NEW s, s = [i \in 1..n |-> s[i]], n \in Nat PROVE Len(s) = n
    <3>1. s \in [1..n -> {s[i] : i \in 1..n}]
      BY <2>1
    <3>2. s \in Seq({s[i] : i \in 1..n})
      BY <2>1, <3>1, SeqDef
    <3>3. QED
      BY <2>1, <3>1, <3>2, LenProperties
  <2>2. QED
    BY <2>1
<1>2. ItemsOf(w, place) = [i \in 1..n |-> ItemsOf(w, place)[i]]
  BY DEF ItemsOf, n
<1>3. QED
  BY <1>1, <1>2 DEF ItemsOf, n

-----------------------------------------------------------------------------
(* The containers from_raw is in, and those the encoder will be in *)

\* A frame, seen as the decoder's.
View(fr) == [kind |-> fr.type, number |-> fr.length, keys |-> fr.gotKeys, items |-> fr.got]

Views(stack, fs) ==
    /\ Listed(stack) /\ Len(stack) = Len(fs)
    /\ \A i \in 1..Len(fs) : stack[i] = View(fs[i])

Frame(object, type, length, keys, items, gotKeys, got) ==
    [object |-> object, type |-> type, length |-> length, keys |-> keys, items |-> items,
     gotKeys |-> gotKeys, got |-> got]

\* The frame of container w.
Copied(fr, w, depth, v) ==
    /\ Located(fr.object, w, depth, v)
    /\ fr = Frame(fr.object, fr.type, fr.length, fr.keys, fr.items, fr.gotKeys, fr.got)
    /\ fr.keys = KeysOf(w)
    /\ w.kind = "map" => fr.items = ItemsOf(w, fr.object)

Mirrored(fs, path, ahead, v) ==
    /\ Listed(fs) /\ Len(fs) = Len(path)
    /\ \A i \in 1..Len(fs) : Copied(fs[i], path[i].value, i - 1, v)
    /\ \E stack : Views(stack, fs) /\ Alike(stack, path, ahead)

LEMMA MirroredPush ==
    ASSUME NEW fs, NEW path, NEW v, NEW fr, NEW x, Mirrored(fs, path, 2, v),
           Copied(fr, x.value, Len(path), v), Agrees(View(fr), x, x.at - 1)
    PROVE  Mirrored(Append(fs, fr), Append(path, x), 1, v)
<1>1. PICK stack : Views(stack, fs) /\ Alike(stack, path, 2)
  BY DEF Mirrored
<1>2. PICK gs, q, t, n : gs = Append(fs, fr) /\ q = Append(path, x) /\ t = Append(stack, View(fr)) /\ n = Len(path)
  OBVIOUS
<1>3. /\ Listed(gs) /\ n \in Nat /\ Len(gs) = n + 1 /\ gs[n + 1] = fr /\ Len(fs) = n
      /\ Len(q) = n + 1 /\ q[n + 1] = x /\ Listed(t) /\ Len(t) = n + 1 /\ t[n + 1] = View(fr)
      /\ \A i \in 1..n : gs[i] = fs[i] /\ q[i] = path[i] /\ t[i] = stack[i]
  BY <1>1, <1>2, ListedAppend DEF Mirrored, Views, Alike
<1>4. \A i \in 1..n + 1 : i \in 1..n \/ i = n + 1
  BY <1>3
<1>5. Alike(t, q, 1)
  BY <1>1, <1>2, AlikePush
<1>6. Views(t, gs)
  BY <1>1, <1>3, <1>4 DEF Views
<1>7. (n + 1) - 1 = n
  BY <1>3
<1>8. \A i \in 1..n + 1 : Copied(gs[i], q[i].value, i - 1, v)
  <2>1. \A i \in 1..n : Copied(fs[i], path[i].value, i - 1, v)
    BY <1>3 DEF Mirrored
  <2>2. Copied(gs[n + 1], q[n + 1].value, (n + 1) - 1, v)
    BY <1>2, <1>3, <1>7
  <2>3. QED
    BY <1>3, <1>4, <2>1, <2>2
<1>9. Mirrored(gs, q, 1, v)
  BY <1>3, <1>5, <1>6, <1>8 DEF Mirrored
<1>10. QED
  BY <1>2, <1>9

LEMMA MirroredEmpty ==
    ASSUME NEW fs, NEW path, NEW ahead, NEW v, Mirrored(fs, path, ahead, v)
    PROVE  fs = <<>> <=> path = <<>>
<1>1. Listed(path)
  BY DEF Mirrored, Alike
<1>2. QED
  BY <1>1, EmptyIsListed, ListedEmpty DEF Mirrored

LEMMA MirroredPop ==
    ASSUME NEW fs, NEW path, NEW ahead, NEW v, Mirrored(fs, path, ahead, v), path # <<>>
    PROVE  /\ fs # <<>>
           /\ Mirrored(Rest(fs), Rest(path), 2, v)
           /\ Agrees(View(Top(fs)), Top(path), Top(path).at - ahead)
           /\ Copied(Top(fs), Top(path).value, Len(path) - 1, v)
<1>0. fs # <<>>
  BY MirroredEmpty
<1>1. PICK stack : Views(stack, fs) /\ Alike(stack, path, ahead)
  BY DEF Mirrored
<1>2. PICK gs, q, t, n : gs = Rest(fs) /\ q = Rest(path) /\ t = Rest(stack) /\ n = Len(path)
  OBVIOUS
<1>3. stack # <<>> /\ Alike(t, q, 2) /\ Agrees(Top(stack), Top(path), Top(path).at - ahead)
  BY <1>1, <1>2, AlikePop
<1>4. /\ Listed(gs) /\ n \in Nat \ {0} /\ Len(gs) = n - 1 /\ Len(fs) = n
      /\ Len(q) = n - 1 /\ Listed(t) /\ Len(t) = n - 1
      /\ \A i \in 1..n - 1 : gs[i] = fs[i] /\ q[i] = path[i] /\ t[i] = stack[i]
  BY <1>0, <1>1, <1>2, <1>3, ListedRest DEF Mirrored, Views, Alike
<1>5. n \in 1..n /\ \A i \in 1..n - 1 : i \in 1..n
  BY <1>4
<1>6. Views(t, gs)
  BY <1>1, <1>4, <1>5 DEF Views
<1>7. Top(stack) = View(Top(fs))
  BY <1>1, <1>4, <1>5 DEF Views, Top
<1>8. \A i \in 1..n : Copied(fs[i], path[i].value, i - 1, v)
  BY <1>4 DEF Mirrored
<1>9. Mirrored(gs, q, 2, v)
  BY <1>3, <1>4, <1>5, <1>6, <1>8 DEF Mirrored
<1>10. Copied(Top(fs), Top(path).value, n - 1, v)
  BY <1>2, <1>4, <1>5, <1>8 DEF Top
<1>11. QED
  BY <1>0, <1>2, <1>3, <1>7, <1>9, <1>10

LEMMA MirroredTurn ==
    ASSUME NEW fs, NEW path, NEW ahead, NEW v, Mirrored(fs, path, ahead, v), path # <<>>,
           NEW fr, NEW gs, Replaced(fs, fr, gs),
           NEW x, NEW q, Replaced(path, x, q),
           NEW further, Copied(fr, x.value, Len(path) - 1, v), Agrees(View(fr), x, x.at - further)
    PROVE  Mirrored(gs, q, further, v)
<1>0. fs # <<>>
  BY MirroredEmpty
<1>1. PICK stack : Views(stack, fs) /\ Alike(stack, path, ahead)
  BY DEF Mirrored
<1>2. PICK n : n = Len(path)
  OBVIOUS
<1>3. stack # <<>> /\ Listed(stack) /\ Len(stack) = n /\ Len(fs) = n /\ n \in Nat \ {0} /\ Listed(path)
  BY <1>1, <1>2, AlikePop, ListedRest DEF Mirrored, Views, Alike
<1>4. PICK t : Replaced(stack, View(fr), t)
  <2> DEFINE g == View(fr)
  <2> HIDE DEF g
  <2>1. PICK t : t = [stack EXCEPT ![Len(stack)] = g]
    OBVIOUS
  <2>2. Replaced(stack, g, t)
    BY <1>3, <2>1, Replacing, Zenon
  <2>3. QED
    BY <2>2 DEF g
<1>5. Alike(t, q, further)
  BY <1>1, <1>4, AlikeTurn
<1>6. /\ Listed(t) /\ Len(t) = n /\ Listed(gs) /\ Len(gs) = n /\ Len(q) = n
      /\ t[n] = View(fr) /\ gs[n] = fr /\ q[n] = x
      /\ \A i \in 1..n - 1 : t[i] = stack[i] /\ gs[i] = fs[i] /\ q[i] = path[i]
  BY <1>2, <1>3, <1>4 DEF Replaced
<1>7. \A i \in 1..n : i \in 1..n - 1 \/ i = n
  BY <1>3
<1>8. Views(t, gs)
  BY <1>1, <1>3, <1>6, <1>7 DEF Views
<1>9. \A i \in 1..n : Copied(gs[i], q[i].value, i - 1, v)
  BY <1>2, <1>3, <1>6, <1>7 DEF Mirrored
<1>10. QED
  BY <1>5, <1>6, <1>8, <1>9 DEF Mirrored

\* The value just converted goes to the container that waits for it.
WithItem(fr, v) == [fr EXCEPT !.got = Append(@, v)]
WithKey(fr, key) == [fr EXCEPT !.gotKeys = Append(@, key)]

LEMMA GotMore ==
    ASSUME NEW fr, NEW w, NEW depth, NEW v, Copied(fr, w, depth, v), NEW e, NEW g, NEW fv, NEW gv,
           g = WithItem(fr, e), fv = View(fr), gv = View(g)
    PROVE  /\ Copied(g, w, depth, v)
           /\ gv.kind = fv.kind /\ gv.number = fv.number
           /\ gv.keys = fv.keys /\ gv.items = Append(fv.items, e)
<1>1. PICK o, t, l, k, i, gk, gt : fr = Frame(o, t, l, k, i, gk, gt)
  BY DEF Copied
<1>2. PICK more : more = Append(gt, e)
  OBVIOUS
<1>3. g = Frame(o, t, l, k, i, gk, more)
  BY <1>1, <1>2 DEF Frame, WithItem
<1>4. /\ g.object = fr.object /\ g.keys = fr.keys /\ g.items = fr.items
      /\ g = Frame(g.object, g.type, g.length, g.keys, g.items, g.gotKeys, g.got)
  BY <1>1, <1>3 DEF Frame
<1>5. /\ gv.kind = fv.kind /\ gv.number = fv.number
      /\ gv.keys = fv.keys /\ gv.items = Append(fv.items, e)
  <2>1. fv = [kind |-> t, number |-> l, keys |-> gk, items |-> gt]
    BY <1>1 DEF Frame, View
  <2>2. g.type = t /\ g.length = l /\ g.gotKeys = gk /\ g.got = more
    BY <1>3 DEF Frame
  <2>3. gv = [kind |-> t, number |-> l, keys |-> gk, items |-> more]
    BY <2>2 DEF View
  <2>4. fv.kind = t /\ fv.number = l /\ fv.keys = gk /\ fv.items = gt
    BY <2>1
  <2>5. gv.kind = t /\ gv.number = l
    BY <2>3
  <2>6. gv.keys = gk /\ gv.items = more
    BY <2>3
  <2>7. QED
    BY <1>2, <2>4, <2>5, <2>6
<1>6. QED
  BY <1>4, <1>5 DEF Copied

LEMMA GotKey ==
    ASSUME NEW fr, NEW w, NEW depth, NEW v, Copied(fr, w, depth, v), NEW e, NEW g, NEW fv, NEW gv,
           g = WithKey(fr, e), fv = View(fr), gv = View(g)
    PROVE  /\ Copied(g, w, depth, v)
           /\ gv.kind = fv.kind /\ gv.number = fv.number
           /\ gv.items = fv.items /\ gv.keys = Append(fv.keys, e)
           /\ g.object = fr.object
<1>1. PICK o, t, l, k, i, gk, gt : fr = Frame(o, t, l, k, i, gk, gt)
  BY DEF Copied
<1>2. PICK more : more = Append(gk, e)
  OBVIOUS
<1>3. g = Frame(o, t, l, k, i, more, gt)
  BY <1>1, <1>2 DEF Frame, WithKey
<1>4. /\ g.object = fr.object /\ g.keys = fr.keys /\ g.items = fr.items
      /\ g = Frame(g.object, g.type, g.length, g.keys, g.items, g.gotKeys, g.got)
  BY <1>1, <1>3 DEF Frame
<1>5. /\ gv.kind = fv.kind /\ gv.number = fv.number
      /\ gv.items = fv.items /\ gv.keys = Append(fv.keys, e)
  <2>1. fv = [kind |-> t, number |-> l, keys |-> gk, items |-> gt]
    BY <1>1 DEF Frame, View
  <2>2. g.type = t /\ g.length = l /\ g.gotKeys = more /\ g.got = gt
    BY <1>3 DEF Frame
  <2>3. gv = [kind |-> t, number |-> l, keys |-> more, items |-> gt]
    BY <2>2 DEF View
  <2>4. fv.kind = t /\ fv.number = l /\ fv.keys = gk /\ fv.items = gt
    BY <2>1
  <2>5. gv.kind = t /\ gv.number = l
    BY <2>3
  <2>6. gv.keys = more /\ gv.items = gt
    BY <2>3
  <2>7. QED
    BY <1>2, <2>4, <2>5, <2>6
<1>6. QED
  BY <1>4, <1>5 DEF Copied

LEMMA GiveMirrors ==
    ASSUME NEW path, NEW root, NEW around, NEW v, Path(path, root), root = <<root[1]>>,
           Mirrored(around, path, 2, root[1]), v = Due(path, root), Give(v, around), converted = <<>>
    PROVE  Mirrored(frames', path, 1, root[1]) /\ converted' = IF path = <<>> THEN root ELSE <<>>
<1>1. CASE path = <<>>
  <2>1. around = <<>>
    BY <1>1, MirroredEmpty
  <2>2. frames' = <<>> /\ converted' = root
    BY <1>1, <2>1 DEF Give, Due
  <2>3. Views(<<>>, <<>>) /\ Alike(<<>>, <<>>, 1)
    BY ListedEmpty DEF Views, Alike
  <2>4. QED
    BY <1>1, <2>2, <2>3, ListedEmpty DEF Mirrored
<1>2. CASE path # <<>>
  <2> DEFINE f == Top(around)
             x == Top(path)
             g == [f EXCEPT !.got = Append(@, v)]
  <2>1. around # <<>> /\ Agrees(View(f), x, x.at - 2) /\ Copied(f, x.value, Len(path) - 1, root[1])
    BY <1>2, MirroredPop
  <2>2. frames' = [around EXCEPT ![Len(around)] = g] /\ converted' = <<>>
    BY <2>1 DEF Give, Top
  <2>3. x.at \in Nat /\ v = x.value.items[x.at - 1]
    BY <1>2, TopFacts DEF Due
  <2>4. PICK w, d, fv, gv : w = x.value /\ d = Len(path) - 1 /\ fv = View(f) /\ gv = View(g)
    OBVIOUS
  <2>5. /\ Copied(g, w, d, root[1]) /\ gv.kind = fv.kind /\ gv.number = fv.number
        /\ gv.keys = fv.keys /\ gv.items = Append(fv.items, v)
    <3> HIDE DEF f, x
    <3>1. Copied(f, w, d, root[1]) /\ g = WithItem(f, v) /\ fv = View(f) /\ gv = View(g)
      BY <2>1, <2>4 DEF WithItem
    <3> HIDE DEF g
    <3>2. QED
      BY <3>1, GotMore
  <2>6. Agrees(View(g), x, x.at - 1)
    <3> HIDE DEF f, x, g
    <3>1. PICK h : h = [fv EXCEPT !.items = Append(@, v)]
      OBVIOUS
    <3>2. Agrees(fv, x, x.at - 2)
      BY <2>1, <2>4
    <3>3. Agrees(h, x, x.at - 1)
      BY <2>3, <3>1, <3>2, ItemAdded
    <3>4. h.kind = fv.kind /\ h.number = fv.number /\ h.keys = fv.keys /\ h.items = Append(fv.items, v)
      <4>1. fv.kind = fv.kind
        OBVIOUS
      <4>2. QED
        BY <3>1, <3>2, <4>1 DEF Agrees
    <3>5. QED
      BY <2>4, <2>5, <3>3, <3>4 DEF Agrees
  <2> HIDE DEF f, x, g
  <2>7. Replaced(around, g, frames') /\ Replaced(path, x, path)
    <3>1. Listed(around) /\ Listed(path)
      BY DEF Mirrored, Path
    <3>2. Replaced(around, g, frames')
      BY <2>1, <2>2, <3>1, Replacing, Zenon
    <3>3. Replaced(path, x, path)
      BY <1>2, <3>1, ReplacedSame DEF x
    <3>4. QED
      BY <3>2, <3>3
  <2>8. Mirrored(frames', path, 1, root[1])
    BY <1>2, <2>4, <2>5, <2>6, <2>7, MirroredTurn
  <2>9. QED
    BY <1>2, <2>2, <2>8
<1>3. QED
  BY <1>1, <1>2

-----------------------------------------------------------------------------
(* Converting what was handed over *)

\* What is handed over can be converted back.
KeysHeld(v) == \A i \in 1..Len(v.keys) : Held(Key(v.keys[i]))
Fitting(S) == \A v \in S : (IsLeaf(v) => Held(v)) /\ KeysHeld(v)

\* Where the value is that comes next.
NextPlace(fs, path) == IF path = <<>> THEN <<>> ELSE Append(Top(fs).object, Top(path).at - 1)

\* from_raw has come as far as the encoder has in state e.
Mirrors(e, root) ==
    /\ Mirrored(frames, e.work, IF e.call = <<>> THEN 1 ELSE 2, root[1])
    /\ pending = IF e.call = <<>> THEN <<>> ELSE <<ToScript(e.call[1], NextPlace(frames, e.work))>>
    /\ converted = IF e.call = <<>> /\ e.work = <<>> THEN root ELSE <<>>

Converting(root) == phase = "script" /\ origin = "script" /\ heap = ObjectsOf(root[1])

\* A value that is no container is immediate, and comes back.
LEMMA LeafScript ==
    ASSUME NEW v, NEW place, IsLeaf(v), Held(v), v.text \notin Invalid
    PROVE  /\ ToScript(v, place).type # "object"
           /\ Convertible(ToScript(v, place))
           /\ LeafOf(ToScript(v, place)) = v
<1>1. v.kind \notin Containers /\ v.kind \in LeafKinds
  BY DEF IsLeaf, LeafKinds, Containers
<1>2. PICK x : x = ToScript(v, place)
  OBVIOUS
<1>3. x.type = ScriptType[v.kind] /\ x.text = v.text /\ x.number = v.number
  BY <1>1, <1>2 DEF ToScript, Immediate
<1>4. /\ v.kind = "null" => x.type = "null"
      /\ v.kind = "bool" => x.type = "boolean"
      /\ v.kind = "integer" => x.type = "bigint"
      /\ v.kind = "float" => x.type = "number"
      /\ v.kind = "string" => x.type = "string"
      /\ v.kind = "bytes" => x.type = "Uint8Array"
      /\ v.kind = "handle" => x.type = "AuraHandle"
      /\ v.kind = "error" => x.type = "AuraError"
  BY <1>3 DEF ScriptType
<1>5. v.kind \in {"null", "bool", "integer", "float", "string", "bytes", "handle", "error"}
  BY <1>1 DEF LeafKinds
<1>6. x.type # "object" /\ KindOf(x.type) = v.kind
      /\ x.type \in {"null", "boolean", "bigint", "number", "string", "Uint8Array", "AuraHandle", "AuraError"}
      /\ (x.type = "bigint" => v.kind = "integer") /\ (x.type = "AuraHandle" => v.kind = "handle")
  BY <1>4, <1>5 DEF KindOf
<1>7. ASSUME x.type = "AuraHandle" PROVE Wrapped(x.number) = v.number /\ v.number > 0
  <2>1. PICK n, half : n = v.number /\ half = MaxInteger + 1
    OBVIOUS
  <2>2. n \in 1..MaxInteger /\ MaxInteger \in Nat
    BY <1>6, <1>7, <2>1, ScriptAssumption DEF Held
  <2>3. n + half \in 0..(2 * half - 1) /\ half \in Nat \ {0}
    BY <2>1, <2>2
  <2>4. (n + half) % (2 * half) = n + half
    <3>1. \A a \in Nat, b \in Nat \ {0} : a < b => a % b = a
      OBVIOUS
    <3>2. n + half \in Nat /\ 2 * half \in Nat \ {0} /\ n + half < 2 * half
      BY <2>3
    <3>3. QED
      BY <3>1, <3>2
  <2>5. QED
    BY <1>3, <2>1, <2>2, <2>4 DEF Wrapped
<1>8. Convertible(x)
  BY <1>3, <1>6, <1>7 DEF Convertible, Held
<1>9. LeafOf(x) = v
  BY <1>3, <1>6, <1>7 DEF LeafOf, IsLeaf
<1>10. QED
  BY <1>2, <1>6, <1>8, <1>9

\* A container all of whose entries are there is the value it is made of.
LEMMA Completed ==
    ASSUME NEW frame, NEW x, EntryOK(x), Agrees(frame, x, x.at - 1), x.at > Len(x.value.items)
    PROVE  /\ x.value = Container(frame.kind, frame.keys, frame.items)
           /\ Len(frame.items) = frame.number
<1>1. PICK v : v = x.value
  OBVIOUS
<1>2. /\ v = Container(v.kind, v.keys, v.items)
      /\ Listed(v.items) /\ Listed(v.keys)
      /\ Len(v.keys) = IF v.kind = "map" THEN Len(v.items) ELSE 0
      /\ x.at \in 1..Len(v.items) + 1
  BY <1>1 DEF EntryOK, Whole
<1>3. x.at - 1 = Len(v.items)
  <2>1. Len(v.items) \in Nat
    BY <1>2, ListedAppend
  <2>2. QED
    BY <1>1, <1>2, <2>1
<1>4. /\ frame.kind = v.kind /\ frame.number = Len(v.items)
      /\ Listed(frame.items) /\ Len(frame.items) = Len(v.items)
      /\ \A j \in 1..Len(v.items) : frame.items[j] = v.items[j]
      /\ Listed(frame.keys)
      /\ Len(frame.keys) = IF v.kind = "map" THEN Len(v.items) ELSE 0
      /\ \A j \in 1..Len(frame.keys) : frame.keys[j] = v.keys[j]
  BY <1>1, <1>3 DEF Agrees
<1>5. frame.items = v.items
  BY <1>2, <1>4, ListedEqual
<1>6. Len(frame.keys) = Len(v.keys)
  BY <1>2, <1>4
<1>7. frame.keys = v.keys
  BY <1>2, <1>4, <1>6, ListedEqual
<1>8. QED
  BY <1>1, <1>2, <1>4, <1>5, <1>7

LEMMA LeafConverts ==
    ASSUME NEW e, NEW f, NEW s, NEW root, Sound(e, root), Mirrors(e, root), Converting(root),
           StepLeaf(e, f, s), IsLeaf(e.call[1]), Held(e.call[1]), Convert
    PROVE  ConvertLeaf /\ Mirrors(f, root)'
<1>1. PICK v, place : v = e.call[1] /\ place = NextPlace(frames, e.work)
  OBVIOUS
<1>2. /\ e.call # <<>> /\ v.text \notin Invalid
      /\ f.call = <<>> /\ f.work = e.work
  BY <1>1, EncoderFields DEF StepLeaf
<1>3. /\ Path(e.work, root) /\ root = <<root[1]>> /\ v = Due(e.work, root)
  BY <1>1, <1>2 DEF Sound
<1>4. /\ Mirrored(frames, e.work, 2, root[1])
      /\ pending = <<ToScript(v, place)>> /\ converted = <<>>
  BY <1>1, <1>2 DEF Mirrors
<1>5. Source.type # "object" /\ Convertible(Source) /\ LeafOf(Source) = v /\ pending # <<>>
  <2>1. Source = ToScript(v, place) /\ pending # <<>>
    BY <1>4 DEF Source
  <2>2. QED
    BY <1>1, <1>2, <2>1, LeafScript
<1>6. ConvertLeaf
  <2>1. ~ PayloadChanges /\ ~ PayloadThrows
    BY NothingLooks DEF Converting
  <2>2. QED
    BY <1>4, <1>5, <2>1
    DEF Convert, HandOver, Enter, NextElement, NextEntry, Leave, Refuse, Refused, Converted, Converting, Receives, Loops
<1>7. Give(v, frames) /\ pending' = <<>>
  BY <1>5, <1>6 DEF ConvertLeaf
<1>8. Mirrored(frames', e.work, 1, root[1]) /\ converted' = IF e.work = <<>> THEN root ELSE <<>>
  BY <1>3, <1>4, <1>7, GiveMirrors
<1>9. QED
  BY <1>2, <1>6, <1>7, <1>8 DEF Mirrors

\* Containers are at the places their objects are called by.
LEMMA NextIsLocated ==
    ASSUME NEW e, NEW root, Sound(e, root), Mirrors(e, root), e.call # <<>>, e.call[1].kind \in Containers,
           AdmitsIn(e)
    PROVE  Located(NextPlace(frames, e.work), e.call[1], Len(e.work), root[1])
<1>1. PICK v, place : v = e.call[1] /\ place = NextPlace(frames, e.work)
  OBVIOUS
<1>2. /\ Path(e.work, root) /\ v = Due(e.work, root) /\ Busy(e.work) /\ Mirrored(frames, e.work, 2, root[1])
  BY <1>1 DEF Sound, Mirrors
<1>3. CASE e.work = <<>>
  <2>1. v = root[1] /\ place = <<>> /\ Len(e.work) = 0
    BY <1>1, <1>2, <1>3, ListedEmpty DEF Due, NextPlace
  <2>2. QED
    BY <1>1, <2>1, LocatedRoot
<1>4. CASE e.work # <<>>
  <2>1. PICK x, o, i, d, w : x = Top(e.work) /\ o = Top(frames).object /\ i = x.at - 1 /\ d = Len(e.work) - 1 /\ w = x.value
    OBVIOUS
  <2>2. Located(o, w, d, root[1])
    BY <1>2, <1>4, <2>1, MirroredPop DEF Copied
  <2>3. Len(w.items) \in Nat /\ x.at \in Nat \ {0} /\ x.at <= Len(w.items) + 1 /\ x.at >= 2
    BY <1>2, <1>4, <2>1, TopFacts DEF Busy
  <2>4. i \in 1..Len(w.items)
    BY <2>1, <2>3
  <2>5. v = w.items[i] /\ place = Append(o, i)
    BY <1>1, <1>2, <1>4, <2>1 DEF Due, NextPlace
  <2>6. d < MaxDepth /\ d + 1 = Len(e.work)
    <3>1. Len(e.work) \in Nat
      BY <1>2, ListedAppend DEF Path
    <3>2. Len(e.work) <= MaxDepth
      BY DEF AdmitsIn
    <3>3. QED
      BY <2>1, <3>1, <3>2, LimitsAssumption
  <2>7. Located(Append(o, i), w.items[i], d + 1, root[1])
    BY <1>1, <2>2, <2>4, <2>5, <2>6, LocatedItem
  <2>8. QED
    BY <1>1, <2>5, <2>6, <2>7
<1>5. QED
  BY <1>3, <1>4

LEMMA ContainerEnters ==
    ASSUME NEW e, NEW f, NEW s, NEW root, Sound(e, root), Mirrors(e, root), Converting(root), PathsAreSimple,
           StepContainer(e, f, s), Whole(e.call[1]), Convert
    PROVE  Enter /\ Mirrors(f, root)'
<1>1. PICK v, place : v = e.call[1] /\ place = NextPlace(frames, e.work)
  OBVIOUS
<1>2. PICK w : w = Append(e.work, Entry(v, 1))
  OBVIOUS
<1>3. /\ e.call # <<>> /\ v.kind \in Containers /\ AdmitsIn(e) /\ Len(v.items) <= MaxContainer
      /\ f.call = <<>> /\ f.work = w
  <2>1. f = EncoderAt(<<>>, w, e.pos + 1, e.count + 1, e.content)
    BY <1>1, <1>2 DEF StepContainer
  <2>2. QED
    BY <1>1, <2>1, EncoderFields DEF StepContainer
<1>4. /\ Mirrored(frames, e.work, 2, root[1])
      /\ pending = <<ToScript(v, place)>> /\ converted = <<>>
  BY <1>1, <1>3 DEF Mirrors
<1>5. Located(place, v, Len(e.work), root[1])
  BY <1>1, <1>3, NextIsLocated
<1>6. /\ Source = Ref(place) /\ pending # <<>> /\ Source.type = "object" /\ Source.object = place
  <2>1. Source = Ref(place) /\ pending # <<>>
    BY <1>3, <1>4 DEF Source, ToScript
  <2>2. QED
    BY <2>1 DEF Ref
<1>7. /\ heap[place].type = v.kind /\ heap[place].keys = KeysOf(v) /\ heap[place].items = ItemsOf(v, place)
  BY <1>5, ObjectAt DEF Converting
<1>8. Len(v.items) \in Nat /\ Len(ItemsOf(v, place)) = Len(v.items) /\ Listed(e.work) /\ Len(e.work) \in Nat
  <2>1. Len(v.items) \in Nat /\ Listed(e.work)
    BY <1>1, ListedAppend DEF Whole, Sound, Path
  <2>2. QED
    BY <2>1, ItemsListed, ListedAppend
<1>9. Enterable(place)
  <2>1. ASSUME NEW i \in 1..Len(frames) PROVE frames[i].object # place
    <3>1. Len(frames[i].object) = i - 1
      BY <1>4 DEF Mirrored, Copied, Located
    <3>2. Len(place) = Len(e.work) /\ Len(frames) = Len(e.work)
      BY <1>4, <1>5 DEF Mirrored, Located
    <3>3. i - 1 # Len(e.work)
      BY <1>8, <3>2
    <3>4. QED
      BY <3>1, <3>2, <3>3
  <2>2. place \notin visited
    BY <2>1 DEF PathsAreSimple
  <2>3. QED
    BY <1>3, <1>7, <1>8, <2>2 DEF Enterable
<1>10. Enter
  <2>1. ~ PayloadChanges /\ ~ PayloadThrows
    BY NothingLooks DEF Converting
  <2>2. QED
    BY <1>4, <1>6, <1>9, <2>1
    DEF Convert, HandOver, ConvertLeaf, NextElement, NextEntry, Leave, Refuse, Refused, Converted, Converting, Receives, Loops
<1>11. PICK copies : copies = IF v.kind = "map" THEN ItemsOf(v, place) ELSE <<>>
  OBVIOUS
<1>12. PICK n, keys : n = Len(v.items) /\ keys = KeysOf(v)
  OBVIOUS
<1>13. PICK fr : fr = Frame(place, v.kind, n, keys, copies, <<>>, <<>>)
  OBVIOUS
<1>14. frames' = Append(frames, fr) /\ pending' = <<>> /\ converted' = converted
  BY <1>6, <1>7, <1>8, <1>10, <1>11, <1>12, <1>13 DEF Enter, Frame
<1>15. /\ fr.object = place /\ fr.keys = keys /\ fr.items = copies
       /\ fr = Frame(fr.object, fr.type, fr.length, fr.keys, fr.items, fr.gotKeys, fr.got)
  BY <1>13 DEF Frame
<1>16. PICK x, gv : x = Entry(v, 1) /\ gv = View(fr)
  OBVIOUS
<1>17. x.value = v /\ x.at = 1
  BY <1>16, EntryFields
<1>18. Copied(fr, x.value, Len(e.work), root[1])
  BY <1>5, <1>11, <1>12, <1>15, <1>17 DEF Copied
<1>19. Agrees(gv, x, x.at - 1)
  <2>1. gv = [kind |-> v.kind, number |-> n, keys |-> <<>>, items |-> <<>>]
    BY <1>13, <1>16 DEF View, Frame
  <2>2. gv.kind = v.kind /\ gv.number = n
    BY <2>1
  <2>3. gv.keys = <<>> /\ gv.items = <<>>
    BY <2>1
  <2>4. QED
    BY <1>12, <1>17, <2>2, <2>3, ListedEmpty DEF Agrees
<1>20. Mirrored(frames', w, 1, root[1])
  <2>1. Mirrored(Append(frames, fr), Append(e.work, x), 1, root[1])
    BY <1>4, <1>16, <1>18, <1>19, MirroredPush
  <2>2. QED
    BY <1>2, <1>14, <1>16, <2>1
<1>21. w # <<>>
  BY <1>2, <1>8, RestOfAppend
<1>22. QED
  BY <1>3, <1>4, <1>10, <1>14, <1>20, <1>21 DEF Mirrors

\* The loop over the entries is where the encoder will be.
LEMMA LoopsOn ==
    ASSUME NEW e, NEW root, Sound(e, root), Mirrors(e, root), Converting(root), AtEntry(e)
    PROVE  /\ pending = <<>> /\ frames # <<>> /\ converted = <<>>
           /\ Loops /\ ~ Receives /\ More
           /\ Len(Top(frames).got) + 1 = Top(e.work).at
           /\ Top(frames).type = Top(e.work).value.kind
           /\ Copied(Top(frames), Top(e.work).value, Len(e.work) - 1, root[1])
           /\ Agrees(View(Top(frames)), Top(e.work), Top(e.work).at - 1)
           /\ Mirrored(frames, e.work, 1, root[1])
<1>1. PICK x, fr, gv, n : x = Top(e.work) /\ fr = Top(frames) /\ gv = View(fr) /\ n = Len(x.value.items)
  OBVIOUS
<1>2. e.call = <<>> /\ e.work # <<>>
  BY DEF AtEntry
<1>3. Mirrored(frames, e.work, 1, root[1]) /\ pending = <<>> /\ converted = <<>>
  BY <1>2 DEF Mirrors
<1>4. frames # <<>> /\ Agrees(gv, x, x.at - 1) /\ Copied(fr, x.value, Len(e.work) - 1, root[1])
  BY <1>1, <1>2, <1>3, MirroredPop
<1>5. x.at \in 1..n /\ n \in Nat
  BY <1>1, <1>2, AtEntryFacts, TopFacts DEF Sound
<1>6. gv.kind = fr.type /\ gv.number = fr.length /\ gv.items = fr.got
  BY <1>1 DEF View
<1>7. Len(fr.got) = x.at - 1 /\ fr.length = n /\ fr.type = x.value.kind
  BY <1>1, <1>4, <1>6 DEF Agrees
<1>8. Len(fr.got) < fr.length /\ Len(fr.got) + 1 = x.at
  BY <1>5, <1>7
<1>9. Loops /\ ~ Receives /\ More
  BY <1>1, <1>3, <1>4, <1>8 DEF Loops, Receives, More, Converting
<1>10. QED
  BY <1>1, <1>3, <1>4, <1>7, <1>8, <1>9

LEMMA ItemTaken ==
    ASSUME NEW e, NEW f, NEW root, Sound(e, root), Mirrors(e, root), Converting(root), StepItem(e, f), Convert
    PROVE  NextElement /\ Mirrors(f, root)'
<1>1. PICK x, fr, o, w, d, k : /\ x = Top(e.work) /\ fr = Top(frames) /\ o = fr.object /\ w = x.value
                               /\ d = Len(e.work) - 1 /\ k = x.at
  OBVIOUS
<1>2. AtEntry(e) /\ e.work # <<>> /\ w.kind = "array"
  BY <1>1 DEF StepItem, AtEntry
<1>3. PICK y : y = Entry(w, k + 1)
  OBVIOUS
<1>4. /\ Turned(e, f.work) /\ f.call = <<NextItem(e)>> /\ Replaced(e.work, y, f.work)
  BY <1>1, <1>3, EncoderFields DEF StepItem, Turned
<1>5. f.work # <<>> /\ Top(f.work) = y /\ NextItem(e) = w.items[k]
  <2>1. PICK p, b : p = e.pos /\ b = e.content
    OBVIOUS
  <2>2. f = EncoderAt(<<NextItem(e)>>, f.work, p, e.count, b)
    BY <2>1 DEF StepItem
  <2>3. f.work # <<>> /\ Top(f.work) = y
    BY <1>1, <1>2, <1>3, <1>4, <2>2, TurnedIsSound
  <2>4. QED
    BY <1>1, <2>3 DEF NextItem
<1>6. /\ frames # <<>> /\ pending = <<>> /\ converted = <<>> /\ Loops /\ ~ Receives /\ More
      /\ Len(fr.got) + 1 = k /\ fr.type = "array" /\ Copied(fr, w, d, root[1])
      /\ Agrees(View(fr), x, x.at - 1) /\ Mirrored(frames, e.work, 1, root[1])
  BY <1>1, <1>2, LoopsOn
<1>7. k \in 1..Len(w.items) /\ Len(w.items) \in Nat /\ k \in Nat
  BY <1>1, <1>2, AtEntryFacts, TopFacts DEF Sound
<1>8. /\ heap[o].items = ItemsOf(w, o)
      /\ Len(ItemsOf(w, o)) = Len(w.items)
      /\ ItemsOf(w, o)[k] = ToScript(w.items[k], Append(o, k))
  BY <1>1, <1>6, <1>7, ObjectAt, ItemsListed DEF Copied, Converting
<1>9. NextElement
  <2>1. ~ PayloadChanges /\ ~ PayloadThrows
    BY NothingLooks DEF Converting
  <2>2. QED
    BY <1>1, <1>6, <2>1
    DEF Convert, HandOver, ConvertLeaf, Enter, NextEntry, Leave, Refuse, Refused, Converted, Converting
<1>10. /\ pending' = <<ToScript(w.items[k], Append(o, k))>> /\ frames' = frames /\ converted' = <<>>
  BY <1>1, <1>6, <1>7, <1>8, <1>9 DEF NextElement
<1>11. y.value = w /\ y.at = k + 1 /\ (k + 1) - 1 = k /\ y.at - 2 = k - 1
  BY <1>3, <1>7, EntryFields
<1>12. Mirrored(frames, f.work, 2, root[1])
  <2>1. Agrees(View(fr), y, y.at - 2)
    BY <1>1, <1>2, <1>6, <1>11 DEF Agrees
  <2>2. Replaced(frames, fr, frames)
    BY <1>1, <1>6, ReplacedSame DEF Mirrored
  <2>3. Copied(fr, y.value, Len(e.work) - 1, root[1])
    BY <1>1, <1>6, <1>11
  <2>4. QED
    BY <1>2, <1>4, <1>6, <2>1, <2>2, <2>3, MirroredTurn
<1>13. NextPlace(frames, f.work) = Append(o, k)
  BY <1>1, <1>5, <1>11 DEF NextPlace
<1>14. f.call # <<>> /\ f.call[1] = w.items[k]
  BY <1>4, <1>5
<1>15. QED
  BY <1>9, <1>10, <1>12, <1>13, <1>14 DEF Mirrors

LEMMA EntryTaken ==
    ASSUME NEW e, NEW f, NEW s, NEW root, Sound(e, root), Mirrors(e, root), Converting(root),
           StepEntry(e, f, s), KeysHeld(Top(e.work).value), Convert
    PROVE  NextEntry /\ Mirrors(f, root)'
<1>1. PICK x, fr, o, w, d, k, key : /\ x = Top(e.work) /\ fr = Top(frames) /\ o = fr.object /\ w = x.value
                                    /\ d = Len(e.work) - 1 /\ k = x.at /\ key = w.keys[k]
  OBVIOUS
<1>2. AtEntry(e) /\ e.work # <<>> /\ w.kind = "map"
  BY <1>1 DEF StepEntry, AtEntry
<1>3. PICK y, b : y = Entry(w, k + 1) /\ b = e.content + Size(NextKey(e))
  OBVIOUS
<1>4. /\ Turned(e, f.work) /\ f = EncoderAt(<<NextItem(e)>>, f.work, e.pos + 1, e.count, b)
      /\ Replaced(e.work, y, f.work)
  BY <1>1, <1>3 DEF StepEntry, Turned
<1>5. f.work # <<>> /\ Top(f.work) = y /\ NextItem(e) = w.items[k] /\ f.call = <<NextItem(e)>>
  <2>1. f.call = <<NextItem(e)>>
    BY <1>4, EncoderFields
  <2>2. PICK p : p = e.pos + 1
    OBVIOUS
  <2>3. f.work # <<>> /\ Top(f.work) = y
    BY <1>1, <1>2, <1>3, <1>4, <2>2, TurnedIsSound
  <2>4. QED
    BY <1>1, <2>1, <2>3 DEF NextItem
<1>6. /\ frames # <<>> /\ pending = <<>> /\ converted = <<>> /\ Loops /\ ~ Receives /\ More
      /\ Len(fr.got) + 1 = k /\ fr.type = "map" /\ Copied(fr, w, d, root[1])
      /\ Agrees(View(fr), x, x.at - 1) /\ Mirrored(frames, e.work, 1, root[1])
  BY <1>1, <1>2, LoopsOn
<1>7. /\ k \in 1..Len(w.items) /\ Len(w.items) \in Nat /\ k \in Nat \ {0}
      /\ Len(w.keys) = Len(w.items)
  BY <1>1, <1>2, AtEntryFacts, TopFacts DEF Sound, EntryOK, Whole
<1>8. /\ fr.items = ItemsOf(w, o)
      /\ ItemsOf(w, o)[k] = ToScript(w.items[k], Append(o, k))
      /\ fr.keys[k] = Immediate("string", key, 0)
  <2>1. fr.items = ItemsOf(w, o) /\ fr.keys = KeysOf(w)
    BY <1>1, <1>2, <1>6 DEF Copied
  <2>2. KeysOf(w)[k] = Immediate("string", key, 0)
    BY <1>1, <1>7 DEF KeysOf
  <2>3. QED
    BY <1>7, <2>1, <2>2, ItemsListed
<1>9. EntryKey.type = "string" /\ EntryKey.text = key /\ Convertible(EntryKey)
  <2>1. PICK ek : ek = EntryKey
    OBVIOUS
  <2>2. ek = Immediate("string", key, 0)
    BY <1>1, <1>6, <1>8, <2>1 DEF EntryKey
  <2>3. ek.type = "string" /\ ek.text = key
    BY <2>2 DEF Immediate
  <2>4. key \notin Invalid \cup Unpaired
    <3>1. Held(Key(key))
      BY <1>1, <1>7 DEF KeysHeld
    <3>2. QED
      BY <3>1 DEF Held, Key, Token
  <2>5. Convertible(ek)
    BY <2>3, <2>4 DEF Convertible
  <2>6. QED
    BY <2>1, <2>3, <2>5
<1>10. NextEntry
  <2>1. ~ PayloadChanges /\ ~ PayloadThrows
    BY NothingLooks DEF Converting
  <2>2. QED
    BY <1>1, <1>6, <1>9, <2>1
    DEF Convert, HandOver, ConvertLeaf, Enter, NextElement, Leave, Refuse, Refused, Converted, Converting
<1>11. PICK g, fv, gv : g = WithKey(fr, key) /\ fv = View(fr) /\ gv = View(g)
  OBVIOUS
<1>12. /\ pending' = <<ToScript(w.items[k], Append(o, k))>>
       /\ frames' = [frames EXCEPT ![Len(frames)] = g]
       /\ converted' = <<>>
  BY <1>1, <1>6, <1>8, <1>9, <1>10, <1>11 DEF NextEntry, WithKey, Top
<1>13. y.value = w /\ y.at = k + 1 /\ (k + 1) - 1 = k /\ y.at - 2 = k - 1
  BY <1>3, <1>7, EntryFields
<1>14. /\ Copied(g, w, d, root[1]) /\ g.object = o
       /\ gv.kind = fv.kind /\ gv.number = fv.number /\ gv.items = fv.items /\ gv.keys = Append(fv.keys, key)
  <2>1. PICK top : top = root[1]
    OBVIOUS
  <2>2. Copied(fr, w, d, top)
    BY <1>6, <2>1
  <2>3. /\ Copied(g, w, d, top) /\ g.object = fr.object
        /\ gv.kind = fv.kind /\ gv.number = fv.number /\ gv.items = fv.items /\ gv.keys = Append(fv.keys, key)
    BY <1>11, <2>2, GotKey
  <2>4. QED
    BY <1>1, <2>1, <2>3
<1>15. Agrees(gv, y, y.at - 2)
  <2>1. PICK h : h = [fv EXCEPT !.keys = Append(@, key)]
    OBVIOUS
  <2>2. Agrees(fv, x, x.at - 1)
    BY <1>6, <1>11
  <2>3. Agrees(h, y, y.at - 2)
    <3>1. Agrees([fv EXCEPT !.keys = Append(@, x.value.keys[x.at])], Entry(x.value, x.at + 1), (x.at + 1) - 2)
      BY <1>1, <1>2, <1>7, <2>2, KeyAdded
    <3>2. QED
      BY <1>1, <1>3, <1>13, <2>1, <3>1
  <2>4. h.kind = fv.kind /\ h.number = fv.number /\ h.items = fv.items /\ h.keys = Append(fv.keys, key)
    BY <2>1, <2>2 DEF Agrees
  <2>5. QED
    BY <1>14, <2>3, <2>4 DEF Agrees
<1>16. Replaced(frames, g, frames')
  BY <1>6, <1>12, Replacing, Zenon DEF Mirrored
<1>17. Mirrored(frames', f.work, 2, root[1])
  BY <1>1, <1>2, <1>4, <1>6, <1>11, <1>13, <1>14, <1>15, <1>16, MirroredTurn
<1>18. NextPlace(frames', f.work) = Append(o, k)
  <2>1. Top(frames') = g
    BY <1>6, <1>16, ReplacedBack DEF Mirrored
  <2>2. QED
    BY <1>5, <1>13, <1>14, <2>1 DEF NextPlace
<1>19. f.call # <<>> /\ f.call[1] = w.items[k]
  BY <1>5
<1>20. QED
  BY <1>10, <1>12, <1>17, <1>18, <1>19 DEF Mirrors

LEMMA LeaveConverts ==
    ASSUME NEW e, NEW f, NEW root, Sound(e, root), Mirrors(e, root), Converting(root), StepLeave(e, f), Convert
    PROVE  Leave /\ Mirrors(f, root)'
<1>1. PICK x, fr, gv, w, v : x = Top(e.work) /\ fr = Top(frames) /\ gv = View(fr) /\ w = Rest(e.work) /\ v = x.value
  OBVIOUS
<1>2. e.call = <<>> /\ e.work # <<>> /\ x.at > Len(v.items) /\ f = EncoderAt(<<>>, w, e.pos, e.count, e.content)
  BY <1>1 DEF StepLeave
<1>3. Mirrored(frames, e.work, 1, root[1]) /\ pending = <<>> /\ converted = <<>>
  BY <1>2 DEF Mirrors
<1>4. frames # <<>> /\ Mirrored(Rest(frames), w, 2, root[1]) /\ Agrees(gv, x, x.at - 1)
  BY <1>1, <1>2, <1>3, MirroredPop
<1>5. EntryOK(x) /\ Path(w, root) /\ v = Due(w, root) /\ root = <<root[1]>>
  BY <1>1, <1>2, PathPop DEF Sound
<1>6. v = Container(gv.kind, gv.keys, gv.items) /\ Len(gv.items) = gv.number
  BY <1>1, <1>2, <1>4, <1>5, Completed
<1>7. gv.kind = fr.type /\ gv.number = fr.length /\ gv.keys = fr.gotKeys /\ gv.items = fr.got
  BY <1>1 DEF View
<1>8. Len(fr.got) \in Nat
  BY <1>4, <1>7, ListedAppend DEF Agrees
<1>9. Loops /\ ~ Receives /\ ~ More
  BY <1>1, <1>3, <1>4, <1>6, <1>7, <1>8 DEF Loops, Receives, More, Converting
<1>10. Leave
  <2>1. ~ PayloadChanges /\ ~ PayloadThrows
    BY NothingLooks DEF Converting
  <2>2. QED
    BY <1>3, <1>9, <2>1
    DEF Convert, HandOver, ConvertLeaf, Enter, NextElement, NextEntry, Refuse, Refused, Converted, Converting
<1>11. Give(v, Rest(frames)) /\ pending' = <<>>
  BY <1>1, <1>3, <1>6, <1>7, <1>10 DEF Leave
<1>12. PICK around : around = Rest(frames)
  OBVIOUS
<1>13. Mirrored(frames', w, 1, root[1]) /\ converted' = IF w = <<>> THEN root ELSE <<>>
  BY <1>3, <1>4, <1>5, <1>11, <1>12, GiveMirrors
<1>14. f.call = <<>> /\ f.work = w
  <2>1. PICK p, n, b : p = e.pos /\ n = e.count /\ b = e.content
    OBVIOUS
  <2>2. QED
    BY <1>2, <2>1, EncoderFields
<1>15. QED
  BY <1>10, <1>11, <1>13, <1>14 DEF Mirrors

\* Each step of the encoder to come is a step of from_raw, unless it is over.
LEMMA Converts ==
    ASSUME NEW S, ValueSet(S), Fitting(S), NEW e, NEW f, NEW s, NEW root, Sound(e, root), Within(e, S),
           Mirrors(e, root), Converting(root), PathsAreSimple, Step(e, f, s), Convert
    PROVE  /\ ConvertLeaf \/ Enter \/ NextElement \/ NextEntry \/ Leave
           /\ Mirrors(f, root)'
<1>1. CASE StepLeaf(e, f, s)
  <2>1. e.call[1] \in S /\ IsLeaf(e.call[1])
    BY <1>1, ContainersOf DEF StepLeaf, Within
  <2>2. Held(e.call[1])
    BY <2>1 DEF Fitting
  <2>3. QED
    BY <1>1, <2>1, <2>2, LeafConverts
<1>2. CASE StepContainer(e, f, s)
  <2>1. Whole(e.call[1])
    BY <1>2, ContainersOf DEF StepContainer, Within
  <2>2. QED
    BY <1>2, <2>1, ContainerEnters
<1>3. CASE StepItem(e, f)
  BY <1>3, ItemTaken
<1>4. CASE StepEntry(e, f, s)
  <2>1. e.work # <<>> /\ Listed(e.work)
    BY <1>4 DEF StepEntry, AtEntry, Sound, Path
  <2>2. Len(e.work) \in 1..Len(e.work)
    <3>1. Len(e.work) \in Nat \ {0}
      BY <2>1, ListedRest
    <3>2. QED
      BY <3>1
  <2>3. KeysHeld(Top(e.work).value)
    BY <2>2 DEF Fitting, Within, Top
  <2>4. QED
    BY <1>4, <2>3, EntryTaken
<1>5. CASE StepLeave(e, f)
  BY <1>5, LeaveConverts
<1>6. QED
  BY <1>1, <1>2, <1>3, <1>4, <1>5 DEF Step

\* Then it has made the value.
LEMMA ConversionEnds ==
    ASSUME NEW e, NEW root, root # <<>>, Mirrors(e, root), Converting(root), e.call = <<>>, e.work = <<>>, Convert
    PROVE  Converted /\ converted = root
<1>1. Mirrored(frames, <<>>, 1, root[1]) /\ pending = <<>> /\ converted = root
  BY DEF Mirrors
<1>2. frames = <<>>
  BY <1>1, MirroredEmpty
<1>3. ~ PayloadChanges /\ ~ PayloadThrows
  BY NothingLooks DEF Converting
<1>4. QED
  BY <1>1, <1>2, <1>3
  DEF Convert, HandOver, ConvertLeaf, Enter, NextElement, NextEntry, Leave, Refuse, Refused, Converting, Receives, Loops

\* Where it begins.
LEMMA ConversionStarts ==
    ASSUME NEW root, root = <<root[1]>>, frames' = <<>>, converted' = <<>>, pending' = <<ToScript(root[1], <<>>)>>
    PROVE  Mirrors(Start(root), root)'
<1>1. PICK e : e = Start(root)
  OBVIOUS
<1>2. e.call = root /\ e.work = <<>> /\ root # <<>>
  <2>1. e.call = root /\ e.work = <<>>
    BY <1>1, EncoderFields DEF Start
  <2>2. root # <<>>
    OBVIOUS
  <2>3. QED
    BY <2>1, <2>2
<1>3. Mirrored(<<>>, <<>>, 2, root[1])
  <2>1. Views(<<>>, <<>>) /\ Alike(<<>>, <<>>, 2)
    BY ListedEmpty DEF Views, Alike
  <2>2. QED
    BY <2>1, ListedEmpty DEF Mirrored
<1>4. NextPlace(frames', <<>>) = <<>>
  BY DEF NextPlace
<1>5. Mirrors(e, root)'
  BY <1>2, <1>3, <1>4 DEF Mirrors
<1>6. QED
  BY <1>1, <1>5

-----------------------------------------------------------------------------
(* The values that can be handed over *)

Written(root, s) == Listed(s) /\ \E T, to : Road(T, root, to, s) /\ Final(to, s)

Sourced(root) == \E S : ValueSet(S) /\ Fitting(S) /\ root[1] \in S

\* The values the decoder has read are in S.
FrameIn(frame, S) ==
    /\ \A j \in 1..Len(frame.items) : frame.items[j] \in S
    /\ KeysHeld(frame)

Material(S) ==
    /\ ValueSet(S) /\ Fitting(S)
    /\ \A i \in 1..Len(open) : FrameIn(open[i], S)
    /\ result # <<>> => result[1] \in S

LEMMA MoreMaterial ==
    ASSUME NEW S, Material(S), NEW v, IsLeaf(v) \/ (IsContainer(v) /\ v.items \in Seq(S)),
           IsLeaf(v) => Held(v), KeysHeld(v)
    PROVE  Material(S \cup {v})
<1> DEFINE T == S \cup {v}
<1>1. S \subseteq T /\ \A w \in T : w \in S \/ w = v
  OBVIOUS
<1> HIDE DEF T
<1>2. Seq(S) \subseteq Seq(T)
  BY <1>1, SeqMonotonic
<1>3. ValueSet(T)
  BY <1>1, <1>2 DEF ValueSet, Material
<1>4. Fitting(T)
  BY <1>1 DEF Fitting, Material
<1>5. QED
  BY <1>1, <1>3, <1>4 DEF Material, FrameIn, T

\* A value of S completed goes to the container that waits for it.
LEMMA ReturnsMaterial ==
    ASSUME NEW S, ValueSet(S), Fitting(S), NEW v \in S, NEW around, StackOK(around),
           \A i \in 1..Len(around) : FrameIn(around[i], S), Return(v, around), result # <<>> => result[1] \in S
    PROVE  Material(S)'
<1>1. CASE around = <<>>
  <2>1. open' = <<>> /\ result' = <<v>> /\ Len(<<>>) = 0
    BY <1>1, ListedEmpty DEF Return
  <2>2. QED
    BY <2>1 DEF Material
<1>2. CASE around # <<>>
  <2> DEFINE f == Top(around)
             g == [f EXCEPT !.items = Append(@, v)]
             n == Len(around)
  <2>1. n \in Nat \ {0} /\ Listed(around)
    BY <1>2, ListedRest DEF StackOK
  <2>2. FrameOK(f) /\ FrameIn(f, S)
    <3>1. n \in 1..n
      BY <2>1
    <3>2. QED
      BY <3>1 DEF StackOK, Top
  <2>3. open' = [around EXCEPT ![Len(around)] = g] /\ result' = result
    BY <1>2 DEF Return, Top
  <2>4. g.keys = f.keys /\ g.items = Append(f.items, v)
    BY <2>2 DEF FrameOK, WellFormed
  <2> HIDE DEF f, g, n
  <2>5. FrameIn(g, S)
    <3>1. /\ Len(f.items) \in Nat /\ Len(g.items) = Len(f.items) + 1
          /\ \A j \in 1..Len(f.items) : g.items[j] = f.items[j]
          /\ g.items[Len(f.items) + 1] = v
      BY <2>2, <2>4, ListedAppend DEF FrameOK
    <3>2. \A j \in 1..Len(g.items) : j \in 1..Len(f.items) \/ j = Len(f.items) + 1
      BY <3>1
    <3>3. \A j \in 1..Len(g.items) : g.items[j] \in S
      BY <2>2, <3>1, <3>2 DEF FrameIn
    <3>4. QED
      BY <2>2, <2>4, <3>3 DEF FrameIn, KeysHeld
  <2>6. Replaced(around, g, open')
    BY <1>2, <2>1, <2>3, Replacing, Zenon
  <2>7. Len(open') = n /\ open'[n] = g /\ \A i \in 1..n - 1 : open'[i] = around[i] /\ i \in 1..n
    BY <2>1, <2>6 DEF Replaced, n
  <2>8. \A i \in 1..Len(open') : i \in 1..n - 1 \/ i = n
    BY <2>1, <2>7
  <2>9. \A i \in 1..Len(open') : FrameIn(open'[i], S)
    BY <2>5, <2>7, <2>8 DEF n
  <2>10. QED
    BY <2>3, <2>9 DEF Material
<1>3. QED
  BY <1>1, <1>2

WireHeld == \A i \in 1..Len(wire) : Held(wire[i])

LEMMA ReadsMaterial ==
    ASSUME IInv, origin = "wire", phase = "decode", WireHeld, NEW S, Material(S), Decode
    PROVE  WireHeld' /\ (\E U : Material(U))'
<1>1. /\ wire \in Seq(AnyToken) /\ offset \in 0..Len(wire) /\ StackOK(open) /\ Len(wire) \in Nat
      /\ ValueSet(S) /\ Fitting(S)
      /\ \A i \in 1..Len(open) : FrameIn(open[i], S)
      /\ result # <<>> => result[1] \in S
  BY LenProperties DEF IInv, Material
<1>2. CASE \E token \in Tokens : Supply(token)
  <2>1. PICK token \in Tokens : Supply(token)
    BY <1>2
  <2>2. wire' = Append(wire, token) /\ open' = open /\ result' = result
    BY <2>1 DEF Supply
  <2>3. Listed(wire)
    BY <1>1, ListedProperties
  <2>4. Len(wire') = Len(wire) + 1 /\ wire'[Len(wire) + 1] = token /\ \A i \in 1..Len(wire) : wire'[i] = wire[i]
    BY <2>2, <2>3, ListedAppend
  <2>5. \A i \in 1..Len(wire') : i \in 1..Len(wire) \/ i = Len(wire) + 1
    BY <1>1, <2>4
  <2>6. Held(token)
    BY HeldAssumption
  <2>7. WireHeld'
    BY <2>4, <2>5, <2>6 DEF WireHeld
  <2>8. Material(S)'
    BY <1>1, <2>2 DEF Material
  <2>9. QED
    BY <2>7, <2>8
<1>3. CASE SupplyEnds \/ DecodeRefuse \/ Decoded
  <2>1. wire' = wire /\ open' = open /\ result' = result
    BY <1>3 DEF SupplyEnds, DecodeRefuse, Decoded, decoderVars
  <2>2. Material(S)'
    BY <1>1, <2>1 DEF Material
  <2>3. QED
    BY <2>1, <2>2 DEF WireHeld
<1>4. ASSUME There
      PROVE  Ahead \in AnyToken /\ Held(Ahead)
  <2>1. Ahead \in AnyToken
    BY <1>1, <1>4, AheadIsToken
  <2>2. offset + 1 \in 1..Len(wire)
    BY <1>1, <1>4 DEF There
  <2>3. QED
    BY <2>1, <2>2 DEF WireHeld, Ahead
<1>5. CASE DecodeLeaf
  <2>1. PICK v : v = Leaf(Ahead.kind, Ahead.text, Ahead.number)
    OBVIOUS
  <2>2. Held(Ahead) /\ Ahead.kind \in LeafKinds /\ Return(v, open) /\ wire' = wire
    BY <1>4, <1>5, <2>1 DEF DecodeLeaf, LeafDecodable
  <2>3. v.kind = Ahead.kind /\ v.text = Ahead.text /\ v.number = Ahead.number /\ v.keys = <<>>
    BY <2>1 DEF Leaf
  <2>4. IsLeaf(v) /\ Held(v) /\ KeysHeld(v)
    BY <2>1, <2>2, <2>3, ListedEmpty DEF IsLeaf, Held, KeysHeld
  <2>5. Material(S \cup {v})
    BY <2>4, MoreMaterial
  <2>6. PICK T : T = S \cup {v}
    OBVIOUS
  <2>7. Material(T)'
    BY <1>1, <2>2, <2>5, <2>6, ReturnsMaterial DEF Material
  <2>8. QED
    BY <2>2, <2>7 DEF WireHeld
<1>6. CASE DecodeContainer
  <2>1. PICK fr : fr = [kind |-> Ahead.kind, number |-> Ahead.number, keys |-> <<>>, items |-> <<>>]
    OBVIOUS
  <2>2. open' = Append(open, fr) /\ result' = result /\ wire' = wire
    BY <1>6, <2>1 DEF DecodeContainer
  <2>3. FrameIn(fr, S)
    <3>1. fr.keys = <<>> /\ fr.items = <<>> /\ Len(<<>>) = 0
      BY <2>1, ListedEmpty
    <3>2. QED
      BY <3>1 DEF FrameIn, KeysHeld
  <2>4. /\ Len(open) \in Nat /\ Len(open') = Len(open) + 1 /\ open'[Len(open) + 1] = fr
        /\ \A i \in 1..Len(open) : open'[i] = open[i]
    BY <1>1, <2>2, ListedAppend DEF StackOK
  <2>5. \A i \in 1..Len(open') : i \in 1..Len(open) \/ i = Len(open) + 1
    BY <2>4
  <2>6. Material(S)'
    BY <1>1, <2>2, <2>3, <2>4, <2>5 DEF Material
  <2>7. QED
    BY <2>2, <2>6 DEF WireHeld
<1>7. CASE DecodeKey
  <2> DEFINE f == Top(open)
             key == Ahead.text
             g == [f EXCEPT !.keys = Append(@, key)]
             n == Len(open)
  <2>1. /\ open # <<>> /\ Ahead.kind = "key" /\ Held(Ahead)
        /\ open' = [open EXCEPT ![Len(open)] = g] /\ result' = result /\ wire' = wire
    BY <1>4, <1>7 DEF DecodeKey, KeyDecodable, Wants, Top
  <2>2. n \in Nat \ {0} /\ Listed(open)
    BY <1>1, <2>1, ListedRest DEF StackOK
  <2>3. FrameOK(f) /\ FrameIn(f, S)
    <3>1. n \in 1..n
      BY <2>2
    <3>2. QED
      BY <1>1, <3>1 DEF StackOK, Top
  <2>4. g.items = f.items /\ g.keys = Append(f.keys, key)
    BY <2>3 DEF FrameOK, WellFormed
  <2>5. Held(Key(key))
    BY <2>1 DEF Held, Key, Token
  <2> HIDE DEF f, g, key, n
  <2>6. FrameIn(g, S)
    <3>1. /\ Len(f.keys) \in Nat /\ Len(g.keys) = Len(f.keys) + 1
          /\ \A j \in 1..Len(f.keys) : g.keys[j] = f.keys[j]
          /\ g.keys[Len(f.keys) + 1] = key
      BY <2>3, <2>4, ListedAppend DEF FrameOK
    <3>2. \A j \in 1..Len(g.keys) : j \in 1..Len(f.keys) \/ j = Len(f.keys) + 1
      BY <3>1
    <3>3. KeysHeld(g)
      BY <2>3, <2>5, <3>1, <3>2 DEF FrameIn, KeysHeld
    <3>4. QED
      BY <2>3, <2>4, <3>3 DEF FrameIn
  <2>7. Replaced(open, g, open')
    BY <2>1, <2>2, Replacing, Zenon
  <2>8. Len(open') = n /\ open'[n] = g /\ \A i \in 1..n - 1 : open'[i] = open[i] /\ i \in 1..n
    BY <2>2, <2>7 DEF Replaced, n
  <2>9. \A i \in 1..Len(open') : i \in 1..n - 1 \/ i = n
    BY <2>2, <2>8
  <2>10. \A i \in 1..Len(open') : FrameIn(open'[i], S)
    BY <1>1, <2>6, <2>8, <2>9 DEF n
  <2>11. Material(S)'
    BY <1>1, <2>1, <2>10 DEF Material
  <2>12. QED
    BY <2>1, <2>11 DEF WireHeld
<1>8. CASE DecodeLeave
  <2>1. PICK f, v, around : f = Top(open) /\ v = Container(f.kind, f.keys, f.items) /\ around = Rest(open)
    OBVIOUS
  <2>2. Wants = "nothing" /\ Return(v, around) /\ wire' = wire
    BY <1>8, <2>1 DEF DecodeLeave
  <2>3. open # <<>> /\ Len(f.items) = f.number
    BY <2>1, <2>2 DEF Wants
  <2>4. Listed(open) /\ Len(open) \in Nat \ {0} /\ Len(open) \in 1..Len(open)
    <3>1. Listed(open) /\ Len(open) \in Nat \ {0}
      BY <1>1, <2>3, ListedRest DEF StackOK
    <3>2. QED
      BY <3>1
  <2>5. FrameOK(f) /\ FrameIn(f, S)
    BY <1>1, <2>1, <2>4 DEF StackOK, Top
  <2>6. v.kind = f.kind /\ v.keys = f.keys /\ v.items = f.items /\ v = Container(v.kind, v.keys, v.items)
    BY <2>1 DEF Container
  <2>7. f.items \in Seq(S)
    <3>1. PICK m, s : s = f.items /\ m = Len(s)
      OBVIOUS
    <3>2. Listed(s) /\ \A j \in 1..m : s[j] \in S
      BY <2>5, <3>1 DEF FrameOK, FrameIn
    <3>3. {s[i] : i \in 1..Len(s)} \subseteq S
      BY <3>1, <3>2
    <3>4. QED
      BY <3>1, <3>2, <3>3, SeqMonotonic DEF Listed
  <2>8. Len(f.keys) = IF f.kind = "map" THEN Len(f.items) ELSE 0
    <3>1. Len(f.keys) \in Nat /\ Len(f.items) \in Nat /\ Len(f.keys) <= f.number
      BY <2>5, ListedAppend DEF FrameOK
    <3>2. /\ f.kind \in {"array", "map"}
          /\ f.kind = "array" => f.keys = <<>>
          /\ f.kind = "map" => Len(f.keys) \in {Len(f.items), Len(f.items) + 1}
      BY <2>5 DEF FrameOK, WellFormed, Containers
    <3>3. QED
      BY <2>3, <3>1, <3>2, ListedEmpty
  <2>9. f.keys = [i \in 1..Len(f.keys) |-> f.keys[i]]
    <3>1. PICK keys : keys = f.keys
      OBVIOUS
    <3>2. Listed(keys)
      BY <2>5, <3>1 DEF FrameOK
    <3>3. keys = [i \in 1..Len(keys) |-> keys[i]]
      BY <3>2, LenProperties DEF Listed
    <3>4. QED
      BY <3>1, <3>3
  <2>10. IsContainer(v)
    BY <2>5, <2>6, <2>8, <2>9 DEF IsContainer, FrameOK, WellFormed
  <2>11. ~ IsLeaf(v) /\ KeysHeld(v)
    BY <2>5, <2>6, <2>10 DEF IsContainer, IsLeaf, Containers, LeafKinds, FrameIn, KeysHeld
  <2>12. PICK T : T = S \cup {v}
    OBVIOUS
  <2>13. Material(T)
    BY <2>6, <2>7, <2>10, <2>11, <2>12, MoreMaterial
  <2>14. StackOK(around) /\ \A i \in 1..Len(around) : FrameIn(around[i], T)
    <3>1. PICK n : n = Len(open)
      OBVIOUS
    <3>2. /\ Listed(around) /\ Len(around) = n - 1 /\ n \in Nat /\ \A i \in 1..n - 1 : around[i] = open[i]
      BY <2>1, <2>3, <2>4, <3>1, ListedRest
    <3>3. n - 1 <= MaxDepth + 1 /\ \A i \in 1..(n - 1) - 1 : i \in 1..n - 1
      BY <1>1, <3>1, <3>2, LimitsAssumption DEF StackOK
    <3>4. \A i \in 1..n - 1 : i \in 1..n
      BY <3>2
    <3>5. QED
      BY <1>1, <2>13, <3>1, <3>2, <3>3, <3>4 DEF StackOK, Material
  <2>15. Material(T)'
    BY <2>2, <2>12, <2>13, <2>14, ReturnsMaterial DEF Material
  <2>16. QED
    BY <2>2, <2>15 DEF WireHeld
<1>9. QED
  BY <1>2, <1>3, <1>5, <1>6, <1>7, <1>8 DEF Decode

-----------------------------------------------------------------------------
(* What was handed over *)

Untouched == origin \in {"value", "wire"} => handed = <<>> /\ frames = <<>> /\ converted = <<>>

ValueReady ==
    origin = "value" =>
        /\ given[1] \in LocalValues
        /\ phase = "done" => Written(given, wire)

WireReady ==
    origin = "wire" =>
        /\ phase = "decode" => WireHeld /\ \E S : Material(S)
        /\ phase \in {"encode", "done"} => given = result /\ Sourced(given) /\ Written(given, wire)

\* Along such a way from_raw makes the value again, and the encoder writes it.
GoesBack(T, to, s, S) ==
    /\ Listed(s) /\ Road(T, handed, to, s) /\ Final(to, s)
    /\ ValueSet(S) /\ Fitting(S)
    /\ phase = "script" => Converting(handed) /\ \E e \in T : Within(e, S) /\ Mirrors(e, handed)
    /\ phase = "encode" => converted = handed /\ EState \in T /\ Begins(out, s)

HandedOn ==
    handed # <<>> =>
        /\ origin = "script" /\ phase \in {"script", "encode", "done"}
        /\ handed = <<handed[1]>>
        /\ phase \in {"script", "encode"} => \E T, to, s, S : GoesBack(T, to, s, S)
        /\ phase = "done" => converted = handed

HandedInv == Untouched /\ ValueReady /\ WireReady /\ HandedOn

\* What was proved of the values of to_wire and from_wire.
ValuesInv == IInv /\ RoundTripInv /\ CanonicalInv

LEMMA ValuesNext == ValuesInv /\ [ScriptNext]_scriptAndValueVars => ValuesInv'
<1> SUFFICES ASSUME ValuesInv, [ScriptNext]_scriptAndValueVars PROVE ValuesInv'
  OBVIOUS
<1>1. CASE [Next]_vars
  BY <1>1, BoundedNext, RoundTripNext, CanonicalNext DEF ValuesInv
<1>2. CASE HandOver
  BY <1>2 DEF HandOver, ValuesInv, IInv, RoundTripInv, CanonicalInv
<1>3. CASE ConvertLeaf \/ Enter \/ NextElement \/ NextEntry \/ Leave \/ PayloadChanges
  <2>1. UNCHANGED vars
    BY <1>3 DEF ConvertLeaf, Enter, NextElement, NextEntry, Leave, PayloadChanges
  <2>2. QED
    BY <1>1, <2>1
<1>4. CASE Refuse \/ PayloadThrows \/ Converted
  <2>1. phase = "script" /\ origin' = origin
    BY <1>4 DEF Refuse, Refused, Receives, Loops, PayloadThrows, LooksAt, Converted
  <2>2. origin # "value" /\ origin # "wire"
    BY <2>1 DEF ValuesInv, RoundTripInv, CanonicalInv
  <2>3. QED
    BY <2>1, <2>2 DEF ValuesInv, IInv, RoundTripInv, CanonicalInv
<1>5. QED
  BY <1>1, <1>2, <1>3, <1>4 DEF ScriptNext, Convert, scriptAndValueVars

LEMMA ValuesInit == ScriptInit => ValuesInv
<1>1. ASSUME Init PROVE ValuesInv
  <2>1. RoundTripInv
    BY <1>1, ValueStarts
  <2>2. CanonicalInv
    BY <1>1, CanonicalInit DEF Init, InitValue, InitWire
  <2>3. QED
    BY <1>1, <2>1, <2>2, BoundedInit DEF ValuesInv
<1>2. ASSUME NEW objects \in Scripts, InitScript(objects) PROVE ValuesInv
  BY <1>2 DEF InitScript, ValuesInv, IInv, RoundTripInv, CanonicalInv
<1>3. QED
  BY <1>1, <1>2 DEF ScriptInit

LEMMA HandedInit == ScriptInit => HandedInv
<1>1. ASSUME NEW v \in LocalValues, InitValue(v), NoScript PROVE HandedInv
  <2>1. origin = "value" /\ phase = "encode" /\ given = <<v>> /\ handed = <<>> /\ frames = <<>> /\ converted = <<>>
    BY <1>1 DEF InitValue, NoScript
  <2>2. QED
    BY <2>1 DEF HandedInv, Untouched, ValueReady, WireReady, HandedOn
<1>2. ASSUME NEW tokens \in Openings, InitWire(tokens), InitRest, NoScript PROVE HandedInv
  <2>1. /\ origin = "wire" /\ phase = "decode" /\ wire = tokens /\ open = <<>> /\ result = <<>>
        /\ handed = <<>> /\ frames = <<>> /\ converted = <<>>
    BY <1>2 DEF InitWire, InitRest, NoScript
  <2>2. WireHeld
    BY <2>1, HeldAssumption DEF WireHeld
  <2>3. Material({})
    BY <2>1, ListedEmpty DEF Material, ValueSet, Fitting
  <2>4. WireReady
    BY <2>1, <2>2, <2>3 DEF WireReady
  <2>5. QED
    BY <2>1, <2>4 DEF HandedInv, Untouched, ValueReady, HandedOn
<1>3. ASSUME NEW objects \in Scripts, InitScript(objects) PROVE HandedInv
  BY <1>3 DEF InitScript, HandedInv, Untouched, ValueReady, WireReady, HandedOn
<1>4. QED
  BY <1>1, <1>2, <1>3 DEF ScriptInit, Init

\* Each of the two procedures has its phase.
LEMMA NextPhases == Next => (phase = "encode" /\ Encode) \/ (phase = "decode" /\ Decode)
  BY DEF Next, Encode, EncodeLeaf, EncodeContainer, EncodeItem, EncodeEntry, EncodeLeave, EncodeRefuse, Encoded,
         Calls, HasNext, Decode, Supply, SupplyEnds, DecodeLeaf, DecodeContainer, DecodeKey, DecodeLeave,
         DecodeRefuse, Decoded, There

LEMMA NextKeeps ==
    ASSUME Next
    PROVE  /\ origin' = origin
           /\ phase = "encode" => given' = given /\ result' = result /\ (origin = "wire" => wire' = wire)
           /\ origin = "value" => given' = given
           /\ origin = "value" /\ phase' = "done" => phase = "decode" /\ wire' = wire
           /\ phase = "encode" /\ origin # "value" => phase' \in {"encode", "encoder refused", "done"}
           /\ phase = "decode" => phase' = "decode" \/ DecodeRefuse \/ Decoded
<1>1. CASE phase = "encode" /\ Encode
  BY <1>1
  DEF Encode, EncodeLeaf, EncodeContainer, EncodeItem, EncodeEntry, EncodeLeave, EncodeRefuse, Encoded,
      Calls, HasNext, encoderVars, decoderVars
<1>2. CASE phase = "decode" /\ Decode
  BY <1>2
  DEF Decode, Supply, SupplyEnds, DecodeLeaf, DecodeContainer, DecodeKey, DecodeLeave, DecodeRefuse, Decoded,
      There, encoderVars, decoderVars
<1>3. QED
  BY <1>1, <1>2, NextPhases

LEMMA ValueReadyNext ==
    ASSUME ValuesInv, ValueReady, Next
    PROVE  ValueReady'
<1>1. SUFFICES ASSUME origin' = "value" PROVE given'[1] \in LocalValues /\ (phase' = "done" => Written(given', wire'))
  BY DEF ValueReady
<1>2. origin = "value" /\ given' = given
  BY <1>1, NextKeeps
<1>3. ASSUME phase' = "done" PROVE Written(given', wire')
  <2>1. phase = "decode" /\ wire' = wire
    BY <1>2, <1>3, NextKeeps
  <2>2. Listed(wire) /\ \E T, S, to : Through(T, S, given, to, wire) /\ Final(to, wire)
    BY <1>2, <2>1 DEF ValuesInv, RoundTripInv, Decoding
  <2>3. Written(given, wire)
    BY <2>2 DEF Written, Through
  <2>4. QED
    BY <1>2, <2>1, <2>3
<1>4. QED
  BY <1>2, <1>3 DEF ValueReady

LEMMA WireReadyNext ==
    ASSUME ValuesInv, ValuesInv', WireReady, Next
    PROVE  WireReady'
<1>1. SUFFICES ASSUME origin = "wire", origin' = "wire" PROVE WireReady'
  BY NextKeeps DEF WireReady
<1>2. CASE phase = "decode" /\ Decode
  <2>1. PICK S : Material(S)
    BY <1>1, <1>2 DEF WireReady
  <2>2. WireHeld' /\ (\E U : Material(U))'
    BY <1>1, <1>2, <2>1, ReadsMaterial DEF WireReady, ValuesInv
  <2>3. CASE phase' = "decode"
    BY <2>2, <2>3 DEF WireReady
  <2>4. CASE DecodeRefuse
    BY <2>4 DEF DecodeRefuse, WireReady
  <2>5. CASE Decoded
    <3>1. phase' = "encode" /\ given' = result /\ result' = result /\ wire' = wire /\ result # <<>>
      BY <1>1, <2>5 DEF Decoded, decoderVars, Wants
    <3>2. Sourced(given')
      BY <2>1, <3>1 DEF Sourced, Material
    <3>3. Written(given', wire')
      BY <1>1, <3>1 DEF ValuesInv, CanonicalInv, Written, Listed
    <3>4. QED
      BY <3>1, <3>2, <3>3 DEF WireReady
  <2>6. QED
    BY <1>2, <2>3, <2>4, <2>5, NextKeeps
<1>3. CASE phase = "encode" /\ Encode
  <2>1. given' = given /\ result' = result /\ wire' = wire /\ phase' \in {"encode", "encoder refused", "done"}
    BY <1>1, <1>3, NextKeeps
  <2>2. given = result /\ Sourced(given) /\ Written(given, wire)
    BY <1>1, <1>3 DEF WireReady
  <2>3. given' = result' /\ Sourced(given') /\ Written(given', wire')
    BY <2>1, <2>2
  <2>4. QED
    BY <2>1, <2>3 DEF WireReady
<1>4. QED
  BY <1>2, <1>3, NextPhases

LEMMA HandOverStarts ==
    ASSUME ValuesInv, HandedInv, HandOver
    PROVE  HandedInv'
<1>1. /\ phase = "done" /\ origin \in {"value", "wire"} /\ frames = <<>> /\ converted = <<>>
      /\ handed' = result /\ heap' = ObjectsOf(result[1]) /\ pending' = <<ToScript(result[1], <<>>)>>
      /\ origin' = "script" /\ phase' = "script" /\ frames' = frames /\ converted' = converted
  BY DEF HandOver, HandedInv, Untouched
<1>2. Sourced(result) /\ Written(result, wire)
  <2>1. CASE origin = "value"
    <3>1. result = given /\ given[1] \in LocalValues /\ Written(given, wire)
      BY <1>1, <2>1 DEF ValuesInv, RoundTripInv, HandedInv, ValueReady
    <3>2. Fitting(LocalValues)
      BY HeldAssumption DEF Fitting, HeldWithKeys, KeysHeld
    <3>3. QED
      BY <3>1, <3>2, ValuesAssumption DEF Sourced
  <2>2. CASE origin = "wire"
    BY <1>1, <2>2 DEF HandedInv, WireReady
  <2>3. QED
    BY <1>1, <2>1, <2>2
<1>3. PICK root, s : root = result /\ s = wire
  OBVIOUS
<1>4. PICK T, to : Road(T, root, to, s) /\ Final(to, s)
  BY <1>2, <1>3 DEF Written
<1>5. PICK S : ValueSet(S) /\ Fitting(S) /\ root[1] \in S
  BY <1>2, <1>3 DEF Sourced
<1>6. PICK e : e = Start(root)
  OBVIOUS
<1>7. e \in T /\ e.call = root /\ e.work = <<>> /\ root = <<root[1]>>
  BY <1>4, <1>6, EncoderFields DEF Road, Start, Sound
<1>8. Within(e, S)
  BY <1>5, <1>7, ListedEmpty DEF Within
<1>9. Mirrors(e, root)'
  BY <1>1, <1>3, <1>6, <1>7, ConversionStarts
<1>10. handed' = root
  BY <1>1, <1>3
<1>11. Converting(root)'
  BY <1>1, <1>3 DEF Converting
<1>12. GoesBack(T, to, s, S)'
  <2>1. Listed(s)
    BY <1>2, <1>3 DEF Written
  <2>2. Road(T, handed', to, s)
    BY <1>4, <1>10
  <2>3. Converting(handed)' /\ Mirrors(e, handed)'
    <3>1. (Converting(handed) <=> Converting(root))' /\ (Mirrors(e, handed) <=> Mirrors(e, root))'
      BY <1>10 DEF Converting, Mirrors
    <3>2. QED
      BY <1>9, <1>11, <3>1
  <2>4. phase' # "encode"
    BY <1>1
  <2>5. QED
    BY <1>4, <1>5, <1>7, <1>8, <2>1, <2>2, <2>3, <2>4 DEF GoesBack
<1>13. HandedOn'
  BY <1>1, <1>7, <1>10, <1>12 DEF HandedOn
<1>14. QED
  BY <1>1, <1>13 DEF HandedInv, Untouched, ValueReady, WireReady

LEMMA ConvertOn ==
    ASSUME HandedOn, PathsAreSimple, handed # <<>>, phase = "script", Convert
    PROVE  HandedOn' /\ origin' = "script"
<1>1. PICK root : root = handed
  OBVIOUS
<1>2. /\ origin = "script" /\ root = <<root[1]>> /\ root # <<>>
      /\ \E T, to, s, S : GoesBack(T, to, s, S)
  BY <1>1 DEF HandedOn
<1>3. PICK T, to, s, S : GoesBack(T, to, s, S)
  BY <1>2
<1>4. /\ Listed(s) /\ Road(T, root, to, s) /\ Final(to, s) /\ ValueSet(S) /\ Fitting(S)
      /\ Converting(root) /\ \E e \in T : Within(e, S) /\ Mirrors(e, root)
  BY <1>1, <1>3 DEF GoesBack
<1>5. PICK e \in T : Within(e, S) /\ Mirrors(e, root)
  BY <1>4
<1>6. CASE e = to
  <2>1. Converted /\ converted = root
    BY <1>2, <1>4, <1>5, <1>6, ConversionEnds DEF Final
  <2>2. /\ phase' = "encode" /\ origin' = origin /\ handed' = handed /\ converted' = converted
        /\ call' = converted /\ work' = <<>> /\ out' = <<>> /\ count' = 0 /\ content' = 0
    BY <2>1 DEF Converted, scriptVars
  <2>3. EState' = Start(root) /\ Begins(<<>>, s)
    <3>1. EState' = EncoderAt(call', work', Len(out'), count', content')
      BY DEF EState
    <3>2. EState' = Start(root)
      BY <2>1, <2>2, <3>1, ListedEmpty DEF Start
    <3>3. Len(s) \in Nat
      BY <1>4, ListedAppend
    <3>4. QED
      BY <3>2, <3>3, ListedEmpty DEF Begins
  <2>4. Start(root) \in T
    BY <1>4 DEF Road
  <2>5. GoesBack(T, to, s, S)'
    <3>1. handed' = root /\ converted' = handed' /\ Road(T, handed', to, s)
      BY <1>1, <1>4, <2>1, <2>2
    <3>2. EState' \in T /\ Begins(out', s)
      BY <2>2, <2>3, <2>4
    <3>3. QED
      BY <1>4, <2>2, <3>1, <3>2 DEF GoesBack, Begins
  <2>6. QED
    BY <1>1, <1>2, <2>2, <2>5 DEF HandedOn
<1>7. CASE e # to
  <2>1. PICK f \in T : Step(e, f, s)
    BY <1>4, <1>7 DEF Road
  <2>2. Sound(e, root)
    BY <1>4 DEF Road
  <2>3. Within(f, S)
    BY <1>4, <1>5, <2>1, <2>2, StepIsSound
  <2>4. Mirrors(f, root)' /\ (ConvertLeaf \/ Enter \/ NextElement \/ NextEntry \/ Leave)
    BY <1>4, <1>5, <2>1, <2>2, Converts
  <2>5. /\ phase' = phase /\ origin' = origin /\ heap' = heap /\ handed' = handed
    BY <2>4 DEF ConvertLeaf, Enter, NextElement, NextEntry, Leave, vars, heapVars
  <2>6. GoesBack(T, to, s, S)'
    <3>1. Road(T, handed', to, s) /\ phase' # "encode" /\ handed' = root
      BY <1>1, <1>4, <2>5
    <3>2. Converting(handed)'
      BY <1>1, <1>4, <2>5 DEF Converting
    <3>3. Mirrors(f, handed)'
      BY <2>4, <3>1 DEF Mirrors
    <3>4. QED
      BY <1>4, <2>3, <3>1, <3>2, <3>3 DEF GoesBack
  <2>7. QED
    BY <1>1, <1>2, <2>5, <2>6 DEF HandedOn
<1>8. QED
  BY <1>6, <1>7

LEMMA EncodeOn ==
    ASSUME HandedOn, handed # <<>>, Next, UNCHANGED scriptVars
    PROVE  HandedOn'
<1>1. /\ origin = "script" /\ phase \in {"script", "encode", "done"} /\ handed = <<handed[1]>>
      /\ origin' = origin /\ handed' = handed /\ converted' = converted
  BY NextKeeps DEF HandedOn, scriptVars
<1>2. phase = "encode" /\ Encode
  BY <1>1, NextPhases
<1>3. PICK T, to, s, S : GoesBack(T, to, s, S)
  BY <1>2 DEF HandedOn
<1>4. PICK root : root = handed
  OBVIOUS
<1>5. /\ Listed(s) /\ Road(T, root, to, s) /\ Final(to, s) /\ ValueSet(S) /\ Fitting(S)
      /\ converted = handed /\ EState \in T /\ Begins(out, s)
  BY <1>2, <1>3, <1>4 DEF GoesBack
<1>6. CASE Encoded
  <2>1. phase' = "done"
    BY <1>1, <1>6 DEF Encoded
  <2>2. QED
    BY <1>1, <1>5, <2>1 DEF HandedOn
<1>7. CASE phase' = "encode" /\ EState' \in T /\ Begins(out', s)
  <2>1. GoesBack(T, to, s, S)'
    <3>1. Road(T, handed', to, s) /\ converted' = handed'
      BY <1>1, <1>4, <1>5
    <3>2. QED
      BY <1>5, <1>7, <3>1 DEF GoesBack, Begins
  <2>2. QED
    BY <1>1, <1>7, <2>1 DEF HandedOn
<1>8. QED
  BY <1>2, <1>5, <1>6, <1>7, WritesOn

LEMMA HandedNext ==
    ValuesInv /\ PathsAreSimple /\ HandedInv /\ [ScriptNext]_scriptAndValueVars => HandedInv'
<1> SUFFICES ASSUME ValuesInv, PathsAreSimple, HandedInv, [ScriptNext]_scriptAndValueVars
             PROVE  HandedInv'
  OBVIOUS
<1>1. ValuesInv'
  BY ValuesNext
<1>2. CASE UNCHANGED scriptAndValueVars
  <2>1. /\ origin' = origin /\ phase' = phase /\ given' = given /\ call' = call /\ work' = work /\ out' = out
        /\ wire' = wire /\ open' = open /\ result' = result /\ count' = count /\ content' = content
        /\ heap' = heap /\ pending' = pending /\ frames' = frames /\ converted' = converted /\ handed' = handed
    BY <1>2 DEF scriptAndValueVars, scriptVars, heapVars, vars, encoderVars, decoderVars, counters
  <2>2. Untouched' /\ ValueReady'
    BY <2>1 DEF HandedInv, Untouched, ValueReady
  <2>3. WireReady'
    BY <2>1 DEF HandedInv, WireReady, WireHeld, Material
  <2>4. HandedOn'
    BY <2>1 DEF HandedInv, HandedOn, GoesBack, Converting, Mirrors, EState, Begins
  <2>5. QED
    BY <2>2, <2>3, <2>4 DEF HandedInv
<1>3. CASE Next /\ UNCHANGED scriptVars
  <2>1. Untouched'
    BY <1>3, NextKeeps DEF HandedInv, Untouched, scriptVars
  <2>2. ValueReady' /\ WireReady'
    BY <1>1, <1>3, ValueReadyNext, WireReadyNext DEF HandedInv
  <2>3. HandedOn'
    <3>1. CASE handed = <<>>
      BY <1>3, <3>1 DEF HandedOn, scriptVars
    <3>2. CASE handed # <<>>
      BY <1>3, <3>2, EncodeOn DEF HandedInv
    <3>3. QED
      BY <3>1, <3>2
  <2>4. QED
    BY <2>1, <2>2, <2>3 DEF HandedInv
<1>4. CASE HandOver
  BY <1>4, HandOverStarts
<1>5. CASE Convert /\ ~ HandOver
  <2>1. phase = "script"
    BY <1>5
    DEF Convert, ConvertLeaf, Enter, NextElement, NextEntry, Leave, Refuse, Refused, PayloadChanges, PayloadThrows,
        LooksAt, Converted, Receives, Loops
  <2>2. origin # "value" /\ origin # "wire"
    BY <2>1 DEF ValuesInv, RoundTripInv, CanonicalInv
  <2>3. origin' = origin /\ handed' = handed
    BY <1>5
    DEF Convert, ConvertLeaf, Enter, NextElement, NextEntry, Leave, Refuse, PayloadChanges, PayloadThrows, Converted,
        vars, scriptVars
  <2>4. HandedOn'
    <3>1. CASE handed = <<>>
      BY <2>3, <3>1 DEF HandedOn
    <3>2. CASE handed # <<>>
      BY <1>5, <2>1, <3>2, ConvertOn DEF HandedInv
    <3>3. QED
      BY <3>1, <3>2
  <2>5. QED
    BY <2>2, <2>3, <2>4 DEF HandedInv, Untouched, ValueReady, WireReady
<1>6. QED
  BY <1>2, <1>3, <1>4, <1>5 DEF ScriptNext

(* Whatever values a payload is given, those that it hands back untouched  *)
(* are the same values again: from_raw refuses none that to_raw made, nor  *)
(* does the encoder refuse what from_raw makes of them.                    *)
THEOREM UntouchedComesBack == ScriptSpec => []HandedBack
<1>1. HandedInv => HandedBack
  <2> SUFFICES ASSUME HandedInv, handed # <<>>
               PROVE  /\ phase \notin {"script refused", "encoder refused"}
                      /\ converted # <<>> => converted = handed
    BY DEF HandedBack
  <2>1. /\ phase \in {"script", "encode", "done"}
        /\ phase \in {"script", "encode"} => \E T, to, s, S : GoesBack(T, to, s, S)
        /\ phase = "done" => converted = handed
    BY DEF HandedInv, HandedOn
  <2>2. ASSUME NEW T, NEW to, NEW s, NEW S, GoesBack(T, to, s, S), phase \in {"script", "encode"}
        PROVE  converted # <<>> => converted = handed
    BY <2>2 DEF GoesBack, Mirrors
  <2>3. QED
    BY <2>1, <2>2
<1>2. ScriptInit => ValuesInv /\ HandedInv
  BY ValuesInit, HandedInit
<1>3. QED
  BY <1>1, <1>2, ValuesNext, HandedNext, PathsSimple, PTL DEF ScriptSpec

-----------------------------------------------------------------------------
(* Places *)

\* q is the beginning of p.
Starts(q, p) == Listed(q) /\ Len(q) <= Len(p) /\ \A j \in 1..Len(q) : q[j] = p[j]

\* Each step to place p in v goes from a container to one of its items.
Stepwise(p, v) ==
    /\ Listed(p)
    /\ \A q : Starts(q, p) /\ Len(q) < Len(p) =>
           At(v, q).kind \in Containers /\ p[Len(q) + 1] \in 1..Len(At(v, q).items)

LEMMA StartsWhole ==
    ASSUME NEW q, NEW p, Listed(p), Starts(q, p), Len(q) = Len(p)
    PROVE  q = p
  BY ListedEqual DEF Starts

LEMMA StepwiseItem ==
    ASSUME NEW p, NEW v, Stepwise(p, v), At(v, p).kind \in Containers, NEW i \in 1..Len(At(v, p).items)
    PROVE  Stepwise(Append(p, i), v)
<1> DEFINE t == Append(p, i)
           n == Len(p)
<1>1. /\ Listed(t) /\ n \in Nat /\ Len(t) = n + 1 /\ t[n + 1] = i
      /\ \A j \in 1..n : t[j] = p[j]
  BY ListedAppend DEF Stepwise
<1> HIDE DEF t, n
<1>2. ASSUME NEW q, Starts(q, t), Len(q) < Len(t)
      PROVE  At(v, q).kind \in Containers /\ t[Len(q) + 1] \in 1..Len(At(v, q).items)
  <2>1. Listed(q) /\ Len(q) \in Nat /\ Len(q) <= n
    BY <1>1, <1>2, ListedAppend DEF Starts
  <2>2. Starts(q, p)
    <3>1. \A j \in 1..Len(q) : j \in 1..n
      BY <1>1, <2>1
    <3>2. \A j \in 1..Len(q) : q[j] = p[j]
      BY <1>1, <1>2, <3>1 DEF Starts
    <3>3. QED
      BY <2>1, <3>2 DEF Starts, n
  <2>3. CASE Len(q) = n
    <3>1. q = p
      BY <2>2, <2>3, StartsWhole DEF Stepwise, n
    <3>2. QED
      BY <1>1, <2>3, <3>1
  <2>4. CASE Len(q) # n
    <3>1. Len(q) < n /\ Len(q) + 1 \in 1..n
      BY <1>1, <2>1, <2>4
    <3>2. t[Len(q) + 1] = p[Len(q) + 1]
      BY <1>1, <3>1
    <3>3. At(v, q).kind \in Containers /\ p[Len(q) + 1] \in 1..Len(At(v, q).items)
      BY <2>2, <3>1 DEF Stepwise, n
    <3>4. QED
      BY <3>2, <3>3
  <2>5. QED
    BY <2>3, <2>4
<1>3. QED
  BY <1>1, <1>2 DEF Stepwise, t

LEMMA StepwiseRoot ==
    ASSUME NEW v
    PROVE  Stepwise(<<>>, v)
<1>1. Listed(<<>>) /\ Len(<<>>) = 0
  BY ListedEmpty
<1>2. \A q : Listed(q) => ~ (Len(q) < 0)
  BY ListedAppend
<1>3. QED
  BY <1>1, <1>2 DEF Stepwise, Starts

\* The places of the containers.
LEMMA WaysStepwise ==
    ASSUME NEW v, v.kind \in Containers
    PROVE  \A p \in Places(v) : Stepwise(p, v) /\ At(v, p).kind \in Containers
<1> DEFINE Good(p) == Stepwise(p, v) /\ At(v, p).kind \in Containers
           G == {d \in Nat : d <= MaxDepth => \A p \in Ways(v)[d] : Good(p)}
<1>1. /\ Ways(v)[0] = {<<>>}
      /\ \A d \in 1..MaxDepth : \A place \in Ways(v)[d] :
             \E before \in Ways(v)[d - 1] : \E i \in 1..Len(At(v, before).items) :
                 At(v, before).items[i].kind \in Containers /\ place = Append(before, i)
      /\ Places(v) = UNION {Ways(v)[d] : d \in 0..MaxDepth}
  BY WaysDeepen DEF Deepens
<1>2. 0 \in G
  BY <1>1, AtRoot, StepwiseRoot
<1>3. ASSUME NEW d \in Nat, d \in G PROVE d + 1 \in G
  <2>1. SUFFICES ASSUME d + 1 <= MaxDepth, NEW p \in Ways(v)[d + 1] PROVE Good(p)
    OBVIOUS
  <2>2. d + 1 \in 1..MaxDepth /\ (d + 1) - 1 = d /\ d <= MaxDepth
    BY <2>1, LimitsAssumption
  <2>3. PICK before \in Ways(v)[(d + 1) - 1] : \E i \in 1..Len(At(v, before).items) :
            At(v, before).items[i].kind \in Containers /\ p = Append(before, i)
    BY <1>1, <2>1, <2>2
  <2>4. PICK i \in 1..Len(At(v, before).items) : At(v, before).items[i].kind \in Containers /\ p = Append(before, i)
    BY <2>3
  <2>5. Good(before)
    BY <1>3, <2>2, <2>3
  <2>6. Stepwise(p, v)
    BY <2>4, <2>5, StepwiseItem
  <2>7. At(v, p) = At(v, before).items[i]
    BY <2>4, <2>5, AtItem DEF Stepwise
  <2>8. QED
    BY <2>4, <2>6, <2>7
<1>4. Nat \subseteq G
  <2> HIDE DEF G
  <2>1. QED
    BY <1>2, <1>3, Counting
<1> HIDE DEF Good
<1>5. \A d \in 0..MaxDepth : \A p \in Ways(v)[d] : Good(p)
  BY <1>4, LimitsAssumption
<1>6. QED
  BY <1>1, <1>5 DEF Good

LEMMA EverywhereStepwise ==
    ASSUME NEW v, NEW p \in Everywhere(v)
    PROVE  Stepwise(p, v)
<1>1. CASE p = <<>>
  BY <1>1, StepwiseRoot
<1>2. CASE p # <<>>
  <2>1. PICK place \in Places(v) : \E i \in 1..Len(At(v, place).items) : p = Append(place, i)
    BY <1>2 DEF Everywhere
  <2>2. v.kind \in Containers
    BY <2>1 DEF Places
  <2>3. QED
    BY <2>1, <2>2, WaysStepwise, StepwiseItem
<1>3. QED
  BY <1>1, <1>2

LEMMA ItemsEverywhere ==
    ASSUME NEW v, NEW p, NEW w, NEW depth, Located(p, w, depth, v), NEW i \in 1..Len(w.items)
    PROVE  Append(p, i) \in Everywhere(v)
<1>1. Places(v) = UNION {Ways(v)[d] : d \in 0..MaxDepth}
  BY WaysDeepen DEF Located, Deepens
<1>2. depth \in 0..MaxDepth /\ p \in Ways(v)[depth] /\ At(v, p) = w
  BY DEF Located
<1>3. p \in Places(v)
  BY <1>1, <1>2
<1>4. QED
  BY <1>2, <1>3 DEF Everywhere

\* The containers are everywhere too.
LEMMA LocatedEverywhere ==
    ASSUME NEW v, NEW p, NEW w, NEW depth, Located(p, w, depth, v)
    PROVE  p \in Everywhere(v)
<1>1. /\ Ways(v)[0] = {<<>>}
      /\ \A d \in 1..MaxDepth : \A place \in Ways(v)[d] :
             \E before \in Ways(v)[d - 1] : \E i \in 1..Len(At(v, before).items) :
                 At(v, before).items[i].kind \in Containers /\ place = Append(before, i)
      /\ Places(v) = UNION {Ways(v)[d] : d \in 0..MaxDepth}
  BY WaysDeepen DEF Deepens, Located
<1>2. depth \in 0..MaxDepth /\ p \in Ways(v)[depth]
  BY DEF Located
<1>3. CASE depth = 0
  BY <1>1, <1>2, <1>3 DEF Everywhere
<1>4. CASE depth # 0
  <2>1. depth \in 1..MaxDepth /\ depth - 1 \in 0..MaxDepth
    BY <1>2, <1>4, LimitsAssumption
  <2>2. PICK before \in Ways(v)[depth - 1] : \E i \in 1..Len(At(v, before).items) : p = Append(before, i)
    BY <1>1, <1>2, <2>1
  <2>3. before \in Places(v)
    BY <1>1, <2>1, <2>2
  <2>4. QED
    BY <2>2, <2>3 DEF Everywhere
<1>5. QED
  BY <1>3, <1>4


-----------------------------------------------------------------------------
(* Where the encoder is *)

\* Place p is at, or within, the item that the first n containers of the stack are at.
Follows(p, stack, n) == Len(p) >= n /\ \A j \in 1..n : p[j] = stack[j].at - 1

LEMMA BeginningOf ==
    ASSUME NEW p, Listed(p), NEW n \in Nat, n <= Len(p)
    PROVE  \E q : Starts(q, p) /\ Len(q) = n
<1> DEFINE q == [j \in 1..n |-> p[j]]
<1>1. Listed(q) /\ Len(q) = n /\ \A j \in 1..n : q[j] = p[j]
  <2>1. q \in Seq({q[i] : i \in 1..n})
    OBVIOUS
  <2>2. Len(q) = n
    OBVIOUS
  <2>3. QED
    BY <2>1, <2>2 DEF Listed
<1> HIDE DEF q
<1>2. QED
  BY <1>1 DEF Starts

\* Places are made of positive numbers.
LEMMA StepwiseNumbers ==
    ASSUME NEW p, NEW v, Stepwise(p, v), NEW n \in 1..Len(p)
    PROVE  p[n] \in Nat \ {0}
<1>1. Len(p) \in Nat /\ Listed(p)
  BY ListedAppend DEF Stepwise
<1>2. n - 1 \in Nat /\ n - 1 <= Len(p) /\ n - 1 < Len(p)
  BY <1>1
<1>3. PICK q : Starts(q, p) /\ Len(q) = n - 1
  BY <1>1, <1>2, BeginningOf
<1>4. p[(n - 1) + 1] \in 1..Len(At(v, q).items)
  BY <1>2, <1>3 DEF Stepwise
<1>5. (n - 1) + 1 = n
  BY <1>1
<1>6. QED
  BY <1>4, <1>5

LEMMA FollowsOne ==
    ASSUME NEW p, NEW q, NEW stack, NEW n, Listed(p), Listed(q), Len(p) = n, Len(q) = n,
           Follows(p, stack, n), Follows(q, stack, n)
    PROVE  p = q
  BY ListedEqual DEF Follows

\* The place of each container of the stack.
LEMMA PlaceOfContainer ==
    ASSUME NEW stack, NEW root, Path(stack, root), Len(stack) <= MaxDepth + 1, NEW n \in 0..Len(stack) - 1
    PROVE  \E q : Follows(q, stack, n) /\ Located(q, stack[n + 1].value, n, root[1])
<1> DEFINE Found(m) == \E q : Follows(q, stack, m) /\ Located(q, stack[m + 1].value, m, root[1])
           G == {m \in Nat : m < Len(stack) => Found(m)}
<1>1. Len(stack) \in Nat
  BY ListedAppend DEF Path
<1>2. 0 \in G
  <2>1. SUFFICES ASSUME 0 < Len(stack) PROVE Found(0)
    OBVIOUS
  <2>2. stack # <<>> /\ 1 \in 1..Len(stack)
    BY <1>1, <2>1, ListedEmpty
  <2>3. stack[1].value = root[1] /\ Whole(stack[1].value)
    BY <2>2 DEF Path, EntryOK
  <2>4. Located(<<>>, root[1], 0, root[1])
    BY <2>3, LocatedRoot DEF Whole
  <2>5. Follows(<<>>, stack, 0)
    BY ListedEmpty DEF Follows
  <2>6. QED
    BY <2>3, <2>4, <2>5
<1>3. ASSUME NEW m \in Nat, m \in G PROVE m + 1 \in G
  <2>1. SUFFICES ASSUME m + 1 < Len(stack) PROVE Found(m + 1)
    OBVIOUS
  <2>2. m + 1 \in 1..Len(stack) - 1 /\ m + 1 \in 1..Len(stack) /\ (m + 1) + 1 \in 1..Len(stack) /\ m < MaxDepth
    BY <1>1, <2>1, LimitsAssumption
  <2>3. PICK q : Follows(q, stack, m) /\ Located(q, stack[m + 1].value, m, root[1])
    BY <1>1, <1>3, <2>1
  <2> DEFINE i == stack[m + 1].at - 1
             w == stack[m + 1].value
             t == Append(q, i)
  <2>4. /\ stack[m + 1].at >= 2 /\ stack[(m + 1) + 1].value = w.items[i]
        /\ stack[m + 1].at \in 1..Len(w.items) + 1 /\ Whole(w)
        /\ w.items[i].kind \in Containers
    BY <2>2 DEF Path, EntryOK, Whole
  <2>5. Len(w.items) \in Nat
    BY <2>4, ListedAppend DEF Whole
  <2>6. i \in 1..Len(w.items)
    <3> DEFINE a == stack[m + 1].at
               k == Len(w.items)
    <3>1. a >= 2 /\ a \in 1..k + 1 /\ k \in Nat
      BY <2>4, <2>5
    <3> HIDE DEF a, k
    <3>2. a - 1 \in 1..k
      BY <3>1
    <3>3. QED
      BY <3>2 DEF a, k
  <2>7. Located(t, w.items[i], m + 1, root[1])
    <3> HIDE DEF i, w
    <3>1. Located(q, w, m, root[1])
      BY <2>3 DEF w
    <3>2. QED
      BY <2>2, <2>4, <2>6, <3>1, LocatedItem
  <2>8. Follows(t, stack, m + 1)
    <3>1. Listed(q) /\ Len(q) = m
      BY <2>3 DEF Located
    <3>2. Len(t) = m + 1 /\ t[m + 1] = i /\ \A j \in 1..m : t[j] = q[j]
      BY <3>1, ListedAppend
    <3> HIDE DEF t
    <3>3. \A j \in 1..m + 1 : j \in 1..m \/ j = m + 1
      OBVIOUS
    <3>4. QED
      BY <2>3, <3>2, <3>3 DEF Follows
  <2>9. QED
    BY <2>4, <2>7, <2>8
<1>4. Nat \subseteq G
  <2> HIDE DEF G
  <2>1. QED
    BY <1>2, <1>3, Counting
<1> HIDE DEF Found
<1>5. n \in Nat /\ n < Len(stack)
  BY <1>1
<1>6. Found(n)
  BY <1>4, <1>5
<1>7. QED
  BY <1>6 DEF Found

\* The place of the value the encoder was called with.
LEMMA PlaceOfCalled ==
    ASSUME NEW e, NEW root, Sound(e, root), e.call # <<>>, Len(e.work) <= MaxDepth + 1
    PROVE  \E q : /\ Listed(q) /\ Len(q) = Len(e.work) /\ Follows(q, e.work, Len(e.work))
                  /\ q \in Everywhere(root[1]) /\ At(root[1], q) = e.call[1]
<1> DEFINE n == Len(e.work)
<1>1. Path(e.work, root) /\ e.call[1] = Due(e.work, root) /\ Busy(e.work) /\ n \in Nat
  BY ListedAppend DEF Sound, Path
<1>2. CASE e.work = <<>>
  <2>1. <<>> \in Everywhere(root[1])
    BY DEF Everywhere
  <2>2. Follows(<<>>, e.work, 0) /\ n = 0
    BY <1>2, ListedEmpty DEF Follows
  <2>3. QED
    BY <1>1, <1>2, <2>1, <2>2, ListedEmpty, AtRoot DEF Due
<1>3. CASE e.work # <<>>
  <2> DEFINE x == Top(e.work)
             i == x.at - 1
  <2>1. n \in Nat \ {0} /\ n - 1 \in 0..n - 1 /\ (n - 1) + 1 = n /\ e.work[n] = x
    BY <1>1, <1>3, ListedRest DEF Path, Top
  <2>2. PICK q : Follows(q, e.work, n - 1) /\ Located(q, x.value, n - 1, root[1])
    BY <1>1, <2>1, PlaceOfContainer
  <2>3. x.at >= 2 /\ x.at <= Len(x.value.items) + 1 /\ Len(x.value.items) \in Nat /\ x.at \in Nat
    BY <1>1, <1>3, TopFacts DEF Busy
  <2>4. e.call[1] = x.value.items[i]
    BY <1>1, <1>3 DEF Due
  <2>5. i \in 1..Len(x.value.items)
    <3> HIDE DEF x
    <3>1. QED
      BY <2>3
  <2> DEFINE t == Append(q, i)
  <2>6. Listed(q) /\ Len(q) = n - 1 /\ At(root[1], q) = x.value
    BY <2>2 DEF Located
  <2>7. Listed(t) /\ Len(t) = n /\ t[n] = i /\ \A j \in 1..n - 1 : t[j] = q[j]
    BY <2>1, <2>6, ListedAppend
  <2>8. t \in Everywhere(root[1])
    BY <2>2, <2>5, ItemsEverywhere
  <2>9. At(root[1], t) = e.call[1]
    BY <2>4, <2>6, AtItem
  <2>10. Follows(t, e.work, n)
    <3>1. \A j \in 1..n : j \in 1..n - 1 \/ j = n
      BY <2>1
    <3> HIDE DEF t, n
    <3>2. \A j \in 1..n : t[j] = e.work[j].at - 1
      BY <2>1, <2>2, <2>7, <3>1 DEF Follows
    <3>3. QED
      BY <2>1, <2>7, <3>2 DEF Follows
  <2>11. QED
    BY <2>7, <2>8, <2>9, <2>10
<1>4. QED
  BY <1>2, <1>3

-----------------------------------------------------------------------------
(* What the encoder is through with *)

\* The items of the k-th container of the stack before this one are over.
Turn(e, k) == IF k = Len(e.work) /\ e.call = <<>> THEN e.work[k].at ELSE e.work[k].at - 1

\* Part i of the value at p is behind, as the k-th container of the stack tells.
Left(e, p, i, k) ==
    /\ Follows(p, e.work, k - 1)
    /\ IF Len(p) = k - 1 THEN i < e.work[k].at ELSE p[k] < Turn(e, k)

Gone(e, p, i) ==
    \/ e.call = <<>> /\ e.work = <<>>
    \/ \E k \in 1..Len(e.work) : Left(e, p, i, k)

\* The entries of the stack are numbers.
LEMMA NumbersOfPath ==
    ASSUME NEW stack, NEW root, Path(stack, root)
    PROVE  /\ Listed(stack) /\ Len(stack) \in Nat
           /\ \A k \in 1..Len(stack) : stack[k].at \in Nat \ {0}
<1>1. Len(stack) \in Nat /\ Listed(stack)
  BY ListedAppend DEF Path
<1>2. \A k \in 1..Len(stack) : Len(stack[k].value.items) \in Nat /\ stack[k].at \in 1..Len(stack[k].value.items) + 1
  BY ListedAppend DEF Path, EntryOK, Whole
<1>3. QED
  BY <1>1, <1>2

\* The encoder turns to the next item of the innermost container: its key is behind, if it has one.
LEMMA TurnedGone ==
    ASSUME NEW e, NEW root, Sound(e, root), AtEntry(e), NEW f, Turned(e, f.work), f.call # <<>>,
           NEW p, Listed(p), NEW i \in Nat
    PROVE  LET n == Len(e.work) - 1
           IN  Gone(f, p, i) <=> Gone(e, p, i) \/ (Len(p) = n /\ Follows(p, e.work, n) /\ i = Top(e.work).at)
<1> DEFINE N == Len(e.work)
           w == e.work
           g == f.work
           a == Top(e.work).at
           Behind == Len(p) = N - 1 /\ Follows(p, w, N - 1) /\ i = a
<1>1. /\ e.call = <<>> /\ w # <<>> /\ Path(w, root)
      /\ N \in Nat \ {0} /\ Len(p) \in Nat
      /\ \A k \in 1..N : w[k].at \in Nat \ {0}
  BY NumbersOfPath, ListedRest, ListedAppend DEF Sound, AtEntry, Path
<1>2. /\ Len(g) = N /\ \A k \in 1..N - 1 : g[k] = w[k]
      /\ g[N].at = a + 1 /\ a = w[N].at /\ a \in Nat \ {0}
  <2>1. N \in 1..N
    BY <1>1
  <2>2. QED
    BY <1>1, <2>1, EntryFields DEF Turned, Replaced, Top
<1> HIDE DEF N, w, g, a
<1>3. ASSUME NEW k \in 1..N PROVE Follows(p, g, k - 1) <=> Follows(p, w, k - 1)
  <2>1. \A j \in 1..k - 1 : j \in 1..N - 1
    BY <1>1
  <2>2. QED
    BY <1>2, <2>1 DEF Follows
<1>4. ASSUME NEW k \in 1..N - 1 PROVE Left(f, p, i, k) <=> Left(e, p, i, k)
  <2>1. k # N /\ k \in 1..N
    BY <1>1
  <2>2. Turn(f, k) = Turn(e, k)
    BY <1>2, <2>1 DEF Turn, N, g, w
  <2>3. QED
    BY <1>2, <1>3, <2>1, <2>2 DEF Left, N, g, w
<1>5. Left(f, p, i, N) <=> Left(e, p, i, N) \/ Behind
  <2>1. N \in 1..N
    BY <1>1
  <2>2. Turn(f, N) = a /\ Turn(e, N) = a
    BY <1>1, <1>2 DEF Turn, N, g, w
  <2>3. i < a + 1 <=> i < a \/ i = a
    BY <1>2
  <2>4. /\ Left(e, p, i, N) <=> Follows(p, w, N - 1) /\ IF Len(p) = N - 1 THEN i < a ELSE p[N] < a
        /\ Left(f, p, i, N) <=> Follows(p, g, N - 1) /\ IF Len(p) = N - 1 THEN i < a + 1 ELSE p[N] < a
    BY <1>2, <2>2 DEF Left, g, w
  <2>5. QED
    BY <1>3, <2>1, <2>3, <2>4
<1>6. /\ Gone(e, p, i) <=> \E k \in 1..N : Left(e, p, i, k)
      /\ Gone(f, p, i) <=> \E k \in 1..N : Left(f, p, i, k)
  BY <1>1, <1>2 DEF Gone, N, w, g
<1>7. \A k \in 1..N : k \in 1..N - 1 \/ k = N
  BY <1>1
<1>8. N \in 1..N /\ \A k \in 1..N - 1 : k \in 1..N
  BY <1>1
<1>9. Gone(f, p, i) <=> Gone(e, p, i) \/ Behind
  BY <1>4, <1>5, <1>6, <1>7, <1>8
<1>10. QED
  BY <1>9 DEF N, w, a

\* It is ahead until then.
LEMMA KeyAhead ==
    ASSUME NEW e, NEW root, Sound(e, root), AtEntry(e), NEW p, Listed(p), Len(p) = Len(e.work) - 1,
           Follows(p, e.work, Len(e.work) - 1)
    PROVE  ~ Gone(e, p, Top(e.work).at)
<1> DEFINE N == Len(e.work)
           w == e.work
<1>1. /\ e.call = <<>> /\ w # <<>> /\ N \in Nat \ {0}
      /\ \A k \in 1..N : w[k].at \in Nat \ {0}
  BY NumbersOfPath, ListedRest DEF Sound, AtEntry, Path
<1>2. SUFFICES ASSUME NEW k \in 1..N, Left(e, p, w[N].at, k) PROVE FALSE
  BY <1>1 DEF Gone, Top
<1>3. w[k].at \in Nat /\ w[N].at \in Nat
  BY <1>1
<1>4. CASE k = N
  BY <1>2, <1>3, <1>4 DEF Left
<1>5. CASE k # N
  <2> HIDE DEF N, w
  <2>1. k \in 1..N - 1 /\ N - 1 # k - 1
    BY <1>1, <1>5
  <2>2. p[k] = w[k].at - 1
    BY <2>1 DEF Follows, N, w
  <2>3. p[k] < w[k].at - 1
    BY <1>2, <1>5, <2>1 DEF Left, Turn, N, w
  <2>4. QED
    BY <1>3, <2>2, <2>3
<1>6. QED
  BY <1>4, <1>5

\* The value the encoder was called with is ahead.
LEMMA CalledAhead ==
    ASSUME NEW e, NEW root, Sound(e, root), e.call # <<>>, NEW q, Listed(q), Len(q) = Len(e.work),
           Follows(q, e.work, Len(e.work))
    PROVE  ~ Gone(e, q, 0)
<1> DEFINE N == Len(e.work)
           w == e.work
<1>1. N \in Nat /\ \A k \in 1..N : w[k].at \in Nat \ {0}
  BY NumbersOfPath DEF Sound
<1>2. SUFFICES ASSUME NEW k \in 1..N, Left(e, q, 0, k) PROVE FALSE
  BY DEF Gone
<1> HIDE DEF N, w
<1>3. w[k].at \in Nat /\ N # k - 1
  BY <1>1
<1>4. q[k] = w[k].at - 1
  BY DEF Follows, N, w
<1>5. q[k] < w[k].at - 1
  BY <1>2, <1>3 DEF Left, Turn, N, w
<1>6. QED
  BY <1>3, <1>4, <1>5

\* The encoder enters a container: its first token is behind.
LEMMA EnteredGone ==
    ASSUME NEW e, NEW root, Sound(e, root), e.call # <<>>, NEW f, NEW v,
           f.call = <<>>, f.work = Append(e.work, Entry(v, 1)),
           NEW p, Stepwise(p, root[1]), NEW i \in Nat
    PROVE  LET n == Len(e.work)
           IN  Gone(f, p, i) <=> Gone(e, p, i) \/ (Len(p) = n /\ Follows(p, e.work, n) /\ i = 0)
<1> DEFINE N == Len(e.work)
           w == e.work
           g == f.work
           Behind == Len(p) = N /\ Follows(p, w, N) /\ i = 0
<1>1. /\ N \in Nat /\ Listed(p) /\ Len(p) \in Nat
      /\ \A k \in 1..N : w[k].at \in Nat \ {0}
  BY NumbersOfPath, ListedAppend DEF Sound, Stepwise
<1>2. /\ Len(g) = N + 1 /\ \A k \in 1..N : g[k] = w[k]
      /\ g[N + 1].at = 1 /\ g # <<>>
  BY RestOfAppend, ListedAppend, EntryFields DEF Sound, Path
<1> HIDE DEF N, w, g
<1>3. ASSUME NEW k \in 1..N + 1 PROVE Follows(p, g, k - 1) <=> Follows(p, w, k - 1)
  <2>1. \A j \in 1..k - 1 : j \in 1..N
    BY <1>1
  <2>2. QED
    BY <1>2, <2>1 DEF Follows
<1>4. ASSUME NEW k \in 1..N PROVE Left(f, p, i, k) <=> Left(e, p, i, k)
  <2>1. k # N + 1 /\ k \in 1..N + 1
    BY <1>1
  <2>2. Turn(f, k) = Turn(e, k)
    BY <1>2, <2>1 DEF Turn, N, g, w
  <2>3. QED
    BY <1>2, <1>3, <2>1, <2>2 DEF Left, N, g, w
<1>5. Left(f, p, i, N + 1) <=> Behind
  <2>1. N + 1 \in 1..N + 1 /\ (N + 1) - 1 = N
    BY <1>1
  <2>2. Left(f, p, i, N + 1) <=> Follows(p, w, N) /\ IF Len(p) = N THEN i < 1 ELSE p[N + 1] < 1
    BY <1>2, <1>3, <2>1 DEF Left, Turn, g
  <2>3. ASSUME Follows(p, w, N), Len(p) # N PROVE ~ (p[N + 1] < 1)
    <3>1. N + 1 \in 1..Len(p)
      BY <1>1, <2>3 DEF Follows
    <3>2. p[N + 1] \in Nat \ {0}
      BY <3>1, StepwiseNumbers
    <3>3. QED
      BY <3>2
  <2>4. i < 1 <=> i = 0
    OBVIOUS
  <2>5. QED
    BY <2>2, <2>3, <2>4
<1>6. /\ Gone(e, p, i) <=> \E k \in 1..N : Left(e, p, i, k)
      /\ Gone(f, p, i) <=> \E k \in 1..N + 1 : Left(f, p, i, k)
  BY <1>2 DEF Gone, N, w, g
<1>7. \A k \in 1..N + 1 : k \in 1..N \/ k = N + 1
  BY <1>1
<1>8. N + 1 \in 1..N + 1 /\ \A k \in 1..N : k \in 1..N + 1
  BY <1>1
<1>9. Gone(f, p, i) <=> Gone(e, p, i) \/ Behind
  BY <1>4, <1>5, <1>6, <1>7, <1>8
<1>10. QED
  BY <1>9 DEF N, w

\* Nothing lies within a leaf.
LEMMA LeafIsLast ==
    ASSUME NEW v, NEW p, Stepwise(p, v), NEW q, Starts(q, p), At(v, q).kind \notin Containers
    PROVE  p = q
<1>1. Len(p) \in Nat /\ Len(q) \in Nat /\ Listed(p) /\ Listed(q)
  BY ListedAppend DEF Stepwise, Starts
<1>2. ~ (Len(q) < Len(p))
  BY DEF Stepwise
<1>3. Len(q) = Len(p)
  BY <1>1, <1>2 DEF Starts
<1>4. QED
  BY <1>1, <1>3, StartsWhole

\* A place that follows the stack goes through the place that does.
LEMMA FollowsStarts ==
    ASSUME NEW stack, NEW n, NEW q, Listed(q), Len(q) = n, Follows(q, stack, n), NEW p, Follows(p, stack, n)
    PROVE  Starts(q, p)
  BY DEF Follows, Starts

\* A container of the stack gets over an item.
LEMMA OneFurther ==
    ASSUME NEW e, NEW f, NEW v, NEW p, Stepwise(p, v), NEW i, NEW n \in Nat \ {0},
           e.work[n].at \in Nat \ {0}, f.work[n].at = e.work[n].at,
           Turn(e, n) = e.work[n].at - 1, Turn(f, n) = e.work[n].at,
           Follows(p, f.work, n - 1) <=> Follows(p, e.work, n - 1)
    PROVE  Left(f, p, i, n) <=> Left(e, p, i, n) \/ Follows(p, e.work, n)
<1> DEFINE w == e.work
           a == w[n].at
<1>1. a \in Nat \ {0} /\ Turn(f, n) = a /\ Turn(e, n) = a - 1 /\ Len(p) \in Nat
  BY ListedAppend DEF Stepwise
<1>2. /\ Left(e, p, i, n) <=> Follows(p, w, n - 1) /\ IF Len(p) = n - 1 THEN i < a ELSE p[n] < a - 1
      /\ Left(f, p, i, n) <=> Follows(p, w, n - 1) /\ IF Len(p) = n - 1 THEN i < a ELSE p[n] < a
  BY <1>1 DEF Left
<1>3. Follows(p, w, n) <=> Follows(p, w, n - 1) /\ Len(p) # n - 1 /\ p[n] = a - 1
  <2>1. \A j \in 1..n : j \in 1..n - 1 \/ j = n
    OBVIOUS
  <2>2. \A j \in 1..n - 1 : j \in 1..n
    OBVIOUS
  <2>3. n \in 1..n /\ (Len(p) >= n <=> Len(p) >= n - 1 /\ Len(p) # n - 1)
    BY <1>1
  <2>4. QED
    BY <2>1, <2>2, <2>3 DEF Follows
<1>4. Len(p) # n - 1 /\ Follows(p, w, n - 1) => p[n] \in Nat \ {0}
  <2>1. SUFFICES ASSUME Len(p) # n - 1, Follows(p, w, n - 1) PROVE p[n] \in Nat \ {0}
    OBVIOUS
  <2>2. n \in 1..Len(p)
    BY <1>1, <2>1 DEF Follows
  <2>3. QED
    BY <2>2, StepwiseNumbers
<1> HIDE DEF a, w
<1>5. p[n] \in Nat \ {0} => (p[n] < a <=> p[n] < a - 1 \/ p[n] = a - 1)
  BY <1>1
<1>6. Left(f, p, i, n) <=> Left(e, p, i, n) \/ Follows(p, w, n)
  BY <1>2, <1>3, <1>4, <1>5
<1>7. QED
  BY <1>6 DEF w

\* The encoder is through with a leaf.
LEMMA WrittenGone ==
    ASSUME NEW e, NEW root, Sound(e, root), e.call # <<>>, IsLeaf(e.call[1]), Len(e.work) <= MaxDepth + 1,
           NEW f, f.call = <<>>, f.work = e.work,
           NEW p, Stepwise(p, root[1]), NEW i \in {0} \cup 1..Len(At(root[1], p).keys)
    PROVE  LET n == Len(e.work)
           IN  Gone(f, p, i) <=> Gone(e, p, i) \/ (Len(p) = n /\ Follows(p, e.work, n) /\ i = 0)
<1> DEFINE N == Len(e.work)
           w == e.work
           Behind == Len(p) = N /\ Follows(p, w, N) /\ i = 0
<1>1. /\ N \in Nat /\ Listed(p) /\ Len(p) \in Nat /\ Listed(w)
      /\ \A k \in 1..N : w[k].at \in Nat \ {0}
  BY NumbersOfPath, ListedAppend DEF Sound, Stepwise
<1>2. PICK q : /\ Listed(q) /\ Len(q) = N /\ Follows(q, w, N)
               /\ q \in Everywhere(root[1]) /\ At(root[1], q) = e.call[1]
  BY PlaceOfCalled
<1>3. At(root[1], q).kind \notin Containers /\ Len(At(root[1], q).keys) = 0
  BY <1>2, ListedEmpty DEF IsLeaf, Leaf, LeafKinds, Containers
<1>4. Follows(p, w, N) => Behind
  <2>1. SUFFICES ASSUME Follows(p, w, N) PROVE Behind
    OBVIOUS
  <2>2. Starts(q, p)
    BY <1>2, <2>1, FollowsStarts
  <2>3. p = q
    BY <1>3, <2>2, LeafIsLast
  <2>4. i = 0
    BY <1>3, <2>3
  <2>5. QED
    BY <1>2, <2>1, <2>3, <2>4
<1>5. CASE w = <<>>
  <2>1. N = 0
    BY <1>5, ListedEmpty
  <2>2. Follows(p, w, 0)
    BY <1>1 DEF Follows
  <2>3. Gone(f, p, i) /\ Behind
    BY <1>4, <1>5, <2>1, <2>2 DEF Gone
  <2>4. QED
    BY <2>3
<1>6. CASE w # <<>>
  <2>1. N \in Nat \ {0}
    BY <1>1, <1>6, ListedRest
  <2> HIDE DEF N, w
  <2>2. ASSUME NEW k \in 1..N - 1 PROVE Left(f, p, i, k) <=> Left(e, p, i, k)
    <3>1. k # N
      BY <2>1
    <3>2. Turn(f, k) = Turn(e, k)
      BY <3>1 DEF Turn, N, w
    <3>3. QED
      BY <3>2 DEF Left
  <2>3. Left(f, p, i, N) <=> Left(e, p, i, N) \/ Follows(p, w, N)
    <3>1. w[N].at \in Nat \ {0} /\ Turn(f, N) = w[N].at /\ Turn(e, N) = w[N].at - 1
      BY <1>1, <2>1 DEF Turn, N, w
    <3>2. QED
      BY <2>1, <3>1, OneFurther DEF w
  <2>4. /\ Gone(e, p, i) <=> \E k \in 1..N : Left(e, p, i, k)
        /\ Gone(f, p, i) <=> \E k \in 1..N : Left(f, p, i, k)
    BY <1>6 DEF Gone, N, w
  <2>5. \A k \in 1..N : k \in 1..N - 1 \/ k = N
    BY <2>1
  <2>6. N \in 1..N /\ \A k \in 1..N - 1 : k \in 1..N
    BY <2>1
  <2>7. Behind => Follows(p, w, N)
    OBVIOUS
  <2>8. Gone(f, p, i) <=> Gone(e, p, i) \/ Behind
    BY <1>4, <2>2, <2>3, <2>4, <2>5, <2>6, <2>7
  <2>9. QED
    BY <2>8 DEF N, w
<1>7. QED
  BY <1>5, <1>6

\* Leaving a container changes nothing: all of it was behind.
LEMMA LeftGone ==
    ASSUME NEW e, NEW root, Sound(e, root), NEW f, StepLeave(e, f), Len(e.work) <= MaxDepth + 1,
           NEW p, Stepwise(p, root[1]), NEW i \in {0} \cup 1..Len(At(root[1], p).keys)
    PROVE  Gone(f, p, i) <=> Gone(e, p, i)
<1> DEFINE N == Len(e.work)
           w == e.work
           g == f.work
           x == Top(w)
           a == x.at
<1>1. /\ e.call = <<>> /\ w # <<>> /\ Path(w, root) /\ f.call = <<>> /\ g = Rest(w)
      /\ N \in Nat \ {0} /\ Len(p) \in Nat /\ Listed(p)
      /\ \A k \in 1..N : w[k].at \in Nat \ {0}
  <2>1. e.call = <<>> /\ w # <<>> /\ Path(w, root) /\ f = EncoderAt(<<>>, Rest(w), e.pos, e.count, e.content)
    BY DEF Sound, StepLeave
  <2>2. f.call = <<>> /\ g = Rest(w)
    BY <2>1, EncoderFields
  <2>3. N \in Nat \ {0} /\ \A k \in 1..N : w[k].at \in Nat \ {0}
    BY <2>1, NumbersOfPath, ListedRest
  <2>4. QED
    BY <2>1, <2>2, <2>3, ListedAppend DEF Stepwise
<1>2. Len(g) = N - 1 /\ \A k \in 1..N - 1 : g[k] = w[k]
  BY <1>1, ListedRest DEF Path
<1>3. /\ Whole(x.value) /\ Len(x.value.items) \in Nat /\ a \in Nat \ {0} /\ a > Len(x.value.items)
  BY <1>1, TopFacts DEF EntryOK, StepLeave
<1>4. Len(x.value.keys) <= Len(x.value.items)
  BY <1>3 DEF Whole
<1>5. w[N] = x /\ N - 1 \in 0..N - 1 /\ (N - 1) + 1 = N
  BY <1>1 DEF Top
<1>6. PICK t : Follows(t, w, N - 1) /\ Located(t, x.value, N - 1, root[1])
  BY <1>1, <1>5, PlaceOfContainer
<1>7. Listed(t) /\ Len(t) = N - 1 /\ At(root[1], t) = x.value
  BY <1>6 DEF Located
<1> HIDE DEF N, w, g, x, a
<1>8. Left(e, p, i, N) <=> Follows(p, w, N - 1)
  <2>1. Turn(e, N) = a
    BY <1>1, <1>5 DEF Turn, N, w, a
  <2>2. Left(e, p, i, N) <=> Follows(p, w, N - 1) /\ IF Len(p) = N - 1 THEN i < a ELSE p[N] < a
    BY <1>5, <2>1 DEF Left, w, a
  <2>3. ASSUME Follows(p, w, N - 1), Len(p) = N - 1 PROVE i < a
    <3>1. p = t
      BY <1>1, <1>6, <1>7, <2>3, FollowsOne
    <3>2. i \in {0} \cup 1..Len(x.value.keys)
      BY <1>7, <3>1
    <3>3. QED
      BY <1>3, <1>4, <3>2
  <2>4. ASSUME Follows(p, w, N - 1), Len(p) # N - 1 PROVE p[N] < a
    <3>1. Starts(t, p)
      BY <1>6, <1>7, <2>4, FollowsStarts
    <3>2. Len(t) < Len(p) /\ Len(t) + 1 = N
      BY <1>1, <1>7, <2>4 DEF Follows
    <3>3. p[N] \in 1..Len(x.value.items)
      BY <1>7, <3>1, <3>2 DEF Stepwise
    <3>4. QED
      BY <1>3, <3>3
  <2>5. QED
    BY <2>2, <2>3, <2>4
<1>9. N \in 1..N
  BY <1>1
<1>10. Gone(e, p, i) <=> \E k \in 1..N : Left(e, p, i, k)
  BY <1>1 DEF Gone, N, w
<1>11. CASE N = 1
  <2>1. Follows(p, w, N - 1)
    BY <1>1, <1>11 DEF Follows
  <2>2. g = <<>>
    BY <1>1, <1>2, <1>11, ListedRest, EmptyIsListed DEF Path
  <2>3. Gone(e, p, i)
    BY <1>8, <1>9, <1>10, <2>1
  <2>4. Gone(f, p, i)
    BY <1>1, <2>2 DEF Gone, g
  <2>5. QED
    BY <2>3, <2>4
<1>12. CASE N # 1
  <2> DEFINE n == N - 1
  <2>1. n \in Nat \ {0} /\ n \in 1..n /\ n \in 1..N /\ n # N /\ g # <<>>
    BY <1>1, <1>2, <1>12, ListedEmpty
  <2>2. ASSUME NEW k \in 1..n PROVE Follows(p, g, k - 1) <=> Follows(p, w, k - 1)
    <3>1. \A j \in 1..k - 1 : j \in 1..N - 1
      BY <2>1
    <3>2. QED
      BY <1>2, <3>1 DEF Follows
  <2>3. ASSUME NEW k \in 1..n - 1 PROVE Left(f, p, i, k) <=> Left(e, p, i, k)
    <3>1. k # n /\ k # N /\ k \in 1..n
      BY <1>1, <2>1
    <3>2. Turn(f, k) = Turn(e, k)
      BY <1>2, <3>1 DEF Turn, N, g, w
    <3>3. QED
      BY <1>2, <2>2, <3>1, <3>2 DEF Left, N, g, w
  <2>4. Left(f, p, i, n) <=> Left(e, p, i, n) \/ Follows(p, w, n)
    <3>1. Turn(f, n) = w[n].at /\ Turn(e, n) = w[n].at - 1 /\ g[n] = w[n] /\ w[n].at \in Nat \ {0}
      BY <1>1, <1>2, <2>1 DEF Turn, N, g, w
    <3>2. Follows(p, g, n - 1) <=> Follows(p, w, n - 1)
      BY <2>1, <2>2
    <3> HIDE DEF n
    <3>3. QED
      BY <2>1, <3>1, <3>2, OneFurther DEF g, w
  <2>5. Gone(f, p, i) <=> \E k \in 1..n : Left(f, p, i, k)
    BY <1>2, <2>1 DEF Gone, g
  <2>6. /\ \A k \in 1..n : k \in 1..n - 1 \/ k = n
        /\ \A k \in 1..n - 1 : k \in 1..n
        /\ \A k \in 1..N : k \in 1..n \/ k = N
        /\ \A k \in 1..n : k \in 1..N
    BY <1>1
  <2>7. QED
    BY <1>8, <1>9, <1>10, <2>1, <2>3, <2>4, <2>5, <2>6
<1>13. QED
  BY <1>11, <1>12

-----------------------------------------------------------------------------
(* The counters, and what is behind *)

Met(e, v) == {p \in Everywhere(v) : Gone(e, p, 0)}

Passed(e, v) == {part \in Parts(v) : Gone(e, part[1], part[2])}

\* What is checked when a value is begun, and at a key.
FirstFits(w) ==
    /\ w.kind \in LeafKinds => w.text \notin Invalid
    /\ w.kind = "string" => TextSize[w.text] <= MaxString
    /\ w.kind = "bytes" => TextSize[w.text] <= MaxBytes
    /\ Len(w.items) <= MaxContainer

KeyFits(w, i) ==
    /\ \A j \in 1..i - 1 : w.keys[j] # w.keys[i]
    /\ TextSize[w.keys[i]] <= MaxString

PartFits(v, part) ==
    LET w == At(v, part[1])
    IN  IF part[2] = 0 THEN Len(part[1]) <= MaxDepth /\ FirstFits(w) ELSE KeyFits(w, part[2])

\* The counters are what is behind, which is as it should be.
Measured(e, v) ==
    /\ Len(e.work) <= MaxDepth + 1
    /\ AtMost(MaxValues, Met(e, v)) /\ e.count = Cardinality(Met(e, v))
    /\ AtMost(MaxContent, Bytes(v, Passed(e, v))) /\ e.content = Cardinality(Bytes(v, Passed(e, v)))
    /\ \A part \in Passed(e, v) : PartFits(v, part)

LEMMA PartsAre ==
    ASSUME NEW v, NEW part
    PROVE  part \in Parts(v) <=> \E p \in Everywhere(v) :
               \E i \in {0} \cup 1..Len(At(v, p).keys) : part = <<p, i>>
  BY DEF Parts

LEMMA PassedAre ==
    ASSUME NEW e, NEW v, NEW p \in Everywhere(v), NEW i \in {0} \cup 1..Len(At(v, p).keys)
    PROVE  <<p, i>> \in Passed(e, v) <=> Gone(e, p, i)
  BY PartsAre DEF Passed

\* So many bytes.
LEMMA BytesOfPart ==
    ASSUME NEW part, NEW m \in Nat
    PROVE  LET S == {<<part, n>> : n \in 1..m} IN IsFiniteSet(S) /\ Cardinality(S) = m
<1> DEFINE S == {<<part, n>> : n \in 1..m}
           f == [n \in 1..m |-> <<part, n>>]
<1>1. f \in Bijection(1..m, S)
  BY DEF Bijection, Injection, Surjection, IsInjective
<1>2. ExistsBijection(1..m, S)
  BY <1>1 DEF ExistsBijection
<1>3. IsFiniteSet(1..m) /\ Cardinality(1..m) = m
  BY FS_Interval
<1> HIDE DEF S
<1>4. IsFiniteSet(S) /\ Cardinality(S) = m
  BY <1>2, <1>3, FS_Bijection
<1>5. QED
  BY <1>4 DEF S

LEMMA PartAdded ==
    ASSUME NEW v, NEW P, NEW part, part \notin P, IsFiniteSet(Bytes(v, P)), BytesOf(v, part) \in Nat
    PROVE  /\ IsFiniteSet(Bytes(v, P \cup {part}))
           /\ Cardinality(Bytes(v, P \cup {part})) = Cardinality(Bytes(v, P)) + BytesOf(v, part)
<1> DEFINE S == {<<part, n>> : n \in 1..BytesOf(v, part)}
           B == Bytes(v, P)
<1>1. Bytes(v, P \cup {part}) = B \cup S
  BY DEF Bytes
<1>2. B \cap S = {}
  BY DEF Bytes
<1>3. IsFiniteSet(S) /\ Cardinality(S) = BytesOf(v, part)
  BY BytesOfPart
<1> HIDE DEF S, B
<1>4. IsFiniteSet(B)
  BY DEF B
<1>5. IsFiniteSet(B \cup S) /\ Cardinality(B \cup S) = Cardinality(B) + Cardinality(S) - Cardinality(B \cap S)
  BY <1>3, <1>4, FS_Union
<1>6. Cardinality(B \cap S) = 0
  BY <1>2, FS_EmptySet
<1>7. Cardinality(B) \in Nat
  BY <1>4, FS_CardinalityType
<1>8. Cardinality(B \cup S) = Cardinality(B) + BytesOf(v, part)
  <2> DEFINE b == Cardinality(B)
             s == BytesOf(v, part)
  <2>1. Cardinality(B \cup S) = b + s - 0 /\ b \in Nat /\ s \in Nat
    BY <1>3, <1>5, <1>6, <1>7
  <2> HIDE DEF b, s
  <2>2. Cardinality(B \cup S) = b + s
    BY <2>1
  <2>3. QED
    BY <2>2 DEF b, s
<1>9. QED
  BY <1>1, <1>5, <1>8 DEF B

LEMMA MeasuredSame ==
    ASSUME NEW e, NEW f, NEW v, Measured(e, v), Len(f.work) <= MaxDepth + 1,
           f.count = e.count, f.content = e.content,
           \A p \in Everywhere(v) : \A i \in {0} \cup 1..Len(At(v, p).keys) : Gone(f, p, i) <=> Gone(e, p, i)
    PROVE  Measured(f, v)
<1>1. Met(f, v) = Met(e, v)
  BY DEF Met
<1>2. Passed(f, v) = Passed(e, v)
  <2>1. \A part \in Parts(v) : Gone(f, part[1], part[2]) <=> Gone(e, part[1], part[2])
    BY PartsAre
  <2>2. QED
    BY <2>1 DEF Passed
<1>3. QED
  BY <1>1, <1>2 DEF Measured

\* One more part is behind.
LEMMA PassedMore ==
    ASSUME NEW e, NEW f, NEW v, NEW q \in Everywhere(v), NEW k \in {0} \cup 1..Len(At(v, q).keys),
           ~ Gone(e, q, k),
           \A p \in Everywhere(v) : \A i \in {0} \cup 1..Len(At(v, p).keys) :
               Gone(f, p, i) <=> Gone(e, p, i) \/ (p = q /\ i = k)
    PROVE  Passed(f, v) = Passed(e, v) \cup {<<q, k>>} /\ <<q, k>> \notin Passed(e, v)
<1>1. <<q, k>> \in Parts(v)
  BY PartsAre
<1>2. ASSUME NEW part \in Parts(v)
      PROVE  Gone(f, part[1], part[2]) <=> Gone(e, part[1], part[2]) \/ part = <<q, k>>
  <2>1. PICK p \in Everywhere(v) : \E i \in {0} \cup 1..Len(At(v, p).keys) : part = <<p, i>>
    BY PartsAre
  <2>2. PICK i \in {0} \cup 1..Len(At(v, p).keys) : part = <<p, i>>
    BY <2>1
  <2>3. QED
    BY <2>2
<1>3. QED
  BY <1>1, <1>2 DEF Passed

LEMMA MeasuredValue ==
    ASSUME NEW e, NEW f, NEW v, Measured(e, v), Len(f.work) <= MaxDepth + 1,
           NEW q \in Everywhere(v), ~ Gone(e, q, 0),
           \A p \in Everywhere(v) : \A i \in {0} \cup 1..Len(At(v, p).keys) :
               Gone(f, p, i) <=> Gone(e, p, i) \/ (p = q /\ i = 0),
           TextBytes(At(v, q)) \in Nat,
           e.count < MaxValues, f.count = e.count + 1,
           f.content = e.content + TextBytes(At(v, q)), f.content <= MaxContent,
           PartFits(v, <<q, 0>>)
    PROVE  Measured(f, v)
<1>1. Met(f, v) = Met(e, v) \cup {q} /\ q \notin Met(e, v)
  BY DEF Met
<1>2. Passed(f, v) = Passed(e, v) \cup {<<q, 0>>} /\ <<q, 0>> \notin Passed(e, v)
  BY PassedMore
<1>3. BytesOf(v, <<q, 0>>) = TextBytes(At(v, q))
  BY DEF BytesOf
<1>4. /\ IsFiniteSet(Met(e, v)) /\ e.count = Cardinality(Met(e, v))
      /\ IsFiniteSet(Bytes(v, Passed(e, v))) /\ e.content = Cardinality(Bytes(v, Passed(e, v)))
  BY DEF Measured, AtMost
<1>5. IsFiniteSet(Met(f, v)) /\ Cardinality(Met(f, v)) = e.count + 1
  BY <1>1, <1>4, FS_AddElement
<1>6. /\ IsFiniteSet(Bytes(v, Passed(f, v)))
      /\ Cardinality(Bytes(v, Passed(f, v))) = e.content + TextBytes(At(v, q))
  BY <1>2, <1>3, <1>4, PartAdded
<1>7. e.count \in Nat /\ e.count + 1 <= MaxValues
  BY <1>4, FS_CardinalityType, LimitsAssumption
<1>8. \A part \in Passed(f, v) : PartFits(v, part)
  BY <1>2 DEF Measured
<1>9. QED
  BY <1>5, <1>6, <1>7, <1>8 DEF Measured, AtMost

LEMMA MeasuredKey ==
    ASSUME NEW e, NEW f, NEW v, Measured(e, v), Len(f.work) <= MaxDepth + 1,
           NEW q \in Everywhere(v), NEW k \in 1..Len(At(v, q).keys), ~ Gone(e, q, k),
           \A p \in Everywhere(v) : \A i \in {0} \cup 1..Len(At(v, p).keys) :
               Gone(f, p, i) <=> Gone(e, p, i) \/ (p = q /\ i = k),
           TextSize[At(v, q).keys[k]] \in Nat,
           f.count = e.count,
           f.content = e.content + TextSize[At(v, q).keys[k]], f.content <= MaxContent,
           KeyFits(At(v, q), k)
    PROVE  Measured(f, v)
<1>1. k # 0
  OBVIOUS
<1>2. Met(f, v) = Met(e, v)
  BY <1>1 DEF Met
<1>3. Passed(f, v) = Passed(e, v) \cup {<<q, k>>} /\ <<q, k>> \notin Passed(e, v)
  BY PassedMore
<1>4. BytesOf(v, <<q, k>>) = TextSize[At(v, q).keys[k]] /\ PartFits(v, <<q, k>>)
  BY <1>1 DEF BytesOf, PartFits
<1>5. IsFiniteSet(Bytes(v, Passed(e, v))) /\ e.content = Cardinality(Bytes(v, Passed(e, v)))
  BY DEF Measured, AtMost
<1>6. /\ IsFiniteSet(Bytes(v, Passed(f, v)))
      /\ Cardinality(Bytes(v, Passed(f, v))) = e.content + TextSize[At(v, q).keys[k]]
  BY <1>3, <1>4, <1>5, PartAdded
<1>7. \A part \in Passed(f, v) : PartFits(v, part)
  BY <1>3, <1>4 DEF Measured
<1>8. QED
  BY <1>2, <1>6, <1>7 DEF Measured, AtMost

-----------------------------------------------------------------------------
(* Each step of the encoder *)

LEMMA SizesOfTokens ==
    ASSUME NEW w
    PROVE  /\ w.kind \in LeafKinds \cup Containers => Size(FirstToken(w)) = TextBytes(w)
           /\ w.kind \in Containers => TextBytes(w) = 0
           /\ w.kind = "string" => SizeLimit(FirstToken(w)) = MaxString /\ TextBytes(w) = TextSize[w.text]
           /\ w.kind = "bytes" => SizeLimit(FirstToken(w)) = MaxBytes /\ TextBytes(w) = TextSize[w.text]
  BY DEF LeafKinds, Containers, Size, SizeLimit, FirstToken, Token, TextBytes

LEMMA SizeOfKey ==
    ASSUME NEW text
    PROVE  Size(Key(text)) = TextSize[text] /\ SizeLimit(Key(text)) = MaxString
  BY DEF Size, SizeLimit, Key, Token

\* The counters are numbers.
LEMMA MeasuredNumbers ==
    ASSUME NEW e, NEW v, Measured(e, v)
    PROVE  e.count \in 0..MaxValues /\ e.content \in 0..MaxContent
  BY FS_CardinalityType, LimitsAssumption DEF Measured, AtMost

\* Of all places, only one is where the encoder is.
LEMMA OnlyPlace ==
    ASSUME NEW v, NEW stack, NEW n, NEW q, Listed(q), Len(q) = n, Follows(q, stack, n),
           NEW p \in Everywhere(v)
    PROVE  p = q <=> Len(p) = n /\ Follows(p, stack, n)
<1>1. Listed(p)
  BY EverywhereStepwise DEF Stepwise
<1>2. QED
  BY <1>1, FollowsOne

LEMMA LeafMeasured ==
    ASSUME NEW e, NEW f, NEW s, NEW root, Sound(e, root), Measured(e, root[1]), StepLeaf(e, f, s),
           IsLeaf(e.call[1]), \A token : Writes(s, e, token) => Size(token) \in Nat
    PROVE  Measured(f, root[1])
<1> DEFINE w == e.call[1]
           N == Len(e.work)
           v == root[1]
<1>1. /\ e.call # <<>> /\ w.kind \in LeafKinds /\ AdmitsIn(e) /\ w.text \notin Invalid
      /\ AffordsIn(e, FirstToken(w)) /\ Writes(s, e, FirstToken(w))
      /\ f.call = <<>> /\ f.work = e.work /\ f.count = e.count + 1
      /\ f.content = e.content + Size(FirstToken(w))
  BY EncoderFields DEF StepLeaf
<1>2. N <= MaxDepth + 1 /\ N \in Nat /\ N <= MaxDepth
  BY <1>1, NumbersOfPath DEF Measured, Sound, AdmitsIn
<1>3. PICK q : /\ Listed(q) /\ Len(q) = N /\ Follows(q, e.work, N)
               /\ q \in Everywhere(v) /\ At(v, q) = w
  BY <1>1, <1>2, PlaceOfCalled
<1>4. ~ Gone(e, q, 0)
  BY <1>1, <1>3, CalledAhead
<1>5. Size(FirstToken(w)) = TextBytes(w) /\ TextBytes(w) \in Nat
  BY <1>1, SizesOfTokens
<1>6. ASSUME NEW p \in Everywhere(v), NEW i \in {0} \cup 1..Len(At(v, p).keys)
      PROVE  Gone(f, p, i) <=> Gone(e, p, i) \/ (p = q /\ i = 0)
  <2>1. Stepwise(p, v)
    BY EverywhereStepwise
  <2>2. Gone(f, p, i) <=> Gone(e, p, i) \/ (Len(p) = N /\ Follows(p, e.work, N) /\ i = 0)
    BY <1>1, <1>2, <2>1, WrittenGone
  <2>3. QED
    BY <1>3, <2>2, OnlyPlace
<1>7. PartFits(v, <<q, 0>>)
  <2>1. Len(w.items) <= MaxContainer
    BY ListedEmpty, LimitsAssumption DEF IsLeaf, Leaf
  <2>2. Size(FirstToken(w)) <= SizeLimit(FirstToken(w))
    BY <1>1 DEF AffordsIn
  <2>3. FirstFits(w)
    BY <1>1, <1>5, <2>1, <2>2, SizesOfTokens DEF FirstFits
  <2>4. QED
    BY <1>2, <1>3, <2>3 DEF PartFits
<1>8. e.count < MaxValues /\ f.content <= MaxContent /\ Len(f.work) <= MaxDepth + 1
  BY <1>1, <1>2 DEF AdmitsIn, AffordsIn
<1> HIDE DEF w, N, v
<1>9. Measured(e, v)
  BY DEF v
<1>10. Measured(f, v)
  BY <1>1, <1>3, <1>4, <1>5, <1>6, <1>7, <1>8, <1>9, MeasuredValue
<1>11. QED
  BY <1>10 DEF v

LEMMA ContainerMeasured ==
    ASSUME NEW e, NEW f, NEW s, NEW root, Sound(e, root), Measured(e, root[1]), StepContainer(e, f, s)
    PROVE  Measured(f, root[1])
<1> DEFINE w == e.call[1]
           N == Len(e.work)
           v == root[1]
<1>1. /\ e.call # <<>> /\ w.kind \in Containers /\ AdmitsIn(e) /\ Len(w.items) <= MaxContainer
      /\ f.call = <<>> /\ f.work = Append(e.work, Entry(w, 1)) /\ f.count = e.count + 1
      /\ f.content = e.content
  <2>1. /\ e.call # <<>> /\ w.kind \in Containers /\ AdmitsIn(e) /\ Len(w.items) <= MaxContainer
        /\ f = EncoderAt(<<>>, Append(e.work, Entry(w, 1)), e.pos + 1, e.count + 1, e.content)
    BY DEF StepContainer
  <2> DEFINE g == Append(e.work, Entry(w, 1))
             n == e.count + 1
             m == e.pos + 1
             b == e.content
  <2>2. f = EncoderAt(<<>>, g, m, n, b)
    BY <2>1
  <2> HIDE DEF w, g, n, m, b
  <2>3. f.call = <<>> /\ f.work = g /\ f.count = n /\ f.content = b
    BY <2>2, EncoderFields
  <2>4. QED
    BY <2>1, <2>3 DEF g, n, b
<1>2. N <= MaxDepth + 1 /\ N \in Nat /\ N <= MaxDepth
  BY <1>1, NumbersOfPath DEF Measured, Sound, AdmitsIn
<1>3. PICK q : /\ Listed(q) /\ Len(q) = N /\ Follows(q, e.work, N)
               /\ q \in Everywhere(v) /\ At(v, q) = w
  BY <1>1, <1>2, PlaceOfCalled
<1>4. ~ Gone(e, q, 0)
  BY <1>1, <1>3, CalledAhead
<1>5. TextBytes(w) = 0
  BY <1>1, SizesOfTokens
<1>6. ASSUME NEW p \in Everywhere(v), NEW i \in {0} \cup 1..Len(At(v, p).keys)
      PROVE  Gone(f, p, i) <=> Gone(e, p, i) \/ (p = q /\ i = 0)
  <2>1. Stepwise(p, v)
    BY EverywhereStepwise
  <2>2. Gone(f, p, i) <=> Gone(e, p, i) \/ (Len(p) = N /\ Follows(p, e.work, N) /\ i = 0)
    BY <1>1, <2>1, EnteredGone
  <2>3. QED
    BY <1>3, <2>2, OnlyPlace
<1>7. PartFits(v, <<q, 0>>)
  <2>1. FirstFits(w)
    BY <1>1 DEF FirstFits, Containers, LeafKinds
  <2>2. QED
    BY <1>2, <1>3, <2>1 DEF PartFits
<1>8. e.count < MaxValues /\ Len(f.work) <= MaxDepth + 1
  <2>1. Len(f.work) = N + 1
    BY <1>1, ListedAppend DEF Sound, Path
  <2>2. QED
    BY <1>1, <1>2, <2>1, LimitsAssumption DEF AdmitsIn
<1>9. Measured(e, v) /\ e.content \in 0..MaxContent
  BY MeasuredNumbers
<1> HIDE DEF w, N, v
<1>10. f.content = e.content + TextBytes(w) /\ f.content <= MaxContent /\ TextBytes(w) \in Nat
  BY <1>1, <1>5, <1>9
<1>11. Measured(f, v)
  BY <1>1, <1>3, <1>4, <1>6, <1>7, <1>8, <1>9, <1>10, MeasuredValue
<1>12. QED
  BY <1>11 DEF v

\* The place of the innermost container.
LEMMA PlaceOfTop ==
    ASSUME NEW e, NEW root, Sound(e, root), e.work # <<>>, Len(e.work) <= MaxDepth + 1
    PROVE  LET n == Len(e.work) - 1
           IN  \E q : /\ Listed(q) /\ Len(q) = n /\ Follows(q, e.work, n)
                      /\ q \in Everywhere(root[1]) /\ At(root[1], q) = Top(e.work).value
<1> DEFINE N == Len(e.work)
<1>1. N - 1 \in 0..N - 1 /\ (N - 1) + 1 = N /\ Path(e.work, root)
  BY ListedRest DEF Sound, Path
<1>2. PICK q : Follows(q, e.work, N - 1) /\ Located(q, Top(e.work).value, N - 1, root[1])
  BY <1>1, PlaceOfContainer DEF Top
<1>3. QED
  BY <1>2, LocatedEverywhere DEF Located

LEMMA ItemMeasured ==
    ASSUME NEW e, NEW f, NEW root, Sound(e, root), Measured(e, root[1]), StepItem(e, f)
    PROVE  Measured(f, root[1])
<1> DEFINE N == Len(e.work)
           v == root[1]
           x == Top(e.work)
<1>1. /\ AtEntry(e) /\ e.work # <<>> /\ x.value.kind = "array" /\ Turned(e, f.work)
      /\ f.call = <<NextItem(e)>> /\ f.count = e.count /\ f.content = e.content
  BY EncoderFields DEF StepItem, AtEntry
<1>2. f.call # <<>> /\ Len(f.work) = N /\ N <= MaxDepth + 1
  BY <1>1 DEF Measured, Turned, Replaced
<1>3. x.at \in Nat \ {0} /\ Len(x.value.keys) = 0
  BY <1>1, AtEntryFacts DEF EntryOK, Whole
<1>4. PICK q : /\ Listed(q) /\ Len(q) = N - 1 /\ Follows(q, e.work, N - 1)
               /\ q \in Everywhere(v) /\ At(v, q) = x.value
  BY <1>1, <1>2, PlaceOfTop
<1>5. ASSUME NEW p \in Everywhere(v), NEW i \in {0} \cup 1..Len(At(v, p).keys)
      PROVE  Gone(f, p, i) <=> Gone(e, p, i)
  <2>1. Listed(p) /\ i \in Nat
    BY EverywhereStepwise DEF Stepwise
  <2>2. Gone(f, p, i) <=> Gone(e, p, i) \/ (Len(p) = N - 1 /\ Follows(p, e.work, N - 1) /\ i = x.at)
    BY <1>1, <1>2, <2>1, TurnedGone
  <2>3. p = q => i = 0
    BY <1>3, <1>4
  <2>4. QED
    BY <1>3, <1>4, <2>2, <2>3, OnlyPlace
<1> HIDE DEF N, v
<1>6. Measured(f, v)
  BY <1>1, <1>2, <1>5, MeasuredSame DEF v
<1>7. QED
  BY <1>6 DEF v

LEMMA EntryMeasured ==
    ASSUME NEW e, NEW f, NEW s, NEW root, Sound(e, root), Measured(e, root[1]), StepEntry(e, f, s),
           \A token : Writes(s, e, token) => Size(token) \in Nat
    PROVE  Measured(f, root[1])
<1> DEFINE N == Len(e.work)
           v == root[1]
           x == Top(e.work)
           key == x.value.keys[x.at]
<1>1. /\ AtEntry(e) /\ e.work # <<>> /\ x.value.kind = "map" /\ Turned(e, f.work)
      /\ \A j \in 1..x.at - 1 : x.value.keys[j] # key
      /\ AffordsIn(e, Key(key)) /\ Writes(s, e, Key(key))
      /\ f.call = <<NextItem(e)>> /\ f.count = e.count /\ f.content = e.content + Size(Key(key))
  BY EncoderFields DEF StepEntry, AtEntry, NextKey
<1>2. f.call # <<>> /\ Len(f.work) = N /\ N <= MaxDepth + 1
  BY <1>1 DEF Measured, Turned, Replaced
<1>3. x.at \in 1..Len(x.value.keys) /\ x.at \in Nat
  BY <1>1, AtEntryFacts DEF EntryOK, Whole
<1>4. PICK q : /\ Listed(q) /\ Len(q) = N - 1 /\ Follows(q, e.work, N - 1)
               /\ q \in Everywhere(v) /\ At(v, q) = x.value
  BY <1>1, <1>2, PlaceOfTop
<1>5. ~ Gone(e, q, x.at)
  BY <1>1, <1>4, KeyAhead
<1>6. ASSUME NEW p \in Everywhere(v), NEW i \in {0} \cup 1..Len(At(v, p).keys)
      PROVE  Gone(f, p, i) <=> Gone(e, p, i) \/ (p = q /\ i = x.at)
  <2>1. Listed(p) /\ i \in Nat
    BY EverywhereStepwise DEF Stepwise
  <2>2. Gone(f, p, i) <=> Gone(e, p, i) \/ (Len(p) = N - 1 /\ Follows(p, e.work, N - 1) /\ i = x.at)
    BY <1>1, <1>2, <2>1, TurnedGone
  <2>3. QED
    BY <1>4, <2>2, OnlyPlace
<1>7. Size(Key(key)) = TextSize[key] /\ TextSize[key] \in Nat
  BY <1>1, SizeOfKey
<1>8. KeyFits(x.value, x.at) /\ f.content <= MaxContent
  BY <1>1, SizeOfKey DEF KeyFits, AffordsIn
<1>9. /\ x.at \in 1..Len(At(v, q).keys) /\ KeyFits(At(v, q), x.at)
      /\ TextSize[At(v, q).keys[x.at]] \in Nat
      /\ f.content = e.content + TextSize[At(v, q).keys[x.at]]
  BY <1>1, <1>3, <1>4, <1>7, <1>8
<1> HIDE DEF N, v, x
<1>10. Measured(f, v)
  <2>1. Measured(e, v) /\ Len(f.work) <= MaxDepth + 1 /\ q \in Everywhere(v)
    BY <1>2, <1>4 DEF v
  <2>2. QED
    BY <1>1, <1>5, <1>6, <1>8, <1>9, <2>1, MeasuredKey
<1>11. QED
  BY <1>10 DEF v

LEMMA LeaveMeasured ==
    ASSUME NEW e, NEW f, NEW root, Sound(e, root), Measured(e, root[1]), StepLeave(e, f)
    PROVE  Measured(f, root[1])
<1> DEFINE v == root[1]
           N == Len(e.work)
<1>1. N <= MaxDepth + 1
  BY DEF Measured
<1>2. /\ e.work # <<>> /\ f.work = Rest(e.work) /\ f.count = e.count /\ f.content = e.content
  BY EncoderFields DEF StepLeave
<1>3. N \in Nat \ {0} /\ Len(f.work) = N - 1
  BY <1>2, ListedRest DEF Sound, Path
<1>4. ASSUME NEW p \in Everywhere(v), NEW i \in {0} \cup 1..Len(At(v, p).keys)
      PROVE  Gone(f, p, i) <=> Gone(e, p, i)
  BY <1>1, EverywhereStepwise, LeftGone
<1>5. Len(f.work) <= MaxDepth + 1
  <2> HIDE DEF N
  <2>1. QED
    BY <1>1, <1>3, LimitsAssumption
<1> HIDE DEF v
<1>6. Measured(f, v)
  BY <1>2, <1>4, <1>5, MeasuredSame DEF v
<1>7. QED
  BY <1>6 DEF v

\* The counters and what is behind grow together.
LEMMA StepMeasured ==
    ASSUME NEW e, NEW f, NEW s, NEW root, Sound(e, root), Measured(e, root[1]), Step(e, f, s),
           e.call # <<>> => IsLeaf(e.call[1]) \/ e.call[1].kind \in Containers,
           StepLeaf(e, f, s) \/ StepEntry(e, f, s) => \A token : Writes(s, e, token) => Size(token) \in Nat
    PROVE  Measured(f, root[1])
<1>1. CASE StepLeaf(e, f, s)
  <2>1. IsLeaf(e.call[1])
    BY <1>1 DEF StepLeaf, LeafKinds, Containers
  <2>2. QED
    BY <1>1, <2>1, LeafMeasured
<1>2. QED
  BY <1>1, ContainerMeasured, ItemMeasured, EntryMeasured, LeaveMeasured DEF Step

-----------------------------------------------------------------------------
(* From the beginning to the end, or to the limit *)

LEMMA StartMeasured ==
    ASSUME NEW root, root = <<root[1]>>
    PROVE  Measured(Start(root), root[1])
<1> DEFINE e == Start(root)
           v == root[1]
<1>1. e.call # <<>> /\ e.work = <<>> /\ e.count = 0 /\ e.content = 0
  <2>1. e.call = root /\ e.work = <<>> /\ e.count = 0 /\ e.content = 0
    BY EncoderFields DEF Start
  <2>2. root # <<>>
    OBVIOUS
  <2>3. QED
    BY <2>1, <2>2
<1> HIDE DEF e, v
<1>2. \A p, i : ~ Gone(e, p, i)
  BY <1>1, ListedEmpty DEF Gone
<1>3. Met(e, v) = {} /\ Passed(e, v) = {}
  BY <1>2 DEF Met, Passed
<1>4. Bytes(v, {}) = {}
  BY DEF Bytes
<1>5. Len(e.work) = 0
  BY <1>1, ListedEmpty
<1>6. Measured(e, v)
  BY <1>1, <1>3, <1>4, <1>5, FS_EmptySet, LimitsAssumption DEF Measured, AtMost
<1>7. QED
  BY <1>6 DEF e, v

LEMMA MeasuredWhole ==
    ASSUME NEW e, NEW v, Measured(e, v), e.call = <<>>, e.work = <<>>
    PROVE  WithinLimits(v)
<1>1. Met(e, v) = Everywhere(v) /\ Passed(e, v) = Parts(v)
  BY DEF Met, Passed, Gone
<1>2. ASSUME NEW place \in Everywhere(v)
      PROVE  Len(place) <= MaxDepth /\ Fits(At(v, place))
  <2> DEFINE w == At(v, place)
  <2>1. \A i \in {0} \cup 1..Len(w.keys) : <<place, i>> \in Passed(e, v)
    BY <1>1, PartsAre
  <2>2. \A i \in {0} \cup 1..Len(w.keys) : PartFits(v, <<place, i>>)
    BY <2>1 DEF Measured
  <2>3. Len(place) <= MaxDepth /\ FirstFits(w)
    BY <2>2 DEF PartFits
  <2>4. \A i \in 1..Len(w.keys) : KeyFits(w, i)
    BY <2>2 DEF PartFits
  <2> HIDE DEF w
  <2>5. ASSUME NEW i \in 1..Len(w.keys), NEW j \in 1..Len(w.keys), w.keys[i] = w.keys[j]
        PROVE  i = j
    <3>1. i < j \/ j < i \/ i = j
      OBVIOUS
    <3>2. i < j => i \in 1..j - 1
      OBVIOUS
    <3>3. j < i => j \in 1..i - 1
      OBVIOUS
    <3>4. QED
      BY <2>4, <2>5, <3>1, <3>2, <3>3 DEF KeyFits
  <2>6. Fits(w)
    BY <2>3, <2>4, <2>5 DEF Fits, FirstFits, KeyFits
  <2>7. QED
    BY <2>3, <2>6 DEF w
<1>3. QED
  BY <1>1, <1>2 DEF Measured, WithinLimits

\* What is behind is part of the whole.
LEMMA BytesMore ==
    ASSUME NEW v, WithinLimits(v), NEW e, Measured(e, v), NEW p \in Everywhere(v),
           NEW i \in {0} \cup 1..Len(At(v, p).keys), ~ Gone(e, p, i), BytesOf(v, <<p, i>>) \in Nat
    PROVE  e.content + BytesOf(v, <<p, i>>) <= MaxContent
<1> DEFINE P == Passed(e, v)
           B == Bytes(v, P \cup {<<p, i>>})
<1>1. <<p, i>> \in Parts(v) /\ <<p, i>> \notin P /\ P \subseteq Parts(v)
  BY PartsAre DEF Passed
<1>2. B \subseteq Bytes(v, Parts(v))
  <2>1. P \cup {<<p, i>>} \subseteq Parts(v)
    BY <1>1
  <2> HIDE DEF P
  <2>2. QED
    BY <2>1 DEF Bytes
<1>3. IsFiniteSet(Bytes(v, P)) /\ e.content = Cardinality(Bytes(v, P))
  BY DEF Measured, AtMost
<1> HIDE DEF P
<1>4. Cardinality(B) = e.content + BytesOf(v, <<p, i>>)
  BY <1>1, <1>3, PartAdded
<1>5. IsFiniteSet(Bytes(v, Parts(v))) /\ Cardinality(Bytes(v, Parts(v))) <= MaxContent
  BY DEF WithinLimits, AtMost
<1> HIDE DEF B
<1>6. IsFiniteSet(B) /\ Cardinality(B) <= Cardinality(Bytes(v, Parts(v)))
  BY <1>2, <1>5, FS_Subset
<1>7. Cardinality(B) \in Nat /\ Cardinality(Bytes(v, Parts(v))) \in Nat
  BY <1>5, <1>6, FS_CardinalityType
<1>8. Cardinality(B) <= MaxContent
  BY <1>5, <1>6, <1>7, LimitsAssumption
<1>9. QED
  BY <1>4, <1>8

LEMMA ValuesMore ==
    ASSUME NEW v, WithinLimits(v), NEW e, Measured(e, v), NEW q \in Everywhere(v), ~ Gone(e, q, 0)
    PROVE  e.count < MaxValues
<1> DEFINE M == Met(e, v) \cup {q}
           n == Cardinality(M)
           m == Cardinality(Everywhere(v))
<1>1. IsFiniteSet(Met(e, v)) /\ e.count = Cardinality(Met(e, v)) /\ q \notin Met(e, v)
  BY DEF Measured, AtMost, Met
<1>2. n = e.count + 1
  BY <1>1, FS_AddElement
<1>3. M \subseteq Everywhere(v)
  BY DEF Met
<1>4. IsFiniteSet(Everywhere(v)) /\ m <= MaxValues
  BY DEF WithinLimits, AtMost
<1> HIDE DEF M
<1>5. n <= m /\ m \in Nat /\ e.count \in Nat
  BY <1>1, <1>3, <1>4, FS_Subset, FS_CardinalityType
<1> HIDE DEF n, m
<1>6. QED
  BY <1>2, <1>4, <1>5, LimitsAssumption

\* A value that is refused is over a limit.
LEMMA RefusedIsOver ==
    ASSUME EncodeRefuse, Sound(EState, given), Measured(EState, given[1]),
           call # <<>> => call[1].kind \in LeafKinds \cup Containers /\ TextBytes(call[1]) \in Nat,
           HasNext /\ Top(work).value.kind = "map" => TextSize[Top(work).value.keys[Top(work).at]] \in Nat
    PROVE  ~ WithinLimits(given[1])
<1> DEFINE v == given[1]
<1>1. SUFFICES ASSUME WithinLimits(v) PROVE FALSE
  OBVIOUS
<1> PICK e : e = EState
  OBVIOUS
<1>2. /\ e.call = call /\ e.work = work /\ e.count = count /\ e.content = content
      /\ Sound(e, given) /\ Measured(e, v)
  BY EncoderFields DEF EState
<1>3. Len(work) <= MaxDepth + 1
  BY <1>2 DEF Measured
<1>4. \A place \in Everywhere(v) : Len(place) <= MaxDepth /\ Fits(At(v, place))
  BY <1>1 DEF WithinLimits
<1>5. CASE Calls /\ ~ Encodable(call[1])
  <2> DEFINE w == call[1]
  <2>1. PICK q : /\ Listed(q) /\ Len(q) = Len(work) /\ Follows(q, work, Len(work))
                 /\ q \in Everywhere(v) /\ At(v, q) = w
    BY <1>2, <1>3, <1>5, PlaceOfCalled DEF Calls
  <2>2. ~ Gone(e, q, 0)
    BY <1>2, <1>5, <2>1, CalledAhead DEF Calls
  <2>3. Len(work) <= MaxDepth /\ Fits(w)
    BY <1>4, <2>1
  <2>4. e.count < MaxValues
    BY <1>1, <1>2, <2>1, <2>2, ValuesMore
  <2>5. w.kind \in LeafKinds \cup Containers /\ TextBytes(w) \in Nat
    BY <1>5 DEF Calls
  <2>6. BytesOf(v, <<q, 0>>) = TextBytes(w)
    BY <2>1 DEF BytesOf
  <2>7. e.content + TextBytes(w) <= MaxContent
    BY <1>1, <1>2, <2>1, <2>2, <2>5, <2>6, BytesMore
  <2> HIDE DEF w
  <2>8. Size(FirstToken(w)) = TextBytes(w) /\ Size(FirstToken(w)) <= SizeLimit(FirstToken(w))
    <3>1. w.kind \notin {"string", "bytes"} => TextBytes(w) = 0 /\ SizeLimit(FirstToken(w)) \in Nat
      BY LimitsAssumption DEF TextBytes, SizeLimit, FirstToken, Token
    <3>2. QED
      BY <2>3, <2>5, <3>1, SizesOfTokens DEF Fits
  <2>9. Encodable(w)
    BY <1>2, <2>3, <2>4, <2>5, <2>7, <2>8 DEF Encodable, Admits, Affords, Fits
  <2>10. QED
    BY <1>5, <2>9 DEF w
<1>6. CASE HasNext /\ Top(work).value.kind = "map" /\ ~ KeyEncodable
  <2> DEFINE x == Top(work)
             key == x.value.keys[x.at]
  <2>1. AtEntry(e) /\ work # <<>>
    BY <1>2, <1>6 DEF HasNext, AtEntry
  <2>2. PICK q : /\ Listed(q) /\ Len(q) = Len(work) - 1 /\ Follows(q, work, Len(work) - 1)
                 /\ q \in Everywhere(v) /\ At(v, q) = x.value
    BY <1>2, <1>3, <2>1, PlaceOfTop
  <2>3. ~ Gone(e, q, x.at)
    BY <1>2, <2>1, <2>2, KeyAhead
  <2>4. x.at \in 1..Len(x.value.keys) /\ x.at \in Nat
    <3>1. EntryOK(x) /\ x.at \in 1..Len(x.value.items) /\ x.at \in Nat
      BY <1>2, <2>1, AtEntryFacts
    <3>2. QED
      BY <1>6, <3>1 DEF EntryOK, Whole
  <2>5. Fits(x.value)
    BY <1>4, <2>2
  <2> HIDE DEF x
  <2>6. TextSize[key] \in Nat /\ TextSize[key] <= MaxString
    BY <1>6, <2>4, <2>5 DEF Fits, x
  <2>7. BytesOf(v, <<q, x.at>>) = TextSize[key]
    BY <2>2, <2>4 DEF BytesOf
  <2>8. content + TextSize[key] <= MaxContent
    BY <1>1, <1>2, <2>2, <2>3, <2>4, <2>6, <2>7, BytesMore
  <2>9. \A j \in 1..x.at - 1 : x.value.keys[j] # key
    <3>1. \A j \in 1..x.at - 1 : j \in 1..Len(x.value.keys) /\ j # x.at
      BY <2>4
    <3>2. QED
      BY <2>4, <2>5, <3>1 DEF Fits
  <2>10. KeyEncodable
    BY <2>6, <2>8, <2>9, SizeOfKey DEF KeyEncodable, Affords, x
  <2>11. QED
    BY <1>6, <2>10
<1>7. QED
  BY <1>5, <1>6 DEF EncodeRefuse

-----------------------------------------------------------------------------
(* The encoder with a value whose texts have a size *)

SizedSet(S) == ValueSet(S) /\ \A v \in S : Sized(v)

Going ==
    /\ Listed(out) /\ Sound(EState, given) /\ Measured(EState, given[1])
    /\ \E S : SizedSet(S) /\ Within(EState, S)

LEMMA SizedBytes ==
    ASSUME NEW v, Sized(v)
    PROVE  TextBytes(v) \in Nat /\ \A i \in 1..Len(v.keys) : TextSize[v.keys[i]] \in Nat
  BY LimitsAssumption DEF Sized, TextBytes

\* What is known of the value the encoder is called with.
LEMMA CalledKind ==
    ASSUME NEW S, SizedSet(S), NEW e, Within(e, S), e.call # <<>>
    PROVE  /\ IsLeaf(e.call[1]) \/ e.call[1].kind \in Containers
           /\ e.call[1].kind \in LeafKinds \cup Containers
           /\ TextBytes(e.call[1]) \in Nat
<1>1. e.call[1] \in S
  BY DEF Within
<1>2. IsLeaf(e.call[1]) \/ IsContainer(e.call[1])
  BY <1>1 DEF SizedSet, ValueSet
<1>3. QED
  BY <1>1, <1>2, SizedBytes DEF SizedSet, IsLeaf, IsContainer

\* And of the key that it is at.
LEMMA KeyBytes ==
    ASSUME NEW S, SizedSet(S), NEW e, NEW root, Sound(e, root), Within(e, S), AtEntry(e), Top(e.work).value.kind = "map"
    PROVE  TextSize[Top(e.work).value.keys[Top(e.work).at]] \in Nat
<1> DEFINE x == Top(e.work)
<1>1. EntryOK(x) /\ x.at \in 1..Len(x.value.items)
  BY AtEntryFacts
<1>2. x.value \in S
  <2>1. Len(e.work) \in 1..Len(e.work)
    BY ListedRest DEF Sound, Path, AtEntry
  <2>2. QED
    BY <2>1 DEF Within, Top
<1> HIDE DEF x
<1>3. x.at \in 1..Len(x.value.keys)
  BY <1>1 DEF EntryOK, Whole, x
<1>4. QED
  BY <1>2, <1>3, SizedBytes DEF SizedSet, x

LEMMA StepGoes ==
    ASSUME NEW S, SizedSet(S), NEW e, NEW f, NEW s, NEW root, Sound(e, root), Within(e, S), Measured(e, root[1]),
           Step(e, f, s)
    PROVE  Sound(f, root) /\ Within(f, S) /\ Measured(f, root[1])
<1>1. e.call # <<>> => IsLeaf(e.call[1]) \/ e.call[1].kind \in Containers
  BY CalledKind
<1>2. ASSUME StepLeaf(e, f, s) PROVE \A token : Writes(s, e, token) => Size(token) \in Nat
  <2>1. e.call # <<>> /\ Writes(s, e, FirstToken(e.call[1]))
    BY <1>2 DEF StepLeaf
  <2>2. Size(FirstToken(e.call[1])) \in Nat
    BY <2>1, CalledKind, SizesOfTokens
  <2>3. QED
    BY <2>1, <2>2 DEF Writes
<1>3. ASSUME StepEntry(e, f, s) PROVE \A token : Writes(s, e, token) => Size(token) \in Nat
  <2>1. AtEntry(e) /\ Top(e.work).value.kind = "map" /\ Writes(s, e, NextKey(e))
    BY <1>3 DEF StepEntry
  <2>2. Size(NextKey(e)) \in Nat
    BY <2>1, KeyBytes, SizeOfKey DEF NextKey
  <2>3. QED
    BY <2>1, <2>2 DEF Writes
<1>4. Measured(f, root[1])
  BY <1>1, <1>2, <1>3, StepMeasured
<1>5. QED
  BY <1>4, StepIsSound DEF SizedSet

LEMMA GoingOn ==
    ASSUME Going, phase = "encode", Encode
    PROVE  /\ given' = given
           /\ phase' \in {"encode", "encoder refused", "decode", "done"}
           /\ phase' = "encode" => Going'
           /\ phase' = "encoder refused" => ~ WithinLimits(given[1])
           /\ phase' \in {"decode", "done"} => WithinLimits(given[1])
<1>1. PICK root, e : root = given /\ e = EState
  OBVIOUS
<1>2. Listed(out) /\ Sound(e, root) /\ Measured(e, root[1]) /\ \E S : SizedSet(S) /\ Within(e, S)
  BY <1>1 DEF Going
<1>3. PICK S : SizedSet(S) /\ Within(e, S)
  BY <1>2
<1>4. e.call = call /\ e.work = work
  BY <1>1, EncoderFields DEF EState
<1>5. CASE phase' = "encode"
  <2>1. PICK f, s : f = EState' /\ s = out'
    OBVIOUS
  <2>2. Step(e, f, s) /\ Listed(s) /\ given' = root
    BY <1>1, <1>2, <1>5, <2>1, EncoderMoves
  <2>3. Sound(f, root) /\ Within(f, S) /\ Measured(f, root[1])
    BY <1>2, <1>3, <2>2, StepGoes
  <2>4. Going'
    <3>1. Sound(EState', given') /\ Measured(EState', given'[1]) /\ Within(EState', S)
      BY <2>1, <2>2, <2>3
    <3>2. QED
      BY <1>3, <2>1, <2>2, <3>1 DEF Going, Listed
  <2>5. QED
    BY <1>1, <1>5, <2>2, <2>4
<1>6. CASE EncodeRefuse
  <2>1. call # <<>> => call[1].kind \in LeafKinds \cup Containers /\ TextBytes(call[1]) \in Nat
    BY <1>3, <1>4, CalledKind
  <2>2. HasNext /\ Top(work).value.kind = "map" => TextSize[Top(work).value.keys[Top(work).at]] \in Nat
    BY <1>2, <1>3, <1>4, KeyBytes DEF HasNext, AtEntry
  <2>3. ~ WithinLimits(given[1])
    BY <1>1, <1>2, <1>6, <2>1, <2>2, RefusedIsOver
  <2>4. QED
    BY <1>6, <2>3 DEF EncodeRefuse, encoderVars
<1>7. CASE Encoded
  <2>1. WithinLimits(root[1])
    BY <1>2, <1>4, <1>7, MeasuredWhole DEF Encoded
  <2>2. QED
    BY <1>1, <1>7, <2>1 DEF Encoded, encoderVars
<1>8. QED
  BY <1>5, <1>6, <1>7
  DEF Encode, EncodeLeaf, EncodeContainer, EncodeItem, EncodeEntry, EncodeLeave, Calls, HasNext

\* Where it starts.
LEMMA StartGoes ==
    ASSUME NEW S, SizedSet(S), NEW root, root = <<root[1]>>, root[1] \in S
    PROVE  Sound(Start(root), root) /\ Measured(Start(root), root[1]) /\ Within(Start(root), S)
<1>1. Start(root).call = root /\ Start(root).work = <<>>
  BY EncoderFields DEF Start
<1>2. Within(Start(root), S)
  BY <1>1, ListedEmpty DEF Within
<1>3. QED
  BY <1>2, RoadStarts, StartMeasured

LEMMA GoingStarts ==
    ASSUME NEW S, SizedSet(S), NEW v \in S, InitValue(v), InitRest
    PROVE  Going
<1>1. given = <<v>> /\ given = <<given[1]>> /\ given[1] \in S
  BY DEF InitValue
<1>2. EState = Start(given)
  BY ListedEmpty DEF InitValue, InitRest, EState, Start
<1>3. Listed(out)
  BY ListedEmpty DEF InitRest
<1>4. QED
  BY <1>1, <1>2, <1>3, StartGoes DEF Going

-----------------------------------------------------------------------------
(* The decoder, with whatever value it may be reading *)

\* Where both begin, and where both end.
LEMMA BothStart ==
    ASSUME InitRest, NEW e, NEW root, Sound(e, root), InStep(e, root)
    PROVE  e = Start(root) /\ root = <<root[1]>>
<1>1. open = <<>> /\ offset = 0 /\ result = <<>> /\ count = 0 /\ content = 0
  BY DEF InitRest
<1>2. e.work = <<>>
  BY <1>1, AlikeEmpty DEF InStep
<1>3. root = <<root[1]>> /\ root # <<>>
  <2>1. root = <<root[1]>>
    BY DEF Sound
  <2>2. QED
    BY <2>1
<1>4. e.call # <<>>
  BY <1>1, <1>2, <1>3 DEF InStep
<1>5. e.call = root
  BY <1>2, <1>3, <1>4 DEF Sound, Due
<1>6. e.pos = 0 /\ e.count = 0 /\ e.content = 0
  BY <1>1 DEF InStep
<1>7. QED
  BY <1>2, <1>3, <1>5, <1>6 DEF Sound, Start

LEMMA BothEnd ==
    ASSUME open = <<>>, result = <<result[1]>>, NEW root, root = result,
           NEW to, to = EncoderAt(<<>>, <<>>, offset, count, content)
    PROVE  /\ to.call = <<>> /\ to.work = <<>> /\ to.pos = offset
           /\ Sound(to, root) /\ InStep(to, root)
<1>1. /\ to.call = <<>> /\ to.work = <<>> /\ to.pos = offset /\ to.count = count /\ to.content = content
      /\ to = EncoderAt(to.call, to.work, to.pos, to.count, to.content)
  BY EncoderFields
<1>2. Path(<<>>, root) /\ Alike(<<>>, <<>>, 1)
  <2>1. Listed(<<>>) /\ Len(<<>>) = 0
    BY ListedEmpty
  <2>2. QED
    BY <2>1 DEF Path, Alike
<1>3. QED
  BY <1>1, <1>2 DEF Sound, InStep

Counted == \A e, root : Sound(e, root) /\ InStep(e, root) /\ Settled(e) => Measured(e, root[1])

LEMMA CountedStarts ==
    ASSUME InitRest
    PROVE  Counted
  BY BothStart, StartMeasured DEF Counted

LEMMA CountedWhole ==
    ASSUME Counted, open = <<>>, result = <<result[1]>>
    PROVE  WithinLimits(result[1])
<1>1. PICK root, to : root = result /\ to = EncoderAt(<<>>, <<>>, offset, count, content)
  OBVIOUS
<1>2. to.call = <<>> /\ to.work = <<>> /\ Sound(to, root) /\ InStep(to, root)
  BY <1>1, BothEnd
<1>3. Measured(to, root[1])
  BY <1>2 DEF Counted, Settled
<1>4. QED
  BY <1>1, <1>2, <1>3, MeasuredWhole

LEMMA SizesOnWire ==
    ASSUME wire \in Seq(AnyToken), NEW e, NEW token, Writes(wire, e, token)
    PROVE  Size(token) \in Nat
<1>1. PICK i \in 1..Len(wire) : token = wire[i]
  BY DEF Writes
<1>2. token \in AnyToken
  BY <1>1, ElementOfSeq
<1>3. QED
  BY <1>2, LimitsAssumption DEF Size, AnyToken

LEMMA PrecededCounts ==
    ASSUME Counted, wire \in Seq(AnyToken), NEW e, NEW f, NEW root, Precedes(e, f, root)
    PROVE  Measured(f, root[1])
<1>1. /\ Sound(e, root) /\ InStep(e, root) /\ Step(e, f, wire)
      /\ e.call # <<>> => IsLeaf(e.call[1]) \/ e.call[1].kind \in Containers
  BY DEF Precedes
<1>2. Measured(e, root[1])
  <2>1. CASE Settled(e)
    BY <1>1, <2>1 DEF Counted
  <2>2. CASE ~ Settled(e)
    <3>1. PICK d : Sound(d, root) /\ InStep(d, root) /\ Settled(d) /\ StepItem(d, e)
      BY <1>1, <2>2, Unsettle
    <3>2. Measured(d, root[1])
      BY <3>1 DEF Counted
    <3>3. QED
      BY <3>1, <3>2, ItemMeasured
  <2>3. QED
    BY <2>1, <2>2
<1>3. \A token : Writes(wire, e, token) => Size(token) \in Nat
  BY SizesOnWire
<1>4. QED
  BY <1>1, <1>2, <1>3, StepMeasured

LEMMA CountedOn ==
    ASSUME IInv, CanonicalInv, Counted, origin = "wire", phase = "decode", Decode, phase' = "decode"
    PROVE  Counted'
<1>1. Reading /\ wire \in Seq(AnyToken)
  BY DEF CanonicalInv, IInv, Reading
<1>2. CASE (\E token \in Tokens : Supply(token)) \/ SupplyEnds
  <2>1. open' = open /\ result' = result /\ offset' = offset /\ count' = count /\ content' = content
    BY <1>2 DEF Supply, SupplyEnds, counters
  <2>2. QED
    BY <2>1 DEF Counted, InStep
<1>3. CASE DecodeLeaf \/ DecodeContainer \/ DecodeKey \/ DecodeLeave
  <2>1. ASSUME NEW f, NEW root, Sound(f, root), InStep(f, root)', Settled(f)
        PROVE  Measured(f, root[1])
    <3>1. PICK e : Precedes(e, f, root)
      BY <1>1, <1>3, <2>1, LeafPrecedes, ContainerPrecedes, KeyPrecedes, LeavePrecedes
    <3>2. QED
      BY <1>1, <3>1, PrecededCounts
  <2>2. QED
    BY <2>1 DEF Counted
<1>4. QED
  BY <1>2, <1>3 DEF Decode, DecodeRefuse, Decoded

-----------------------------------------------------------------------------
(* What from_raw makes of a payload's own objects *)

\* The values of S were made for this container; it has so many keys more.
FrameMade(fr, S, ahead, objects) ==
    /\ fr = Frame(fr.object, fr.type, fr.length, fr.keys, fr.items, fr.gotKeys, fr.got)
    /\ fr.object \in DOMAIN objects /\ fr.type \in Containers /\ fr.length \in Nat
    /\ Listed(fr.got) /\ Listed(fr.gotKeys)
    /\ \A j \in 1..Len(fr.got) : fr.got[j] \in S
    /\ \A j \in 1..Len(fr.gotKeys) : fr.gotKeys[j] \in DOMAIN TextSize
    /\ Len(fr.gotKeys) = IF fr.type = "map" THEN Len(fr.got) + ahead ELSE 0
    /\ fr.type = "map" => \A j \in 1..fr.length : Known(fr.keys[j], objects) /\ Known(fr.items[j], objects)

\* All containers but the innermost wait for a value.
StackMade(stack, S, ahead, objects) ==
    /\ Listed(stack)
    /\ \A i \in 1..Len(stack) - 1 : FrameMade(stack[i], S, 1, objects)
    /\ stack # <<>> => FrameMade(Top(stack), S, ahead, objects)

LEMMA MadeEmpty ==
    ASSUME NEW S, NEW ahead, NEW objects
    PROVE  StackMade(<<>>, S, ahead, objects)
<1>1. Listed(<<>>) /\ Len(<<>>) = 0
  BY ListedEmpty
<1>2. \A i \in 1..Len(<<>>) - 1 : FALSE
  BY <1>1
<1>3. QED
  BY <1>1, <1>2 DEF StackMade

LEMMA MadePush ==
    ASSUME NEW S, NEW objects, NEW stack, StackMade(stack, S, 1, objects),
           NEW fr, NEW ahead, FrameMade(fr, S, ahead, objects)
    PROVE  StackMade(Append(stack, fr), S, ahead, objects)
<1>1. PICK t, n : t = Append(stack, fr) /\ n = Len(stack)
  OBVIOUS
<1>2. /\ Listed(t) /\ n \in Nat /\ Len(t) = n + 1 /\ t[n + 1] = fr
      /\ \A i \in 1..n : t[i] = stack[i]
  BY <1>1, ListedAppend DEF StackMade
<1>3. ASSUME NEW i \in 1..n PROVE FrameMade(stack[i], S, 1, objects)
  <2>1. stack # <<>>
    BY <1>1, <1>3, ListedEmpty
  <2>2. i \in 1..n - 1 \/ i = n
    BY <1>2
  <2>3. QED
    BY <1>1, <2>1, <2>2 DEF StackMade, Top
<1>4. \A i \in 1..Len(t) - 1 : FrameMade(t[i], S, 1, objects)
  BY <1>2, <1>3
<1>5. Top(t) = fr
  BY <1>2 DEF Top
<1>6. QED
  BY <1>1, <1>2, <1>4, <1>5 DEF StackMade

LEMMA MadePop ==
    ASSUME NEW S, NEW objects, NEW stack, NEW ahead, StackMade(stack, S, ahead, objects), stack # <<>>
    PROVE  StackMade(Rest(stack), S, 1, objects) /\ FrameMade(Top(stack), S, ahead, objects)
<1>1. PICK t, n : t = Rest(stack) /\ n = Len(stack)
  OBVIOUS
<1>2. Listed(t) /\ n \in Nat \ {0} /\ Len(t) = n - 1 /\ \A i \in 1..n - 1 : t[i] = stack[i]
  BY <1>1, ListedRest DEF StackMade
<1>3. \A i \in 1..n - 1 : FrameMade(t[i], S, 1, objects)
  BY <1>1, <1>2 DEF StackMade
<1>4. \A i \in 1..Len(t) - 1 : i \in 1..n - 1
  BY <1>2
<1>5. t # <<>> => Len(t) \in 1..n - 1
  BY <1>2, ListedRest
<1>6. QED
  BY <1>1, <1>2, <1>3, <1>4, <1>5 DEF StackMade, Top

LEMMA MadeTurn ==
    ASSUME NEW S, NEW objects, NEW stack, NEW ahead, StackMade(stack, S, ahead, objects), stack # <<>>,
           NEW g, NEW t, NEW further, Replaced(stack, g, t), FrameMade(g, S, further, objects)
    PROVE  StackMade(t, S, further, objects)
<1>1. Listed(t) /\ Len(t) = Len(stack) /\ t[Len(t)] = g /\ \A i \in 1..Len(stack) - 1 : t[i] = stack[i]
  BY DEF Replaced
<1>2. QED
  BY <1>1 DEF StackMade, Top

\* With more values it remains so.
LEMMA MadeMore ==
    ASSUME NEW S, NEW T, S \subseteq T, NEW objects, NEW stack, NEW ahead, StackMade(stack, S, ahead, objects)
    PROVE  StackMade(stack, T, ahead, objects)
  BY DEF StackMade, FrameMade

\* A frame takes a value, or a key.
LEMMA FrameTakes ==
    ASSUME NEW S, NEW objects, NEW fr, FrameMade(fr, S, 1, objects), NEW v \in S, NEW g, g = WithItem(fr, v)
    PROVE  FrameMade(g, S, 0, objects)
<1>1. PICK o, t, l, k, i, gk, gt : fr = Frame(o, t, l, k, i, gk, gt)
  BY DEF FrameMade
<1>2. PICK more : more = Append(gt, v)
  OBVIOUS
<1>3. g = Frame(o, t, l, k, i, gk, more)
  BY <1>1, <1>2 DEF Frame, WithItem
<1>4. /\ fr.object = o /\ fr.type = t /\ fr.length = l /\ fr.keys = k /\ fr.items = i /\ fr.gotKeys = gk /\ fr.got = gt
  BY <1>1 DEF Frame
<1>5. /\ g.object = o /\ g.type = t /\ g.length = l /\ g.keys = k /\ g.items = i /\ g.gotKeys = gk /\ g.got = more
  BY <1>3 DEF Frame
<1>6. /\ Listed(gt) /\ \A j \in 1..Len(gt) : gt[j] \in S
      /\ Len(gk) = IF t = "map" THEN Len(gt) + 1 ELSE 0
  BY <1>4 DEF FrameMade
<1>7. /\ Listed(more) /\ Len(gt) \in Nat /\ Len(more) = Len(gt) + 1
      /\ \A j \in 1..Len(gt) : more[j] = gt[j] /\ more[Len(gt) + 1] = v
  BY <1>2, <1>6, ListedAppend
<1>8. ASSUME NEW j \in 1..Len(more) PROVE more[j] \in S
  <2>1. j \in 1..Len(gt) \/ j = Len(gt) + 1
    BY <1>7
  <2>2. more[Len(gt) + 1] = v
    BY <1>2, <1>6, ListedAppend
  <2>3. QED
    BY <1>6, <1>7, <2>1, <2>2
<1>9. Len(gk) = IF t = "map" THEN Len(more) + 0 ELSE 0
  BY <1>6, <1>7
<1>10. QED
  BY <1>3, <1>4, <1>5, <1>7, <1>8, <1>9 DEF FrameMade

LEMMA FrameTakesKey ==
    ASSUME NEW S, NEW objects, NEW fr, FrameMade(fr, S, 0, objects), fr.type = "map",
           NEW key \in DOMAIN TextSize, NEW g, g = WithKey(fr, key)
    PROVE  FrameMade(g, S, 1, objects)
<1>1. PICK o, t, l, k, i, gk, gt : fr = Frame(o, t, l, k, i, gk, gt)
  BY DEF FrameMade
<1>2. PICK more : more = Append(gk, key)
  OBVIOUS
<1>3. g = Frame(o, t, l, k, i, more, gt)
  BY <1>1, <1>2 DEF Frame, WithKey
<1>4. /\ fr.object = o /\ fr.type = t /\ fr.length = l /\ fr.keys = k /\ fr.items = i /\ fr.gotKeys = gk /\ fr.got = gt
  BY <1>1 DEF Frame
<1>5. /\ g.object = o /\ g.type = t /\ g.length = l /\ g.keys = k /\ g.items = i /\ g.gotKeys = more /\ g.got = gt
  BY <1>3 DEF Frame
<1>6. /\ Listed(gk) /\ \A j \in 1..Len(gk) : gk[j] \in DOMAIN TextSize
      /\ Listed(gt) /\ Len(gk) = Len(gt) + 0
  BY <1>4 DEF FrameMade
<1>7. /\ Listed(more) /\ Len(gk) \in Nat /\ Len(more) = Len(gk) + 1
      /\ \A j \in 1..Len(gk) : more[j] = gk[j]
      /\ more[Len(gk) + 1] = key
  BY <1>2, <1>6, ListedAppend
<1>8. ASSUME NEW j \in 1..Len(more) PROVE more[j] \in DOMAIN TextSize
  <2>1. j \in 1..Len(gk) \/ j = Len(gk) + 1
    BY <1>7
  <2>2. QED
    BY <1>6, <1>7, <2>1
<1>9. Len(more) = Len(gt) + 1
  <2>1. Len(gt) \in Nat
    BY <1>6, ListedAppend
  <2>2. QED
    BY <1>6, <1>7, <2>1
<1>10. QED
  BY <1>3, <1>4, <1>5, <1>7, <1>8, <1>9 DEF FrameMade

LEMMA GiveMakes ==
    ASSUME NEW S, NEW objects, NEW v \in S, NEW around, StackMade(around, S, 1, objects), Give(v, around)
    PROVE  StackMade(frames', S, 0, objects) /\ (converted' = converted \/ converted' = <<v>>)
<1>1. CASE around = <<>>
  BY <1>1, MadeEmpty DEF Give
<1>2. CASE around # <<>>
  <2>1. PICK fr, g : fr = Top(around) /\ g = WithItem(fr, v)
    OBVIOUS
  <2>2. frames' = [around EXCEPT ![Len(around)] = g] /\ converted' = converted
    BY <1>2, <2>1 DEF Give, WithItem, Top
  <2>3. Replaced(around, g, frames')
    BY <1>2, <2>2, Replacing, Zenon DEF StackMade
  <2>4. FrameMade(g, S, 0, objects)
    BY <1>2, <2>1, FrameTakes DEF StackMade
  <2>5. QED
    BY <1>2, <2>2, <2>3, <2>4, MadeTurn
<1>3. QED
  BY <1>1, <1>2

\* A container all of whose entries were made.
LEMMA ContainerMade ==
    ASSUME NEW S, SizedSet(S), NEW objects, NEW fr, FrameMade(fr, S, 0, objects),
           NEW v, v = Container(fr.type, fr.gotKeys, fr.got)
    PROVE  SizedSet(S \cup {v})
<1>1. PICK type, keys, items, m, n : type = fr.type /\ keys = fr.gotKeys /\ items = fr.got /\ m = Len(keys) /\ n = Len(items)
  OBVIOUS
<1>2. /\ type \in Containers /\ Listed(keys) /\ Listed(items) /\ m \in Nat /\ n \in Nat
      /\ m = IF type = "map" THEN n ELSE 0
      /\ \A j \in 1..n : items[j] \in S
      /\ \A j \in 1..m : keys[j] \in DOMAIN TextSize
  <2>1. /\ type \in Containers /\ Listed(keys) /\ Listed(items)
        /\ m = IF type = "map" THEN n + 0 ELSE 0
        /\ \A j \in 1..n : items[j] \in S
        /\ \A j \in 1..m : keys[j] \in DOMAIN TextSize
    BY <1>1 DEF FrameMade
  <2>2. m \in Nat /\ n \in Nat
    BY <1>1, <2>1, ListedAppend
  <2>3. QED
    BY <2>1, <2>2
<1>3. v.kind = type /\ v.keys = keys /\ v.items = items /\ v = Container(v.kind, v.keys, v.items)
  BY <1>1 DEF Container
<1>4. items \in Seq(S)
  <2>1. {items[i] : i \in 1..Len(items)} \subseteq S
    BY <1>1, <1>2
  <2>2. QED
    BY <1>2, <2>1, SeqMonotonic DEF Listed
<1>5. keys = [i \in 1..m |-> keys[i]]
  BY <1>1, <1>2, LenProperties DEF Listed
<1>6. IsContainer(v)
  BY <1>1, <1>2, <1>3, <1>5 DEF IsContainer
<1>7. Sized(v)
  BY <1>1, <1>2, <1>3 DEF Sized, Containers
<1>8. S \subseteq S \cup {v} /\ Seq(S) \subseteq Seq(S \cup {v})
  <2>1. S \subseteq S \cup {v}
    OBVIOUS
  <2>2. QED
    BY <2>1, SeqMonotonic
<1>9. QED
  BY <1>3, <1>4, <1>6, <1>7, <1>8 DEF SizedSet, ValueSet

\* And a leaf.
LEMMA LeafMade ==
    ASSUME NEW S, SizedSet(S), NEW objects, NEW x, Known(x, objects), Convertible(x)
    PROVE  SizedSet(S \cup {LeafOf(x)})
<1>1. PICK v, kind, n : v = LeafOf(x) /\ kind = KindOf(x.type) /\ n = IF x.type = "AuraHandle" THEN Wrapped(x.number) ELSE x.number
  OBVIOUS
<1>2. v = Leaf(kind, x.text, n)
  BY <1>1 DEF LeafOf
<1>3. kind \in LeafKinds /\ (kind \in {"string", "bytes"} => x.type \in {"string", "Uint8Array"})
  BY <1>1 DEF KindOf, Convertible, LeafKinds
<1>4. v.kind = kind /\ v.text = x.text /\ v.number = n /\ v.keys = <<>>
  BY <1>2 DEF Leaf
<1>5. IsLeaf(v)
  BY <1>2, <1>3, <1>4 DEF IsLeaf
<1>6. Sized(v)
  BY <1>3, <1>4, ListedEmpty DEF Sized, Known, Convertible
<1>7. S \subseteq S \cup {v} /\ Seq(S) \subseteq Seq(S \cup {v})
  <2>1. S \subseteq S \cup {v}
    OBVIOUS
  <2>2. QED
    BY <2>1, SeqMonotonic
<1>8. QED
  BY <1>1, <1>5, <1>6, <1>7 DEF SizedSet, ValueSet

-----------------------------------------------------------------------------
(* What each step of from_raw does to it *)

Making ==
    /\ \A object \in DOMAIN heap : ObjectAmong(heap[object], heap)
    /\ \A edit \in Edits : Len(edit.items) \in Nat /\ \A i \in 1..Len(edit.items) : Known(edit.items[i], heap)
    /\ pending # <<>> => Known(pending[1], heap)
    /\ \E S : /\ SizedSet(S)
              /\ StackMade(frames, S, IF pending = <<>> THEN 0 ELSE 1, heap)
              /\ converted # <<>> => converted = <<converted[1]>> /\ converted[1] \in S

LEMMA MakingStarts ==
    ASSUME NEW objects \in Scripts, InitScript(objects)
    PROVE  Making
<1>1. heap = objects /\ pending = <<Ref(<<>>)>> /\ frames = <<>> /\ converted = <<>>
  BY DEF InitScript
<1>2. Known(Ref(<<>>), objects)
  BY ObjectsAssumption DEF Ref, Known
<1>3. SizedSet({}) /\ StackMade(<<>>, {}, 1, objects)
  BY MadeEmpty DEF SizedSet, ValueSet
<1>4. QED
  BY <1>1, <1>2, <1>3, ObjectsAssumption DEF Making

LEMMA SameKnown ==
    ASSUME NEW objects, NEW others, DOMAIN objects = DOMAIN others
    PROVE  /\ \A x : Known(x, objects) <=> Known(x, others)
           /\ \A o : ObjectAmong(o, objects) <=> ObjectAmong(o, others)
           /\ \A stack, S, ahead : StackMade(stack, S, ahead, objects) <=> StackMade(stack, S, ahead, others)
<1>1. \A x : Known(x, objects) <=> Known(x, others)
  BY DEF Known
<1>2. \A o : ObjectAmong(o, objects) <=> ObjectAmong(o, others)
  BY <1>1 DEF ObjectAmong
<1>3. \A fr, S, ahead : FrameMade(fr, S, ahead, objects) <=> FrameMade(fr, S, ahead, others)
  BY <1>1 DEF FrameMade
<1>4. QED
  BY <1>1, <1>2, <1>3 DEF StackMade

\* The objects stay.
LEMMA MakingLeaf ==
    ASSUME Making, ConvertLeaf
    PROVE  Making'
<1>1. PICK S, h : /\ SizedSet(S) /\ h = heap
                  /\ StackMade(frames, S, IF pending = <<>> THEN 0 ELSE 1, h)
                  /\ converted # <<>> => converted = <<converted[1]>> /\ converted[1] \in S
  BY DEF Making
<1>2. PICK x, v, T : x = Source /\ v = LeafOf(x) /\ T = S \cup {v}
  OBVIOUS
<1>3. /\ pending # <<>> /\ Known(x, h) /\ Convertible(x) /\ Give(v, frames)
      /\ pending' = <<>> /\ heap' = h
  BY <1>1, <1>2 DEF ConvertLeaf, Receives, Source, Making, heapVars
<1>4. SizedSet(T) /\ v \in T /\ S \subseteq T
  BY <1>1, <1>2, <1>3, LeafMade
<1>5. StackMade(frames, T, 1, h)
  BY <1>1, <1>3, <1>4, MadeMore
<1>6. StackMade(frames', T, 0, h) /\ (converted' = converted \/ converted' = <<v>>)
  BY <1>3, <1>4, <1>5, GiveMakes
<1>7. converted' # <<>> => converted' = <<converted'[1]>> /\ converted'[1] \in T
  BY <1>1, <1>4, <1>6
<1>8. QED
  BY <1>1, <1>3, <1>4, <1>6, <1>7 DEF Making

LEMMA MakingEnter ==
    ASSUME Making, Enter
    PROVE  Making'
<1>1. PICK S, h : /\ SizedSet(S) /\ h = heap
                  /\ StackMade(frames, S, IF pending = <<>> THEN 0 ELSE 1, h)
                  /\ converted # <<>> => converted = <<converted[1]>> /\ converted[1] \in S
  BY DEF Making
<1>2. PICK o, now, t, k, n : o = Source.object /\ now = h[o] /\ t = now.type /\ k = now.keys /\ n = Len(now.items)
  OBVIOUS
<1>3. PICK items : items = IF t = "map" THEN now.items ELSE <<>>
  OBVIOUS
<1>4. PICK fr : fr = Frame(o, t, n, k, items, <<>>, <<>>)
  OBVIOUS
<1>5. /\ frames' = Append(frames, fr) /\ pending # <<>> /\ pending' = <<>> /\ heap' = h /\ converted' = converted
      /\ Source.type = "object"
  BY <1>1, <1>2, <1>3, <1>4 DEF Enter, Receives, heapVars, Frame
<1>6. o \in DOMAIN h /\ ObjectAmong(now, h)
  BY <1>1, <1>2, <1>5 DEF Making, Source, Known
<1>7. /\ fr.object = o /\ fr.type = t /\ fr.length = n /\ fr.keys = k /\ fr.items = items
      /\ fr.gotKeys = <<>> /\ fr.got = <<>>
      /\ fr = Frame(fr.object, fr.type, fr.length, fr.keys, fr.items, fr.gotKeys, fr.got)
  BY <1>4 DEF Frame
<1>8. FrameMade(fr, S, 0, h)
  <2>1. Listed(<<>>) /\ Len(<<>>) = 0 /\ \A j \in 1..Len(<<>>) : FALSE
    BY ListedEmpty
  <2>2. t = "map" => \A j \in 1..n : Known(k[j], h) /\ Known(items[j], h)
    BY <1>2, <1>3, <1>6 DEF ObjectAmong
  <2>3. Len(<<>>) = IF t = "map" THEN Len(<<>>) + 0 ELSE 0
    BY <2>1
  <2>4. n \in Nat /\ t \in Containers
    BY <1>2, <1>6 DEF ObjectAmong
  <2>5. QED
    BY <1>6, <1>7, <2>1, <2>2, <2>3, <2>4 DEF FrameMade
<1>9. StackMade(frames', S, 0, h)
  BY <1>1, <1>5, <1>8, MadePush
<1>10. QED
  BY <1>1, <1>5, <1>9 DEF Making

\* The innermost container has another entry.
LEMMA MoreEntries ==
    ASSUME NEW S, NEW objects, StackMade(frames, S, 0, objects), Loops, More
    PROVE  /\ FrameMade(Top(frames), S, 0, objects)
           /\ Len(Top(frames).got) + 1 \in 1..Top(frames).length
<1>1. FrameMade(Top(frames), S, 0, objects)
  BY MadePop DEF Loops
<1>2. Len(Top(frames).got) \in Nat
  BY <1>1, ListedAppend DEF FrameMade
<1>3. Top(frames).length \in Nat /\ Len(Top(frames).got) < Top(frames).length
  BY <1>1 DEF FrameMade, More
<1>4. QED
  BY <1>1, <1>2, <1>3

LEMMA MakingElement ==
    ASSUME Making, NextElement
    PROVE  Making'
<1>1. PICK S, h : /\ SizedSet(S) /\ h = heap
                  /\ StackMade(frames, S, IF pending = <<>> THEN 0 ELSE 1, h)
                  /\ converted # <<>> => converted = <<converted[1]>> /\ converted[1] \in S
  BY DEF Making
<1>2. PICK fr, items, index : fr = Top(frames) /\ items = h[fr.object].items /\ index = Len(fr.got) + 1
  OBVIOUS
<1>3. PICK x : x = IF index <= Len(items) THEN items[index] ELSE Undefined
  OBVIOUS
<1>4. /\ Loops /\ More /\ pending = <<>> /\ pending' = <<x>> /\ fr.type = "array" /\ frames' = frames
      /\ heap' = h /\ converted' = converted
  BY <1>1, <1>2, <1>3 DEF NextElement, Loops, heapVars
<1>5. FrameMade(fr, S, 0, h) /\ index \in 1..fr.length
  BY <1>1, <1>2, <1>4, MoreEntries
<1>6. Known(x, h)
  <2>1. Known(Undefined, h)
    BY DEF Known, Undefined, Immediate
  <2>2. ObjectAmong(h[fr.object], h)
    BY <1>1, <1>5 DEF Making, FrameMade
  <2>3. fr.length \in Nat /\ Len(items) \in Nat
    BY <1>2, <1>5, <2>2 DEF FrameMade, ObjectAmong
  <2>4. index <= Len(items) => Known(items[index], h)
    BY <1>2, <1>5, <2>2, <2>3 DEF ObjectAmong
  <2>5. QED
    BY <1>3, <2>1, <2>4
<1>7. FrameMade(fr, S, 1, h)
  BY <1>4, <1>5 DEF FrameMade
<1>8. StackMade(frames, S, 1, h)
  BY <1>1, <1>2, <1>4, <1>7 DEF StackMade
<1>9. QED
  BY <1>1, <1>4, <1>6, <1>8 DEF Making

LEMMA MakingEntry ==
    ASSUME Making, NextEntry
    PROVE  Making'
<1>1. PICK S, h : /\ SizedSet(S) /\ h = heap
                  /\ StackMade(frames, S, IF pending = <<>> THEN 0 ELSE 1, h)
                  /\ converted # <<>> => converted = <<converted[1]>> /\ converted[1] \in S
  BY DEF Making
<1>2. PICK fr, index, entry, key, g : /\ fr = Top(frames) /\ index = Len(fr.got) + 1
                                      /\ entry = fr.keys[index] /\ key = entry.text /\ g = WithKey(fr, key)
  OBVIOUS
<1>3. /\ Loops /\ More /\ pending = <<>> /\ pending' = <<fr.items[index]>> /\ fr.type = "map" /\ entry.type = "string"
      /\ Convertible(entry) /\ heap' = h /\ converted' = converted /\ frames # <<>>
      /\ frames' = [frames EXCEPT ![Len(frames)] = g]
  BY <1>1, <1>2 DEF NextEntry, Loops, EntryKey, heapVars, WithKey, Top
<1>4. FrameMade(fr, S, 0, h) /\ index \in 1..fr.length
  BY <1>1, <1>2, <1>3, MoreEntries
<1>5. Known(entry, h) /\ Known(fr.items[index], h)
  BY <1>2, <1>3, <1>4 DEF FrameMade
<1>6. key \in DOMAIN TextSize
  BY <1>2, <1>3, <1>5 DEF Known, Convertible
<1>7. FrameMade(g, S, 1, h)
  BY <1>2, <1>3, <1>4, <1>6, FrameTakesKey
<1>8. Replaced(frames, g, frames')
  BY <1>1, <1>3, Replacing, Zenon DEF StackMade
<1>9. StackMade(frames', S, 1, h)
  BY <1>1, <1>3, <1>7, <1>8, MadeTurn
<1>10. QED
  BY <1>1, <1>3, <1>5, <1>9 DEF Making

LEMMA MakingLeave ==
    ASSUME Making, Leave
    PROVE  Making'
<1>1. PICK S, h : /\ SizedSet(S) /\ h = heap
                  /\ StackMade(frames, S, IF pending = <<>> THEN 0 ELSE 1, h)
                  /\ converted # <<>> => converted = <<converted[1]>> /\ converted[1] \in S
  BY DEF Making
<1>2. PICK fr, around, v, T : /\ fr = Top(frames) /\ around = Rest(frames)
                              /\ v = Container(fr.type, fr.gotKeys, fr.got) /\ T = S \cup {v}
  OBVIOUS
<1>3. Loops /\ pending = <<>> /\ pending' = <<>> /\ heap' = h /\ Give(v, around) /\ frames # <<>>
  BY <1>1, <1>2 DEF Leave, Loops, heapVars
<1>4. StackMade(around, S, 1, h) /\ FrameMade(fr, S, 0, h)
  BY <1>1, <1>2, <1>3, MadePop
<1>5. SizedSet(T) /\ v \in T /\ S \subseteq T
  BY <1>1, <1>2, <1>4, ContainerMade
<1>6. StackMade(around, T, 1, h)
  BY <1>4, <1>5, MadeMore
<1>7. StackMade(frames', T, 0, h) /\ (converted' = converted \/ converted' = <<v>>)
  BY <1>3, <1>5, <1>6, GiveMakes
<1>8. converted' # <<>> => converted' = <<converted'[1]>> /\ converted'[1] \in T
  BY <1>1, <1>5, <1>7
<1>9. QED
  BY <1>1, <1>3, <1>5, <1>7, <1>8 DEF Making

LEMMA MakingChanges ==
    ASSUME Making, PayloadChanges
    PROVE  Making'
<1>1. PICK edit \in Edits : /\ edit.object \in DOMAIN heap
                            /\ heap[edit.object].type = "array"
                            /\ heap' = [heap EXCEPT ![edit.object].items = edit.items]
  BY DEF PayloadChanges
<1>2. UNCHANGED <<pending, frames, converted>>
  BY DEF PayloadChanges
<1>3. PICK h, g, o, was, now : /\ h = heap /\ g = heap' /\ o = edit.object /\ was = h[o]
                               /\ now = [was EXCEPT !.items = edit.items]
  OBVIOUS
<1>4. g = [h EXCEPT ![o] = now]
  BY <1>1, <1>3
<1>5. DOMAIN g = DOMAIN h /\ g[o] = now /\ \A p \in DOMAIN h : p # o => g[p] = h[p]
  BY <1>1, <1>3, <1>4
<1>6. ObjectAmong(was, h) /\ Len(edit.items) \in Nat /\ \A i \in 1..Len(edit.items) : Known(edit.items[i], h)
  BY <1>1, <1>3 DEF Making
<1>7. /\ now.type = was.type /\ now.keys = was.keys /\ now.items = edit.items
      /\ now = [type |-> now.type, keys |-> now.keys, items |-> now.items, live |-> now.live]
  <2>1. PICK t, k, i, l : was = [type |-> t, keys |-> k, items |-> i, live |-> l]
    BY <1>6 DEF ObjectAmong
  <2>2. now = [type |-> t, keys |-> k, items |-> edit.items, live |-> l]
    BY <1>3, <2>1
  <2>3. QED
    BY <2>1, <2>2
<1>8. ObjectAmong(now, h)
  BY <1>1, <1>3, <1>6, <1>7 DEF ObjectAmong
<1>9. \A object \in DOMAIN g : ObjectAmong(g[object], g)
  <2>1. \A object \in DOMAIN g : ObjectAmong(g[object], h)
    BY <1>3, <1>5, <1>8 DEF Making
  <2>2. QED
    BY <1>5, <2>1, SameKnown
<1>10. \A e \in Edits : Len(e.items) \in Nat /\ \A i \in 1..Len(e.items) : Known(e.items[i], g)
  BY <1>3, <1>5, SameKnown DEF Making
<1>11. pending # <<>> => Known(pending[1], g)
  BY <1>3, <1>5, SameKnown DEF Making
<1>12. PICK S : /\ SizedSet(S)
                /\ StackMade(frames, S, IF pending = <<>> THEN 0 ELSE 1, h)
                /\ converted # <<>> => converted = <<converted[1]>> /\ converted[1] \in S
  BY <1>3 DEF Making
<1>13. StackMade(frames, S, IF pending = <<>> THEN 0 ELSE 1, g)
  BY <1>5, <1>12, SameKnown
<1>14. QED
  BY <1>2, <1>3, <1>9, <1>10, <1>11, <1>12, <1>13 DEF Making

\* The value made goes to the encoder.
LEMMA MakingEnds ==
    ASSUME Making, Converted
    PROVE  Going'
<1>1. PICK S : SizedSet(S) /\ (converted # <<>> => converted = <<converted[1]>> /\ converted[1] \in S)
  BY DEF Making
<1>2. PICK root : root = converted
  OBVIOUS
<1>3. /\ root = <<root[1]>> /\ root[1] \in S /\ given' = root /\ call' = root
      /\ work' = <<>> /\ out' = <<>> /\ count' = 0 /\ content' = 0
  BY <1>1, <1>2 DEF Converted
<1>4. EState' = Start(root)
  <2>1. EState' = EncoderAt(call', work', Len(out'), count', content')
    BY DEF EState
  <2>2. QED
    BY <1>3, <2>1, ListedEmpty DEF Start
<1>5. Listed(out')
  BY <1>3, ListedEmpty
<1>6. Sound(EState', given') /\ Measured(EState', given'[1]) /\ Within(EState', S)
  BY <1>1, <1>3, <1>4, StartGoes
<1>7. QED
  BY <1>1, <1>5, <1>6 DEF Going, Listed

LEMMA MakingOn ==
    ASSUME Making, phase = "script", Convert
    PROVE  /\ phase' \in {"script", "script refused", "encode"}
           /\ phase' = "script" => Making'
           /\ phase' = "encode" => Going'
<1>1. CASE ConvertLeaf \/ Enter \/ NextElement \/ NextEntry \/ Leave \/ PayloadChanges
  <2>1. phase' = phase
    BY <1>1 DEF ConvertLeaf, Enter, NextElement, NextEntry, Leave, PayloadChanges, vars
  <2>2. QED
    BY <1>1, <2>1, MakingLeaf, MakingEnter, MakingElement, MakingEntry, MakingLeave, MakingChanges
<1>2. CASE Refuse \/ PayloadThrows
  BY <1>2 DEF Refuse, PayloadThrows
<1>3. CASE Converted
  <2>1. phase' = "encode"
    BY <1>3 DEF Converted
  <2>2. QED
    BY <1>3, <2>1, MakingEnds
<1>4. QED
  BY <1>1, <1>2, <1>3 DEF Convert, HandOver

-----------------------------------------------------------------------------
(* Values of all three origins *)

LimitsInv ==
    /\ origin \in {"value", "wire", "script"}
    /\ origin = "script" => phase \in {"script", "script refused", "encode", "encoder refused", "done"}
    /\ phase = "encode" /\ (origin = "value" \/ (origin = "script" /\ handed = <<>>)) => Going
    /\ phase = "decode" /\ origin = "wire" => Counted
    /\ phase = "script" /\ handed = <<>> => Making
    /\ phase = "encoder refused" => ~ WithinLimits(given[1])
    /\ phase \in {"decode", "done"} /\ origin = "value" => WithinLimits(given[1])
    /\ phase # "decode" /\ result # <<>> => WithinLimits(result[1])

LEMMA LimitsInit == ScriptInit => LimitsInv
<1>1. ASSUME NEW v \in LocalValues, InitValue(v), InitRest PROVE LimitsInv
  <2>1. SizedSet(LocalValues)
    BY ValuesAssumption, TextsAssumption DEF SizedSet
  <2>2. Going
    BY <1>1, <2>1, GoingStarts
  <2>3. QED
    BY <1>1, <2>2 DEF InitValue, InitRest, LimitsInv
<1>2. ASSUME NEW tokens \in Openings, InitWire(tokens), InitRest PROVE LimitsInv
  <2>1. Counted
    BY <1>2, CountedStarts
  <2>2. QED
    BY <1>2, <2>1 DEF InitWire, InitRest, LimitsInv
<1>3. ASSUME NEW objects \in Scripts, InitScript(objects) PROVE LimitsInv
  <2>1. Making
    BY <1>3, MakingStarts
  <2>2. QED
    BY <1>3, <2>1 DEF InitScript, InitRest, LimitsInv
<1>4. QED
  BY <1>1, <1>2, <1>3 DEF ScriptInit, Init

\* What was read so far.
LEMMA ReadIsWithin ==
    ASSUME ValuesInv, LimitsInv, result # <<>>
    PROVE  WithinLimits(result[1])
<1>1. CASE phase # "decode"
  BY <1>1 DEF LimitsInv
<1>2. CASE phase = "decode" /\ origin = "value"
  <2>1. \E e : InStep(e, given)
    BY <1>2 DEF ValuesInv, RoundTripInv
  <2>2. result = given
    BY <2>1 DEF InStep
  <2>3. QED
    BY <1>2, <2>2 DEF LimitsInv
<1>3. CASE phase = "decode" /\ origin = "wire"
  <2>1. open = <<>> /\ result = <<result[1]>>
    BY <1>3 DEF ValuesInv, CanonicalInv
  <2>2. QED
    BY <1>3, <2>1, CountedWhole DEF LimitsInv
<1>4. QED
  BY <1>1, <1>2, <1>3 DEF LimitsInv

\* Encoding goes on, or is over.
LEMMA LimitsEncoded ==
    ASSUME LimitsInv, ValuesInv', HandedInv', phase = "encode", Encode, Next, UNCHANGED scriptVars
    PROVE  LimitsInv'
<1>1. origin' = origin /\ given' = given /\ result' = result /\ handed' = handed
  BY NextKeeps DEF scriptVars
<1>2. phase' \in {"encode", "encoder refused", "decode", "done"} /\ (origin # "value" => phase' # "decode")
  BY NextKeeps
  DEF Encode, EncodeLeaf, EncodeContainer, EncodeItem, EncodeEntry, EncodeLeave, EncodeRefuse, Encoded
<1>3. result # <<>> => WithinLimits(result[1])
  BY DEF LimitsInv
<1>4. CASE origin = "value" \/ (origin = "script" /\ handed = <<>>)
  <2>1. Going
    BY <1>4 DEF LimitsInv
  <2>2. /\ phase' = "encode" => Going'
        /\ phase' = "encoder refused" => ~ WithinLimits(given[1])
        /\ phase' \in {"decode", "done"} => WithinLimits(given[1])
    BY <2>1, GoingOn
  <2>3. QED
    BY <1>1, <1>2, <1>3, <1>4, <2>2 DEF LimitsInv
<1>5. CASE origin = "wire"
  <2>1. phase' # "encoder refused"
    BY <1>1, <1>5 DEF ValuesInv, CanonicalInv
  <2>2. QED
    BY <1>1, <1>2, <1>3, <1>5, <2>1 DEF LimitsInv
<1>6. CASE origin = "script" /\ handed # <<>>
  <2>1. phase' # "encoder refused"
    BY <1>1, <1>6 DEF HandedInv, HandedOn
  <2>2. QED
    BY <1>1, <1>2, <1>3, <1>6, <2>1 DEF LimitsInv
<1>7. QED
  BY <1>4, <1>5, <1>6 DEF LimitsInv

\* And decoding.
LEMMA LimitsDecoded ==
    ASSUME LimitsInv, ValuesInv, phase = "decode", Decode, Next, UNCHANGED scriptVars
    PROVE  LimitsInv'
<1>1. origin' = origin /\ origin \in {"value", "wire"}
  BY NextKeeps DEF LimitsInv
<1>2. result # <<>> => WithinLimits(result[1])
  BY ReadIsWithin
<1>3. CASE phase' = "decode"
  <2>1. origin = "wire" => Counted'
    BY <1>3, CountedOn DEF LimitsInv, ValuesInv
  <2>2. origin = "value" => given' = given /\ WithinLimits(given[1])
    BY NextKeeps DEF LimitsInv
  <2>3. QED
    BY <1>1, <1>3, <2>1, <2>2 DEF LimitsInv
<1>4. CASE DecodeRefuse
  BY <1>1, <1>2, <1>4 DEF DecodeRefuse, decoderVars, LimitsInv
<1>5. CASE Decoded
  <2>1. /\ result' = result
        /\ origin = "wire" => phase' = "encode"
        /\ origin = "value" => phase' = "done" /\ given' = given /\ WithinLimits(given[1])
    BY <1>5, NextKeeps DEF Decoded, decoderVars, LimitsInv
  <2>2. QED
    BY <1>1, <1>2, <2>1 DEF LimitsInv
<1>6. QED
  BY <1>3, <1>4, <1>5, NextKeeps

\* What is handed over is a value.
LEMMA HandedIsThere ==
    ASSUME ValuesInv, HandedInv, HandOver
    PROVE  handed' # <<>>
<1>1. phase = "done" /\ origin \in {"value", "wire"} /\ handed' = result
  BY DEF HandOver
<1>2. CASE origin = "value"
  <2>1. result = <<given[1]>>
    BY <1>1, <1>2 DEF ValuesInv, RoundTripInv
  <2>2. QED
    BY <1>1, <2>1
<1>3. CASE origin = "wire"
  <2>1. Written(result, wire)
    BY <1>1, <1>3 DEF HandedInv, WireReady
  <2>2. result = <<result[1]>>
    BY <2>1 DEF Written, Road, Sound
  <2>3. QED
    BY <1>1, <2>2
<1>4. QED
  BY <1>1, <1>2, <1>3

LEMMA LimitsHandedOver ==
    ASSUME LimitsInv, ValuesInv, HandedInv, HandOver
    PROVE  LimitsInv'
<1>1. /\ phase = "done" /\ origin \in {"value", "wire"} /\ handed' = result /\ result' = result
      /\ origin' = "script" /\ phase' = "script"
  BY DEF HandOver, decoderVars
<1>2. result # <<>>
  BY <1>1, HandedIsThere
<1>3. WithinLimits(result[1])
  BY <1>1, <1>2 DEF LimitsInv
<1>4. QED
  BY <1>1, <1>2, <1>3 DEF LimitsInv

LEMMA LimitsConverted ==
    ASSUME LimitsInv, ValuesInv, HandedInv', Convert, ~ HandOver
    PROVE  LimitsInv'
<1>1. phase = "script"
  BY DEF Convert, ConvertLeaf, Enter, NextElement, NextEntry, Leave, Refuse, Refused, PayloadChanges, PayloadThrows,
         LooksAt, Converted, Receives, Loops
<1>2. origin = "script"
  BY <1>1 DEF LimitsInv, ValuesInv, RoundTripInv, CanonicalInv
<1>3. origin' = origin /\ handed' = handed /\ result' = result
  BY DEF Convert, ConvertLeaf, Enter, NextElement, NextEntry, Leave, Refuse, PayloadChanges, PayloadThrows, Converted,
         vars, scriptVars, decoderVars
<1>4. result # <<>> => WithinLimits(result[1])
  BY <1>1 DEF LimitsInv
<1>5. CASE handed = <<>>
  <2>1. Making
    BY <1>1, <1>5 DEF LimitsInv
  <2>2. /\ phase' \in {"script", "script refused", "encode"}
        /\ phase' = "script" => Making'
        /\ phase' = "encode" => Going'
    BY <1>1, <2>1, MakingOn
  <2>3. QED
    BY <1>2, <1>3, <1>4, <2>2 DEF LimitsInv
<1>6. CASE handed # <<>>
  <2>1. phase' \in {"script", "encode", "done"}
    BY <1>3, <1>6 DEF HandedInv, HandedOn
  <2>2. QED
    BY <1>2, <1>3, <1>4, <1>6, <2>1 DEF LimitsInv
<1>7. QED
  BY <1>5, <1>6

LEMMA LimitsNext ==
    ValuesInv /\ PathsAreSimple /\ HandedInv /\ LimitsInv /\ [ScriptNext]_scriptAndValueVars => LimitsInv'
<1> SUFFICES ASSUME ValuesInv, PathsAreSimple, HandedInv, LimitsInv, [ScriptNext]_scriptAndValueVars
             PROVE  LimitsInv'
  OBVIOUS
<1>1. ValuesInv' /\ HandedInv'
  BY ValuesNext, HandedNext
<1>2. CASE UNCHANGED scriptAndValueVars
  <2>1. /\ origin' = origin /\ phase' = phase /\ given' = given /\ call' = call /\ work' = work /\ out' = out
        /\ wire' = wire /\ offset' = offset /\ open' = open /\ result' = result /\ count' = count /\ content' = content
        /\ heap' = heap /\ pending' = pending /\ frames' = frames /\ converted' = converted /\ handed' = handed
    BY <1>2 DEF scriptAndValueVars, scriptVars, heapVars, vars, encoderVars, decoderVars, counters
  <2>2. (Going' <=> Going) /\ (Counted' <=> Counted) /\ (Making' <=> Making)
    <3>1. EState' = EState
      BY <2>1 DEF EState
    <3>2. Counted' <=> Counted
      BY <2>1 DEF Counted, InStep
    <3>3. Making' <=> Making
      BY <2>1 DEF Making
    <3>4. Going' <=> Going
      BY <2>1, <3>1 DEF Going, Listed
    <3>5. QED
      BY <3>2, <3>3, <3>4
  <2>3. QED
    BY <2>1, <2>2 DEF LimitsInv
<1>3. CASE Next /\ UNCHANGED scriptVars
  BY <1>1, <1>3, NextPhases, LimitsEncoded, LimitsDecoded
<1>4. CASE HandOver
  BY <1>4, LimitsHandedOver
<1>5. CASE Convert /\ ~ HandOver
  BY <1>1, <1>5, LimitsConverted
<1>6. QED
  BY <1>2, <1>3, <1>4, <1>5 DEF ScriptNext

(* Whatever the limits are, and wherever a value comes from, to_wire       *)
(* refuses exactly the values that are over a limit as a whole, and        *)
(* from_wire returns none that is: the counters, which go up along the     *)
(* recursion, are at each moment the values and the bytes behind it.       *)
THEOREM LimitsAreExact == ScriptSpec => []LimitsExact
<1>1. ValuesInv /\ LimitsInv => LimitsExact
  BY ReadIsWithin DEF LimitsInv, LimitsExact
<1>2. ScriptInit => ValuesInv /\ HandedInv /\ LimitsInv
  BY ValuesInit, HandedInit, LimitsInit
<1>3. QED
  BY <1>1, <1>2, ValuesNext, HandedNext, LimitsNext, PathsSimple, PTL DEF ScriptSpec

-----------------------------------------------------------------------------
(* What a payload's objects unfold to *)

\* b says what a says.
Extends(a, b) == DOMAIN a \subseteq DOMAIN b /\ \A o \in DOMAIN a : a[o] = b[o]

IsMap(f) == f = [o \in DOMAIN f |-> f[o]]

LEMMA WrapExtends ==
    ASSUME NEW a, NEW b, Extends(a, b), NEW objects
    PROVE  Extends(Wrap(a, objects), Wrap(b, objects))
<1>1. ASSUME NEW o, Ready(o, a) PROVE Ready(o, b) /\ ValueOf(o, a) = ValueOf(o, b)
  <2>1. Ready(o, b)
    BY <1>1 DEF Ready, Extends
  <2>2. PICK f, g : /\ f = [i \in 1..Len(o.items) |->
                              IF o.items[i].type = "object" THEN a[o.items[i].object] ELSE LeafOf(o.items[i])]
                    /\ g = [i \in 1..Len(o.items) |->
                              IF o.items[i].type = "object" THEN b[o.items[i].object] ELSE LeafOf(o.items[i])]
    OBVIOUS
  <2>3. ASSUME NEW i \in 1..Len(o.items) PROVE f[i] = g[i]
    <3>1. o.items[i].type = "object" => a[o.items[i].object] = b[o.items[i].object]
      BY <1>1 DEF Ready, Extends
    <3>2. QED
      BY <2>2, <3>1
  <2>4. f = g
    BY <2>2, <2>3
  <2>5. QED
    BY <2>1, <2>2, <2>4 DEF ValueOf
<1>2. QED
  BY <1>1 DEF Extends, Wrap

\* The levels, up to the n-th.
Levels(f, n, objects) == f = [m \in 0..n |-> IF m = 0 THEN [o \in {} |-> o] ELSE Wrap(f[m - 1], objects)]

LEMMA LevelsExist ==
    ASSUME NEW objects, NEW n \in Nat
    PROVE  \E f : Levels(f, n, objects)
<1> DEFINE Reached == {m \in Nat : \E f : Levels(f, m, objects)}
<1>1. 0 \in Reached
  <2> DEFINE g == [m \in 0..0 |-> [o \in {} |-> o]]
  <2>1. Levels(g, 0, objects)
    BY DEF Levels
  <2>2. QED
    BY <2>1
<1>2. ASSUME NEW k \in Nat, k \in Reached PROVE k + 1 \in Reached
  <2>1. PICK f : Levels(f, k, objects)
    BY <1>2
  <2>2. PICK g : g = [m \in 0..(k + 1) |-> IF m = k + 1 THEN Wrap(f[k], objects) ELSE f[m]]
    OBVIOUS
  <2>3. \A m \in 0..k : f[m] = IF m = 0 THEN [o \in {} |-> o] ELSE Wrap(f[m - 1], objects)
    BY <2>1 DEF Levels
  <2>4. ASSUME NEW m \in 0..(k + 1)
        PROVE  g[m] = IF m = 0 THEN [o \in {} |-> o] ELSE Wrap(g[m - 1], objects)
    <3>1. CASE m = k + 1
      <4>1. g[m] = Wrap(f[k], objects) /\ g[k] = f[k] /\ m - 1 = k /\ m # 0
        BY <2>2, <3>1
      <4>2. QED
        BY <4>1
    <3>2. CASE m \in 1..k
      <4>1. g[m] = f[m] /\ g[m - 1] = f[m - 1] /\ m \in 0..k /\ m # 0
        BY <2>2, <3>2
      <4>2. QED
        BY <2>3, <4>1
    <3>3. CASE m = 0
      <4>1. g[m] = f[m] /\ m \in 0..k
        BY <2>2, <3>3
      <4>2. QED
        BY <2>3, <3>3, <4>1
    <3>4. QED
      BY <3>1, <3>2, <3>3
  <2>5. g = [m \in 0..(k + 1) |-> g[m]]
    BY <2>2
  <2>6. Levels(g, k + 1, objects)
    BY <2>4, <2>5 DEF Levels
  <2>7. QED
    BY <2>6
<1> HIDE DEF Reached
<1>3. Nat \subseteq Reached
  BY <1>1, <1>2, Counting
<1>4. QED
  BY <1>3 DEF Reached

\* Once every object that can have a value has one, wrapping adds nothing.
LEMMA UnfoldingWraps ==
    ASSUME NEW objects, IsFiniteSet(DOMAIN objects)
    PROVE  Unfolding(objects) = Wrap(Unfolding(objects), objects)
<1> DEFINE N == Cardinality(DOMAIN objects)
           level == CHOOSE f : f = [n \in 0..N |-> IF n = 0 THEN [o \in {} |-> o] ELSE Wrap(f[n - 1], objects)]
<1>1. N \in Nat
  BY FS_CardinalityType
<1>2. Levels(level, N, objects)
  <2>1. \E f : f = [n \in 0..N |-> IF n = 0 THEN [o \in {} |-> o] ELSE Wrap(f[n - 1], objects)]
    BY <1>1, LevelsExist, Zenon DEF Levels
  <2>2. QED
    BY <2>1, Zenon DEF Levels
<1>3. Unfolding(objects) = level[N]
  BY Zenon DEF Unfolding
<1> HIDE DEF level
<1>4. /\ level[0] = [o \in {} |-> o]
      /\ \A n \in 1..N : level[n] = Wrap(level[n - 1], objects)
  BY <1>1, <1>2 DEF Levels
<1> DEFINE Wider == {n \in Nat : n <= N => Extends(level[n], Wrap(level[n], objects))}
<1>5. Nat \subseteq Wider
  <2>1. 0 \in Wider
    BY <1>4 DEF Extends
  <2>2. ASSUME NEW n \in Nat, n \in Wider PROVE n + 1 \in Wider
    <3>1. CASE n + 1 <= N
      <4>1. Extends(level[n], Wrap(level[n], objects)) /\ n + 1 \in 1..N /\ n + 1 - 1 = n
        BY <1>1, <2>2, <3>1
      <4>2. level[n + 1] = Wrap(level[n], objects)
        BY <1>4, <4>1
      <4>3. Extends(level[n + 1], Wrap(level[n + 1], objects))
        BY <4>1, <4>2, WrapExtends
      <4>4. QED
        BY <4>3
    <3>2. QED
      BY <3>1
  <2> HIDE DEF Wider
  <2>3. QED
    BY <2>1, <2>2, Counting
<1>6. \A n \in 0..N : IsMap(level[n]) /\ DOMAIN level[n] \subseteq DOMAIN objects
  <2>1. ASSUME NEW n \in 0..N PROVE IsMap(level[n]) /\ DOMAIN level[n] \subseteq DOMAIN objects
    <3>1. CASE n = 0
      BY <1>4, <3>1 DEF IsMap
    <3>2. CASE n \in 1..N
      BY <1>4, <3>2 DEF IsMap, Wrap
    <3>3. QED
      BY <1>1, <3>1, <3>2
  <2>2. QED
    BY <2>1
<1> DEFINE Large == {n \in Nat : n <= N => n <= Cardinality(DOMAIN level[n]) \/ level[n] = Wrap(level[n], objects)}
<1>7. \A n \in 0..N : IsFiniteSet(DOMAIN level[n]) /\ Cardinality(DOMAIN level[n]) \in 0..N
  BY <1>1, <1>6, FS_Subset, FS_CardinalityType
<1>8. Nat \subseteq Large
  <2>1. 0 \in Large
    BY <1>1, <1>7
  <2>2. ASSUME NEW n \in Nat, n \in Large PROVE n + 1 \in Large
    <3>1. CASE n + 1 <= N
      <4>1. n \in 0..N /\ n + 1 \in 0..N /\ n + 1 \in 1..N /\ n + 1 - 1 = n
        BY <1>1, <3>1
      <4>2. PICK a, b : a = level[n] /\ b = level[n + 1]
        OBVIOUS
      <4>3. b = Wrap(a, objects) /\ Extends(a, b)
        BY <1>4, <1>5, <4>1, <4>2
      <4>4. CASE a = Wrap(a, objects)
        <5>1. level[n + 1] = a
          BY <4>2, <4>3, <4>4
        <5>2. level[n + 1] = Wrap(level[n + 1], objects)
          BY <4>4, <5>1
        <5>3. QED
          BY <5>2
      <4>5. CASE n <= Cardinality(DOMAIN a) /\ a # b
        <5>1. IsMap(a) /\ IsMap(b) /\ DOMAIN a \subseteq DOMAIN b /\ \A o \in DOMAIN a : a[o] = b[o]
          BY <1>6, <4>1, <4>2, <4>3 DEF Extends
        <5>2. DOMAIN a # DOMAIN b
          BY <4>5, <5>1 DEF IsMap
        <5>3. /\ IsFiniteSet(DOMAIN b) /\ DOMAIN a \in SUBSET DOMAIN b
              /\ Cardinality(DOMAIN a) \in Nat /\ Cardinality(DOMAIN b) \in Nat
          BY <1>1, <1>7, <4>1, <4>2, <5>1
        <5>4. Cardinality(DOMAIN a) <= Cardinality(DOMAIN b) /\ Cardinality(DOMAIN a) # Cardinality(DOMAIN b)
          BY <5>2, <5>3, FS_Subset
        <5>5. n + 1 <= Cardinality(DOMAIN b)
          BY <4>5, <5>3, <5>4
        <5>6. QED
          BY <4>2, <5>5
      <4>6. n <= Cardinality(DOMAIN a) \/ a = Wrap(a, objects)
        BY <2>2, <4>1, <4>2
      <4>7. a = b => a = Wrap(a, objects)
        BY <4>3
      <4>8. QED
        BY <4>4, <4>5, <4>6, <4>7
    <3>2. QED
      BY <3>1
  <2> HIDE DEF Large
  <2>3. QED
    BY <2>1, <2>2, Counting
<1>9. PICK u, w : u = level[N] /\ w = Wrap(u, objects)
  OBVIOUS
<1>10. /\ Extends(u, w) /\ IsMap(u) /\ IsMap(w) /\ DOMAIN u \subseteq DOMAIN objects /\ DOMAIN w \subseteq DOMAIN objects
  <2>1. N \in 0..N /\ N <= N
    BY <1>1
  <2>2. Extends(u, w)
    BY <1>1, <1>5, <1>9, <2>1
  <2>3. IsMap(w) /\ DOMAIN w \subseteq DOMAIN objects
    BY <1>9 DEF IsMap, Wrap
  <2>4. QED
    BY <1>6, <1>9, <2>1, <2>2, <2>3
<1>11. u = w
  <2>1. CASE N <= Cardinality(DOMAIN u)
    <3>1. DOMAIN u = DOMAIN objects
      <4>1. Cardinality(DOMAIN u) \in Nat
        BY <1>1, <1>7, <1>9
      <4>2. QED
        BY <1>1, <1>10, <2>1, <4>1, FS_Subset
    <3>2. DOMAIN w = DOMAIN u
      BY <1>10, <3>1 DEF Extends
    <3>3. QED
      BY <1>10, <3>2 DEF IsMap, Extends
  <2>2. QED
    BY <1>1, <1>8, <1>9, <2>1
<1>12. QED
  BY <1>3, <1>9, <1>11

-----------------------------------------------------------------------------
(* What objects contain *)

LEMMA ContainsNext ==
    ASSUME NEW objects, NEW o, NEW p, NEW q \in DOMAIN objects, RefersTo(p, q, objects),
           p = o \/ (p \in DOMAIN objects /\ Contains(o, p, objects))
    PROVE  Contains(o, q, objects)
<1> SUFFICES ASSUME NEW S \in SUBSET DOMAIN objects,
                    \A r \in S \cup {o}, t \in DOMAIN objects : RefersTo(r, t, objects) => t \in S
             PROVE  q \in S
  BY DEF Contains
<1>1. p \in S \cup {o}
  BY DEF Contains
<1>2. QED
  BY <1>1

LEMMA ReachableNext ==
    ASSUME NEW objects, NEW p \in Reachable(objects), NEW q \in DOMAIN objects, RefersTo(p, q, objects)
    PROVE  q \in Reachable(objects)
  BY ContainsNext DEF Reachable

-----------------------------------------------------------------------------
(* The containers from_raw is in, when nothing changes the objects *)

\* x is made into v.
UnfoldsTo(x, v, objects) ==
    IF x.type = "object" THEN x.object \in DOMAIN Unfolding(objects) /\ v = Unfolding(objects)[x.object]
    ELSE Convertible(x) /\ v = LeafOf(x)

\* The item whose value comes next.
Awaited(fr, objects) == objects[fr.object].items[Len(fr.got) + 1]

\* What was got is what the items are made into; so many more are there.
FrameUnfolds(fr, ahead, objects) ==
    LET o == objects[fr.object]
    IN  /\ fr.length = Len(o.items) /\ fr.length <= MaxContainer /\ fr.type = o.type /\ fr.keys = o.keys
        /\ fr.type = "map" => fr.items = o.items
        /\ Len(fr.got) + ahead <= fr.length
        /\ \A j \in 1..Len(fr.got) : UnfoldsTo(o.items[j], fr.got[j], objects)
        /\ \A j \in 1..Len(fr.gotKeys) :
               o.keys[j].type = "string" /\ Convertible(o.keys[j]) /\ fr.gotKeys[j] = o.keys[j].text

Awaits(fr, objects, object) ==
    FrameUnfolds(fr, 1, objects) /\ Awaited(fr, objects).type = "object" /\ Awaited(fr, objects).object = object

LEMMA AwaitsRefers ==
    ASSUME NEW objects, NEW fr, NEW object, Awaits(fr, objects, object), Listed(fr.got)
    PROVE  RefersTo(fr.object, object, objects)
<1>1. PICK j : j = Len(fr.got) + 1
  OBVIOUS
<1>2. Len(fr.got) \in Nat
  BY ListedAppend
<1>3. j \in Nat \ {0} /\ j <= Len(objects[fr.object].items)
  BY <1>1, <1>2 DEF Awaits, FrameUnfolds
<1>4. QED
  BY <1>1, <1>3 DEF Awaits, Awaited, RefersTo

\* Each waits for the next, and contains all further in.
StackUnfolds(stack, ahead, objects) ==
    /\ Listed(stack)
    /\ stack # <<>> => FrameUnfolds(Top(stack), ahead, objects) /\ stack[1].object = <<>>
    /\ \A i \in 1..Len(stack) - 1 : Awaits(stack[i], objects, stack[i + 1].object)
    /\ \A i \in 1..Len(stack) : stack[i].object \in Reachable(objects)
    /\ \A i, j \in 1..Len(stack) : i < j => Contains(stack[i].object, stack[j].object, objects)

LEMMA UnfoldsEmpty ==
    ASSUME NEW ahead, NEW objects
    PROVE  StackUnfolds(<<>>, ahead, objects)
<1>1. Listed(<<>>) /\ Len(<<>>) = 0
  BY ListedEmpty
<1>2. QED
  BY <1>1 DEF StackUnfolds

LEMMA UnfoldsPop ==
    ASSUME NEW objects, NEW stack, NEW ahead, StackUnfolds(stack, ahead, objects), stack # <<>>
    PROVE  /\ StackUnfolds(Rest(stack), 1, objects) /\ FrameUnfolds(Top(stack), ahead, objects)
           /\ Rest(stack) = <<>> => Top(stack).object = <<>>
           /\ Rest(stack) # <<>> => Awaits(Top(Rest(stack)), objects, Top(stack).object)
<1>1. PICK t, n : t = Rest(stack) /\ n = Len(stack)
  OBVIOUS
<1>2. Listed(t) /\ n \in Nat \ {0} /\ Len(t) = n - 1 /\ \A i \in 1..n - 1 : t[i] = stack[i]
  BY <1>1, ListedRest DEF StackUnfolds
<1>3. Top(stack) = stack[n]
  BY <1>1 DEF Top
<1>4. CASE t = <<>>
  <2>1. n = 1
    BY <1>2, <1>4, ListedEmpty
  <2>2. Top(stack).object = <<>>
    BY <1>1, <1>3, <2>1 DEF StackUnfolds
  <2>3. QED
    BY <1>1, <1>4, <2>2, UnfoldsEmpty DEF StackUnfolds
<1>5. CASE t # <<>>
  <2>1. n - 1 \in 1..n - 1 /\ n - 1 + 1 = n /\ 1 \in 1..n - 1
    BY <1>2, <1>5, ListedRest
  <2>2. Top(t) = stack[n - 1]
    BY <1>2, <2>1 DEF Top
  <2>3. Awaits(Top(t), objects, Top(stack).object)
    BY <1>1, <1>3, <2>1, <2>2 DEF StackUnfolds
  <2>4. t[1].object = <<>>
    BY <1>1, <1>2, <2>1 DEF StackUnfolds
  <2>5. ASSUME NEW i \in 1..Len(t) - 1 PROVE Awaits(t[i], objects, t[i + 1].object)
    <3>1. i \in 1..n - 1 /\ i + 1 \in 1..n - 1
      BY <1>2
    <3>2. QED
      BY <1>1, <1>2, <3>1 DEF StackUnfolds
  <2>6. \A i \in 1..Len(t) : t[i].object \in Reachable(objects)
    BY <1>1, <1>2 DEF StackUnfolds
  <2>7. \A i, j \in 1..Len(t) : i < j => Contains(t[i].object, t[j].object, objects)
    BY <1>1, <1>2 DEF StackUnfolds
  <2>8. QED
    BY <1>1, <1>2, <1>5, <2>3, <2>4, <2>5, <2>6, <2>7 DEF StackUnfolds, Awaits
<1>6. QED
  BY <1>4, <1>5

\* An object referred to by what the innermost waits for is entered.
LEMMA UnfoldsPush ==
    ASSUME NEW objects, NEW stack, StackUnfolds(stack, 1, objects), NEW fr, NEW ahead, FrameUnfolds(fr, ahead, objects),
           <<>> \in DOMAIN objects, fr.object \in DOMAIN objects,
           \A i \in 1..Len(stack) : stack[i].object \in DOMAIN objects /\ Listed(stack[i].got),
           stack = <<>> => fr.object = <<>>,
           stack # <<>> => Awaits(Top(stack), objects, fr.object)
    PROVE  StackUnfolds(Append(stack, fr), ahead, objects)
<1>1. PICK t, n : t = Append(stack, fr) /\ n = Len(stack)
  OBVIOUS
<1>2. /\ Listed(t) /\ n \in Nat /\ Len(t) = n + 1 /\ t[n + 1] = fr
      /\ \A i \in 1..n : t[i] = stack[i]
  BY <1>1, ListedAppend DEF StackUnfolds
<1>3. stack = <<>> => n = 0
  BY <1>1, ListedEmpty
<1>4. stack # <<>> => n \in 1..n /\ Top(stack) = stack[n] /\ 1 \in 1..n
  <2>1. stack # <<>> => n # 0
    BY <1>1, ListedRest DEF StackUnfolds
  <2>2. QED
    BY <1>1, <1>2, <2>1 DEF Top
<1>5. t # <<>> /\ Top(t) = fr
  <2>1. t # <<>>
    BY <1>2, ListedEmpty
  <2>2. QED
    BY <1>2, <2>1 DEF Top
<1>6. t[1].object = <<>>
  <2>1. CASE stack = <<>>
    BY <1>2, <1>3, <2>1
  <2>2. CASE stack # <<>>
    <3>1. t[1] = stack[1]
      BY <1>2, <1>4, <2>2
    <3>2. QED
      BY <2>2, <3>1 DEF StackUnfolds
  <2>3. QED
    BY <2>1, <2>2
<1>7. ASSUME NEW i \in 1..Len(t) - 1 PROVE Awaits(t[i], objects, t[i + 1].object)
  <2>1. i \in 1..n /\ t[i] = stack[i]
    BY <1>2
  <2>2. CASE i = n
    <3>1. stack # <<>>
      BY <1>3, <2>1
    <3>2. QED
      BY <1>2, <1>4, <2>1, <2>2, <3>1
  <2>3. CASE i # n
    <3>1. i \in 1..n - 1 /\ i + 1 \in 1..n
      BY <1>2, <2>1, <2>3
    <3>2. QED
      BY <1>1, <1>2, <2>1, <3>1 DEF StackUnfolds
  <2>4. QED
    BY <2>2, <2>3
<1>8. stack # <<>> => RefersTo(Top(stack).object, fr.object, objects)
  BY <1>1, <1>4, AwaitsRefers
<1>9. fr.object \in Reachable(objects)
  <2>1. CASE stack = <<>>
    BY <2>1 DEF Reachable
  <2>2. CASE stack # <<>>
    <3>1. Top(stack).object \in Reachable(objects)
      BY <1>1, <1>4, <2>2 DEF StackUnfolds
    <3>2. QED
      BY <1>8, <2>2, <3>1, ReachableNext
  <2>3. QED
    BY <2>1, <2>2
<1>10. ASSUME NEW i \in 1..n PROVE Contains(stack[i].object, fr.object, objects)
  <2>1. stack # <<>>
    BY <1>3
  <2>2. CASE i = n
    BY <1>4, <1>8, <2>1, <2>2, ContainsNext
  <2>3. CASE i # n
    <3>1. Contains(stack[i].object, stack[n].object, objects) /\ stack[n].object \in DOMAIN objects
      BY <1>1, <1>2, <1>4, <2>1, <2>3 DEF StackUnfolds
    <3>2. RefersTo(stack[n].object, fr.object, objects)
      BY <1>4, <1>8, <2>1
    <3>3. QED
      BY <3>1, <3>2, ContainsNext
  <2>4. QED
    BY <2>2, <2>3
<1>11. \A i \in 1..Len(t) : i \in 1..n \/ i = n + 1
  BY <1>2
<1>12. \A i \in 1..Len(t) : t[i].object \in Reachable(objects)
  BY <1>1, <1>2, <1>9, <1>11 DEF StackUnfolds
<1>13. ASSUME NEW i \in 1..Len(t), NEW j \in 1..Len(t), i < j
       PROVE  Contains(t[i].object, t[j].object, objects)
  <2>1. i \in 1..n
    BY <1>2, <1>13
  <2>2. CASE j = n + 1
    BY <1>2, <1>10, <2>1, <2>2
  <2>3. CASE j \in 1..n
    BY <1>1, <1>2, <1>13, <2>1, <2>3 DEF StackUnfolds
  <2>4. QED
    BY <1>11, <2>2, <2>3
<1>14. QED
  BY <1>1, <1>2, <1>5, <1>6, <1>7, <1>12, <1>13 DEF StackUnfolds

LEMMA UnfoldsTurn ==
    ASSUME NEW objects, NEW stack, NEW ahead, StackUnfolds(stack, ahead, objects), stack # <<>>,
           NEW g, NEW t, Replaced(stack, g, t), NEW further, FrameUnfolds(g, further, objects),
           g.object = Top(stack).object
    PROVE  StackUnfolds(t, further, objects)
<1>1. PICK n : n = Len(stack)
  OBVIOUS
<1>2. /\ Listed(t) /\ Len(t) = n /\ t[n] = g /\ n \in Nat \ {0} /\ Top(t) = g
      /\ \A i \in 1..n - 1 : t[i] = stack[i]
  <2>1. n \in Nat \ {0}
    BY <1>1, ListedRest DEF StackUnfolds
  <2>2. QED
    BY <1>1, <2>1 DEF Replaced, Top
<1>3. ASSUME NEW i \in 1..n PROVE t[i].object = stack[i].object
  <2>1. i = n \/ i \in 1..n - 1
    BY <1>2
  <2>2. g.object = stack[n].object
    BY <1>1 DEF Top
  <2>3. QED
    BY <1>2, <2>1, <2>2
<1>4. ASSUME NEW i \in 1..n - 1 PROVE Awaits(t[i], objects, t[i + 1].object)
  <2>1. i + 1 \in 1..n /\ t[i] = stack[i]
    BY <1>2
  <2>2. Awaits(stack[i], objects, stack[i + 1].object)
    BY <1>1 DEF StackUnfolds
  <2>3. QED
    BY <1>3, <2>1, <2>2
<1>5. t[1].object = <<>>
  BY <1>2, <1>3 DEF StackUnfolds
<1>6. \A i \in 1..Len(t) : t[i].object \in Reachable(objects)
  BY <1>1, <1>2, <1>3 DEF StackUnfolds
<1>7. \A i, j \in 1..Len(t) : i < j => Contains(t[i].object, t[j].object, objects)
  BY <1>1, <1>2, <1>3 DEF StackUnfolds
<1>8. QED
  BY <1>2, <1>4, <1>5, <1>6, <1>7 DEF StackUnfolds

-----------------------------------------------------------------------------
(* What each step makes of the frames *)

LEMMA FrameUnfoldsItem ==
    ASSUME NEW S, NEW objects, NEW fr, FrameMade(fr, S, 1, objects), FrameUnfolds(fr, 1, objects),
           NEW v, UnfoldsTo(Awaited(fr, objects), v, objects), NEW g, g = WithItem(fr, v)
    PROVE  FrameUnfolds(g, 0, objects) /\ g.object = fr.object
<1>1. PICK o, t, l, k, i, gk, gt : fr = Frame(o, t, l, k, i, gk, gt)
  BY DEF FrameMade
<1>2. PICK more, n, it : more = Append(gt, v) /\ n = Len(gt) /\ it = objects[o]
  OBVIOUS
<1>3. g = Frame(o, t, l, k, i, gk, more)
  BY <1>1, <1>2 DEF Frame, WithItem
<1>4. /\ fr.object = o /\ fr.type = t /\ fr.length = l /\ fr.keys = k /\ fr.items = i /\ fr.gotKeys = gk /\ fr.got = gt
  BY <1>1 DEF Frame
<1>5. /\ g.object = o /\ g.type = t /\ g.length = l /\ g.keys = k /\ g.items = i /\ g.gotKeys = gk /\ g.got = more
  BY <1>3 DEF Frame
<1>6. /\ Listed(more) /\ n \in Nat /\ Len(more) = n + 1
      /\ \A j \in 1..n : more[j] = gt[j]
      /\ more[n + 1] = v
  <2>1. Listed(gt)
    BY <1>4 DEF FrameMade
  <2>2. QED
    BY <1>2, <2>1, ListedAppend
<1>7. ASSUME NEW j \in 1..Len(more) PROVE UnfoldsTo(it.items[j], more[j], objects)
  <2>1. CASE j \in 1..n
    BY <1>2, <1>4, <1>6, <2>1 DEF FrameUnfolds
  <2>2. CASE j = n + 1
    BY <1>2, <1>4, <1>6, <2>2 DEF Awaited
  <2>3. QED
    BY <1>6, <2>1, <2>2
<1>8. Len(more) + 0 <= l
  BY <1>2, <1>4, <1>6 DEF FrameUnfolds
<1>9. /\ l = Len(it.items) /\ l <= MaxContainer /\ t = it.type /\ k = it.keys
      /\ t = "map" => i = it.items
      /\ \A j \in 1..Len(gk) : it.keys[j].type = "string" /\ Convertible(it.keys[j]) /\ gk[j] = it.keys[j].text
  BY <1>2, <1>4 DEF FrameUnfolds
<1>10. QED
  BY <1>2, <1>4, <1>5, <1>7, <1>8, <1>9 DEF FrameUnfolds

LEMMA FrameUnfoldsKey ==
    ASSUME NEW S, NEW objects, NEW fr, FrameMade(fr, S, 0, objects), FrameUnfolds(fr, 1, objects), fr.type = "map",
           NEW key, key = fr.keys[Len(fr.got) + 1], key.type = "string", Convertible(key),
           NEW g, g = WithKey(fr, key.text)
    PROVE  FrameUnfolds(g, 1, objects) /\ g.object = fr.object /\ Awaited(g, objects) = Awaited(fr, objects)
<1>1. PICK o, t, l, k, i, gk, gt : fr = Frame(o, t, l, k, i, gk, gt)
  BY DEF FrameMade
<1>2. PICK text, more, n, it : text = key.text /\ more = Append(gk, text) /\ n = Len(gk) /\ it = objects[o]
  OBVIOUS
<1>3. g = Frame(o, t, l, k, i, more, gt)
  BY <1>1, <1>2 DEF Frame, WithKey
<1>4. /\ fr.object = o /\ fr.type = t /\ fr.length = l /\ fr.keys = k /\ fr.items = i /\ fr.gotKeys = gk /\ fr.got = gt
  BY <1>1 DEF Frame
<1>5. /\ g.object = o /\ g.type = t /\ g.length = l /\ g.keys = k /\ g.items = i /\ g.gotKeys = more /\ g.got = gt
  BY <1>3 DEF Frame
<1>6. Listed(gk) /\ Listed(gt) /\ n = Len(gt) + 0
  BY <1>2, <1>4 DEF FrameMade
<1>7. /\ n \in Nat /\ Len(more) = n + 1 /\ n = Len(gt)
      /\ \A j \in 1..n : more[j] = gk[j]
      /\ more[n + 1] = text
  <2>1. Len(gt) \in Nat
    BY <1>6, ListedAppend
  <2>2. n = Len(gt)
    BY <1>6, <2>1
  <2>3. /\ Listed(Append(gk, text)) /\ Len(Append(gk, text)) = Len(gk) + 1
        /\ \A j \in 1..Len(gk) : Append(gk, text)[j] = gk[j]
        /\ Append(gk, text)[Len(gk) + 1] = text
    BY <1>6, ListedAppend
  <2>4. QED
    BY <1>2, <2>1, <2>2, <2>3
<1>8. /\ l = Len(it.items) /\ l <= MaxContainer /\ t = it.type /\ k = it.keys /\ Len(gt) + 1 <= l
      /\ t = "map" => i = it.items
      /\ \A j \in 1..n : it.keys[j].type = "string" /\ Convertible(it.keys[j]) /\ gk[j] = it.keys[j].text
      /\ \A j \in 1..Len(gt) : UnfoldsTo(it.items[j], gt[j], objects)
  BY <1>2, <1>4 DEF FrameUnfolds
<1>9. ASSUME NEW j \in 1..Len(more)
      PROVE  it.keys[j].type = "string" /\ Convertible(it.keys[j]) /\ more[j] = it.keys[j].text
  <2>1. CASE j \in 1..n
    BY <1>7, <1>8, <2>1
  <2>2. CASE j = n + 1
    BY <1>2, <1>4, <1>7, <1>8, <2>2
  <2>3. QED
    BY <1>7, <2>1, <2>2
<1>10. FrameUnfolds(g, 1, objects)
  <2>1. objects[g.object] = it
    BY <1>2, <1>5
  <2>2. /\ g.length = Len(it.items) /\ g.length <= MaxContainer /\ g.type = it.type /\ g.keys = it.keys
        /\ g.type = "map" => g.items = it.items
        /\ Len(g.got) + 1 <= g.length
    BY <1>5, <1>8
  <2>3. \A j \in 1..Len(g.got) : UnfoldsTo(it.items[j], g.got[j], objects)
    BY <1>5, <1>8
  <2>4. \A j \in 1..Len(g.gotKeys) :
            it.keys[j].type = "string" /\ Convertible(it.keys[j]) /\ g.gotKeys[j] = it.keys[j].text
    BY <1>5, <1>9
  <2>5. QED
    BY <2>1, <2>2, <2>3, <2>4 DEF FrameUnfolds
<1>11. g.object = fr.object /\ Awaited(g, objects) = Awaited(fr, objects)
  BY <1>4, <1>5 DEF Awaited
<1>12. QED
  BY <1>10, <1>11

\* All of a container was got: what was made of it is its value.
LEMMA FrameUnfoldsWhole ==
    ASSUME NEW S, NEW objects, IsFiniteSet(DOMAIN objects), NEW fr, FrameMade(fr, S, 0, objects),
           FrameUnfolds(fr, 0, objects), ObjectAmong(objects[fr.object], objects),
           ~ (Len(fr.got) < fr.length)
    PROVE  /\ fr.object \in DOMAIN Unfolding(objects)
           /\ Container(fr.type, fr.gotKeys, fr.got) = Unfolding(objects)[fr.object]
<1>1. PICK u, o, gk, gt : u = Unfolding(objects) /\ o = objects[fr.object] /\ gk = fr.gotKeys /\ gt = fr.got
  OBVIOUS
<1>2. /\ Listed(gk) /\ Listed(gt) /\ Len(gk) \in Nat /\ Len(gt) \in Nat /\ fr.object \in DOMAIN objects
      /\ Len(gk) = IF fr.type = "map" THEN Len(gt) + 0 ELSE 0
  <2>1. Listed(gk) /\ Listed(gt)
    BY <1>1 DEF FrameMade
  <2>2. Len(gk) \in Nat /\ Len(gt) \in Nat
    BY <2>1, ListedAppend
  <2>3. QED
    BY <1>1, <2>1, <2>2 DEF FrameMade
<1>3. /\ fr.type = o.type /\ Len(gt) = Len(o.items) /\ Len(o.items) <= MaxContainer
      /\ \A j \in 1..Len(gt) : UnfoldsTo(o.items[j], gt[j], objects)
      /\ \A j \in 1..Len(gk) : o.keys[j].type = "string" /\ Convertible(o.keys[j]) /\ gk[j] = o.keys[j].text
  <2>1. fr.length = Len(o.items) /\ Len(gt) + 0 <= fr.length /\ fr.length \in Nat
    BY <1>1 DEF FrameUnfolds, FrameMade
  <2>2. QED
    BY <1>1, <1>2, <2>1 DEF FrameUnfolds
<1>4. Len(o.keys) = Len(gk)
  BY <1>1, <1>2, <1>3 DEF ObjectAmong
<1>5. ~ Flawed(o)
  <2>1. \A i \in 1..Len(o.items) : o.items[i].type = "object" \/ Convertible(o.items[i])
    BY <1>3 DEF UnfoldsTo
  <2>2. \A i \in 1..Len(o.keys) : o.keys[i].type = "string" /\ Convertible(o.keys[i])
    BY <1>3, <1>4
  <2>3. ~ (Len(o.items) > MaxContainer)
    BY <1>2, <1>3, LimitsAssumption
  <2>4. QED
    BY <2>1, <2>2, <2>3 DEF Flawed
<1>6. Ready(o, u)
  BY <1>1, <1>3, <1>5 DEF Ready, UnfoldsTo
<1>7. u = Wrap(u, objects)
  BY <1>1, UnfoldingWraps
<1>8. fr.object \in DOMAIN u /\ u[fr.object] = ValueOf(o, u)
  <2>1. fr.object \in DOMAIN Wrap(u, objects) /\ Wrap(u, objects)[fr.object] = ValueOf(o, u)
    BY <1>1, <1>2, <1>6 DEF Wrap
  <2>2. QED
    BY <1>7, <2>1
<1>9. PICK keys, items :
          /\ keys = [i \in 1..Len(o.keys) |-> o.keys[i].text]
          /\ items = [i \in 1..Len(o.items) |->
                         IF o.items[i].type = "object" THEN u[o.items[i].object] ELSE LeafOf(o.items[i])]
  OBVIOUS
<1>10. gk = [i \in 1..Len(gk) |-> gk[i]] /\ gt = [i \in 1..Len(gt) |-> gt[i]]
  BY <1>2, LenProperties DEF Listed
<1>11. gk = keys
  BY <1>3, <1>4, <1>9, <1>10
<1>12. gt = items
  <2>1. ASSUME NEW i \in 1..Len(gt) PROVE gt[i] = items[i]
    <3>1. UnfoldsTo(o.items[i], gt[i], objects)
      BY <1>3
    <3>2. i \in 1..Len(o.items)
      BY <1>3
    <3>3. items[i] = IF o.items[i].type = "object" THEN u[o.items[i].object] ELSE LeafOf(o.items[i])
      BY <1>9, <3>2
    <3>4. QED
      BY <1>1, <3>1, <3>3 DEF UnfoldsTo
  <2>2. items = [i \in 1..Len(gt) |-> items[i]]
    BY <1>3, <1>9
  <2>3. QED
    BY <1>10, <2>1, <2>2
<1>13. QED
  BY <1>1, <1>3, <1>8, <1>9, <1>11, <1>12 DEF ValueOf

-----------------------------------------------------------------------------
(* The conversion of objects that nothing changes *)

Made(done, objects) ==
    done # <<>> => <<>> \in DOMAIN Unfolding(objects) /\ done = <<Unfolding(objects)[<<>>]>>

Unrolling ==
    /\ IsFiniteSet(DOMAIN heap) /\ <<>> \in DOMAIN heap
    /\ StackUnfolds(frames, IF pending = <<>> THEN 0 ELSE 1, heap)
    /\ pending # <<>> => pending = <<IF frames = <<>> THEN Ref(<<>>) ELSE Awaited(Top(frames), heap)>>

LEMMA UnrollingStarts ==
    ASSUME NEW objects \in Scripts, InitScript(objects)
    PROVE  Unrolling
<1>1. heap = objects /\ pending = <<Ref(<<>>)>> /\ frames = <<>>
  BY DEF InitScript
<1>2. StackUnfolds(<<>>, 1, objects)
  BY UnfoldsEmpty
<1>3. QED
  BY <1>1, <1>2, ObjectsAssumption DEF Unrolling

\* A value is given to whoever waits for it.
LEMMA GiveUnfolds ==
    ASSUME NEW S, NEW objects, NEW v, NEW around, StackMade(around, S, 1, objects), StackUnfolds(around, 1, objects),
           Give(v, around), around # <<>>, UnfoldsTo(Awaited(Top(around), objects), v, objects)
    PROVE  StackUnfolds(frames', 0, objects) /\ converted' = converted
<1>1. PICK fr, g : fr = Top(around) /\ g = WithItem(fr, v)
  OBVIOUS
<1>2. frames' = [around EXCEPT ![Len(around)] = g] /\ converted' = converted
  BY <1>1 DEF Give, WithItem, Top
<1>3. Replaced(around, g, frames')
  BY <1>2, Replacing, Zenon DEF StackMade
<1>4. FrameMade(fr, S, 1, objects) /\ FrameUnfolds(fr, 1, objects)
  BY <1>1 DEF StackMade, StackUnfolds
<1>5. FrameUnfolds(g, 0, objects) /\ g.object = fr.object
  BY <1>1, <1>4, FrameUnfoldsItem
<1>6. QED
  BY <1>1, <1>2, <1>3, <1>5, UnfoldsTurn

LEMMA UnrollingLeaf ==
    ASSUME Making, Unrolling, ConvertLeaf
    PROVE  Unrolling' /\ converted' = converted
<1>1. PICK S, h, x, v : /\ h = heap /\ x = Source /\ v = LeafOf(x)
                        /\ StackMade(frames, S, IF pending = <<>> THEN 0 ELSE 1, h)
  BY DEF Making
<1>2. /\ pending # <<>> /\ x.type # "object" /\ Convertible(x) /\ Give(v, frames) /\ pending' = <<>> /\ heap' = h
  BY <1>1 DEF ConvertLeaf, Receives, heapVars
<1>3. frames # <<>> /\ x = Awaited(Top(frames), h)
  <2>1. pending = <<IF frames = <<>> THEN Ref(<<>>) ELSE Awaited(Top(frames), h)>>
    BY <1>1, <1>2 DEF Unrolling
  <2>2. x = IF frames = <<>> THEN Ref(<<>>) ELSE Awaited(Top(frames), h)
    BY <1>1, <2>1 DEF Source
  <2>3. Ref(<<>>).type = "object"
    BY DEF Ref
  <2>4. QED
    BY <1>2, <2>2, <2>3
<1>4. UnfoldsTo(x, v, h)
  BY <1>1, <1>2 DEF UnfoldsTo
<1>5. StackUnfolds(frames, 1, h) /\ StackMade(frames, S, 1, h)
  BY <1>1, <1>2 DEF Unrolling
<1>6. StackUnfolds(frames', 0, h) /\ converted' = converted
  BY <1>2, <1>3, <1>4, <1>5, GiveUnfolds
<1>7. QED
  BY <1>1, <1>2, <1>6 DEF Unrolling

LEMMA UnrollingEnter ==
    ASSUME Making, Unrolling, Enter
    PROVE  Unrolling' /\ converted' = converted
<1>1. PICK S, h : h = heap /\ StackMade(frames, S, IF pending = <<>> THEN 0 ELSE 1, h)
  BY DEF Making
<1>2. PICK o, now, t, k, n : o = Source.object /\ now = h[o] /\ t = now.type /\ k = now.keys /\ n = Len(now.items)
  OBVIOUS
<1>3. PICK items : items = IF t = "map" THEN now.items ELSE <<>>
  OBVIOUS
<1>4. PICK fr : fr = Frame(o, t, n, k, items, <<>>, <<>>)
  OBVIOUS
<1>5. /\ frames' = Append(frames, fr) /\ pending # <<>> /\ pending' = <<>> /\ heap' = h /\ converted' = converted
      /\ Source.type = "object" /\ n <= MaxContainer
  BY <1>1, <1>2, <1>3, <1>4 DEF Enter, Enterable, Receives, heapVars, Frame
<1>6. o \in DOMAIN h /\ n \in Nat
  BY <1>1, <1>2, <1>5 DEF Making, Source, Known, ObjectAmong
<1>7. /\ fr.object = o /\ fr.type = t /\ fr.length = n /\ fr.keys = k /\ fr.items = items
      /\ fr.gotKeys = <<>> /\ fr.got = <<>>
  BY <1>4 DEF Frame
<1>8. FrameUnfolds(fr, 0, h)
  <2>1. Len(<<>>) = 0 /\ \A j \in 1..Len(<<>>) : FALSE
    BY ListedEmpty
  <2>2. QED
    BY <1>2, <1>3, <1>5, <1>6, <1>7, <2>1 DEF FrameUnfolds
<1>9. StackUnfolds(frames, 1, h) /\ StackMade(frames, S, 1, h)
  BY <1>1, <1>5 DEF Unrolling
<1>10. \A i \in 1..Len(frames) : frames[i].object \in DOMAIN h /\ Listed(frames[i].got)
  <2>1. ASSUME NEW i \in 1..Len(frames) PROVE FrameMade(frames[i], S, 1, h)
    <3>1. frames # <<>> /\ Len(frames) \in Nat
      BY <1>9, <2>1, ListedAppend, ListedEmpty DEF StackMade
    <3>2. i \in 1..Len(frames) - 1 \/ i = Len(frames)
      BY <3>1
    <3>3. QED
      BY <1>9, <3>1, <3>2 DEF StackMade, Top
  <2>2. QED
    BY <2>1 DEF FrameMade
<1>11. Source = IF frames = <<>> THEN Ref(<<>>) ELSE Awaited(Top(frames), h)
  <2>1. pending = <<IF frames = <<>> THEN Ref(<<>>) ELSE Awaited(Top(frames), h)>>
    BY <1>1, <1>5 DEF Unrolling
  <2>2. QED
    BY <2>1 DEF Source
<1>12. /\ frames = <<>> => fr.object = <<>>
       /\ frames # <<>> => Awaits(Top(frames), h, fr.object)
  <2>1. frames # <<>> => FrameUnfolds(Top(frames), 1, h)
    BY <1>9 DEF StackUnfolds
  <2>2. Ref(<<>>).object = <<>>
    BY DEF Ref
  <2>3. QED
    BY <1>2, <1>5, <1>7, <1>11, <2>1, <2>2 DEF Awaits
<1>13. <<>> \in DOMAIN h /\ fr.object \in DOMAIN h
  BY <1>1, <1>6, <1>7 DEF Unrolling
<1>14. StackUnfolds(frames', 0, h)
  BY <1>5, <1>8, <1>9, <1>10, <1>12, <1>13, UnfoldsPush
<1>15. QED
  BY <1>1, <1>5, <1>14 DEF Unrolling

\* The innermost container has another entry.
LEMMA UnrollingMore ==
    ASSUME Making, Unrolling, Loops, More
    PROVE  FrameUnfolds(Top(frames), 1, heap)
<1>1. PICK S, h : h = heap /\ StackMade(frames, S, IF pending = <<>> THEN 0 ELSE 1, h)
  BY DEF Making
<1>2. Len(Top(frames).got) + 1 \in 1..Top(frames).length
  BY <1>1, MoreEntries DEF Loops
<1>3. FrameUnfolds(Top(frames), 0, heap)
  BY DEF Unrolling, StackUnfolds, Loops
<1>4. Top(frames).length \in Nat
  BY <1>1, MoreEntries DEF Loops, FrameMade
<1>5. QED
  BY <1>2, <1>3, <1>4 DEF FrameUnfolds

LEMMA UnrollingElement ==
    ASSUME Making, Unrolling, NextElement
    PROVE  Unrolling' /\ converted' = converted
<1>1. PICK h, fr, index : h = heap /\ fr = Top(frames) /\ index = Len(fr.got) + 1
  OBVIOUS
<1>2. /\ Loops /\ More /\ pending = <<>> /\ frames # <<>> /\ heap' = h /\ frames' = frames /\ converted' = converted
      /\ pending' = <<IF index <= Len(h[fr.object].items) THEN h[fr.object].items[index] ELSE Undefined>>
  BY <1>1 DEF NextElement, Loops, heapVars
<1>3. FrameUnfolds(fr, 1, h)
  BY <1>1, <1>2, UnrollingMore
<1>4. pending' = <<Awaited(fr, h)>>
  BY <1>1, <1>2, <1>3 DEF FrameUnfolds, Awaited
<1>5. StackUnfolds(frames, 1, h)
  BY <1>1, <1>2, <1>3 DEF Unrolling, StackUnfolds
<1>6. QED
  BY <1>1, <1>2, <1>4, <1>5 DEF Unrolling

LEMMA UnrollingEntry ==
    ASSUME Making, Unrolling, NextEntry
    PROVE  Unrolling' /\ converted' = converted
<1>1. PICK S, h : h = heap /\ StackMade(frames, S, IF pending = <<>> THEN 0 ELSE 1, h)
  BY DEF Making
<1>2. PICK fr, entry, g : fr = Top(frames) /\ entry = fr.keys[Len(fr.got) + 1] /\ g = WithKey(fr, entry.text)
  OBVIOUS
<1>3. /\ Loops /\ More /\ pending = <<>> /\ pending' = <<fr.items[Len(fr.got) + 1]>> /\ fr.type = "map"
      /\ entry.type = "string" /\ Convertible(entry) /\ heap' = h /\ converted' = converted /\ frames # <<>>
      /\ frames' = [frames EXCEPT ![Len(frames)] = g]
  BY <1>1, <1>2 DEF NextEntry, Loops, EntryKey, heapVars, WithKey, Top
<1>4. FrameMade(fr, S, 0, h)
  BY <1>1, <1>2, <1>3, MoreEntries
<1>5. FrameUnfolds(fr, 1, h)
  BY <1>1, <1>2, <1>3, UnrollingMore
<1>6. FrameUnfolds(g, 1, h) /\ g.object = fr.object /\ Awaited(g, h) = Awaited(fr, h)
  BY <1>2, <1>3, <1>4, <1>5, FrameUnfoldsKey
<1>7. Replaced(frames, g, frames')
  BY <1>1, <1>3, Replacing, Zenon DEF StackMade
<1>8. StackUnfolds(frames, 0, h)
  BY <1>1, <1>3 DEF Unrolling
<1>9. StackUnfolds(frames', 1, h)
  BY <1>2, <1>3, <1>6, <1>7, <1>8, UnfoldsTurn
<1>10. frames' # <<>> /\ Top(frames') = g
  <2>1. Len(frames') = Len(frames) /\ frames'[Len(frames)] = g
    BY <1>7 DEF Replaced
  <2>2. Len(frames) # 0
    BY <1>1, <1>3, ListedRest DEF StackMade
  <2>3. QED
    BY <2>1, <2>2, ListedEmpty DEF Top
<1>11. pending' = <<Awaited(g, h)>>
  BY <1>3, <1>5, <1>6 DEF FrameUnfolds, Awaited
<1>12. QED
  BY <1>1, <1>3, <1>9, <1>10, <1>11 DEF Unrolling

LEMMA UnrollingLeave ==
    ASSUME Making, Unrolling, Leave
    PROVE  Unrolling' /\ (converted' = converted \/ Made(converted', heap))
<1>1. PICK S, h : h = heap /\ StackMade(frames, S, IF pending = <<>> THEN 0 ELSE 1, h)
  BY DEF Making
<1>2. PICK fr, around, v : fr = Top(frames) /\ around = Rest(frames) /\ v = Container(fr.type, fr.gotKeys, fr.got)
  OBVIOUS
<1>3. /\ pending = <<>> /\ pending' = <<>> /\ heap' = h /\ Give(v, around) /\ frames # <<>>
      /\ ~ (Len(fr.got) < fr.length)
  BY <1>1, <1>2 DEF Leave, Loops, More, heapVars
<1>4. StackMade(around, S, 1, h) /\ FrameMade(fr, S, 0, h)
  BY <1>1, <1>2, <1>3, MadePop
<1>5. /\ StackUnfolds(around, 1, h) /\ FrameUnfolds(fr, 0, h)
      /\ around = <<>> => fr.object = <<>>
      /\ around # <<>> => Awaits(Top(around), h, fr.object)
  BY <1>1, <1>2, <1>3, UnfoldsPop DEF Unrolling
<1>6. fr.object \in DOMAIN Unfolding(h) /\ v = Unfolding(h)[fr.object]
  <2>1. IsFiniteSet(DOMAIN h) /\ ObjectAmong(h[fr.object], h)
    BY <1>1, <1>4 DEF Unrolling, Making, FrameMade
  <2>2. QED
    BY <1>2, <1>3, <1>4, <1>5, <2>1, FrameUnfoldsWhole
<1>7. CASE around = <<>>
  <2>1. frames' = <<>> /\ converted' = <<v>>
    BY <1>3, <1>7 DEF Give
  <2>2. StackUnfolds(frames', 0, h)
    BY <2>1, UnfoldsEmpty
  <2>3. Made(converted', h)
    BY <1>5, <1>6, <1>7, <2>1 DEF Made
  <2>4. QED
    BY <1>1, <1>3, <2>2, <2>3 DEF Unrolling
<1>8. CASE around # <<>>
  <2>1. UnfoldsTo(Awaited(Top(around), h), v, h)
    BY <1>5, <1>6, <1>8 DEF Awaits, UnfoldsTo
  <2>2. StackUnfolds(frames', 0, h) /\ converted' = converted
    BY <1>3, <1>4, <1>5, <1>8, <2>1, GiveUnfolds
  <2>3. QED
    BY <1>1, <1>3, <2>2 DEF Unrolling
<1>9. QED
  BY <1>7, <1>8

-----------------------------------------------------------------------------
(* Reasons to refuse *)

\* There is a reason to refuse the argument.
Refusable(objects) ==
    \E o \in Reachable(objects) : Contains(o, o, objects) \/ Flawed(objects[o]) \/ objects[o].live

\* The innermost container.
LEMMA InnermostReachable ==
    ASSUME Making, Unrolling, frames # <<>>
    PROVE  /\ Top(frames).object \in Reachable(heap) /\ ObjectAmong(heap[Top(frames).object], heap)
           /\ Listed(Top(frames).got) /\ Len(Top(frames).got) \in Nat
           /\ \A i \in 1..Len(frames) :
                  i = Len(frames) \/ Contains(frames[i].object, Top(frames).object, heap)
<1>1. PICK S, h, n, fr : /\ h = heap /\ n = Len(frames) /\ fr = Top(frames)
                         /\ StackMade(frames, S, IF pending = <<>> THEN 0 ELSE 1, h)
  BY DEF Making
<1>2. n \in Nat \ {0} /\ fr = frames[n]
  BY <1>1, ListedRest DEF StackMade, Top
<1>3. \E ahead : StackUnfolds(frames, ahead, h)
  BY <1>1 DEF Unrolling
<1>4. fr.object \in Reachable(h)
  BY <1>1, <1>2, <1>3 DEF StackUnfolds
<1>5. Listed(fr.got) /\ Len(fr.got) \in Nat
  BY <1>1, ListedAppend DEF StackMade, FrameMade
<1>6. \A i \in 1..n : i = n \/ Contains(frames[i].object, fr.object, h)
  BY <1>1, <1>2, <1>3 DEF StackUnfolds
<1>7. ObjectAmong(h[fr.object], h)
  BY <1>1, <1>4 DEF Making, Reachable
<1>8. QED
  BY <1>1, <1>4, <1>5, <1>6, <1>7

\* The value from_raw_inner was called with.
LEMMA SourceReachable ==
    ASSUME Making, Unrolling, PathsAreSimple, pending # <<>>, Source.type = "object"
    PROVE  /\ Source.object \in Reachable(heap)
           /\ Source.object \in visited => Contains(Source.object, Source.object, heap)
<1>1. PICK h, o : h = heap /\ o = Source.object
  OBVIOUS
<1>2. Source = IF frames = <<>> THEN Ref(<<>>) ELSE Awaited(Top(frames), h)
  <2>1. pending = <<IF frames = <<>> THEN Ref(<<>>) ELSE Awaited(Top(frames), h)>>
    BY <1>1 DEF Unrolling
  <2>2. QED
    BY <2>1 DEF Source
<1>3. o \in DOMAIN h
  BY <1>1 DEF Making, Known, Source
<1>4. CASE frames = <<>>
  <2>1. o = <<>>
    BY <1>1, <1>2, <1>4 DEF Ref
  <2>2. visited = {}
    BY <1>4, ListedEmpty DEF PathsAreSimple
  <2>3. QED
    BY <1>1, <1>3, <2>1, <2>2 DEF Reachable
<1>5. CASE frames # <<>>
  <2>1. PICK top : top = Top(frames)
    OBVIOUS
  <2>2. top.object \in Reachable(h) /\ Listed(top.got) /\ \A i \in 1..Len(frames) :
                  i = Len(frames) \/ Contains(frames[i].object, top.object, h)
    BY <1>1, <1>5, <2>1, InnermostReachable
  <2>3. Awaits(top, h, o)
    <3>1. FrameUnfolds(top, 1, h)
      BY <1>1, <1>5, <2>1 DEF Unrolling, StackUnfolds
    <3>2. QED
      BY <1>1, <1>2, <1>5, <2>1, <3>1 DEF Awaits
  <2>4. RefersTo(top.object, o, h)
    BY <2>2, <2>3, AwaitsRefers
  <2>5. o \in Reachable(h)
    BY <1>3, <2>2, <2>4, ReachableNext
  <2>6. ASSUME o \in visited PROVE Contains(o, o, h)
    <3>1. PICK i \in 1..Len(frames) : frames[i].object = o
      BY <2>6 DEF PathsAreSimple
    <3>2. top.object \in DOMAIN h
      BY <2>2 DEF Reachable
    <3>3. CASE i = Len(frames)
      <4>1. top.object = o
        BY <2>1, <3>1, <3>3 DEF Top
      <4>2. QED
        BY <1>3, <2>4, <4>1, ContainsNext
    <3>4. CASE Contains(o, top.object, h)
      BY <1>3, <2>4, <3>2, <3>4, ContainsNext
    <3>5. QED
      BY <2>2, <3>1, <3>3, <3>4
  <2>7. QED
    BY <1>1, <2>5, <2>6
<1>6. QED
  BY <1>4, <1>5

LEMMA RefusedForReason ==
    ASSUME Making, Unrolling, PathsAreSimple, Refuse
    PROVE  Refusable(heap)
<1>1. PICK h, top, o, n : h = heap /\ top = Top(frames) /\ o = h[top.object] /\ n = Len(top.got) + 1
  OBVIOUS
<1>2. CASE Receives /\ Source.type # "object" /\ ~ Convertible(Source)
  <2>1. frames # <<>> /\ Source = Awaited(top, h)
    <3>1. pending = <<IF frames = <<>> THEN Ref(<<>>) ELSE Awaited(top, h)>>
      BY <1>1, <1>2 DEF Unrolling, Receives
    <3>2. Source = IF frames = <<>> THEN Ref(<<>>) ELSE Awaited(top, h)
      BY <3>1 DEF Source
    <3>3. Ref(<<>>).type = "object"
      BY DEF Ref
    <3>4. QED
      BY <1>2, <3>2, <3>3
  <2>2. top.object \in Reachable(h) /\ ObjectAmong(o, h) /\ Len(top.got) \in Nat
    BY <1>1, <2>1, InnermostReachable
  <2>3. FrameUnfolds(top, 1, h)
    BY <1>1, <1>2, <2>1 DEF Unrolling, StackUnfolds, Receives
  <2>4. n \in 1..Len(o.items) /\ Source = o.items[n]
    BY <1>1, <2>1, <2>2, <2>3 DEF FrameUnfolds, Awaited, ObjectAmong
  <2>5. Flawed(o)
    BY <1>2, <2>4 DEF Flawed
  <2>6. QED
    BY <1>1, <2>2, <2>5 DEF Refusable
<1>3. CASE Receives /\ Source.type = "object" /\ ~ Enterable(Source.object)
  <2>1. PICK object : object = Source.object
    OBVIOUS
  <2>2. object \in Reachable(h) /\ (object \in visited => Contains(object, object, h))
    BY <1>1, <1>3, <2>1, SourceReachable DEF Receives
  <2>3. object \in visited \/ ~ (Len(h[object].items) <= MaxContainer)
    BY <1>1, <1>3, <2>1 DEF Enterable
  <2>4. Len(h[object].items) \in Nat
    BY <1>1, <2>2 DEF Making, Reachable, ObjectAmong
  <2>5. object \in visited \/ Flawed(h[object])
    BY <2>3, <2>4, LimitsAssumption DEF Flawed
  <2>6. QED
    BY <1>1, <2>2, <2>5 DEF Refusable
<1>4. CASE Loops /\ More /\ top.type = "map" /\ ~ (EntryKey.type = "string" /\ Convertible(EntryKey))
  <2>1. frames # <<>> /\ pending = <<>>
    BY <1>4 DEF Loops
  <2>2. top.object \in Reachable(h) /\ ObjectAmong(o, h) /\ Len(top.got) \in Nat
    BY <1>1, <2>1, InnermostReachable
  <2>3. FrameUnfolds(top, 1, h)
    BY <1>1, <1>4, UnrollingMore
  <2>4. n \in 1..Len(o.keys) /\ EntryKey = o.keys[n]
    BY <1>1, <1>4, <2>2, <2>3 DEF FrameUnfolds, ObjectAmong, EntryKey
  <2>5. Flawed(o)
    BY <1>4, <2>4 DEF Flawed
  <2>6. QED
    BY <1>1, <2>2, <2>5 DEF Refusable
<1>5. QED
  BY <1>1, <1>2, <1>3, <1>4 DEF Refuse, Refused

LEMMA ThrownForReason ==
    ASSUME Making, Unrolling, PathsAreSimple, PayloadThrows
    PROVE  Refusable(heap)
<1>1. PICK object \in DOMAIN heap : LooksAt(object)
  BY DEF PayloadThrows
<1>2. CASE Receives /\ Source = Ref(object)
  <2>1. pending # <<>> /\ Source.type = "object" /\ Source.object = object
    BY <1>2 DEF Receives, Ref
  <2>2. QED
    BY <1>1, <2>1, SourceReachable DEF Refusable, LooksAt
<1>3. CASE Loops /\ Top(frames).object = object
  BY <1>1, <1>3, InnermostReachable DEF Refusable, LooksAt, Loops
<1>4. QED
  BY <1>1, <1>2, <1>3 DEF LooksAt

-----------------------------------------------------------------------------
(* The payload's own arguments *)

UnfoldInv ==
    /\ edits \in Nat
    /\ origin = "script" /\ handed = <<>> /\ edits = 0 =>
           /\ phase = "script" => Unrolling
           /\ Made(converted, heap)
           /\ phase = "script refused" => Refusable(heap)

LEMMA UnfoldInit == ScriptInit => UnfoldInv
<1>1. ASSUME Init, NoScript PROVE UnfoldInv
  BY <1>1 DEF Init, InitValue, InitWire, NoScript, UnfoldInv
<1>2. ASSUME NEW objects \in Scripts, InitScript(objects) PROVE UnfoldInv
  <2>1. Unrolling
    BY <1>2, UnrollingStarts
  <2>2. QED
    BY <1>2, <2>1 DEF InitScript, UnfoldInv, Made
<1>3. QED
  BY <1>1, <1>2 DEF ScriptInit

\* One step of from_raw with an argument of the payload's own.
LEMMA UnfoldConverted ==
    ASSUME LimitsInv, UnfoldInv, PathsAreSimple, Convert, ~ HandOver, origin = "script", handed = <<>>, edits = 0
    PROVE  edits' = 0 =>
               /\ phase' = "script" => Unrolling'
               /\ Made(converted', heap')
               /\ phase' = "script refused" => Refusable(heap')
<1> SUFFICES ASSUME edits' = 0
             PROVE  /\ phase' = "script" => Unrolling'
                    /\ Made(converted', heap')
                    /\ phase' = "script refused" => Refusable(heap')
  OBVIOUS
<1>1. phase = "script"
  BY DEF Convert, ConvertLeaf, Enter, NextElement, NextEntry, Leave, Refuse, Refused, PayloadChanges, PayloadThrows,
         LooksAt, Converted, Receives, Loops
<1>2. Making /\ Unrolling /\ Made(converted, heap)
  BY <1>1 DEF LimitsInv, UnfoldInv
<1>3. CASE ConvertLeaf \/ Enter \/ NextElement \/ NextEntry \/ Leave
  <2>1. phase' = "script" /\ heap' = heap
    BY <1>1, <1>3 DEF ConvertLeaf, Enter, NextElement, NextEntry, Leave, vars, heapVars
  <2>2. Unrolling' /\ (converted' = converted \/ Made(converted', heap))
    BY <1>2, <1>3, UnrollingLeaf, UnrollingEnter, UnrollingElement, UnrollingEntry, UnrollingLeave
  <2>3. QED
    BY <1>2, <2>1, <2>2
<1>4. CASE Refuse \/ PayloadThrows
  <2>1. phase' = "script refused" /\ heap' = heap /\ converted' = converted
    BY <1>4 DEF Refuse, PayloadThrows, scriptVars, heapVars
  <2>2. Refusable(heap)
    BY <1>2, <1>4, RefusedForReason, ThrownForReason
  <2>3. QED
    BY <1>2, <2>1, <2>2
<1>5. CASE PayloadChanges
  <2>1. edits' = edits + 1
    BY <1>5, Zenon DEF PayloadChanges
  <2>2. edits' = 1
    BY <2>1
  <2>3. FALSE
    BY <2>2
  <2>4. QED
    BY <2>3
<1>6. CASE Converted
  <2>1. phase' = "encode" /\ heap' = heap /\ converted' = converted
    BY <1>6 DEF Converted, scriptVars, heapVars
  <2>2. QED
    BY <1>2, <2>1
<1>7. QED
  BY <1>3, <1>4, <1>5, <1>6 DEF Convert

LEMMA UnfoldNext ==
    ValuesInv /\ PathsAreSimple /\ HandedInv /\ LimitsInv /\ UnfoldInv /\ [ScriptNext]_scriptAndValueVars => UnfoldInv'
<1> SUFFICES ASSUME ValuesInv, PathsAreSimple, HandedInv, LimitsInv, UnfoldInv, [ScriptNext]_scriptAndValueVars
             PROVE  UnfoldInv'
  OBVIOUS
<1>1. CASE UNCHANGED scriptAndValueVars
  <2>1. /\ origin' = origin /\ phase' = phase /\ heap' = heap /\ pending' = pending /\ frames' = frames
        /\ converted' = converted /\ handed' = handed /\ edits' = edits
    BY <1>1 DEF scriptAndValueVars, scriptVars, heapVars, vars
  <2>2. QED
    BY <2>1 DEF UnfoldInv, Unrolling
<1>2. CASE Next /\ UNCHANGED scriptVars
  <2>1. /\ origin' = origin /\ heap' = heap /\ converted' = converted /\ handed' = handed /\ edits' = edits
    BY <1>2, NextKeeps DEF scriptVars, heapVars
  <2>2. phase' \notin {"script", "script refused"}
    <3>1. CASE phase = "encode" /\ Encode
      BY <3>1 DEF Encode, EncodeLeaf, EncodeContainer, EncodeItem, EncodeEntry, EncodeLeave, EncodeRefuse, Encoded
    <3>2. CASE phase = "decode"
      BY <1>2, <3>2, NextKeeps DEF DecodeRefuse, Decoded
    <3>3. QED
      BY <1>2, <3>1, <3>2, NextPhases
  <2>3. QED
    BY <2>1, <2>2 DEF UnfoldInv
<1>3. CASE HandOver
  <2>1. handed' # <<>> /\ edits' = edits
    BY <1>3, HandedIsThere DEF HandOver
  <2>2. QED
    BY <2>1 DEF UnfoldInv
<1>4. CASE Convert /\ ~ HandOver
  <2>1. edits' \in {edits, edits + 1} /\ origin' = origin /\ handed' = handed
    BY <1>4 DEF Convert, ConvertLeaf, Enter, NextElement, NextEntry, Leave, Refuse, PayloadChanges, PayloadThrows,
                Converted, vars, scriptVars, heapVars
  <2>2. edits \in Nat
    BY DEF UnfoldInv
  <2>3. edits' \in Nat /\ (edits' = 0 => edits = 0)
    BY <2>1, <2>2
  <2>4. QED
    BY <1>4, <2>1, <2>3, UnfoldConverted DEF UnfoldInv
<1>5. QED
  BY <1>1, <1>2, <1>3, <1>4 DEF ScriptNext

(* Whatever objects a payload passes, in whatever way they hold each       *)
(* other: those no payload code changes are converted to what they unfold  *)
(* to, and are refused only if one of them cannot be converted, contains   *)
(* itself, or runs code.                                                   *)
THEOREM ObjectsUnfold == ScriptSpec => []Unfolds
<1>1. UnfoldInv => Unfolds
  BY DEF UnfoldInv, Unfolds, Made, Refusable
<1>2. ScriptInit => ValuesInv /\ HandedInv /\ LimitsInv /\ UnfoldInv
  BY ValuesInit, HandedInit, LimitsInit, UnfoldInit
<1>3. QED
  BY <1>1, <1>2, ValuesNext, HandedNext, LimitsNext, UnfoldNext, PathsSimple, PTL DEF ScriptSpec
=============================================================================
