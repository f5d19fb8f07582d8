------------------------- MODULE BridgeValueProofs --------------------------
(***************************************************************************)
(* The codec, for any limits, values and bytes: what the decoder holds,    *)
(* and that to_wire and from_wire undo each other.  The two procedures go  *)
(* through a value in step: after the same tokens the encoder is in the    *)
(* containers the decoder has open, at the entries it has read.  So each   *)
(* run of one is followed by the other, which then can neither refuse nor  *)
(* come to something else.                                                 *)
(***************************************************************************)
EXTENDS BridgeValue, SequenceTheorems, FiniteSetTheorems, TLAPS

\* A sequence of whatever it holds: the values read have no set to be in.
Listed(s) == s \in Seq({s[i] : i \in 1..Len(s)})

LEMMA ListedProperties ==
    ASSUME NEW S, NEW s \in Seq(S)
    PROVE  Listed(s)
<1>1. s \in [1..Len(s) -> S] /\ Len(s) \in Nat
  BY LenProperties
<1>2. s \in [1..Len(s) -> {s[i] : i \in 1..Len(s)}]
  BY <1>1
<1>3. QED
  BY <1>1, <1>2, SeqDef DEF Listed

LEMMA ListedAppend ==
    ASSUME NEW s, NEW e, Listed(s)
    PROVE  /\ Listed(Append(s, e))
           /\ Len(s) \in Nat
           /\ Len(Append(s, e)) = Len(s) + 1
           /\ \A i \in 1..Len(s) : Append(s, e)[i] = s[i]
           /\ Append(s, e)[Len(s) + 1] = e
<1> DEFINE S == {s[i] : i \in 1..Len(s)}
           T == S \cup {e}
<1>1. s \in Seq(T) /\ e \in T
  <2>1. s \in Seq(S) /\ S \subseteq T
    BY DEF Listed
  <2> HIDE DEF S
  <2>2. QED
    BY <2>1, SeqMonotonic
<1> HIDE DEF T
<1>2. /\ Append(s, e) \in Seq(T)
      /\ Len(Append(s, e)) = Len(s) + 1
      /\ \A i \in 1..Len(s) : Append(s, e)[i] = s[i]
      /\ Append(s, e)[Len(s) + 1] = e
  BY <1>1, AppendProperties
<1>3. QED
  BY <1>1, <1>2, ListedProperties, LenProperties

LEMMA Prefix ==
    ASSUME NEW S, NEW s, NEW n \in Nat, \A i \in 1..n : s[i] \in S
    PROVE  /\ SubSeq(s, 1, n) \in Seq(S)
           /\ Len(SubSeq(s, 1, n)) = n
           /\ \A i \in 1..n : SubSeq(s, 1, n)[i] = s[i]
  BY SubSeqProperties

LEMMA ListedRest ==
    ASSUME NEW s, Listed(s), s # <<>>
    PROVE  /\ Listed(Rest(s))
           /\ Len(s) \in Nat \ {0}
           /\ Len(Rest(s)) = Len(s) - 1
           /\ \A i \in 1..Len(s) - 1 : Rest(s)[i] = s[i]
<1> DEFINE S == {s[i] : i \in 1..Len(s)}
<1>1. s \in Seq(S) /\ Len(s) \in Nat \ {0}
  BY EmptySeq, LenProperties DEF Listed
<1>2. \A i \in 1..Len(s) - 1 : s[i] \in S
  BY <1>1
<1> HIDE DEF S
<1>3. /\ SubSeq(s, 1, Len(s) - 1) \in Seq(S)
      /\ Len(SubSeq(s, 1, Len(s) - 1)) = Len(s) - 1
      /\ \A i \in 1..Len(s) - 1 : SubSeq(s, 1, Len(s) - 1)[i] = s[i]
  <2>1. PICK n \in Nat : n = Len(s) - 1
    BY <1>1
  <2>2. \A i \in 1..n : s[i] \in S
    BY <1>2, <2>1
  <2>3. /\ SubSeq(s, 1, n) \in Seq(S)
        /\ Len(SubSeq(s, 1, n)) = n
        /\ \A i \in 1..n : SubSeq(s, 1, n)[i] = s[i]
    BY <2>2, Prefix
  <2>4. QED
    BY <2>1, <2>3
<1>4. QED
  BY <1>1, <1>3, ListedProperties DEF Rest

LEMMA ListedReplace ==
    ASSUME NEW s, Listed(s), s # <<>>, NEW e, NEW t, t = [s EXCEPT ![Len(s)] = e]
    PROVE  /\ Listed(t)
           /\ Len(t) = Len(s)
           /\ \A i \in 1..Len(s) - 1 : t[i] = s[i]
           /\ t[Len(s)] = e
<1> DEFINE S == {s[i] : i \in 1..Len(s)}
           T == S \cup {e}
<1>1. s \in Seq(T) /\ e \in T /\ Len(s) \in Nat \ {0}
  <2>1. s \in Seq(S) /\ S \subseteq T
    BY DEF Listed
  <2> HIDE DEF S
  <2>2. s \in Seq(T) /\ e \in T
    BY <2>1, SeqMonotonic
  <2>3. QED
    BY <2>2, EmptySeq
<1> HIDE DEF T
<1>2. t \in Seq(T) /\ Len(t) = Len(s)
  BY <1>1, ExceptSeq
<1>3. DOMAIN s = 1..Len(s)
  BY <1>1, LenProperties
<1>4. \A i \in 1..Len(s) - 1 : i \in DOMAIN s /\ i # Len(s)
  <2>1. PICK n \in Nat \ {0} : n = Len(s)
    BY <1>1
  <2>2. \A i \in 1..n - 1 : i \in 1..n /\ i # n
    OBVIOUS
  <2>3. QED
    BY <1>3, <2>1, <2>2
<1>5. Len(s) \in DOMAIN s
  BY <1>1, <1>3
<1>6. Listed(t)
  BY <1>2, ListedProperties
<1>7. QED
  BY <1>2, <1>4, <1>5, <1>6, Zenon

\* The last element of s replaced by e.
Replaced(s, e, t) ==
    /\ Listed(t)
    /\ Len(t) = Len(s)
    /\ \A i \in 1..Len(s) - 1 : t[i] = s[i]
    /\ t[Len(s)] = e

LEMMA Replacing ==
    \A s, e, t : Listed(s) /\ s # <<>> /\ t = [s EXCEPT ![Len(s)] = e] => Replaced(s, e, t)
  BY ListedReplace DEF Replaced

-----------------------------------------------------------------------------
\* A frame, with what is needed to add to it.
FrameOK(frame) ==
    WellFormed(frame) /\ Listed(frame.keys) /\ Listed(frame.items) /\ Len(frame.keys) <= frame.number

\* It waits for the value of its next entry.
Pending(frame) ==
    /\ Len(frame.items) < frame.number
    /\ frame.kind = "map" => Len(frame.keys) = Len(frame.items) + 1

StackOK(stack) ==
    /\ Listed(stack)
    /\ Len(stack) <= MaxDepth + 1
    /\ \A i \in 1..Len(stack) : FrameOK(stack[i])
    /\ \A i \in 1..Len(stack) - 1 : Pending(stack[i])

IInv ==
    origin = "wire" /\ phase = "decode" =>
        /\ wire \in Seq(AnyToken)
        /\ offset \in 0..Len(wire)
        /\ count \in 0..MaxValues
        /\ content \in 0..MaxContent
        /\ StackOK(open)

\* A value completed goes to the container that waits for it.
LEMMA ReturnKeeps ==
    ASSUME NEW v, NEW around, StackOK(around),
           around # <<>> => Pending(Top(around)),
           Return(v, around)
    PROVE  StackOK(open')
<1>1. CASE around = <<>>
  BY <1>1 DEF Return
<1>2. CASE around # <<>>
  <2> DEFINE f == Top(around)
             g == [f EXCEPT !.items = Append(@, v)]
  <2>1. Len(around) \in Nat \ {0}
    BY <1>2, ListedRest DEF StackOK
  <2>2. FrameOK(f) /\ Pending(f)
    BY <1>2, <2>1 DEF StackOK, Top
  <2>3. open' = [around EXCEPT ![Len(around)] = g]
    BY <1>2 DEF Return, Top
  <2>4. /\ Listed(Append(f.items, v)) /\ Len(Append(f.items, v)) = Len(f.items) + 1
        /\ Len(f.items) \in Nat
    BY <2>2, ListedAppend DEF FrameOK
  <2>5. f.number \in 0..MaxContainer
    BY <2>2 DEF FrameOK, WellFormed
  <2>6. FrameOK(g)
    <3>1. g.kind = f.kind /\ g.number = f.number /\ g.keys = f.keys /\ g.items = Append(f.items, v)
      BY <2>2 DEF FrameOK, WellFormed, Pending
    <3>2. Len(Append(f.items, v)) <= f.number
      BY <2>2, <2>4, <2>5, LimitsAssumption DEF Pending
    <3>3. f.kind = "map" => Len(f.keys) = Len(Append(f.items, v))
      BY <2>2, <2>4 DEF Pending
    <3> HIDE DEF g, f
    <3>4. WellFormed(g)
      BY <2>2, <3>1, <3>2, <3>3 DEF FrameOK, WellFormed
    <3>5. QED
      BY <2>2, <2>4, <3>1, <3>4 DEF FrameOK
  <2> HIDE DEF g, f
  <2>7. /\ Listed(open')
        /\ Len(open') = Len(around)
        /\ \A i \in 1..Len(around) - 1 : open'[i] = around[i]
        /\ open'[Len(around)] = g
    <3>1. Listed(around)
      BY DEF StackOK
    <3>2. Replaced(around, g, open')
      BY <1>2, <2>3, <3>1, Replacing, Zenon
    <3>3. QED
      BY <3>2 DEF Replaced
  <2>8. ASSUME NEW i \in 1..Len(open') PROVE FrameOK(open'[i])
    <3>1. CASE i = Len(around)
      BY <2>6, <2>7, <3>1
    <3>2. CASE i # Len(around)
      <4>1. i \in 1..Len(around) - 1 /\ i \in 1..Len(around)
        BY <2>1, <2>7, <3>2
      <4>2. QED
        BY <2>7, <4>1 DEF StackOK
    <3>3. QED
      BY <3>1, <3>2
  <2>9. \A i \in 1..Len(open') - 1 : Pending(open'[i])
    BY <2>7 DEF StackOK
  <2>10. QED
    BY <2>7, <2>8, <2>9 DEF StackOK
<1>3. QED
  BY <1>1, <1>2

\* The container a value is wanted for waits for it.
LEMMA Waiting ==
    ASSUME StackOK(open), Wants = "value", open # <<>>
    PROVE  Pending(Top(open))
<1>1. Len(open) \in Nat \ {0}
  BY ListedRest DEF StackOK
<1>2. FrameOK(Top(open))
  BY <1>1 DEF StackOK, Top
<1>3. /\ Len(Top(open).items) \in Nat /\ Len(Top(open).keys) \in Nat /\ Top(open).number \in Nat
      /\ Len(Top(open).items) <= Top(open).number
      /\ Top(open).kind = "map" => Len(Top(open).keys) \in {Len(Top(open).items), Len(Top(open).items) + 1}
  BY <1>2, ListedAppend DEF FrameOK, WellFormed
<1>4. QED
  BY <1>3 DEF Wants, Pending

LEMMA AheadIsToken ==
    ASSUME wire \in Seq(AnyToken), offset \in 0..Len(wire), There
    PROVE  /\ Ahead \in AnyToken
           /\ offset + 1 \in 0..Len(wire)
           /\ Size(Ahead) \in Nat
<1>1. Len(wire) \in Nat /\ offset + 1 \in 1..Len(wire)
  BY LenProperties DEF There
<1>2. Ahead \in AnyToken
  BY <1>1, ElementOfSeq DEF Ahead
<1>3. Size(Ahead) \in Nat
  BY <1>2, LimitsAssumption DEF Size, AnyToken
<1>4. QED
  BY <1>1, <1>2, <1>3

LEMMA BoundedInit == Init => IInv
<1> SUFFICES ASSUME Init, origin = "wire", phase = "decode"
             PROVE  /\ wire \in Seq(AnyToken)
                    /\ offset \in 0..Len(wire)
                    /\ count \in 0..MaxValues
                    /\ content \in 0..MaxContent
                    /\ StackOK(open)
  BY DEF IInv
<1>1. wire \in Seq(AnyToken) /\ Len(wire) \in Nat
  <2>1. wire \in Openings
    BY DEF Init, InitValue, InitWire
  <2>2. QED
    BY <2>1, TokensAssumption, LenProperties
<1>2. StackOK(open)
  <2>1. open = <<>> /\ Len(open) = 0 /\ open \in Seq(Nat)
    BY EmptySeq DEF Init, InitRest
  <2>2. Listed(open)
    BY <2>1, ListedProperties
  <2>3. \A i \in 1..Len(open) : FALSE
    BY <2>1
  <2>4. \A i \in 1..Len(open) - 1 : FALSE
    BY <2>1
  <2>5. Len(open) <= MaxDepth + 1
    BY <2>1, LimitsAssumption
  <2>6. QED
    BY <2>2, <2>3, <2>4, <2>5, Zenon DEF StackOK
<1>3. QED
  BY <1>1, <1>2, LimitsAssumption DEF Init, InitRest

LEMMA BoundedNext == IInv /\ [Next]_vars => IInv'
<1> SUFFICES ASSUME IInv, [Next]_vars, origin' = "wire", phase' = "decode"
             PROVE  /\ wire' \in Seq(AnyToken)
                    /\ offset' \in 0..Len(wire')
                    /\ count' \in 0..MaxValues
                    /\ content' \in 0..MaxContent
                    /\ StackOK(open')
  BY DEF IInv, StackOK
<1> USE LimitsAssumption
<1>0. origin = "wire" /\ phase = "decode"
  BY DEF Next, Encode, Decode, EncodeLeaf, EncodeContainer, EncodeItem, EncodeEntry, EncodeLeave, EncodeRefuse,
         Encoded, Supply, SupplyEnds, DecodeLeaf, DecodeContainer, DecodeKey, DecodeLeave, DecodeRefuse, Decoded,
         Calls, HasNext, There, vars
<1>1. /\ wire \in Seq(AnyToken) /\ Len(wire) \in Nat
      /\ offset \in 0..Len(wire)
      /\ count \in 0..MaxValues
      /\ content \in 0..MaxContent
      /\ StackOK(open) /\ Listed(open)
  BY <1>0, LenProperties DEF IInv, StackOK
<1>2. ASSUME UNCHANGED <<wire, offset, open, count, content>>
      PROVE  /\ wire' \in Seq(AnyToken)
             /\ offset' \in 0..Len(wire')
             /\ count' \in 0..MaxValues
             /\ content' \in 0..MaxContent
             /\ StackOK(open')
  BY <1>1, <1>2
<1>3. ASSUME NEW token \in Tokens, Supply(token)
      PROVE  /\ wire' \in Seq(AnyToken)
             /\ offset' \in 0..Len(wire')
             /\ count' \in 0..MaxValues
             /\ content' \in 0..MaxContent
             /\ StackOK(open')
  <2>1. token \in AnyToken
    BY TokensAssumption
  <2>2. wire' \in Seq(AnyToken) /\ Len(wire') = Len(wire) + 1
    BY <1>1, <1>3, <2>1, AppendProperties DEF Supply
  <2>3. QED
    BY <1>1, <1>3, <2>2 DEF Supply, counters
<1>4. ASSUME DecodeLeaf
      PROVE  /\ wire' \in Seq(AnyToken)
             /\ offset' \in 0..Len(wire')
             /\ count' \in 0..MaxValues
             /\ content' \in 0..MaxContent
             /\ StackOK(open')
  <2>1. Ahead \in AnyToken /\ offset + 1 \in 0..Len(wire) /\ Size(Ahead) \in Nat
    BY <1>1, <1>4, AheadIsToken DEF DecodeLeaf
  <2>2. count < MaxValues /\ content + Size(Ahead) <= MaxContent
    BY <1>4 DEF DecodeLeaf, LeafDecodable, Admits, Affords
  <2>3. StackOK(open')
    BY <1>1, <1>4, Waiting, ReturnKeeps DEF DecodeLeaf
  <2>4. QED
    BY <1>1, <1>4, <2>1, <2>2, <2>3 DEF DecodeLeaf, Add
<1>5. ASSUME DecodeContainer
      PROVE  /\ wire' \in Seq(AnyToken)
             /\ offset' \in 0..Len(wire')
             /\ count' \in 0..MaxValues
             /\ content' \in 0..MaxContent
             /\ StackOK(open')
  <2> DEFINE f == [kind |-> Ahead.kind, number |-> Ahead.number, keys |-> <<>>, items |-> <<>>]
  <2>1. Ahead \in AnyToken /\ offset + 1 \in 0..Len(wire)
    BY <1>1, <1>5, AheadIsToken DEF DecodeContainer
  <2>2. /\ count < MaxValues /\ Len(open) <= MaxDepth
        /\ Ahead.kind \in Containers /\ Ahead.number <= MaxContainer
        /\ open' = Append(open, f)
    BY <1>5 DEF DecodeContainer, ContainerDecodable, Admits
  <2>3. FrameOK(f)
    <3>1. <<>> \in Seq(Nat) /\ Len(<<>>) = 0
      BY EmptySeq
    <3>2. Listed(<<>>)
      BY <3>1, ListedProperties
    <3>3. Ahead.number \in 0..MaxContainer
      <4>1. Ahead.number \in Nat
        BY <2>1, <2>2, Zenon DEF AnyToken
      <4>2. QED
        BY <2>2, <4>1
    <3>4. QED
      BY <2>2, <3>1, <3>2, <3>3 DEF FrameOK, WellFormed
  <2> HIDE DEF f
  <2>4. /\ Listed(open') /\ Len(open) \in Nat /\ Len(open') = Len(open) + 1
        /\ \A i \in 1..Len(open) : open'[i] = open[i]
        /\ open'[Len(open) + 1] = f
    BY <1>1, <2>2, ListedAppend
  <2>5. \A i \in 1..Len(open') : FrameOK(open'[i])
    BY <1>1, <2>3, <2>4 DEF StackOK
  <2>6. \A i \in 1..Len(open) : Pending(open[i])
    <3>1. ASSUME NEW i \in 1..Len(open) PROVE Pending(open[i])
      <4>1. CASE i = Len(open)
        <5>1. open # <<>>
          BY <2>4, <4>1, EmptySeq
        <5>2. QED
          BY <1>1, <1>5, <4>1, <5>1, Waiting DEF DecodeContainer, Top
      <4>2. CASE i # Len(open)
        <5>1. i \in 1..Len(open) - 1
          BY <2>4, <4>2
        <5>2. QED
          BY <1>1, <5>1 DEF StackOK
      <4>3. QED
        BY <4>1, <4>2
    <3>2. QED
      BY <3>1
  <2>7. StackOK(open')
    <3>1. \A i \in 1..Len(open') - 1 : i \in 1..Len(open)
      BY <2>4
    <3>2. Len(open') <= MaxDepth + 1
      BY <2>2, <2>4
    <3>3. QED
      BY <2>4, <2>5, <2>6, <3>1, <3>2 DEF StackOK
  <2>8. QED
    BY <1>1, <1>5, <2>1, <2>2, <2>7 DEF DecodeContainer
<1>6. ASSUME DecodeKey
      PROVE  /\ wire' \in Seq(AnyToken)
             /\ offset' \in 0..Len(wire')
             /\ count' \in 0..MaxValues
             /\ content' \in 0..MaxContent
             /\ StackOK(open')
  <2> DEFINE f == Top(open)
             key == Ahead.text
             g == [f EXCEPT !.keys = Append(@, key)]
  <2>1. Ahead \in AnyToken /\ offset + 1 \in 0..Len(wire) /\ Size(Ahead) \in Nat
    BY <1>1, <1>6, AheadIsToken DEF DecodeKey
  <2>2. /\ content + Size(Ahead) <= MaxContent
        /\ \A j \in 1..Len(f.keys) : f.keys[j] # key
        /\ open # <<>>
        /\ f.kind = "map" /\ Len(f.keys) = Len(f.items) /\ Len(f.items) # f.number
    BY <1>6 DEF DecodeKey, KeyDecodable, Affords, Wants
  <2>3. Len(open) \in Nat \ {0}
    BY <1>1, <2>2, ListedRest
  <2>4. FrameOK(f)
    BY <1>1, <2>3 DEF StackOK, Top
  <2>5. /\ Listed(Append(f.keys, key)) /\ Len(f.keys) \in Nat
        /\ Len(Append(f.keys, key)) = Len(f.keys) + 1
        /\ \A i \in 1..Len(f.keys) : Append(f.keys, key)[i] = f.keys[i]
        /\ Append(f.keys, key)[Len(f.keys) + 1] = key
    BY <2>4, ListedAppend DEF FrameOK
  <2>6. g.kind = f.kind /\ g.number = f.number /\ g.keys = Append(f.keys, key) /\ g.items = f.items
    <3>1. DOMAIN f = DOMAIN g
      OBVIOUS
    <3>2. QED
      BY <2>2, <2>5
  <2>7. open' = [open EXCEPT ![Len(open)] = g]
    BY <1>6 DEF DecodeKey, Top
  <2> HIDE DEF f, g, key
  <2>8. FrameOK(g)
    <3>1. \A i, j \in 1..Len(f.keys) + 1 : Append(f.keys, key)[i] = Append(f.keys, key)[j] => i = j
      <4>1. ASSUME NEW i \in 1..Len(f.keys) + 1, NEW j \in 1..Len(f.keys) + 1,
                   Append(f.keys, key)[i] = Append(f.keys, key)[j], i # j
            PROVE  FALSE
        <5>1. i \in 1..Len(f.keys) \/ i = Len(f.keys) + 1
          BY <2>5
        <5>2. j \in 1..Len(f.keys) \/ j = Len(f.keys) + 1
          BY <2>5
        <5>3. \A a, b \in 1..Len(f.keys) : f.keys[a] = f.keys[b] => a = b
          BY <2>4 DEF FrameOK, WellFormed
        <5>4. QED
          BY <2>2, <2>5, <4>1, <5>1, <5>2, <5>3
      <4>2. QED
        BY <4>1
    <3>2. WellFormed(g)
      BY <2>2, <2>4, <2>5, <2>6, <3>1 DEF FrameOK, WellFormed
    <3>3. Len(f.keys) + 1 <= f.number
      <4>1. Len(f.keys) \in Nat /\ f.number \in Nat /\ Len(f.keys) <= f.number
        BY <2>4, <2>5 DEF FrameOK, WellFormed
      <4>2. QED
        BY <2>2, <4>1
    <3>4. QED
      BY <2>4, <2>5, <2>6, <3>2, <3>3 DEF FrameOK
  <2>9. /\ Listed(open')
        /\ Len(open') = Len(open)
        /\ \A i \in 1..Len(open) - 1 : open'[i] = open[i]
        /\ open'[Len(open)] = g
    <3>1. Replaced(open, g, open')
      BY <1>1, <2>2, <2>7, Replacing, Zenon
    <3>2. QED
      BY <3>1 DEF Replaced
  <2>10. ASSUME NEW i \in 1..Len(open') PROVE FrameOK(open'[i])
    <3>1. CASE i = Len(open)
      BY <2>8, <2>9, <3>1
    <3>2. CASE i # Len(open)
      <4>1. i \in 1..Len(open) - 1 /\ i \in 1..Len(open)
        BY <2>3, <2>9, <3>2
      <4>2. QED
        BY <1>1, <2>9, <4>1 DEF StackOK
    <3>3. QED
      BY <3>1, <3>2
  <2>11. StackOK(open')
    BY <1>1, <2>9, <2>10 DEF StackOK
  <2>12. QED
    BY <1>1, <1>6, <2>1, <2>2, <2>11 DEF DecodeKey, Add
<1>7. ASSUME DecodeLeave
      PROVE  /\ wire' \in Seq(AnyToken)
             /\ offset' \in 0..Len(wire')
             /\ count' \in 0..MaxValues
             /\ content' \in 0..MaxContent
             /\ StackOK(open')
  <2>1. open # <<>>
    BY <1>7 DEF DecodeLeave, Wants
  <2>2. /\ Listed(Rest(open)) /\ Len(open) \in Nat \ {0}
        /\ Len(Rest(open)) = Len(open) - 1
        /\ \A i \in 1..Len(open) - 1 : Rest(open)[i] = open[i]
    BY <1>1, <2>1, ListedRest
  <2>3. \A i \in 1..Len(Rest(open)) : i \in 1..Len(open) /\ i \in 1..Len(open) - 1
    BY <2>2
  <2>4. \A i \in 1..Len(Rest(open)) : FrameOK(Rest(open)[i]) /\ Pending(Rest(open)[i])
    BY <1>1, <2>2, <2>3 DEF StackOK
  <2>5. StackOK(Rest(open))
    <3>1. Len(Rest(open)) <= MaxDepth + 1
      BY <1>1, <2>2 DEF StackOK
    <3>2. \A i \in 1..Len(Rest(open)) - 1 : i \in 1..Len(Rest(open))
      BY <2>2
    <3>3. QED
      BY <2>2, <2>4, <3>1, <3>2 DEF StackOK
  <2>6. Rest(open) # <<>> => Pending(Top(Rest(open)))
    <3>1. Rest(open) # <<>> => Len(Rest(open)) \in 1..Len(Rest(open))
      BY <2>2, ListedRest
    <3>2. QED
      BY <2>4, <3>1 DEF Top
  <2>7. StackOK(open')
    BY <1>7, <2>5, <2>6, ReturnKeeps DEF DecodeLeave
  <2>8. QED
    BY <1>1, <1>7, <2>7 DEF DecodeLeave, counters
<1>8. QED
  BY <1>0, <1>2, <1>3, <1>4, <1>5, <1>6, <1>7
  DEF Next, Encode, Decode, EncodeLeaf, EncodeContainer, EncodeItem, EncodeEntry, EncodeLeave, EncodeRefuse,
      Encoded, SupplyEnds, DecodeRefuse, Decoded, Calls, HasNext, vars, decoderVars, counters

(* Whatever bytes arrive and whatever the limits are, the decoder stays    *)
(* within them.                                                            *)
THEOREM DecoderBounded == Spec => []Bounded
<1>1. IInv => Bounded
  BY DEF IInv, Bounded, StackOK, FrameOK
<1>2. QED
  BY <1>1, BoundedInit, BoundedNext, PTL DEF Spec

-----------------------------------------------------------------------------
(* The two procedures in step *)

LEMMA ListedEqual ==
    ASSUME NEW s, NEW t, Listed(s), Listed(t), Len(s) = Len(t),
           \A i \in 1..Len(s) : s[i] = t[i]
    PROVE  s = t
<1> DEFINE S == {s[i] : i \in 1..Len(s)} \cup {t[i] : i \in 1..Len(t)}
<1>1. s \in Seq(S) /\ t \in Seq(S)
  <2> DEFINE A == {s[i] : i \in 1..Len(s)}
             B == {t[i] : i \in 1..Len(t)}
  <2>1. s \in Seq(A) /\ t \in Seq(B) /\ A \subseteq S /\ B \subseteq S
    BY DEF Listed
  <2> HIDE DEF A, B, S
  <2>2. QED
    BY <2>1, SeqMonotonic
<1> HIDE DEF S
<1>2. QED
  BY <1>1, SeqEqual

LEMMA ListedEmpty == Listed(<<>>) /\ Len(<<>>) = 0
  BY EmptySeq DEF Listed

LEMMA EmptyIsListed ==
    ASSUME NEW s, Listed(s), Len(s) = 0
    PROVE  s = <<>>
<1>1. \A i \in 1..Len(s) : s[i] = <<>>[i]
  OBVIOUS
<1>2. QED
  BY <1>1, ListedEmpty, ListedEqual

LEMMA RestOfAppend ==
    ASSUME NEW s, NEW e, Listed(s)
    PROVE  Rest(Append(s, e)) = s /\ Top(Append(s, e)) = e /\ Append(s, e) # <<>>
<1> DEFINE t == Append(s, e)
<1>1. /\ Listed(t) /\ Len(s) \in Nat /\ Len(t) = Len(s) + 1
      /\ \A i \in 1..Len(s) : t[i] = s[i]
      /\ t[Len(s) + 1] = e
  BY ListedAppend
<1> HIDE DEF t
<1>2. t # <<>>
  BY <1>1, ListedEmpty
<1>3. /\ Listed(Rest(t)) /\ Len(Rest(t)) = Len(t) - 1
      /\ \A i \in 1..Len(t) - 1 : Rest(t)[i] = t[i]
  BY <1>1, <1>2, ListedRest
<1>4. Len(t) - 1 = Len(s)
  BY <1>1
<1>5. Rest(t) = s
  BY <1>1, <1>3, <1>4, ListedEqual
<1>6. QED
  BY <1>1, <1>2, <1>5 DEF Top, t

LEMMA AppendToRest ==
    ASSUME NEW s, Listed(s), s # <<>>
    PROVE  s = Append(Rest(s), Top(s))
<1> DEFINE t == Append(Rest(s), Top(s))
<1>1. /\ Listed(Rest(s)) /\ Len(s) \in Nat \ {0} /\ Len(Rest(s)) = Len(s) - 1
      /\ \A i \in 1..Len(s) - 1 : Rest(s)[i] = s[i]
  BY ListedRest
<1>2. /\ Listed(t) /\ Len(t) = Len(Rest(s)) + 1
      /\ \A i \in 1..Len(Rest(s)) : t[i] = Rest(s)[i]
      /\ t[Len(Rest(s)) + 1] = Top(s)
  BY <1>1, ListedAppend
<1> HIDE DEF t
<1>3. Len(t) = Len(s) /\ t[Len(s)] = s[Len(s)]
  BY <1>1, <1>2 DEF Top
<1>4. ASSUME NEW i \in 1..Len(s) PROVE s[i] = t[i]
  <2>1. i \in 1..Len(s) - 1 \/ i = Len(s)
    BY <1>1
  <2>2. QED
    BY <1>1, <1>2, <1>3, <2>1
<1>5. QED
  BY <1>2, <1>3, <1>4, ListedEqual DEF t

\* Replacing the last element can be undone.
LEMMA ReplacedBack ==
    ASSUME NEW s, NEW e, NEW t, Listed(s), s # <<>>, Replaced(s, e, t)
    PROVE  Replaced(t, Top(s), s) /\ t # <<>> /\ Top(t) = e
<1>1. Len(s) \in Nat \ {0}
  BY ListedRest
<1>2. t # <<>>
  BY <1>1, ListedEmpty DEF Replaced
<1>3. QED
  BY <1>1, <1>2 DEF Replaced, Top

-----------------------------------------------------------------------------
(* The encoder, as a relation between its states *)

EncoderAt(called, stack, pos, values, bytes) ==
    [call |-> called, work |-> stack, pos |-> pos, count |-> values, content |-> bytes]

\* The encoder's state: pos tokens are written.
EState == EncoderAt(call, work, Len(out), count, content)

\* Token is what follows the tokens written, in s.
Writes(s, e, token) == e.pos + 1 \in 1..Len(s) /\ s[e.pos + 1] = token

AdmitsIn(e) == Len(e.work) <= MaxDepth /\ e.count < MaxValues

AffordsIn(e, token) == Size(token) <= SizeLimit(token) /\ e.content + Size(token) <= MaxContent

Entry(v, at) == [value |-> v, at |-> at]

\* The next entry of the container e is in, and what is there after it.
AtEntry(e) == e.call = <<>> /\ e.work # <<>> /\ Top(e.work).at <= Len(Top(e.work).value.items)
Turned(e, stack) == Replaced(e.work, Entry(Top(e.work).value, Top(e.work).at + 1), stack)
NextItem(e) == Top(e.work).value.items[Top(e.work).at]
NextKey(e) == Key(Top(e.work).value.keys[Top(e.work).at])

StepLeaf(e, f, s) ==
    LET v == e.call[1]
        token == FirstToken(v)
    IN  /\ e.call # <<>>
        /\ v.kind \in LeafKinds
        /\ AdmitsIn(e) /\ v.text \notin Invalid /\ AffordsIn(e, token)
        /\ Writes(s, e, token)
        /\ f = EncoderAt(<<>>, e.work, e.pos + 1, e.count + 1, e.content + Size(token))

StepContainer(e, f, s) ==
    LET v == e.call[1]
    IN  /\ e.call # <<>>
        /\ v.kind \in Containers
        /\ AdmitsIn(e) /\ Len(v.items) <= MaxContainer
        /\ Writes(s, e, FirstToken(v))
        /\ f = EncoderAt(<<>>, Append(e.work, Entry(v, 1)), e.pos + 1, e.count + 1, e.content)

StepItem(e, f) ==
    /\ AtEntry(e)
    /\ Top(e.work).value.kind = "array"
    /\ Turned(e, f.work)
    /\ f = EncoderAt(<<NextItem(e)>>, f.work, e.pos, e.count, e.content)

StepEntry(e, f, s) ==
    /\ AtEntry(e)
    /\ Top(e.work).value.kind = "map"
    /\ \A j \in 1..Top(e.work).at - 1 : Top(e.work).value.keys[j] # Top(e.work).value.keys[Top(e.work).at]
    /\ AffordsIn(e, NextKey(e))
    /\ Writes(s, e, NextKey(e))
    /\ Turned(e, f.work)
    /\ f = EncoderAt(<<NextItem(e)>>, f.work, e.pos + 1, e.count, e.content + Size(NextKey(e)))

StepLeave(e, f) ==
    /\ e.call = <<>> /\ e.work # <<>>
    /\ Top(e.work).at > Len(Top(e.work).value.items)
    /\ f = EncoderAt(<<>>, Rest(e.work), e.pos, e.count, e.content)

Step(e, f, s) ==
    StepLeaf(e, f, s) \/ StepContainer(e, f, s) \/ StepItem(e, f) \/ StepEntry(e, f, s) \/ StepLeave(e, f)

\* The containers the encoder is in: each is the entry of the one around it that it is at.
Whole(v) ==
    /\ v.kind \in Containers
    /\ v = Container(v.kind, v.keys, v.items)
    /\ Listed(v.keys) /\ Listed(v.items)
    /\ Len(v.keys) = IF v.kind = "map" THEN Len(v.items) ELSE 0

EntryOK(x) == x = Entry(x.value, x.at) /\ Whole(x.value) /\ x.at \in 1..Len(x.value.items) + 1

Path(stack, root) ==
    /\ Listed(stack)
    /\ \A i \in 1..Len(stack) : EntryOK(stack[i])
    /\ stack # <<>> => stack[1].value = root[1]
    /\ \A i \in 1..Len(stack) - 1 :
           stack[i].at >= 2 /\ stack[i + 1].value = stack[i].value.items[stack[i].at - 1]

\* It waits for the value of the entry before the one it is at.
Busy(stack) == stack # <<>> => Top(stack).at >= 2

Due(stack, root) == IF stack = <<>> THEN root[1] ELSE Top(stack).value.items[Top(stack).at - 1]

Sound(e, root) ==
    /\ e = EncoderAt(e.call, e.work, e.pos, e.count, e.content)
    /\ root = <<root[1]>>
    /\ Path(e.work, root)
    /\ e.call # <<>> => e.call = <<Due(e.work, root)>> /\ Busy(e.work)

LEMMA PathPush ==
    ASSUME NEW stack, NEW root, NEW x, Path(stack, root), Busy(stack), EntryOK(x), x.value = Due(stack, root)
    PROVE  Path(Append(stack, x), root)
<1> DEFINE t == Append(stack, x)
           n == Len(stack)
<1>1. /\ Listed(t) /\ n \in Nat /\ Len(t) = n + 1
      /\ \A i \in 1..n : t[i] = stack[i]
      /\ t[n + 1] = x
  BY ListedAppend DEF Path
<1> HIDE DEF t, n
<1>2. \A i \in 1..Len(t) : i \in 1..n \/ i = n + 1
  BY <1>1
<1>3. \A i \in 1..Len(t) : EntryOK(t[i])
  BY <1>1, <1>2 DEF Path, n
<1>4. t[1].value = root[1]
  <2>1. CASE stack = <<>>
    BY <1>1, <2>1, ListedEmpty DEF Due, n
  <2>2. CASE stack # <<>>
    <3>1. n \in Nat \ {0}
      BY <2>2, ListedRest DEF Path, n
    <3>2. 1 \in 1..n
      BY <3>1
    <3>3. QED
      BY <1>1, <2>2, <3>2 DEF Path
  <2>3. QED
    BY <2>1, <2>2
<1>5. ASSUME NEW i \in 1..Len(t) - 1 PROVE t[i].at >= 2 /\ t[i + 1].value = t[i].value.items[t[i].at - 1]
  <2>1. CASE i = n
    <3>1. stack # <<>>
      BY <1>1, <2>1, ListedEmpty DEF n
    <3>2. n \in 1..n
      BY <1>1, <2>1
    <3>3. t[i] = Top(stack) /\ t[i + 1] = x
      BY <1>1, <2>1, <3>2 DEF Top, n
    <3>4. QED
      BY <3>1, <3>3 DEF Busy, Due
  <2>2. CASE i # n
    <3>1. i \in 1..n - 1 /\ i \in 1..n /\ i + 1 \in 1..n
      BY <1>1, <2>2
    <3>2. stack[i].at >= 2 /\ stack[i + 1].value = stack[i].value.items[stack[i].at - 1]
      BY <3>1 DEF Path, n
    <3>3. t[i] = stack[i] /\ t[i + 1] = stack[i + 1]
      BY <1>1, <3>1
    <3>4. QED
      BY <3>2, <3>3
  <2>3. QED
    BY <2>1, <2>2
<1>6. QED
  BY <1>1, <1>3, <1>4, <1>5 DEF Path, t

LEMMA PathPop ==
    ASSUME NEW stack, NEW root, Path(stack, root), stack # <<>>
    PROVE  /\ Path(Rest(stack), root)
           /\ Busy(Rest(stack))
           /\ EntryOK(Top(stack))
           /\ Top(stack).value = Due(Rest(stack), root)
<1> DEFINE r == Rest(stack)
           n == Len(stack)
<1>1. /\ Listed(r) /\ n \in Nat \ {0} /\ Len(r) = n - 1
      /\ \A i \in 1..n - 1 : r[i] = stack[i]
  BY ListedRest DEF Path
<1> HIDE DEF r, n
<1>2. EntryOK(Top(stack))
  <2>1. n \in 1..n
    BY <1>1
  <2>2. QED
    BY <2>1 DEF Path, Top, n
<1>3. Path(r, root)
  <2>1. \A i \in 1..Len(r) : i \in 1..n /\ r[i] = stack[i]
    BY <1>1
  <2>2. \A i \in 1..Len(r) - 1 : i \in 1..n - 1 /\ r[i] = stack[i] /\ r[i + 1] = stack[i + 1]
    BY <1>1
  <2>3. r # <<>> => r[1] = stack[1]
    <3>1. r # <<>> => Len(r) \in Nat \ {0}
      BY <1>1, ListedRest
    <3>2. r # <<>> => 1 \in 1..n - 1
      BY <1>1, <3>1
    <3>3. QED
      BY <1>1, <3>2
  <2>4. QED
    BY <1>1, <2>1, <2>2, <2>3 DEF Path, n
<1>4. CASE r = <<>>
  <2>1. n = 1
    BY <1>1, <1>4, ListedEmpty
  <2>2. QED
    BY <1>2, <1>3, <1>4, <2>1 DEF Busy, Due, Path, Top, n, r
<1>5. CASE r # <<>>
  <2>1. Len(r) \in Nat \ {0}
    BY <1>1, <1>5, ListedRest
  <2>2. n - 1 \in 1..n - 1
    BY <1>1, <2>1
  <2>3. Top(r) = stack[n - 1]
    BY <1>1, <2>2 DEF Top
  <2>4. stack[n - 1].at >= 2 /\ stack[(n - 1) + 1].value = stack[n - 1].value.items[stack[n - 1].at - 1]
    BY <2>2 DEF Path, n
  <2>5. (n - 1) + 1 = n
    BY <1>1
  <2>6. Top(stack) = stack[n]
    BY DEF Top, n
  <2>7. Busy(r) /\ Top(stack).value = Due(r, root)
    BY <1>5, <2>3, <2>4, <2>5, <2>6 DEF Busy, Due
  <2>8. QED
    BY <1>2, <1>3, <2>7 DEF r
<1>6. QED
  BY <1>4, <1>5

LEMMA PathTurn ==
    ASSUME NEW stack, NEW root, NEW x, NEW t, Path(stack, root), stack # <<>>, EntryOK(x),
           x.value = Top(stack).value, Replaced(stack, x, t)
    PROVE  Path(t, root) /\ t # <<>> /\ Top(t) = x
<1> DEFINE n == Len(stack)
<1>1. t # <<>> /\ Top(t) = x
  BY ReplacedBack DEF Path
<1>2. /\ Listed(t) /\ Len(t) = n /\ n \in Nat \ {0}
      /\ \A i \in 1..n - 1 : t[i] = stack[i]
      /\ t[n] = x
  BY ListedRest DEF Replaced, Path
<1> HIDE DEF n
<1>3. \A i \in 1..n : t[i].value = stack[i].value /\ EntryOK(t[i])
  <2>1. ASSUME NEW i \in 1..n PROVE t[i].value = stack[i].value /\ EntryOK(t[i])
    <3>1. CASE i = n
      BY <1>2, <3>1 DEF Top, n
    <3>2. CASE i # n
      <4>1. i \in 1..n - 1
        BY <1>2, <3>2
      <4>2. QED
        BY <1>2, <4>1 DEF Path, n
    <3>3. QED
      BY <3>1, <3>2
  <2>2. QED
    BY <2>1
<1>4. ASSUME NEW i \in 1..Len(t) - 1 PROVE t[i].at >= 2 /\ t[i + 1].value = t[i].value.items[t[i].at - 1]
  <2>1. i \in 1..n - 1 /\ i + 1 \in 1..n
    BY <1>2
  <2>2. stack[i].at >= 2 /\ stack[i + 1].value = stack[i].value.items[stack[i].at - 1]
    BY <2>1 DEF Path, n
  <2>3. t[i] = stack[i] /\ t[i + 1].value = stack[i + 1].value
    BY <1>2, <1>3, <2>1
  <2>4. QED
    BY <2>2, <2>3
<1>5. t[1].value = root[1]
  <2>1. 1 \in 1..n
    BY <1>2
  <2>2. QED
    BY <1>3, <2>1 DEF Path
<1>6. QED
  BY <1>1, <1>2, <1>3, <1>4, <1>5 DEF Path

-----------------------------------------------------------------------------
(* What the encoder has to do with the values it is given *)

Within(e, S) ==
    /\ e.call # <<>> => e.call[1] \in S
    /\ \A i \in 1..Len(e.work) : e.work[i].value \in S

LEMMA ContainersOf ==
    ASSUME NEW S, ValueSet(S), NEW v \in S
    PROVE  /\ v.kind \in LeafKinds => IsLeaf(v)
           /\ v.kind \in Containers => Whole(v) /\ v.items \in Seq(S)
<1>1. LeafKinds \cap Containers = {}
  BY DEF LeafKinds, Containers
<1>2. ASSUME IsContainer(v), v.items \in Seq(S) PROVE Whole(v)
  <2>1. PICK n \in Nat : n = IF v.kind = "map" THEN Len(v.items) ELSE 0
    BY <1>2, LenProperties
  <2>2. v.keys = [i \in 1..n |-> v.keys[i]]
    BY <1>2, <2>1 DEF IsContainer
  <2>3. v.keys \in Seq({v.keys[i] : i \in 1..n}) /\ Len(v.keys) = n
    BY <2>2
  <2>4. QED
    BY <1>2, <2>1, <2>3, ListedProperties DEF IsContainer, Whole
<1>3. QED
  BY <1>1, <1>2 DEF ValueSet, IsLeaf, IsContainer

\* The fields of what a step comes to.
LEMMA EncoderFields ==
    ASSUME NEW c, NEW w, NEW p, NEW n, NEW b, NEW f, f = EncoderAt(c, w, p, n, b)
    PROVE  /\ f.call = c /\ f.work = w /\ f.pos = p /\ f.count = n /\ f.content = b
           /\ f = EncoderAt(f.call, f.work, f.pos, f.count, f.content)
  BY DEF EncoderAt

LEMMA EntryFields ==
    ASSUME NEW v, NEW at
    PROVE  Entry(v, at).value = v /\ Entry(v, at).at = at /\ Entry(v, at) = Entry(Entry(v, at).value, Entry(v, at).at)
  BY DEF Entry

\* The entry the encoder is at, when the container is not over.
LEMMA AtEntryFacts ==
    ASSUME NEW e, NEW root, Sound(e, root), AtEntry(e)
    PROVE  /\ EntryOK(Top(e.work))
           /\ Top(e.work).at \in Nat \ {0}
           /\ Top(e.work).at \in 1..Len(Top(e.work).value.items)
           /\ EntryOK(Entry(Top(e.work).value, Top(e.work).at + 1))
<1> DEFINE x == Top(e.work)
           n == Len(x.value.items)
<1>1. EntryOK(x) /\ x.at <= n
  BY PathPop DEF Sound, AtEntry
<1>2. n \in Nat
  BY <1>1, ListedAppend DEF EntryOK, Whole
<1>3. x.at \in 1..n + 1
  BY <1>1 DEF EntryOK
<1> HIDE DEF x
<1>4. x.at \in 1..n /\ x.at + 1 \in 1..n + 1
  BY <1>1, <1>2, <1>3
<1>5. EntryOK(Entry(x.value, x.at + 1))
  BY <1>1, <1>4, EntryFields DEF EntryOK
<1>6. QED
  BY <1>1, <1>2, <1>4, <1>5 DEF x

LEMMA TurnedIsSound ==
    ASSUME NEW e, NEW root, NEW f, NEW p, NEW b, Sound(e, root), AtEntry(e), Turned(e, f.work),
           f = EncoderAt(<<NextItem(e)>>, f.work, p, e.count, b)
    PROVE  Sound(f, root) /\ f.work # <<>> /\ Top(f.work) = Entry(Top(e.work).value, Top(e.work).at + 1)
<1> DEFINE x == Entry(Top(e.work).value, Top(e.work).at + 1)
           k == Top(e.work).at
<1>1. EntryOK(x) /\ k \in Nat \ {0} /\ x.value = Top(e.work).value /\ x.at = k + 1
  BY AtEntryFacts, EntryFields
<1>2. Replaced(e.work, x, f.work) /\ Path(e.work, root) /\ e.work # <<>> /\ root = <<root[1]>>
  BY DEF Turned, Sound, AtEntry
<1> HIDE DEF x
<1>3. Path(f.work, root) /\ f.work # <<>> /\ Top(f.work) = x
  BY <1>1, <1>2, PathTurn
<1>4. f.call = <<NextItem(e)>> /\ f = EncoderAt(f.call, f.work, f.pos, f.count, f.content)
  BY EncoderFields
<1>5. (k + 1) - 1 = k /\ k + 1 >= 2
  BY <1>1
<1>6. NextItem(e) = Due(f.work, root) /\ Busy(f.work)
  BY <1>1, <1>3, <1>5 DEF NextItem, Due, Busy
<1>7. QED
  BY <1>2, <1>3, <1>4, <1>6 DEF Sound, x

LEMMA StepIsSound ==
    ASSUME NEW S, ValueSet(S), NEW e, NEW f, NEW s, NEW root, Sound(e, root), Within(e, S), Step(e, f, s)
    PROVE  Sound(f, root) /\ Within(f, S)
<1>0. /\ Path(e.work, root) /\ root = <<root[1]>> /\ Listed(e.work)
      /\ e.call # <<>> => e.call = <<Due(e.work, root)>> /\ Busy(e.work)
  BY DEF Sound, Path
<1>1. CASE StepLeaf(e, f, s)
  <2>1. /\ f.call = <<>> /\ f.work = e.work
        /\ f = EncoderAt(f.call, f.work, f.pos, f.count, f.content)
    BY <1>1, EncoderFields DEF StepLeaf
  <2>2. QED
    BY <1>0, <2>1 DEF Sound, Within
<1>2. CASE StepContainer(e, f, s)
  <2> DEFINE v == e.call[1]
             x == Entry(v, 1)
  <2>1. /\ f.call = <<>> /\ f.work = Append(e.work, x)
        /\ f = EncoderAt(f.call, f.work, f.pos, f.count, f.content)
    <3> DEFINE w == Append(e.work, x)
    <3>1. f = EncoderAt(<<>>, w, e.pos + 1, e.count + 1, e.content)
      BY <1>2 DEF StepContainer
    <3> HIDE DEF w
    <3>2. f.call = <<>> /\ f.work = w /\ f = EncoderAt(f.call, f.work, f.pos, f.count, f.content)
      BY <3>1, EncoderFields
    <3>3. QED
      BY <3>2 DEF w
  <2>2. /\ v \in S /\ v.kind \in Containers /\ v = Due(e.work, root) /\ Busy(e.work)
    BY <1>0, <1>2 DEF StepContainer, Within
  <2>3. EntryOK(x) /\ x.value = v
    <3>1. Whole(v) /\ Listed(v.items)
      BY <2>2, ContainersOf DEF Whole
    <3>2. Len(v.items) \in Nat
      BY <3>1, ListedAppend
    <3>3. 1 \in 1..Len(v.items) + 1
      BY <3>2
    <3>4. QED
      BY <3>1, <3>3, EntryFields DEF EntryOK
  <2> HIDE DEF x, v
  <2>4. Path(f.work, root)
    BY <1>0, <2>1, <2>2, <2>3, PathPush
  <2>5. ASSUME NEW i \in 1..Len(f.work) PROVE f.work[i].value \in S
    <3>1. /\ Len(e.work) \in Nat /\ Len(f.work) = Len(e.work) + 1
          /\ \A j \in 1..Len(e.work) : f.work[j] = e.work[j]
          /\ f.work[Len(e.work) + 1] = x
      BY <1>0, <2>1, ListedAppend
    <3>2. i \in 1..Len(e.work) \/ i = Len(e.work) + 1
      BY <3>1
    <3>3. QED
      BY <2>2, <2>3, <3>1, <3>2 DEF Within
  <2>6. QED
    BY <1>0, <2>1, <2>4, <2>5 DEF Sound, Within
<1>3. CASE StepItem(e, f) \/ StepEntry(e, f, s)
  <2>1. /\ AtEntry(e) /\ Turned(e, f.work)
        /\ \E p, b : f = EncoderAt(<<NextItem(e)>>, f.work, p, e.count, b)
    BY <1>3 DEF StepItem, StepEntry
  <2>2. Sound(f, root) /\ f.call = <<NextItem(e)>>
    BY <2>1, TurnedIsSound, EncoderFields
  <2>3. NextItem(e) \in S
    <3> DEFINE x == Top(e.work)
    <3>1. EntryOK(x) /\ x.at \in 1..Len(x.value.items) /\ e.work # <<>>
      BY <2>1, AtEntryFacts DEF AtEntry
    <3>2. Len(e.work) \in 1..Len(e.work)
      BY <1>0, <3>1, ListedRest
    <3>3. x.value \in S
      BY <3>2 DEF Within, Top
    <3> HIDE DEF x
    <3>4. x.value.items \in Seq(S)
      BY <3>1, <3>3, ContainersOf DEF EntryOK, Whole
    <3>5. x.value.items[x.at] \in S
      BY <3>1, <3>4, ElementOfSeq
    <3>6. QED
      BY <3>5 DEF NextItem, x
  <2>4. ASSUME NEW i \in 1..Len(f.work) PROVE f.work[i].value \in S
    <3>1. /\ Len(f.work) = Len(e.work)
          /\ \A j \in 1..Len(e.work) - 1 : f.work[j] = e.work[j]
          /\ f.work[Len(e.work)] = Entry(Top(e.work).value, Top(e.work).at + 1)
          /\ Len(e.work) \in Nat \ {0}
      BY <1>0, <2>1, ListedRest DEF Turned, Replaced, AtEntry
    <3>2. i \in 1..Len(e.work) - 1 \/ i = Len(e.work)
      BY <3>1
    <3>3. \A j \in 1..Len(e.work) - 1 : j \in 1..Len(e.work)
      BY <3>1
    <3>4. Len(e.work) \in 1..Len(e.work)
      BY <3>1
    <3>5. QED
      BY <3>1, <3>2, <3>3, <3>4, EntryFields DEF Within, Top
  <2>5. QED
    BY <2>2, <2>3, <2>4 DEF Within
<1>4. CASE StepLeave(e, f)
  <2>1. /\ f.call = <<>> /\ f.work = Rest(e.work) /\ e.work # <<>>
        /\ f = EncoderAt(f.call, f.work, f.pos, f.count, f.content)
    BY <1>4, EncoderFields DEF StepLeave
  <2>2. Path(f.work, root)
    BY <1>0, <2>1, PathPop
  <2>3. ASSUME NEW i \in 1..Len(f.work) PROVE f.work[i].value \in S
    <3>1. /\ Len(e.work) \in Nat \ {0} /\ Len(f.work) = Len(e.work) - 1
          /\ \A j \in 1..Len(e.work) - 1 : f.work[j] = e.work[j]
      BY <1>0, <2>1, ListedRest
    <3>2. i \in 1..Len(e.work) - 1 /\ i \in 1..Len(e.work)
      BY <3>1
    <3>3. QED
      BY <3>1, <3>2 DEF Within
  <2>4. QED
    BY <1>0, <2>1, <2>2, <2>3 DEF Sound, Within
<1>5. QED
  BY <1>1, <1>2, <1>3, <1>4 DEF Step

-----------------------------------------------------------------------------
(* Runs of the encoder *)

Start(root) == EncoderAt(root, <<>>, 0, 0, 0)

\* T is a way from encoding the root to the state to, along which s is written.
Road(T, root, to, s) ==
    /\ Start(root) \in T
    /\ to \in T
    /\ \A t \in T : Sound(t, root) /\ (t = to \/ \E f \in T : Step(t, f, s))

LEMMA RoadStarts ==
    ASSUME NEW root, NEW s, root = <<root[1]>>
    PROVE  Sound(Start(root), root) /\ Road({Start(root)}, root, Start(root), s)
<1>1. /\ Start(root).call = root /\ Start(root).work = <<>>
      /\ Start(root) = EncoderAt(Start(root).call, Start(root).work, Start(root).pos, Start(root).count, Start(root).content)
  BY EncoderFields DEF Start
<1>2. Path(<<>>, root) /\ Busy(<<>>) /\ Due(<<>>, root) = root[1]
  <2>1. Listed(<<>>) /\ Len(<<>>) = 0
    BY ListedEmpty
  <2>2. QED
    BY <2>1 DEF Path, Busy, Due
<1>3. Sound(Start(root), root)
  BY <1>1, <1>2 DEF Sound
<1>4. QED
  BY <1>3 DEF Road

LEMMA RoadGoesOn ==
    ASSUME NEW T, NEW root, NEW e, NEW f, NEW s, Road(T, root, e, s), Step(e, f, s), Sound(f, root)
    PROVE  Road(T \cup {f}, root, f, s)
  BY DEF Road

LEMMA StepStays ==
    ASSUME NEW e, NEW f, NEW s, NEW token, Listed(s), Step(e, f, s)
    PROVE  Step(e, f, Append(s, token))
<1>1. \A x : Writes(s, e, x) => Writes(Append(s, token), e, x)
  <2>1. Len(s) \in Nat /\ Len(Append(s, token)) = Len(s) + 1 /\ \A i \in 1..Len(s) : Append(s, token)[i] = s[i]
    BY ListedAppend
  <2>2. \A i \in 1..Len(s) : i \in 1..Len(s) + 1
    BY <2>1
  <2>3. QED
    BY <2>1, <2>2 DEF Writes
<1>2. StepLeaf(e, f, s) => StepLeaf(e, f, Append(s, token))
  BY <1>1 DEF StepLeaf
<1>3. StepContainer(e, f, s) => StepContainer(e, f, Append(s, token))
  BY <1>1 DEF StepContainer
<1>4. StepEntry(e, f, s) => StepEntry(e, f, Append(s, token))
  BY <1>1 DEF StepEntry
<1>5. QED
  BY <1>2, <1>3, <1>4 DEF Step

LEMMA RoadStays ==
    ASSUME NEW T, NEW root, NEW to, NEW s, NEW token, Listed(s), Road(T, root, to, s)
    PROVE  Road(T, root, to, Append(s, token))
  BY StepStays DEF Road

-----------------------------------------------------------------------------
(* In step *)

\* A container the decoder is in, and the encoder at the same place: n items were read.
Agrees(frame, x, n) ==
    /\ frame.kind = x.value.kind
    /\ frame.number = Len(x.value.items)
    /\ Listed(frame.items) /\ Listed(frame.keys)
    /\ Len(frame.items) = n
    /\ \A j \in 1..n : frame.items[j] = x.value.items[j]
    /\ Len(frame.keys) = IF x.value.kind = "map" THEN x.at - 1 ELSE 0
    /\ \A j \in 1..Len(frame.keys) : frame.keys[j] = x.value.keys[j]

\* All of them; of the innermost the encoder is so many entries ahead.
Alike(stack, path, ahead) ==
    /\ Listed(stack) /\ Listed(path) /\ Len(stack) = Len(path)
    /\ \A i \in 1..Len(path) - 1 : Agrees(stack[i], path[i], path[i].at - 2)
    /\ path # <<>> => Agrees(Top(stack), Top(path), Top(path).at - ahead)

InStep(e, root) ==
    /\ offset = e.pos /\ count = e.count /\ content = e.content
    /\ Alike(open, e.work, IF e.call = <<>> THEN 1 ELSE 2)
    /\ result = IF e.call = <<>> /\ e.work = <<>> THEN root ELSE <<>>

LEMMA AlikeEmpty ==
    ASSUME NEW stack, NEW path, NEW ahead, Alike(stack, path, ahead)
    PROVE  stack = <<>> <=> path = <<>>
  BY EmptyIsListed, ListedEmpty DEF Alike

LEMMA AlikePush ==
    ASSUME NEW stack, NEW path, NEW frame, NEW x, Alike(stack, path, 2), Agrees(frame, x, x.at - 1)
    PROVE  Alike(Append(stack, frame), Append(path, x), 1)
<1> DEFINE t == Append(stack, frame)
           q == Append(path, x)
           n == Len(path)
<1>1. /\ Listed(t) /\ Listed(q) /\ n \in Nat /\ Len(t) = n + 1 /\ Len(q) = n + 1
      /\ \A i \in 1..n : t[i] = stack[i] /\ q[i] = path[i]
      /\ t[n + 1] = frame /\ q[n + 1] = x
  BY ListedAppend DEF Alike
<1> HIDE DEF t, q, n
<1>2. ASSUME NEW i \in 1..Len(q) - 1 PROVE Agrees(t[i], q[i], q[i].at - 2)
  <2>1. i \in 1..n
    BY <1>1
  <2>2. CASE i = n
    <3>1. path # <<>>
      BY <2>1, ListedEmpty DEF n
    <3>2. Agrees(stack[n], path[n], path[n].at - 2)
      BY <3>1 DEF Alike, Top, n
    <3>3. QED
      BY <1>1, <2>1, <2>2, <3>2
  <2>3. CASE i # n
    <3>1. i \in 1..n - 1
      BY <1>1, <2>1, <2>3
    <3>2. Agrees(stack[i], path[i], path[i].at - 2)
      BY <3>1 DEF Alike, n
    <3>3. QED
      BY <1>1, <2>1, <3>2
  <2>4. QED
    BY <2>2, <2>3
<1>3. Top(t) = frame /\ Top(q) = x
  BY <1>1 DEF Top
<1>4. QED
  BY <1>1, <1>2, <1>3 DEF Alike, t, q

LEMMA AlikePop ==
    ASSUME NEW stack, NEW path, NEW ahead, Alike(stack, path, ahead), path # <<>>
    PROVE  /\ stack # <<>>
           /\ Alike(Rest(stack), Rest(path), 2)
           /\ Agrees(Top(stack), Top(path), Top(path).at - ahead)
<1> DEFINE n == Len(path)
           t == Rest(stack)
           q == Rest(path)
<1>1. stack # <<>>
  BY AlikeEmpty
<1>2. /\ Listed(t) /\ Listed(q) /\ n \in Nat \ {0} /\ Len(t) = n - 1 /\ Len(q) = n - 1
      /\ \A i \in 1..n - 1 : t[i] = stack[i] /\ q[i] = path[i]
  BY <1>1, ListedRest DEF Alike
<1> HIDE DEF t, q, n
<1>3. \A i \in 1..n - 1 : Agrees(t[i], q[i], q[i].at - 2)
  BY <1>2 DEF Alike, n
<1>4. \A i \in 1..Len(q) - 1 : i \in 1..n - 1
  BY <1>2
<1>5. q # <<>> => Agrees(Top(t), Top(q), Top(q).at - 2)
  <2>1. q # <<>> => Len(q) \in Nat \ {0}
    BY <1>2, ListedRest
  <2>2. q # <<>> => n - 1 \in 1..n - 1
    BY <1>2, <2>1
  <2>3. QED
    BY <1>2, <1>3, <2>2 DEF Top
<1>6. Alike(t, q, 2)
  BY <1>2, <1>3, <1>4, <1>5 DEF Alike
<1>7. QED
  BY <1>1, <1>6 DEF Alike, t, q

LEMMA AlikeTurn ==
    ASSUME NEW stack, NEW path, NEW ahead, Alike(stack, path, ahead), path # <<>>,
           NEW frame, NEW t, Replaced(stack, frame, t),
           NEW x, NEW q, Replaced(path, x, q),
           NEW further, Agrees(frame, x, x.at - further)
    PROVE  Alike(t, q, further)
<1> DEFINE n == Len(path)
<1>1. stack # <<>>
  BY AlikeEmpty
<1>2. /\ Listed(t) /\ Listed(q) /\ n \in Nat \ {0} /\ Len(t) = n /\ Len(q) = n
      /\ \A i \in 1..n - 1 : t[i] = stack[i] /\ q[i] = path[i]
      /\ t[n] = frame /\ q[n] = x
  BY <1>1, ListedRest DEF Alike, Replaced
<1> HIDE DEF n
<1>3. \A i \in 1..n - 1 : Agrees(t[i], q[i], q[i].at - 2)
  BY <1>2 DEF Alike, n
<1>4. Top(t) = frame /\ Top(q) = x
  BY <1>2 DEF Top
<1>5. QED
  BY <1>2, <1>3, <1>4 DEF Alike

LEMMA ReplacedSame ==
    ASSUME NEW s, Listed(s), s # <<>>
    PROVE  Replaced(s, Top(s), s)
  BY DEF Replaced, Top

-----------------------------------------------------------------------------
(* The decoder follows a run of the encoder *)

\* What is known of the containers both are in.
LEMMA TopFacts ==
    ASSUME NEW path, NEW root, Path(path, root), path # <<>>
    PROVE  /\ EntryOK(Top(path))
           /\ Len(Top(path).value.items) \in Nat
           /\ Top(path).at \in Nat \ {0}
           /\ Top(path).at <= Len(Top(path).value.items) + 1
           /\ Top(path).value.kind \in {"array", "map"}
<1> DEFINE x == Top(path)
<1>1. EntryOK(x)
  BY PathPop
<1> HIDE DEF x
<1>2. Len(x.value.items) \in Nat
  BY <1>1, ListedAppend DEF EntryOK, Whole
<1>3. x.at \in 1..Len(x.value.items) + 1 /\ x.value.kind \in {"array", "map"}
  BY <1>1 DEF EntryOK, Whole, Containers
<1>4. QED
  BY <1>1, <1>2, <1>3 DEF x

\* The item a container waits for is added to it.
LEMMA ItemAdded ==
    ASSUME NEW frame, NEW x, x.at \in Nat, Agrees(frame, x, x.at - 2),
           NEW v, v = x.value.items[x.at - 1]
    PROVE  Agrees([frame EXCEPT !.items = Append(@, v)], x, x.at - 1)
<1> DEFINE g == [frame EXCEPT !.items = Append(@, v)]
           n == Len(frame.items)
<1>1. /\ Listed(frame.items) /\ n = x.at - 2 /\ \A j \in 1..n : frame.items[j] = x.value.items[j]
  BY DEF Agrees
<1>2. /\ Listed(Append(frame.items, v)) /\ n \in Nat /\ Len(Append(frame.items, v)) = n + 1
      /\ \A i \in 1..n : Append(frame.items, v)[i] = frame.items[i]
      /\ Append(frame.items, v)[n + 1] = v
  BY <1>1, ListedAppend
<1>3. g.kind = frame.kind /\ g.number = frame.number /\ g.keys = frame.keys /\ g.items = Append(frame.items, v)
  BY <1>1 DEF Agrees
<1> HIDE DEF g, n
<1>4. n + 1 = x.at - 1
  BY <1>1, <1>2
<1>5. \A j \in 1..n + 1 : g.items[j] = x.value.items[j]
  <2>1. \A j \in 1..n + 1 : j \in 1..n \/ j = n + 1
    BY <1>2
  <2>2. QED
    BY <1>1, <1>2, <1>3, <1>4, <2>1
<1>6. QED
  BY <1>2, <1>3, <1>4, <1>5 DEF Agrees, g

LEMMA KeyAdded ==
    ASSUME NEW frame, NEW x, x.at \in Nat \ {0}, x.value.kind = "map", Agrees(frame, x, x.at - 1)
    PROVE  Agrees([frame EXCEPT !.keys = Append(@, x.value.keys[x.at])],
                  Entry(x.value, x.at + 1), (x.at + 1) - 2)
<1> DEFINE k == x.value.keys[x.at]
           g == [frame EXCEPT !.keys = Append(@, k)]
           n == Len(frame.keys)
           y == Entry(x.value, x.at + 1)
<1>1. /\ Listed(frame.keys) /\ n = x.at - 1 /\ \A j \in 1..n : frame.keys[j] = x.value.keys[j]
  BY DEF Agrees
<1>2. /\ Listed(Append(frame.keys, k)) /\ n \in Nat /\ Len(Append(frame.keys, k)) = n + 1
      /\ \A i \in 1..n : Append(frame.keys, k)[i] = frame.keys[i]
      /\ Append(frame.keys, k)[n + 1] = k
  BY <1>1, ListedAppend
<1>3. g.kind = frame.kind /\ g.number = frame.number /\ g.keys = Append(frame.keys, k) /\ g.items = frame.items
  BY <1>1 DEF Agrees
<1>4. y.value = x.value /\ y.at = x.at + 1
  BY EntryFields
<1>5. k = x.value.keys[x.at]
  OBVIOUS
<1> HIDE DEF g, n, y, k
<1>6. n + 1 = x.at /\ (x.at + 1) - 1 = x.at /\ (x.at + 1) - 2 = x.at - 1
  BY <1>1
<1>7. \A j \in 1..n + 1 : g.keys[j] = x.value.keys[j]
  <2>1. \A j \in 1..n + 1 : j \in 1..n \/ j = n + 1
    BY <1>2
  <2>2. QED
    BY <1>1, <1>2, <1>3, <1>5, <1>6, <2>1
<1>8. Agrees(g, y, x.at - 1)
  BY <1>2, <1>3, <1>4, <1>6, <1>7 DEF Agrees
<1>9. QED
  BY <1>6, <1>8 DEF g, y, k

LEMMA ReturnFollows ==
    ASSUME NEW path, NEW root, NEW around, NEW v, Path(path, root), root = <<root[1]>>,
           Alike(around, path, 2), v = Due(path, root), Return(v, around), result = <<>>
    PROVE  Alike(open', path, 1) /\ result' = IF path = <<>> THEN root ELSE <<>>
<1>1. CASE path = <<>>
  <2>1. around = <<>>
    BY <1>1, AlikeEmpty
  <2>2. open' = <<>> /\ result' = root
    BY <1>1, <2>1 DEF Return, Due
  <2>3. QED
    BY <1>1, <2>2, ListedEmpty DEF Alike
<1>2. CASE path # <<>>
  <2> DEFINE f == Top(around)
             x == Top(path)
             g == [f EXCEPT !.items = Append(@, v)]
  <2>1. around # <<>>
    BY <1>2, AlikeEmpty
  <2>2. open' = [around EXCEPT ![Len(around)] = g] /\ result' = <<>>
    BY <2>1 DEF Return, Top
  <2>3. Agrees(f, x, x.at - 2) /\ x.at \in Nat /\ v = x.value.items[x.at - 1]
    BY <1>2, AlikePop, TopFacts DEF Due
  <2> HIDE DEF f, x
  <2>4. Agrees(g, x, x.at - 1)
    BY <2>3, ItemAdded
  <2> HIDE DEF g
  <2>5. Replaced(around, g, open') /\ Replaced(path, x, path)
    BY <1>2, <2>1, <2>2, Replacing, ReplacedSame, Zenon DEF Alike, x
  <2>6. Alike(open', path, 1)
    BY <1>2, <2>4, <2>5, AlikeTurn
  <2>7. QED
    BY <1>2, <2>2, <2>6
<1>3. QED
  BY <1>1, <1>2

\* What the decoder reads next is what the encoder writes next.
LEMMA NextIsAhead ==
    ASSUME NEW e, NEW root, NEW token, InStep(e, root), Writes(wire, e, token), Listed(wire), offset \in Nat
    PROVE  offset < Len(wire) /\ Ahead = token /\ offset # Len(wire)
<1>1. Len(wire) \in Nat
  BY ListedAppend
<1>2. offset + 1 \in 1..Len(wire) /\ wire[offset + 1] = token
  BY DEF InStep, Writes
<1>3. QED
  BY <1>1, <1>2 DEF Ahead

LEMMA WantsAValue ==
    ASSUME NEW e, NEW root, Sound(e, root), InStep(e, root), e.call # <<>>
    PROVE  Wants = "value" /\ result = <<>> /\ Alike(open, e.work, 2)
<1>1. Alike(open, e.work, 2) /\ result = <<>> /\ Path(e.work, root) /\ Busy(e.work)
  BY DEF InStep, Sound
<1>2. CASE e.work = <<>>
  BY <1>1, <1>2, AlikeEmpty DEF Wants
<1>3. CASE e.work # <<>>
  <2> DEFINE f == Top(open)
             x == Top(e.work)
  <2>1. open # <<>> /\ Agrees(f, x, x.at - 2)
    BY <1>1, <1>3, AlikePop, AlikeEmpty
  <2>2. Len(x.value.items) \in Nat /\ x.at \in Nat \ {0} /\ x.at <= Len(x.value.items) + 1 /\ x.at >= 2
        /\ x.value.kind \in {"array", "map"}
    BY <1>1, <1>3, TopFacts DEF Busy
  <2> HIDE DEF f, x
  <2>3. /\ Len(f.items) = x.at - 2 /\ f.number = Len(x.value.items) /\ f.kind = x.value.kind
        /\ Len(f.keys) = IF f.kind = "map" THEN x.at - 1 ELSE 0
    BY <2>1 DEF Agrees
  <2>4. Len(f.items) # f.number /\ ~ (f.kind = "map" /\ Len(f.keys) = Len(f.items))
    BY <2>2, <2>3
  <2>5. QED
    BY <1>1, <2>1, <2>4 DEF Wants, f
<1>4. QED
  BY <1>2, <1>3

LEMMA WantsAKey ==
    ASSUME NEW e, NEW root, Sound(e, root), InStep(e, root), AtEntry(e), Top(e.work).value.kind = "map"
    PROVE  Wants = "key"
<1> DEFINE f == Top(open)
           x == Top(e.work)
<1>1. Path(e.work, root) /\ e.work # <<>> /\ x.at <= Len(x.value.items)
  BY DEF Sound, AtEntry
<1>2. open # <<>> /\ Agrees(f, x, x.at - 1)
  BY <1>1, AlikePop, AlikeEmpty DEF InStep, AtEntry
<1>3. Len(x.value.items) \in Nat /\ x.at \in Nat \ {0}
  BY <1>1, TopFacts
<1>4. x.value.kind = "map"
  OBVIOUS
<1> HIDE DEF f, x
<1>5. Len(f.items) = x.at - 1 /\ f.number = Len(x.value.items) /\ f.kind = "map" /\ Len(f.keys) = x.at - 1
  BY <1>2, <1>4 DEF Agrees
<1>6. Len(f.items) # f.number /\ f.kind = "map" /\ Len(f.keys) = Len(f.items)
  BY <1>1, <1>3, <1>5
<1>7. QED
  BY <1>2, <1>6 DEF Wants, f

LEMMA WantsNothing ==
    ASSUME NEW e, NEW root, NEW f, Sound(e, root), InStep(e, root), StepLeave(e, f)
    PROVE  /\ Wants = "nothing"
           /\ open # <<>>
           /\ Top(e.work).value = Container(Top(open).kind, Top(open).keys, Top(open).items)
<1> DEFINE frame == Top(open)
           x == Top(e.work)
           v == x.value
<1>1. Path(e.work, root) /\ e.work # <<>> /\ x.at > Len(v.items) /\ e.call = <<>>
  BY DEF Sound, StepLeave
<1>2. open # <<>> /\ Agrees(frame, x, x.at - 1)
  BY <1>1, AlikePop, AlikeEmpty DEF InStep
<1>3. Len(v.items) \in Nat /\ x.at \in Nat \ {0} /\ x.at <= Len(v.items) + 1 /\ EntryOK(x)
  BY <1>1, TopFacts
<1> HIDE DEF frame, x, v
<1>4. x.at - 1 = Len(v.items)
  BY <1>1, <1>3
<1>5. /\ frame.kind = v.kind /\ frame.number = Len(v.items)
      /\ Listed(frame.items) /\ Len(frame.items) = Len(v.items)
      /\ \A j \in 1..Len(v.items) : frame.items[j] = v.items[j]
      /\ Listed(frame.keys)
      /\ Len(frame.keys) = IF v.kind = "map" THEN Len(v.items) ELSE 0
      /\ \A j \in 1..Len(frame.keys) : frame.keys[j] = v.keys[j]
  BY <1>2, <1>4 DEF Agrees, v
<1>6. /\ v = Container(v.kind, v.keys, v.items)
      /\ Listed(v.items) /\ Listed(v.keys)
      /\ Len(v.keys) = IF v.kind = "map" THEN Len(v.items) ELSE 0
  BY <1>3, ListedProperties DEF EntryOK, Whole, v
<1>7. frame.items = v.items /\ frame.keys = v.keys
  <2>1. frame.items = v.items
    BY <1>5, <1>6, ListedEqual
  <2>2. Len(frame.keys) = Len(v.keys)
    BY <1>5, <1>6
  <2>3. frame.keys = v.keys
    BY <1>5, <1>6, <2>2, ListedEqual
  <2>4. QED
    BY <2>1, <2>3
<1>8. Wants = "nothing"
  BY <1>2, <1>5 DEF Wants, frame
<1>9. QED
  BY <1>2, <1>5, <1>6, <1>7, <1>8 DEF frame, v, x

\* The encoder chooses an item of an array; the decoder has nothing to do for that.
LEMMA ItemChosen ==
    ASSUME NEW e, NEW f, NEW root, Sound(e, root), InStep(e, root), StepItem(e, f)
    PROVE  InStep(f, root)
<1> DEFINE x == Top(e.work)
           y == Entry(x.value, x.at + 1)
           frame == Top(open)
<1>1. /\ e.call = <<>> /\ e.work # <<>> /\ x.value.kind = "array" /\ Replaced(e.work, y, f.work)
      /\ f = EncoderAt(<<NextItem(e)>>, f.work, e.pos, e.count, e.content)
  BY DEF StepItem, AtEntry, Turned
<1>2. /\ offset = e.pos /\ count = e.count /\ content = e.content /\ result = <<>>
      /\ Alike(open, e.work, 1)
  BY <1>1 DEF InStep
<1>3. f.call # <<>> /\ f.pos = e.pos /\ f.count = e.count /\ f.content = e.content
  BY <1>1, EncoderFields
<1>4. open # <<>> /\ Agrees(frame, x, x.at - 1) /\ x.at \in Nat \ {0} /\ y.value = x.value /\ y.at = x.at + 1
  BY <1>1, <1>2, AlikePop, AlikeEmpty, TopFacts, EntryFields DEF Sound
<1> HIDE DEF x, y, frame
<1>5. y.at - 2 = x.at - 1
  BY <1>4
<1>6. Agrees(frame, y, y.at - 2)
  BY <1>1, <1>4, <1>5 DEF Agrees
<1>7. Replaced(open, frame, open)
  BY <1>2, <1>4, ReplacedSame DEF Alike, frame
<1>8. Alike(open, f.work, 2)
  BY <1>1, <1>2, <1>6, <1>7, AlikeTurn
<1>9. QED
  BY <1>2, <1>3, <1>8 DEF InStep

\* While it is decoded, what was encoded changes no more.
Decoding == phase = "decode" /\ ended /\ Listed(wire) /\ offset \in Nat

LEMMA LeafFollows ==
    ASSUME NEW e, NEW f, NEW root, Sound(e, root), InStep(e, root), StepLeaf(e, f, wire), IsLeaf(e.call[1]),
           Decoding, Decode
    PROVE  DecodeLeaf /\ InStep(f, root)'
<1> DEFINE v == e.call[1]
           token == FirstToken(v)
<1>1. /\ e.call # <<>> /\ v.kind \in LeafKinds /\ AdmitsIn(e) /\ v.text \notin Invalid /\ AffordsIn(e, token)
      /\ Writes(wire, e, token)
      /\ f = EncoderAt(<<>>, e.work, e.pos + 1, e.count + 1, e.content + Size(token))
  BY DEF StepLeaf
<1>2. /\ Path(e.work, root) /\ root = <<root[1]>> /\ v = Due(e.work, root)
  BY <1>1 DEF Sound
<1>3. /\ offset = e.pos /\ count = e.count /\ content = e.content
      /\ Alike(open, e.work, 2) /\ result = <<>> /\ Wants = "value"
      /\ Len(open) = Len(e.work)
  BY <1>1, WantsAValue DEF InStep, Alike
<1>4. offset < Len(wire) /\ Ahead = token /\ offset # Len(wire)
  BY <1>1, NextIsAhead DEF Decoding
<1>5. /\ token.kind = v.kind /\ token.text = v.text /\ v.kind \notin Containers
      /\ v = Leaf(token.kind, token.text, token.number)
  BY <1>1 DEF IsLeaf, FirstToken, Token, LeafKinds, Containers
<1> HIDE DEF v, token
<1>6. Admits(Len(open)) /\ LeafDecodable(Ahead) /\ ~ ContainerDecodable(Ahead)
  BY <1>1, <1>3, <1>4, <1>5 DEF Admits, AdmitsIn, LeafDecodable, ContainerDecodable, Affords, AffordsIn
<1>7. DecodeLeaf
  BY <1>3, <1>4, <1>6
  DEF Decoding, Decode, Supply, SupplyEnds, DecodeContainer, DecodeKey, DecodeLeave, DecodeRefuse, Unreadable, Decoded
<1>8. /\ offset' = offset + 1 /\ count' = count + 1 /\ content' = content + Size(token)
      /\ Return(v, open)
  BY <1>4, <1>5, <1>7 DEF DecodeLeaf, Add
<1>9. Alike(open', e.work, 1) /\ result' = IF e.work = <<>> THEN root ELSE <<>>
  BY <1>2, <1>3, <1>8, ReturnFollows
<1>10. f.call = <<>> /\ f.work = e.work /\ f.pos = e.pos + 1 /\ f.count = e.count + 1 /\ f.content = e.content + Size(token)
  BY <1>1, EncoderFields
<1>11. QED
  BY <1>3, <1>7, <1>8, <1>9, <1>10 DEF InStep

LEMMA ContainerFollows ==
    ASSUME NEW e, NEW f, NEW root, Sound(e, root), InStep(e, root), StepContainer(e, f, wire),
           Decoding, Decode
    PROVE  DecodeContainer /\ InStep(f, root)'
<1> DEFINE v == e.call[1]
           token == FirstToken(v)
           x == Entry(v, 1)
           frame == [kind |-> v.kind, number |-> Len(v.items), keys |-> <<>>, items |-> <<>>]
           w == Append(e.work, x)
<1>1. /\ e.call # <<>> /\ v.kind \in Containers /\ AdmitsIn(e) /\ Len(v.items) <= MaxContainer
      /\ Writes(wire, e, token)
      /\ f = EncoderAt(<<>>, w, e.pos + 1, e.count + 1, e.content)
  BY DEF StepContainer
<1>2. /\ offset = e.pos /\ count = e.count /\ content = e.content
      /\ Alike(open, e.work, 2) /\ result = <<>> /\ Wants = "value"
      /\ Len(open) = Len(e.work)
  BY <1>1, WantsAValue DEF InStep, Alike
<1>3. offset < Len(wire) /\ Ahead = token /\ offset # Len(wire)
  BY <1>1, NextIsAhead DEF Decoding
<1>4. token.kind = v.kind /\ token.number = Len(v.items) /\ v.kind \notin LeafKinds
  BY <1>1 DEF FirstToken, Token, LeafKinds, Containers
<1>5. Agrees(frame, x, x.at - 1)
  <2>1. x.value = v /\ x.at = 1
    BY EntryFields
  <2>2. frame.kind = v.kind /\ frame.number = Len(v.items) /\ frame.keys = <<>> /\ frame.items = <<>>
    OBVIOUS
  <2> HIDE DEF x, v, frame
  <2>3. QED
    BY <2>1, <2>2, ListedEmpty DEF Agrees
<1> HIDE DEF token, x, frame, w
<1>6. Admits(Len(open)) /\ ContainerDecodable(Ahead) /\ ~ LeafDecodable(Ahead)
  BY <1>1, <1>2, <1>3, <1>4 DEF Admits, AdmitsIn, LeafDecodable, ContainerDecodable
<1>7. DecodeContainer
  BY <1>2, <1>3, <1>6
  DEF Decoding, Decode, Supply, SupplyEnds, DecodeLeaf, DecodeKey, DecodeLeave, DecodeRefuse, Unreadable, Decoded
<1>8. /\ offset' = offset + 1 /\ count' = count + 1 /\ content' = content /\ result' = result
      /\ open' = Append(open, frame)
  BY <1>3, <1>4, <1>7 DEF DecodeContainer, frame
<1>9. Alike(open', w, 1)
  BY <1>2, <1>5, <1>8, AlikePush DEF w
<1>10. f.call = <<>> /\ f.work = w /\ f.pos = e.pos + 1 /\ f.count = e.count + 1 /\ f.content = e.content
  BY <1>1, EncoderFields
<1>11. w # <<>>
  BY <1>2, RestOfAppend DEF Alike, w
<1>12. QED
  BY <1>2, <1>7, <1>8, <1>9, <1>10, <1>11 DEF InStep

LEMMA EntryFollows ==
    ASSUME NEW e, NEW f, NEW root, Sound(e, root), InStep(e, root), StepEntry(e, f, wire),
           Decoding, Decode
    PROVE  DecodeKey /\ InStep(f, root)'
<1> DEFINE x == Top(e.work)
           y == Entry(x.value, x.at + 1)
           frame == Top(open)
           key == x.value.keys[x.at]
           g == [frame EXCEPT !.keys = Append(@, key)]
           b == e.content + Size(Key(key))
<1>1. /\ AtEntry(e) /\ x.value.kind = "map"
      /\ \A j \in 1..x.at - 1 : x.value.keys[j] # key
      /\ AffordsIn(e, Key(key)) /\ Writes(wire, e, Key(key)) /\ Replaced(e.work, y, f.work)
      /\ f = EncoderAt(<<NextItem(e)>>, f.work, e.pos + 1, e.count, b)
      /\ e.call = <<>> /\ e.work # <<>>
  BY DEF StepEntry, NextKey, Turned, AtEntry
<1>2. /\ offset = e.pos /\ count = e.count /\ content = e.content
      /\ Alike(open, e.work, 1) /\ result = <<>> /\ Wants = "key"
  BY <1>1, WantsAKey DEF InStep
<1>3. offset < Len(wire) /\ Ahead = Key(key) /\ offset # Len(wire)
  BY <1>1, NextIsAhead DEF Decoding
<1>4. /\ open # <<>> /\ Agrees(frame, x, x.at - 1) /\ x.at \in Nat \ {0}
      /\ y.value = x.value /\ y.at = x.at + 1
  BY <1>1, <1>2, AlikePop, AlikeEmpty, TopFacts, EntryFields DEF Sound
<1>5. Agrees(g, y, y.at - 2)
  BY <1>1, <1>4, KeyAdded
<1>6. Key(key).kind = "key" /\ Key(key).text = key
  BY DEF Key, Token
<1> HIDE DEF x, y, g, b, key
<1>7. KeyDecodable(Ahead)
  <2>1. \A j \in 1..Len(frame.keys) : frame.keys[j] # key
    <3>1. Len(frame.keys) = x.at - 1 /\ \A j \in 1..Len(frame.keys) : frame.keys[j] = x.value.keys[j]
      BY <1>1, <1>4 DEF Agrees
    <3>2. QED
      BY <1>1, <3>1
  <2>2. Affords(Key(key))
    BY <1>1, <1>2 DEF Affords, AffordsIn
  <2>3. QED
    BY <1>3, <1>6, <2>1, <2>2 DEF KeyDecodable
<1>8. DecodeKey
  BY <1>2, <1>3, <1>7
  DEF Decoding, Decode, Supply, SupplyEnds, DecodeLeaf, DecodeContainer, DecodeLeave, DecodeRefuse, Unreadable, Decoded
<1>9. /\ offset' = offset + 1 /\ count' = count /\ content' = content + Size(Key(key)) /\ result' = result
      /\ open' = [open EXCEPT ![Len(open)] = g]
  BY <1>3, <1>6, <1>8 DEF DecodeKey, Add, Top, g
<1>10. Replaced(open, g, open')
  BY <1>2, <1>4, <1>9, Replacing, Zenon DEF Alike
<1>11. Alike(open', f.work, 2)
  BY <1>1, <1>2, <1>5, <1>10, AlikeTurn
<1>12. f.call # <<>> /\ f.pos = e.pos + 1 /\ f.count = e.count /\ f.content = b
  BY <1>1, EncoderFields
<1>13. QED
  BY <1>2, <1>8, <1>9, <1>11, <1>12 DEF InStep, b

LEMMA LeaveFollows ==
    ASSUME NEW e, NEW f, NEW root, Sound(e, root), InStep(e, root), StepLeave(e, f),
           Decoding, Decode
    PROVE  DecodeLeave /\ InStep(f, root)'
<1> DEFINE w == Rest(e.work)
           v == Top(e.work).value
<1>1. e.call = <<>> /\ e.work # <<>> /\ f = EncoderAt(<<>>, w, e.pos, e.count, e.content)
  BY DEF StepLeave
<1>2. /\ offset = e.pos /\ count = e.count /\ content = e.content
      /\ Alike(open, e.work, 1) /\ result = <<>>
  BY <1>1 DEF InStep
<1>3. /\ Wants = "nothing" /\ open # <<>>
      /\ v = Container(Top(open).kind, Top(open).keys, Top(open).items)
  BY WantsNothing
<1>4. Alike(Rest(open), w, 2)
  BY <1>1, <1>2, AlikePop
<1>5. Path(w, root) /\ v = Due(w, root) /\ root = <<root[1]>>
  BY <1>1, PathPop DEF Sound
<1> HIDE DEF w, v
<1>6. DecodeLeave
  BY <1>3
  DEF Decoding, Decode, Supply, SupplyEnds, DecodeLeaf, DecodeContainer, DecodeKey, DecodeRefuse, Unreadable, Decoded
<1>7. offset' = offset /\ count' = count /\ content' = content /\ Return(v, Rest(open))
  BY <1>3, <1>6 DEF DecodeLeave, counters
<1>8. Alike(open', w, 1) /\ result' = IF w = <<>> THEN root ELSE <<>>
  BY <1>2, <1>4, <1>5, <1>7, ReturnFollows
<1>9. f.call = <<>> /\ f.work = w /\ f.pos = e.pos /\ f.count = e.count /\ f.content = e.content
  BY <1>1, EncoderFields
<1>10. QED
  BY <1>2, <1>6, <1>7, <1>8, <1>9 DEF InStep

-----------------------------------------------------------------------------
(* What the encoder accepts, the decoder reads back *)

LEMMA Appended ==
    ASSUME NEW s, NEW token, Listed(s)
    PROVE  /\ Listed(Append(s, token)) /\ Len(s) \in Nat /\ Len(Append(s, token)) = Len(s) + 1
           /\ Len(s) + 1 \in 1..Len(Append(s, token)) /\ Append(s, token)[Len(s) + 1] = token
<1>1. /\ Listed(Append(s, token)) /\ Len(s) \in Nat /\ Len(Append(s, token)) = Len(s) + 1
      /\ Append(s, token)[Len(s) + 1] = token
  BY ListedAppend
<1>2. QED
  BY <1>1

\* Each action of the encoder but the first and the last is a step.
LEMMA EncoderMoves ==
    ASSUME NEW root, Sound(EState, root), Listed(out), Encode, phase' = "encode"
    PROVE  /\ Step(EState, EState', out')
           /\ Listed(out')
           /\ out' = out \/ \E token : out' = Append(out, token)
           /\ UNCHANGED <<origin, given, decoderVars>>
<1>1. /\ EState.call = call /\ EState.work = work /\ EState.pos = Len(out)
      /\ EState.count = count /\ EState.content = content
  BY EncoderFields DEF EState
<1>2. EState' = EncoderAt(call', work', Len(out'), count', content')
  BY DEF EState
<1>3. CASE EncodeLeaf
  <2>1. PICK token : token = FirstToken(call[1])
    OBVIOUS
  <2>2. /\ call # <<>> /\ call[1].kind \in LeafKinds /\ Admits(Len(work)) /\ call[1].text \notin Invalid /\ Affords(token)
        /\ out' = Append(out, token) /\ call' = <<>> /\ work' = work /\ count' = count + 1
        /\ content' = content + Size(token)
    BY <1>3, <2>1 DEF EncodeLeaf, Calls, Encodable, Add, LeafKinds, Containers
  <2>3. /\ Listed(out') /\ Len(out') = Len(out) + 1 /\ Len(out) + 1 \in 1..Len(out') /\ out'[Len(out) + 1] = token
    BY <2>2, Appended
  <2>4. EState' = EncoderAt(<<>>, work, Len(out) + 1, count + 1, content + Size(token))
    BY <1>2, <2>2, <2>3
  <2>5. StepLeaf(EState, EState', out')
    BY <1>1, <2>1, <2>2, <2>3, <2>4 DEF StepLeaf, AdmitsIn, AffordsIn, Admits, Affords, Writes
  <2>6. QED
    BY <1>3, <2>2, <2>3, <2>5 DEF Step, EncodeLeaf
<1>4. CASE EncodeContainer
  <2>1. PICK token : token = FirstToken(call[1])
    OBVIOUS
  <2>2. PICK w : w = Append(work, Entry(call[1], 1))
    OBVIOUS
  <2>3. /\ call # <<>> /\ call[1].kind \in Containers /\ Admits(Len(work)) /\ Len(call[1].items) <= MaxContainer
        /\ out' = Append(out, token) /\ call' = <<>> /\ work' = w /\ count' = count + 1
        /\ content' = content
    BY <1>4, <2>1, <2>2 DEF EncodeContainer, Calls, Encodable, Entry
  <2>4. /\ Listed(out') /\ Len(out') = Len(out) + 1 /\ Len(out) + 1 \in 1..Len(out') /\ out'[Len(out) + 1] = token
    BY <2>3, Appended
  <2>5. EState' = EncoderAt(<<>>, w, Len(out) + 1, count + 1, content)
    BY <1>2, <2>3, <2>4
  <2>6. StepContainer(EState, EState', out')
    BY <1>1, <2>1, <2>2, <2>3, <2>4, <2>5 DEF StepContainer, AdmitsIn, Admits, Writes
  <2>7. QED
    BY <1>4, <2>3, <2>4, <2>6 DEF Step, EncodeContainer
<1>5. ASSUME HasNext, Advance
      PROVE  /\ AtEntry(EState) /\ Turned(EState, work') /\ call' = <<NextItem(EState)>>
  <2> DEFINE x == Top(work)
             g == [x EXCEPT !.at = @ + 1]
  <2>1. call = <<>> /\ work # <<>> /\ x.at <= Len(x.value.items)
    BY <1>5 DEF HasNext
  <2>2. work' = [work EXCEPT ![Len(work)] = g] /\ call' = <<x.value.items[x.at]>>
    BY <1>5 DEF Advance, Top
  <2>3. Path(work, root) /\ Listed(work)
    BY <1>1 DEF Sound, Path
  <2>4. x = Entry(x.value, x.at)
    BY <2>1, <2>3, TopFacts DEF EntryOK
  <2>5. g = Entry(x.value, x.at + 1)
    <3> HIDE DEF x
    <3>1. QED
      BY <2>4 DEF Entry
  <2> HIDE DEF g
  <2>6. Replaced(work, g, work')
    BY <2>1, <2>2, <2>3, Replacing, Zenon
  <2>7. QED
    BY <1>1, <2>1, <2>2, <2>5, <2>6 DEF AtEntry, Turned, NextItem
<1>6. CASE EncodeItem
  <2>1. /\ HasNext /\ Advance /\ Top(work).value.kind = "array" /\ out' = out /\ count' = count /\ content' = content
    BY <1>6 DEF EncodeItem, counters
  <2>2. EState' = EncoderAt(<<NextItem(EState)>>, work', Len(out), count, content)
    BY <1>2, <1>5, <2>1
  <2>3. EState'.work = work'
    BY <2>2, EncoderFields
  <2>4. StepItem(EState, EState')
    BY <1>1, <1>5, <2>1, <2>2, <2>3 DEF StepItem
  <2>5. QED
    BY <1>6, <2>1, <2>4 DEF Step, EncodeItem
<1>7. CASE EncodeEntry
  <2>1. PICK token : token = NextKey(EState)
    OBVIOUS
  <2>2. token = Key(Top(work).value.keys[Top(work).at])
    BY <1>1, <2>1 DEF NextKey
  <2>3. /\ HasNext /\ Advance /\ Top(work).value.kind = "map" /\ out' = Append(out, token) /\ count' = count
        /\ content' = content + Size(token) /\ Affords(token)
        /\ \A j \in 1..Top(work).at - 1 : Top(work).value.keys[j] # Top(work).value.keys[Top(work).at]
    BY <1>7, <2>2 DEF EncodeEntry, KeyEncodable, Add
  <2>4. /\ Listed(out') /\ Len(out') = Len(out) + 1 /\ Len(out) + 1 \in 1..Len(out') /\ out'[Len(out) + 1] = token
    BY <2>3, Appended
  <2>5. EState' = EncoderAt(<<NextItem(EState)>>, work', Len(out) + 1, count, content + Size(token))
    BY <1>2, <1>5, <2>3, <2>4
  <2>6. EState'.work = work'
    BY <2>5, EncoderFields
  <2>7. StepEntry(EState, EState', out')
    BY <1>1, <1>5, <2>1, <2>3, <2>4, <2>5, <2>6 DEF StepEntry, AffordsIn, Affords, Writes
  <2>8. QED
    BY <1>7, <2>3, <2>4, <2>7 DEF Step, EncodeEntry
<1>8. CASE EncodeLeave
  <2>1. /\ call = <<>> /\ work # <<>> /\ Top(work).at > Len(Top(work).value.items)
        /\ call' = call /\ work' = Rest(work) /\ out' = out /\ count' = count /\ content' = content
    BY <1>8 DEF EncodeLeave, counters
  <2>2. EState' = EncoderAt(<<>>, Rest(work), Len(out), count, content)
    BY <1>2, <2>1
  <2>3. StepLeave(EState, EState')
    BY <1>1, <2>1, <2>2 DEF StepLeave
  <2>4. QED
    BY <1>8, <2>1, <2>3 DEF Step, EncodeLeave
<1>9. QED
  BY <1>3, <1>4, <1>6, <1>7, <1>8 DEF Encode, EncodeRefuse, Encoded

\* A way through a value of S, and all that is on the way.
Through(T, S, root, to, s) ==
    /\ ValueSet(S)
    /\ Road(T, root, to, s)
    /\ \A t \in T : Within(t, S)

Final(to, s) == to.call = <<>> /\ to.work = <<>> /\ to.pos = Len(s)

RoundTripInv ==
    origin = "value" =>
        /\ phase \in {"encode", "encoder refused", "decode", "done"}
        /\ given = <<given[1]>>
        /\ phase = "encode" =>
               /\ offset = 0 /\ open = <<>> /\ result = <<>>
               /\ Listed(out)
               /\ \E T, S : Through(T, S, given, EState, out)
        /\ phase = "decode" =>
               /\ Decoding
               /\ \E T, S, to : /\ Through(T, S, given, to, wire)
                                /\ Final(to, wire)
                                /\ \E e \in T : InStep(e, given)
        /\ phase = "done" => result = given

LEMMA RoundTripInit ==
    ASSUME NEW S, ValueSet(S), NEW v \in S, InitValue(v), InitRest
    PROVE  RoundTripInv
<1>1. /\ origin = "value" /\ phase = "encode" /\ given = <<v>> /\ call = given /\ work = <<>> /\ out = <<>>
      /\ offset = 0 /\ open = <<>> /\ result = <<>> /\ count = 0 /\ content = 0
  BY DEF InitValue, InitRest
<1>2. EState = Start(given) /\ Listed(out) /\ given = <<given[1]>> /\ given[1] \in S
  BY <1>1, ListedEmpty DEF EState, Start
<1>3. Road({EState}, given, EState, out)
  BY <1>2, RoadStarts
<1>4. Within(EState, S)
  <2>1. EState.call = given /\ EState.work = <<>>
    BY <1>1, EncoderFields DEF EState
  <2>2. QED
    BY <1>2, <2>1, ListedEmpty DEF Within
<1>5. Through({EState}, S, given, EState, out)
  BY <1>3, <1>4 DEF Through
<1>6. \E T, U : Through(T, U, given, EState, out)
  BY <1>5
<1>7. QED
  BY <1>1, <1>2, <1>6 DEF RoundTripInv

\* While it encodes, and when it is done.
LEMMA EncodingKept ==
    ASSUME RoundTripInv, origin = "value", phase = "encode", Encode
    PROVE  RoundTripInv'
<1>1. /\ given = <<given[1]>> /\ offset = 0 /\ open = <<>> /\ result = <<>> /\ Listed(out)
      /\ \E T, S : Through(T, S, given, EState, out)
  BY DEF RoundTripInv
<1>2. PICK T, S : Through(T, S, given, EState, out)
  BY <1>1
<1>3. ValueSet(S) /\ Road(T, given, EState, out) /\ Within(EState, S) /\ Sound(EState, given)
  BY <1>2 DEF Through, Road
<1>4. CASE phase' = "encode"
  <2>1. /\ Step(EState, EState', out') /\ Listed(out')
        /\ out' = out \/ \E token : out' = Append(out, token)
        /\ UNCHANGED <<origin, given, decoderVars>>
    BY <1>1, <1>3, <1>4, EncoderMoves
  <2>2. Road(T, given, EState, out')
    BY <1>1, <1>3, <2>1, RoadStays
  <2>3. Sound(EState', given) /\ Within(EState', S)
    BY <1>3, <2>1, StepIsSound
  <2>4. Road(T \cup {EState'}, given, EState', out')
    BY <2>1, <2>2, <2>3, RoadGoesOn
  <2>5. Through(T \cup {EState'}, S, given, EState', out')
    BY <1>2, <2>3, <2>4 DEF Through
  <2>6. given' = given /\ offset' = offset /\ open' = open /\ result' = result /\ origin' = origin
    BY <2>1 DEF decoderVars
  <2>7. \E U, V : Through(U, V, given', EState', out')
    BY <2>5, <2>6
  <2>8. (\E U, V : Through(U, V, given, EState, out))'
    BY <2>7
  <2>9. Listed(out)' /\ (given = <<given[1]>>)'
    BY <1>1, <2>1, <2>6 DEF Listed
  <2>10. QED
    BY <1>1, <1>4, <2>6, <2>8, <2>9 DEF RoundTripInv
<1>5. CASE EncodeRefuse
  <2>1. origin' = origin /\ given' = given /\ phase' = "encoder refused"
    BY <1>5 DEF EncodeRefuse, encoderVars
  <2>2. QED
    BY <1>1, <2>1 DEF RoundTripInv
<1>6. CASE Encoded
  <2>1. /\ call = <<>> /\ work = <<>> /\ phase' = "decode" /\ wire' = out /\ ended' = TRUE /\ count' = 0 /\ content' = 0
        /\ offset' = 0 /\ open' = <<>> /\ result' = <<>> /\ origin' = origin /\ given' = given
    BY <1>1, <1>6 DEF Encoded, encoderVars
  <2>2. Final(EState, out)
    BY <2>1, EncoderFields DEF EState, Final
  <2>3. PICK e : e = Start(given)
    OBVIOUS
  <2>4. e \in T /\ e.call = given /\ e.work = <<>> /\ e.pos = 0 /\ e.count = 0 /\ e.content = 0
    BY <1>3, <2>3, EncoderFields DEF Road, Start
  <2>5. InStep(e, given)'
    <3>1. given # <<>>
      BY <1>1
    <3>2. Alike(<<>>, <<>>, 2)
      BY ListedEmpty DEF Alike
    <3>3. QED
      BY <2>1, <2>4, <3>1, <3>2 DEF InStep
  <2>6. PICK to : to = EState
    OBVIOUS
  <2>7. Through(T, S, given, to, wire)' /\ Final(to, wire)'
    BY <1>2, <2>1, <2>2, <2>6
  <2>8. Decoding'
    <3>1. 0 \in Nat
      OBVIOUS
    <3>2. Listed(wire')
      BY <1>1, <2>1
    <3>3. QED
      BY <2>1, <3>1, <3>2 DEF Decoding, Listed
  <2>9. QED
    BY <1>1, <2>1, <2>4, <2>5, <2>7, <2>8 DEF RoundTripInv
<1>7. QED
  BY <1>4, <1>5, <1>6
  DEF Encode, EncodeLeaf, EncodeContainer, EncodeItem, EncodeEntry, EncodeLeave, Calls, HasNext

\* A run that goes on has a step the decoder sees.
Visible(d, f, s) ==
    StepLeaf(d, f, s) \/ StepContainer(d, f, s) \/ StepEntry(d, f, s) \/ StepLeave(d, f)

LEMMA NextVisibleStep ==
    ASSUME NEW T, NEW root, NEW to, Road(T, root, to, wire), Final(to, wire),
           NEW e \in T, e # to, InStep(e, root)
    PROVE  \E d, f \in T : InStep(d, root) /\ Visible(d, f, wire)
<1>1. PICK f \in T : Step(e, f, wire)
  BY DEF Road
<1>2. CASE StepItem(e, f)
  <2>1. Sound(e, root)
    BY DEF Road
  <2>2. InStep(f, root) /\ f.call # <<>>
    <3>1. InStep(f, root)
      BY <1>2, <2>1, ItemChosen
    <3>2. f = EncoderAt(<<NextItem(e)>>, f.work, e.pos, e.count, e.content)
      BY <1>2 DEF StepItem
    <3>3. f.call = <<NextItem(e)>>
      BY <3>2, EncoderFields
    <3>4. QED
      BY <3>1, <3>3
  <2>3. PICK g \in T : Step(f, g, wire)
    BY <2>2 DEF Road, Final
  <2>4. Visible(f, g, wire)
    BY <2>2, <2>3 DEF Step, Visible, StepItem, AtEntry
  <2>5. QED
    BY <2>2, <2>4
<1>3. QED
  BY <1>1, <1>2 DEF Step, Visible

LEMMA DecodingKept ==
    ASSUME RoundTripInv, origin = "value", phase = "decode", Decode
    PROVE  RoundTripInv'
<1>1. PICK root : root = given
  OBVIOUS
<1>2. Decoding /\ root = <<root[1]>>
  BY <1>1 DEF RoundTripInv
<1>3. PICK T, S, to : Through(T, S, root, to, wire) /\ Final(to, wire) /\ \E e \in T : InStep(e, root)
  BY <1>1 DEF RoundTripInv
<1>4. PICK e \in T : InStep(e, root)
  BY <1>3
<1>5. Road(T, root, to, wire) /\ ValueSet(S)
  BY <1>3 DEF Through
<1>6. CASE e = to
  <2>1. open = <<>> /\ result = root /\ offset = Len(wire) /\ root # <<>>
    <3>1. e.call = <<>> /\ e.work = <<>> /\ e.pos = Len(wire)
      BY <1>3, <1>6 DEF Final
    <3>2. Alike(open, e.work, 1) /\ result = root /\ offset = Len(wire)
      BY <1>4, <3>1 DEF InStep
    <3>3. open = <<>>
      BY <3>1, <3>2, AlikeEmpty
    <3>4. root # <<>>
      BY <1>2
    <3>5. QED
      BY <3>2, <3>3, <3>4
  <2>2. Wants = "end" /\ ~ (offset < Len(wire))
    <3>1. Len(wire) \in Nat
      BY <1>2, ListedAppend DEF Decoding
    <3>2. QED
      BY <2>1, <3>1 DEF Wants
  <2>3. Decoded
    BY <1>2, <2>2
    DEF Decoding, Decode, Supply, SupplyEnds, DecodeLeaf, DecodeContainer, DecodeKey, DecodeLeave, DecodeRefuse, Unreadable, There
  <2>4. phase' = "done" /\ origin' = origin /\ given' = given /\ result' = result
    BY <2>3 DEF Decoded, encoderVars, decoderVars
  <2>5. QED
    BY <1>1, <1>2, <2>1, <2>4 DEF RoundTripInv
<1>7. CASE e # to
  <2>1. PICK d \in T, f \in T : InStep(d, root) /\ Visible(d, f, wire)
    BY <1>3, <1>4, <1>5, <1>7, NextVisibleStep
  <2>2. Sound(d, root) /\ Within(d, S)
    BY <1>3, <1>5 DEF Through, Road
  <2>3. InStep(f, root)' /\ (DecodeLeaf \/ DecodeContainer \/ DecodeKey \/ DecodeLeave)
    <3>1. CASE StepLeaf(d, f, wire)
      <4>1. IsLeaf(d.call[1])
        BY <1>5, <2>2, <3>1, ContainersOf DEF StepLeaf, Within
      <4>2. QED
        BY <1>2, <2>1, <2>2, <3>1, <4>1, LeafFollows
    <3>2. CASE StepContainer(d, f, wire)
      BY <1>2, <2>1, <2>2, <3>2, ContainerFollows
    <3>3. CASE StepEntry(d, f, wire)
      BY <1>2, <2>1, <2>2, <3>3, EntryFollows
    <3>4. CASE StepLeave(d, f)
      BY <1>2, <2>1, <2>2, <3>4, LeaveFollows
    <3>5. QED
      BY <2>1, <3>1, <3>2, <3>3, <3>4 DEF Visible
  <2>4. /\ origin' = origin /\ phase' = phase /\ given' = given /\ wire' = wire /\ ended' = ended
        /\ offset' = offset \/ offset' = offset + 1
    BY <2>3 DEF DecodeLeaf, DecodeContainer, DecodeKey, DecodeLeave, encoderVars
  <2>5. Decoding'
    <3>1. offset' \in Nat
      BY <1>2, <2>4 DEF Decoding
    <3>2. QED
      BY <1>2, <2>4, <3>1 DEF Decoding, Listed
  <2>6. (\E U, V, w : /\ Through(U, V, given, w, wire) /\ Final(w, wire) /\ \E x \in U : InStep(x, given))'
    <3>1. given' = root /\ wire' = wire
      BY <1>1, <2>4
    <3>2. Through(T, S, given, to, wire)' /\ Final(to, wire)'
      BY <1>3, <3>1
    <3>3. InStep(f, given)'
      BY <2>3, <3>1 DEF InStep
    <3>4. QED
      BY <3>2, <3>3
  <2>7. QED
    BY <1>1, <1>2, <2>4, <2>5, <2>6 DEF RoundTripInv
<1>8. QED
  BY <1>6, <1>7

LEMMA RoundTripNext == RoundTripInv /\ [Next]_vars => RoundTripInv'
<1> SUFFICES ASSUME RoundTripInv, [Next]_vars PROVE RoundTripInv'
  OBVIOUS
<1>1. CASE UNCHANGED vars
  <2>1. /\ origin' = origin /\ phase' = phase /\ given' = given /\ call' = call /\ work' = work /\ out' = out
        /\ wire' = wire /\ ended' = ended /\ offset' = offset /\ open' = open /\ result' = result
        /\ count' = count /\ content' = content
    BY <1>1 DEF vars, encoderVars, decoderVars, counters
  <2>2. QED
    BY <2>1 DEF RoundTripInv, EState, InStep, Decoding, Listed
<1>2. CASE origin = "value" /\ Encode
  <2>1. phase = "encode"
    BY <1>2 DEF Encode, EncodeLeaf, EncodeContainer, EncodeItem, EncodeEntry, EncodeLeave, EncodeRefuse, Encoded,
                Calls, HasNext
  <2>2. QED
    BY <1>2, <2>1, EncodingKept
<1>3. CASE origin = "value" /\ Decode
  <2>1. phase = "decode"
    BY <1>3 DEF Decode, Supply, SupplyEnds, DecodeLeaf, DecodeContainer, DecodeKey, DecodeLeave, DecodeRefuse, Decoded, There
  <2>2. QED
    BY <1>3, <2>1, DecodingKept
<1>4. CASE origin # "value" /\ Next
  <2>1. origin' = origin
    BY <1>4
    DEF Next, Encode, EncodeLeaf, EncodeContainer, EncodeItem, EncodeEntry, EncodeLeave, EncodeRefuse, Encoded,
        Decode, Supply, SupplyEnds, DecodeLeaf, DecodeContainer, DecodeKey, DecodeLeave, DecodeRefuse, Decoded
  <2>2. QED
    BY <1>4, <2>1 DEF RoundTripInv
<1>5. QED
  BY <1>1, <1>2, <1>3, <1>4 DEF Next

LEMMA ValueStarts == Init => RoundTripInv
<1> SUFFICES ASSUME Init PROVE RoundTripInv
  OBVIOUS
<1>1. ASSUME NEW v \in LocalValues, InitValue(v) PROVE RoundTripInv
  BY <1>1, ValuesAssumption, RoundTripInit DEF Init
<1>2. ASSUME NEW tokens \in Openings, InitWire(tokens) PROVE RoundTripInv
  BY <1>2 DEF InitWire, RoundTripInv
<1>3. QED
  BY <1>1, <1>2 DEF Init

(* Whatever the limits are, a value to_wire accepts is accepted by         *)
(* from_wire and comes out the same: the checks of the two procedures,     *)
(* written apart, never disagree, and no length or key is taken for        *)
(* something else.                                                         *)
THEOREM ValuesComeBack == Spec => []RoundTrip
<1>1. RoundTripInv => RoundTrip
  BY DEF RoundTripInv, RoundTrip
<1>2. QED
  BY <1>1, ValueStarts, RoundTripNext, PTL DEF Spec

-----------------------------------------------------------------------------
(* What the decoder accepts, the encoder writes *)

LEMMA ReplacedEqual ==
    ASSUME NEW s, NEW e, NEW t, NEW u, Listed(s), s # <<>>, Replaced(s, e, t), Replaced(s, e, u)
    PROVE  t = u
<1>1. Len(s) \in Nat \ {0}
  BY ListedRest
<1>2. ASSUME NEW i \in 1..Len(s) PROVE t[i] = u[i]
  <2>1. i \in 1..Len(s) - 1 \/ i = Len(s)
    BY <1>1
  <2>2. QED
    BY <2>1 DEF Replaced
<1>3. QED
  BY <1>2, ListedEqual DEF Replaced

\* A step is decided by the state; so is the token it writes.
LEMMA StepUnique ==
    ASSUME NEW e, NEW f, NEW g, NEW s, NEW u, NEW root, Sound(e, root), Step(e, f, s), Step(e, g, u)
    PROVE  /\ f = g
           /\ \/ f.pos = e.pos
              \/ f.pos = e.pos + 1 /\ \E token : Writes(s, e, token) /\ Writes(u, e, token)
<1>1. LeafKinds \cap Containers = {} /\ "array" # "map"
  BY DEF LeafKinds, Containers
<1>2. AtEntry(e) => ~ (Top(e.work).at > Len(Top(e.work).value.items))
  <2>1. AtEntry(e) => Len(Top(e.work).value.items) \in Nat /\ Top(e.work).at \in Nat
    BY TopFacts DEF Sound, AtEntry
  <2>2. QED
    BY <2>1 DEF AtEntry
<1>3. CASE StepLeaf(e, f, s)
  <2>1. StepLeaf(e, g, u)
    BY <1>1, <1>3 DEF Step, StepLeaf, StepContainer, StepItem, StepEntry, StepLeave, AtEntry
  <2>2. QED
    BY <1>3, <2>1, EncoderFields DEF StepLeaf
<1>4. CASE StepContainer(e, f, s)
  <2>1. StepContainer(e, g, u)
    BY <1>1, <1>4 DEF Step, StepLeaf, StepContainer, StepItem, StepEntry, StepLeave, AtEntry
  <2>2. PICK w : w = Append(e.work, Entry(e.call[1], 1))
    OBVIOUS
  <2>3. f = EncoderAt(<<>>, w, e.pos + 1, e.count + 1, e.content) /\ g = f
    BY <1>4, <2>1, <2>2 DEF StepContainer
  <2>4. f.pos = e.pos + 1
    BY <2>3, EncoderFields
  <2>5. QED
    BY <1>4, <2>1, <2>3, <2>4 DEF StepContainer
<1>5. ASSUME AtEntry(e), Turned(e, f.work), Turned(e, g.work) PROVE f.work = g.work
  BY <1>5, ReplacedEqual DEF Turned, AtEntry, Sound, Path
<1>6. CASE StepItem(e, f)
  <2>1. StepItem(e, g)
    BY <1>1, <1>2, <1>6 DEF Step, StepLeaf, StepContainer, StepItem, StepEntry, StepLeave, AtEntry
  <2>2. f.work = g.work
    BY <1>5, <1>6, <2>1 DEF StepItem
  <2>3. f = EncoderAt(<<NextItem(e)>>, f.work, e.pos, e.count, e.content) /\ g = f
    BY <1>6, <2>1, <2>2 DEF StepItem
  <2>4. QED
    BY <2>3, EncoderFields
<1>7. CASE StepEntry(e, f, s)
  <2>1. StepEntry(e, g, u)
    BY <1>1, <1>2, <1>7 DEF Step, StepLeaf, StepContainer, StepItem, StepEntry, StepLeave, AtEntry
  <2>2. f.work = g.work
    BY <1>5, <1>7, <2>1 DEF StepEntry
  <2>3. PICK b : b = e.content + Size(NextKey(e))
    OBVIOUS
  <2>4. f = EncoderAt(<<NextItem(e)>>, f.work, e.pos + 1, e.count, b) /\ g = f
    BY <1>7, <2>1, <2>2, <2>3 DEF StepEntry
  <2>5. f.pos = e.pos + 1
    BY <2>4, EncoderFields
  <2>6. QED
    BY <1>7, <2>1, <2>4, <2>5 DEF StepEntry
<1>8. CASE StepLeave(e, f)
  <2>1. StepLeave(e, g)
    BY <1>1, <1>2, <1>8 DEF Step, StepLeaf, StepContainer, StepItem, StepEntry, StepLeave, AtEntry
  <2>2. f = EncoderAt(<<>>, Rest(e.work), e.pos, e.count, e.content) /\ g = f
    BY <1>8, <2>1 DEF StepLeave
  <2>3. QED
    BY <2>2, EncoderFields
<1>9. QED
  BY <1>3, <1>4, <1>6, <1>7, <1>8 DEF Step

\* Not just after it chose an item of an array.
Settled(e) == ~ (e.call # <<>> /\ e.work # <<>> /\ Top(e.work).value.kind = "array")

\* The stack of the encoder one entry earlier.
LEMMA TurnedBack ==
    ASSUME NEW f, NEW root, Sound(f, root), f.call # <<>>, f.work # <<>>
    PROVE  \E w : LET x == Top(f.work)
                      y == Entry(x.value, x.at - 1)
                  IN  /\ Replaced(f.work, y, w)
                      /\ Path(w, root) /\ w # <<>> /\ Top(w) = y
                      /\ y.value = x.value /\ y.at = x.at - 1
                      /\ x.at - 1 \in Nat \ {0} /\ x.at - 1 <= Len(x.value.items)
                      /\ Replaced(w, Entry(y.value, y.at + 1), f.work)
                      /\ f.call = <<x.value.items[x.at - 1]>>
<1> DEFINE x == Top(f.work)
           y == Entry(x.value, x.at - 1)
           w == [f.work EXCEPT ![Len(f.work)] = y]
<1>1. Path(f.work, root) /\ Listed(f.work) /\ x.at >= 2 /\ f.call = <<x.value.items[x.at - 1]>>
  BY DEF Sound, Path, Busy, Due
<1>2. EntryOK(x) /\ Len(x.value.items) \in Nat /\ x.at \in Nat \ {0} /\ x.at <= Len(x.value.items) + 1
  BY <1>1, TopFacts
<1>3. y.value = x.value /\ y.at = x.at - 1 /\ y = Entry(y.value, y.at)
  BY EntryFields
<1> HIDE DEF x, y
<1>4. x.at - 1 \in Nat \ {0} /\ x.at - 1 <= Len(x.value.items) /\ (x.at - 1) + 1 = x.at
      /\ x.at - 1 \in 1..Len(x.value.items) + 1
  <2>1. PICK k, n : k = x.at /\ n = Len(x.value.items)
    OBVIOUS
  <2>2. n \in Nat /\ k \in Nat \ {0} /\ k <= n + 1 /\ k >= 2
    BY <1>1, <1>2, <2>1
  <2>3. k - 1 \in Nat \ {0} /\ k - 1 <= n /\ (k - 1) + 1 = k /\ k - 1 \in 1..n + 1
    BY <2>2
  <2>4. QED
    BY <2>1, <2>3
<1>5. EntryOK(y)
  BY <1>2, <1>3, <1>4 DEF EntryOK
<1>6. Replaced(f.work, y, w)
  BY <1>1, Replacing, Zenon
<1> HIDE DEF w
<1>7. Path(w, root) /\ w # <<>> /\ Top(w) = y
  BY <1>1, <1>3, <1>5, <1>6, PathTurn DEF x
<1>8. Replaced(w, x, f.work)
  BY <1>1, <1>6, ReplacedBack DEF x
<1>9. x = Entry(y.value, y.at + 1)
  BY <1>2, <1>3, <1>4 DEF EntryOK
<1>10. QED
  BY <1>1, <1>3, <1>4, <1>6, <1>7, <1>8, <1>9 DEF x, y

LEMMA Unsettle ==
    ASSUME NEW f, NEW root, Sound(f, root), InStep(f, root), ~ Settled(f)
    PROVE  \E e : Sound(e, root) /\ InStep(e, root) /\ Settled(e) /\ StepItem(e, f)
<1> DEFINE x == Top(f.work)
           y == Entry(x.value, x.at - 1)
           frame == Top(open)
<1>1. f.call # <<>> /\ f.work # <<>> /\ x.value.kind = "array"
  BY DEF Settled
<1>2. PICK w : /\ Replaced(f.work, y, w)
               /\ Path(w, root) /\ w # <<>> /\ Top(w) = y
               /\ y.value = x.value /\ y.at = x.at - 1
               /\ x.at - 1 \in Nat \ {0} /\ x.at - 1 <= Len(x.value.items)
               /\ Replaced(w, Entry(y.value, y.at + 1), f.work)
               /\ f.call = <<x.value.items[x.at - 1]>>
  BY <1>1, TurnedBack
<1> DEFINE e == EncoderAt(<<>>, w, f.pos, f.count, f.content)
<1>3. /\ e.call = <<>> /\ e.work = w /\ e.pos = f.pos /\ e.count = f.count /\ e.content = f.content
      /\ e = EncoderAt(e.call, e.work, e.pos, e.count, e.content)
  BY EncoderFields
<1>4. f = EncoderAt(f.call, f.work, f.pos, f.count, f.content) /\ root = <<root[1]>>
  BY DEF Sound
<1>5. offset = f.pos /\ count = f.count /\ content = f.content /\ result = <<>> /\ Alike(open, f.work, 2)
  BY <1>1 DEF InStep
<1>6. open # <<>> /\ Agrees(frame, x, x.at - 2)
  BY <1>1, <1>5, AlikePop, AlikeEmpty
<1> HIDE DEF x, y, e, frame
<1>7. Sound(e, root)
  BY <1>2, <1>3, <1>4 DEF Sound
<1>8. Alike(open, w, 1)
  <2>1. y.at - 1 = x.at - 2
    <3>1. x.at \in Nat
      BY <1>1, TopFacts DEF Sound, x
    <3>2. QED
      BY <1>2, <3>1
  <2>2. Agrees(frame, y, y.at - 1)
    BY <1>1, <1>2, <1>6, <2>1 DEF Agrees
  <2>3. Replaced(open, frame, open)
    BY <1>5, <1>6, ReplacedSame DEF Alike, frame
  <2>4. QED
    BY <1>1, <1>2, <1>5, <2>2, <2>3, AlikeTurn
<1>9. InStep(e, root)
  BY <1>2, <1>3, <1>5, <1>8 DEF InStep
<1>10. StepItem(e, f)
  BY <1>1, <1>2, <1>3, <1>4 DEF StepItem, AtEntry, Turned, NextItem
<1>11. QED
  BY <1>3, <1>7, <1>9, <1>10 DEF Settled

\* The value just completed is the one the containers around it waited for.
LEMMA ReturnPrecedes ==
    ASSUME NEW path, NEW root, NEW around, NEW v, NEW called,
           Path(path, root), root = <<root[1]>>, Listed(around),
           around # <<>> => FrameOK(Top(around)) /\ Pending(Top(around)),
           Return(v, around), result = <<>>,
           NEW ahead, called = <<>> => ahead = 1, called # <<>> => ahead = 2, Alike(open', path, ahead),
           called = <<>> /\ path = <<>> => result' = root,
           ~ (called = <<>> /\ path = <<>>) => result' = <<>>,
           called # <<>> /\ path # <<>> => Top(path).value.kind # "array"
    PROVE  called = <<>> /\ Alike(around, path, 2) /\ v = Due(path, root) /\ Busy(path)
<1>1. CASE around = <<>>
  <2>1. open' = <<>> /\ result' = <<v>>
    BY <1>1 DEF Return
  <2>2. <<v>> # <<>>
    OBVIOUS
  <2>3. called = <<>> /\ path = <<>> /\ root = <<v>>
    BY <2>1, <2>2
  <2>4. QED
    BY <1>1, <2>3, ListedEmpty DEF Alike, Due, Busy
<1>2. CASE around # <<>>
  <2> DEFINE frame == Top(around)
             g == [frame EXCEPT !.items = Append(@, v)]
             x == Top(path)
  <2>1. open' = [around EXCEPT ![Len(around)] = g]
    BY <1>2 DEF Return, Top
  <2>2. FrameOK(frame) /\ Pending(frame)
    BY <1>2
  <2>3. /\ g.kind = frame.kind /\ g.number = frame.number /\ g.keys = frame.keys /\ g.items = Append(frame.items, v)
    BY <2>2 DEF FrameOK, WellFormed, Pending
  <2>4. /\ Listed(frame.items) /\ Listed(frame.keys)
        /\ frame.kind = "map" => Len(frame.keys) = Len(frame.items) + 1
    BY <2>2 DEF FrameOK, Pending
  <2>5. /\ Len(frame.items) \in Nat /\ Len(Append(frame.items, v)) = Len(frame.items) + 1
        /\ \A i \in 1..Len(frame.items) : Append(frame.items, v)[i] = frame.items[i]
        /\ Append(frame.items, v)[Len(frame.items) + 1] = v
    BY <2>4, ListedAppend
  <2> HIDE DEF frame, g
  <2>6. Replaced(around, g, open')
    BY <1>2, <2>1, Replacing, Zenon
  <2>7. Replaced(open', frame, around) /\ open' # <<>> /\ Top(open') = g
    BY <1>2, <2>6, ReplacedBack DEF frame
  <2>8. path # <<>>
    BY <2>7, AlikeEmpty
  <2>9. /\ x.at \in Nat \ {0} /\ x.value.kind \in {"array", "map"}
    BY <2>8, TopFacts
  <2>10. Agrees(g, x, x.at - ahead)
    BY <2>7, <2>8 DEF Alike
  <2>11. called # <<>> => x.value.kind # "array"
    BY <2>8
  <2> HIDE DEF x
  <2>12. called = <<>>
    <3>1. SUFFICES ASSUME called # <<>> PROVE FALSE
      OBVIOUS
    <3>2. Agrees(g, x, x.at - 2) /\ x.value.kind = "map"
      BY <2>9, <2>10, <2>11, <3>1
    <3>3. frame.kind = "map" /\ Len(frame.keys) = x.at - 1 /\ Len(frame.items) + 1 = x.at - 2
      BY <2>3, <2>5, <3>2 DEF Agrees
    <3>4. QED
      BY <2>4, <2>5, <2>9, <3>3
  <2>13. Agrees(g, x, x.at - 1)
    BY <2>10, <2>12
  <2>14. PICK n \in Nat : n = Len(frame.items)
    BY <2>5
  <2>15. /\ x.at = n + 2 /\ x.at - 2 = n /\ x.at - 1 = n + 1 /\ x.at >= 2
    <3>1. n + 1 = x.at - 1
      BY <2>3, <2>5, <2>13, <2>14 DEF Agrees
    <3>2. QED
      BY <2>9, <3>1
  <2>16. v = x.value.items[n + 1] /\ \A j \in 1..n : frame.items[j] = x.value.items[j]
    <3>1. \A j \in 1..n + 1 : g.items[j] = x.value.items[j]
      BY <2>13, <2>15 DEF Agrees
    <3>2. n + 1 \in 1..n + 1 /\ \A j \in 1..n : j \in 1..n + 1
      OBVIOUS
    <3>3. QED
      BY <2>3, <2>5, <2>14, <3>1, <3>2
  <2>17. Agrees(frame, x, x.at - 2)
    BY <2>3, <2>4, <2>13, <2>14, <2>15, <2>16 DEF Agrees
  <2>18. Replaced(path, x, path)
    BY <2>8, ReplacedSame DEF Path, x
  <2>19. Alike(around, path, 2)
    <3>1. Alike(open', path, 1)
      BY <2>12
    <3>2. QED
      BY <2>7, <2>8, <2>17, <2>18, <3>1, AlikeTurn
  <2>20. v = Due(path, root) /\ Busy(path)
    BY <2>8, <2>15, <2>16 DEF Due, Busy, x
  <2>21. QED
    BY <2>12, <2>19, <2>20
<1>3. QED
  BY <1>1, <1>2

\* What is known of the decoder while it reads bytes from outside.
Reading ==
    /\ wire \in Seq(AnyToken) /\ offset \in 0..Len(wire)
    /\ StackOK(open)
    /\ result # <<>> => open = <<>>

\* The state before f, when the decoder came to be in step with f.
Precedes(e, f, root) ==
    /\ Sound(e, root) /\ InStep(e, root) /\ Step(e, f, wire)
    /\ e.call # <<>> => IsLeaf(e.call[1]) \/ e.call[1].kind \in Containers

LEMMA ReadToken ==
    ASSUME Reading, There
    PROVE  /\ Listed(wire) /\ offset + 1 \in 1..Len(wire)
           /\ Ahead = Token(Ahead.kind, Ahead.text, Ahead.number)
           /\ Ahead.kind \in Containers => Ahead.text = ""
           /\ Ahead.kind = "key" => Ahead.number = 0
<1>1. Ahead \in AnyToken
  BY AheadIsToken DEF Reading
<1>2. Listed(wire) /\ Len(wire) \in Nat
  BY ListedProperties, LenProperties DEF Reading
<1>3. offset + 1 \in 1..Len(wire)
  BY <1>2 DEF Reading, There
<1>4. QED
  BY <1>1, <1>2, <1>3 DEF AnyToken, Token

LEMMA LeafPrecedes ==
    ASSUME NEW f, NEW root, Sound(f, root), InStep(f, root)', Settled(f), Reading, DecodeLeaf
    PROVE  \E e : Precedes(e, f, root)
<1>0. PICK v : v = Leaf(Ahead.kind, Ahead.text, Ahead.number)
  OBVIOUS
<1> DEFINE e == EncoderAt(<<v>>, f.work, offset, count, content)
<1>1. /\ There /\ Wants = "value" /\ LeafDecodable(Ahead) /\ offset' = offset + 1 /\ count' = count + 1
      /\ content' = content + Size(Ahead) /\ Return(v, open)
  BY <1>0 DEF DecodeLeaf, Add
<1>2. result = <<>> /\ Listed(open)
  BY <1>1 DEF Wants, Reading, StackOK
<1>a. PICK ahead : ahead = IF f.call = <<>> THEN 1 ELSE 2
  OBVIOUS
<1>3. open # <<>> => FrameOK(Top(open)) /\ Pending(Top(open))
  <2>1. open # <<>> => Len(open) \in 1..Len(open)
    BY <1>2, ListedRest
  <2>2. QED
    BY <1>1, <2>1, Waiting DEF Reading, StackOK, Top
<1>4. /\ offset' = f.pos /\ count' = f.count /\ content' = f.content
      /\ Alike(open', f.work, ahead)
      /\ result' = IF f.call = <<>> /\ f.work = <<>> THEN root ELSE <<>>
  BY <1>a DEF InStep
<1>5. /\ Path(f.work, root) /\ root = <<root[1]>> /\ f = EncoderAt(f.call, f.work, f.pos, f.count, f.content)
      /\ f.call # <<>> /\ f.work # <<>> => Top(f.work).value.kind # "array"
  BY DEF Sound, Settled
<1>6. f.call = <<>> /\ Alike(open, f.work, 2) /\ v = Due(f.work, root) /\ Busy(f.work)
  <2>1. PICK path, called : path = f.work /\ called = f.call
    OBVIOUS
  <2>2. Path(path, root) /\ root = <<root[1]>> /\ (called # <<>> /\ path # <<>> => Top(path).value.kind # "array")
    BY <1>5, <2>1
  <2>3. /\ Alike(open', path, ahead)
        /\ called = <<>> /\ path = <<>> => result' = root
        /\ ~ (called = <<>> /\ path = <<>>) => result' = <<>>
    BY <1>4, <2>1
  <2>4. Return(v, open) /\ (called = <<>> => ahead = 1) /\ (called # <<>> => ahead = 2)
    BY <1>a, <1>1, <2>1
  <2>5. called = <<>> /\ Alike(open, path, 2) /\ v = Due(path, root) /\ Busy(path)
    BY <1>2, <1>3, <2>2, <2>3, <2>4, ReturnPrecedes
  <2>6. QED
    BY <2>1, <2>5
<1>7. /\ Ahead.kind \in LeafKinds /\ Ahead.kind \notin Containers
      /\ v.kind = Ahead.kind /\ v.text = Ahead.text /\ FirstToken(v) = Ahead
  BY <1>0, <1>1, ReadToken DEF LeafDecodable, Leaf, FirstToken, LeafKinds, Containers
<1>8. /\ e.call = <<v>> /\ e.work = f.work /\ e.pos = offset /\ e.count = count /\ e.content = content
      /\ e = EncoderAt(e.call, e.work, e.pos, e.count, e.content)
  BY EncoderFields
<1> HIDE DEF e
<1>9. e.call # <<>> /\ e.call[1] = v
  BY <1>8
<1>10. Sound(e, root)
  BY <1>5, <1>6, <1>8 DEF Sound
<1>11. InStep(e, root)
  BY <1>2, <1>6, <1>8, <1>9 DEF InStep
<1>12. StepLeaf(e, f, wire)
  <2>1. Len(open) = Len(f.work)
    BY <1>6 DEF Alike
  <2>2. Writes(wire, e, Ahead)
    BY <1>1, <1>8, ReadToken DEF Writes, Ahead
  <2>3. AdmitsIn(e) /\ v.text \notin Invalid /\ AffordsIn(e, Ahead)
    BY <1>1, <1>7, <1>8, <2>1 DEF LeafDecodable, Admits, AdmitsIn, Affords, AffordsIn
  <2>4. f = EncoderAt(<<>>, e.work, e.pos + 1, e.count + 1, e.content + Size(Ahead))
    BY <1>1, <1>4, <1>5, <1>6, <1>8
  <2>5. QED
    BY <1>7, <1>9, <2>2, <2>3, <2>4 DEF StepLeaf
<1>13. IsLeaf(e.call[1])
  BY <1>0, <1>7, <1>9 DEF IsLeaf, Leaf
<1>14. QED
  BY <1>10, <1>11, <1>12, <1>13 DEF Precedes, Step

LEMMA ContainerPrecedes ==
    ASSUME NEW f, NEW root, Sound(f, root), InStep(f, root)', Settled(f), Reading, DecodeContainer
    PROVE  \E e : Precedes(e, f, root)
<1> DEFINE frame == [kind |-> Ahead.kind, number |-> Ahead.number, keys |-> <<>>, items |-> <<>>]
           x == Top(f.work)
           v == x.value
           w == Rest(f.work)
           e == EncoderAt(<<v>>, w, offset, count, content)
<1>1. /\ There /\ Wants = "value" /\ ContainerDecodable(Ahead) /\ offset' = offset + 1 /\ count' = count + 1
      /\ content' = content /\ result' = result /\ open' = Append(open, frame)
  BY DEF DecodeContainer
<1>2. result = <<>> /\ Listed(open)
  BY <1>1 DEF Wants, Reading, StackOK
<1>3. /\ frame.kind = Ahead.kind /\ frame.number = Ahead.number /\ frame.items = <<>> /\ frame.keys = <<>>
  OBVIOUS
<1> HIDE DEF frame
<1>4. Rest(open') = open /\ Top(open') = frame /\ open' # <<>>
  BY <1>1, <1>2, RestOfAppend
<1>5. /\ offset' = f.pos /\ count' = f.count /\ content' = f.content
      /\ Alike(open', f.work, IF f.call = <<>> THEN 1 ELSE 2)
  BY DEF InStep
<1>6. f.work # <<>>
  BY <1>4, <1>5, AlikeEmpty
<1>7. Alike(open, w, 2) /\ Agrees(frame, x, x.at - IF f.call = <<>> THEN 1 ELSE 2)
  BY <1>4, <1>5, <1>6, AlikePop
<1>8. /\ Path(f.work, root) /\ root = <<root[1]>> /\ f = EncoderAt(f.call, f.work, f.pos, f.count, f.content)
      /\ f.call # <<>> => v.kind # "array"
  BY <1>6 DEF Sound, Settled
<1>9. /\ Path(w, root) /\ Busy(w) /\ EntryOK(x) /\ v = Due(w, root)
      /\ x.at \in Nat \ {0} /\ v.kind \in {"array", "map"}
  BY <1>6, <1>8, PathPop, TopFacts
<1> HIDE DEF x, w, e
<1>10. f.call = <<>> /\ x.at = 1
  <2>1. f.call = <<>>
    <3>1. SUFFICES ASSUME f.call # <<>> PROVE FALSE
      OBVIOUS
    <3>2. Agrees(frame, x, x.at - 2) /\ v.kind = "map"
      BY <1>7, <1>8, <1>9, <3>1
    <3>3. Len(<<>>) = x.at - 2 /\ Len(<<>>) = x.at - 1
      BY <1>3, <3>2 DEF Agrees
    <3>4. QED
      BY <1>9, <3>3, ListedEmpty
  <2>2. Len(<<>>) = x.at - 1
    BY <1>3, <1>7, <2>1 DEF Agrees
  <2>3. QED
    BY <1>9, <2>1, <2>2, ListedEmpty
<1>11. /\ Ahead.kind = v.kind /\ v.kind \in Containers /\ Len(v.items) = Ahead.number /\ Len(v.items) <= MaxContainer
       /\ FirstToken(v) = Ahead
  <2>1. Ahead.kind = v.kind /\ Ahead.number = Len(v.items)
    BY <1>3, <1>7 DEF Agrees
  <2>2. v.kind \in Containers /\ Len(v.items) <= MaxContainer
    BY <1>1, <2>1 DEF ContainerDecodable
  <2>3. v.text = ""
    <3>1. v = Container(v.kind, v.keys, v.items)
      BY <1>9 DEF EntryOK, Whole
    <3>2. PICK kind, keys, items : v = Container(kind, keys, items)
      BY <3>1
    <3> HIDE DEF v
    <3>3. QED
      BY <3>2 DEF Container
  <2>4. QED
    BY <1>1, <2>1, <2>2, <2>3, ReadToken DEF FirstToken
<1>12. /\ e.call = <<v>> /\ e.work = w /\ e.pos = offset /\ e.count = count /\ e.content = content
       /\ e = EncoderAt(e.call, e.work, e.pos, e.count, e.content)
  BY EncoderFields DEF e
<1> HIDE DEF v
<1>13. e.call # <<>> /\ e.call[1] = v
  BY <1>12
<1>14. Sound(e, root)
  BY <1>8, <1>9, <1>12 DEF Sound
<1>15. InStep(e, root)
  BY <1>2, <1>7, <1>12, <1>13 DEF InStep
<1>16. StepContainer(e, f, wire)
  <2>1. Len(open) = Len(w)
    BY <1>7 DEF Alike
  <2>2. Writes(wire, e, Ahead)
    BY <1>1, <1>12, ReadToken DEF Writes, Ahead
  <2>3. AdmitsIn(e)
    BY <1>1, <1>12, <2>1 DEF ContainerDecodable, Admits, AdmitsIn
  <2>4. f.work = Append(w, Entry(v, 1))
    <3>1. f.work = Append(w, x)
      BY <1>6, <1>8, AppendToRest DEF Path, w, x
    <3>2. x = Entry(v, 1)
      BY <1>9, <1>10 DEF EntryOK, v
    <3>3. QED
      BY <3>1, <3>2
  <2>5. PICK u : u = Append(w, Entry(v, 1))
    OBVIOUS
  <2>6. f = EncoderAt(<<>>, u, e.pos + 1, e.count + 1, e.content)
    BY <1>1, <1>5, <1>8, <1>10, <1>12, <2>4, <2>5
  <2>7. QED
    BY <1>11, <1>12, <1>13, <2>2, <2>3, <2>5, <2>6 DEF StepContainer
<1>17. QED
  BY <1>14, <1>15, <1>16 DEF Precedes, Step, StepContainer

LEMMA KeyPrecedes ==
    ASSUME NEW f, NEW root, Sound(f, root), InStep(f, root)', Reading, DecodeKey
    PROVE  \E e : Precedes(e, f, root)
<1>0. PICK key : key = Ahead.text
  OBVIOUS
<1> DEFINE frame == Top(open)
           g == [frame EXCEPT !.keys = Append(@, key)]
           x == Top(f.work)
           y == Entry(x.value, x.at - 1)
<1>1. /\ There /\ Wants = "key" /\ Ahead.kind = "key" /\ Affords(Ahead)
      /\ \A j \in 1..Len(frame.keys) : frame.keys[j] # key
      /\ offset' = offset + 1 /\ count' = count /\ content' = content + Size(Ahead)
      /\ open' = [open EXCEPT ![Len(open)] = g]
  BY <1>0 DEF DecodeKey, KeyDecodable, Add, Top
<1>2. /\ open # <<>> /\ Listed(open) /\ result = <<>>
      /\ frame.kind = "map" /\ Len(frame.keys) = Len(frame.items)
  BY <1>1 DEF Wants, Reading, StackOK
<1>3. Listed(wire) /\ offset + 1 \in 1..Len(wire) /\ Ahead = Key(key)
  BY <1>0, <1>1, ReadToken DEF Key
<1>4. FrameOK(frame)
  BY <1>2, ListedRest DEF Reading, StackOK, Top
<1>5. g.kind = frame.kind /\ g.number = frame.number /\ g.keys = Append(frame.keys, key) /\ g.items = frame.items
  BY <1>4 DEF FrameOK, WellFormed
<1>6. /\ Listed(frame.items) /\ Listed(frame.keys)
      /\ Len(frame.keys) \in Nat /\ Len(Append(frame.keys, key)) = Len(frame.keys) + 1
      /\ \A i \in 1..Len(frame.keys) : Append(frame.keys, key)[i] = frame.keys[i]
      /\ Append(frame.keys, key)[Len(frame.keys) + 1] = key
  BY <1>4, ListedAppend DEF FrameOK
<1> HIDE DEF frame, g
<1>7. Replaced(open, g, open')
  BY <1>1, <1>2, Replacing, Zenon
<1>8. Replaced(open', frame, open) /\ open' # <<>> /\ Top(open') = g
  BY <1>2, <1>7, ReplacedBack DEF frame
<1>9. PICK ahead : ahead = IF f.call = <<>> THEN 1 ELSE 2
  OBVIOUS
<1>10. /\ offset' = f.pos /\ count' = f.count /\ content' = f.content
       /\ Alike(open', f.work, ahead)
  BY <1>9 DEF InStep
<1>11. f.work # <<>>
  BY <1>8, <1>10, AlikeEmpty
<1>12. /\ Path(f.work, root) /\ root = <<root[1]>> /\ f = EncoderAt(f.call, f.work, f.pos, f.count, f.content)
  BY DEF Sound
<1>13. x.at \in Nat \ {0}
  BY <1>11, <1>12, TopFacts
<1>14. Agrees(g, x, x.at - ahead)
  BY <1>8, <1>10, <1>11 DEF Alike
<1>15. PICK n \in Nat : n = Len(frame.items)
  BY <1>2, <1>6
<1> HIDE DEF x, y
<1>16. x.value.kind = "map" /\ Len(g.keys) = n + 1 /\ Len(g.keys) = x.at - 1 /\ n = x.at - ahead
  BY <1>2, <1>5, <1>6, <1>14, <1>15 DEF Agrees
<1>17. f.call # <<>> /\ x.at = n + 2
  BY <1>9, <1>13, <1>16
<1>18. PICK w : /\ Replaced(f.work, y, w)
                /\ Path(w, root) /\ w # <<>> /\ Top(w) = y
                /\ y.value = x.value /\ y.at = x.at - 1
                /\ x.at - 1 \in Nat \ {0} /\ x.at - 1 <= Len(x.value.items)
                /\ Replaced(w, Entry(y.value, y.at + 1), f.work)
                /\ f.call = <<x.value.items[x.at - 1]>>
  BY <1>11, <1>17, TurnedBack DEF x, y
<1>19. y.at = n + 1 /\ y.at - 1 = n /\ x.at - 1 = n + 1
  BY <1>17, <1>18
<1>20. key = y.value.keys[y.at] /\ \A j \in 1..n : frame.keys[j] = y.value.keys[j]
  <2>1. \A j \in 1..n + 1 : g.keys[j] = x.value.keys[j]
    BY <1>14, <1>16 DEF Agrees
  <2>2. n + 1 \in 1..n + 1 /\ \A j \in 1..n : j \in 1..n + 1
    OBVIOUS
  <2>3. QED
    BY <1>2, <1>5, <1>6, <1>15, <1>18, <1>19, <2>1, <2>2
<1>21. Alike(open, w, 1)
  <2>1. \A j \in 1..n : frame.items[j] = y.value.items[j]
    BY <1>5, <1>6, <1>9, <1>14, <1>15, <1>16, <1>17, <1>18 DEF Agrees
  <2>2. frame.number = Len(y.value.items)
    BY <1>5, <1>14, <1>18 DEF Agrees
  <2>3. Agrees(frame, y, y.at - 1)
    BY <1>2, <1>6, <1>15, <1>16, <1>18, <1>19, <1>20, <2>1, <2>2 DEF Agrees
  <2>4. QED
    BY <1>8, <1>10, <1>11, <1>18, <2>3, AlikeTurn
<1> DEFINE e == EncoderAt(<<>>, w, offset, count, content)
<1>22. /\ e.call = <<>> /\ e.work = w /\ e.pos = offset /\ e.count = count /\ e.content = content
       /\ e = EncoderAt(e.call, e.work, e.pos, e.count, e.content)
  BY EncoderFields
<1> HIDE DEF e
<1>23. Sound(e, root)
  BY <1>12, <1>18, <1>22 DEF Sound
<1>24. InStep(e, root)
  BY <1>2, <1>18, <1>21, <1>22 DEF InStep
<1>25. NextKey(e) = Ahead /\ NextItem(e) = x.value.items[x.at - 1]
  BY <1>3, <1>18, <1>20, <1>22 DEF NextKey, NextItem
<1>26. StepEntry(e, f, wire)
  <2>1. AtEntry(e) /\ Turned(e, f.work)
    BY <1>18, <1>22 DEF AtEntry, Turned
  <2>2. Writes(wire, e, Ahead)
    BY <1>3, <1>22 DEF Writes, Ahead
  <2>3. AffordsIn(e, Ahead)
    BY <1>1, <1>22 DEF Affords, AffordsIn
  <2>4. \A j \in 1..y.at - 1 : y.value.keys[j] # y.value.keys[y.at]
    BY <1>1, <1>2, <1>15, <1>19, <1>20
  <2>5. PICK b : b = content + Size(Ahead)
    OBVIOUS
  <2>6. f = EncoderAt(<<NextItem(e)>>, f.work, e.pos + 1, e.count, b)
    BY <1>1, <1>10, <1>12, <1>18, <1>22, <1>25, <2>5
  <2>7. QED
    BY <1>16, <1>18, <1>22, <1>25, <2>1, <2>2, <2>3, <2>4, <2>5, <2>6 DEF StepEntry
<1>27. QED
  BY <1>23, <1>24, <1>26 DEF Precedes, Step, StepEntry, AtEntry

LEMMA LeavePrecedes ==
    ASSUME NEW f, NEW root, Sound(f, root), InStep(f, root)', Settled(f), Reading, DecodeLeave
    PROVE  \E e : Precedes(e, f, root)
<1>0. PICK v : v = Container(Top(open).kind, Top(open).keys, Top(open).items)
  OBVIOUS
<1>1. PICK around : around = Rest(open)
  OBVIOUS
<1>2. PICK frame : frame = Top(open)
  OBVIOUS
<1>3. /\ Wants = "nothing" /\ Return(v, around)
      /\ offset' = offset /\ count' = count /\ content' = content
  BY <1>0, <1>1 DEF DecodeLeave, counters
<1>4. open # <<>> /\ result = <<>> /\ Len(frame.items) = frame.number
  BY <1>2, <1>3 DEF Wants, Reading
<1>5. /\ Listed(open) /\ Listed(around) /\ Len(open) \in Nat \ {0} /\ Len(around) = Len(open) - 1
      /\ \A i \in 1..Len(open) - 1 : around[i] = open[i]
  BY <1>1, <1>4, ListedRest DEF Reading, StackOK
<1>6. FrameOK(frame)
  BY <1>2, <1>5 DEF Reading, StackOK, Top
<1>7. around # <<>> => FrameOK(Top(around)) /\ Pending(Top(around))
  <2>1. SUFFICES ASSUME around # <<>> PROVE FrameOK(Top(around)) /\ Pending(Top(around))
    OBVIOUS
  <2>2. Len(around) \in 1..Len(open) - 1 /\ Len(around) \in 1..Len(open)
    BY <1>5, <2>1, ListedRest
  <2>3. Top(around) = open[Len(around)]
    BY <1>5, <2>2 DEF Top
  <2>4. QED
    BY <2>2, <2>3 DEF Reading, StackOK
<1>8. PICK path, called, ahead : /\ path = f.work /\ called = f.call
                                 /\ ahead = IF called = <<>> THEN 1 ELSE 2
  OBVIOUS
<1>9. /\ offset' = f.pos /\ count' = f.count /\ content' = f.content
      /\ Alike(open', path, ahead)
      /\ called = <<>> => ahead = 1
      /\ called # <<>> => ahead = 2
      /\ called = <<>> /\ path = <<>> => result' = root
      /\ ~ (called = <<>> /\ path = <<>>) => result' = <<>>
  BY <1>8 DEF InStep
<1>10. /\ Path(path, root) /\ root = <<root[1]>> /\ f = EncoderAt(called, path, f.pos, f.count, f.content)
       /\ called # <<>> /\ path # <<>> => Top(path).value.kind # "array"
  BY <1>8 DEF Sound, Settled
<1>11. called = <<>> /\ Alike(around, path, 2) /\ v = Due(path, root) /\ Busy(path)
  BY <1>3, <1>4, <1>5, <1>7, <1>9, <1>10, ReturnPrecedes
<1>12. /\ frame.kind \in {"array", "map"} /\ Listed(frame.keys) /\ Listed(frame.items)
       /\ Len(frame.items) \in Nat
       /\ Len(frame.keys) = IF frame.kind = "map" THEN Len(frame.items) ELSE 0
  <2>1. /\ frame.kind \in {"array", "map"} /\ Listed(frame.keys) /\ Listed(frame.items)
        /\ Len(frame.keys) <= frame.number
        /\ frame.kind = "array" => frame.keys = <<>>
        /\ frame.kind = "map" => Len(frame.keys) \in {Len(frame.items), Len(frame.items) + 1}
    BY <1>6 DEF FrameOK, WellFormed, Containers
  <2>2. Len(frame.items) \in Nat
    BY <2>1, ListedAppend
  <2>3. frame.kind = "map" => Len(frame.keys) = Len(frame.items)
    BY <1>4, <2>1, <2>2
  <2>4. QED
    BY <2>1, <2>2, <2>3, ListedEmpty
<1>13. v.kind = frame.kind /\ v.keys = frame.keys /\ v.items = frame.items /\ v = Container(v.kind, v.keys, v.items)
  BY <1>0, <1>2 DEF Container
<1>14. PICK x : x = Entry(v, Len(v.items) + 1)
  OBVIOUS
<1>15. x.value = v /\ x.at = Len(v.items) + 1 /\ x = Entry(x.value, x.at)
  BY <1>14, EntryFields
<1>16. PICK n \in Nat : n = Len(frame.items)
  BY <1>12
<1>17. EntryOK(x)
  <2>1. Whole(v)
    BY <1>12, <1>13 DEF Whole, Containers
  <2>2. n + 1 \in 1..n + 1
    OBVIOUS
  <2>3. QED
    BY <1>13, <1>15, <1>16, <2>1, <2>2 DEF EntryOK
<1>18. PICK w : w = Append(path, x)
  OBVIOUS
<1>19. Path(w, root)
  BY <1>10, <1>11, <1>15, <1>17, <1>18, PathPush
<1>20. w # <<>> /\ Rest(w) = path /\ Top(w) = x
  BY <1>10, <1>18, RestOfAppend DEF Path
<1>21. Alike(open, w, 1)
  <2>1. x.at - 1 = n /\ (n + 1) - 1 = n
    BY <1>13, <1>15, <1>16
  <2>2. Agrees(frame, x, x.at - 1)
    BY <1>4, <1>12, <1>13, <1>15, <1>16, <2>1 DEF Agrees
  <2>3. open = Append(around, frame)
    BY <1>1, <1>2, <1>4, <1>5, AppendToRest
  <2>4. QED
    BY <1>11, <1>18, <2>2, <2>3, AlikePush
<1> DEFINE e == EncoderAt(<<>>, w, offset, count, content)
<1>22. /\ e.call = <<>> /\ e.work = w /\ e.pos = offset /\ e.count = count /\ e.content = content
       /\ e = EncoderAt(e.call, e.work, e.pos, e.count, e.content)
  BY EncoderFields
<1> HIDE DEF e
<1>23. Sound(e, root)
  BY <1>10, <1>19, <1>22 DEF Sound
<1>24. InStep(e, root)
  BY <1>4, <1>20, <1>21, <1>22 DEF InStep
<1>25. StepLeave(e, f)
  <2>1. x.at > Len(x.value.items)
    BY <1>13, <1>15, <1>16
  <2>2. f = EncoderAt(<<>>, Rest(e.work), e.pos, e.count, e.content)
    BY <1>3, <1>9, <1>10, <1>11, <1>20, <1>22
  <2>3. QED
    BY <1>20, <1>22, <2>1, <2>2 DEF StepLeave
<1>26. QED
  BY <1>23, <1>24, <1>25 DEF Precedes, Step, StepLeave

\* Whatever value is being read, the encoder comes to where the decoder is, writing what was read.
Followed ==
    \A e, root : Sound(e, root) /\ InStep(e, root) /\ Settled(e) => \E T : Road(T, root, e, wire)

LEMMA RoadReaches ==
    ASSUME Followed, NEW e, NEW f, NEW root, Precedes(e, f, root), Sound(f, root)
    PROVE  \E T : Road(T, root, f, wire)
<1>1. Sound(e, root) /\ InStep(e, root) /\ Step(e, f, wire)
  BY DEF Precedes
<1>2. \E T : Road(T, root, e, wire)
  <2>1. CASE Settled(e)
    BY <1>1, <2>1 DEF Followed
  <2>2. CASE ~ Settled(e)
    <3>1. PICK d : Sound(d, root) /\ InStep(d, root) /\ Settled(d) /\ StepItem(d, e)
      BY <1>1, <2>2, Unsettle
    <3>2. PICK T : Road(T, root, d, wire)
      BY <3>1 DEF Followed
    <3>3. Step(d, e, wire)
      BY <3>1 DEF Step
    <3>4. Road(T \cup {e}, root, e, wire)
      BY <1>1, <3>2, <3>3, RoadGoesOn
    <3>5. QED
      BY <3>4
  <2>3. QED
    BY <2>1, <2>2
<1>3. PICK T : Road(T, root, e, wire)
  BY <1>2
<1>4. Road(T \cup {f}, root, f, wire)
  BY <1>1, <1>3, RoadGoesOn
<1>5. QED
  BY <1>4

CanonicalInv ==
    origin = "wire" =>
        /\ phase \in {"decode", "decoder refused", "encode", "done"}
        /\ phase = "decode" =>
               /\ work = <<>> /\ out = <<>>
               /\ result # <<>> => open = <<>> /\ result = <<result[1]>>
               /\ Followed
        /\ phase = "encode" =>
               /\ Listed(wire) /\ Listed(out) /\ Len(out) <= Len(wire)
               /\ \A i \in 1..Len(out) : out[i] = wire[i]
               /\ \E T, to : Road(T, given, to, wire) /\ Final(to, wire) /\ EState \in T
        /\ phase = "done" => out = wire

LEMMA CanonicalInit ==
    ASSUME origin = "wire" => phase = "decode", InitRest
    PROVE  CanonicalInv
<1>1. /\ work = <<>> /\ out = <<>> /\ offset = 0 /\ open = <<>> /\ result = <<>> /\ count = 0 /\ content = 0
  BY DEF InitRest
<1>2. ASSUME NEW e, NEW root, Sound(e, root), InStep(e, root) PROVE \E T : Road(T, root, e, wire)
  <2>1. e.work = <<>>
    BY <1>1, <1>2, AlikeEmpty DEF InStep
  <2>2. root = <<root[1]>> /\ root # <<>>
    <3>1. root = <<root[1]>>
      BY <1>2 DEF Sound
    <3>2. QED
      BY <3>1
  <2>3. e.call # <<>>
    BY <1>1, <1>2, <2>1, <2>2 DEF InStep
  <2>4. e.call = root
    BY <1>2, <2>1, <2>2, <2>3 DEF Sound, Due
  <2>5. e.pos = 0 /\ e.count = 0 /\ e.content = 0
    BY <1>1, <1>2 DEF InStep
  <2>6. e = Start(root)
    BY <1>2, <2>1, <2>4, <2>5 DEF Sound, Start
  <2>7. Road({Start(root)}, root, Start(root), wire)
    BY <2>2, RoadStarts
  <2>8. QED
    BY <2>6, <2>7
<1>3. Followed
  BY <1>2 DEF Followed
<1>4. QED
  BY <1>1, <1>3 DEF CanonicalInv

\* While it decodes, and when that is over.
LEMMA FollowedOn ==
    ASSUME IInv, CanonicalInv, origin = "wire", phase = "decode", Decode
    PROVE  CanonicalInv'
<1>1. /\ work = <<>> /\ out = <<>> /\ Followed /\ Reading /\ Listed(wire)
      /\ result # <<>> => open = <<>> /\ result = <<result[1]>>
  BY ListedProperties DEF CanonicalInv, IInv, Reading
<1>2. CASE \E token \in Tokens : Supply(token)
  <2>1. PICK token \in Tokens : Supply(token)
    BY <1>2
  <2>2. /\ origin' = origin /\ phase' = phase /\ work' = work /\ out' = out /\ result' = result /\ open' = open
        /\ offset' = offset /\ count' = count /\ content' = content /\ wire' = Append(wire, token)
    BY <2>1 DEF Supply, encoderVars, counters
  <2>3. ASSUME NEW e, NEW root, Sound(e, root), InStep(e, root)', Settled(e)
        PROVE  \E T : Road(T, root, e, wire')
    <3>1. InStep(e, root)
      BY <2>2, <2>3 DEF InStep
    <3>2. PICK T : Road(T, root, e, wire)
      BY <1>1, <2>3, <3>1 DEF Followed
    <3>3. Road(T, root, e, wire')
      BY <1>1, <2>2, <3>2, RoadStays
    <3>4. QED
      BY <3>3
  <2>4. Followed'
    BY <2>3 DEF Followed
  <2>5. QED
    BY <1>1, <2>2, <2>4 DEF CanonicalInv
<1>3. CASE SupplyEnds
  <2>1. /\ origin' = origin /\ phase' = phase /\ work' = work /\ out' = out /\ result' = result /\ open' = open
        /\ offset' = offset /\ count' = count /\ content' = content /\ wire' = wire
    BY <1>3 DEF SupplyEnds, encoderVars, counters
  <2>2. Followed'
    BY <1>1, <2>1 DEF Followed, InStep
  <2>3. QED
    BY <1>1, <2>1, <2>2 DEF CanonicalInv
<1>4. CASE DecodeLeaf \/ DecodeContainer \/ DecodeKey \/ DecodeLeave
  <2>1. /\ origin' = origin /\ phase' = phase /\ work' = work /\ out' = out /\ wire' = wire
    BY <1>4 DEF DecodeLeaf, DecodeContainer, DecodeKey, DecodeLeave, encoderVars
  <2>2. ASSUME NEW f, NEW root, Sound(f, root), InStep(f, root)', Settled(f)
        PROVE  \E T : Road(T, root, f, wire)
    <3>1. PICK e : Precedes(e, f, root)
      BY <1>1, <1>4, <2>2, LeafPrecedes, ContainerPrecedes, KeyPrecedes, LeavePrecedes
    <3>2. QED
      BY <1>1, <2>2, <3>1, RoadReaches
  <2>3. Followed'
    BY <2>1, <2>2 DEF Followed
  <2>4. result' # <<>> => open' = <<>> /\ result' = <<result'[1]>>
    <3>1. CASE result' = result
      <4>1. SUFFICES ASSUME result' # <<>> PROVE open' = <<>> /\ result' = <<result'[1]>>
        OBVIOUS
      <4>2. open = <<>> /\ result # <<>> /\ result = <<result[1]>>
        BY <1>1, <3>1, <4>1
      <4>3. Wants = "end"
        BY <4>2 DEF Wants
      <4>4. QED
        BY <1>4, <4>3 DEF DecodeLeaf, DecodeContainer, DecodeKey, DecodeLeave
    <3>2. CASE result' # result
      <4>1. \E v : result' = <<v>> /\ open' = <<>>
        BY <1>4, <3>2 DEF DecodeLeaf, DecodeContainer, DecodeKey, DecodeLeave, Return
      <4>2. QED
        BY <4>1
    <3>3. QED
      BY <3>1, <3>2
  <2>5. QED
    BY <1>1, <2>1, <2>3, <2>4 DEF CanonicalInv
<1>5. CASE DecodeRefuse
  BY <1>5 DEF DecodeRefuse, CanonicalInv
<1>6. CASE Decoded
  <2>1. /\ Wants = "end" /\ ~ Unreadable /\ phase' = "encode" /\ given' = result /\ call' = result /\ count' = 0
        /\ content' = 0 /\ work' = work /\ out' = out /\ wire' = wire /\ origin' = origin
    BY <1>6 DEF Decoded, decoderVars
  <2>2. open = <<>> /\ result # <<>> /\ result = <<result[1]>>
    BY <1>1, <2>1 DEF Wants
  <2>3. offset = Len(wire)
    <3>1. Len(wire) \in Nat /\ offset \in 0..Len(wire)
      BY <1>1, ListedAppend DEF Reading
    <3>2. ~ (offset < Len(wire))
      BY <2>1 DEF Unreadable
    <3>3. QED
      BY <3>1, <3>2
  <2>4. PICK root, to : root = result /\ to = EncoderAt(<<>>, <<>>, offset, count, content)
    OBVIOUS
  <2>5. /\ to.call = <<>> /\ to.work = <<>> /\ to.pos = offset /\ to.count = count /\ to.content = content
        /\ to = EncoderAt(to.call, to.work, to.pos, to.count, to.content)
    BY <2>4, EncoderFields
  <2>6. Sound(to, root)
    <3>1. Path(<<>>, root)
      <4>1. Listed(<<>>) /\ Len(<<>>) = 0
        BY ListedEmpty
      <4>2. QED
        BY <4>1 DEF Path
    <3>2. QED
      BY <2>2, <2>4, <2>5, <3>1 DEF Sound
  <2>7. InStep(to, root)
    <3>1. Alike(<<>>, <<>>, 1)
      BY ListedEmpty DEF Alike
    <3>2. QED
      BY <2>2, <2>4, <2>5, <3>1 DEF InStep
  <2>8. PICK T : Road(T, root, to, wire)
    BY <1>1, <2>5, <2>6, <2>7 DEF Followed, Settled
  <2>9. Final(to, wire)
    BY <2>3, <2>5 DEF Final
  <2>10. EState' = Start(root)
    <3>1. EState' = EncoderAt(call', work', Len(out'), count', content')
      BY DEF EState
    <3>2. QED
      BY <1>1, <2>1, <2>4, <3>1, ListedEmpty DEF Start
  <2>11. (\E U, w : Road(U, given, w, wire) /\ Final(w, wire) /\ EState \in U)'
    <3>1. Start(root) \in T
      BY <2>8 DEF Road
    <3>2. Road(T, given', to, wire') /\ Final(to, wire') /\ EState' \in T
      BY <2>1, <2>4, <2>8, <2>9, <2>10, <3>1
    <3>3. QED
      BY <3>2
  <2>12. /\ Listed(wire') /\ Listed(out') /\ Len(out') <= Len(wire')
         /\ \A i \in 1..Len(out') : out'[i] = wire'[i]
    <3>1. out' = <<>> /\ wire' = wire /\ Len(wire) \in Nat
      BY <1>1, <2>1, ListedAppend
    <3>2. Listed(<<>>) /\ Len(<<>>) = 0
      BY ListedEmpty
    <3>3. QED
      BY <1>1, <3>1, <3>2
  <2>13. QED
    BY <2>1, <2>11, <2>12 DEF CanonicalInv, Listed
<1>7. QED
  BY <1>2, <1>3, <1>4, <1>5, <1>6 DEF Decode

\* t is what has been written of s.
Begins(t, s) == Listed(t) /\ Len(t) <= Len(s) /\ \A i \in 1..Len(t) : t[i] = s[i]

\* On a way that ends, the encoder goes on to the end: it writes just what is along the way.
LEMMA WritesOn ==
    ASSUME NEW T, NEW root, NEW to, NEW s, Listed(s), Road(T, root, to, s), Final(to, s),
           EState \in T, Begins(out, s), phase = "encode", Encode
    PROVE  \/ Encoded /\ out = s
           \/ /\ phase' = "encode" /\ EState' \in T /\ Begins(out', s)
              /\ UNCHANGED <<origin, given, decoderVars>>
<1>1. Listed(out) /\ Len(out) <= Len(s) /\ \A i \in 1..Len(out) : out[i] = s[i]
  BY DEF Begins
<1>2. PICK e : e = EState
  OBVIOUS
<1>3. /\ Sound(e, root)
      /\ e.call = call /\ e.work = work /\ e.pos = Len(out) /\ e.count = count /\ e.content = content
  BY <1>2, EncoderFields DEF Road, EState
<1>4. Len(s) \in Nat /\ Len(out) \in Nat
  BY <1>1, ListedAppend
<1>5. CASE e = to
  <2>1. call = <<>> /\ work = <<>> /\ Len(out) = Len(s)
    BY <1>3, <1>5 DEF Final
  <2>2. out = s
    BY <1>1, <2>1, ListedEqual
  <2>3. Encoded
    BY <2>1
    DEF Encode, EncodeLeaf, EncodeContainer, EncodeItem, EncodeEntry, EncodeLeave, EncodeRefuse, Calls, HasNext
  <2>4. QED
    BY <2>2, <2>3
<1>6. CASE e # to
  <2>1. PICK f \in T : Step(e, f, s)
    BY <1>2, <1>6 DEF Road
  <2>2. call # <<>> \/ work # <<>>
    BY <1>3, <2>1 DEF Step, StepLeaf, StepContainer, StepItem, StepEntry, StepLeave, AtEntry
  <2>3. Calls => Encodable(call[1])
    <3>1. LeafKinds \cap Containers = {}
      BY DEF LeafKinds, Containers
    <3>2. Calls => StepLeaf(e, f, s) \/ StepContainer(e, f, s)
      BY <1>3, <2>1 DEF Step, StepItem, StepEntry, StepLeave, AtEntry, Calls
    <3>3. StepLeaf(e, f, s) => Encodable(call[1])
      BY <1>3, <3>1 DEF StepLeaf, Encodable, AdmitsIn, Admits, AffordsIn, Affords
    <3>4. StepContainer(e, f, s) => Encodable(call[1])
      BY <1>3, <3>1 DEF StepContainer, Encodable, AdmitsIn, Admits
    <3>5. QED
      BY <3>2, <3>3, <3>4
  <2>4. HasNext /\ Top(work).value.kind = "map" => KeyEncodable
    <3>1. SUFFICES ASSUME HasNext, Top(work).value.kind = "map" PROVE KeyEncodable
      OBVIOUS
    <3>2. AtEntry(e)
      BY <1>3, <3>1 DEF AtEntry, HasNext
    <3>3. Len(Top(e.work).value.items) \in Nat /\ Top(e.work).at \in Nat
      BY <1>3, <3>2, TopFacts DEF Sound, AtEntry
    <3>4. StepEntry(e, f, s)
      BY <1>3, <2>1, <3>1, <3>2, <3>3 DEF Step, StepLeaf, StepContainer, StepItem, StepLeave, AtEntry
    <3>5. QED
      BY <1>3, <3>4 DEF StepEntry, KeyEncodable, AffordsIn, Affords, NextKey
  <2>5. ~ EncodeRefuse /\ ~ Encoded
    BY <2>2, <2>3, <2>4 DEF EncodeRefuse, Encoded
  <2>6. phase' = "encode"
    BY <2>5 DEF Encode, EncodeLeaf, EncodeContainer, EncodeItem, EncodeEntry, EncodeLeave, Calls, HasNext
  <2>7. /\ Step(EState, EState', out') /\ Listed(out')
        /\ out' = out \/ \E token : out' = Append(out, token)
        /\ UNCHANGED <<origin, given, decoderVars>>
    BY <1>1, <1>2, <1>3, <2>6, EncoderMoves
  <2>8. PICK g : g = EState'
    OBVIOUS
  <2>9. PICK more : more = out'
    OBVIOUS
  <2>10. /\ f = g
         /\ \/ f.pos = e.pos
            \/ f.pos = e.pos + 1 /\ \E token : Writes(s, e, token) /\ Writes(more, e, token)
    <3>1. Step(e, g, more)
      BY <1>2, <2>7, <2>8, <2>9
    <3>2. QED
      BY <1>3, <2>1, <3>1, StepUnique
  <2>11. g.pos = Len(more)
    <3>1. EState' = EncoderAt(call', work', Len(out'), count', content')
      BY DEF EState
    <3>2. QED
      BY <2>8, <2>9, <3>1, EncoderFields
  <2>12. Listed(more) /\ Len(more) <= Len(s) /\ \A i \in 1..Len(more) : more[i] = s[i]
    <3>1. CASE more = out
      BY <1>1, <3>1
    <3>2. CASE \E token : more = Append(out, token)
      <4>1. Len(more) = Len(out) + 1 /\ Listed(more) /\ \A i \in 1..Len(out) : more[i] = out[i]
        BY <1>1, <3>2, ListedAppend
      <4>2. f.pos # e.pos
        BY <1>3, <1>4, <2>10, <2>11, <4>1
      <4>3. Len(out) + 1 \in 1..Len(s) /\ s[Len(out) + 1] = more[Len(out) + 1]
        BY <1>3, <2>10, <4>2 DEF Writes
      <4>4. \A i \in 1..Len(more) : i \in 1..Len(out) \/ i = Len(out) + 1
        BY <1>4, <4>1
      <4>5. QED
        BY <1>1, <1>4, <4>1, <4>3, <4>4
    <3>3. QED
      BY <2>7, <2>9, <3>1, <3>2
  <2>13. QED
    BY <2>6, <2>7, <2>8, <2>9, <2>10, <2>12 DEF Begins, Listed
<1>7. QED
  BY <1>5, <1>6

\* While a value read is written, and when that is over.
LEMMA WrittenOn ==
    ASSUME CanonicalInv, origin = "wire", phase = "encode", Encode
    PROVE  CanonicalInv'
<1>1. Listed(wire) /\ Begins(out, wire)
  BY DEF CanonicalInv, Begins
<1>2. PICK T, root, to, s : /\ root = given /\ s = wire
                           /\ Road(T, root, to, s) /\ Final(to, s) /\ EState \in T
  BY DEF CanonicalInv
<1>3. CASE Encoded /\ out = s
  <2>1. phase' = "done" /\ out' = out /\ wire' = wire /\ origin' = origin
    BY <1>3 DEF Encoded, encoderVars, decoderVars
  <2>2. QED
    BY <1>2, <1>3, <2>1 DEF CanonicalInv
<1>4. CASE /\ phase' = "encode" /\ EState' \in T /\ Begins(out', s)
           /\ UNCHANGED <<origin, given, decoderVars>>
  <2>1. origin' = origin /\ given' = root /\ wire' = s
    BY <1>2, <1>4 DEF decoderVars
  <2>2. (\E U, w : Road(U, given, w, wire) /\ Final(w, wire) /\ EState \in U)'
    <3>1. Road(T, given', to, wire') /\ Final(to, wire') /\ EState' \in T
      BY <1>2, <1>4, <2>1
    <3>2. QED
      BY <3>1
  <2>3. Listed(wire') /\ Begins(out', wire')
    BY <1>1, <1>2, <1>4, <2>1
  <2>4. QED
    BY <1>4, <2>1, <2>2, <2>3 DEF CanonicalInv, Begins, Listed
<1>5. QED
  BY <1>1, <1>2, <1>3, <1>4, WritesOn

LEMMA CanonicalNext == IInv /\ CanonicalInv /\ [Next]_vars => CanonicalInv'
<1> SUFFICES ASSUME IInv, CanonicalInv, [Next]_vars PROVE CanonicalInv'
  OBVIOUS
<1>1. CASE UNCHANGED vars
  <2>1. /\ origin' = origin /\ phase' = phase /\ given' = given /\ call' = call /\ work' = work /\ out' = out
        /\ wire' = wire /\ offset' = offset /\ open' = open /\ result' = result
        /\ count' = count /\ content' = content
    BY <1>1 DEF vars, encoderVars, decoderVars, counters
  <2>2. Followed' <=> Followed
    BY <2>1 DEF Followed, InStep
  <2>3. QED
    BY <2>1, <2>2 DEF CanonicalInv, EState, Listed
<1>2. CASE origin = "wire" /\ Encode
  <2>1. phase = "encode"
    BY <1>2 DEF Encode, EncodeLeaf, EncodeContainer, EncodeItem, EncodeEntry, EncodeLeave, EncodeRefuse, Encoded,
                Calls, HasNext
  <2>2. QED
    BY <1>2, <2>1, WrittenOn
<1>3. CASE origin = "wire" /\ Decode
  <2>1. phase = "decode"
    BY <1>3 DEF Decode, Supply, SupplyEnds, DecodeLeaf, DecodeContainer, DecodeKey, DecodeLeave, DecodeRefuse, Decoded, There
  <2>2. QED
    BY <1>3, <2>1, FollowedOn
<1>4. CASE origin # "wire" /\ Next
  <2>1. origin' = origin
    BY <1>4
    DEF Next, Encode, EncodeLeaf, EncodeContainer, EncodeItem, EncodeEntry, EncodeLeave, EncodeRefuse, Encoded,
        Decode, Supply, SupplyEnds, DecodeLeaf, DecodeContainer, DecodeKey, DecodeLeave, DecodeRefuse, Decoded
  <2>2. QED
    BY <1>4, <2>1 DEF CanonicalInv
<1>5. QED
  BY <1>1, <1>2, <1>3, <1>4 DEF Next

(* Whatever the limits are, what from_wire accepts is what to_wire writes  *)
(* of the value read: no bytes are an other way to say the same, and what  *)
(* was within the decoder's limits is within the encoder's.                *)
THEOREM ReadIsWritten == Spec => []Canonical
<1>1. Init => CanonicalInv
  BY CanonicalInit DEF Init, InitValue, InitWire
<1>2. CanonicalInv => Canonical
  BY DEF CanonicalInv, Canonical
<1>3. QED
  BY <1>1, <1>2, BoundedInit, BoundedNext, CanonicalNext, PTL DEF Spec
=============================================================================
