----------------------- MODULE ProcessMessagesProofs ------------------------
(* Theorems about messages, for any identifiers, texts and limits. *)
EXTENDS ProcessMessages, FunctionTheorems, BridgeValueProofs

LEMMA GetEntry ==
    ASSUME NEW v, NEW name, NEW j \in 1..Len(v.keys), v.keys[j] = name,
           \A k \in 1..Len(v.keys) : v.keys[k] = name => k = j
    PROVE  Get(v, name) = v.items[j]
<1>1. (CHOOSE k \in 1..Len(v.keys) : v.keys[k] = name) = j
  OBVIOUS
<1>2. QED
  BY <1>1 DEF Get

LEMMA GetSome ==
    ASSUME NEW v, NEW name, \E j \in 1..Len(v.keys) : v.keys[j] = name
    PROVE  \E j \in 1..Len(v.keys) : v.keys[j] = name /\ Get(v, name) = v.items[j]
  BY DEF Get

\* No kind has a field twice, nor more than four.
LEMMA FieldNames ==
    ASSUME NEW kind \in DOMAIN Fields
    PROVE  /\ Len(Fields[kind]) \in 0..4
           /\ \A i, j \in 1..Len(Fields[kind]) : Fields[kind][i].name = Fields[kind][j].name => i = j
<1> DEFINE f == Fields[kind]
<1>1. CASE kind \in {"hello", "enable", "disable", "shutdown", "ok"}
  <2>1. f = <<>>
    BY <1>1 DEF Fields
  <2>2. QED
    BY <2>1
<1>2. CASE kind = "load"
  <2>1. f = <<Field("packageRoot", "text"), Field("entrypoint", "text"),
              Field("pluginId", "positive"), Field("session", "positive")>>
    BY <1>2 DEF Fields
  <2>2. /\ Len(f) = 4
        /\ f[1].name = "packageRoot" /\ f[2].name = "entrypoint"
        /\ f[3].name = "pluginId" /\ f[4].name = "session"
    BY <2>1 DEF Field
  <2> HIDE DEF f
  <2>3. \A i \in 1..4 : i = 1 \/ i = 2 \/ i = 3 \/ i = 4
    OBVIOUS
  <2>4. QED
    BY <2>2, <2>3 DEF f
<1>3. CASE kind = "invoke"
  <2>1. f = <<Field("operation", "text"), Field("input", "bytes"), Field("callbackId", "nonnegative")>>
    BY <1>3 DEF Fields
  <2>2. /\ Len(f) = 3
        /\ f[1].name = "operation" /\ f[2].name = "input" /\ f[3].name = "callbackId"
    BY <2>1 DEF Field
  <2> HIDE DEF f
  <2>3. \A i \in 1..3 : i = 1 \/ i = 2 \/ i = 3
    OBVIOUS
  <2>4. QED
    BY <2>2, <2>3 DEF f
<1>4. CASE kind \in {"result", "callback_result", "callback_error"}
  <2>1. Len(f) = 1
    BY <1>4 DEF Fields
  <2>2. QED
    BY <2>1
<1>5. CASE kind \in {"error", "bridge_invoke"}
  <2>1. Len(f) = 2 /\ f[1].name # f[2].name
    BY <1>5 DEF Fields, Field
  <2>2. QED
    BY <2>1
<1>6. CASE kind \in {"retain_handle", "release_handle"}
  <2>1. Len(f) = 2 /\ f[1].name # f[2].name
    BY <1>6 DEF Fields, Field
  <2>2. QED
    BY <2>1
<1>7. QED
  BY <1>1, <1>2, <1>3, <1>4, <1>5, <1>6 DEF Fields

LEMMA NamesOfKind ==
    ASSUME NEW kind \in DOMAIN Fields
    PROVE  /\ Len(Names(kind)) = Len(Fields[kind])
           /\ \A i \in 1..Len(Fields[kind]) : Names(kind)[i] = Fields[kind][i].name
<1>1. Len(Fields[kind]) \in Nat
  BY FieldNames
<1>2. QED
  BY <1>1 DEF Names

-----------------------------------------------------------------------------
\* What is read of the value a message was written as.
LEMMA EnvelopeRead ==
    ASSUME NEW m
    PROVE  /\ Get(ToValue(m), "protocolVersion") = Leaf("integer", "", ProtocolVersion)
           /\ Get(ToValue(m), "requestId") = Leaf("integer", "", m.id)
           /\ Get(ToValue(m), "kind") = Leaf("string", m.kind, 0)
           /\ Get(ToValue(m), "payload") = Payload(m)
           /\ ExactMap(ToValue(m), EnvelopeNames)
<1> DEFINE v == ToValue(m)
<1>1. /\ v.kind = "map" /\ v.keys = EnvelopeNames /\ Len(v.keys) = 4 /\ Len(EnvelopeNames) = 4
      /\ v.keys[1] = "protocolVersion" /\ v.keys[2] = "requestId" /\ v.keys[3] = "kind" /\ v.keys[4] = "payload"
      /\ v.items[1] = Leaf("integer", "", ProtocolVersion) /\ v.items[2] = Leaf("integer", "", m.id)
      /\ v.items[3] = Leaf("string", m.kind, 0) /\ v.items[4] = Payload(m)
  BY DEF ToValue, Container, EnvelopeNames
<1> HIDE DEF v
<1>0. \A j, k \in 1..Len(v.keys) : v.keys[j] = v.keys[k] => j = k
  <2>1. \A k \in 1..4 : k = 1 \/ k = 2 \/ k = 3 \/ k = 4
    OBVIOUS
  <2>2. /\ v.keys[1] # v.keys[2] /\ v.keys[1] # v.keys[3] /\ v.keys[1] # v.keys[4]
        /\ v.keys[2] # v.keys[3] /\ v.keys[2] # v.keys[4] /\ v.keys[3] # v.keys[4]
    BY <1>1
  <2>3. ASSUME NEW j \in 1..4, NEW k \in 1..4, v.keys[j] = v.keys[k] PROVE j = k
    BY <2>1, <2>2, <2>3, Zenon
  <2>4. QED
    BY <1>1, <2>3, Zenon
<1>2. /\ Get(v, v.keys[1]) = v.items[1] /\ Get(v, v.keys[2]) = v.items[2]
      /\ Get(v, v.keys[3]) = v.items[3] /\ Get(v, v.keys[4]) = v.items[4]
  <2>1. ASSUME NEW j \in 1..Len(v.keys) PROVE Get(v, v.keys[j]) = v.items[j]
    BY <1>0, <2>1, GetEntry, Zenon
  <2>2. 1 \in 1..4 /\ 2 \in 1..4 /\ 3 \in 1..4 /\ 4 \in 1..4
    OBVIOUS
  <2>3. QED
    BY <1>1, <2>1, <2>2, Zenon
<1>6. ExactMap(v, EnvelopeNames)
  BY <1>1 DEF ExactMap
<1>7. QED
  BY <1>1, <1>2, <1>6, Zenon DEF v

LEMMA PayloadRead ==
    ASSUME NEW m, WellTyped(m)
    PROVE  /\ FieldsOf(m.kind, Payload(m)) = m.fields
           /\ ExactMap(Payload(m), Names(m.kind))
<1> DEFINE p == Payload(m)
           n == Len(Fields[m.kind])
<1>1. m.kind \in DOMAIN Fields /\ m.fields = [i \in 1..n |-> m.fields[i]]
  BY DEF WellTyped
<1>2. /\ p.kind = "map" /\ p.keys = Names(m.kind) /\ p.items = m.fields
      /\ n \in Nat
      /\ Len(Names(m.kind)) = n
      /\ \A i \in 1..n : Names(m.kind)[i] = Fields[m.kind][i].name
      /\ \A i, j \in 1..n : Fields[m.kind][i].name = Fields[m.kind][j].name => i = j
  BY <1>1, FieldNames, NamesOfKind DEF Payload, Container
<1> HIDE DEF p, n
<1>3. ASSUME NEW i \in 1..n PROVE Get(p, Fields[m.kind][i].name) = m.fields[i]
  <2>1. i \in 1..Len(p.keys) /\ p.keys[i] = Fields[m.kind][i].name
    BY <1>2, <1>3
  <2>2. \A k \in 1..Len(p.keys) : p.keys[k] = Fields[m.kind][i].name => k = i
    BY <1>2, <1>3
  <2>3. QED
    BY <1>2, <2>1, <2>2, GetEntry
<1>4. FieldsOf(m.kind, p) = [i \in 1..n |-> m.fields[i]]
  BY <1>3 DEF FieldsOf, n
<1>5. ExactMap(p, Names(m.kind))
  BY <1>2 DEF ExactMap
<1>6. QED
  BY <1>1, <1>4, <1>5 DEF p

\* A field that validates is one that is read.
LEMMA HeldIsTyped ==
    ASSUME NEW rule, NEW v, v.kind = Type(rule), Holds(rule, v)
    PROVE  Typed(rule, v)
<1>1. CASE rule = "positive"
  <2>1. v.number \in 1..MaxId
    BY <1>1 DEF Holds
  <2>2. v.number > 0
    BY <2>1, MessagesAssumption
  <2>3. QED
    BY <1>1, <2>2 DEF Typed
<1>2. CASE rule = "nonnegative"
  <2>1. v.number \in 0..MaxId
    BY <1>2 DEF Holds
  <2>2. v.number >= 0
    BY <2>1, MessagesAssumption
  <2>3. QED
    BY <1>2, <2>2 DEF Typed
<1>3. CASE rule # "positive" /\ rule # "nonnegative"
  BY <1>3 DEF Typed
<1>4. QED
  BY <1>1, <1>2, <1>3

\* Reading what was written gives the message back.
LEMMA ReadBack ==
    ASSUME NEW m, WellTyped(m), Accepted(m)
    PROVE  FromValueAccepts(ToValue(m)) /\ Message(ToValue(m)) = m
<1> DEFINE v == ToValue(m)
<1>1. /\ Get(v, "protocolVersion") = Leaf("integer", "", ProtocolVersion)
      /\ Get(v, "requestId") = Leaf("integer", "", m.id)
      /\ Get(v, "kind") = Leaf("string", m.kind, 0)
      /\ Get(v, "payload") = Payload(m)
      /\ ExactMap(v, EnvelopeNames)
  BY EnvelopeRead
<1>2. /\ FieldsOf(m.kind, Payload(m)) = m.fields
      /\ ExactMap(Payload(m), Names(m.kind))
      /\ m.kind \in DOMAIN Fields
      /\ m = [id |-> m.id, kind |-> m.kind, fields |-> m.fields]
      /\ m.id \in 1..MaxId
  BY PayloadRead DEF WellTyped, Accepted
<1> HIDE DEF v
<1>3. /\ Get(v, "kind").text = m.kind /\ Get(v, "kind").kind = "string"
      /\ Get(v, "requestId").number = m.id /\ Get(v, "requestId").kind = "integer"
      /\ Get(v, "protocolVersion").kind = "integer" /\ Get(v, "protocolVersion").number = ProtocolVersion
  <2> DEFINE kind == Get(v, "kind")
             id == Get(v, "requestId")
             version == Get(v, "protocolVersion")
  <2>1. /\ kind = Leaf("string", m.kind, 0)
        /\ id = Leaf("integer", "", m.id)
        /\ version = Leaf("integer", "", ProtocolVersion)
    BY <1>1
  <2> HIDE DEF kind, id, version
  <2>2. /\ kind.text = m.kind /\ kind.kind = "string"
        /\ id.number = m.id /\ id.kind = "integer"
        /\ version.kind = "integer" /\ version.number = ProtocolVersion
    BY <2>1 DEF Leaf
  <2>3. QED
    BY <2>2 DEF kind, id, version
<1>4. Message(v) = m
  BY <1>1, <1>2, <1>3 DEF Message
<1>5. EnvelopeParses(v)
  <2>1. Typed("positive", Get(v, "requestId"))
    <3>1. m.id > 0
      BY <1>2, MessagesAssumption
    <3>2. Get(v, "requestId").kind = Type("positive")
      BY <1>3 DEF Type
    <3>3. QED
      BY <1>3, <3>1, <3>2 DEF Typed
  <2>2. QED
    BY <1>1, <1>2, <1>3, <2>1, Zenon DEF EnvelopeParses
<1>6. PayloadParses(m.kind, Payload(m))
  <2>1. ASSUME NEW i \in 1..Len(Fields[m.kind]) PROVE Typed(Fields[m.kind][i].rule, m.fields[i])
    <3>1. /\ m.fields[i].kind = Type(Fields[m.kind][i].rule)
          /\ Holds(Fields[m.kind][i].rule, m.fields[i])
      BY DEF WellTyped, Accepted, Valid
    <3>2. QED
      BY <3>1, HeldIsTyped, Zenon
  <2>2. QED
    BY <1>2, <2>1 DEF PayloadParses
<1>7. FromValueAccepts(v)
  BY <1>1, <1>3, <1>4, <1>5, <1>6 DEF FromValueAccepts
<1>8. QED
  BY <1>4, <1>7 DEF v

-----------------------------------------------------------------------------
\* A message being encoded is the value to encode, and was accepted.
Sent ==
    message # <<>> =>
        /\ origin = "value"
        /\ given = <<ToValue(message[1])>>
        /\ WellTyped(message[1])
        /\ Accepted(message[1])

LEMMA SentInit == MInit => Sent
<1>1. ASSUME NEW m \in Candidates, InitMessage(m) PROVE Sent
  <2>1. WellTyped(m)
    BY CandidatesAssumption
  <2>2. QED
    BY <1>1, <2>1 DEF InitMessage, InitValue, Sent
<1>2. QED
  BY <1>1 DEF MInit, Sent

\* What is to be encoded changes only for bytes that came from outside.
LEMMA SentStep == Sent /\ [MNext]_messageVars => Sent'
<1> SUFFICES ASSUME Sent, [MNext]_messageVars, message' # <<>> PROVE Sent'
  BY DEF Sent
<1>1. message' = message
  BY DEF MNext, messageVars
<1>2. origin = "value" => origin' = "value" /\ given' = given
  <2>1. CASE Encode
    BY <2>1 DEF Encode, EncodeLeaf, EncodeContainer, EncodeItem, EncodeEntry, EncodeLeave, EncodeRefuse,
                Encoded, encoderVars
  <2>2. CASE Decode
    BY <2>2 DEF Decode, Supply, SupplyEnds, DecodeLeaf, DecodeContainer, DecodeKey, DecodeLeave,
                DecodeRefuse, Decoded, encoderVars
  <2>3. CASE UNCHANGED messageVars
    BY <2>3 DEF messageVars, vars, encoderVars
  <2>4. QED
    BY <2>1, <2>2, <2>3 DEF MNext, Next
<1>3. QED
  BY <1>1, <1>2 DEF Sent

\* A message is a map with the values of its fields in a map.
LEMMA MessageIsValue ==
    ASSUME NEW m, WellTyped(m)
    PROVE  \E S : ValueSet(S) /\ ToValue(m) \in S
<1> DEFINE n == Len(Fields[m.kind])
           names == Names(m.kind)
           leaves == {m.fields[i] : i \in 1..n}
           header == {Leaf("integer", "", ProtocolVersion), Leaf("integer", "", m.id), Leaf("string", m.kind, 0)}
           S == leaves \cup header \cup {Payload(m), ToValue(m)}
<1>1. /\ m.kind \in DOMAIN Fields /\ m.fields = [i \in 1..n |-> m.fields[i]] /\ n \in Nat
      /\ Len(names) = n /\ \A i \in 1..n : IsLeaf(m.fields[i])
  BY FieldNames, NamesOfKind DEF WellTyped
<1>2. names = [i \in 1..n |-> names[i]]
  BY DEF Names
<1>3. m.fields \in Seq(S) /\ Len(m.fields) = n
  <2>1. \A i \in 1..n : m.fields[i] \in S
    OBVIOUS
  <2> HIDE DEF S
  <2>2. QED
    BY <1>1, <2>1, SeqDef
<1>4. \A v \in header : IsLeaf(v)
  <2>1. ASSUME NEW kind \in LeafKinds, NEW text, NEW number PROVE IsLeaf(Leaf(kind, text, number))
    BY DEF IsLeaf, Leaf
  <2>2. "integer" \in LeafKinds /\ "string" \in LeafKinds
    BY DEF LeafKinds
  <2>3. QED
    BY <2>1, <2>2
<1>5. IsContainer(Payload(m)) /\ Payload(m).items = m.fields
  BY <1>1, <1>2, <1>3 DEF IsContainer, Payload, Container, Containers
<1>6. IsContainer(ToValue(m)) /\ ToValue(m).items \in Seq(S)
  <2> DEFINE items == <<Leaf("integer", "", ProtocolVersion), Leaf("integer", "", m.id),
                        Leaf("string", m.kind, 0), Payload(m)>>
  <2>1. items \in Seq(S) /\ Len(items) = 4
    OBVIOUS
  <2>2. EnvelopeNames = [i \in 1..4 |-> EnvelopeNames[i]]
    BY DEF EnvelopeNames
  <2>3. ToValue(m) = Container("map", EnvelopeNames, items)
    BY DEF ToValue
  <2> HIDE DEF items, S
  <2>4. PICK v, keys : v = ToValue(m) /\ keys = EnvelopeNames
    OBVIOUS
  <2>5. v.kind = "map" /\ v.keys = EnvelopeNames /\ v.items = items
    <3>1. v = Container("map", keys, items)
      BY <2>3, <2>4
    <3>2. v.kind = "map" /\ v.keys = keys /\ v.items = items
      BY <3>1 DEF Container
    <3>3. QED
      BY <2>4, <3>2
  <2>6. v = Container(v.kind, v.keys, v.items) /\ v.kind \in Containers
    BY <2>3, <2>4, <2>5 DEF Containers
  <2>7. v.keys = [i \in 1..Len(v.items) |-> v.keys[i]]
    BY <2>1, <2>2, <2>5
  <2>8. IsContainer(v)
    BY <2>5, <2>6, <2>7 DEF IsContainer
  <2>9. QED
    BY <2>1, <2>4, <2>5, <2>8
<1>7. ValueSet(S)
  <2>1. ASSUME NEW v \in S PROVE IsLeaf(v) \/ (IsContainer(v) /\ v.items \in Seq(S))
    <3>1. v \in leaves => IsLeaf(v)
      BY <1>1
    <3>2. v \in header => IsLeaf(v)
      BY <1>4
    <3>3. v = Payload(m) => IsContainer(v) /\ v.items \in Seq(S)
      BY <1>3, <1>5
    <3>4. v = ToValue(m) => IsContainer(v) /\ v.items \in Seq(S)
      BY <1>6
    <3>5. QED
      BY <3>1, <3>2, <3>3, <3>4
  <2> HIDE DEF S
  <2>2. QED
    BY <2>1 DEF ValueSet
<1>8. ToValue(m) \in S
  OBVIOUS
<1> HIDE DEF S
<1>9. QED
  BY <1>7, <1>8

\* Messages, and the bytes of whoever encodes none, start where values do.
LEMMA MessageStarts == MInit => RoundTripInv
<1>1. ASSUME NEW m \in Candidates, InitMessage(m) PROVE RoundTripInv
  <2>1. PICK S : ValueSet(S) /\ ToValue(m) \in S
    BY CandidatesAssumption, MessageIsValue
  <2>2. InitValue(ToValue(m)) /\ InitRest
    BY <1>1 DEF InitMessage
  <2>3. QED
    BY <2>1, <2>2, RoundTripInit
<1>2. Init => RoundTripInv
  BY ValueStarts
<1>3. QED
  BY <1>1, <1>2 DEF MInit

(* Every message Message::new accepts and the limits allow is read as the  *)
(* message that was sent, whatever its identifier and fields.              *)
THEOREM MessagesArrive == MSpec => []MessageArrives
<1>1. Sent /\ RoundTripInv => MessageArrives
  <2> SUFFICES ASSUME Sent, RoundTripInv, message # <<>>, phase = "done"
               PROVE  FromValueAccepts(Arrived) /\ Message(Arrived) = message[1]
    BY DEF MessageArrives
  <2>1. origin = "value" /\ given = <<ToValue(message[1])>> /\ WellTyped(message[1]) /\ Accepted(message[1])
    BY DEF Sent
  <2>2. Arrived = ToValue(message[1])
    BY <2>1 DEF RoundTripInv, Arrived
  <2>3. QED
    BY <2>1, <2>2, ReadBack
<1>2. RoundTripInv /\ [MNext]_messageVars => RoundTripInv'
  BY RoundTripNext DEF MNext, messageVars
<1>3. QED
  BY <1>1, <1>2, MessageStarts, SentInit, SentStep, PTL DEF MSpec

-----------------------------------------------------------------------------
\* As many keys as distinct names, and a key for each name: no key is left over.
LEMMA NoneLeftOver ==
    ASSUME NEW v, NEW names, Len(names) \in Nat, ExactMap(v, names),
           \A i, j \in 1..Len(names) : names[i] = names[j] => i = j
    PROVE  \A j \in 1..Len(names) : \E i \in 1..Len(names) :
               v.keys[j] = names[i] /\ v.items[j] = Get(v, names[i])
<1> DEFINE n == Len(names)
           at(i) == CHOOSE j \in 1..Len(v.keys) : v.keys[j] = names[i]
           f == [i \in 1..n |-> at(i)]
<1>1. Len(v.keys) = n /\ n \in Nat
  BY DEF ExactMap
<1>2. ASSUME NEW i \in 1..n PROVE at(i) \in 1..n /\ v.keys[at(i)] = names[i] /\ Get(v, names[i]) = v.items[at(i)]
  BY <1>1 DEF ExactMap, Get
<1> HIDE DEF at
<1>3. f \in [1..n -> 1..n]
  BY <1>2
<1>4. ASSUME NEW i \in 1..n, NEW j \in 1..n, f[i] = f[j] PROVE i = j
  <2>1. names[i] = names[j]
    BY <1>2, <1>4
  <2>2. QED
    BY <2>1
<1>5. f \in Injection(1..n, 1..n)
  BY <1>3, <1>4, Fun_IsInj
<1>6. IsFiniteSet(1..n)
  BY FS_Interval
<1>7. f \in Surjection(1..n, 1..n)
  BY <1>5, <1>6, FS_Injection
<1>8. ASSUME NEW j \in 1..n PROVE \E i \in 1..n : at(i) = j
  BY <1>7 DEF Surjection
<1>9. ASSUME NEW j \in 1..n PROVE \E i \in 1..n : v.keys[j] = names[i] /\ v.items[j] = Get(v, names[i])
  <2>1. PICK i \in 1..n : at(i) = j
    BY <1>8
  <2>2. v.keys[at(i)] = names[i] /\ Get(v, names[i]) = v.items[at(i)]
    BY <1>2
  <2>3. QED
    BY <2>1, <2>2
<1>10. QED
  BY <1>9

\* Nothing a value that is taken for a message says is left out of the message.
LEMMA AllKept ==
    ASSUME NEW v, FromValueAccepts(v)
    PROVE  /\ \A j \in 1..Len(v.keys) : \E i \in 1..4 : v.keys[j] = EnvelopeNames[i]
           /\ SameMap(Get(v, "payload"), Payload(Message(v)))
<1>1. \A j \in 1..Len(v.keys) : \E i \in 1..4 : v.keys[j] = EnvelopeNames[i]
  <2>1. Len(EnvelopeNames) = 4 /\ ExactMap(v, EnvelopeNames)
    BY DEF EnvelopeNames, FromValueAccepts, EnvelopeParses
  <2>2. Len(v.keys) = 4
    BY <2>1 DEF ExactMap
  <2>3. \A i, j \in 1..4 : EnvelopeNames[i] = EnvelopeNames[j] => i = j
    <3>1. \A i \in 1..4 : i = 1 \/ i = 2 \/ i = 3 \/ i = 4
      OBVIOUS
    <3>2. /\ EnvelopeNames[1] = "protocolVersion" /\ EnvelopeNames[2] = "requestId"
          /\ EnvelopeNames[3] = "kind" /\ EnvelopeNames[4] = "payload"
      BY DEF EnvelopeNames
    <3>3. QED
      BY <3>1, <3>2
  <2>4. 4 \in Nat
    OBVIOUS
  <2>5. \A j \in 1..4 : \E i \in 1..4 :
            v.keys[j] = EnvelopeNames[i] /\ v.items[j] = Get(v, EnvelopeNames[i])
    <3>1. Len(EnvelopeNames) \in Nat
      BY <2>1, <2>4
    <3>2. \A i, j \in 1..Len(EnvelopeNames) : EnvelopeNames[i] = EnvelopeNames[j] => i = j
      BY <2>1, <2>3
    <3>3. \A j \in 1..Len(EnvelopeNames) : \E i \in 1..Len(EnvelopeNames) :
            v.keys[j] = EnvelopeNames[i] /\ v.items[j] = Get(v, EnvelopeNames[i])
      BY <2>1, <3>1, <3>2, NoneLeftOver, Zenon
    <3>4. QED
      BY <2>1, <3>3
  <2>6. QED
    BY <2>2, <2>5, Zenon
<1> DEFINE kind == Get(v, "kind").text
           p == Get(v, "payload")
           w == Payload(Message(v))
           n == Len(Fields[kind])
<1>2. /\ kind \in DOMAIN Fields
      /\ ExactMap(p, Names(kind))
  BY DEF FromValueAccepts, EnvelopeParses, PayloadParses
<1>3. w.keys = Names(kind) /\ w.items = [i \in 1..n |-> Get(p, Fields[kind][i].name)]
  BY DEF Payload, Container, Message, FieldsOf
<1> HIDE DEF kind, p, w, n
<1>4. /\ n \in Nat
      /\ Len(Names(kind)) = n
      /\ \A i \in 1..n : Names(kind)[i] = Fields[kind][i].name
      /\ \A i, j \in 1..n : Fields[kind][i].name = Fields[kind][j].name => i = j
  BY <1>2, FieldNames, NamesOfKind DEF n
<1>5. \A j \in 1..n : \E i \in 1..n : p.keys[j] = Names(kind)[i] /\ p.items[j] = Get(p, Names(kind)[i])
  <2>1. \A i, j \in 1..n : Names(kind)[i] = Names(kind)[j] => i = j
    BY <1>4
  <2>2. QED
    <3>1. Len(Names(kind)) \in Nat
      BY <1>4
    <3>2. \A i, j \in 1..Len(Names(kind)) : Names(kind)[i] = Names(kind)[j] => i = j
      BY <1>4, <2>1
    <3>3. \A j \in 1..Len(Names(kind)) : \E i \in 1..Len(Names(kind)) :
            p.keys[j] = Names(kind)[i] /\ p.items[j] = Get(p, Names(kind)[i])
      <4> DEFINE names == Names(kind)
      <4>1. ExactMap(p, names) /\ Len(names) \in Nat
        BY <1>2, <3>1
      <4>2. \A i, j \in 1..Len(names) : names[i] = names[j] => i = j
        BY <3>2
      <4> HIDE DEF names
      <4>3. \A j \in 1..Len(names) : \E i \in 1..Len(names) :
              p.keys[j] = names[i] /\ p.items[j] = Get(p, names[i])
        BY <4>1, <4>2, NoneLeftOver
      <4>4. QED
        BY <4>3 DEF names
    <3>4. QED
      BY <1>4, <3>3
<1>6. Len(p.keys) = n
  BY <1>2, <1>4 DEF ExactMap
<1>7. ASSUME NEW j \in 1..n PROVE \E i \in 1..n : p.keys[j] = w.keys[i] /\ p.items[j] = w.items[i]
  <2>1. PICK i \in 1..n : p.keys[j] = Names(kind)[i] /\ p.items[j] = Get(p, Names(kind)[i])
    BY <1>5
  <2>2. w.keys[i] = Names(kind)[i] /\ w.items[i] = Get(p, Names(kind)[i])
    BY <1>3, <1>4
  <2>3. QED
    BY <2>1, <2>2
<1>8. SameMap(p, w)
  <2>1. Len(w.keys) = n
    BY <1>3, <1>4
  <2>2. QED
    BY <1>6, <1>7, <2>1 DEF SameMap
<1>9. QED
  BY <1>1, <1>8 DEF p, w

(* No entry of a value that is taken for a message is dropped, whatever    *)
(* bytes arrived (exact_map, lib.rs:556).                                  *)
THEOREM NoEntryLost == MSpec => []NothingLost
<1>1. NothingLost
  BY AllKept, Zenon DEF NothingLost
<1>2. QED
  BY <1>1, PTL
=============================================================================
