-------------------------- MODULE ProcessMessages ---------------------------
(***************************************************************************)
(* The messages of the process protocol (protocol lib.rs): which of them   *)
(* Message::new accepts, the Bridge Value each is written as, and what is  *)
(* made of a Bridge Value that arrives.                                    *)
(***************************************************************************)
EXTENDS BridgeValue

CONSTANTS
    MaxId,        \* i64::MAX
    MaxMessage,   \* the bytes of an error message
    Blank,        \* texts that trim to nothing
    Codes,        \* lower-case kebab texts of at most 128 bytes
    Candidates    \* messages a program asks Message::new for

ASSUME MessagesAssumption == MaxId \in Nat /\ MaxMessage \in Nat

VARIABLE message  \* the message encoded, or none

messageVars == <<message, vars>>

ProtocolVersion == 1

\* The kinds, and the fields each has on the wire, in their order.
Field(name, rule) == [name |-> name, rule |-> rule]

Fields ==
    [hello           |-> <<>>,
     load            |-> <<Field("packageRoot", "text"), Field("entrypoint", "text"),
                           Field("pluginId", "positive"), Field("session", "positive")>>,
     enable          |-> <<>>,
     invoke          |-> <<Field("operation", "text"), Field("input", "bytes"),
                           Field("callbackId", "nonnegative")>>,
     disable         |-> <<>>,
     shutdown        |-> <<>>,
     ok              |-> <<>>,
     result          |-> <<Field("output", "bytes")>>,
     error           |-> <<Field("code", "code"), Field("message", "diagnostic")>>,
     bridge_invoke   |-> <<Field("operation", "text"), Field("input", "bytes")>>,
     retain_handle   |-> <<Field("objectId", "positive"), Field("generation", "positive")>>,
     release_handle  |-> <<Field("objectId", "positive"), Field("generation", "positive")>>,
     callback_result |-> <<Field("output", "bytes")>>,
     callback_error  |-> <<Field("code", "code")>>]

EvenKinds == {"bridge_invoke", "retain_handle", "release_handle", "callback_result", "callback_error"}

\* The wire type of a field.
Type(rule) ==
    CASE rule \in {"text", "code", "diagnostic"} -> "string"
      [] rule \in {"positive", "nonnegative"}    -> "integer"
      [] rule = "bytes"                          -> "bytes"

\* MessageBody::validate, one field.
Holds(rule, v) ==
    CASE rule = "text"        -> v.text \notin Blank
      [] rule = "code"        -> v.text \in Codes
      [] rule = "diagnostic"  -> v.text \notin Blank /\ TextSize[v.text] <= MaxMessage
      [] rule = "positive"    -> v.number \in 1..MaxId
      [] rule = "nonnegative" -> v.number \in 0..MaxId
      [] rule = "bytes"       -> TRUE

\* Message bodies as Rust's types have them.
WellTyped(m) ==
    /\ m = [id |-> m.id, kind |-> m.kind, fields |-> m.fields]
    /\ m.id \in Nat
    /\ m.kind \in DOMAIN Fields
    /\ m.fields = [i \in 1..Len(Fields[m.kind]) |-> m.fields[i]]
    /\ \A i \in 1..Len(Fields[m.kind]) :
           IsLeaf(m.fields[i]) /\ m.fields[i].kind = Type(Fields[m.kind][i].rule)

ASSUME CandidatesAssumption == \A m \in Candidates : WellTyped(m)

Valid(m) == \A i \in 1..Len(Fields[m.kind]) : Holds(Fields[m.kind][i].rule, m.fields[i])

\* Message::new.
Accepted(m) ==
    /\ m.id \in 1..MaxId
    /\ (m.id % 2 = 0) = (m.kind \in EvenKinds)
    /\ Valid(m)

-----------------------------------------------------------------------------
(* Message::to_wire and MessageBody::to_value *)

Names(kind) == [i \in 1..Len(Fields[kind]) |-> Fields[kind][i].name]

Payload(m) == Container("map", Names(m.kind), m.fields)

EnvelopeNames == <<"protocolVersion", "requestId", "kind", "payload">>

ToValue(m) ==
    Container("map", EnvelopeNames,
              <<Leaf("integer", "", ProtocolVersion), Leaf("integer", "", m.id),
                Leaf("string", m.kind, 0), Payload(m)>>)

-----------------------------------------------------------------------------
(* Message::from_wire and MessageBody::from_value *)

ExactMap(v, names) ==
    /\ v.kind = "map"
    /\ Len(v.keys) = Len(names)
    /\ \A i \in 1..Len(names) : \E j \in 1..Len(v.keys) : v.keys[j] = names[i]

\* The keys of a map are distinct, so the first with this name is the only one.
Get(v, name) == v.items[CHOOSE j \in 1..Len(v.keys) : v.keys[j] = name]

\* Slip: the fields are taken in the order they are expected in.
FieldsInOrder(kind, payload) == payload.items

FieldsOf(kind, payload) == [i \in 1..Len(Fields[kind]) |-> Get(payload, Fields[kind][i].name)]

\* Slip: an identifier that may be zero is read like the others.
TypedPositive(rule, v) ==
    /\ v.kind = Type(rule)
    /\ rule \in {"positive", "nonnegative"} => v.number > 0

\* positive_id, nonnegative_id, owned_string and bytes.
Typed(rule, v) ==
    /\ v.kind = Type(rule)
    /\ rule = "positive" => v.number > 0
    /\ rule = "nonnegative" => v.number >= 0

PayloadParses(kind, payload) ==
    /\ ExactMap(payload, Names(kind))
    /\ \A i \in 1..Len(Fields[kind]) : Typed(Fields[kind][i].rule, FieldsOf(kind, payload)[i])

\* The message a value stands for, before Message::new.
Message(v) ==
    LET kind == Get(v, "kind").text
    IN  [id |-> Get(v, "requestId").number, kind |-> kind,
         fields |-> FieldsOf(kind, Get(v, "payload"))]

EnvelopeParses(v) ==
    /\ ExactMap(v, EnvelopeNames)
    /\ Get(v, "protocolVersion").kind = "integer"
    /\ Get(v, "protocolVersion").number = ProtocolVersion
    /\ Typed("positive", Get(v, "requestId"))
    /\ Get(v, "kind").kind = "string"
    /\ Get(v, "kind").text \in DOMAIN Fields

FromValueAccepts(v) ==
    /\ EnvelopeParses(v)
    /\ PayloadParses(Get(v, "kind").text, Get(v, "payload"))
    /\ Accepted(Message(v))

-----------------------------------------------------------------------------
(* A message is encoded as the value it stands for. *)

InitMessage(m) ==
    /\ Accepted(m)
    /\ message = <<m>>
    /\ InitValue(ToValue(m))
    /\ InitRest

MInit ==
    \/ \E m \in Candidates : InitMessage(m)
    \/ message = <<>> /\ Init

MNext == Next /\ UNCHANGED message

MSpec == MInit /\ [][MNext]_messageVars

-----------------------------------------------------------------------------
\* The value that was read.
Arrived == result[1]

(* A message that fits the limits arrives as it was sent, for each kind    *)
(* and each extreme of its fields.                                         *)
MessageArrives ==
    message # <<>> /\ phase = "done" => FromValueAccepts(Arrived) /\ Message(Arrived) = message[1]

\* The same entries, in any order.
SameMap(v, w) ==
    /\ Len(v.keys) = Len(w.keys)
    /\ \A i \in 1..Len(v.keys) : \E j \in 1..Len(w.keys) :
           v.keys[i] = w.keys[j] /\ v.items[i] = w.items[j]

SamePayload(v, m) == SameMap(Get(v, "payload"), Payload(m))

(* Whatever bytes are taken for a message, the message says all they said: *)
(* to_wire would write the same fields with the same values and no others, *)
(* only their order is not looked at ("Requires one map with exactly the   *)
(* named fields", lib.rs:555).                                             *)
NothingLost ==
    result # <<>> /\ FromValueAccepts(Arrived) =>
        /\ \A j \in 1..Len(Arrived.keys) : \E i \in 1..4 : Arrived.keys[j] = EnvelopeNames[i]
        /\ SameMap(Get(Arrived, "payload"), Payload(Message(Arrived)))
=============================================================================
