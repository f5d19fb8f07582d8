---------------------------- MODULE BridgeValue -----------------------------
(***************************************************************************)
(* Bridge Value v1 (aura-bridge-value, value.rs): the values plugins,      *)
(* payloads and the process protocol exchange, and the two recursive       *)
(* procedures that write and read them.  Encoder and decoder are machines  *)
(* here: one action for each step into or out of a value, with the Rust    *)
(* call stack in a variable, so that depth, counters and what is open can  *)
(* be stated at every moment.                                              *)
(*                                                                         *)
(* A value is written as a sequence of tokens.  A token stands for the     *)
(* bytes read together: a value without entries, the beginning of an array *)
(* or map, or a key.  Anything else, a token cut short included, is the    *)
(* token Other: all of it is refused alike.                                *)
(***************************************************************************)
EXTENDS Integers, Sequences

CONSTANTS
    MaxDepth,      \* MAX_DEPTH
    MaxValues,     \* MAX_TOTAL_VALUES
    MaxContainer,  \* MAX_CONTAINER_ENTRIES
    MaxString,     \* MAX_STRING_BYTES
    MaxBytes,      \* MAX_BYTE_BYTES
    MaxContent,    \* MAX_TOTAL_CONTENT_BYTES
    TextSize,      \* the bytes of each string and byte sequence
    Invalid,       \* floats that are not finite, handles HandleValue::new refuses, unknown error codes
    LocalValues,   \* values handed to to_wire
    Openings,      \* what bytes handed to from_wire may begin with
    Tokens,        \* and go on with
    MaxTokens      \* bound: how many tokens may follow an opening

ASSUME LimitsAssumption ==
    /\ MaxDepth \in Nat /\ MaxValues \in Nat /\ MaxContainer \in Nat
    /\ MaxString \in Nat /\ MaxBytes \in Nat /\ MaxContent \in Nat
    /\ \A text \in DOMAIN TextSize : TextSize[text] \in Nat

Containers == {"array", "map"}
LeafKinds == {"null", "bool", "integer", "float", "string", "bytes", "handle", "error"}

\* The length of a container is unsigned; a container has no text and a key no number.
AnyToken ==
    {token \in [kind : LeafKinds \cup Containers \cup {"key", "other"}, text : DOMAIN TextSize, number : Int] :
        /\ token.kind \in Containers => token.number \in Nat /\ token.text = ""
        /\ token.kind = "key" => token.number = 0}

ASSUME TokensAssumption == Tokens \subseteq AnyToken /\ Openings \subseteq Seq(AnyToken)

\* Every value has the same fields: text and number say which of its kind it is.
Leaf(kind, text, number) ==
    [kind |-> kind, text |-> text, number |-> number, keys |-> <<>>, items |-> <<>>]
Container(kind, keys, items) ==
    [kind |-> kind, text |-> "", number |-> 0, keys |-> keys, items |-> items]

Token(kind, text, number) == [kind |-> kind, text |-> text, number |-> number]
Key(text) == Token("key", text, 0)
Other == Token("other", "", 0)

IsLeaf(v) == v.kind \in LeafKinds /\ v = Leaf(v.kind, v.text, v.number)

\* An array, or a map with a key for each item.
IsContainer(v) ==
    /\ v.kind \in Containers
    /\ v = Container(v.kind, v.keys, v.items)
    /\ v.keys = [i \in 1..IF v.kind = "map" THEN Len(v.items) ELSE 0 |-> v.keys[i]]

\* Values as BridgeValue's variants have them, made of values of the same set.
ValueSet(S) == \A v \in S : IsLeaf(v) \/ (IsContainer(v) /\ v.items \in Seq(S))

\* Its text and its keys have a size.
Sized(v) ==
    /\ v.kind \in {"string", "bytes"} => v.text \in DOMAIN TextSize
    /\ \A i \in 1..Len(v.keys) : v.keys[i] \in DOMAIN TextSize

ASSUME ValuesAssumption == ValueSet(LocalValues)
ASSUME TextsAssumption == \A v \in LocalValues : Sized(v)

\* What is written first of a value.
FirstToken(v) == Token(v.kind, v.text, IF v.kind \in Containers THEN Len(v.items) ELSE v.number)

VARIABLES
    origin,   \* "value": encoded, then decoded; "wire": decoded, then encoded; "script": see ScriptValues
    phase,    \* "encode", "decode", "done", "encoder refused" or "decoder refused"
    given,    \* the value to encode, or none
    call,     \* the value Encoder::value was just called with, or none
    work,     \* the containers Encoder::value is in: [value, at], at the next entry
    out,      \* the tokens written
    wire,     \* the tokens to read
    ended,    \* nothing comes after them
    offset,   \* how many were read
    open,     \* the containers Decoder::value is in: [kind, number, keys, items]
    result,   \* the value read, or none
    count,    \* values met, by whichever of the two is running
    content   \* bytes of strings, keys and byte sequences met

encoderVars == <<given, call, work, out>>
decoderVars == <<wire, ended, offset, open, result>>
counters == <<count, content>>
vars == <<origin, phase, encoderVars, decoderVars, counters>>

InitValue(v) ==
    /\ origin = "value"
    /\ phase = "encode"
    /\ given = <<v>>
    /\ call = <<v>>
    /\ wire = <<>>
    /\ ended = FALSE

InitWire(tokens) ==
    /\ origin = "wire"
    /\ phase = "decode"
    /\ given = <<>>
    /\ call = <<>>
    /\ wire = tokens
    /\ ended = FALSE

InitRest ==
    /\ work = <<>>
    /\ out = <<>>
    /\ offset = 0
    /\ open = <<>>
    /\ result = <<>>
    /\ count = 0
    /\ content = 0

Init ==
    /\ \/ \E v \in LocalValues : InitValue(v)
       \/ \E tokens \in Openings : InitWire(tokens)
    /\ InitRest

-----------------------------------------------------------------------------
(* The limits, which both procedures check before they go on *)

\* A value at this depth may be entered.
Admits(depth) == depth <= MaxDepth /\ count < MaxValues

\* Slip: a key does not count as content.
SizeWithoutKeys(token) == IF token.kind \in {"string", "bytes"} THEN TextSize[token.text] ELSE 0

Size(token) == IF token.kind \in {"string", "bytes", "key"} THEN TextSize[token.text] ELSE 0

SizeLimit(token) == IF token.kind = "bytes" THEN MaxBytes ELSE MaxString

Affords(token) == Size(token) <= SizeLimit(token) /\ content + Size(token) <= MaxContent

Add(token) == content' = content + Size(token)

-----------------------------------------------------------------------------
(* Encoder::value *)

Top(stack) == stack[Len(stack)]
Rest(stack) == SubSeq(stack, 1, Len(stack) - 1)

Calls == phase = "encode" /\ call # <<>>

\* Slip: the limit on depth is one deeper than the decoder's.
EncodableDeeper(v) ==
    /\ Admits(Len(work) - 1)
    /\ IF v.kind \in Containers THEN Len(v.items) <= MaxContainer
       ELSE v.text \notin Invalid /\ Affords(FirstToken(v))

Encodable(v) ==
    /\ Admits(Len(work))
    /\ IF v.kind \in Containers THEN Len(v.items) <= MaxContainer
       ELSE v.text \notin Invalid /\ Affords(FirstToken(v))

EncodeLeaf ==
    /\ Calls
    /\ call[1].kind \in LeafKinds
    /\ Encodable(call[1])
    /\ count' = count + 1
    /\ Add(FirstToken(call[1]))
    /\ out' = Append(out, FirstToken(call[1]))
    /\ call' = <<>>
    /\ UNCHANGED <<origin, phase, given, work, decoderVars>>

EncodeContainer ==
    /\ Calls
    /\ call[1].kind \in Containers
    /\ Encodable(call[1])
    /\ count' = count + 1
    /\ out' = Append(out, FirstToken(call[1]))
    /\ work' = Append(work, [value |-> call[1], at |-> 1])
    /\ call' = <<>>
    /\ UNCHANGED <<origin, phase, given, content, decoderVars>>

\* The loop over a container's entries goes on.
HasNext ==
    /\ phase = "encode"
    /\ call = <<>>
    /\ work # <<>>
    /\ Top(work).at <= Len(Top(work).value.items)

Advance ==
    /\ call' = <<Top(work).value.items[Top(work).at]>>
    /\ work' = [work EXCEPT ![Len(work)].at = @ + 1]

EncodeItem ==
    /\ HasNext
    /\ Top(work).value.kind = "array"
    /\ Advance
    /\ UNCHANGED <<origin, phase, given, out, counters, decoderVars>>

\* keys.insert, then self.string.
KeyEncodable ==
    LET entry == Top(work)
        key   == entry.value.keys[entry.at]
    IN  /\ \A j \in 1..entry.at - 1 : entry.value.keys[j] # key
        /\ Affords(Key(key))

EncodeEntry ==
    /\ HasNext
    /\ Top(work).value.kind = "map"
    /\ KeyEncodable
    /\ LET key == Key(Top(work).value.keys[Top(work).at])
       IN  out' = Append(out, key) /\ Add(key)
    /\ Advance
    /\ UNCHANGED <<origin, phase, given, count, decoderVars>>

EncodeLeave ==
    /\ phase = "encode"
    /\ call = <<>>
    /\ work # <<>>
    /\ Top(work).at > Len(Top(work).value.items)
    /\ work' = Rest(work)
    /\ UNCHANGED <<origin, phase, given, call, out, decoderVars, counters>>

EncodeRefuse ==
    /\ \/ Calls /\ ~ Encodable(call[1])
       \/ HasNext /\ Top(work).value.kind = "map" /\ ~ KeyEncodable
    /\ phase' = "encoder refused"
    /\ UNCHANGED <<origin, encoderVars, decoderVars, counters>>

\* to_wire returns; what it wrote is read back.
Encoded ==
    /\ phase = "encode"
    /\ call = <<>>
    /\ work = <<>>
    /\ IF origin = "value"
       THEN /\ phase' = "decode"
            /\ wire' = out
            /\ ended' = TRUE
            /\ count' = 0
            /\ content' = 0
            /\ UNCHANGED <<offset, open, result>>
       ELSE phase' = "done" /\ UNCHANGED <<decoderVars, counters>>
    /\ UNCHANGED <<origin, encoderVars>>

-----------------------------------------------------------------------------
(* Decoder::value *)

\* What the decoder reads next.
Wants ==
    IF open = <<>> THEN IF result = <<>> THEN "value" ELSE "end"
    ELSE IF Len(Top(open).items) = Top(open).number THEN "nothing"
    ELSE IF Top(open).kind = "map" /\ Len(Top(open).keys) = Len(Top(open).items) THEN "key"
    ELSE "value"

There == phase = "decode" /\ offset < Len(wire)

Ahead == wire[offset + 1]

\* Bytes from outside arrive, as far as they are needed.
Supply(token) ==
    /\ phase = "decode"
    /\ ~ ended
    /\ offset = Len(wire)
    /\ Len(wire) < MaxTokens
    /\ wire' = Append(wire, token)
    /\ UNCHANGED <<origin, phase, encoderVars, ended, offset, open, result, counters>>

SupplyEnds ==
    /\ phase = "decode"
    /\ ~ ended
    /\ offset = Len(wire) \/ Wants = "end"
    /\ ended' = TRUE
    /\ UNCHANGED <<origin, phase, encoderVars, wire, offset, open, result, counters>>

\* Value v is complete: it is the result or the next entry of its container.
Return(v, around) ==
    IF around = <<>> THEN open' = <<>> /\ result' = <<v>>
    ELSE open' = [around EXCEPT ![Len(around)].items = Append(@, v)] /\ UNCHANGED result

LeafDecodable(token) ==
    /\ Admits(Len(open))
    /\ token.kind \in LeafKinds
    /\ token.text \notin Invalid
    /\ Affords(token)

DecodeLeaf ==
    /\ There
    /\ Wants = "value"
    /\ LeafDecodable(Ahead)
    /\ offset' = offset + 1
    /\ count' = count + 1
    /\ Add(Ahead)
    /\ Return(Leaf(Ahead.kind, Ahead.text, Ahead.number), open)
    /\ UNCHANGED <<origin, phase, encoderVars, wire, ended>>

ContainerDecodable(token) ==
    /\ Admits(Len(open))
    /\ token.kind \in Containers
    /\ token.number <= MaxContainer

DecodeContainer ==
    /\ There
    /\ Wants = "value"
    /\ ContainerDecodable(Ahead)
    /\ offset' = offset + 1
    /\ count' = count + 1
    /\ open' = Append(open, [kind |-> Ahead.kind, number |-> Ahead.number, keys |-> <<>>, items |-> <<>>])
    /\ UNCHANGED <<origin, phase, encoderVars, wire, ended, result, content>>

\* Slip: the keys of a map are not compared.
KeyDecodableTwice(token) == token.kind = "key" /\ Affords(token)

KeyDecodable(token) ==
    /\ token.kind = "key"
    /\ Affords(token)
    /\ \A j \in 1..Len(Top(open).keys) : Top(open).keys[j] # token.text

DecodeKey ==
    /\ There
    /\ Wants = "key"
    /\ KeyDecodable(Ahead)
    /\ offset' = offset + 1
    /\ Add(Ahead)
    /\ open' = [open EXCEPT ![Len(open)].keys = Append(@, Ahead.text)]
    /\ UNCHANGED <<origin, phase, encoderVars, wire, ended, result, count>>

DecodeLeave ==
    /\ phase = "decode"
    /\ Wants = "nothing"
    /\ Return(Container(Top(open).kind, Top(open).keys, Top(open).items), Rest(open))
    /\ UNCHANGED <<origin, phase, encoderVars, wire, ended, offset, counters>>

\* Slip: what follows the value is ignored.
UnreadableUnlessMore ==
    \/ Wants = "value" /\ ~ Admits(Len(open))
    \/ Wants \in {"value", "key"} /\ offset = Len(wire) /\ ended
    \/ Wants = "value" /\ offset < Len(wire) /\ ~ LeafDecodable(Ahead) /\ ~ ContainerDecodable(Ahead)
    \/ Wants = "key" /\ offset < Len(wire) /\ ~ KeyDecodable(Ahead)

Unreadable ==
    \/ Wants = "value" /\ ~ Admits(Len(open))
    \/ Wants \in {"value", "key"} /\ offset = Len(wire) /\ ended
    \/ Wants = "value" /\ offset < Len(wire) /\ ~ LeafDecodable(Ahead) /\ ~ ContainerDecodable(Ahead)
    \/ Wants = "key" /\ offset < Len(wire) /\ ~ KeyDecodable(Ahead)
    \/ Wants = "end" /\ offset < Len(wire)

DecodeRefuse ==
    /\ phase = "decode"
    /\ Unreadable
    /\ phase' = "decoder refused"
    /\ UNCHANGED <<origin, encoderVars, decoderVars, counters>>

\* from_wire returns; what it read is written again.
Decoded ==
    /\ phase = "decode"
    /\ Wants = "end"
    /\ ended
    /\ ~ Unreadable
    /\ IF origin = "wire"
       THEN /\ phase' = "encode"
            /\ given' = result
            /\ call' = result
            /\ count' = 0
            /\ content' = 0
            /\ UNCHANGED <<work, out>>
       ELSE phase' = "done" /\ UNCHANGED <<encoderVars, counters>>
    /\ UNCHANGED <<origin, decoderVars>>

-----------------------------------------------------------------------------
Encode ==
    EncodeLeaf \/ EncodeContainer \/ EncodeItem \/ EncodeEntry \/ EncodeLeave \/ EncodeRefuse \/ Encoded

Decode ==
    \/ \E token \in Tokens : Supply(token)
    \/ SupplyEnds
    \/ DecodeLeaf \/ DecodeContainer \/ DecodeKey \/ DecodeLeave \/ DecodeRefuse \/ Decoded

Next == Encode \/ Decode

Spec == Init /\ [][Next]_vars

-----------------------------------------------------------------------------
\* Distinct keys, as many as there are entries or one more.
WellFormed(frame) ==
    /\ frame.kind \in Containers
    /\ frame.number \in 0..MaxContainer
    /\ Len(frame.items) <= frame.number
    /\ frame.kind = "array" => frame.keys = <<>>
    /\ frame.kind = "map" => Len(frame.keys) \in {Len(frame.items), Len(frame.items) + 1}
    /\ \A i, j \in 1..Len(frame.keys) : frame.keys[i] = frame.keys[j] => i = j

(* Whatever bytes arrive, the decoder holds no more than the limits allow, *)
(* at every moment and not only in what it returns: the containers open,   *)
(* the entries each asks room for, and the values and bytes counted.       *)
Bounded ==
    origin = "wire" /\ phase = "decode" =>
        /\ count \in 0..MaxValues
        /\ content \in 0..MaxContent
        /\ Len(open) <= MaxDepth + 1
        /\ \A i \in 1..Len(open) : WellFormed(open[i])

(* A value to_wire accepts is accepted by from_wire and comes out the same *)
(* ("Bridge Value v1 ... deterministic", value.rs:73): the limits of the   *)
(* two procedures, kept separately, are the same ones.                     *)
RoundTrip ==
    origin = "value" =>
        /\ phase # "decoder refused"
        /\ phase = "done" => result = given

(* from_wire accepts nothing that to_wire would write otherwise ("Decodes  *)
(* one complete canonical Bridge Value v1 payload", value.rs:106).         *)
Canonical ==
    origin = "wire" =>
        /\ phase # "encoder refused"
        /\ phase = "done" => out = wire
=============================================================================
