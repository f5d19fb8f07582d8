---------------------------- MODULE ScriptValues ----------------------------
(***************************************************************************)
(* Bridge Values in the payload's hands (engine value.rs): to_raw builds   *)
(* JavaScript objects from a value, from_raw makes a value of the objects  *)
(* the payload hands back.  Those form a graph, not a tree: they may be    *)
(* shared, contain themselves, and run payload code when they are looked   *)
(* at, which may change objects whose conversion is not over.              *)
(*                                                                         *)
(* from_raw_inner is a machine like the encoder and the decoder, which     *)
(* come before and after it: what was decoded is handed to the payload,    *)
(* and what was made of the payload's objects goes to the encoder.         *)
(***************************************************************************)
EXTENDS BridgeValue, FiniteSets

CONSTANTS
    MaxInteger,  \* i64::MAX
    Unpaired,    \* strings that are not Unicode text
    Scripts,     \* heaps of payloads that call the Bridge; the argument is object <<>>
    Edits,       \* what payload code may make of an array: [object, items]
    MaxEdits     \* bound: changes during a conversion

ASSUME ScriptAssumption == MaxInteger \in Nat /\ MaxEdits \in Nat

\* What the fields of a Value hold, and what tokens decode to: Unicode text, an i64, a handle
\* HandleValue::new accepts.
Held(x) ==
    /\ x.text \notin Unpaired
    /\ x.kind = "key" => x.text \notin Invalid
    /\ x.kind = "integer" => x.number \in -(MaxInteger + 1)..MaxInteger
    /\ x.kind = "handle" /\ x.text \notin Invalid => x.number \in 1..MaxInteger

HeldWithKeys(v) == Held(v) /\ \A i \in 1..Len(v.keys) : Held(Key(v.keys[i]))

ASSUME HeldAssumption ==
    /\ \A v \in LocalValues : HeldWithKeys(v)
    /\ \A token \in Tokens : Held(token)
    /\ \A tokens \in Openings : \A i \in 1..Len(tokens) : Held(tokens[i])

\* A JavaScript value is immediate, or one that is converted as if it were, or a reference.
Immediate(type, text, number) == [type |-> type, text |-> text, number |-> number, object |-> <<>>]
Ref(object) == [type |-> "object", text |-> "", number |-> 0, object |-> object]

Undefined == Immediate("undefined", "", 0)

\* A value among these objects.
Known(x, objects) ==
    /\ x.type \in {"string", "Uint8Array"} => x.text \in DOMAIN TextSize \cup Unpaired
    /\ x.type = "object" => x.object \in DOMAIN objects

\* An array, or a map with a key for each item.
ObjectAmong(o, objects) ==
    /\ o = [type |-> o.type, keys |-> o.keys, items |-> o.items, live |-> o.live]
    /\ o.type \in Containers
    /\ Len(o.items) \in Nat
    /\ Len(o.keys) = IF o.type = "map" THEN Len(o.items) ELSE 0
    /\ \A i \in 1..Len(o.items) : Known(o.items[i], objects)
    /\ \A i \in 1..Len(o.keys) : Known(o.keys[i], objects)

ASSUME ObjectsAssumption ==
    \A objects \in Scripts :
        /\ IsFiniteSet(DOMAIN objects) /\ <<>> \in DOMAIN objects
        /\ \A object \in DOMAIN objects : ObjectAmong(objects[object], objects)
        /\ \A edit \in Edits :
               Len(edit.items) \in Nat /\ \A i \in 1..Len(edit.items) : Known(edit.items[i], objects)

VARIABLES
    heap,       \* the arrays and maps: [type, keys, items, live], live if looking at them runs payload code
    edits,      \* changes made during the conversion
    pending,    \* the value from_raw_inner was just called with, or none
    frames,     \* the containers it is in: [object, type, length, keys, items, gotKeys, got]
    visited,    \* HashSet of the objects whose conversion goes on
    converted,  \* the value made, or none
    handed      \* the value that was handed to the payload, or none

heapVars == <<heap, edits>>
scriptVars == <<heapVars, pending, frames, visited, converted, handed>>
scriptAndValueVars == <<scriptVars, vars>>

NoScript ==
    /\ heap = <<>>
    /\ edits = 0
    /\ pending = <<>>
    /\ frames = <<>>
    /\ visited = {}
    /\ converted = <<>>
    /\ handed = <<>>

\* The payload calls the Bridge with an argument of its own.
InitScript(objects) ==
    /\ origin = "script"
    /\ phase = "script"
    /\ given = <<>>
    /\ call = <<>>
    /\ wire = <<>>
    /\ ended = FALSE
    /\ InitRest
    /\ heap = objects
    /\ edits = 0
    /\ pending = <<Ref(<<>>)>>
    /\ frames = <<>>
    /\ visited = {}
    /\ converted = <<>>
    /\ handed = <<>>

-----------------------------------------------------------------------------
(* to_raw *)

\* Slip: integers become numbers.
ScriptTypeOfNumbers ==
    [null |-> "null", bool |-> "boolean", integer |-> "number", float |-> "number", string |-> "string",
     bytes |-> "Uint8Array", handle |-> "AuraHandle", error |-> "AuraError"]

ScriptType ==
    [null |-> "null", bool |-> "boolean", integer |-> "bigint", float |-> "number", string |-> "string",
     bytes |-> "Uint8Array", handle |-> "AuraHandle", error |-> "AuraError"]

\* Fresh objects are called by their place in the value.
ToScript(v, place) ==
    IF v.kind \in Containers THEN Ref(place) ELSE Immediate(ScriptType[v.kind], v.text, v.number)

At(v, place) ==
    LET Down[n \in 0..Len(place)] == IF n = 0 THEN v ELSE Down[n - 1].items[place[n]]
    IN  Down[Len(place)]

\* The places of the containers in v, v itself included.
Places(v) ==
    LET Inner(w) == {i \in 1..Len(w.items) : w.items[i].kind \in Containers}
        Deep[d \in 0..MaxDepth] ==
            IF d = 0 THEN {<<>>}
            ELSE UNION {{Append(place, i) : i \in Inner(At(v, place))} : place \in Deep[d - 1]}
    IN  IF v.kind \in Containers THEN UNION {Deep[d] : d \in 0..MaxDepth} ELSE {}

ObjectsOf(v) ==
    [place \in Places(v) |->
        LET w == At(v, place)
        IN  [type  |-> w.kind,
             keys  |-> [i \in 1..Len(w.keys) |-> Immediate("string", w.keys[i], 0)],
             items |-> [i \in 1..Len(w.items) |-> ToScript(w.items[i], Append(place, i))],
             live  |-> FALSE]]

\* A value that was decoded becomes an argument or an answer; the payload hands it back.
HandOver ==
    /\ phase = "done"
    /\ origin \in {"value", "wire"}
    /\ handed' = result
    /\ heap' = ObjectsOf(result[1])
    /\ pending' = <<ToScript(result[1], <<>>)>>
    /\ origin' = "script"
    /\ phase' = "script"
    /\ UNCHANGED <<edits, frames, visited, converted, encoderVars, decoderVars, counters>>

-----------------------------------------------------------------------------
(* from_raw *)

KindOf(type) ==
    CASE type = "null"   -> "null"   [] type = "boolean"    -> "bool"   [] type = "bigint"     -> "integer"
      [] type = "number" -> "float"  [] type = "string"     -> "string" [] type = "Uint8Array" -> "bytes"
      [] type = "AuraHandle" -> "handle" [] type = "AuraError" -> "error"

\* JS_ToBigInt64: modulo 2^64.
Wrapped(n) ==
    LET half == MaxInteger + 1 IN ((n + half) % (2 * half)) - half

\* The checks of from_raw_inner, read_handle, read_error and read_string; a handle's number
\* is its object id.
Convertible(x) ==
    /\ x.type \in {"null", "boolean", "bigint", "number", "string", "Uint8Array", "AuraHandle", "AuraError"}
    /\ x.text \notin Invalid \cup Unpaired
    /\ x.type = "bigint" => x.number \in -(MaxInteger + 1)..MaxInteger
    /\ x.type = "AuraHandle" => Wrapped(x.number) > 0

LeafOf(x) == Leaf(KindOf(x.type), x.text, IF x.type = "AuraHandle" THEN Wrapped(x.number) ELSE x.number)

\* Value v is complete: it is the result or the next entry of its container.
Give(v, around) ==
    IF around = <<>> THEN frames' = <<>> /\ converted' = <<v>>
    ELSE frames' = [around EXCEPT ![Len(around)].got = Append(@, v)] /\ UNCHANGED converted

Receives == phase = "script" /\ pending # <<>>
Loops == phase = "script" /\ pending = <<>> /\ frames # <<>>

Source == pending[1]
More == Len(Top(frames).got) < Top(frames).length

ConvertLeaf ==
    /\ Receives
    /\ Source.type # "object"
    /\ Convertible(Source)
    /\ Give(LeafOf(Source), frames)
    /\ pending' = <<>>
    /\ UNCHANGED <<heapVars, visited, handed, vars>>

\* Slip: cycles are not looked for.
EnterableAlways(object) == Len(heap[object].items) <= MaxContainer

\* with_visited, and the length.
Enterable(object) == object \notin visited /\ Len(heap[object].items) <= MaxContainer

\* The length of an array is read once; the entries of a map are copied.
Enter ==
    /\ Receives
    /\ Source.type = "object"
    /\ Enterable(Source.object)
    /\ visited' = visited \cup {Source.object}
    /\ LET now == heap[Source.object]
       IN  frames' = Append(frames,
               [object |-> Source.object, type |-> now.type, length |-> Len(now.items), keys |-> now.keys,
                items |-> IF now.type = "map" THEN now.items ELSE <<>>, gotKeys |-> <<>>, got |-> <<>>])
    /\ pending' = <<>>
    /\ UNCHANGED <<heapVars, converted, handed, vars>>

NextElement ==
    /\ Loops
    /\ More
    /\ Top(frames).type = "array"
    /\ LET items == heap[Top(frames).object].items
           index == Len(Top(frames).got) + 1
       IN  pending' = <<IF index <= Len(items) THEN items[index] ELSE Undefined>>
    /\ UNCHANGED <<heapVars, frames, visited, converted, handed, vars>>

EntryKey == Top(frames).keys[Len(Top(frames).got) + 1]

NextEntry ==
    /\ Loops
    /\ More
    /\ Top(frames).type = "map"
    /\ EntryKey.type = "string"
    /\ Convertible(EntryKey)
    /\ frames' = [frames EXCEPT ![Len(frames)].gotKeys = Append(@, EntryKey.text)]
    /\ pending' = <<Top(frames).items[Len(Top(frames).got) + 1]>>
    /\ UNCHANGED <<heapVars, visited, converted, handed, vars>>

\* Slip: the object stays in the set.
ForgetNothing == visited' = visited

Forget == visited' = visited \ {Top(frames).object}

Leave ==
    /\ Loops
    /\ ~ More
    /\ Forget
    /\ Give(Container(Top(frames).type, Top(frames).gotKeys, Top(frames).got), Rest(frames))
    /\ UNCHANGED <<heapVars, pending, handed, vars>>

Refused ==
    \/ Receives /\ Source.type # "object" /\ ~ Convertible(Source)
    \/ Receives /\ Source.type = "object" /\ ~ Enterable(Source.object)
    \/ Loops /\ More /\ Top(frames).type = "map" /\ ~ (EntryKey.type = "string" /\ Convertible(EntryKey))

Refuse ==
    /\ Refused
    /\ phase' = "script refused"
    /\ UNCHANGED <<scriptVars, origin, encoderVars, decoderVars, counters>>

\* What is looked at next, if that runs payload code: a getter, a proxy, an iterator.
LooksAt(object) ==
    /\ \/ Receives /\ Source = Ref(object) /\ object \notin visited
       \/ Loops /\ More /\ Top(frames).type = "array" /\ Top(frames).object = object
    /\ heap[object].live

PayloadChanges ==
    /\ \E object \in DOMAIN heap : LooksAt(object)
    /\ edits < MaxEdits
    /\ \E edit \in Edits :
           /\ edit.object \in DOMAIN heap
           /\ heap[edit.object].type = "array"
           /\ heap' = [heap EXCEPT ![edit.object].items = edit.items]
    /\ edits' = edits + 1
    /\ UNCHANGED <<pending, frames, visited, converted, handed, vars>>

PayloadThrows ==
    /\ \E object \in DOMAIN heap : LooksAt(object)
    /\ phase' = "script refused"
    /\ UNCHANGED <<scriptVars, origin, encoderVars, decoderVars, counters>>

\* from_raw goes on to to_wire.
Converted ==
    /\ phase = "script"
    /\ converted # <<>>
    /\ phase' = "encode"
    /\ given' = converted
    /\ call' = converted
    /\ work' = <<>>
    /\ out' = <<>>
    /\ count' = 0
    /\ content' = 0
    /\ UNCHANGED <<scriptVars, origin, decoderVars>>

-----------------------------------------------------------------------------
Convert ==
    \/ HandOver \/ ConvertLeaf \/ Enter \/ NextElement \/ NextEntry \/ Leave \/ Refuse
    \/ PayloadChanges \/ PayloadThrows \/ Converted

ScriptInit == (Init /\ NoScript) \/ \E objects \in Scripts : InitScript(objects)

ScriptNext == Convert \/ (Next /\ UNCHANGED scriptVars)

ScriptSpec == ScriptInit /\ [][ScriptNext]_scriptAndValueVars

-----------------------------------------------------------------------------
(* Whatever payload code changes meanwhile, no object is converted within  *)
(* its own conversion, so that the recursion is never deeper than there    *)
(* are objects, and the set of visited objects is the path to where it is  *)
(* (with_visited, value.rs:569).                                           *)
PathsAreSimple ==
    /\ visited = {frames[i].object : i \in 1..Len(frames)}
    /\ \A i, j \in 1..Len(frames) : frames[i].object = frames[j].object => i = j

(* A value handed to the payload and handed back untouched is the same     *)
(* value, of the same kinds: integers are not confused with floats, nor    *)
(* bytes with arrays ("round_trips_every_bridge_value_tag",                *)
(* tests/value.rs:6).                                                      *)
HandedBack ==
    handed # <<>> =>
        /\ phase \notin {"script refused", "encoder refused"}
        /\ converted # <<>> => converted = handed

-----------------------------------------------------------------------------
(* What a payload's objects are, taken together *)

RefersTo(o, p, objects) ==
    \E i \in 1..Len(objects[o].items) : objects[o].items[i].type = "object" /\ objects[o].items[i].object = p

\* In o, or in something in o: in each set that has what o refers to, and what its members refer to.
Contains(o, p, objects) ==
    \A S \in SUBSET DOMAIN objects :
        (\A q \in S \cup {o}, r \in DOMAIN objects : RefersTo(q, r, objects) => r \in S) => p \in S

Reachable(objects) == {o \in DOMAIN objects : o = <<>> \/ Contains(<<>>, o, objects)}

\* Something in this object itself cannot be converted.
Flawed(o) ==
    \/ Len(o.items) > MaxContainer
    \/ \E i \in 1..Len(o.items) : o.items[i].type # "object" /\ ~ Convertible(o.items[i])
    \/ \E i \in 1..Len(o.keys) : o.keys[i].type # "string" \/ ~ Convertible(o.keys[i])

\* It can be converted once the objects that have a value in made are.
Ready(o, made) ==
    ~ Flawed(o) /\ \A i \in 1..Len(o.items) : o.items[i].type = "object" => o.items[i].object \in DOMAIN made

ValueOf(o, made) ==
    Container(o.type, [i \in 1..Len(o.keys) |-> o.keys[i].text],
              [i \in 1..Len(o.items) |->
                  IF o.items[i].type = "object" THEN made[o.items[i].object] ELSE LeafOf(o.items[i])])

Wrap(made, objects) ==
    [o \in {p \in DOMAIN objects : Ready(objects[p], made)} |-> ValueOf(objects[o], made)]

\* The values of all objects that have one: first of those that refer to none, then of those
\* that refer to these, and so on.
Unfolding(objects) ==
    LET Level[n \in 0..Cardinality(DOMAIN objects)] ==
            IF n = 0 THEN [o \in {} |-> o] ELSE Wrap(Level[n - 1], objects)
    IN  Level[Cardinality(DOMAIN objects)]

(* Objects no payload code changes are converted to what they unfold to,   *)
(* and refused only if one of them cannot be converted or contains itself: *)
(* an object in two places is none that contains itself (with_visited,     *)
(* value.rs:569).                                                          *)
Unfolds ==
    origin = "script" /\ handed = <<>> /\ edits = 0 =>
        /\ converted # <<>> => <<>> \in DOMAIN Unfolding(heap) /\ converted = <<Unfolding(heap)[<<>>]>>
        /\ phase = "script refused" =>
               \E o \in Reachable(heap) : Contains(o, o, heap) \/ Flawed(heap[o]) \/ heap[o].live

-----------------------------------------------------------------------------
(* What the limits say of a whole value *)

\* Where there is a value in v, down to those that are too deep.
Everywhere(v) ==
    {<<>>} \cup UNION {{Append(place, i) : i \in 1..Len(At(v, place).items)} : place \in Places(v)}

\* What is written of v: the first token of each value, and each key.
Parts(v) == UNION {{<<place, i>> : i \in {0} \cup 1..Len(At(v, place).keys)} : place \in Everywhere(v)}

TextBytes(w) == IF w.kind \in {"string", "bytes"} THEN TextSize[w.text] ELSE 0

BytesOf(v, part) ==
    LET w == At(v, part[1]) IN IF part[2] = 0 THEN TextBytes(w) ELSE TextSize[w.keys[part[2]]]

Bytes(v, parts) == UNION {{<<part, n>> : n \in 1..BytesOf(v, part)} : part \in parts}

AtMost(n, S) == IsFiniteSet(S) /\ Cardinality(S) <= n

\* On its own, a value within a value is as it should be.
Fits(w) ==
    /\ w.kind \in LeafKinds => w.text \notin Invalid
    /\ w.kind = "string" => TextSize[w.text] <= MaxString
    /\ w.kind = "bytes" => TextSize[w.text] <= MaxBytes
    /\ Len(w.items) <= MaxContainer
    /\ \A i, j \in 1..Len(w.keys) : w.keys[i] = w.keys[j] => i = j
    /\ \A i \in 1..Len(w.keys) : TextSize[w.keys[i]] <= MaxString

WithinLimits(v) ==
    /\ AtMost(MaxValues, Everywhere(v))
    /\ AtMost(MaxContent, Bytes(v, Parts(v)))
    /\ \A place \in Everywhere(v) : Len(place) <= MaxDepth /\ Fits(At(v, place))

(* The counters threaded through the recursion add up to what the limits   *)
(* mean: a value is refused exactly when, as a whole, it is over one.      *)
LimitsExact ==
    /\ phase = "encoder refused" => ~ WithinLimits(given[1])
    /\ phase \in {"decode", "done"} /\ origin = "value" => WithinLimits(given[1])
    /\ result # <<>> => WithinLimits(result[1])
=============================================================================
