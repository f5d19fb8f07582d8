------------------------- MODULE MCProcessMessages --------------------------
(***************************************************************************)
(* Values, messages, bytes and JavaScript objects for TLC, with at least   *)
(* one on each side of every limit, and the three uses of values together: *)
(* as messages, as bytes from outside, and in a payload's hands.           *)
(***************************************************************************)
EXTENDS ProcessMessages, ScriptValues, TLC

\* Field names and kinds count one each; "full" fills a value on its own.
MCTextSize ==
    [text \in {"word", "space", "protocolVersion", "requestId", "kind", "payload"}
              \cup DOMAIN Fields
              \cup UNION {{Fields[k][i].name : i \in 1..Len(Fields[k])} : k \in DOMAIN Fields} |-> 1]
    @@ [text \in {"", "pi", "nan", "yes", "handle", "no handle", "stale-handle", "no code"} |-> 0]
    @@ "blob" :> 2 @@ "diagnostic" :> 2 @@ "long" :> 3 @@ "over" :> 4 @@ "full" :> 14 @@ "huge" :> 15

-----------------------------------------------------------------------------
Null == Leaf("null", "", 0)
Text(t) == Leaf("string", t, 0)
Blob(t) == Leaf("bytes", t, 0)
Id(n) == Leaf("integer", "", n)
Array(items) == Container("array", <<>>, items)
Map(keys, items) == Container("map", keys, items)

Small == {Null, Text("word"), Blob("blob"), Leaf("float", "nan", 0)}

Leaves ==
    Small \cup {Leaf("bool", "yes", 1), Id(-1), Leaf("float", "pi", 0), Text(""), Text("long"),
                Text("over"), Blob("full"), Blob("huge"), Leaf("handle", "handle", 1),
                Leaf("error", "stale-handle", 0)}

Flat ==
    {Array(items) : items \in UNION {[1..n -> Small] : n \in 0..2}}
    \cup {Array([i \in 1..n |-> Null]) : n \in 3..5}
    \cup UNION {{Map(keys, items) : keys \in [1..n -> {"word", "long"}], items \in [1..n -> Small]} :
                n \in 0..2}
    \cup {Map(<<key>>, <<Null>>) : key \in {"", "over"}}

Deep == {Array(<<Array(<<>>)>>), Array(<<Array(<<Null>>)>>)}

Nested ==
    {Array(<<v, w>>) : v \in Flat, w \in {Null, Blob("full")} \cup Deep}
    \cup {Map(<<"word", "long">>, <<v, Text("long")>>) : v \in Flat}

\* Nine to eleven values.
Wide == {Array(<<Array(<<Null, Null, Null>>), Array(<<Null, Null>>), v>>) :
            v \in {Null, Array(<<Null>>), Array(<<Null, Null>>)}}

MCLocalValues == Leaves \cup Flat \cup Deep \cup Nested \cup Wide

-----------------------------------------------------------------------------
MCMaxId == 4

Texts == {"word", "space", ""}
Candidate(ids, kind, fields) == [id : ids, kind : {kind}, fields : fields]

MCCandidates ==
    UNION {Candidate(0..5, kind, {<<>>}) : kind \in {"hello", "enable", "disable", "shutdown", "ok"}}
    \cup Candidate(1..2, "load", {<<Text(p), Text(e), Id(i), Id(s)>> : p \in Texts, e \in Texts, i \in {1, 5}, s \in {0, 4}})
    \cup Candidate(1..2, "invoke", {<<Text(o), Blob(b), Id(i)>> : o \in Texts, b \in {"blob", "full"}, i \in {0, 4, 5}})
    \cup UNION {Candidate(1..2, kind, {<<Blob("blob")>>, <<Blob("full")>>}) : kind \in {"result", "callback_result"}}
    \cup Candidate(1..2, "error", {<<Text(c), Text(d)>> : c \in {"word", "space"}, d \in {"", "diagnostic", "long"}})
    \cup Candidate(1..2, "callback_error", {<<Text(c)>> : c \in {"word", "space"}})
    \cup Candidate(1..2, "bridge_invoke", {<<Text(o), Blob("blob")>> : o \in Texts})
    \cup UNION {Candidate(1..2, kind, {<<Id(i), Id(g)>> : i \in {0, 4}, g \in {1, 5}}) :
                kind \in {"retain_handle", "release_handle"}}

-----------------------------------------------------------------------------
MCTokens ==
    {Token("null", "", 0), Token("integer", "", -1), Token("integer", "", 2), Token("string", "word", 0),
     Token("string", "over", 0), Token("string", "ok", 0), Token("bytes", "blob", 0), Token("bytes", "huge", 0),
     Token("float", "nan", 0), Token("handle", "no handle", 0), Token("error", "no code", 0),
     Token("array", "", 0), Token("array", "", 1), Token("array", "", 5), Token("map", "", 0), Token("map", "", 2),
     Key("word"), Key("requestId"), Other}

Entry(name, v) == <<Key(name), Token(v.kind, v.text, v.number)>>

PayloadWire(m) ==
    CASE Len(m.fields) = 0 -> <<>>
      [] Len(m.fields) = 1 -> Entry(Names(m.kind)[1], m.fields[1])
      [] Len(m.fields) = 2 -> Entry(Names(m.kind)[2], m.fields[2]) \o Entry(Names(m.kind)[1], m.fields[1])
      [] OTHER -> <<>>

\* Two of the fields of the envelope, and those of the payload, in the other order.
MessageWire(m) ==
    <<Token("map", "", 4), Key("requestId"), Token("integer", "", m.id),
      Key("protocolVersion"), Token("integer", "", 1),
      Key("kind"), Token("string", m.kind, 0), Key("payload"), Token("map", "", Len(m.fields))>>
    \o PayloadWire(m)

Edited(tokens) ==
    {tokens} \cup {[tokens EXCEPT ![i] = t] : i \in 1..Len(tokens), t \in MCTokens}
    \cup {SubSeq(tokens, 1, n) : n \in 1..Len(tokens) - 1}
    \cup {Append(tokens, t) : t \in MCTokens}

Ten == <<Token("array", "", 3), Token("array", "", 4), Token("null", "", 0), Token("null", "", 0), Token("null", "", 0),
         Token("null", "", 0), Token("array", "", 3), Token("null", "", 0), Token("null", "", 0)>>

Full == <<Token("map", "", 2), Key("word"), Token("bytes", "full", 0)>>

MCOpenings ==
    {<<>>}
    \cup UNION {Edited(MessageWire(m)) :
                m \in {[id |-> 1, kind |-> "ok", fields |-> <<>>],
                       [id |-> 2, kind |-> "retain_handle", fields |-> <<Id(1), Id(2)>>],
                       [id |-> 3, kind |-> "error", fields |-> <<Text("word"), Text("diagnostic")>>]}}
    \cup {Ten \o <<t, u>> : t \in MCTokens, u \in MCTokens}
    \cup {<<Token("map", "", 2), Key("word"), t, Key("long"), u>> : t \in MCTokens, u \in MCTokens}
    \cup {<<Token("array", "", 1), Token("array", "", 1), t, u>> : t \in MCTokens, u \in MCTokens}
    \cup {<<Token("bytes", "full", 0)>>, Full}

-----------------------------------------------------------------------------
Heap(root, first, second) == (<<>> :> root) @@ (<<1>> :> first) @@ (<<2>> :> second)
ArrayObject(items, live) == [type |-> "array", keys |-> <<>>, items |-> items, live |-> live]
MapObject(keys, items, live) == [type |-> "map", keys |-> keys, items |-> items, live |-> live]

WordKey == Immediate("string", "word", 0)
Number == Immediate("number", "pi", 0)
Ends == {Number, Ref(<<>>), Ref(<<1>>), Ref(<<2>>)}
Lists(n, of) == UNION {[1..k -> of] : k \in 0..n}

\* Objects in two places, in themselves and in each other; some run payload code.
Linked ==
    {Heap(root, first, ArrayObject(second, FALSE)) :
        root \in {ArrayObject(items, live) : items \in Lists(2, Ends), live \in BOOLEAN}
                 \cup {MapObject(<<WordKey>>, <<end>>, live) : end \in Ends, live \in BOOLEAN},
        first \in {ArrayObject(items, live) : items \in Lists(2, {Number, Ref(<<>>), Ref(<<2>>)}), live \in BOOLEAN},
        second \in {<<>>, <<Ref(<<1>>)>>}}

Immediates ==
    {Number, Undefined, WordKey}
    \cup {Immediate("bigint", "", n) : n \in -6..5}
    \cup {Immediate("AuraHandle", "handle", n) : n \in {-1, 0, 1, 9, 11}}
    \cup {Immediate(type, text, 0) : type \in {"string", "Uint8Array"}, text \in {"long", "over", "huge"}}
    \cup {Immediate("string", "lone", 0), Immediate("number", "nan", 0), Immediate("AuraHandle", "no handle", 1),
           Immediate("AuraError", "no code", 0), Immediate("AuraError", "stale-handle", 0), Immediate("other", "", 0)}

Empty == ArrayObject(<<>>, FALSE)

Plain ==
    {Heap(ArrayObject(<<x, y>>, FALSE), Empty, Empty) : x \in Immediates, y \in {Number, Ref(<<1>>)}}
    \cup {Heap(MapObject(<<key>>, <<x>>, FALSE), Empty, Empty) : key \in Immediates, x \in {Number, Ref(<<1>>)}}
    \cup {Heap(ArrayObject([i \in 1..n |-> Number], FALSE), Empty, Empty) : n \in 3..5}

MCScripts == Linked \cup Plain

\* Arrays become shorter, longer, or hold themselves.
MCEdits ==
    {[object |-> o, items |-> items] :
        o \in {<<>>, <<1>>}, items \in {<<>>, <<Ref(<<1>>), Ref(<<2>>), Ref(<<>>)>>}}

ValuesInit ==
    \/ MInit /\ NoScript
    \/ message = <<>> /\ ScriptInit

ValuesNext == ScriptNext /\ UNCHANGED message

ValuesSpec == ValuesInit /\ [][ValuesNext]_<<messageVars, scriptVars>>

=============================================================================
