--------------------------- MODULE MCPackageFiles ---------------------------
(* A package with links that stay in it, lead out of it and lead nowhere,  *)
(* and every form of name the normalisers tell apart.                      *)
EXTENDS PackageFiles

Json == "aura-javascript.json"

MCTree ==
    LET Inner == [p \in {<<>>, <<"lib">>, <<"folder.mjs">>} |-> "directory"]
        Files == [p \in {<<Json>>, <<"main.mjs">>, <<".mjs">>, <<"x:y.mjs">>, <<"main">>, <<"lib", "a.mjs">>,
                         <<"lib", "main.mjs">>} |-> "file"]
        Big   == [p \in {<<"big.mjs">>} |-> "unusable"]
        Beneath(tree, directory) == [q \in {directory \o p : p \in DOMAIN tree} |->
                                        tree[SubSeq(q, Len(directory) + 1, Len(q))]]
    IN  Beneath(Inner, <<"pkg">>) @@ Beneath(Files, <<"pkg">>) @@ Beneath(Big, <<"pkg">>)
            @@ [p \in {<<"other">>} |-> "directory"]
            @@ [p \in {<<"other", "b.mjs">>, <<"other", Json>>} |-> "file"]

MCLinks ==
    LET Link(from, to) == [p \in {from} |-> to]
    IN  Link(<<"alias">>, <<"pkg">>) @@ Link(<<"pkg", "near">>, <<"pkg", "lib">>)
            @@ Link(<<"pkg", "away">>, <<"other">>) @@ Link(<<"pkg", "out.mjs">>, <<"other", "b.mjs">>)
            @@ Link(<<"pkg", "lost.mjs">>, <<"gone">>)

\* The link to the package stands for the package too.
MCRoots == {<<"alias">>, <<"none">>, <<"pkg", "main.mjs">>}

MCEntrypoints ==
    {<<Json>>, <<"lib", "..", Json>>, <<".", Json>>, <<"..", Json>>, <<"away", Json>>, <<"lib", Json>>,
     <<"main.mjs">>, <<"">>, <<"", "pkg", Json>>}

MCModules ==
    {<<"main.mjs">>, <<"lib", "a.mjs">>, <<"near", "a.mjs">>, <<"lib", "..", "main.mjs">>,
     <<"lib", "", ".", "a.mjs", "">>, <<".mjs">>, <<"x:y.mjs">>, <<"out.mjs">>, <<"away", "b.mjs">>,
     <<"big.mjs">>, <<"folder.mjs">>, <<".", "main.mjs">>, <<"..", "pkg", "main.mjs">>, <<"lib", "..">>,
     <<"lost.mjs">>, <<"main">>}

MCDescriptors ==
    [readable : {TRUE}, version : {1}, module : MCModules]
        \cup {[readable |-> TRUE, version |-> 2, module |-> <<"main.mjs">>],
              [readable |-> FALSE, version |-> 1, module |-> <<"main.mjs">>]}

MCSpecifiers ==
    {<<".", "main.mjs">>, <<"..", "main.mjs">>, <<".", "lib", "a.mjs">>, <<".", "a.mjs">>, <<".", "near", "a.mjs">>,
     <<".", "lib", "..", "..", "main.mjs">>, <<"..", "lib", ".", "a.mjs">>, <<".", ".mjs">>, <<".", "x:y.mjs">>,
     <<".", "out.mjs">>, <<".", "away", "b.mjs">>, <<".", "lost.mjs">>, <<".", "big.mjs">>, <<".", "folder.mjs">>,
     <<".", "lib", "", "a.mjs">>, <<".", "main.mjs", "">>, <<".", "main">>, <<".", "">>, <<"..">>, <<"">>,
     <<"main.mjs">>, Builtin}

MCMjs == {"main.mjs", "a.mjs", "b.mjs", ".mjs", "x:y.mjs", "out.mjs", "lost.mjs", "big.mjs", "folder.mjs"}
MCOdd == {"x:y.mjs", "aura:runtime"}
=============================================================================
