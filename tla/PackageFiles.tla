---------------------------- MODULE PackageFiles ----------------------------
(***************************************************************************)
(* The files of one payload: which file a descriptor and an import name,   *)
(* and which files are read.  Two crates answer that, each with its own    *)
(* normalisation: the Host for the descriptor and for anyone who asks its  *)
(* PackagePathPolicy (descriptor.rs, path_policy.rs), the engine for the   *)
(* modules it loads (module_loader.rs).                                    *)
(*                                                                         *)
(* A text is the sequence of its parts between slashes, empty ones         *)
(* included; a path is the sequence of its names from the root of the file *)
(* system, or of the package when it is relative.  Paths are those of      *)
(* Unix.  The package does not change while its payload runs.              *)
(***************************************************************************)
EXTENDS Integers, SequencesExt

CONSTANTS
    Tree,         \* what is at each canonical path: "directory", "file" or "unusable"
    Links,        \* where each link leads, a canonical path
    Roots,        \* package roots a driving process may name
    Entrypoints,  \* entrypoints it may name
    Descriptors,  \* what a descriptor may hold
    Specifiers,   \* what modules may import
    Mjs,          \* the parts that end in ".mjs"
    Odd           \* the parts with a backslash, a colon or a NUL

ASSUME PackageAssumption ==
    \A text \in Entrypoints \cup Specifiers \cup {d.module : d \in Descriptors} :
        text \in Seq(STRING) /\ text # <<>>

VARIABLES
    root,        \* the package root
    entrypoint,
    descriptor,  \* what the descriptor holds
    stage,       \* "descriptor", "load", "running" or "failed"
    module,      \* PayloadDescriptor.module
    modules,     \* the names of the modules loaded
    reads,       \* the files looked into: their size, then their bytes
    error        \* the last refusal, or "none"

package == <<root, entrypoint, descriptor>>
vars == <<package, stage, module, modules, reads, error>>

\* A path found or a code.
Found(path) == [code |-> "none", path |-> path]
Refused(code) == [code |-> code, path |-> <<>>]
Ok(outcome) == outcome.code = "none"

-----------------------------------------------------------------------------
(* The file system *)

Nowhere == <<"nowhere">>

\* fs::canonicalize, for a path without "." and "..".
Canonical(path) ==
    LET Follow(at, name) ==
            LET there == Append(at, name)
            IN  IF there \in DOMAIN Links THEN Links[there]
                ELSE IF there \in DOMAIN Tree THEN there ELSE Nowhere
    IN  FoldLeft(Follow, <<>>, path)

Exists(path) == Canonical(path) \in DOMAIN Tree

Inside(path) == IsPrefix(Canonical(root), Canonical(path))

IsDirectory(path) == Exists(path) /\ Tree[Canonical(path)] = "directory"

-----------------------------------------------------------------------------
(* Normalisation *)

\* The parts that are not names.
NoName == ""
CurDir == "."
ParentDir == ".."

\* Slip: a ".." with nothing before it is dropped.
StepFromRoot(done, part, forbidden, code) ==
    IF ~ Ok(done) THEN done
    ELSE IF part \in forbidden THEN Refused(code)
    ELSE CASE part \in {NoName, CurDir} -> done
           [] part = ParentDir -> IF done.path = <<>> THEN done ELSE Found(Front(done.path))
           [] OTHER -> Found(Append(done.path, part))

\* One turn of the loop over the parts of a text, in both crates.
Step(done, part, forbidden, code) ==
    IF ~ Ok(done) THEN done
    ELSE IF part \in forbidden THEN Refused(code)
    ELSE CASE part \in {NoName, CurDir} -> done
           [] part = ParentDir -> IF done.path = <<>> THEN Refused("path-escape") ELSE Found(Front(done.path))
           [] OTHER -> Found(Append(done.path, part))

Walk(start, parts, forbidden, code) ==
    LET done[n \in 0..Len(parts)] ==
            IF n = 0 THEN Found(start) ELSE Step(done[n - 1], parts[n], forbidden, code)
    IN  done[Len(parts)]

\* Of Path::components, those that are not names are ".." and a "." at the beginning.
NormalizeRelative(text, forbidden) ==
    LET end == Walk(<<>>, text, {}, "path-escape")
    IN  IF text[1] \in forbidden \/ (Ok(end) /\ end.path = <<>>) THEN Refused("path-escape") ELSE end

\* Slip: any character may be in a name.
NormalizeAnyPath(text) ==
    IF text[1] = NoName THEN Refused("path-escape") ELSE NormalizeRelative(text, {CurDir})

\* An empty text and one that begins with a slash have an empty first part.
NormalizeDescriptorPath(text) ==
    IF text[1] = NoName \/ \E i \in 1..Len(text) : text[i] \in Odd
    THEN Refused("path-escape")
    ELSE NormalizeRelative(text, {CurDir})

Relative(specifier) == Len(specifier) > 1 /\ specifier[1] \in {CurDir, ParentDir}

\* Path::extension is "mjs": there is a name before it.
HasExtension(path) == Last(path) \in Mjs \ {".mjs"}

-----------------------------------------------------------------------------
(* PackagePathPolicy *)

ResolveRegularFile(relative, missing) ==
    LET path == root \o relative
    IN  IF ~ Exists(path) THEN Refused(missing)
        ELSE IF ~ Inside(path) THEN Refused("path-escape")
        ELSE IF IsDirectory(path) THEN Refused(missing)
        ELSE Found(path)

ResolveModule(specifier, referrer) ==
    LET relative == NormalizeRelative(Front(referrer) \o specifier, {})
    IN  IF ~ Relative(specifier) THEN Refused("invalid-module")
        ELSE IF ~ Ok(relative) THEN relative
        ELSE IF ~ HasExtension(relative.path) THEN Refused("invalid-module")
        ELSE ResolveRegularFile(relative.path, "invalid-module")

-----------------------------------------------------------------------------
(* PayloadDescriptor::read *)

DescriptorFile ==
    LET relative == NormalizeDescriptorPath(entrypoint)
    IN  IF ~ IsDirectory(root) THEN Refused("invalid-descriptor")
        ELSE IF ~ Ok(relative) THEN relative
        ELSE IF Last(relative.path) # "aura-javascript.json" THEN Refused("invalid-descriptor")
        ELSE ResolveRegularFile(relative.path, "invalid-descriptor")

\* What the descriptor names, after it was read.
RootModule ==
    LET relative == NormalizeDescriptorPath(descriptor.module)
    IN  IF ~ descriptor.readable \/ descriptor.version # 1 THEN Refused("invalid-descriptor")
        ELSE IF ~ Ok(relative) THEN relative
        ELSE IF ~ HasExtension(relative.path) THEN Refused("invalid-descriptor")
        ELSE LET file == ResolveRegularFile(relative.path, "invalid-descriptor")
             IN  IF Ok(file) THEN relative ELSE file

-----------------------------------------------------------------------------
(* ModuleLoaderState *)

\* Slip: a module may have any extension.
ValidateAnyName(path) ==
    IF path = <<>> \/ \E i \in 1..Len(path) : path[i] \in Odd THEN Refused("invalid-module") ELSE Found(path)

\* Only names are left in a path: no part of it is empty, "." or "..".
ValidateNormalizedName(path) ==
    IF path = <<>> \/ Last(path) \notin Mjs \/ \E i \in 1..Len(path) : path[i] \in Odd
    THEN Refused("invalid-module")
    ELSE Found(path)

RootName == ValidateNormalizedName(module)

Builtin == <<"aura:runtime">>

NormalizeName(base, specifier) ==
    LET end == Walk(Front(base), specifier, {NoName}, "invalid-module")
    IN  IF specifier = Builtin THEN Found(Builtin)
        ELSE IF ~ Relative(specifier) \/ \E i \in 1..Len(specifier) : specifier[i] \in Odd
        THEN Refused("invalid-module")
        ELSE IF ~ Ok(end) THEN end
        ELSE ValidateNormalizedName(end.path)

\* Slip: where the file is does not matter.
LocateAnywhere(name) ==
    IF IsDirectory(root \o name) \/ ~ Exists(root \o name) THEN Refused("invalid-module")
    ELSE Found(Canonical(root \o name))

\* ModuleLoaderState::read up to fs::read.
Locate(name) ==
    LET path == root \o name
    IN  IF ~ Exists(path) THEN Refused("invalid-module")
        ELSE IF ~ Inside(path) THEN Refused("path-escape")
        ELSE IF IsDirectory(path) THEN Refused("invalid-module")
        ELSE Found(Canonical(path))

\* It is no larger than a module may be, is text without NUL and compiles.
Usable(file) == Tree[file] = "file"

-----------------------------------------------------------------------------
Init ==
    /\ root \in Roots
    /\ entrypoint \in Entrypoints
    /\ descriptor \in Descriptors
    /\ stage = "descriptor"
    /\ module = <<>>
    /\ modules = {}
    /\ reads = {}
    /\ error = "none"

Read(file) == reads' = reads \cup {file}

Fail(code) ==
    /\ stage' = "failed"
    /\ error' = code
    /\ UNCHANGED <<package, module, modules>>

DescriptorMissing ==
    /\ stage = "descriptor"
    /\ ~ Ok(DescriptorFile)
    /\ Fail(DescriptorFile.code)
    /\ UNCHANGED reads

ReadDescriptor ==
    /\ stage = "descriptor"
    /\ Ok(DescriptorFile)
    /\ Read(Canonical(DescriptorFile.path))
    /\ IF Ok(RootModule)
       THEN /\ stage' = "load"
            /\ module' = RootModule.path
            /\ UNCHANGED <<package, modules, error>>
       ELSE Fail(RootModule.code)

\* Module called name is loaded, or code is recorded.
Load(name) ==
    LET file == Locate(name)
    IN  /\ IF Ok(file) THEN Read(file.path) ELSE UNCHANGED reads
        /\ IF Ok(file) /\ Usable(file.path)
           THEN modules' = modules \cup {name} /\ UNCHANGED error
           ELSE /\ error' = IF Ok(file) THEN "invalid-module" ELSE file.code
                /\ UNCHANGED modules

\* QuickJsPlugin::load, as far as it concerns the root module.
LoadRoot ==
    /\ stage = "load"
    /\ IF Ok(RootName)
       THEN /\ Load(RootName.path)
            /\ stage' = IF modules' = modules THEN "failed" ELSE "running"
            /\ UNCHANGED <<package, module>>
       ELSE Fail(RootName.code) /\ UNCHANGED reads

\* A module imports another, when it is loaded or later.  QuickJS asks for the name and,
\* unless it has a module of that name, for the module.
Import(base, specifier) ==
    /\ stage = "running"
    /\ base \in modules \ {Builtin}
    /\ LET name == NormalizeName(base, specifier)
       IN  IF ~ Ok(name) THEN error' = name.code /\ UNCHANGED <<modules, reads>>
           ELSE /\ name.path \notin modules
                /\ IF name.path = Builtin
                   THEN modules' = modules \cup {Builtin} /\ UNCHANGED <<reads, error>>
                   ELSE Load(name.path)
    /\ UNCHANGED <<package, stage, module>>

Next ==
    \/ DescriptorMissing
    \/ ReadDescriptor
    \/ LoadRoot
    \/ \E base \in modules, specifier \in Specifiers : Import(base, specifier)

Spec == Init /\ [][Next]_vars

-----------------------------------------------------------------------------
(* No file outside the package is read, wherever links lead, whether it is *)
(* the descriptor, the root module or an import ("containing canonical     *)
(* paths beneath one package root", path_policy.rs:5).                     *)
Contained == \A file \in reads : IsPrefix(Canonical(root), file)

(* A descriptor that was accepted names a module the loader accepts: the   *)
(* same file, inside the package, though the loader normalises and checks  *)
(* the name again ("its root ES module", descriptor.rs:16).                *)
RootLoads ==
    stage = "load" =>
        /\ Ok(RootName)
        /\ Ok(Locate(RootName.path))
        /\ Canonical(ResolveRegularFile(module, "none").path) = Locate(RootName.path).path

(* What the loader loads for an import is the file the Host's policy names *)
(* for it ("resolves_dynamic_imports_with_the_same_package_policy",        *)
(* tests/modules.rs:72), a module called ".mjs" excepted: Path::extension  *)
(* sees no extension there and the policy refuses it.                      *)
SamePolicy ==
    \A base \in modules \ {Builtin}, specifier \in Specifiers :
        LET name   == NormalizeName(base, specifier)
            policy == ResolveModule(specifier, base)
        IN  Ok(name) /\ name.path # Builtin /\ Last(name.path) # ".mjs" =>
                IF Ok(Locate(name.path))
                THEN Ok(policy) /\ Canonical(policy.path) = Locate(name.path).path
                ELSE policy.code = Locate(name.path).code

\* How many names deep the first k parts lead.
Depth(parts, k) ==
    Cardinality({i \in 1..k : parts[i] \notin {CurDir, ParentDir}}) - Cardinality({i \in 1..k : parts[i] = ParentDir})

(* An import leads where its parts say, counted from the directory of the  *)
(* module that imports: the name at each depth is the last one that        *)
(* reached it, and an import whose parts never climb above the package is  *)
(* not refused for that (normalize_name, module_loader.rs:135).            *)
NamesResolve ==
    \A base \in modules \ {Builtin}, specifier \in Specifiers :
        LET parts == Front(base) \o specifier
            end   == Depth(parts, Len(parts))
            name  == NormalizeName(base, specifier)
            Climbs == \E k \in 1..Len(parts) : Depth(parts, k) < 0
        IN  /\ name.code = "path-escape" => Climbs
            /\ Ok(name) /\ name.path # Builtin =>
                   /\ ~ Climbs
                   /\ Len(name.path) = end
                   /\ \A d \in 1..end : \E i \in 1..Len(parts) :
                          /\ parts[i] = name.path[d] /\ parts[i] \notin {CurDir, ParentDir}
                          /\ Depth(parts, i) = d
                          /\ \A j \in i + 1..Len(parts) : Depth(parts, j) >= d
=============================================================================
