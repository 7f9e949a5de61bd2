----------------------------- MODULE MCWasteReport -----------------------------
(***************************************************************************)
(* One version with any of the files below and any combination of patterns *)
(* and sources; and four versions of two crates with a few packages.       *)
(***************************************************************************)
EXTENDS WasteReport

CONSTANTS a, b

Sources == {"src/lib.rs", "lib.rs", "src/tests/t.rs", "tests/a.rs", "build.rs"}
Data == {"tests/data.bin", "native/x.png", "native/Cargo.lock", "README.md", "docs/README.md"}
Manifests == {"Cargo.toml", "Cargo.lock", "Cargo.toml.orig"}
AllFiles == Sources \cup Data \cup Manifests \cup {"src/main.rs"}

DirectoryOf ==
    [f \in AllFiles |->
        CASE f \in {"src/lib.rs", "src/main.rs"} -> "src"
          [] f = "src/tests/t.rs" -> "src/tests"
          [] f \in {"tests/a.rs", "tests/data.bin"} -> "tests"
          [] f \in {"native/x.png", "native/Cargo.lock"} -> "native"
          [] f = "docs/README.md" -> "docs"
          [] OTHER -> "none"]

FilesBelow ==
    [d \in {"src", "src/tests", "tests", "native", "docs"} |->
        IF d = "src" THEN {"src/lib.rs", "src/main.rs", "src/tests/t.rs"}
        ELSE {f \in AllFiles : DirectoryOf[f] = d}]

InTests == {"src/tests/t.rs", "tests/a.rs", "tests/data.bin"}
Native == {"native/x.png", "native/Cargo.lock"}

Matching ==
    ("src/**/*" :> {"src/lib.rs", "src/main.rs", "src/tests/t.rs", "src/tests"}) @@
    ("Cargo.*" :> Manifests) @@
    ("README.*" :> {"README.md"}) @@
    ("**/*.png" :> {"native/x.png"}) @@
    ("**/tests/**/*" :> InTests) @@
    ("**/docs/**/*" :> {"docs/README.md"}) @@
    ("native/*" :> Native) @@
    ("**/*.rs" :> Sources \cup {"src/main.rs"}) @@
    ("tests/" :> {"tests"}) @@
    ("docs*" :> {"docs", "docs/README.md"})

AllGlobs == DOMAIN Matching

\* what has the same name in another directory
ElsewhereOf ==
    [p \in AllFiles \cup AllGlobs |->
        CASE p \in {"README.md", "README.*"}  -> {"docs/README.md"}
          [] p \in {"Cargo.lock", "Cargo.*"} -> {"native/Cargo.lock"}
          [] p = "lib.rs"                    -> {"src/lib.rs"}
          [] p = "tests/"                    -> {"src/tests/t.rs"}
          [] OTHER                           -> {}]

Includes == <<"src/**/*", "Cargo.*", "README.*">>
Excludes == <<"**/*.png", "**/docs/**/*", "**/tests/**/*">>

Mentions ==
    [f \in AllFiles |-> CASE f = "src/lib.rs" -> {"tests/data.bin"}
                          [] f = "build.rs"   -> {"native/*"}
                          [] OTHER            -> {}]

RustFiles == [f \in AllFiles |-> "**/*.rs"]
Sizes == [f \in AllFiles |-> IF f \in Sources THEN 1 ELSE IF f \in Data THEN 2 ELSE 3]
Extensions == [f \in AllFiles |-> CASE f \in Sources -> "rs"
                                    [] f \in {"README.md", "docs/README.md"} -> "md"
                                    [] OTHER -> f]

Package(files, include, exclude, lib) ==
    [files |-> files \cup Manifests, include |-> include, exclude |-> exclude,
     lib |-> lib, bins |-> None, build |-> None]

IncludeLists ==
    {None, {"src/**/*", "Cargo.lock"}, {"**/*.rs", "README.md"},
     {"**/*.rs", "native/*", "Cargo.toml"}, {"src/**/*"}}
ExcludeLists ==
    {None, {}, {"tests/"}, {"docs*"}, {"tests/", "native/*"}, {"native/x.png"}}

\* one version with any package
Single ==
    {<<a, 1>> :> Package(files, include, exclude, lib) :
        files \in SUBSET (Sources \cup Data), include \in IncludeLists,
        exclude \in ExcludeLists, lib \in {None, "lib.rs"}}

\* four versions, each without configuration, with excludes, or with includes
\* that could be better
Several ==
    [{<<a, 1>>, <<a, 2>>, <<b, 1>>, <<b, 2>>} ->
        {Package(Sources \cup Data, None, None, None),
         Package(Sources \cup Data, None, {"native/x.png"}, None),
         Package(InTests, {"**/*.rs", "native/*", "Cargo.toml"}, None, None)}]

Packages == Single \cup Several
=============================================================================
