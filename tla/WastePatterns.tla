----------------------------- MODULE WastePatterns -----------------------------
(***************************************************************************)
(* What a crate archive has that its users do not need, and the patterns   *)
(* that would keep it out (criner-waste-report, result.rs and lib.rs).     *)
(*                                                                         *)
(* A path is a pattern for itself; what any other pattern matches is given *)
(* (globset).  Lists of files and of patterns are sets, except where their *)
(* order decides: the standard patterns, and those that a glob set is      *)
(* simplified by.                                                          *)
(***************************************************************************)
EXTENDS SequencesExt, FiniteSetsExt

CONSTANTS
    Files,              \* paths in an archive, relative to the crate
    Directory,          \* the directory of each file, or NoDirectory
    Below,              \* the files in each directory and in those below
    NoDirectory,
    Globs,              \* patterns that are not paths
    Matches,            \* the files and directories each of them matches
    Open,               \* globs that begin without a * and end with one
    StandardIncludes,   \* STANDARD_INCLUDE_GLOBS
    StandardExcludes,   \* STANDARD_EXCLUDE_MATCHERS
    Implicit,           \* Cargo.toml, Cargo.lock and Cargo.toml.orig
    Added,              \* what cargo adds: .cargo_vcs_info.json, Cargo.toml.orig
    DefaultLib, DefaultBin, DefaultBuild,
    RustBelow,          \* for each file the pattern **/*.rs in its directory
    IsStandard,         \* files below whose directory all is included anyway
    Mentioned,          \* the patterns that each source file mentions
    None

Patterns == Files \cup Globs

ASSUME WastePatternsAssumption ==
    /\ Directory \in [Files -> DOMAIN Below \cup {NoDirectory}]
    /\ Below \in [DOMAIN Below -> SUBSET Files]
    /\ Matches \in [Globs -> SUBSET (Files \cup DOMAIN Below)]
    /\ Open \subseteq Globs /\ Globs \cap Files = {}
    /\ StandardIncludes \in Seq(Patterns) /\ StandardExcludes \in Seq(Globs)
    /\ StandardIncludes # <<>>
    /\ Implicit \cup Added \cup IsStandard \cup {DefaultLib, DefaultBin, DefaultBuild}
          \subseteq Files
    /\ RustBelow \in [Files -> Patterns]
    /\ Mentioned \in [Files -> SUBSET Patterns]
    /\ None \notin Files
    /\ IsFiniteSet(Patterns)
    /\ \A i \in DOMAIN StandardExcludes : Matches[StandardExcludes[i]] \cap Implicit = {}

-----------------------------------------------------------------------------
\* Patterns

Match(p) == IF p \in Files THEN {p} ELSE Matches[p]
MatchAny(ps) == UNION {Match(p) : p \in ps}

Matched(files, ps) == files \cap MatchAny(ps)

\* what the first i patterns of a list leave of the files
Rest(patterns, files, i) == files \ MatchAny({patterns[j] : j \in 1..i})

Taken(patterns, files, i) == Rest(patterns, files, i - 1) \cap Match(patterns[i])

\* each pattern takes the files it is the first to match; one that takes a
\* single file is replaced by its path
SimplifyIncludes(patterns, files) ==
    LET Simplified(i) == IF Cardinality(Taken(patterns, files, i)) > 1
                         THEN {patterns[i]} ELSE Taken(patterns, files, i)
    IN  (UNION {Simplified(i) : i \in DOMAIN patterns}) \ Implicit

\* The i-th pattern of `a` takes any file and leaves some, of which a pattern of
\* `b` matches one, if there is any pattern in `b`.
Chooses(a, b, files, i) ==
    LET rest == Rest(a, files, i)
    IN  /\ Taken(a, files, i) # {} /\ rest # {}
        /\ b = {} \/ Matched(rest, b) # {}

\* A mutant of InAButNotInB: the first such pattern is all there is.
InAButNotInBFirst(a, b, files) ==
    LET out == {a[i] : i \in {j \in DOMAIN a :
                    /\ Chooses(a, b, files, j)
                    /\ \A k \in 1..(j - 1) : ~Chooses(a, b, files, k)}}
    IN  [patterns |-> out, files |-> Matched(files, out)]

\* the patterns of `a` so chosen, and the files that they match
InAButNotInB(a, b, files) ==
    LET out == {a[i] : i \in {j \in DOMAIN a : Chooses(a, b, files, j)}}
    IN  [patterns |-> out, files |-> Matched(files, out)]

\* what a list of includes can be reduced by, avoiding other patterns
PotentialNegatedIncludes(files, avoided) ==
    InAButNotInB(StandardExcludes, avoided, files)

DirectoriesOf(files) == {Directory[f] : f \in files} \ {NoDirectory}

\* the files matched by an exclude, and those in a directory that is
Excluded(files, exclude) ==
    LET dirs == Matched(DirectoriesOf(files), exclude)
    IN  Matched(files, exclude) \cup (files \cap UNION {Below[d] : d \in dirs})

\* A mutant of IncorporateExcludes: what matches any file to keep stays.
IncorporateExcludesKept(out, in, include) ==
    LET removed == {p \in include : out \cap Match(p) # {} /\ in \cap Match(p) = {}}
        all     == include \ removed
    IN  [all |-> all \ Implicit, added |-> {},
         removed |-> removed \cup (all \cap Implicit)]

\* includes that match what is excluded, replaced by the paths they should match
IncorporateExcludes(out, in, include) ==
    LET removed == {p \in include : out \cap Match(p) # {}}
        added   == Matched(in, removed)
        all     == (include \ removed) \cup added
    IN  [all |-> all \ Implicit, added |-> added,
         removed |-> removed \cup (all \cap Implicit)]

-----------------------------------------------------------------------------
\* Cargo.toml.  A package is its files and what its Cargo.toml says of them.

IsPackage(package) ==
    /\ package.files \subseteq Files
    /\ package.include # None => package.include \subseteq Patterns
    /\ package.exclude # None => package.exclude \subseteq Patterns
    /\ package.bins # None => package.bins \subseteq Files
    /\ {package.lib, package.build} \subseteq Files \cup {None}

\* how a package is found: what cargo adds itself does not count
Entries(package) == package.files \ Added

Build(package) == IF package.build # None THEN package.build ELSE DefaultBuild
Lib(package) == IF package.lib # None THEN package.lib ELSE DefaultLib
Bins(package) == IF package.bins # None THEN package.bins ELSE {DefaultBin}

HasBuildScript(package) == package.build # None \/ DefaultBuild \in package.files

\* a file's include_str! and include_bytes!; what a build script has in quotes
IncludedPathsOf(package, f) == IF f \in package.files THEN Mentioned[f] ELSE {}
PathsInBuildScript(package) == IncludedPathsOf(package, Build(package))

\* sources in unusual places bring those next to and below them
UnlessDefault(f) == IF f \in IsStandard THEN {} ELSE {RustBelow[f]}

CompileTimeIncludes(package) ==
    LET sources == {Lib(package)} \cup Bins(package)
    IN  (UNION {IncludedPathsOf(package, f) \cup UnlessDefault(f) : f \in sources})
        \cup PathsInBuildScript(package)

-----------------------------------------------------------------------------
\* The suggestions.  A fix says what to include or exclude; `removes` is what
\* Cargo.toml is rid of, `gains` what could be saved in addition.

NoFix == [kind |-> "None"]
Result(fix, wasted) == [fix |-> fix, wasted |-> wasted, gains |-> None]

\* include and exclude
ComputeIncludes(files, include, exclude) ==
    LET out == Excluded(files, exclude)
        new == IncorporateExcludes(out, files \ out, include)
    IN  Result(CASE out = {} -> [kind |-> "RemoveExclude"]
                 [] out # {} /\ new.added = {} /\ new.removed = {} -> NoFix
                 [] OTHER -> [kind |-> "RemoveExcludeAndUseInclude", include |-> new.all],
               out)

\* include only: nothing is called waste
EnrichIncludes(files, include) ==
    LET potential == PotentialNegatedIncludes(files, (include \ Implicit) \cap Open)
    IN  IF include \cap Implicit = {} THEN Result(NoFix, {})
        ELSE [Result([kind |-> "ImprovedInclude", include |-> include \ Implicit], {})
                EXCEPT !.gains = IF potential.patterns = {} THEN None ELSE potential.files]

\* exclude only
EnrichExcludes(files, exclude, compiled) ==
    LET more == InAButNotInB(StandardExcludes, ToSet(StandardIncludes) \cup compiled,
                             Matched(files, ToSet(StandardExcludes)))
    IN  IF more.files = {} THEN Result(NoFix, {})
        ELSE Result(IF more.patterns = {} THEN NoFix
                    ELSE [kind |-> "EnrichedExclude", exclude |-> exclude \cup more.patterns],
                    more.files)

FixMerge(fix, potential, waste) ==
    IF potential.patterns = {} THEN Result(fix, waste)
    ELSE Result([fix EXCEPT !.negated = potential.patterns], waste \cup potential.files)

\* neither
NewIncludes(files, compiled) ==
    LET in == Matched(files, ToSet(StandardIncludes) \cup compiled)
        potential == PotentialNegatedIncludes(in, compiled \cap Open)
        fix == [kind    |-> "NewInclude",
                include |-> SimplifyIncludes(StandardIncludes \o SetToSeq(compiled), in),
                negated |-> {}]
    IN  IF in = files /\ potential.patterns = {} THEN Result(NoFix, {})
        ELSE FixMerge(fix, potential, files \ in)

Analyze(package) ==
    LET files    == Entries(package)
        compiled == CompileTimeIncludes(package)
        build    == IF HasBuildScript(package) THEN {Build(package)} ELSE {}
    IN  CASE package.include # None /\ package.exclude # None ->
                ComputeIncludes(files, package.include, package.exclude)
          [] package.include # None /\ package.exclude = None ->
                EnrichIncludes(files, package.include)
          [] package.include = None /\ package.exclude # None ->
                EnrichExcludes(files, package.exclude, compiled)
          [] OTHER -> NewIncludes(files, compiled \cup build)
=============================================================================
