------------------------------ MODULE WasteReport ------------------------------
(***************************************************************************)
(* Waste reports: one for each crate version, from the files in its        *)
(* archive (WastePatterns), and the merging of any two of them             *)
(* (report/waste/merge.rs) into one of a crate or of a collection.         *)
(*                                                                         *)
(* Which reports are merged when, and on which side, depends on chunks,    *)
(* processors, caches and restarts (Reports): here it is any two, until    *)
(* one is left.                                                            *)
(***************************************************************************)
EXTENDS WastePatterns

CONSTANTS
    Crates,
    Names,      \* the names of versions, numbered in the order of strings
    Size,       \* the size of each file
    Extension,  \* its extension, or a marker
    Elsewhere,  \* what cargo takes a pattern to match besides: */p and **/p
    Inputs      \* the packages of some versions

Versions == Crates \X Names
Infos == [bytes : Nat, files : Nat]  \* AggregateFileInfo

ASSUME WasteReportAssumption ==
    /\ Names \subseteq Nat
    /\ Size \in [Files -> Nat]
    /\ DOMAIN Extension = Files
    /\ Elsewhere \in [Patterns -> SUBSET Files]
    /\ \A i \in DOMAIN StandardExcludes :  \* they begin with **/
          Elsewhere[StandardExcludes[i]] \subseteq Matches[StandardExcludes[i]]
    /\ None \notin Infos \cup [name : Names, waste : Infos]
    /\ \A input \in Inputs : \A v \in DOMAIN input : v \in Versions /\ IsPackage(input[v])

VARIABLES
    package,  \* the package of each version
    reports   \* the reports there are, and the versions each is of

vars == <<package, reports>>

-----------------------------------------------------------------------------
\* AggregateFileInfo and VersionInfo

SumOver(S, number) == FoldSet(LAMBDA x, n : n + number[x], 0, S)

Info(files) == [bytes |-> SumOver(files, Size), files |-> Cardinality(files)]
Nothing == [bytes |-> 0, files |-> 0]
Total(infos) ==
    [bytes |-> SumOver(DOMAIN infos, [x \in DOMAIN infos |-> infos[x].bytes]),
     files |-> SumOver(DOMAIN infos, [x \in DOMAIN infos |-> infos[x].files])]
Plus(a, b) == [bytes |-> a.bytes + b.bytes, files |-> a.files + b.files]

\* None is the same as nothing, except that it is shown otherwise
AddOptional(a, b) ==
    CASE a = None -> b
      [] b = None -> a
      [] OTHER -> Plus(a, b)

\* the one with the greater name, the second of two with the same
AddNamed(a, b) ==
    CASE a = None -> b
      [] b = None -> a
      [] OTHER -> IF a.name > b.name THEN a ELSE b

AddInfo(a, b) ==
    [all   |-> Plus(a.all, b.all),
     waste |-> Plus(a.waste, b.waste),
     gains |-> AddOptional(a.gains, b.gains),
     latest |-> AddNamed(a.latest, b.latest)]

DefaultInfo == [all |-> Nothing, waste |-> Nothing, gains |-> None, latest |-> None]

\* What either side has, and the sum of what both have: of versions or crates,
\* and of extensions.
MapIntoMap(a, b) ==
    [k \in (DOMAIN a) \cup (DOMAIN b) |->
        IF k \notin DOMAIN b THEN a[k]
        ELSE AddInfo(IF k \in DOMAIN a THEN a[k] ELSE DefaultInfo, b[k])]

ExtensionsIntoMap(a, b) ==
    [k \in (DOMAIN a) \cup (DOMAIN b) |->
        IF k \notin DOMAIN b THEN a[k]
        ELSE Plus(IF k \in DOMAIN a THEN a[k] ELSE Nothing, b[k])]

Empty == [k \in {} |-> Nothing]

VecIntoMapByExtension(initial, files) ==
    ExtensionsIntoMap(initial, [e \in {Extension[f] : f \in files} |->
                                  Info({f \in files : Extension[f] = e})])

-----------------------------------------------------------------------------
\* Reports: of a version, of a crate, of a collection of crates

OfVersion(v) ==
    LET result == Analyze(package[v])
    IN  [kind |-> "Version", crate |-> v[1], name |-> v[2],
         total |-> Info(Entries(package[v])), wasted |-> result.wasted,
         gains |-> IF result.gains = None THEN None ELSE Info(result.gains)]

NewVersionMap(r) ==
    [n \in {r.name} |-> [all |-> r.total, waste |-> Info(r.wasted), gains |-> r.gains,
                         latest |-> None]]

CrateFromVersion(r) ==
    [kind |-> "Crate", crate |-> r.crate, total |-> r.total,
     versions |-> NewVersionMap(r),
     extensions |-> VecIntoMapByExtension(Empty, r.wasted)]

\* the sums of all versions, and the last of them in the order of their names
CollectionInfo(versions) ==
    LET names   == DOMAIN versions
        gaining == {n \in names : versions[n].gains # None}
        last    == CHOOSE n \in names : \A m \in names : n >= m
    IN  [all    |-> Total([n \in names |-> versions[n].all]),
         waste  |-> Total([n \in names |-> versions[n].waste]),
         gains  |-> IF gaining = {} THEN None ELSE Total([n \in gaining |-> versions[n].gains]),
         latest |-> [name |-> last, waste |-> versions[last].waste]]

CollectionFromCrate(r) ==
    [kind |-> "CrateCollection", total |-> r.total,
     crates |-> [c \in {r.crate} |-> CollectionInfo(r.versions)],
     extensions |-> r.extensions]

\* A mutant of CrateAndVersion: the extensions are those of the version.
CrateAndVersionOnly(a, b) ==
    [kind |-> "Crate", crate |-> a.crate, total |-> Plus(a.total, b.total),
     versions |-> MapIntoMap(a.versions, NewVersionMap(b)),
     extensions |-> VecIntoMapByExtension(Empty, b.wasted)]

CrateAndVersion(a, b) ==
    [kind |-> "Crate", crate |-> a.crate, total |-> Plus(a.total, b.total),
     versions |-> MapIntoMap(a.versions, NewVersionMap(b)),
     extensions |-> VecIntoMapByExtension(a.extensions, b.wasted)]

CrateAndCrate(a, b) ==
    [kind |-> "Crate", crate |-> a.crate, total |-> Plus(a.total, b.total),
     versions |-> MapIntoMap(a.versions, b.versions),
     extensions |-> ExtensionsIntoMap(a.extensions, b.extensions)]

CollectionAndCrates(a, b) ==
    [kind |-> "CrateCollection", total |-> Plus(a.total, b.total),
     crates |-> MapIntoMap(a.crates, b.crates),
     extensions |-> ExtensionsIntoMap(a.extensions, b.extensions)]

MergeCollection(a, b) ==
    CASE b.kind = "Version" -> CollectionAndCrates(a, CollectionFromCrate(CrateFromVersion(b)))
      [] b.kind = "Crate"   -> CollectionAndCrates(a, CollectionFromCrate(b))
      [] OTHER              -> CollectionAndCrates(a, b)

MergeCrate(a, b) ==
    CASE a.crate # b.crate  -> MergeCollection(CollectionFromCrate(a), b)
      [] a.crate = b.crate /\ b.kind = "Version" -> CrateAndVersion(a, b)
      [] OTHER              -> CrateAndCrate(a, b)

Merge(a, b) ==
    CASE a.kind = "CrateCollection" -> MergeCollection(a, b)
      [] a.kind # "CrateCollection" /\ b.kind = "CrateCollection" -> MergeCollection(b, a)
      [] a.kind = "Crate" /\ b.kind # "CrateCollection" -> MergeCrate(a, b)
      [] a.kind = "Version" /\ b.kind = "Crate" -> MergeCrate(b, a)
      [] OTHER -> MergeCrate(CrateFromVersion(a), b)

-----------------------------------------------------------------------------
Init ==
    /\ package \in Inputs
    /\ reports = {}

\* extract_crate and report of a version that has none
ReportVersion ==
    /\ \E v \in DOMAIN package :
          /\ \A r \in reports : v \notin r.of
          /\ reports' = reports \cup {[of |-> {v}, report |-> OfVersion(v)]}
    /\ UNCHANGED package

\* any two of them, either as the one that the other is merged into
MergeTwo ==
    /\ \E a \in reports, b \in reports :
          /\ a # b
          /\ reports' = (reports \ {a, b}) \cup
                {[of |-> a.of \cup b.of, report |-> Merge(a.report, b.report)]}
    /\ UNCHANGED package

Next == ReportVersion \/ MergeTwo
Spec == Init /\ [][Next]_vars

\* Reports are of versions, and no version is in two of them.
ReportsAreApart ==
    /\ package \in Inputs
    /\ \A r \in reports : /\ r.of # {} /\ r.of \subseteq DOMAIN package
                          /\ IsFiniteSet(r.of)
    /\ \A r \in reports, s \in reports : r = s \/ r.of \cap s.of = {}

-----------------------------------------------------------------------------
\* What cargo puts into an archive: what is included if anything is, all that is
\* not excluded otherwise, and Cargo.toml and Cargo.lock in any case.  Its patterns
\* are greedy: README.md is any file of that name.
Stray(ps) == UNION {Elsewhere[q] : q \in ps}
Greedy(ps) == MatchAny(ps) \cup Stray(ps)

Selected(files, cargo) ==
    {f \in files :
        \/ f \in Implicit
        \/ cargo.include # None /\ f \in Greedy(cargo.include) \ Greedy(cargo.negated)
        \/ /\ cargo.include = None
           /\ cargo.exclude # None =>
                f \notin Excluded(files, cargo.exclude) \cup Stray(cargo.exclude)}

\* Cargo.toml of a package, and with a fix
Manifest(p) == [include |-> p.include, exclude |-> p.exclude, negated |-> {}]

Fixed(p, fix) ==
    CASE fix.kind = "NewInclude" ->
            [include |-> fix.include, exclude |-> p.exclude, negated |-> fix.negated]
      [] fix.kind \in {"ImprovedInclude", "RemoveExcludeAndUseInclude"} ->
            [include |-> fix.include, exclude |-> None, negated |-> {}]
      [] fix.kind = "EnrichedExclude" ->
            [include |-> p.include, exclude |-> fix.exclude, negated |-> {}]
      [] fix.kind = "RemoveExclude" ->
            [include |-> p.include, exclude |-> None, negated |-> {}]
      [] OTHER -> Manifest(p)

\* the next version, when Cargo.toml is all that is changed
Republished(p, cargo) ==
    [files |-> Selected(p.files, cargo), include |-> cargo.include, exclude |-> cargo.exclude,
     lib |-> p.lib, bins |-> p.bins, build |-> p.build]

\* what the includes of a Cargo.toml take in by being greedy
Strays(cargo) == IF cargo.include = None THEN {} ELSE Stray(cargo.include)

Removes(p, result) ==
    LET fixed == Fixed(p, result.fix)
        kept  == Selected(Entries(p), Manifest(p)) \ result.wasted
        next  == Selected(Entries(p), fixed)
    IN  /\ next \subseteq kept \cup Strays(fixed) \cup Implicit
        /\ kept \subseteq next \cup Strays(Manifest(p)) \cup Implicit

IsFinal(p, fix) ==
    fix.kind # "None" => Analyze(Republished(p, Fixed(p, fix))).wasted = {}

\* Whoever follows the suggestion gets rid of the files that were called waste, but
\* those in another directory that an include of it means for cargo as well, and of
\* none that the archive is said to keep, but such files of an include it replaces.
FixRemovesWaste ==
    \A r \in reports : \A v \in r.of : Removes(package[v], Analyze(package[v]))

\* And the next version is lean: in the archive that results from the suggestion
\* nothing is called waste, with the same patterns in Cargo.toml.
FixIsFinal ==
    \A r \in reports : \A v \in r.of : IsFinal(package[v], Analyze(package[v]).fix)

\* The report of some versions by its definition, from the report of each.
InfoOf(part) ==
    [all |-> part.total, waste |-> Info(part.wasted), gains |-> part.gains, latest |-> None]

TotalOf(of) == Total([v \in of |-> OfVersion(v).total])

WastedWith(e, v) == {f \in OfVersion(v).wasted : Extension[f] = e}
ExtensionsOf(of) ==
    [e \in {Extension[f] : f \in UNION {OfVersion(v).wasted : v \in of}} |->
        Total([v \in of |-> Info(WastedWith(e, v))])]

VersionsOf(c, of) == {v \in of : v[1] = c}
CrateInfoOf(of) ==
    LET gaining == {v \in of : OfVersion(v).gains # None}
        latest  == CHOOSE v \in of : \A w \in of : v[2] >= w[2]
    IN  [all    |-> TotalOf(of),
         waste  |-> Total([v \in of |-> Info(OfVersion(v).wasted)]),
         gains  |-> IF gaining = {} THEN None ELSE Total([v \in gaining |-> OfVersion(v).gains]),
         latest |-> [name |-> latest[2], waste |-> Info(OfVersion(latest).wasted)]]

IsReportOf(report, of) ==
    \/ report.kind = "Version" /\ \E v \in of : of = {v} /\ report = OfVersion(v)
    \/ /\ report.kind = "Crate" /\ \A v \in of : v[1] = report.crate
       /\ report.total = TotalOf(of)
       /\ report.versions = [n \in {v[2] : v \in of} |-> InfoOf(OfVersion(<<report.crate, n>>))]
       /\ report.extensions = ExtensionsOf(of)
    \/ /\ report.kind = "CrateCollection"
       /\ report.total = TotalOf(of)
       /\ report.crates = [c \in {v[1] : v \in of} |-> CrateInfoOf(VersionsOf(c, of))]
       /\ report.extensions = ExtensionsOf(of)

\* In whatever order, groups and roles reports are merged: what comes out is the
\* report of the versions they are of, with nothing lost and nothing twice.
MergeIsExact ==
    \A r \in reports : IsReportOf(r.report, r.of)
=============================================================================
