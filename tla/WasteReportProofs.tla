-------------------------- MODULE WasteReportProofs --------------------------
(***************************************************************************)
(* Proofs about WastePatterns and WasteReport, for all files, patterns and *)
(* packages: whoever follows a suggestion loses what was called waste and  *)
(* no more, but for what cargo makes of patterns in other directories, and *)
(* is not called wasteful again; and however reports are merged, they are  *)
(* the sums over their versions.                                           *)
(***************************************************************************)
EXTENDS WasteReport, FiniteSetTheorems, WellFoundedInduction, TLAPS

(***************************************************************************)
(* Patterns and lists of them.                                             *)
(***************************************************************************)
LEMMA FilesMatchThemselves ==
    \A ps, f : f \in MatchAny(ps) <=> \E p \in ps : f \in Match(p)
BY DEF MatchAny

LEMMA SeqToSet ==
    ASSUME NEW s \in Seq(Patterns)
    PROVE  /\ DOMAIN s = 1..Len(s) /\ Len(s) \in Nat
           /\ ToSet(s) \subseteq Patterns
           /\ \A p : p \in ToSet(s) <=> \E i \in DOMAIN s : p = s[i]
BY DEF ToSet

LEMMA ConcatenatedLists ==
    ASSUME NEW s \in Seq(Patterns), NEW t \in Seq(Patterns)
    PROVE  s \o t \in Seq(Patterns) /\ ToSet(s \o t) = ToSet(s) \cup ToSet(t)
<1>1. s \o t \in Seq(Patterns)
  OBVIOUS
<1>2. ASSUME NEW p \in ToSet(s \o t) PROVE p \in ToSet(s) \cup ToSet(t)
  <2>1. PICK i \in DOMAIN (s \o t) : p = (s \o t)[i]
    BY <1>1, <1>2, SeqToSet
  <2>2. CASE i <= Len(s)
    BY <2>1, <2>2, SeqToSet
  <2>3. CASE i > Len(s)
    BY <2>1, <2>3, SeqToSet
  <2> QED BY <1>1, <2>1, <2>2, <2>3, SeqToSet
<1>3. ASSUME NEW p \in ToSet(s) PROVE p \in ToSet(s \o t)
  <2>1. PICK i \in DOMAIN s : p = s[i]
    BY <1>3, SeqToSet
  <2>2. i \in DOMAIN (s \o t) /\ p = (s \o t)[i]
    BY <2>1, SeqToSet
  <2> QED BY <1>1, <2>2, SeqToSet
<1>4. ASSUME NEW p \in ToSet(t) PROVE p \in ToSet(s \o t)
  <2>1. PICK i \in DOMAIN t : p = t[i]
    BY <1>4, SeqToSet
  <2>2. i + Len(s) \in DOMAIN (s \o t) /\ p = (s \o t)[i + Len(s)]
    BY <2>1, SeqToSet
  <2> QED BY <1>1, <2>2, SeqToSet
<1> QED BY <1>1, <1>2, <1>3, <1>4

\* Of the places with some property there is a first.
LEMMA FirstOf ==
    ASSUME NEW T, T \subseteq Nat, T # {}
    PROVE  \E i \in T : \A j \in T : ~(j < i)
<1>1. IsWellFoundedOn(OpToRel(<, Nat), Nat)
  BY NatLessThanWellFounded
<1>2. PICK i \in T : \A j \in T : <<j, i>> \notin OpToRel(<, Nat)
  BY <1>1, WFMin
<1> QED BY <1>2 DEF OpToRel

LEMMA FirstMatch ==
    ASSUME NEW ps \in Seq(Patterns), NEW files, NEW f \in Matched(files, ToSet(ps))
    PROVE  \E i \in DOMAIN ps : f \in Taken(ps, files, i)
<1> DEFINE T == {i \in DOMAIN ps : f \in Match(ps[i])}
<1>1. T \subseteq Nat /\ T # {}
  BY SeqToSet, FilesMatchThemselves DEF Matched
<1>2. PICK i \in T : \A j \in T : ~(j < i)
  BY <1>1, FirstOf
<1>3. ASSUME NEW j \in 1..(i - 1) PROVE f \notin Match(ps[j])
  BY <1>2, <1>3, SeqToSet
<1>4. f \notin MatchAny({ps[j] : j \in 1..(i - 1)})
  BY <1>3, FilesMatchThemselves
<1> QED BY <1>2, <1>4, SeqToSet DEF Taken, Rest, Matched

\* Simplified includes match what was to be included, but for what cargo includes
\* anyway, and they are patterns of the list or files to be included.
LEMMA SimplifiedIncludes ==
    ASSUME NEW ps \in Seq(Patterns), NEW files, files \subseteq Files
    PROVE  /\ SimplifyIncludes(ps, files) \subseteq ToSet(ps) \cup files
           /\ Matched(files, ToSet(ps)) \ Implicit \subseteq MatchAny(SimplifyIncludes(ps, files))
<1> DEFINE Simplified(i) == IF Cardinality(Taken(ps, files, i)) > 1
                            THEN {ps[i]} ELSE Taken(ps, files, i)
           all == {Simplified(i) : i \in DOMAIN ps}
           out == SimplifyIncludes(ps, files)
<1>1. out = (UNION all) \ Implicit
  BY DEF SimplifyIncludes
<1>2. \A i : Taken(ps, files, i) \subseteq files \cap Match(ps[i])
  BY DEF Taken, Rest
<1>p. \A i \in DOMAIN ps : Simplified(i) \ Implicit \subseteq out
  <2> SUFFICES ASSUME NEW i \in DOMAIN ps, NEW p \in Simplified(i), p \notin Implicit
               PROVE  p \in out
    BY Zenon
  <2>1. Simplified(i) \in all
    BY Zenon
  <2> HIDE DEF Simplified, all, out
  <2> QED BY <1>1, <2>1
<1>3. \A i \in DOMAIN ps : Simplified(i) \subseteq ToSet(ps) \cup files
  BY <1>2, SeqToSet
<1>4. ASSUME NEW f \in Matched(files, ToSet(ps)), f \notin Implicit
      PROVE  f \in MatchAny(out)
  <2>1. PICK i \in DOMAIN ps : f \in Taken(ps, files, i)
    BY <1>4, FirstMatch
  <2>2. f \in Files /\ Match(f) = {f}
    BY <1>4 DEF Matched, Match
  <2>3. CASE Cardinality(Taken(ps, files, i)) > 1
    <3>1. f \in Match(ps[i]) /\ ps[i] \in Simplified(i)
      BY <1>2, <2>1, <2>3
    <3> HIDE DEF Simplified, out
    <3>2. ps[i] \notin Implicit
      <4>1. ASSUME ps[i] \in Implicit PROVE FALSE
        BY <3>1, <4>1, <1>4, WastePatternsAssumption DEF Match
      <4> QED BY <4>1
    <3> QED BY <1>p, <3>1, <3>2, FilesMatchThemselves
  <2>4. CASE ~(Cardinality(Taken(ps, files, i)) > 1)
    <3>1. f \in Simplified(i)
      BY <2>1, <2>4
    <3> HIDE DEF Simplified, out
    <3>2. f \in out
      BY <1>p, <1>4, <3>1
    <3> QED BY <2>2, <3>2, FilesMatchThemselves
  <2> QED BY <2>3, <2>4
<1>5. out \subseteq ToSet(ps) \cup files
  BY <1>1, <1>3
<1> QED BY <1>4, <1>5

\* A finite set as a list.
LEMMA SetAsSeq ==
    ASSUME NEW S, S \subseteq Patterns
    PROVE  SetToSeq(S) \in Seq(Patterns) /\ ToSet(SetToSeq(S)) = S
<1> DEFINE D == 1..Cardinality(S)
<1>1. IsFiniteSet(S) /\ Cardinality(S) \in Nat /\ ExistsBijection(D, S)
  BY WastePatternsAssumption, FS_Subset, FS_CardinalityType
<1>2. IsFiniteSet(D) /\ Cardinality(D) = Cardinality(S)
  BY <1>1, FS_Interval
<1>3. PICK g : g \in Bijection(D, S)
  BY <1>1 DEF ExistsBijection
<1>4. g \in [D -> S] /\ IsInjective(g)
  BY <1>3 DEF Bijection, Injection, IsInjective
<1> DEFINE s == SetToSeq(S)
<1>5. s \in [D -> S] /\ IsInjective(s)
  BY <1>4 DEF SetToSeq
<1>6. s \in Injection(D, S)
  BY <1>5 DEF Injection, IsInjective
<1>7. s \in Surjection(D, S)
  BY <1>1, <1>2, <1>6, FS_Injection
<1>8. s \in Seq(Patterns)
  BY <1>1, <1>5
<1> QED BY <1>5, <1>7, <1>8 DEF Surjection, ToSet

\* What is chosen of a list of patterns.
LEMMA ChosenPatterns ==
    ASSUME NEW ps \in Seq(Patterns), NEW b, NEW files
    PROVE  LET chosen == InAButNotInB(ps, b, files)
           IN  /\ chosen.patterns \subseteq ToSet(ps)
               /\ chosen.files = Matched(files, chosen.patterns)
               /\ \A p : p \in chosen.patterns
                            <=> \E i \in DOMAIN ps : p = ps[i] /\ Chooses(ps, b, files, i)
<1> DEFINE chosen == InAButNotInB(ps, b, files)
           out == {ps[i] : i \in {j \in DOMAIN ps : Chooses(ps, b, files, j)}}
<1>1. chosen.patterns = out /\ chosen.files = Matched(files, out)
  BY DEF InAButNotInB
<1>2. out \subseteq ToSet(ps)
  BY SeqToSet
<1> QED BY <1>1, <1>2

-----------------------------------------------------------------------------
(***************************************************************************)
(* What a suggestion removes, in each of the four cases.                   *)
(***************************************************************************)

\* None is not a list of patterns.
NoneIsApart == None \notin SUBSET Patterns

\* A standard exclude that matches a directory matches all that is below it: each
\* but those of images does, and those do unless a directory is named as one.
ExcludesAreDeep ==
    \A i \in DOMAIN StandardExcludes, d \in DOMAIN Below :
        d \in Match(StandardExcludes[i]) => Below[d] \subseteq Match(StandardExcludes[i])

LEMMA PackageType ==
    ASSUME NEW p, IsPackage(p)
    PROVE  /\ Entries(p) \subseteq Files
           /\ Build(p) \in Files /\ Lib(p) \in Files /\ Bins(p) \subseteq Files
           /\ CompileTimeIncludes(p) \subseteq Patterns
<1> USE WastePatternsAssumption
<1>1. Entries(p) \subseteq Files
  BY DEF IsPackage, Entries
<1>2. Build(p) \in Files /\ Lib(p) \in Files /\ Bins(p) \subseteq Files
  BY DEF IsPackage, Build, Lib, Bins
<1>3. \A f \in Files : /\ IncludedPathsOf(p, f) \subseteq Patterns
                       /\ UnlessDefault(f) \subseteq Patterns
  BY DEF IncludedPathsOf, UnlessDefault
<1>4. CompileTimeIncludes(p) \subseteq Patterns
  BY <1>2, <1>3 DEF CompileTimeIncludes, PathsInBuildScript
<1> QED BY <1>1, <1>2, <1>4

LEMMA SelectedFiles ==
    ASSUME NEW files, NEW cargo
    PROVE  \A f : f \in Selected(files, cargo) \ Implicit <=>
               /\ f \in files \ Implicit
               /\ cargo.include # None => f \in Greedy(cargo.include) \ Greedy(cargo.negated)
               /\ cargo.include = None /\ cargo.exclude # None =>
                     f \notin Excluded(files, cargo.exclude) \cup Stray(cargo.exclude)
BY DEF Selected

\* Implicit patterns are paths, so a list without them matches the same but them.
LEMMA WithoutImplicit ==
    ASSUME NEW ps
    PROVE  /\ MatchAny(ps \ Implicit) \ Implicit = MatchAny(ps) \ Implicit
           /\ Stray(ps \ Implicit) \subseteq Stray(ps)
BY WastePatternsAssumption DEF MatchAny, Match, Stray

LEMMA NothingNegated == MatchAny({}) = {} /\ Greedy({}) = {}
BY DEF MatchAny, Greedy, Stray

\* What a list of includes selects.
LEMMA IncludedFiles ==
    ASSUME NEW files, NEW cargo, cargo.include # None, cargo.negated = {}
    PROVE  /\ Strays(cargo) = Stray(cargo.include)
           /\ \A f : f \in Selected(files, cargo) \ Implicit <=>
                       /\ f \in files \ Implicit
                       /\ f \in MatchAny(cargo.include) \/ f \in Stray(cargo.include)
<1>1. \A f : f \in Selected(files, cargo) \ Implicit <=>
               f \in files \ Implicit /\ f \in Greedy(cargo.include)
  BY SelectedFiles, NothingNegated
<1> QED BY <1>1 DEF Strays, Greedy

\* It is enough to look at files that are not implicit.
LEMMA RemovesIf ==
    ASSUME NEW p, NEW result,
           \A f : LET fixed == Fixed(p, result.fix)
                      kept  == f \in Selected(Entries(p), Manifest(p)) \ Implicit
                                 /\ f \notin result.wasted
                      next  == f \in Selected(Entries(p), fixed) \ Implicit
                  IN  /\ next => kept \/ f \in Strays(fixed)
                      /\ kept => next \/ f \in Strays(Manifest(p))
    PROVE  Removes(p, result)
BY DEF Removes

LEMMA IncludeOnlyRemoves ==
    ASSUME NoneIsApart, NEW p, IsPackage(p), p.include # None, p.exclude = None
    PROVE  Removes(p, Analyze(p))
<1> DEFINE E == Entries(p)
           potential == PotentialNegatedIncludes(E, (p.include \ Implicit) \cap Open)
<1>1. Analyze(p) = EnrichIncludes(E, p.include)
  BY DEF Analyze
<1>2. CASE p.include \cap Implicit = {}
  <2>1. Analyze(p) = Result(NoFix, {})
    BY <1>1, <1>2 DEF EnrichIncludes
  <2> QED BY <2>1 DEF Removes, Fixed, Result, NoFix
<1>3. CASE p.include \cap Implicit # {}
  <2> DEFINE fix == [kind |-> "ImprovedInclude", include |-> p.include \ Implicit]
             fixed == Fixed(p, Analyze(p).fix)
  <2>1. Analyze(p).fix = fix /\ Analyze(p).wasted = {}
    BY <1>1, <1>3 DEF EnrichIncludes, Result
  <2>2. fixed = [include |-> p.include \ Implicit, exclude |-> None, negated |-> {}]
    BY <2>1 DEF Fixed
  <2>3. p.include \ Implicit # None
    BY DEF IsPackage, NoneIsApart
  <2> HIDE DEF E, fixed
  <2>4. /\ Strays(fixed) = Stray(p.include \ Implicit)
        /\ \A f : f \in Selected(E, fixed) \ Implicit <=>
                    /\ f \in E \ Implicit
                    /\ f \in MatchAny(p.include \ Implicit) \/ f \in Stray(p.include \ Implicit)
    <3>1. fixed.include = p.include \ Implicit /\ fixed.negated = {}
      BY <2>2
    <3> QED BY <2>3, <3>1, IncludedFiles, Zenon
  <2>5. Manifest(p).include = p.include /\ Manifest(p).negated = {}
    BY DEF Manifest
  <2>6. /\ Strays(Manifest(p)) = Stray(p.include)
        /\ \A f : f \in Selected(E, Manifest(p)) \ Implicit <=>
                    f \in E \ Implicit /\ (f \in MatchAny(p.include) \/ f \in Stray(p.include))
    BY <2>5, IncludedFiles
  <2>7. /\ MatchAny(p.include \ Implicit) \ Implicit = MatchAny(p.include) \ Implicit
        /\ Stray(p.include \ Implicit) \subseteq Stray(p.include)
    BY WithoutImplicit
  <2>8. \A f : /\ f \in Selected(E, fixed) \ Implicit => f \in Selected(E, Manifest(p)) \ Implicit
               /\ f \in Selected(E, Manifest(p)) \ Implicit =>
                    f \in Selected(E, fixed) \ Implicit \/ f \in Strays(Manifest(p))
    BY <2>4, <2>6, <2>7
  <2> QED BY <2>1, <2>8, RemovesIf DEF E, fixed
<1> QED BY <1>2, <1>3

LEMMA BothRemove ==
    ASSUME NoneIsApart, NEW p, IsPackage(p), p.include # None, p.exclude # None
    PROVE  Removes(p, Analyze(p))
<1> DEFINE E == Entries(p)
           out == Excluded(E, p.exclude)
           removed == {q \in p.include : out \cap Match(q) # {}}
           added == Matched(E \ out, removed)
           all == (p.include \ removed) \cup added
           new == IncorporateExcludes(out, E \ out, p.include)
<1>1. Analyze(p) = ComputeIncludes(E, p.include, p.exclude)
  BY DEF Analyze
<1>2. new = [all |-> all \ Implicit, added |-> added,
             removed |-> removed \cup (all \cap Implicit)]
  BY DEF IncorporateExcludes
<1>3. Analyze(p).wasted = out
  BY <1>1 DEF ComputeIncludes, Result
<1> DEFINE fixed == Fixed(p, Analyze(p).fix)
<1>4. /\ Strays(Manifest(p)) = Stray(p.include)
      /\ \A f : f \in Selected(E, Manifest(p)) \ Implicit <=>
                  f \in E \ Implicit /\ (f \in MatchAny(p.include) \/ f \in Stray(p.include))
  <2>1. Manifest(p).include = p.include /\ Manifest(p).negated = {}
    BY DEF Manifest
  <2> HIDE DEF E
  <2> QED BY <2>1, IncludedFiles
<1>5. E \subseteq Files /\ p.include \subseteq Patterns
  BY PackageType DEF IsPackage
<1>6. CASE out = {}
  <2>1. Analyze(p).fix = [kind |-> "RemoveExclude"]
    BY <1>1, <1>6 DEF ComputeIncludes, Result
  <2>2. fixed = [include |-> p.include, exclude |-> None, negated |-> {}]
    BY <2>1 DEF Fixed
  <2>3. \A f : f \in Selected(E, fixed) \ Implicit <=>
                 f \in E \ Implicit /\ (f \in MatchAny(p.include) \/ f \in Stray(p.include))
    <3> HIDE DEF E, fixed
    <3> QED BY <2>2, IncludedFiles
  <2>4. \A f : f \in Selected(E, fixed) \ Implicit <=> f \in Selected(E, Manifest(p)) \ Implicit
    BY <1>4, <2>3
  <2> QED BY <1>3, <1>6, <2>4, RemovesIf
<1>7. CASE out # {} /\ new.added = {} /\ new.removed = {}
  <2>1. Analyze(p).fix = NoFix
    BY <1>1, <1>7 DEF ComputeIncludes, Result
  <2>2. removed = {}
    <3> HIDE DEF new, removed, all
    <3> QED BY <1>2, <1>7
  <2>3. out \cap MatchAny(p.include) = {}
    BY <2>2 DEF MatchAny
  <2>4. fixed = Manifest(p)
    BY <2>1 DEF Fixed, NoFix
  <2>5. \A f : f \in Selected(E, Manifest(p)) \ Implicit => f \notin out \/ f \in Stray(p.include)
    BY <1>4, <2>3
  <2> QED BY <1>3, <1>4, <2>4, <2>5, RemovesIf
<1>8. CASE out # {} /\ ~(new.added = {} /\ new.removed = {})
  <2>1. Analyze(p).fix = [kind |-> "RemoveExcludeAndUseInclude", include |-> new.all]
    BY <1>1, <1>8 DEF ComputeIncludes, Result
  <2>2. fixed = [include |-> all \ Implicit, exclude |-> None, negated |-> {}]
    <3> HIDE DEF new, all
    <3> QED BY <1>2, <2>1 DEF Fixed
  <2>3. added \subseteq Files /\ all \subseteq Patterns
    BY <1>5 DEF Matched, Patterns
  <2>4. all \ Implicit # None
    BY <2>3 DEF NoneIsApart
  <2>5. \A f : f \in Selected(E, fixed) \ Implicit <=>
                 f \in E \ Implicit /\ (f \in MatchAny(all) \/ f \in Strays(fixed))
    <3> HIDE DEF E, all, fixed
    <3>1. /\ Strays(fixed) = Stray(all \ Implicit)
          /\ \A f : f \in Selected(E, fixed) \ Implicit <=>
                      /\ f \in E \ Implicit
                      /\ f \in MatchAny(all \ Implicit) \/ f \in Stray(all \ Implicit)
      <4>1. fixed.include = all \ Implicit /\ fixed.negated = {}
        BY <2>2
      <4> QED BY <2>4, <4>1, IncludedFiles, Zenon
    <3> QED BY <3>1, WithoutImplicit
  <2>6. \A f \in E : f \in MatchAny(all) <=> f \in MatchAny(p.include) /\ f \notin out
    <3> SUFFICES ASSUME NEW f \in E
                 PROVE  f \in MatchAny(all) <=> f \in MatchAny(p.include) /\ f \notin out
      OBVIOUS
    <3>1. ASSUME NEW q \in all, f \in Match(q) PROVE f \in MatchAny(p.include) /\ f \notin out
      <4>1. CASE q \in p.include \ removed
        BY <3>1, <4>1, FilesMatchThemselves
      <4>2. CASE q \in added
        <5>1. q = f
          BY <2>3, <3>1, <4>2 DEF Match
        <5> QED BY <4>2, <5>1, FilesMatchThemselves DEF Matched
      <4> QED BY <4>1, <4>2
    <3>2. ASSUME NEW q \in p.include, f \in Match(q), f \notin out PROVE f \in MatchAny(all)
      <4>1. CASE q \in removed
        <5>1. f \in added
          BY <3>2, <4>1, FilesMatchThemselves DEF Matched
        <5>2. f \in Match(f)
          BY <1>5 DEF Match
        <5> QED BY <5>1, <5>2, FilesMatchThemselves
      <4>2. CASE q \notin removed
        BY <3>2, <4>2, FilesMatchThemselves
      <4> QED BY <4>1, <4>2
    <3> HIDE DEF E, out, all
    <3> QED BY <3>1, <3>2, FilesMatchThemselves
  <2>7. \A f : LET kept == f \in Selected(E, Manifest(p)) \ Implicit /\ f \notin out
                   next == f \in Selected(E, fixed) \ Implicit
               IN  /\ next => kept \/ f \in Strays(fixed)
                   /\ kept => next \/ f \in Strays(Manifest(p))
    <3> HIDE DEF E, all, fixed, out
    <3> QED BY <1>4, <2>5, <2>6
  <2> QED BY <1>3, <2>7, RemovesIf
<1> QED BY <1>6, <1>7, <1>8

LEMMA StandardLists ==
    /\ StandardIncludes \in Seq(Patterns) /\ StandardExcludes \in Seq(Patterns)
    /\ ToSet(StandardIncludes) \subseteq Patterns /\ ToSet(StandardExcludes) \subseteq Patterns
    /\ ToSet(StandardIncludes) # {}
<1>1. StandardIncludes \in Seq(Patterns) /\ StandardExcludes \in Seq(Patterns)
  BY WastePatternsAssumption DEF Patterns
<1>2. StandardIncludes[1] \in ToSet(StandardIncludes)
  BY <1>1, SeqToSet, WastePatternsAssumption
<1> QED BY <1>1, <1>2, SeqToSet

LEMMA MatchUnion ==
    ASSUME NEW ps, NEW qs
    PROVE  MatchAny(ps \cup qs) = MatchAny(ps) \cup MatchAny(qs)
BY DEF MatchAny

\* Standard excludes add what they match, directories or not.
LEMMA MoreIsExcluded ==
    ASSUME ExcludesAreDeep, NEW files, files \subseteq Files,
           NEW exclude, NEW more, more \subseteq ToSet(StandardExcludes)
    PROVE  Excluded(files, exclude \cup more) = Excluded(files, exclude) \cup Matched(files, more)
<1> DEFINE dirs == DirectoriesOf(files)
           under(ds) == files \cap UNION {Below[d] : d \in ds}
<1>1. \A ps : Excluded(files, ps) = Matched(files, ps) \cup under(Matched(dirs, ps))
  BY DEF Excluded
<1>2. dirs \subseteq DOMAIN Below
  BY WastePatternsAssumption DEF DirectoriesOf
<1>3. under(Matched(dirs, more)) \subseteq Matched(files, more)
  <2> SUFFICES ASSUME NEW d \in Matched(dirs, more), NEW f \in files \cap Below[d]
               PROVE  f \in MatchAny(more)
    BY DEF Matched
  <2>1. PICK q \in more : d \in Match(q)
    BY FilesMatchThemselves DEF Matched
  <2>2. PICK i \in DOMAIN StandardExcludes : q = StandardExcludes[i]
    BY StandardLists, SeqToSet
  <2>3. f \in Match(q)
    BY <1>2, <2>1, <2>2 DEF ExcludesAreDeep, Matched
  <2> QED BY <2>3, FilesMatchThemselves
<1>4. \A fs : Matched(fs, exclude \cup more) = Matched(fs, exclude) \cup Matched(fs, more)
  BY MatchUnion DEF Matched
<1>5. \A x, y : under(x \cup y) = under(x) \cup under(y)
  OBVIOUS
<1> HIDE DEF under, dirs
<1>6. Excluded(files, exclude \cup more)
          = (Matched(files, exclude) \cup Matched(files, more))
            \cup (under(Matched(dirs, exclude)) \cup under(Matched(dirs, more)))
  <2>1. Matched(dirs, exclude \cup more) = Matched(dirs, exclude) \cup Matched(dirs, more)
    BY <1>4
  <2>2. under(Matched(dirs, exclude) \cup Matched(dirs, more))
            = under(Matched(dirs, exclude)) \cup under(Matched(dirs, more))
    BY <1>5
  <2>3. Matched(files, exclude \cup more) = Matched(files, exclude) \cup Matched(files, more)
    BY <1>4
  <2> QED BY <1>1, <2>1, <2>2, <2>3
<1>7. Excluded(files, exclude) = Matched(files, exclude) \cup under(Matched(dirs, exclude))
  BY <1>1
<1> QED BY <1>3, <1>6, <1>7

\* The standard excludes suggested for a package that has excludes.
Enriched(p) ==
    InAButNotInB(StandardExcludes, ToSet(StandardIncludes) \cup CompileTimeIncludes(p),
                 Matched(Entries(p), ToSet(StandardExcludes)))

LEMMA ExcludeOnly ==
    ASSUME NEW p, IsPackage(p), p.include = None, p.exclude # None
    PROVE  LET more == Enriched(p)
           IN  /\ more.patterns \subseteq ToSet(StandardExcludes)
               /\ more.files = Matched(Entries(p), more.patterns)
               /\ Analyze(p).wasted = more.files
               /\ more.files = {} => Analyze(p).fix = NoFix
               /\ more.files # {} => Analyze(p).fix = [kind |-> "EnrichedExclude",
                                                       exclude |-> p.exclude \cup more.patterns]
<1> DEFINE more == Enriched(p)
           M == Matched(Entries(p), ToSet(StandardExcludes))
<1>1. more.patterns \subseteq ToSet(StandardExcludes) /\ more.files = Matched(M, more.patterns)
  BY ChosenPatterns, StandardLists DEF Enriched
<1>2. MatchAny(more.patterns) \subseteq MatchAny(ToSet(StandardExcludes))
  BY <1>1 DEF MatchAny
<1>3. more.files = Matched(Entries(p), more.patterns)
  BY <1>1, <1>2 DEF Matched
<1>4. more.files # {} => more.patterns # {}
  BY <1>3 DEF Matched, MatchAny
<1>5. Analyze(p) = EnrichExcludes(Entries(p), p.exclude, CompileTimeIncludes(p))
  BY DEF Analyze
<1>6. Analyze(p) = IF more.files = {} THEN Result(NoFix, {})
                   ELSE Result(IF more.patterns = {} THEN NoFix
                               ELSE [kind |-> "EnrichedExclude",
                                     exclude |-> p.exclude \cup more.patterns], more.files)
  BY <1>5 DEF EnrichExcludes, Enriched
<1>7. CASE more.files = {}
  BY <1>1, <1>3, <1>6, <1>7 DEF Result
<1>8. CASE more.files # {}
  BY <1>1, <1>3, <1>4, <1>6, <1>8 DEF Result
<1> QED BY <1>7, <1>8

\* Standard excludes are greedy as they are.
LEMMA StandardStrays ==
    ASSUME NEW more, more \subseteq ToSet(StandardExcludes)
    PROVE  Stray(more) \subseteq MatchAny(more)
<1> SUFFICES ASSUME NEW q \in more, NEW f \in Elsewhere[q] PROVE f \in MatchAny(more)
  BY DEF Stray
<1>1. PICK i \in DOMAIN StandardExcludes : q = StandardExcludes[i]
  BY StandardLists, SeqToSet
<1>2. f \in Matches[q]
  BY <1>1, WasteReportAssumption
<1>3. f \in Match(q)
  BY <1>1, <1>2, WastePatternsAssumption DEF Match
<1> QED BY <1>3, FilesMatchThemselves

LEMMA StrayUnion ==
    ASSUME NEW ps, NEW qs
    PROVE  Stray(ps \cup qs) = Stray(ps) \cup Stray(qs)
BY DEF Stray

LEMMA ExcludeOnlyRemoves ==
    ASSUME NoneIsApart, ExcludesAreDeep,
           NEW p, IsPackage(p), p.include = None, p.exclude # None
    PROVE  Removes(p, Analyze(p))
<1> DEFINE E == Entries(p)
           more == Enriched(p)
           fix == Analyze(p).fix
<1>1. /\ more.patterns \subseteq ToSet(StandardExcludes)
      /\ more.files = Matched(E, more.patterns)
      /\ Analyze(p).wasted = more.files
      /\ more.files = {} => fix = NoFix
      /\ more.files # {} => fix = [kind |-> "EnrichedExclude",
                                   exclude |-> p.exclude \cup more.patterns]
  BY ExcludeOnly
<1>2. CASE more.files = {}
  BY <1>1, <1>2 DEF Removes, Fixed, NoFix
<1>3. CASE more.files # {}
  <2>1. Fixed(p, fix) = [include |-> None, exclude |-> p.exclude \cup more.patterns,
                         negated |-> {}]
    <3> HIDE DEF more, fix
    <3>1. fix = [kind |-> "EnrichedExclude", exclude |-> p.exclude \cup more.patterns]
      BY <1>1, <1>3
    <3> QED BY <3>1 DEF Fixed
  <2>2. p.exclude \cup more.patterns # None
    BY <1>1, StandardLists DEF IsPackage, NoneIsApart
  <2>3. Excluded(E, p.exclude \cup more.patterns) = Excluded(E, p.exclude) \cup more.files
    <3>1. E \subseteq Files
      BY PackageType
    <3>2. more.patterns \subseteq ToSet(StandardExcludes)
      BY <1>1
    <3>3. Excluded(E, p.exclude \cup more.patterns)
              = Excluded(E, p.exclude) \cup Matched(E, more.patterns)
      <4> HIDE DEF E, more
      <4> QED BY <3>1, <3>2, MoreIsExcluded, Zenon
    <3> QED BY <1>1, <3>3
  <2>4. Manifest(p).include = None /\ Manifest(p).exclude = p.exclude
    BY DEF Manifest
  <2>5. \A f \in E : f \in Stray(p.exclude \cup more.patterns)
                       => f \in Stray(p.exclude) \/ f \in more.files
    <3> HIDE DEF E, more
    <3>1. Stray(more.patterns) \subseteq MatchAny(more.patterns)
      BY <1>1, StandardStrays
    <3>2. Stray(p.exclude \cup more.patterns) = Stray(p.exclude) \cup Stray(more.patterns)
      BY StrayUnion
    <3> QED BY <1>1, <3>1, <3>2 DEF Matched
  <2>6. Stray(p.exclude) \subseteq Stray(p.exclude \cup more.patterns)
    BY DEF Stray
  <2>7. \A f : f \in Selected(E, Fixed(p, fix)) \ Implicit
            <=> f \in Selected(E, Manifest(p)) \ Implicit /\ f \notin more.files
    <3> HIDE DEF E, more, fix
    <3>1. \A f : f \in Selected(E, Fixed(p, fix)) \ Implicit
              <=> /\ f \in E \ Implicit
                  /\ f \notin Excluded(E, p.exclude \cup more.patterns)
                                \cup Stray(p.exclude \cup more.patterns)
      <4>1. /\ Fixed(p, fix).include = None
            /\ Fixed(p, fix).exclude = p.exclude \cup more.patterns
        BY <2>1
      <4> QED BY <2>2, <4>1, SelectedFiles
    <3>2. \A f : f \in Selected(E, Manifest(p)) \ Implicit
              <=> f \in E \ Implicit /\ f \notin Excluded(E, p.exclude) \cup Stray(p.exclude)
      BY <2>4, SelectedFiles
    <3> QED BY <2>3, <2>5, <2>6, <3>1, <3>2
  <2> QED BY <1>1, <2>7, RemovesIf
<1> QED BY <1>2, <1>3

LEMMA NeitherRemoves ==
    ASSUME NoneIsApart, NEW p, IsPackage(p), p.include = None, p.exclude = None
    PROVE  Removes(p, Analyze(p))
<1> DEFINE E == Entries(p)
           build == IF HasBuildScript(p) THEN {Build(p)} ELSE {}
           compiled == CompileTimeIncludes(p) \cup build
           ps == StandardIncludes \o SetToSeq(compiled)
           all == ToSet(StandardIncludes) \cup compiled
           in == Matched(E, all)
           simple == SimplifyIncludes(ps, in)
           potential == PotentialNegatedIncludes(in, compiled \cap Open)
           np == potential.patterns
           fix == [kind |-> "NewInclude", include |-> simple, negated |-> {}]
<1>1. Analyze(p) = NewIncludes(E, compiled)
  BY DEF Analyze
<1>2. E \subseteq Files /\ compiled \subseteq Patterns
  BY PackageType DEF Patterns
<1>3. ps \in Seq(Patterns) /\ ToSet(ps) = all
  <2>1. SetToSeq(compiled) \in Seq(Patterns) /\ ToSet(SetToSeq(compiled)) = compiled
    BY <1>2, SetAsSeq
  <2> QED BY <2>1, StandardLists, ConcatenatedLists
<1>4. simple \subseteq all \cup in /\ in \ Implicit \subseteq MatchAny(simple)
  <2>1. in \subseteq Files /\ Matched(in, all) = in
    BY <1>2 DEF Matched
  <2> HIDE DEF in, all
  <2> QED BY <1>3, <2>1, SimplifiedIncludes
<1>5. \A f \in E : f \in MatchAny(simple) => f \in in
  <2> SUFFICES ASSUME NEW f \in E, NEW q \in simple, f \in Match(q) PROVE f \in in
    BY FilesMatchThemselves
  <2>1. CASE q \in all
    BY <2>1, FilesMatchThemselves DEF Matched
  <2>2. CASE q \in in
    BY <1>2, <2>2 DEF Matched, Match
  <2> HIDE DEF all, in, simple
  <2> QED BY <1>4, <2>1, <2>2
<1>6. potential.files = Matched(in, np)
  BY ChosenPatterns, StandardLists DEF PotentialNegatedIncludes
<1>7. simple # None
  <2>1. simple \subseteq Patterns
    BY <1>2, <1>4, StandardLists DEF Matched, Patterns
  <2> QED BY <2>1 DEF NoneIsApart
<1>8. in \subseteq E
  BY DEF Matched
<1>9. Analyze(p) = IF in = E /\ np = {} THEN Result(NoFix, {})
                   ELSE FixMerge(fix, potential, E \ in)
  BY <1>1 DEF NewIncludes
<1>10. \A f : f \in Selected(E, Manifest(p)) \ Implicit <=> f \in E \ Implicit
  <2>1. Manifest(p).include = None /\ Manifest(p).exclude = None
    BY DEF Manifest
  <2> HIDE DEF E
  <2> QED BY <2>1, SelectedFiles
<1> DEFINE fixed == Fixed(p, Analyze(p).fix)
<1> HIDE DEF E, in, simple, potential
<1>11. CASE in = E /\ np = {}
  BY <1>9, <1>11 DEF Removes, Fixed, NoFix, Result
<1>12. CASE ~(in = E /\ np = {}) /\ np = {}
  <2>1. Analyze(p) = Result(fix, E \ in)
    BY <1>9, <1>12 DEF FixMerge
  <2>2. fixed = [include |-> simple, exclude |-> None, negated |-> {}]
    BY <2>1 DEF Fixed, Result
  <2> HIDE DEF fixed
  <2>3. \A f : f \in Selected(E, fixed) \ Implicit <=>
                 f \in E \ Implicit /\ (f \in MatchAny(simple) \/ f \in Strays(fixed))
    BY <1>7, <2>2, IncludedFiles
  <2>4. Analyze(p).wasted = E \ in
    BY <2>1 DEF Result
  <2>5. \A f : LET kept == f \in Selected(E, Manifest(p)) \ Implicit /\ f \notin E \ in
                   next == f \in Selected(E, fixed) \ Implicit
               IN  (next => kept \/ f \in Strays(fixed)) /\ (kept => next)
    BY <1>4, <1>5, <1>8, <1>10, <2>3
  <2> QED BY <2>4, <2>5, RemovesIf DEF E, fixed
<1>13. CASE np # {}
  <2>1. Analyze(p) = Result([fix EXCEPT !.negated = np], (E \ in) \cup potential.files)
    BY <1>9, <1>13 DEF FixMerge
  <2>2. fixed = [include |-> simple, exclude |-> None, negated |-> np]
    BY <2>1 DEF Fixed, Result
  <2> HIDE DEF fixed
  <2>3. \A f : f \in Selected(E, fixed) \ Implicit <=>
                 /\ f \in E \ Implicit /\ f \notin MatchAny(np)
                 /\ f \in MatchAny(simple) \/ f \in Strays(fixed)
    <3>1. \A f : f \in Selected(E, fixed) \ Implicit <=>
                   f \in E \ Implicit /\ f \in Greedy(simple) \ Greedy(np)
      BY <1>7, <2>2, SelectedFiles
    <3>2. np \subseteq ToSet(StandardExcludes)
      BY ChosenPatterns, StandardLists DEF PotentialNegatedIncludes, potential
    <3>3. Greedy(np) = MatchAny(np)
      BY <3>2, StandardStrays DEF Greedy
    <3>4. Strays(fixed) = Stray(simple)
      BY <1>7, <2>2 DEF Strays
    <3> QED BY <3>1, <3>3, <3>4 DEF Greedy
  <2>4. Analyze(p).wasted = (E \ in) \cup Matched(in, np)
    BY <1>6, <2>1 DEF Result
  <2>5. \A f : f \in Matched(in, np) <=> f \in in /\ f \in MatchAny(np)
    BY DEF Matched
  <2>6. \A f : LET kept == f \in Selected(E, Manifest(p)) \ Implicit /\ f \notin Analyze(p).wasted
                   next == f \in Selected(E, fixed) \ Implicit
               IN  (next => kept \/ f \in Strays(fixed)) /\ (kept => next)
    BY <1>4, <1>5, <1>8, <1>10, <2>3, <2>4, <2>5
  <2> QED BY <2>6, RemovesIf DEF E, fixed
<1> QED BY <1>11, <1>12, <1>13

-----------------------------------------------------------------------------
(***************************************************************************)
(* The next version has fewer files, so fewer patterns are chosen for it.  *)
(***************************************************************************)
LEMMA FewerAreChosen ==
    ASSUME NEW ps, NEW b, NEW c, NEW files, NEW fewer, NEW i,
           c \subseteq b, c # {}, fewer \subseteq files, Chooses(ps, c, fewer, i)
    PROVE  Chooses(ps, b, files, i)
<1>1. \A j : Rest(ps, fewer, j) \subseteq Rest(ps, files, j)
  BY DEF Rest
<1>2. Taken(ps, fewer, i) \subseteq Taken(ps, files, i)
  BY <1>1 DEF Taken
<1>3. MatchAny(c) \subseteq MatchAny(b)
  BY DEF MatchAny
<1>4. Matched(Rest(ps, fewer, i), c) \subseteq Matched(Rest(ps, files, i), b)
  BY <1>1, <1>3 DEF Matched
<1>5. Matched(Rest(ps, fewer, i), c) # {}
  BY DEF Chooses
<1>6. Taken(ps, fewer, i) # {} /\ Rest(ps, fewer, i) # {}
  BY DEF Chooses
<1> QED BY <1>1, <1>2, <1>4, <1>5, <1>6 DEF Chooses

LEMMA FewerAreCompiled ==
    ASSUME NEW p, NEW q, q.files \subseteq p.files,
           q.lib = p.lib, q.bins = p.bins, q.build = p.build
    PROVE  CompileTimeIncludes(q) \subseteq CompileTimeIncludes(p)
<1>1. Build(q) = Build(p) /\ Lib(q) = Lib(p) /\ Bins(q) = Bins(p)
  BY DEF Build, Lib, Bins
<1>2. \A f : IncludedPathsOf(q, f) \subseteq IncludedPathsOf(p, f)
  BY DEF IncludedPathsOf
<1>3. \A f : IncludedPathsOf(q, f) \cup UnlessDefault(f)
                \subseteq IncludedPathsOf(p, f) \cup UnlessDefault(f)
  BY <1>2
<1>4. PathsInBuildScript(q) \subseteq PathsInBuildScript(p)
  BY <1>1, <1>2 DEF PathsInBuildScript
<1> QED BY <1>1, <1>3, <1>4 DEF CompileTimeIncludes

LEMMA EnrichedIsFinal ==
    ASSUME NoneIsApart, NEW p, IsPackage(p), p.include = None, p.exclude # None
    PROVE  IsFinal(p, Analyze(p).fix)
<1> DEFINE more == Enriched(p)
           fix == Analyze(p).fix
           exclude == p.exclude \cup more.patterns
           cargo == Fixed(p, fix)
           next == Republished(p, cargo)
<1>1. /\ more.patterns \subseteq ToSet(StandardExcludes)
      /\ more.files = {} => fix = NoFix
      /\ more.files # {} => fix = [kind |-> "EnrichedExclude", exclude |-> exclude]
  BY ExcludeOnly
<1>2. CASE more.files = {}
  BY <1>1, <1>2 DEF IsFinal, NoFix
<1>3. CASE more.files # {}
  <2>1. fix = [kind |-> "EnrichedExclude", exclude |-> exclude]
    BY <1>1, <1>3
  <2>2. cargo = [include |-> None, exclude |-> exclude, negated |-> {}]
    <3> HIDE DEF fix, exclude
    <3> QED BY <2>1 DEF Fixed
  <2>3. exclude \subseteq Patterns /\ exclude # None
    BY <1>1, StandardLists DEF IsPackage, NoneIsApart
  <2>4. /\ next.files = Selected(p.files, cargo)
        /\ next.include = None /\ next.exclude = exclude
        /\ next.lib = p.lib /\ next.bins = p.bins /\ next.build = p.build
    <3> HIDE DEF cargo, exclude
    <3> QED BY <2>2 DEF Republished
  <2>5. next.files \subseteq p.files
    <3> HIDE DEF cargo, next
    <3> QED BY <2>4 DEF Selected
  <2>6. IsPackage(next)
    <3> HIDE DEF next, exclude
    <3> QED BY <2>3, <2>4, <2>5 DEF IsPackage
  <2>7. \A f \in next.files : f \in Implicit \/ f \notin MatchAny(exclude)
    <3>1. \A f \in next.files : f \in Implicit \/ f \notin Excluded(p.files, exclude)
      <4>1. cargo.include = None /\ cargo.exclude = exclude
        BY <2>2
      <4> HIDE DEF cargo, next, exclude
      <4> QED BY <2>3, <2>4, <4>1 DEF Selected
    <3>2. \A f \in p.files : f \in MatchAny(exclude) => f \in Excluded(p.files, exclude)
      BY DEF Excluded, Matched
    <3> HIDE DEF next, exclude
    <3> QED BY <2>5, <3>1, <3>2
  <2> DEFINE b == ToSet(StandardIncludes) \cup CompileTimeIncludes(p)
             c == ToSet(StandardIncludes) \cup CompileTimeIncludes(next)
             M == Matched(Entries(p), ToSet(StandardExcludes))
             N == Matched(Entries(next), ToSet(StandardExcludes))
  <2>8. c \subseteq b /\ c # {} /\ N \subseteq M
    <3>1. CompileTimeIncludes(next) \subseteq CompileTimeIncludes(p)
      <4> HIDE DEF next
      <4> QED BY <2>4, <2>5, FewerAreCompiled
    <3>2. Entries(next) \subseteq Entries(p)
      <4> HIDE DEF next
      <4> QED BY <2>5 DEF Entries
    <3> HIDE DEF next
    <3> QED BY <3>1, <3>2, StandardLists DEF Matched
  <2>9. N \subseteq next.files
    BY DEF Matched, Entries
  <2>10. ASSUME NEW q \in Enriched(next).patterns PROVE FALSE
    <3>1. PICK i \in DOMAIN StandardExcludes :
               q = StandardExcludes[i] /\ Chooses(StandardExcludes, c, N, i)
      <4> HIDE DEF next
      <4> QED BY <2>10, ChosenPatterns, StandardLists DEF Enriched
    <3>2. Chooses(StandardExcludes, b, M, i)
      <4> HIDE DEF b, c, M, N
      <4> QED BY <2>8, <3>1, FewerAreChosen
    <3>3. q \in exclude
      BY <3>1, <3>2, ChosenPatterns, StandardLists DEF Enriched
    <3>4. PICK f \in N : f \in Match(q)
      <4> HIDE DEF N, c
      <4> QED BY <3>1 DEF Chooses, Taken, Rest
    <3>5. f \in Implicit
      <4> HIDE DEF N, exclude, next
      <4> QED BY <2>7, <2>9, <3>3, <3>4, FilesMatchThemselves
    <3>6. Match(q) = Matches[q] /\ Matches[q] \cap Implicit = {}
      BY <3>1, WastePatternsAssumption DEF Match
    <3> QED BY <3>4, <3>5, <3>6
  <2>11. Analyze(next).wasted = Matched(Entries(next), Enriched(next).patterns)
    <3> HIDE DEF next, exclude
    <3> QED BY <2>3, <2>4, <2>6, ExcludeOnly
  <2>12. Analyze(next).wasted = {}
    <3>1. Enriched(next).patterns = {}
      <4> HIDE DEF next
      <4> QED BY <2>10
    <3> HIDE DEF next
    <3> QED BY <2>11, <3>1, NothingNegated DEF Matched
  <2> QED BY <2>12 DEF IsFinal
<1> QED BY <1>2, <1>3

\* A list of includes is never called wasteful.
LEMMA IncludesAreLean ==
    ASSUME NEW p, p.include # None, p.exclude = None
    PROVE  Analyze(p).wasted = {}
<1>1. Analyze(p) = EnrichIncludes(Entries(p), p.include)
  BY DEF Analyze
<1> QED BY <1>1 DEF EnrichIncludes, Result

\* The other suggestions leave a list of includes and no excludes.
LEMMA IncludesAreSuggested ==
    ASSUME NoneIsApart, NEW p, IsPackage(p), p.include # None \/ p.exclude = None,
           Analyze(p).fix.kind # "None"
    PROVE  LET cargo == Fixed(p, Analyze(p).fix)
           IN  cargo.include # None /\ cargo.exclude = None
<1> DEFINE E == Entries(p)
           fix == Analyze(p).fix
<1>1. E \subseteq Files
  BY PackageType
<1>2. CASE p.include # None /\ p.exclude = None
  <2>1. Analyze(p) = EnrichIncludes(E, p.include)
    BY <1>2 DEF Analyze
  <2>2. fix = NoFix \/ fix = [kind |-> "ImprovedInclude", include |-> p.include \ Implicit]
    BY <2>1 DEF EnrichIncludes, Result
  <2>3. p.include \ Implicit # None
    BY <1>2 DEF IsPackage, NoneIsApart
  <2> HIDE DEF fix
  <2>4. fix = [kind |-> "ImprovedInclude", include |-> p.include \ Implicit]
    BY <2>2 DEF NoFix, fix
  <2>5. Fixed(p, fix) = [include |-> p.include \ Implicit, exclude |-> None, negated |-> {}]
    BY <2>4 DEF Fixed
  <2> QED BY <2>3, <2>5 DEF fix
<1>3. CASE p.include # None /\ p.exclude # None
  <2> DEFINE out == Excluded(E, p.exclude)
             new == IncorporateExcludes(out, E \ out, p.include)
  <2>1. Analyze(p) = ComputeIncludes(E, p.include, p.exclude)
    BY <1>3 DEF Analyze
  <2>2. \/ fix = [kind |-> "RemoveExclude"]
        \/ fix = NoFix
        \/ fix = [kind |-> "RemoveExcludeAndUseInclude", include |-> new.all]
    <3>1. CASE out = {}
      BY <2>1, <3>1 DEF ComputeIncludes, Result
    <3>2. CASE out # {} /\ new.added = {} /\ new.removed = {}
      BY <2>1, <3>2 DEF ComputeIncludes, Result
    <3>3. CASE out # {} /\ ~(new.added = {} /\ new.removed = {})
      <4>1. Analyze(p).fix = [kind |-> "RemoveExcludeAndUseInclude", include |-> new.all]
        BY <2>1, <3>3 DEF ComputeIncludes, Result
      <4> QED BY <4>1
    <3> QED BY <3>1, <3>2, <3>3
  <2>3. new.all \subseteq Patterns
    BY <1>1, <1>3 DEF IncorporateExcludes, Matched, Patterns, IsPackage
  <2>4. new.all # None
    BY <2>3 DEF NoneIsApart
  <2> HIDE DEF fix, new
  <2>5. CASE fix = [kind |-> "RemoveExclude"]
    <3>1. Fixed(p, fix) = [include |-> p.include, exclude |-> None, negated |-> {}]
      BY <2>5 DEF Fixed
    <3> QED BY <1>3, <3>1 DEF fix
  <2>6. CASE fix = NoFix
    BY <2>6 DEF NoFix, fix
  <2>7. CASE fix = [kind |-> "RemoveExcludeAndUseInclude", include |-> new.all]
    <3>1. Fixed(p, fix) = [include |-> new.all, exclude |-> None, negated |-> {}]
      BY <2>7 DEF Fixed
    <3> QED BY <2>4, <3>1 DEF fix
  <2> QED BY <2>2, <2>5, <2>6, <2>7
<1>4. CASE p.include = None /\ p.exclude = None
  <2> DEFINE build == IF HasBuildScript(p) THEN {Build(p)} ELSE {}
             compiled == CompileTimeIncludes(p) \cup build
             ps == StandardIncludes \o SetToSeq(compiled)
             in == Matched(E, ToSet(StandardIncludes) \cup compiled)
             simple == SimplifyIncludes(ps, in)
             potential == PotentialNegatedIncludes(in, compiled \cap Open)
  <2>1. Analyze(p) = NewIncludes(E, compiled)
    BY <1>4 DEF Analyze
  <2>2. PICK negated : fix = NoFix \/ fix = [kind |-> "NewInclude", include |-> simple,
                                             negated |-> negated]
    <3>1. Analyze(p) = IF in = E /\ potential.patterns = {} THEN Result(NoFix, {})
                       ELSE FixMerge([kind |-> "NewInclude", include |-> simple,
                                      negated |-> {}], potential, E \ in)
      BY <2>1 DEF NewIncludes
    <3> HIDE DEF in, E, simple, potential
    <3>2. CASE in = E /\ potential.patterns = {}
      BY <3>1, <3>2 DEF Result
    <3> DEFINE include == [kind |-> "NewInclude", include |-> simple, negated |-> {}]
    <3>3. CASE potential.patterns # {}
      <4>1. Analyze(p).fix = [include EXCEPT !.negated = potential.patterns]
        BY <3>1, <3>3 DEF Result, FixMerge
      <4> QED BY <4>1
    <3>4. CASE in # E /\ potential.patterns = {}
      <4>1. Analyze(p).fix = include
        BY <3>1, <3>4 DEF Result, FixMerge
      <4> QED BY <4>1
    <3> QED BY <3>2, <3>3, <3>4
  <2>3. compiled \subseteq Patterns
    BY PackageType DEF Patterns
  <2>4. ps \in Seq(Patterns) /\ ToSet(ps) \subseteq Patterns
    <3> HIDE DEF compiled
    <3>1. SetToSeq(compiled) \in Seq(Patterns) /\ ToSet(SetToSeq(compiled)) \subseteq Patterns
      BY <2>3, SetAsSeq
    <3> QED BY <3>1, StandardLists, ConcatenatedLists
  <2>5. simple \subseteq Patterns
    <3>1. in \subseteq Files
      BY <1>1 DEF Matched
    <3> HIDE DEF in, ps
    <3>2. simple \subseteq ToSet(ps) \cup in
      BY <2>4, <3>1, SimplifiedIncludes
    <3> QED BY <2>4, <3>1, <3>2 DEF Patterns
  <2> HIDE DEF simple, fix
  <2>6. simple # None
    BY <2>5 DEF NoneIsApart
  <2>7. fix = [kind |-> "NewInclude", include |-> simple, negated |-> negated]
    BY <2>2 DEF NoFix, fix
  <2>8. Fixed(p, fix) = [include |-> simple, exclude |-> None, negated |-> negated]
    BY <1>4, <2>7 DEF Fixed
  <2> QED BY <2>6, <2>8 DEF fix
<1> QED BY <1>2, <1>3, <1>4

LEMMA IncludesAreFinal ==
    ASSUME NoneIsApart, NEW p, IsPackage(p), p.include # None \/ p.exclude = None
    PROVE  IsFinal(p, Analyze(p).fix)
<1> DEFINE cargo == Fixed(p, Analyze(p).fix)
<1> SUFFICES ASSUME Analyze(p).fix.kind # "None"
             PROVE  Analyze(Republished(p, cargo)).wasted = {}
  BY DEF IsFinal
<1>1. cargo.include # None /\ cargo.exclude = None
  BY IncludesAreSuggested
<1> HIDE DEF cargo
<1>2. Republished(p, cargo).include # None /\ Republished(p, cargo).exclude = None
  BY <1>1 DEF Republished
<1> QED BY <1>2, IncludesAreLean

-----------------------------------------------------------------------------
(***************************************************************************)
(* Sums.  SumOver is a fold, so a function defined by recursion over the   *)
(* subsets of its set: that there is one, and that it does not depend on   *)
(* the order, is by the smallest set for which it would not be so.         *)
(***************************************************************************)
LEMMA SmallestOf ==
    ASSUME NEW S, IsFiniteSet(S), NEW T, T \subseteq SUBSET S, T # {}
    PROVE  \E s \in T : \A t \in T : t \subseteq s => t = s
<1>1. T \subseteq FiniteSubsetsOf(S)
  BY FS_Subset DEF FiniteSubsetsOf
<1>2. PICK s \in T : \A t \in T : <<t, s>> \notin StrictSubsetOrdering(S)
  BY <1>1, FS_StrictSubsetOrderingWellFounded, WFMin
<1> QED BY <1>2 DEF StrictSubsetOrdering

First(s) == CHOOSE x \in s : TRUE
Rem(s) == s \ {First(s)}
Summed(g, S, number) ==
    [s \in SUBSET S |-> IF s = {} THEN 0 ELSE g[Rem(s)] + number[First(s)]]

LEMMA FirstIsIn ==
    ASSUME NEW s, s # {}
    PROVE  First(s) \in s /\ Rem(s) \subseteq s /\ Rem(s) # s
BY DEF First, Rem

LEMMA SumIsChosen ==
    ASSUME NEW S, NEW number
    PROVE  SumOver(S, number) = (CHOOSE g : g = Summed(g, S, number))[S]
BY DEF SumOver, FoldSet, MapThenFoldSet, Summed, First, Rem

LEMMA SummedIsUnique ==
    ASSUME NEW S, IsFiniteSet(S), NEW number, NEW g, g = Summed(g, S, number),
           NEW U, U \subseteq S, NEW h, h = Summed(h, U, number)
    PROVE  \A s \in SUBSET U : g[s] = h[s]
<1> DEFINE T == {s \in SUBSET U : g[s] # h[s]}
<1> SUFFICES ASSUME T # {} PROVE FALSE
  OBVIOUS
<1>1. PICK s \in T : \A t \in T : t \subseteq s => t = s
  <2> HIDE DEF T
  <2>1. T \subseteq SUBSET S
    BY DEF T
  <2> QED BY <2>1, SmallestOf
<1>2. /\ g[s] = IF s = {} THEN 0 ELSE g[Rem(s)] + number[First(s)]
      /\ h[s] = IF s = {} THEN 0 ELSE h[Rem(s)] + number[First(s)]
  <2>1. s \in SUBSET S /\ s \in SUBSET U
    BY <1>1
  <2> QED BY <2>1 DEF Summed
<1>3. s # {}
  BY <1>1, <1>2
<1>4. Rem(s) \in SUBSET U /\ Rem(s) \notin T
  BY <1>1, <1>3, FirstIsIn
<1> QED BY <1>1, <1>2, <1>3, <1>4

LEMMA SummedExists ==
    ASSUME NEW S, IsFiniteSet(S), NEW number
    PROVE  \E g : g = Summed(g, S, number)
<1> DEFINE Of(U) == CHOOSE g : g = Summed(g, U, number)
           T == {U \in SUBSET S : ~ \E g : g = Summed(g, U, number)}
<1> SUFFICES ASSUME T # {} PROVE FALSE
  OBVIOUS
<1>1. PICK U \in T : \A V \in T : V \subseteq U => V = U
  <2> HIDE DEF T
  <2>1. T \subseteq SUBSET S
    BY DEF T
  <2> QED BY <2>1, SmallestOf
<1>2. ASSUME NEW V, V \subseteq U, V # U
      PROVE  IsFiniteSet(V) /\ Of(V) = Summed(Of(V), V, number)
  <2>1. V \in SUBSET S /\ V \notin T
    BY <1>1, <1>2
  <2> QED BY <2>1, FS_Subset
<1> DEFINE g == [s \in SUBSET U |-> IF s = {} THEN 0 ELSE Of(Rem(s))[Rem(s)] + number[First(s)]]
<1> HIDE DEF Of
<1>3. ASSUME NEW s \in SUBSET U, s # {} PROVE g[Rem(s)] = Of(Rem(s))[Rem(s)]
  <2> DEFINE V == Rem(s)
  <2>1. V \subseteq U /\ V # U
    BY <1>3, FirstIsIn
  <2>2. Of(V) = Summed(Of(V), V, number) /\ IsFiniteSet(V)
    BY <1>2, <2>1
  <2>3. Of(V)[V] = IF V = {} THEN 0 ELSE Of(V)[Rem(V)] + number[First(V)]
    <3> HIDE DEF V
    <3>1. V \in SUBSET V
      OBVIOUS
    <3> QED BY <2>2, <3>1 DEF Summed
  <2>4. g[V] = IF V = {} THEN 0 ELSE Of(Rem(V))[Rem(V)] + number[First(V)]
    BY <2>1
  <2>5. CASE V = {}
    BY <2>3, <2>4, <2>5
  <2>6. CASE V # {}
    <3> HIDE DEF V
    <3>1. Rem(V) \subseteq V /\ Rem(V) # V /\ Rem(V) \subseteq U /\ Rem(V) # U
      BY <2>1, <2>6, FirstIsIn
    <3>2. Of(Rem(V)) = Summed(Of(Rem(V)), Rem(V), number)
      BY <1>2, <3>1
    <3>3. Of(V)[Rem(V)] = Of(Rem(V))[Rem(V)]
      <4>1. \A t \in SUBSET Rem(V) : Of(V)[t] = Of(Rem(V))[t]
        BY <2>2, <3>1, <3>2, SummedIsUnique
      <4> QED BY <4>1
    <3> QED BY <2>3, <2>4, <2>6, <3>3 DEF V
  <2> QED BY <2>5, <2>6
<1>4. g = Summed(g, U, number)
  <2>1. \A s \in SUBSET U : g[s] = IF s = {} THEN 0 ELSE g[Rem(s)] + number[First(s)]
    BY <1>3
  <2> QED BY <2>1 DEF Summed
<1> QED BY <1>1, <1>4

LEMMA SumStep ==
    ASSUME NEW S, IsFiniteSet(S), NEW number
    PROVE  /\ SumOver({}, number) = 0
           /\ S # {} => SumOver(S, number) = SumOver(Rem(S), number) + number[First(S)]
<1> DEFINE Of(U) == CHOOSE g : g = Summed(g, U, number)
<1>1. ASSUME NEW U, U \subseteq S
      PROVE  /\ IsFiniteSet(U) /\ Of(U) = Summed(Of(U), U, number)
             /\ SumOver(U, number) = Of(U)[U]
  <2>1. IsFiniteSet(U)
    BY FS_Subset, <1>1
  <2>2. Of(U) = Summed(Of(U), U, number)
    BY <2>1, SummedExists
  <2> QED BY <2>1, <2>2, SumIsChosen
<1> HIDE DEF Of
<1>2. ASSUME NEW U, U \subseteq S
      PROVE  SumOver(U, number) = IF U = {} THEN 0 ELSE Of(U)[Rem(U)] + number[First(U)]
  <2>1. U \in SUBSET U
    OBVIOUS
  <2> QED BY <1>1, <1>2, <2>1 DEF Summed
<1>3. SumOver({}, number) = 0
  BY <1>2
<1>4. ASSUME S # {} PROVE Of(S)[Rem(S)] = SumOver(Rem(S), number)
  <2>1. Rem(S) \subseteq S
    BY <1>4, FirstIsIn
  <2>2. \A t \in SUBSET Rem(S) : Of(S)[t] = Of(Rem(S))[t]
    BY <1>1, <2>1, SummedIsUnique
  <2> QED BY <1>1, <2>1, <2>2
<1> QED BY <1>2, <1>3, <1>4

LEMMA SumType ==
    ASSUME NEW S, IsFiniteSet(S), NEW number, \A x \in S : number[x] \in Nat
    PROVE  SumOver(S, number) \in Nat
<1> DEFINE T == {s \in SUBSET S : SumOver(s, number) \notin Nat}
<1> SUFFICES ASSUME T # {} PROVE FALSE
  BY Zenon
<1>1. PICK s \in T : \A t \in T : t \subseteq s => t = s
  <2>1. T \subseteq SUBSET S
    OBVIOUS
  <2> HIDE DEF T
  <2> QED BY <2>1, SmallestOf
<1>2. IsFiniteSet(s)
  BY FS_Subset
<1>3. CASE s = {}
  BY <1>2, <1>3, SumStep
<1>4. CASE s # {}
  <2>1. Rem(s) \in SUBSET S /\ Rem(s) \notin T /\ First(s) \in S
    BY <1>1, <1>4, FirstIsIn
  <2>2. SumOver(Rem(s), number) \in Nat
    BY <2>1
  <2> QED BY <1>2, <1>4, <2>1, <2>2, SumStep
<1> QED BY <1>3, <1>4

\* The sum does not depend on which element is taken out of the set first.
LEMMA SumWithout ==
    ASSUME NEW S, IsFiniteSet(S), NEW number, \A x \in S : number[x] \in Nat
    PROVE  \A x \in S : SumOver(S, number) = SumOver(S \ {x}, number) + number[x]
<1> DEFINE P(s, x) == SumOver(s, number) = SumOver(s \ {x}, number) + number[x]
           T == {s \in SUBSET S : ~ \A x \in s : P(s, x)}
<1> SUFFICES ASSUME T # {} PROVE FALSE
  BY Zenon
<1>1. PICK s \in T : \A t \in T : t \subseteq s => t = s
  <2>1. T \subseteq SUBSET S
    OBVIOUS
  <2> HIDE DEF T
  <2> QED BY <2>1, SmallestOf
<1>2. PICK x \in s : ~P(s, x)
  OBVIOUS
<1> DEFINE y == First(s)
<1>3. y \in s /\ SumOver(s, number) = SumOver(s \ {y}, number) + number[y]
  <2>1. IsFiniteSet(s)
    BY FS_Subset
  <2> QED BY <2>1, FirstIsIn, SumStep DEF Rem
<1> HIDE DEF y
<1>4. x # y
  BY <1>2, <1>3
<1>5. \A t \in SUBSET s : t # s => \A z \in t : P(t, z)
  <2> SUFFICES ASSUME NEW t \in SUBSET s, t # s PROVE \A z \in t : P(t, z)
    BY Zenon
  <2>1. t \in SUBSET S /\ t \notin T
    BY <1>1
  <2> QED BY <2>1, Zenon
<1>6. SumOver(s \ {y}, number) = SumOver((s \ {y}) \ {x}, number) + number[x]
  <2>1. s \ {y} \in SUBSET s /\ s \ {y} # s /\ x \in s \ {y}
    BY <1>3, <1>4
  <2> HIDE DEF T
  <2> QED BY <1>5, <2>1, Zenon
<1>7. SumOver(s \ {x}, number) = SumOver((s \ {x}) \ {y}, number) + number[y]
  <2>1. s \ {x} \in SUBSET s /\ s \ {x} # s /\ y \in s \ {x}
    BY <1>3, <1>4
  <2> HIDE DEF T
  <2> QED BY <1>5, <2>1, Zenon
<1>8. (s \ {x}) \ {y} = (s \ {y}) \ {x}
  OBVIOUS
<1>9. SumOver((s \ {y}) \ {x}, number) \in Nat /\ number[x] \in Nat /\ number[y] \in Nat
  <2>1. IsFiniteSet((s \ {y}) \ {x}) /\ \A z \in (s \ {y}) \ {x} : number[z] \in Nat
    BY FS_Subset
  <2> QED BY <1>3, <2>1, SumType
<1>10. SumOver(s, number) = SumOver(s \ {x}, number) + number[x]
  <2> HIDE DEF T
  <2> DEFINE m == SumOver((s \ {y}) \ {x}, number)
  <2>1. SumOver(s \ {x}, number) = m + number[y] /\ SumOver(s \ {y}, number) = m + number[x]
    BY <1>6, <1>7, <1>8
  <2>2. m \in Nat
    BY <1>9
  <2> HIDE DEF m
  <2> QED BY <1>3, <1>9, <2>1, <2>2
<1> QED BY <1>2, <1>10

LEMMA SumUnion ==
    ASSUME NEW S, IsFiniteSet(S), NEW R, IsFiniteSet(R), S \cap R = {},
           NEW number, \A x \in S \cup R : number[x] \in Nat
    PROVE  SumOver(S \cup R, number) = SumOver(S, number) + SumOver(R, number)
<1> DEFINE P(s) == SumOver(S \cup s, number) = SumOver(S, number) + SumOver(s, number)
           T == {s \in SUBSET R : ~P(s)}
<1> SUFFICES ASSUME T # {} PROVE FALSE
  BY Zenon
<1>1. PICK s \in T : \A t \in T : t \subseteq s => t = s
  <2>1. T \subseteq SUBSET R
    OBVIOUS
  <2> HIDE DEF T
  <2> QED BY <2>1, SmallestOf
<1>2. IsFiniteSet(s) /\ IsFiniteSet(S \cup s)
  BY FS_Subset, FS_Union
<1>3. SumOver(S, number) \in Nat
  BY SumType
<1>4. CASE s = {}
  <2>1. S \cup s = S /\ SumOver(s, number) = 0
    BY <1>2, <1>4, SumStep
  <2> QED BY <1>3, <2>1
<1>5. CASE s # {}
  <2>1. PICK x \in s : TRUE
    BY <1>5
  <2>2. s \ {x} \in SUBSET R /\ s \ {x} \notin T
    BY <1>1
  <2>3. P(s \ {x})
    BY <2>2, Zenon
  <2>4. (S \cup s) \ {x} = S \cup (s \ {x})
    OBVIOUS
  <2>5. SumOver(S \cup s, number) = SumOver((S \cup s) \ {x}, number) + number[x]
    BY <1>2, SumWithout
  <2>6. SumOver(s, number) = SumOver(s \ {x}, number) + number[x]
    BY <1>2, SumWithout
  <2>7. SumOver(s \ {x}, number) \in Nat /\ number[x] \in Nat
    <3>1. IsFiniteSet(s \ {x}) /\ \A z \in s \ {x} : number[z] \in Nat
      BY <1>2, FS_Subset
    <3> QED BY <3>1, SumType
  <2>8. P(s)
    <3> HIDE DEF T
    <3> DEFINE m == SumOver(s \ {x}, number)
    <3>1. SumOver(S \cup s, number) = (SumOver(S, number) + m) + number[x]
      BY <2>3, <2>4, <2>5
    <3>2. SumOver(s, number) = m + number[x] /\ m \in Nat /\ number[x] \in Nat
      BY <2>6, <2>7
    <3> HIDE DEF m
    <3> QED BY <1>3, <3>1, <3>2
  <2> QED BY <2>8
<1> QED BY <1>4, <1>5

LEMMA SumOne ==
    ASSUME NEW x, NEW number, number[x] \in Nat
    PROVE  SumOver({x}, number) = number[x]
<1>1. IsFiniteSet({x}) /\ {x} \ {x} = {}
  BY FS_Singleton
<1>2. SumOver({x}, number) = SumOver({x} \ {x}, number) + number[x]
  BY <1>1, SumWithout
<1>3. SumOver({}, number) = 0
  BY <1>1, SumStep
<1> QED BY <1>1, <1>2, <1>3

\* The same numbers have the same sum, under other names too.
LEMMA SumRenamed ==
    ASSUME NEW S, IsFiniteSet(S), NEW name, NEW number, NEW other,
           \A x \in S, y \in S : name[x] = name[y] => x = y,
           \A x \in S : number[x] \in Nat /\ other[name[x]] = number[x]
    PROVE  SumOver({name[x] : x \in S}, other) = SumOver(S, number)
<1> DEFINE N(s) == {name[x] : x \in s}
           T == {s \in SUBSET S : SumOver(N(s), other) # SumOver(s, number)}
<1> SUFFICES ASSUME T # {} PROVE FALSE
  BY Zenon
<1>1. PICK s \in T : \A t \in T : t \subseteq s => t = s
  <2>1. T \subseteq SUBSET S
    OBVIOUS
  <2> HIDE DEF T
  <2> QED BY <2>1, SmallestOf
<1>2. IsFiniteSet(s) /\ IsFiniteSet(N(s))
  <2>1. IsFiniteSet(s)
    BY FS_Subset
  <2>2. [x \in s |-> name[x]] \in Surjection(s, N(s))
    BY DEF Surjection
  <2> QED BY <2>1, <2>2, FS_Surjection
<1>3. CASE s = {}
  <2>1. N(s) = {}
    BY <1>3
  <2>2. SumOver({}, other) = 0 /\ SumOver({}, number) = 0
    BY <1>2, SumStep
  <2> QED BY <1>3, <2>1, <2>2
<1>4. CASE s # {}
  <2>1. PICK x \in s : TRUE
    BY <1>4
  <2>2. s \ {x} \in SUBSET S /\ s \ {x} \notin T
    BY <1>1
  <2>3. SumOver(N(s \ {x}), other) = SumOver(s \ {x}, number)
    BY <2>2
  <2>4. N(s) \ {name[x]} = N(s \ {x}) /\ name[x] \in N(s)
    OBVIOUS
  <2>5. \A n \in N(s) : other[n] \in Nat
    OBVIOUS
  <2>6. SumOver(s, number) = SumOver(s \ {x}, number) + number[x]
    BY <1>2, SumWithout
  <2>7. SumOver(N(s), other) = SumOver(N(s) \ {name[x]}, other) + other[name[x]]
    <3> HIDE DEF N
    <3> QED BY <1>2, <2>4, <2>5, SumWithout
  <2>8. other[name[x]] = number[x]
    OBVIOUS
  <2> HIDE DEF N
  <2> QED BY <2>3, <2>4, <2>6, <2>7, <2>8 DEF T
<1> QED BY <1>3, <1>4

LEMMA SumSame ==
    ASSUME NEW S, IsFiniteSet(S), NEW number, NEW other,
           \A x \in S : number[x] \in Nat /\ other[x] = number[x]
    PROVE  SumOver(S, other) = SumOver(S, number)
<1> DEFINE name == [x \in S |-> x]
<1>1. {name[x] : x \in S} = S
  OBVIOUS
<1>2. /\ \A x \in S, y \in S : name[x] = name[y] => x = y
      /\ \A x \in S : number[x] \in Nat /\ other[name[x]] = number[x]
  OBVIOUS
<1> HIDE DEF name
<1>3. SumOver({name[x] : x \in S}, other) = SumOver(S, number)
  BY <1>2, SumRenamed
<1> QED BY <1>1, <1>3

LEMMA SumOfZeros ==
    ASSUME NEW S, IsFiniteSet(S), NEW number, \A x \in S : number[x] = 0
    PROVE  SumOver(S, number) = 0
<1> DEFINE T == {s \in SUBSET S : SumOver(s, number) # 0}
<1> SUFFICES ASSUME T # {} PROVE FALSE
  BY Zenon
<1>1. PICK s \in T : \A t \in T : t \subseteq s => t = s
  <2>1. T \subseteq SUBSET S
    OBVIOUS
  <2> HIDE DEF T
  <2> QED BY <2>1, SmallestOf
<1>2. IsFiniteSet(s)
  BY FS_Subset
<1>3. CASE s = {}
  BY <1>2, <1>3, SumStep
<1>4. CASE s # {}
  <2>1. Rem(s) \in SUBSET S /\ Rem(s) \notin T /\ First(s) \in S
    BY <1>1, <1>4, FirstIsIn
  <2>2. SumOver(Rem(s), number) = 0
    BY <2>1
  <2> QED BY <1>2, <1>4, <2>1, <2>2, SumStep
<1> QED BY <1>3, <1>4

-----------------------------------------------------------------------------
(***************************************************************************)
(* Totals: the sums of the bytes and of the files of infos.                *)
(***************************************************************************)
LEMMA InfoType ==
    /\ \A files \in SUBSET Files : Info(files) \in Infos
    /\ Info({}) = Nothing
    /\ \A a \in Infos, b \in Infos : Plus(a, b) \in Infos
    /\ \A a \in Infos : Plus(Nothing, a) = a /\ Plus(a, Nothing) = a
    /\ Nothing \in Infos
    /\ None \notin Infos
<1>1. ASSUME NEW files \in SUBSET Files PROVE Info(files) \in Infos
  <2>1. IsFiniteSet(Files)
    BY WastePatternsAssumption, FS_Subset DEF Patterns
  <2>2. IsFiniteSet(files) /\ Cardinality(files) \in Nat
    BY <2>1, FS_Subset, FS_CardinalityType
  <2>3. SumOver(files, Size) \in Nat
    BY <2>2, SumType, WasteReportAssumption
  <2> QED BY <2>2, <2>3 DEF Info, Infos
<1>2. Info({}) = Nothing
  BY FS_EmptySet, SumStep DEF Info, Nothing
<1>3. /\ \A a \in Infos, b \in Infos : Plus(a, b) \in Infos
      /\ \A a \in Infos : Plus(Nothing, a) = a /\ Plus(a, Nothing) = a
      /\ Nothing \in Infos
  BY DEF Infos, Plus, Nothing
<1> QED BY <1>1, <1>2, <1>3, WasteReportAssumption

LEMMA TotalUnion ==
    ASSUME NEW S, IsFiniteSet(S), NEW R, IsFiniteSet(R), S \cap R = {},
           NEW infos \in [S \cup R -> Infos]
    PROVE  Total(infos) = Plus(Total([x \in S |-> infos[x]]), Total([x \in R |-> infos[x]]))
<1> DEFINE bytes(s) == [x \in s |-> infos[x].bytes]
           files(s) == [x \in s |-> infos[x].files]
           here(s) == [x \in s |-> infos[x]]
<1>1. \A s \in SUBSET (S \cup R) :
         Total(here(s)) = [bytes |-> SumOver(s, bytes(s)), files |-> SumOver(s, files(s))]
  <2> SUFFICES ASSUME NEW s \in SUBSET (S \cup R)
               PROVE  Total(here(s)) = [bytes |-> SumOver(s, bytes(s)),
                                        files |-> SumOver(s, files(s))]
    BY Zenon
  <2>1. DOMAIN here(s) = s
    OBVIOUS
  <2>2. /\ [x \in DOMAIN here(s) |-> here(s)[x].bytes] = bytes(s)
        /\ [x \in DOMAIN here(s) |-> here(s)[x].files] = files(s)
    OBVIOUS
  <2> QED BY <2>1, <2>2, Zenon DEF Total
<1>2. here(S \cup R) = infos
  OBVIOUS
<1>3. \A x \in S \cup R : infos[x].bytes \in Nat /\ infos[x].files \in Nat
  BY DEF Infos
<1> DEFINE b == bytes(S \cup R)
           f == files(S \cup R)
<1>4. \A x \in S \cup R : b[x] \in Nat /\ f[x] \in Nat
  BY <1>3
<1>5. \A s \in SUBSET (S \cup R) : \A x \in s : bytes(s)[x] = b[x] /\ files(s)[x] = f[x]
  OBVIOUS
<1> HIDE DEF bytes, files, here, b, f
<1>6. SumOver(S \cup R, b) = SumOver(S, b) + SumOver(R, b)
  BY <1>4, SumUnion
<1>7. SumOver(S \cup R, f) = SumOver(S, f) + SumOver(R, f)
  BY <1>4, SumUnion
<1>8. /\ SumOver(S, bytes(S)) = SumOver(S, b) /\ SumOver(R, bytes(R)) = SumOver(R, b)
      /\ SumOver(S, files(S)) = SumOver(S, f) /\ SumOver(R, files(R)) = SumOver(R, f)
  BY <1>4, <1>5, SumSame
<1>9. Total(infos) = [bytes |-> SumOver(S \cup R, b), files |-> SumOver(S \cup R, f)]
  BY <1>1, <1>2 DEF b, f
<1>10. /\ Total(here(S)) = [bytes |-> SumOver(S, b), files |-> SumOver(S, f)]
       /\ Total(here(R)) = [bytes |-> SumOver(R, b), files |-> SumOver(R, f)]
  BY <1>1, <1>8
<1>11. Total(infos) = Plus(Total(here(S)), Total(here(R)))
  BY <1>6, <1>7, <1>9, <1>10 DEF Plus
<1> QED BY <1>11 DEF here

LEMMA TotalType ==
    ASSUME NEW S, IsFiniteSet(S), NEW infos \in [S -> Infos]
    PROVE  Total(infos) \in Infos
<1> DEFINE bytes == [x \in S |-> infos[x].bytes]
           files == [x \in S |-> infos[x].files]
<1>1. \A x \in S : bytes[x] \in Nat /\ files[x] \in Nat
  BY DEF Infos
<1>2. SumOver(S, bytes) \in Nat /\ SumOver(S, files) \in Nat
  <2> HIDE DEF bytes, files
  <2> QED BY <1>1, SumType
<1>3. Total(infos) = [bytes |-> SumOver(S, bytes), files |-> SumOver(S, files)]
  BY DEF Total
<1> QED BY <1>2, <1>3 DEF Infos

LEMMA TotalOne ==
    ASSUME NEW v, NEW infos \in [{v} -> Infos]
    PROVE  Total(infos) = infos[v]
<1> DEFINE bytes == [x \in {v} |-> infos[x].bytes]
           files == [x \in {v} |-> infos[x].files]
<1>1. bytes[v] = infos[v].bytes /\ files[v] = infos[v].files
  OBVIOUS
<1>2. infos[v].bytes \in Nat /\ infos[v].files \in Nat
  BY DEF Infos
<1>3. SumOver({v}, bytes) = infos[v].bytes /\ SumOver({v}, files) = infos[v].files
  <2> HIDE DEF bytes, files
  <2> QED BY <1>1, <1>2, SumOne
<1>4. Total(infos) = [bytes |-> infos[v].bytes, files |-> infos[v].files]
  BY <1>3 DEF Total
<1> QED BY <1>4 DEF Infos

LEMMA TotalNothing ==
    ASSUME NEW S, IsFiniteSet(S), NEW infos \in [S -> {Nothing}]
    PROVE  Total(infos) = Nothing
<1> DEFINE bytes == [x \in S |-> infos[x].bytes]
           files == [x \in S |-> infos[x].files]
<1>1. \A x \in S : bytes[x] = 0 /\ files[x] = 0
  BY DEF Nothing
<1>2. SumOver(S, bytes) = 0 /\ SumOver(S, files) = 0
  <2> HIDE DEF bytes, files
  <2> QED BY <1>1, SumOfZeros
<1>3. Total(infos) = [bytes |-> SumOver(S, bytes), files |-> SumOver(S, files)]
  BY DEF Total
<1> QED BY <1>2, <1>3 DEF Nothing

LEMMA TotalRenamed ==
    ASSUME NEW S, IsFiniteSet(S), NEW infos \in [S -> Infos], NEW name, NEW R, NEW others,
           R = {name[x] : x \in S}, others \in [R -> Infos],
           \A x \in S, y \in S : name[x] = name[y] => x = y,
           \A x \in S : others[name[x]] = infos[x]
    PROVE  Total(others) = Total(infos)
<1> DEFINE bytes == [x \in S |-> infos[x].bytes]
           files == [x \in S |-> infos[x].files]
           otherBytes == [x \in R |-> others[x].bytes]
           otherFiles == [x \in R |-> others[x].files]
<1>1. \A x \in S : /\ bytes[x] \in Nat /\ otherBytes[name[x]] = bytes[x]
                   /\ files[x] \in Nat /\ otherFiles[name[x]] = files[x]
  BY DEF Infos
<1>2. Total(infos) = [bytes |-> SumOver(S, bytes), files |-> SumOver(S, files)]
  BY DEF Total
<1>3. Total(others) = [bytes |-> SumOver(R, otherBytes), files |-> SumOver(R, otherFiles)]
  BY DEF Total
<1> HIDE DEF bytes, files, otherBytes, otherFiles
<1>4. SumOver({name[x] : x \in S}, otherBytes) = SumOver(S, bytes)
  BY <1>1, SumRenamed
<1>5. SumOver({name[x] : x \in S}, otherFiles) = SumOver(S, files)
  BY <1>1, SumRenamed
<1> QED BY <1>2, <1>3, <1>4, <1>5

-----------------------------------------------------------------------------
(***************************************************************************)
(* The reports of versions, and what is said of a set of them.             *)
(***************************************************************************)
LEMMA AnalyzeType ==
    ASSUME NEW p, IsPackage(p)
    PROVE  /\ Analyze(p).wasted \in SUBSET Files
           /\ Analyze(p).gains = None \/ Analyze(p).gains \in SUBSET Files
<1> DEFINE E == Entries(p)
<1>1. E \subseteq Files
  BY WastePatternsAssumption DEF IsPackage, Entries
<1>2. \A a, b, files : InAButNotInB(a, b, files).files \subseteq files
  BY DEF InAButNotInB, Matched
<1> HIDE DEF E
<1>3. CASE p.include # None /\ p.exclude # None
  <2>1. Analyze(p) = ComputeIncludes(E, p.include, p.exclude)
    BY <1>3 DEF Analyze, E
  <2>2. Analyze(p).wasted = Excluded(E, p.exclude) /\ Analyze(p).gains = None
    BY <2>1 DEF ComputeIncludes, Result
  <2> QED BY <1>1, <2>2 DEF Excluded, Matched
<1>4. CASE p.include # None /\ p.exclude = None
  <2> DEFINE potential == PotentialNegatedIncludes(E, (p.include \ Implicit) \cap Open)
  <2>1. Analyze(p) = EnrichIncludes(E, p.include)
    BY <1>4 DEF Analyze, E
  <2>2. potential.files \subseteq Files
    BY <1>1, <1>2 DEF PotentialNegatedIncludes
  <2>3. /\ Analyze(p).wasted = {}
        /\ Analyze(p).gains = None \/ Analyze(p).gains = potential.files
    BY <2>1 DEF EnrichIncludes, Result
  <2> QED BY <2>2, <2>3
<1>5. CASE p.include = None /\ p.exclude # None
  <2> DEFINE more == Enriched(p)
  <2>1. Analyze(p) = EnrichExcludes(E, p.exclude, CompileTimeIncludes(p))
    BY <1>5 DEF Analyze, E
  <2>2. more.files \subseteq Files
    BY <1>1, <1>2 DEF Enriched, Matched, E
  <2>3. /\ Analyze(p).wasted = {} \/ Analyze(p).wasted = more.files
        /\ Analyze(p).gains = None
    <3>1. PICK fix : Analyze(p) = IF more.files = {} THEN Result(NoFix, {})
                                  ELSE Result(fix, more.files)
      BY <2>1 DEF EnrichExcludes, Enriched, E
    <3> HIDE DEF more
    <3> QED BY <3>1 DEF Result
  <2> QED BY <2>2, <2>3
<1>6. CASE p.include = None /\ p.exclude = None
  <2> DEFINE compiled == CompileTimeIncludes(p) \cup
                            (IF HasBuildScript(p) THEN {Build(p)} ELSE {})
             in == Matched(E, ToSet(StandardIncludes) \cup compiled)
             potential == PotentialNegatedIncludes(in, compiled \cap Open)
  <2>1. Analyze(p) = NewIncludes(E, compiled)
    BY <1>6 DEF Analyze, E
  <2>2. in \subseteq E /\ potential.files \subseteq in
    BY <1>2 DEF PotentialNegatedIncludes, Matched
  <2>3. /\ \/ Analyze(p).wasted = {} \/ Analyze(p).wasted = E \ in
           \/ Analyze(p).wasted = (E \ in) \cup potential.files
        /\ Analyze(p).gains = None
    <3>1. PICK fix : Analyze(p) = IF in = E /\ potential.patterns = {} THEN Result(NoFix, {})
                                  ELSE FixMerge(fix, potential, E \ in)
      BY <2>1 DEF NewIncludes
    <3> HIDE DEF in, potential
    <3>2. CASE potential.patterns = {}
      BY <3>1, <3>2 DEF FixMerge, Result
    <3>3. CASE potential.patterns # {}
      BY <3>1, <3>3 DEF FixMerge, Result
    <3> QED BY <3>2, <3>3
  <2> HIDE DEF in, potential
  <2> QED BY <1>1, <2>2, <2>3
<1> QED BY <1>3, <1>4, <1>5, <1>6

LEMMA PartType ==
    ASSUME package \in Inputs, NEW v \in DOMAIN package
    PROVE  /\ v \in Versions /\ v[2] \in Nat /\ v = <<v[1], v[2]>>
           /\ OfVersion(v).kind = "Version"
           /\ OfVersion(v).crate = v[1] /\ OfVersion(v).name = v[2]
           /\ OfVersion(v).total \in Infos
           /\ OfVersion(v).wasted \in SUBSET Files
           /\ OfVersion(v).gains \in Infos \cup {None}
<1>1. v \in Versions /\ IsPackage(package[v])
  BY WasteReportAssumption
<1>2. v[2] \in Nat /\ v = <<v[1], v[2]>>
  BY <1>1, WasteReportAssumption DEF Versions
<1>3. Entries(package[v]) \in SUBSET Files
  BY <1>1 DEF IsPackage, Entries
<1> DEFINE result == Analyze(package[v])
<1>4. result.wasted \in SUBSET Files /\ (result.gains = None \/ result.gains \in SUBSET Files)
  BY <1>1, AnalyzeType
<1> HIDE DEF result
<1>5. OfVersion(v) =
        [kind |-> "Version", crate |-> v[1], name |-> v[2],
         total |-> Info(Entries(package[v])), wasted |-> result.wasted,
         gains |-> IF result.gains = None THEN None ELSE Info(result.gains)]
  BY DEF OfVersion, result
<1>6. OfVersion(v).gains \in Infos \cup {None}
  BY <1>4, <1>5, InfoType
<1> QED BY <1>1, <1>2, <1>3, <1>4, <1>5, <1>6, InfoType

\* Versions of which there may be a report.
Known(of) == /\ package \in Inputs
             /\ of \subseteq DOMAIN package /\ IsFiniteSet(of) /\ of # {}

Wasted(e, of) == Total([v \in of |-> Info(WastedWith(e, v))])
Keys(of) == {Extension[f] : f \in UNION {OfVersion(v).wasted : v \in of}}

LEMMA ExtensionsAre ==
    ASSUME NEW of
    PROVE  ExtensionsOf(of) = [e \in Keys(of) |-> Wasted(e, of)]
BY DEF ExtensionsOf, Keys, Wasted

LEMMA ExtensionsUnion ==
    ASSUME NEW s, Known(s), NEW t, Known(t), s \cap t = {}
    PROVE  ExtensionsIntoMap(ExtensionsOf(s), ExtensionsOf(t)) = ExtensionsOf(s \cup t)
<1>1. \A e : \A v \in s \cup t : Info(WastedWith(e, v)) \in Infos
  <2> SUFFICES ASSUME NEW e, NEW v \in s \cup t PROVE Info(WastedWith(e, v)) \in Infos
    OBVIOUS
  <2>1. OfVersion(v).wasted \in SUBSET Files
    BY PartType DEF Known
  <2>2. WastedWith(e, v) \in SUBSET Files
    BY <2>1 DEF WastedWith
  <2> QED BY <2>2, InfoType
<1>2. \A e : Wasted(e, s) \in Infos /\ Wasted(e, t) \in Infos
  <2> SUFFICES ASSUME NEW e PROVE Wasted(e, s) \in Infos /\ Wasted(e, t) \in Infos
    OBVIOUS
  <2>1. /\ [v \in s |-> Info(WastedWith(e, v))] \in [s -> Infos]
        /\ [v \in t |-> Info(WastedWith(e, v))] \in [t -> Infos]
    BY <1>1
  <2> QED BY <2>1, TotalType DEF Wasted, Known
<1>3. \A e : Wasted(e, s \cup t) = Plus(Wasted(e, s), Wasted(e, t))
  <2> SUFFICES ASSUME NEW e PROVE Wasted(e, s \cup t) = Plus(Wasted(e, s), Wasted(e, t))
    OBVIOUS
  <2> DEFINE infos == [v \in s \cup t |-> Info(WastedWith(e, v))]
  <2>1. infos \in [s \cup t -> Infos]
    BY <1>1
  <2>2. /\ [v \in s |-> infos[v]] = [v \in s |-> Info(WastedWith(e, v))]
        /\ [v \in t |-> infos[v]] = [v \in t |-> Info(WastedWith(e, v))]
    OBVIOUS
  <2>3. Total(infos) = Plus(Total([v \in s |-> infos[v]]), Total([v \in t |-> infos[v]]))
    <3> HIDE DEF infos
    <3> QED BY <2>1, TotalUnion DEF Known
  <2> QED BY <2>2, <2>3 DEF Wasted
<1>4. ASSUME NEW of, of = s \/ of = t, NEW e, e \notin Keys(of)
      PROVE  Wasted(e, of) = Nothing
  <2>1. \A v \in of : WastedWith(e, v) = {}
    BY <1>4 DEF Keys, WastedWith
  <2>2. [v \in of |-> Info(WastedWith(e, v))] \in [of -> {Nothing}]
    BY <2>1, InfoType
  <2> QED BY <1>4, <2>2, TotalNothing DEF Wasted, Known
<1>5. Keys(s \cup t) = Keys(s) \cup Keys(t)
  BY DEF Keys
<1> DEFINE a == ExtensionsOf(s)
           b == ExtensionsOf(t)
<1>6. DOMAIN a = Keys(s) /\ DOMAIN b = Keys(t)
  BY ExtensionsAre
<1>7. ASSUME NEW k \in Keys(s) \cup Keys(t)
      PROVE  (IF k \notin DOMAIN b THEN a[k]
              ELSE Plus(IF k \in DOMAIN a THEN a[k] ELSE Nothing, b[k])) = Wasted(k, s \cup t)
  <2>1. k \in Keys(s) => a[k] = Wasted(k, s)
    BY ExtensionsAre
  <2>2. k \in Keys(t) => b[k] = Wasted(k, t)
    BY ExtensionsAre
  <2>3. Wasted(k, s \cup t) = Plus(Wasted(k, s), Wasted(k, t))
    BY <1>3
  <2>4. CASE k \notin Keys(t)
    <3>1. Wasted(k, t) = Nothing
      BY <1>4, <2>4
    <3> QED BY <1>2, <1>6, <1>7, <2>1, <2>3, <2>4, <3>1, InfoType
  <2>5. CASE k \in Keys(t) /\ k \notin Keys(s)
    <3>1. Wasted(k, s) = Nothing
      BY <1>4, <2>5
    <3> QED BY <1>6, <2>2, <2>3, <2>5, <3>1
  <2>6. CASE k \in Keys(t) /\ k \in Keys(s)
    BY <1>6, <2>1, <2>2, <2>3, <2>6
  <2> QED BY <2>4, <2>5, <2>6
<1> HIDE DEF a, b
<1>8. ExtensionsIntoMap(a, b) = [k \in Keys(s) \cup Keys(t) |-> Wasted(k, s \cup t)]
  BY <1>6, <1>7 DEF ExtensionsIntoMap
<1> QED BY <1>5, <1>8, ExtensionsAre DEF a, b

-----------------------------------------------------------------------------
(***************************************************************************)
(* What a collection says of a crate.                                      *)
(***************************************************************************)
IsLatest(v, of) == v \in of /\ \A w \in of : v[2] >= w[2]
Latest(of) == CHOOSE v \in of : \A w \in of : v[2] >= w[2]

LEMMA LatestExists ==
    ASSUME NEW of, Known(of)
    PROVE  IsLatest(Latest(of), of)
<1> DEFINE T == {s \in SUBSET of : s # {} /\ ~ \E v \in s : IsLatest(v, s)}
<1>1. \A v \in of : v[2] \in Nat
  BY PartType DEF Known
<1>2. ASSUME T # {} PROVE FALSE
  <2>1. PICK s \in T : \A t \in T : t \subseteq s => t = s
    <3>1. T \subseteq SUBSET of
      OBVIOUS
    <3> HIDE DEF T
    <3> QED BY <1>2, <3>1, SmallestOf DEF Known
  <2>2. PICK v \in s : TRUE
    OBVIOUS
  <2>3. CASE s = {v}
    BY <1>1, <2>3 DEF IsLatest
  <2>4. CASE s # {v}
    <3>1. PICK w \in s \ {v} : IsLatest(w, s \ {v})
      <4>1. s \ {v} \in SUBSET of /\ s \ {v} # {} /\ s \ {v} \notin T
        BY <2>1, <2>2, <2>4
      <4> QED BY <4>1
    <3>2. \A u \in s : u[2] \in Nat
      BY <1>1
    <3>3. \/ IsLatest(v, s) /\ v \in s
          \/ IsLatest(w, s) /\ w \in s
      <4> HIDE DEF T
      <4> QED BY <2>2, <3>1, <3>2 DEF IsLatest
    <3> QED BY <3>3
  <2> QED BY <2>3, <2>4
<1>3. of \in SUBSET of /\ of # {} /\ of \notin T
  BY <1>2 DEF Known
<1>4. \E v \in of : IsLatest(v, of)
  BY <1>3
<1> QED BY <1>4 DEF Latest, IsLatest

\* Of one crate there is one latest version.
LEMMA LatestIsOne ==
    ASSUME NEW of, Known(of), NEW c, \A v \in of : v[1] = c,
           NEW v, IsLatest(v, of)
    PROVE  v = Latest(of)
<1>1. IsLatest(Latest(of), of)
  BY LatestExists
<1> DEFINE w == Latest(of)
<1>2. v \in of /\ w \in of /\ v[2] >= w[2] /\ w[2] >= v[2]
  BY <1>1 DEF IsLatest
<1>3. v[2] \in Nat /\ w[2] \in Nat /\ v = <<v[1], v[2]>> /\ w = <<w[1], w[2]>>
  BY <1>2, PartType DEF Known
<1>4. v[2] = w[2] /\ v[1] = w[1]
  BY <1>2, <1>3
<1> QED BY <1>3, <1>4

Gaining(of) == {v \in of : OfVersion(v).gains # None}
Gains(of) == IF Gaining(of) = {} THEN None ELSE Total([v \in Gaining(of) |-> OfVersion(v).gains])
WasteOf(of) == Total([v \in of |-> Info(OfVersion(v).wasted)])
LatestOf(of) == [name |-> Latest(of)[2], waste |-> Info(OfVersion(Latest(of)).wasted)]

LEMMA CrateInfoIs ==
    ASSUME NEW of
    PROVE  CrateInfoOf(of) = [all |-> TotalOf(of), waste |-> WasteOf(of), gains |-> Gains(of),
                              latest |-> LatestOf(of)]
BY DEF CrateInfoOf, WasteOf, Gains, Gaining, LatestOf, Latest

LEMMA CrateInfoType ==
    ASSUME NEW of, Known(of)
    PROVE  /\ TotalOf(of) \in Infos /\ WasteOf(of) \in Infos
           /\ Gains(of) \in Infos \cup {None} /\ (Gains(of) = None <=> Gaining(of) = {})
           /\ LatestOf(of) # None /\ LatestOf(of).name \in Nat
<1>1. \A v \in of : /\ OfVersion(v).total \in Infos
                    /\ Info(OfVersion(v).wasted) \in Infos
  BY PartType, InfoType DEF Known
<1>2. [v \in of |-> OfVersion(v).total] \in [of -> Infos]
  BY <1>1
<1>3. [v \in of |-> Info(OfVersion(v).wasted)] \in [of -> Infos]
  BY <1>1
<1>4. TotalOf(of) \in Infos /\ WasteOf(of) \in Infos
  BY <1>2, <1>3, TotalType DEF TotalOf, WasteOf, Known
<1>5. [v \in Gaining(of) |-> OfVersion(v).gains] \in [Gaining(of) -> Infos]
  BY PartType DEF Gaining, Known
<1>6. IsFiniteSet(Gaining(of))
  <2>1. Gaining(of) \in SUBSET of
    BY DEF Gaining
  <2> QED BY <2>1, FS_Subset DEF Known
<1>7. Total([v \in Gaining(of) |-> OfVersion(v).gains]) \in Infos
  BY <1>5, <1>6, TotalType
<1>8. Latest(of) \in of /\ Latest(of)[2] \in Names /\ Names \subseteq Nat
  <2>1. Latest(of) \in of
    BY LatestExists DEF IsLatest
  <2>2. Latest(of) \in Versions
    BY <2>1, PartType DEF Known
  <2> QED BY <2>1, <2>2, WasteReportAssumption DEF Versions
<1>9. LatestOf(of) \in [name : Names, waste : Infos]
  BY <1>1, <1>8 DEF LatestOf
<1> QED BY <1>4, <1>7, <1>8, <1>9, InfoType, WasteReportAssumption DEF Gains, LatestOf

LEMMA TotalOfUnion ==
    ASSUME NEW s, Known(s), NEW t, Known(t), s \cap t = {}
    PROVE  TotalOf(s \cup t) = Plus(TotalOf(s), TotalOf(t))
<1> DEFINE infos == [v \in s \cup t |-> OfVersion(v).total]
<1>1. infos \in [s \cup t -> Infos]
  BY PartType DEF Known
<1>2. /\ [v \in s |-> infos[v]] = [v \in s |-> OfVersion(v).total]
      /\ [v \in t |-> infos[v]] = [v \in t |-> OfVersion(v).total]
  OBVIOUS
<1>3. Total(infos) = Plus(Total([v \in s |-> infos[v]]), Total([v \in t |-> infos[v]]))
  <2> HIDE DEF infos
  <2> QED BY <1>1, TotalUnion DEF Known
<1> QED BY <1>2, <1>3 DEF TotalOf

LEMMA WasteOfUnion ==
    ASSUME NEW s, Known(s), NEW t, Known(t), s \cap t = {}
    PROVE  WasteOf(s \cup t) = Plus(WasteOf(s), WasteOf(t))
<1> DEFINE infos == [v \in s \cup t |-> Info(OfVersion(v).wasted)]
<1>1. infos \in [s \cup t -> Infos]
  BY PartType, InfoType DEF Known
<1>2. /\ [v \in s |-> infos[v]] = [v \in s |-> Info(OfVersion(v).wasted)]
      /\ [v \in t |-> infos[v]] = [v \in t |-> Info(OfVersion(v).wasted)]
  OBVIOUS
<1>3. Total(infos) = Plus(Total([v \in s |-> infos[v]]), Total([v \in t |-> infos[v]]))
  <2> HIDE DEF infos
  <2> QED BY <1>1, TotalUnion DEF Known
<1> QED BY <1>2, <1>3 DEF WasteOf

LEMMA GainsOfUnion ==
    ASSUME NEW s, Known(s), NEW t, Known(t), s \cap t = {}
    PROVE  Gains(s \cup t) = AddOptional(Gains(s), Gains(t))
<1> DEFINE S == Gaining(s)
           R == Gaining(t)
           infos == [v \in S \cup R |-> OfVersion(v).gains]
<1>1. Gaining(s \cup t) = S \cup R
  BY DEF Gaining
<1>2. infos \in [S \cup R -> Infos]
  BY PartType DEF Gaining, Known
<1>3. IsFiniteSet(S) /\ IsFiniteSet(R) /\ S \cap R = {}
  <2>1. S \in SUBSET s /\ R \in SUBSET t
    BY DEF Gaining
  <2> QED BY <2>1, FS_Subset DEF Known
<1>4. /\ [v \in S |-> infos[v]] = [v \in S |-> OfVersion(v).gains]
      /\ [v \in R |-> infos[v]] = [v \in R |-> OfVersion(v).gains]
  OBVIOUS
<1>5. Total(infos) = Plus(Total([v \in S |-> infos[v]]), Total([v \in R |-> infos[v]]))
  <2> HIDE DEF infos, S, R
  <2> QED BY <1>2, <1>3, TotalUnion
<1>6. /\ Gains(s) = None <=> S = {}
      /\ Gains(t) = None <=> R = {}
  BY CrateInfoType
<1>7. CASE S = {}
  <2>1. S \cup R = R
    BY <1>7
  <2>2. Gains(s \cup t) = Gains(t)
    BY <1>1, <2>1 DEF Gains
  <2> QED BY <1>6, <1>7, <2>2 DEF AddOptional
<1>8. CASE R = {} /\ S # {}
  <2>1. S \cup R = S
    BY <1>8
  <2>2. Gains(s \cup t) = Gains(s)
    BY <1>1, <2>1 DEF Gains
  <2> QED BY <1>6, <1>8, <2>2 DEF AddOptional
<1>9. CASE S # {} /\ R # {}
  <2>1. Gains(s \cup t) = Total(infos)
    BY <1>1, <1>9 DEF Gains
  <2>2. Gains(s) = Total([v \in S |-> infos[v]]) /\ Gains(t) = Total([v \in R |-> infos[v]])
    BY <1>4, <1>9 DEF Gains
  <2> HIDE DEF infos
  <2> QED BY <1>5, <1>6, <1>9, <2>1, <2>2 DEF AddOptional
<1> QED BY <1>7, <1>8, <1>9

LEMMA LatestOfUnion ==
    ASSUME NEW s, Known(s), NEW t, Known(t), s \cap t = {},
           NEW c, \A v \in s \cup t : v[1] = c
    PROVE  LatestOf(s \cup t) = AddNamed(LatestOf(s), LatestOf(t))
<1> DEFINE a == Latest(s)
           b == Latest(t)
<1>1. Known(s \cup t)
  BY FS_Union DEF Known
<1>2. IsLatest(a, s) /\ IsLatest(b, t)
  BY LatestExists
<1>3. \A v \in s \cup t : v[2] \in Nat
  BY <1>1, PartType DEF Known
<1> HIDE DEF a, b
<1>4. CASE a[2] > b[2]
  <2>1. IsLatest(a, s \cup t)
    BY <1>2, <1>3, <1>4 DEF IsLatest
  <2>2. Latest(s \cup t) = a
    BY <1>1, <2>1, LatestIsOne
  <2> QED BY <1>4, <2>2, CrateInfoType DEF LatestOf, AddNamed, a, b
<1>5. CASE ~(a[2] > b[2])
  <2>1. IsLatest(b, s \cup t)
    BY <1>2, <1>3, <1>5 DEF IsLatest
  <2>2. Latest(s \cup t) = b
    BY <1>1, <2>1, LatestIsOne
  <2> QED BY <1>5, <2>2, CrateInfoType DEF LatestOf, AddNamed, a, b
<1> QED BY <1>4, <1>5

LEMMA CrateInfoUnion ==
    ASSUME NEW s, Known(s), NEW t, Known(t), s \cap t = {},
           NEW c, \A v \in s \cup t : v[1] = c
    PROVE  CrateInfoOf(s \cup t) = AddInfo(CrateInfoOf(s), CrateInfoOf(t))
BY CrateInfoIs, TotalOfUnion, WasteOfUnion, GainsOfUnion, LatestOfUnion DEF AddInfo

LEMMA CrateInfoOfNew ==
    ASSUME NEW of, Known(of)
    PROVE  AddInfo(DefaultInfo, CrateInfoOf(of)) = CrateInfoOf(of)
BY CrateInfoIs, CrateInfoType, InfoType DEF AddInfo, DefaultInfo, AddOptional, AddNamed

-----------------------------------------------------------------------------
(***************************************************************************)
(* Reports of a crate and of a collection.                                 *)
(***************************************************************************)

\* What the report of a crate has of its versions.
InfosOf(c, of) == [n \in {v[2] : v \in of} |-> InfoOf(OfVersion(<<c, n>>))]

LEMMA InfosOfCrate ==
    ASSUME NEW of, Known(of), NEW c, \A v \in of : v[1] = c
    PROVE  /\ DOMAIN InfosOf(c, of) = {v[2] : v \in of}
           /\ \A v \in of : v = <<c, v[2]>> /\ InfosOf(c, of)[v[2]] = InfoOf(OfVersion(v))
           /\ \A v \in of, w \in of : v[2] = w[2] => v = w
<1>1. \A v \in of : v = <<c, v[2]>>
  BY PartType DEF Known
<1> QED BY <1>1 DEF InfosOf

LEMMA CollectionInfoIs ==
    ASSUME NEW of, Known(of), NEW c, \A v \in of : v[1] = c
    PROVE  CollectionInfo(InfosOf(c, of)) = CrateInfoOf(of)
<1> DEFINE versions == InfosOf(c, of)
           names == {v[2] : v \in of}
           gaining == {n \in names : versions[n].gains # None}
           last == CHOOSE n \in names : \A m \in names : n >= m
           name == [v \in of |-> v[2]]
<1>1. /\ DOMAIN versions = names
      /\ \A v \in of : versions[v[2]] = InfoOf(OfVersion(v))
      /\ \A v \in of, w \in of : v[2] = w[2] => v = w
  BY InfosOfCrate
<1> HIDE DEF versions
<1>2. \A v \in of : /\ versions[v[2]].all = OfVersion(v).total
                    /\ versions[v[2]].waste = Info(OfVersion(v).wasted)
                    /\ versions[v[2]].gains = OfVersion(v).gains
  <2> SUFFICES ASSUME NEW v \in of
               PROVE  /\ versions[v[2]].all = OfVersion(v).total
                      /\ versions[v[2]].waste = Info(OfVersion(v).wasted)
                      /\ versions[v[2]].gains = OfVersion(v).gains
    BY Zenon
  <2>1. versions[v[2]] = InfoOf(OfVersion(v))
    BY <1>1, Zenon
  <2> QED BY <2>1 DEF InfoOf
<1>3. \A v \in of : /\ OfVersion(v).total \in Infos /\ Info(OfVersion(v).wasted) \in Infos
                    /\ OfVersion(v).gains \in Infos \cup {None} /\ v[2] \in Nat
  BY PartType, InfoType DEF Known
<1>4. IsFiniteSet(of) /\ IsFiniteSet(Gaining(of)) /\ Gaining(of) \subseteq of
  <2>1. Gaining(of) \in SUBSET of
    BY DEF Gaining
  <2> QED BY <2>1, FS_Subset DEF Known
<1>5. Total([n \in names |-> versions[n].all]) = TotalOf(of)
  <2> DEFINE infos == [v \in of |-> OfVersion(v).total]
             others == [n \in names |-> versions[n].all]
  <2>1. infos \in [of -> Infos] /\ others \in [names -> Infos]
    BY <1>2, <1>3
  <2>2. /\ names = {name[v] : v \in of}
        /\ \A v \in of, w \in of : name[v] = name[w] => v = w
        /\ \A v \in of : others[name[v]] = infos[v]
    BY <1>1, <1>2
  <2> HIDE DEF infos, others, names, name
  <2>3. Total(others) = Total(infos)
    BY <1>4, <2>1, <2>2, TotalRenamed
  <2> QED BY <2>3 DEF TotalOf, infos, others
<1>6. Total([n \in names |-> versions[n].waste]) = WasteOf(of)
  <2> DEFINE infos == [v \in of |-> Info(OfVersion(v).wasted)]
             others == [n \in names |-> versions[n].waste]
  <2>1. infos \in [of -> Infos] /\ others \in [names -> Infos]
    BY <1>2, <1>3
  <2>2. /\ names = {name[v] : v \in of}
        /\ \A v \in of, w \in of : name[v] = name[w] => v = w
        /\ \A v \in of : others[name[v]] = infos[v]
    BY <1>1, <1>2
  <2> HIDE DEF infos, others, names, name
  <2>3. Total(others) = Total(infos)
    BY <1>4, <2>1, <2>2, TotalRenamed
  <2> QED BY <2>3 DEF WasteOf, infos, others
<1>7. (IF gaining = {} THEN None ELSE Total([n \in gaining |-> versions[n].gains])) = Gains(of)
  <2> DEFINE infos == [v \in Gaining(of) |-> OfVersion(v).gains]
             others == [n \in gaining |-> versions[n].gains]
  <2>1. gaining = {name[v] : v \in Gaining(of)}
    BY <1>2 DEF Gaining
  <2>2. infos \in [Gaining(of) -> Infos] /\ others \in [gaining -> Infos]
    BY <1>2, <1>3 DEF Gaining
  <2>3. /\ \A v \in Gaining(of), w \in Gaining(of) : name[v] = name[w] => v = w
        /\ \A v \in Gaining(of) : others[name[v]] = infos[v]
    BY <1>1, <1>2, <1>4, <2>1
  <2>4. gaining = {} <=> Gaining(of) = {}
    BY <2>1
  <2> HIDE DEF infos, others, gaining, names, name
  <2>5. Total(others) = Total(infos)
    BY <1>4, <2>1, <2>2, <2>3, TotalRenamed
  <2> QED BY <2>4, <2>5 DEF Gains, infos, others
<1>8. last = Latest(of)[2] /\ versions[last].waste = Info(OfVersion(Latest(of)).wasted)
  <2>1. IsLatest(Latest(of), of)
    BY LatestExists
  <2>2. \E n \in names : \A m \in names : n >= m
    BY <2>1 DEF IsLatest
  <2>3. last \in names /\ \A m \in names : last >= m
    BY <2>2
  <2>4. PICK w \in of : w[2] = last
    BY <2>3
  <2>5. IsLatest(w, of)
    BY <2>3, <2>4 DEF IsLatest
  <2>6. w = Latest(of)
    BY <2>5, LatestIsOne
  <2> QED BY <1>2, <2>4, <2>6
<1>9. CollectionInfo(versions) =
         [all    |-> Total([n \in names |-> versions[n].all]),
          waste  |-> Total([n \in names |-> versions[n].waste]),
          gains  |-> IF gaining = {} THEN None ELSE Total([n \in gaining |-> versions[n].gains]),
          latest |-> [name |-> last, waste |-> versions[last].waste]]
  BY <1>1 DEF CollectionInfo
<1> HIDE DEF names, gaining, last
<1> QED BY <1>5, <1>6, <1>7, <1>8, <1>9, CrateInfoIs DEF versions, LatestOf

\* The versions of two disjoint parts of a crate.
LEMMA InfosUnion ==
    ASSUME NEW s, Known(s), NEW t, Known(t), s \cap t = {},
           NEW c, \A v \in s \cup t : v[1] = c
    PROVE  MapIntoMap(InfosOf(c, s), InfosOf(c, t)) = InfosOf(c, s \cup t)
<1> DEFINE a == InfosOf(c, s)
           b == InfosOf(c, t)
           names == {v[2] : v \in s \cup t}
<1>1. Known(s \cup t)
  BY FS_Union DEF Known
<1>2. /\ DOMAIN a = {v[2] : v \in s} /\ DOMAIN b = {v[2] : v \in t}
      /\ \A v \in s : a[v[2]] = InfoOf(OfVersion(v))
      /\ \A v \in t : b[v[2]] = InfoOf(OfVersion(v))
      /\ \A v \in s \cup t, w \in s \cup t : v[2] = w[2] => v = w
      /\ \A v \in s \cup t : v = <<c, v[2]>>
  BY <1>1, InfosOfCrate
<1>3. \A v \in t : AddInfo(DefaultInfo, InfoOf(OfVersion(v))) = InfoOf(OfVersion(v))
  <2> SUFFICES ASSUME NEW v \in t
               PROVE  AddInfo(DefaultInfo, InfoOf(OfVersion(v))) = InfoOf(OfVersion(v))
    OBVIOUS
  <2>1. /\ OfVersion(v).total \in Infos /\ Info(OfVersion(v).wasted) \in Infos
        /\ OfVersion(v).gains \in Infos \cup {None}
    BY PartType, InfoType DEF Known
  <2> QED BY <2>1, InfoType DEF AddInfo, DefaultInfo, InfoOf, AddOptional, AddNamed
<1>4. (DOMAIN a) \cup (DOMAIN b) = names /\ (DOMAIN a) \cap (DOMAIN b) = {}
  BY <1>2
<1> HIDE DEF a, b
<1>5. ASSUME NEW n \in names
      PROVE  (IF n \notin DOMAIN b THEN a[n]
              ELSE AddInfo(IF n \in DOMAIN a THEN a[n] ELSE DefaultInfo, b[n]))
                = InfoOf(OfVersion(<<c, n>>))
  <2>1. PICK v \in s \cup t : v[2] = n
    OBVIOUS
  <2>2. v = <<c, n>>
    BY <1>2, <2>1
  <2>3. CASE v \in s
    BY <1>2, <1>4, <2>1, <2>2, <2>3
  <2>4. CASE v \in t
    BY <1>2, <1>3, <1>4, <2>1, <2>2, <2>4
  <2> QED BY <2>3, <2>4
<1> HIDE DEF names
<1>6. MapIntoMap(a, b) = [n \in names |-> InfoOf(OfVersion(<<c, n>>))]
  BY <1>4, <1>5 DEF MapIntoMap
<1> QED BY <1>6 DEF a, b, names, InfosOf

\* What a collection has of its crates.
CratesOf(of) == [c \in {v[1] : v \in of} |-> CrateInfoOf(VersionsOf(c, of))]

LEMMA CratesUnion ==
    ASSUME NEW s, Known(s), NEW t, Known(t), s \cap t = {}
    PROVE  MapIntoMap(CratesOf(s), CratesOf(t)) = CratesOf(s \cup t)
<1> DEFINE a == CratesOf(s)
           b == CratesOf(t)
           crates == {v[1] : v \in s \cup t}
           as(c) == VersionsOf(c, s)
           bs(c) == VersionsOf(c, t)
<1>1. DOMAIN a = {v[1] : v \in s} /\ DOMAIN b = {v[1] : v \in t}
  BY DEF CratesOf
<1>2. (DOMAIN a) \cup (DOMAIN b) = crates
  BY <1>1
<1>3. /\ \A c \in DOMAIN a : a[c] = CrateInfoOf(as(c)) /\ Known(as(c))
      /\ \A c \in DOMAIN b : b[c] = CrateInfoOf(bs(c)) /\ Known(bs(c))
  <2>1. \A of, c : VersionsOf(c, of) \in SUBSET of
    BY DEF VersionsOf
  <2>2. \A c : IsFiniteSet(as(c)) /\ IsFiniteSet(bs(c))
    <3>1. \A c : as(c) \in SUBSET s /\ bs(c) \in SUBSET t
      BY <2>1
    <3> HIDE DEF as, bs
    <3> QED BY <3>1, FS_Subset DEF Known
  <2>3. \A of, c : c \in {v[1] : v \in of} => VersionsOf(c, of) # {}
    BY DEF VersionsOf
  <2> QED BY <1>1, <2>1, <2>2, <2>3 DEF CratesOf, Known
<1>4. \A c : /\ VersionsOf(c, s \cup t) = as(c) \cup bs(c) /\ as(c) \cap bs(c) = {}
             /\ c \notin DOMAIN a => as(c) = {}
             /\ c \notin DOMAIN b => bs(c) = {}
             /\ \A v \in as(c) \cup bs(c) : v[1] = c
  BY <1>1 DEF VersionsOf
<1> HIDE DEF a, b, as, bs
<1>5. ASSUME NEW c \in crates
      PROVE  (IF c \notin DOMAIN b THEN a[c]
              ELSE AddInfo(IF c \in DOMAIN a THEN a[c] ELSE DefaultInfo, b[c]))
                = CrateInfoOf(VersionsOf(c, s \cup t))
  <2>1. CASE c \notin DOMAIN b
    <3>1. VersionsOf(c, s \cup t) = as(c) /\ c \in DOMAIN a
      BY <1>2, <1>4, <2>1
    <3> QED BY <1>3, <2>1, <3>1
  <2>2. CASE c \in DOMAIN b /\ c \notin DOMAIN a
    <3>1. as(c) = {} /\ VersionsOf(c, s \cup t) = as(c) \cup bs(c)
      BY <1>4, <2>2, Zenon
    <3>2. VersionsOf(c, s \cup t) = bs(c)
      BY <3>1
    <3> QED BY <1>3, <2>2, <3>2, CrateInfoOfNew
  <2>3. CASE c \in DOMAIN b /\ c \in DOMAIN a
    <3>1. CrateInfoOf(as(c) \cup bs(c)) = AddInfo(CrateInfoOf(as(c)), CrateInfoOf(bs(c)))
      BY <1>3, <1>4, <2>3, CrateInfoUnion
    <3> QED BY <1>3, <1>4, <2>3, <3>1
  <2> QED BY <2>1, <2>2, <2>3
<1> HIDE DEF crates
<1>6. MapIntoMap(a, b) = [c \in crates |-> CrateInfoOf(VersionsOf(c, s \cup t))]
  BY <1>2, <1>5 DEF MapIntoMap
<1> QED BY <1>6 DEF a, b, crates, CratesOf

IsCrate(r, of) ==
    /\ r.kind = "Crate" /\ \A v \in of : v[1] = r.crate
    /\ r.total = TotalOf(of)
    /\ r.versions = InfosOf(r.crate, of)
    /\ r.extensions = ExtensionsOf(of)

IsCollection(r, of) ==
    /\ r.kind = "CrateCollection"
    /\ r.total = TotalOf(of)
    /\ r.crates = CratesOf(of)
    /\ r.extensions = ExtensionsOf(of)

LEMMA ReportIsOneOf ==
    ASSUME NEW r, NEW of
    PROVE  IsReportOf(r, of) <=> \/ r.kind = "Version" /\ \E v \in of : of = {v} /\ r = OfVersion(v)
                                 \/ IsCrate(r, of)
                                 \/ IsCollection(r, of)
BY Zenon DEF IsReportOf, IsCrate, IsCollection, InfosOf, CratesOf

\* What a version has by extension.
ByExtension(v) == [e \in {Extension[f] : f \in OfVersion(v).wasted} |->
                      Info({f \in OfVersion(v).wasted : Extension[f] = e})]

LEMMA OneVersion ==
    ASSUME NEW v, Known({v})
    PROVE  /\ TotalOf({v}) = OfVersion(v).total
           /\ InfosOf(v[1], {v}) = NewVersionMap(OfVersion(v))
           /\ ExtensionsOf({v}) = ByExtension(v)
           /\ \A e \in DOMAIN ByExtension(v) : ByExtension(v)[e] \in Infos
<1>1. /\ v = <<v[1], v[2]>> /\ OfVersion(v).name = v[2]
      /\ OfVersion(v).total \in Infos /\ OfVersion(v).wasted \in SUBSET Files
  BY PartType DEF Known
<1>2. TotalOf({v}) = OfVersion(v).total
  <2> DEFINE infos == [w \in {v} |-> OfVersion(w).total]
  <2>1. infos \in [{v} -> Infos] /\ infos[v] = OfVersion(v).total
    BY <1>1
  <2> HIDE DEF infos
  <2>2. Total(infos) = infos[v]
    BY <2>1, TotalOne
  <2> QED BY <2>1, <2>2 DEF TotalOf, infos
<1>3. InfosOf(v[1], {v}) = NewVersionMap(OfVersion(v))
  <2>1. InfosOf(v[1], {v}) = [n \in {v[2]} |-> InfoOf(OfVersion(v))]
    BY <1>1 DEF InfosOf
  <2>2. NewVersionMap(OfVersion(v)) = [n \in {v[2]} |-> InfoOf(OfVersion(v))]
    BY <1>1 DEF NewVersionMap, InfoOf
  <2> QED BY <2>1, <2>2
<1>4. \A e : WastedWith(e, v) \in SUBSET Files /\ Info(WastedWith(e, v)) \in Infos
  <2>1. \A e : WastedWith(e, v) \in SUBSET Files
    BY <1>1 DEF WastedWith
  <2> QED BY <2>1, InfoType
<1>5. \A e : Wasted(e, {v}) = Info(WastedWith(e, v))
  <2> SUFFICES ASSUME NEW e PROVE Wasted(e, {v}) = Info(WastedWith(e, v))
    OBVIOUS
  <2> DEFINE infos == [w \in {v} |-> Info(WastedWith(e, w))]
  <2>1. infos \in [{v} -> Infos] /\ infos[v] = Info(WastedWith(e, v))
    BY <1>4
  <2> HIDE DEF infos
  <2>2. Total(infos) = infos[v]
    BY <2>1, TotalOne
  <2> QED BY <2>1, <2>2 DEF Wasted, infos
<1>6. Keys({v}) = {Extension[f] : f \in OfVersion(v).wasted}
  BY DEF Keys
<1>7. ByExtension(v) = [e \in Keys({v}) |-> Info(WastedWith(e, v))]
  BY <1>6 DEF ByExtension, WastedWith
<1>8. ExtensionsOf({v}) = ByExtension(v)
  BY <1>5, <1>7, ExtensionsAre
<1> QED BY <1>2, <1>3, <1>4, <1>7, <1>8

LEMMA VersionAsCrate ==
    ASSUME NEW v, Known({v})
    PROVE  IsCrate(CrateFromVersion(OfVersion(v)), {v})
<1> DEFINE b == ByExtension(v)
<1>1. VecIntoMapByExtension(Empty, OfVersion(v).wasted) = ExtensionsIntoMap(Empty, b)
  BY DEF VecIntoMapByExtension, ByExtension
<1>2. \A e \in DOMAIN b : Plus(Nothing, b[e]) = b[e]
  BY OneVersion, InfoType
<1>3. b = [e \in DOMAIN b |-> b[e]]
  BY DEF ByExtension
<1> HIDE DEF b
<1>4. ExtensionsIntoMap(Empty, b) = [e \in DOMAIN b |-> b[e]]
  <2>1. DOMAIN Empty = {} /\ (DOMAIN Empty) \cup (DOMAIN b) = DOMAIN b
    BY DEF Empty
  <2> QED BY <1>2, <2>1 DEF ExtensionsIntoMap
<1>5. ExtensionsOf({v}) = b
  BY OneVersion DEF b
<1>6. OfVersion(v).crate = v[1]
  BY PartType DEF Known
<1> QED BY <1>1, <1>3, <1>4, <1>5, <1>6, OneVersion DEF CrateFromVersion, IsCrate

LEMMA CrateAsCollection ==
    ASSUME NEW of, Known(of), NEW r, IsCrate(r, of)
    PROVE  IsCollection(CollectionFromCrate(r), of)
<1>1. {v[1] : v \in of} = {r.crate} /\ VersionsOf(r.crate, of) = of
  BY DEF Known, IsCrate, VersionsOf
<1>2. CratesOf(of) = [c \in {r.crate} |-> CrateInfoOf(of)]
  BY <1>1 DEF CratesOf
<1>3. CollectionInfo(r.versions) = CrateInfoOf(of)
  BY CollectionInfoIs DEF IsCrate
<1>4. [c \in {r.crate} |-> CollectionInfo(r.versions)] = CratesOf(of)
  BY <1>2, <1>3
<1> QED BY <1>4 DEF CollectionFromCrate, IsCollection, IsCrate

LEMMA CollectionsMerged ==
    ASSUME NEW s, Known(s), NEW t, Known(t), s \cap t = {},
           NEW a, IsCollection(a, s), NEW b, IsCollection(b, t)
    PROVE  IsCollection(CollectionAndCrates(a, b), s \cup t)
BY TotalOfUnion, CratesUnion, ExtensionsUnion DEF IsCollection, CollectionAndCrates

LEMMA CratesMerged ==
    ASSUME NEW s, Known(s), NEW t, Known(t), s \cap t = {},
           NEW a, IsCrate(a, s), NEW b, IsCrate(b, t), a.crate = b.crate
    PROVE  IsCrate(CrateAndCrate(a, b), s \cup t)
<1>1. MapIntoMap(a.versions, b.versions) = InfosOf(a.crate, s \cup t)
  BY InfosUnion DEF IsCrate
<1> QED BY <1>1, TotalOfUnion, ExtensionsUnion DEF IsCrate, CrateAndCrate

LEMMA VersionMerged ==
    ASSUME NEW s, Known(s), NEW v, Known({v}), v \notin s,
           NEW a, IsCrate(a, s), a.crate = v[1]
    PROVE  IsCrate(CrateAndVersion(a, OfVersion(v)), s \cup {v})
<1>1. s \cap {v} = {}
  OBVIOUS
<1>2. MapIntoMap(a.versions, NewVersionMap(OfVersion(v))) = InfosOf(a.crate, s \cup {v})
  BY <1>1, InfosUnion, OneVersion DEF IsCrate
<1>3. VecIntoMapByExtension(a.extensions, OfVersion(v).wasted) = ExtensionsOf(s \cup {v})
  <2>1. VecIntoMapByExtension(a.extensions, OfVersion(v).wasted)
            = ExtensionsIntoMap(a.extensions, ByExtension(v))
    BY DEF VecIntoMapByExtension, ByExtension
  <2> QED BY <1>1, <2>1, ExtensionsUnion, OneVersion DEF IsCrate
<1>4. Plus(a.total, OfVersion(v).total) = TotalOf(s \cup {v})
  BY <1>1, TotalOfUnion, OneVersion DEF IsCrate
<1> QED BY <1>2, <1>3, <1>4 DEF IsCrate, CrateAndVersion

\* Into a collection, whatever is merged.
LEMMA IntoCollection ==
    ASSUME NEW s, Known(s), NEW t, Known(t), s \cap t = {},
           NEW a, IsCollection(a, s), NEW b, IsReportOf(b, t)
    PROVE  IsCollection(MergeCollection(a, b), s \cup t)
<1>1. CASE b.kind = "Version" /\ \E v \in t : t = {v} /\ b = OfVersion(v)
  <2>1. PICK v \in t : t = {v} /\ b = OfVersion(v)
    BY <1>1
  <2>2. IsCollection(CollectionFromCrate(CrateFromVersion(b)), t)
    BY <2>1, VersionAsCrate, CrateAsCollection
  <2> QED BY <1>1, <2>2, CollectionsMerged DEF MergeCollection
<1>2. CASE IsCrate(b, t)
  <2>1. IsCollection(CollectionFromCrate(b), t) /\ b.kind = "Crate"
    BY <1>2, CrateAsCollection DEF IsCrate
  <2>2. MergeCollection(a, b) = CollectionAndCrates(a, CollectionFromCrate(b))
    BY <2>1 DEF MergeCollection
  <2> QED BY <2>1, <2>2, CollectionsMerged
<1>3. CASE IsCollection(b, t)
  <2>1. MergeCollection(a, b) = CollectionAndCrates(a, b)
    BY <1>3 DEF MergeCollection, IsCollection
  <2> QED BY <1>3, <2>1, CollectionsMerged
<1> QED BY <1>1, <1>2, <1>3, ReportIsOneOf

\* Into a crate, a version or a crate.
LEMMA IntoCrate ==
    ASSUME NEW s, Known(s), NEW t, Known(t), s \cap t = {},
           NEW a, IsCrate(a, s), NEW b, IsReportOf(b, t), b.kind # "CrateCollection"
    PROVE  IsReportOf(MergeCrate(a, b), s \cup t)
<1>1. CASE a.crate # b.crate
  <2>1. IsCollection(MergeCollection(CollectionFromCrate(a), b), s \cup t)
    BY CrateAsCollection, IntoCollection
  <2>2. MergeCrate(a, b) = MergeCollection(CollectionFromCrate(a), b)
    BY <1>1 DEF MergeCrate
  <2> QED BY <2>1, <2>2, ReportIsOneOf
<1>2. CASE a.crate = b.crate /\ b.kind = "Version" /\ \E v \in t : t = {v} /\ b = OfVersion(v)
  <2>1. PICK v \in t : t = {v} /\ b = OfVersion(v)
    BY <1>2
  <2>2. a.crate = v[1] /\ v \notin s
    BY <1>2, <2>1, PartType DEF Known
  <2>3. IsCrate(CrateAndVersion(a, b), s \cup t)
    BY <2>1, <2>2, VersionMerged
  <2>4. MergeCrate(a, b) = CrateAndVersion(a, b)
    BY <1>2 DEF MergeCrate
  <2> QED BY <2>3, <2>4, ReportIsOneOf
<1>3. CASE a.crate = b.crate /\ IsCrate(b, t)
  <2>1. MergeCrate(a, b) = CrateAndCrate(a, b)
    BY <1>3 DEF MergeCrate, IsCrate
  <2> QED BY <1>3, <2>1, CratesMerged, ReportIsOneOf
<1> QED BY <1>1, <1>2, <1>3, ReportIsOneOf DEF IsCollection

LEMMA AnyTwo ==
    ASSUME NEW s, Known(s), NEW t, Known(t), s \cap t = {},
           NEW a, IsReportOf(a, s), NEW b, IsReportOf(b, t)
    PROVE  IsReportOf(Merge(a, b), s \cup t)
<1>1. CASE IsCollection(a, s)
  <2>1. Merge(a, b) = MergeCollection(a, b)
    BY <1>1 DEF Merge, IsCollection
  <2> QED BY <1>1, <2>1, IntoCollection, ReportIsOneOf
<1>2. CASE a.kind # "CrateCollection" /\ IsCollection(b, t)
  <2>1. Merge(a, b) = MergeCollection(b, a)
    BY <1>2 DEF Merge, IsCollection
  <2>2. t \cup s = s \cup t /\ t \cap s = {}
    OBVIOUS
  <2>3. IsCollection(MergeCollection(b, a), t \cup s)
    BY <1>2, <2>2, IntoCollection
  <2> QED BY <2>1, <2>2, <2>3, ReportIsOneOf
<1>3. CASE IsCrate(a, s) /\ b.kind # "CrateCollection"
  <2>1. Merge(a, b) = MergeCrate(a, b)
    BY <1>3 DEF Merge, IsCrate
  <2> QED BY <1>3, <2>1, IntoCrate
<1>4. CASE a.kind = "Version" /\ IsCrate(b, t)
  <2>1. Merge(a, b) = MergeCrate(b, a)
    BY <1>4 DEF Merge, IsCrate
  <2>2. t \cup s = s \cup t /\ t \cap s = {}
    OBVIOUS
  <2>3. IsReportOf(MergeCrate(b, a), t \cup s)
    BY <1>4, <2>2, IntoCrate
  <2> QED BY <2>1, <2>2, <2>3
<1>5. CASE /\ a.kind = "Version" /\ \E v \in s : s = {v} /\ a = OfVersion(v)
           /\ b.kind = "Version"
  <2>1. Merge(a, b) = MergeCrate(CrateFromVersion(a), b)
    BY <1>5 DEF Merge
  <2>2. IsCrate(CrateFromVersion(a), s)
    BY <1>5, VersionAsCrate
  <2> QED BY <1>5, <2>1, <2>2, IntoCrate
<1> QED BY <1>1, <1>2, <1>3, <1>4, <1>5, ReportIsOneOf DEF IsCrate, IsCollection

-----------------------------------------------------------------------------
(***************************************************************************)
(* The theorems.                                                           *)
(***************************************************************************)
\* Reports are of versions, each of some, and no version is in two of them.
THEOREM ReportsStayApart == Spec => []ReportsAreApart
<1>1. Init => ReportsAreApart
  BY DEF Init, ReportsAreApart
<1>2. ASSUME ReportsAreApart, [Next]_vars PROVE ReportsAreApart'
  <2>1. CASE ReportVersion
    <3>1. PICK v \in DOMAIN package :
             /\ \A r \in reports : v \notin r.of
             /\ reports' = reports \cup {[of |-> {v}, report |-> OfVersion(v)]}
      BY <2>1 DEF ReportVersion
    <3> DEFINE new == [of |-> {v}, report |-> OfVersion(v)]
    <3>2. new.of = {v} /\ IsFiniteSet(new.of)
      BY FS_Singleton
    <3>3. reports' = reports \cup {new} /\ package' = package
      BY <2>1, <3>1 DEF ReportVersion
    <3>4. \A r \in reports : r.of \cap new.of = {}
      BY <3>1
    <3> HIDE DEF new
    <3> QED BY <1>2, <3>2, <3>3, <3>4 DEF ReportsAreApart
  <2>2. CASE MergeTwo
    <3>1. PICK a \in reports, b \in reports :
             /\ a # b
             /\ reports' = (reports \ {a, b}) \cup
                   {[of |-> a.of \cup b.of, report |-> Merge(a.report, b.report)]}
      BY <2>2 DEF MergeTwo
    <3> DEFINE new == [of |-> a.of \cup b.of, report |-> Merge(a.report, b.report)]
    <3>2. new.of = a.of \cup b.of /\ IsFiniteSet(new.of)
      BY <1>2, FS_Union DEF ReportsAreApart
    <3>3. reports' = (reports \ {a, b}) \cup {new} /\ package' = package
      BY <2>2, <3>1 DEF MergeTwo
    <3> HIDE DEF new
    <3>4. \A r \in reports \ {a, b} : r.of \cap new.of = {}
      BY <1>2, <3>2 DEF ReportsAreApart
    <3>5. new.of # {} /\ new.of \subseteq DOMAIN package
      BY <1>2, <3>2 DEF ReportsAreApart
    <3> QED BY <1>2, <3>2, <3>3, <3>4, <3>5 DEF ReportsAreApart
  <2>3. CASE UNCHANGED vars
    BY <1>2, <2>3 DEF vars, ReportsAreApart
  <2> QED BY <1>2, <2>1, <2>2, <2>3 DEF Next
<1> QED BY <1>1, <1>2, PTL DEF Spec

LEMMA VersionsArePackages ==
    ASSUME ReportsAreApart, NEW r \in reports, NEW v \in r.of
    PROVE  IsPackage(package[v])
BY WasteReportAssumption DEF ReportsAreApart

\* Whoever follows a suggestion (Report::from_package) loses the files that were
\* called waste and none that is said to be kept, whatever the files, the patterns
\* and the globs, except for files in other directories that cargo takes an include,
\* of the suggestion or of the package, to match as well.
THEOREM SuggestionsRemoveWaste ==
    ASSUME NoneIsApart, ExcludesAreDeep
    PROVE  Spec => []FixRemovesWaste
<1>1. ASSUME ReportsAreApart PROVE FixRemovesWaste
  <2> SUFFICES ASSUME NEW r \in reports, NEW v \in r.of
               PROVE  Removes(package[v], Analyze(package[v]))
    BY DEF FixRemovesWaste
  <2>1. IsPackage(package[v])
    BY <1>1, VersionsArePackages
  <2> QED BY <2>1, BothRemove, IncludeOnlyRemoves, ExcludeOnlyRemoves, NeitherRemoves
<1> QED BY <1>1, ReportsStayApart, PTL

\* In the version that results from a suggestion nothing is called waste, also
\* when the standard excludes that were suggested were some of those that match.
THEOREM SuggestionsAreFinal ==
    ASSUME NoneIsApart
    PROVE  Spec => []FixIsFinal
<1>1. ASSUME ReportsAreApart PROVE FixIsFinal
  <2> SUFFICES ASSUME NEW r \in reports, NEW v \in r.of
               PROVE  IsFinal(package[v], Analyze(package[v]).fix)
    BY DEF FixIsFinal
  <2>1. IsPackage(package[v])
    BY <1>1, VersionsArePackages
  <2> QED BY <2>1, EnrichedIsFinal, IncludesAreFinal
<1> QED BY <1>1, ReportsStayApart, PTL

\* Nothing but the packages decides what is a report of some versions.
LEMMA SamePackages ==
    ASSUME package' = package, NEW report, NEW of
    PROVE  IsReportOf(report, of)' <=> IsReportOf(report, of)
<1>1. \A v : OfVersion(v)' = OfVersion(v)
  BY DEF OfVersion
<1>2. \A e, v : WastedWith(e, v)' = WastedWith(e, v)
  BY <1>1 DEF WastedWith
<1>3. \A s : TotalOf(s)' = TotalOf(s)
  BY <1>1 DEF TotalOf
<1>4. \A s : ExtensionsOf(s)' = ExtensionsOf(s)
  BY <1>1, <1>2 DEF ExtensionsOf
<1>5. \A s : CrateInfoOf(s)' = CrateInfoOf(s)
  BY <1>1, <1>3 DEF CrateInfoOf
<1>6. \A s : \A c : VersionsOf(c, s)' = VersionsOf(c, s)
  BY DEF VersionsOf
<1> QED BY <1>1, <1>3, <1>4, <1>5, <1>6 DEF IsReportOf

\* Whichever reports are merged in whichever order and roles (Report::merge), each
\* is the report of its versions, summed over every one of them once: in all, by
\* version or crate, and by extension.
THEOREM MergesAreExact == Spec => []MergeIsExact
<1>1. Init => MergeIsExact
  BY DEF Init, MergeIsExact
<1>2. ASSUME ReportsAreApart, MergeIsExact, [Next]_vars PROVE MergeIsExact'
  <2>1. package' = package
    BY <1>2 DEF Next, ReportVersion, MergeTwo, vars
  <2>2. \A r \in reports : IsReportOf(r.report, r.of) /\ Known(r.of)
    BY <1>2 DEF MergeIsExact, ReportsAreApart, Known
  <2>3. \A r \in reports' : IsReportOf(r.report, r.of)
    <3>1. CASE ReportVersion
      <4>1. PICK v : reports' = reports \cup {[of |-> {v}, report |-> OfVersion(v)]}
        BY <3>1 DEF ReportVersion
      <4>2. IsReportOf(OfVersion(v), {v})
        <5>1. OfVersion(v).kind = "Version"
          BY DEF OfVersion
        <5> QED BY <5>1, ReportIsOneOf
      <4> QED BY <2>2, <4>1, <4>2
    <3>2. CASE MergeTwo
      <4>1. PICK a \in reports, b \in reports :
               /\ a # b
               /\ reports' = (reports \ {a, b}) \cup
                     {[of |-> a.of \cup b.of, report |-> Merge(a.report, b.report)]}
        BY <3>2 DEF MergeTwo
      <4>2. a.of \cap b.of = {}
        BY <1>2, <4>1 DEF ReportsAreApart
      <4>3. IsReportOf(Merge(a.report, b.report), a.of \cup b.of)
        BY <2>2, <4>2, AnyTwo
      <4> QED BY <2>2, <4>1, <4>3
    <3>3. CASE UNCHANGED vars
      BY <2>2, <3>3 DEF vars
    <3> QED BY <1>2, <3>1, <3>2, <3>3 DEF Next
  <2>4. \A r \in reports' : IsReportOf(r.report, r.of)'
    BY <2>1, <2>3, SamePackages
  <2> QED BY <2>4 DEF MergeIsExact
<1> QED BY <1>1, <1>2, ReportsStayApart, PTL DEF Spec
=============================================================================
