CONSTANTS
    a = a  b = b
    Files <- AllFiles
    Directory <- DirectoryOf
    Below <- FilesBelow
    NoDirectory = "none"
    Globs <- AllGlobs
    Matches <- Matching
    Open = {"native/*"}
    StandardIncludes <- Includes
    StandardExcludes <- Excludes
    Implicit <- Manifests
    Added = {"Cargo.toml.orig"}
    DefaultLib = "src/lib.rs"
    DefaultBin = "src/main.rs"
    DefaultBuild = "build.rs"
    RustBelow <- RustFiles
    IsStandard = {"src/lib.rs", "src/main.rs"}
    Mentioned <- Mentions
    None = None
    Crates = {a, b}
    Names = {1, 2}
    Size <- Sizes
    Extension <- Extensions
    Elsewhere <- ElsewhereOf
    Inputs <- Packages
SPECIFICATION Spec
CHECK_DEADLOCK FALSE
INVARIANTS
    FixRemovesWaste
    FixIsFinal
    MergeIsExact
