CONSTANTS
    Catalog <- MCCatalogV
    DefaultPhp = NoVersion
    NoVersion = NoVersion
    ExtNames <- MCExtNames
    ZendNames <- MCZendNames
    PdoDrivers <- MCPdoDrivers
    None = None
    BuildDir = "/tmp/app"
    DepsDir = "/tmp/deps"
    DepsIdx = "9"
    Literals <- MCLiterals
    WebDirs <- MCWebDirs
    Files <- MCFiles
    IniDFiles <- MCIniDFiles
    BoxPhp <- MCBoxPhp
    BoxHttpd <- MCBoxHttpd
    OptionsFiles <- VersionOptions
    ComposerFiles <- VersionComposer
    UserTrees <- MCNoTrees
    ComposerCount = 1
    UnreadableDirs <- MCReadable
    NoFile = NoFile
    Invalid = Invalid
SPECIFICATION Spec
INVARIANT VersionResolved
CHECK_DEADLOCK FALSE
