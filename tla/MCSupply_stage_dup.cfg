CONSTANTS
    Catalog <- MCCatalog
    DefaultPhp <- MCDefault
    NoVersion = NoVersion
    ExtNames <- MCExtNames
    ZendNames <- MCZendNames
    PdoDrivers <- MCPdoDrivers
    None = None
    BuildDir = "/tmp/app"
    DepsDir = "/tmp/deps"
    DepsIdx = "9"
    Literals <- MCLiterals
    WebDirs <- MCWebDirs
    Files <- MCFiles
    IniDFiles <- MCIniDFiles
    BoxPhp <- MCBoxPhp
    BoxHttpd <- MCBoxHttpd
    OptionsFiles <- ConfigOptions
    ComposerFiles <- ConfigComposer
    UserTrees <- MCUserTrees
    ComposerCount = 1
    UnreadableDirs <- MCReadable
    NoFile = NoFile
    Invalid = Invalid
SPECIFICATION Spec
INVARIANT StageConfigLoadsExtensionsOnce
CHECK_DEADLOCK FALSE
