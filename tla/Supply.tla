------------------------------- MODULE Supply -------------------------------
(***************************************************************************)
(* The supply phase of the buildpack, src/php/supply/supply.go: the        *)
(* Pipeline Orchestrator Supplier.Run and every method it calls, as one    *)
(* state machine.  pc is the method Run is about to call; an error         *)
(* returned anywhere ends the run in "Failed".  The collaborators          *)
(* (Manifest installs, links, file writes, the composer process, the       *)
(* GitHub rate-limit call) are modelled by their success or failure.       *)
(*                                                                         *)
(* The inputs of one staging run (files of the app, environment            *)
(* variables) are fixed at Init in the record env.                         *)
(***************************************************************************)
EXTENDS PhpVersion, ConfigFiles

CONSTANTS
    Files,          \* relative paths of template files
    IniDFiles,      \* the ones under php.ini.d/
    BoxPhp,         \* embedded templates: version line -> tree of config/php/<line>
    BoxHttpd,       \* embedded tree config/httpd
    OptionsFiles,   \* possible .bp-config/options.json contents
    ComposerFiles,  \* possible composer.json contents
    UserTrees,      \* possible .bp-config/php and .bp-config/httpd trees
    ComposerCount,  \* Len(Manifest.AllDependencyVersions("composer"))
    UnreadableDirs, \* possible sets of override directories that cannot be listed
    NoFile,         \* a file that does not exist
    Invalid         \* a file that is not valid JSON

(* A template tree in the order the directory walk visits it.            *)
Tree == Seq([file : Files, tmpl : Template])

(* A directory walk visits each relative path of a tree once.            *)
DistinctFiles(t) == \A i, j \in DOMAIN t : t[i].file = t[j].file => i = j

OptionsDoc == [php : Constraint \cup {None}, exts : (SUBSET ExtNames) \cup {None},
               zend : (SUBSET ZendNames) \cup {None}, webdir : WebDirs \cup {None}]

ComposerDoc == [require : {None} \cup [php : Constraint \cup {None},
                                       keys : SUBSET RequireKey]]

ASSUME SupplyAssumption ==
    /\ IniDFiles \subseteq Files
    /\ BoxPhp \in [DOMAIN BoxPhp -> Tree] /\ BoxHttpd \in Tree
    /\ OptionsFiles \subseteq OptionsDoc \cup {NoFile, Invalid}
    /\ ComposerFiles \subseteq ComposerDoc \cup {Invalid}
    /\ UserTrees \subseteq Tree \cup {NoFile}
    /\ \A t \in {BoxPhp[l] : l \in DOMAIN BoxPhp} \cup {BoxHttpd} \cup (UserTrees \ {NoFile}) :
          DistinctFiles(t)
    /\ ComposerCount \in Nat
    /\ UnreadableDirs \subseteq SUBSET {"php", "httpd"}
    /\ BoxHttpd # NoFile /\ \A l \in DOMAIN BoxPhp : BoxPhp[l] # NoFile
    /\ None \notin Ctx \cup {"php", "httpd"}
    /\ NoFile # Invalid /\ None \notin {NoFile, Invalid}

Dests == {"php", "httpd"}     \* the destinations "php/etc/" and "httpd/conf"

Paths == Dests \X Files

AbsentFile == [kind |-> "absent"]
TornFile == [kind |-> "torn"]             \* os.Create truncated, Execute failed
(* A rendered file, by the template it was rendered from: the text is    *)
(* Render(tmpl, ctxRun) under DepDir and Render(tmpl, ctxStage) under     *)
(* /tmp/php_etc, the contexts being fixed once WriteConfigFiles starts.   *)
File(tmpl) == [kind |-> "file", tmpl |-> tmpl]

Env == [options : OptionsFiles, rootComposer : ComposerFiles \cup {NoFile},
        pathComposer : ComposerFiles \cup {NoFile, None}, token : BOOLEAN,
        userPhp : UserTrees, userHttpd : UserTrees, unreadable : UnreadableDirs,
        varifyBuilt : BOOLEAN]

VARIABLES
    env,             \* the inputs of this staging run
    pc,              \* the step of Supplier.Run about to execute
    optionsJson,     \* Supplier.OptionsJson (None: nil map)
    composerPath,    \* Supplier.ComposerPath: None (""), "root" or "path"
    composerJson,    \* Supplier.ComposerJson (None: nil map)
    webDir,          \* Supplier.WebDir
    phpVersion,      \* Supplier.PhpVersion
    phpExtensions,   \* Supplier.PhpExtensions (None: nil map)
    zendExtensions,  \* Supplier.ZendExtensions (None: nil map)
    ctxRun,          \* WriteConfigFiles' ctxRun (None before it runs)
    ctxStage,        \* WriteConfigFiles' ctxStage
    walk,            \* the directory walks of WriteConfigFiles
    runTree,         \* files under DepDir: php/etc/ and httpd/conf
    stageTree,       \* files under /tmp/php_etc: php/etc/ and httpd/conf
    done             \* the collaborator effects that completed

vars == <<env, pc, optionsJson, composerPath, composerJson, webDir, phpVersion,
          phpExtensions, zendExtensions, ctxRun, ctxStage, walk, runTree,
          stageTree, done>>

Steps == {"ReadConfig", "SetupPhpVersion", "SetupExtensions", "InstallHTTPD",
          "InstallPHP", "WriteConfigFiles", "InstallComposer", "RunComposer",
          "InstallVarify", "WriteProfileD", "WriteStartFile", "Done", "Failed"}

(* Run: the order of the calls; the two composer calls only when a       *)
(* composer.json was found.                                               *)
RunOrder == [ReadConfig |-> "SetupPhpVersion", SetupPhpVersion |-> "SetupExtensions",
             SetupExtensions |-> "InstallHTTPD", InstallHTTPD |-> "InstallPHP",
             InstallPHP |-> "WriteConfigFiles", WriteConfigFiles |-> "InstallComposer",
             InstallComposer |-> "RunComposer", RunComposer |-> "InstallVarify",
             InstallVarify |-> "WriteProfileD", WriteProfileD |-> "WriteStartFile",
             WriteStartFile |-> "Done"]

NextStep(step) ==
    IF RunOrder[step] = "InstallComposer" /\ composerPath = None
    THEN "InstallVarify" ELSE RunOrder[step]

(* The step returns nil and Run goes on; or it returns an error.          *)
Succeed == pc' = NextStep(pc)
Fail == pc' = "Failed"

-----------------------------------------------------------------------------
Init ==
    /\ env \in Env
    /\ pc = "ReadConfig"
    /\ optionsJson = None /\ composerPath = None /\ composerJson = None
    /\ webDir = EmptyText /\ phpVersion = NoVersion
    /\ phpExtensions = None /\ zendExtensions = None
    /\ ctxRun = None /\ ctxStage = None
    /\ walk = [phase |-> "box", todo |-> {}, cur |-> None, pos |-> 0]
    /\ runTree = [p \in Paths |-> AbsentFile]
    /\ stageTree = [p \in Paths |-> AbsentFile]
    /\ done = {}

(* ReadConfig: options.json (missing is no error, invalid JSON is), the  *)
(* WEBDIR key, composer.json in the build dir or under $COMPOSER_PATH    *)
(* (the latter wins), and composer.json's contents.                      *)
ReadConfig ==
    LET opts == IF env.options \in {NoFile, Invalid} THEN None ELSE env.options
        path == IF env.pathComposer \notin {None, NoFile} THEN "path"
                ELSE IF env.rootComposer # NoFile THEN "root" ELSE None
        cfile == IF path = "path" THEN env.pathComposer ELSE env.rootComposer
    IN  /\ pc = "ReadConfig"
        /\ IF env.options = Invalid
           THEN Fail /\ UNCHANGED <<optionsJson, webDir, composerPath, composerJson>>
           ELSE /\ optionsJson' = opts
                /\ webDir' = IF opts # None /\ opts.webdir # None THEN opts.webdir ELSE EmptyText
                /\ composerPath' = path
                /\ IF path # None /\ cfile = Invalid
                   THEN Fail /\ UNCHANGED composerJson
                   ELSE Succeed /\ composerJson' = IF path # None THEN cfile ELSE None
        /\ UNCHANGED <<env, phpVersion, phpExtensions, zendExtensions, ctxRun,
                       ctxStage, walk, runTree, stageTree, done>>

(* composer.json's require object, or None.                              *)
Require == IF composerJson = None THEN None ELSE composerJson.require

(* Fault models for SetupPhpVersion: the unmatched version string kept   *)
(* (no reset to ""), and options.json taking precedence over composer.   *)
SetupPhpVersionNoReset ==
    LET fromOptions == IF optionsJson # None /\ optionsJson.php # None
                       THEN ExpandAlias(optionsJson.php) ELSE NoVersion
        requested == IF Require # None /\ Require.php # None
                     THEN ComposerConstraint(Require.php) ELSE fromOptions
        matched == IF requested = NoVersion THEN NoVersion
                   ELSE FindMatchingVersion(requested, Catalog)
    IN  /\ pc = "SetupPhpVersion"
        /\ IF matched # NoVersion THEN phpVersion' = matched /\ Succeed
           ELSE IF requested # NoVersion THEN phpVersion' = requested /\ Succeed
           ELSE IF DefaultPhp = NoVersion THEN Fail /\ UNCHANGED phpVersion
           ELSE phpVersion' = DefaultPhp /\ Succeed
        /\ UNCHANGED <<env, optionsJson, composerPath, composerJson, webDir,
                       phpExtensions, zendExtensions, ctxRun, ctxStage, walk,
                       runTree, stageTree, done>>

SetupPhpVersionOptionsFirst ==
    LET fromComposer == IF Require # None /\ Require.php # None
                        THEN ComposerConstraint(Require.php) ELSE NoVersion
        requested == IF optionsJson # None /\ optionsJson.php # None
                     THEN ExpandAlias(optionsJson.php) ELSE fromComposer
        matched == IF requested = NoVersion THEN NoVersion
                   ELSE FindMatchingVersion(requested, Catalog)
    IN  /\ pc = "SetupPhpVersion"
        /\ IF matched # NoVersion THEN phpVersion' = matched /\ Succeed
           ELSE IF DefaultPhp = NoVersion THEN Fail /\ UNCHANGED phpVersion
           ELSE phpVersion' = DefaultPhp /\ Succeed
        /\ UNCHANGED <<env, optionsJson, composerPath, composerJson, webDir,
                       phpExtensions, zendExtensions, ctxRun, ctxStage, walk,
                       runTree, stageTree, done>>

(* SetupPhpVersion: options.json's PHP_VERSION (alias expanded), then    *)
(* composer.json's require.php (">=" made "~>") overriding it; a version *)
(* that matches nothing in the catalog is dropped for the default.       *)
SetupPhpVersion ==
    LET fromOptions == IF optionsJson # None /\ optionsJson.php # None
                       THEN ExpandAlias(optionsJson.php) ELSE NoVersion
        requested == IF Require # None /\ Require.php # None
                     THEN ComposerConstraint(Require.php) ELSE fromOptions
        matched == IF requested = NoVersion THEN NoVersion
                   ELSE FindMatchingVersion(requested, Catalog)
    IN  /\ pc = "SetupPhpVersion"
        /\ IF matched # NoVersion
           THEN phpVersion' = matched /\ Succeed
           ELSE IF DefaultPhp = NoVersion
                THEN Fail /\ UNCHANGED phpVersion
                ELSE phpVersion' = DefaultPhp /\ Succeed
        /\ UNCHANGED <<env, optionsJson, composerPath, composerJson, webDir,
                       phpExtensions, zendExtensions, ctxRun, ctxStage, walk,
                       runTree, stageTree, done>>

(* Fault model for SetupExtensions: the "ext-pdo_" rule left out.         *)
SetupExtensionsNoPdo ==
    LET base == IF optionsJson # None /\ optionsJson.exts # None
                THEN optionsJson.exts ELSE DefaultPhpExtensions
    IN  /\ pc = "SetupExtensions"
        /\ phpExtensions' = IF Require # None
                            THEN base \cup {k.name : k \in {k \in Require.keys : k.ext}}
                            ELSE base
        /\ zendExtensions' = IF optionsJson # None /\ optionsJson.zend # None
                             THEN optionsJson.zend ELSE {}
        /\ Succeed
        /\ UNCHANGED <<env, optionsJson, composerPath, composerJson, webDir,
                       phpVersion, ctxRun, ctxStage, walk, runTree, stageTree, done>>

(* SetupExtensions: the built-in set, replaced by options.json's         *)
(* PHP_EXTENSIONS when present; ZEND_EXTENSIONS likewise; then the       *)
(* "ext-" keys of composer.json's require added in every case.           *)
SetupExtensions ==
    LET base == IF optionsJson # None /\ optionsJson.exts # None
                THEN optionsJson.exts ELSE DefaultPhpExtensions
        zend == IF optionsJson # None /\ optionsJson.zend # None
                THEN optionsJson.zend ELSE {}
    IN  /\ pc = "SetupExtensions"
        /\ phpExtensions' = IF Require # None
                            THEN base \cup ComposerExtensions(Require.keys)
                            ELSE base
        /\ zendExtensions' = zend
        /\ Succeed
        /\ UNCHANGED <<env, optionsJson, composerPath, composerJson, webDir,
                       phpVersion, ctxRun, ctxStage, walk, runTree, stageTree, done>>

(* InstallHTTPD, InstallPHP, InstallComposer (exactly one composer       *)
(* version in the manifest, then fetched), InstallVarify (skipped when   *)
(* the binary is already there) and WriteStartFile: one collaborator    *)
(* effect each, which may fail.                                          *)
Install(step, effect, ok) ==
    /\ pc = step
    /\ IF ok THEN Succeed /\ done' = done \cup {effect}
             ELSE Fail /\ UNCHANGED done
    /\ UNCHANGED <<env, optionsJson, composerPath, composerJson, webDir, phpVersion,
                   phpExtensions, zendExtensions, ctxRun, ctxStage, walk,
                   runTree, stageTree>>

InstallHTTPD == \E ok \in BOOLEAN : Install("InstallHTTPD", "httpd", ok)

InstallPHP == \E ok \in BOOLEAN : Install("InstallPHP", "php", ok)

InstallComposer ==
    \E ok \in BOOLEAN : Install("InstallComposer", "composer", ComposerCount = 1 /\ ok)

InstallVarify ==
    \E ok \in BOOLEAN : Install("InstallVarify", "varify", env.varifyBuilt \/ ok)

WriteStartFile ==
    \E ok \in BOOLEAN : Install("WriteStartFile", "php_buildpack_start", ok)

(* RunComposer: with a token, the rate-limit call decides whether        *)
(* "composer config github-oauth" runs (an invalid token is only logged), *)
(* then "composer install" runs; either command may fail.                *)
RunComposer ==
    \E valid, configOk, installOk \in BOOLEAN :
        LET configured == env.token /\ valid
        IN  /\ pc = "RunComposer"
            /\ IF configured /\ ~configOk
               THEN Fail /\ UNCHANGED done
               ELSE /\ done' = done \cup (IF configured THEN {"oauth"} ELSE {})
                                    \cup (IF installOk THEN {"vendor"} ELSE {})
                    /\ IF installOk THEN Succeed ELSE Fail
            /\ UNCHANGED <<env, optionsJson, composerPath, composerJson, webDir,
                           phpVersion, phpExtensions, zendExtensions, ctxRun,
                           ctxStage, walk, runTree, stageTree>>

(* Fault model for WriteProfileD: php.ini.d looked for in the app's      *)
(* .bp-config/php instead of DepDir, missing the embedded one.           *)
WriteProfileDOverrideOnly ==
    \E ok \in BOOLEAN :
        LET scan == \E f \in IniDFiles :
                        /\ env.userPhp # NoFile
                        /\ \E i \in DOMAIN env.userPhp : env.userPhp[i].file = f
        IN  /\ pc = "WriteProfileD"
            /\ IF ok THEN /\ Succeed
                          /\ done' = done \cup {"profile.d"}
                                     \cup (IF scan THEN {"PHP_INI_SCAN_DIR"} ELSE {})
                     ELSE Fail /\ UNCHANGED done
            /\ UNCHANGED <<env, optionsJson, composerPath, composerJson, webDir,
                           phpVersion, phpExtensions, zendExtensions, ctxRun,
                           ctxStage, walk, runTree, stageTree>>

(* WriteProfileD: PHP_INI_SCAN_DIR is exported when DepDir has           *)
(* php/etc/php.ini.d; then Stager.WriteProfileD, which may fail.         *)
WriteProfileD ==
    \E ok \in BOOLEAN :
        LET scan == \E f \in IniDFiles : runTree[<<"php", f>>] # AbsentFile
        IN  /\ pc = "WriteProfileD"
            /\ IF ok THEN /\ Succeed
                          /\ done' = done \cup {"profile.d"}
                                     \cup (IF scan THEN {"PHP_INI_SCAN_DIR"} ELSE {})
                     ELSE Fail /\ UNCHANGED done
            /\ UNCHANGED <<env, optionsJson, composerPath, composerJson, webDir,
                           phpVersion, phpExtensions, zendExtensions, ctxRun,
                           ctxStage, walk, runTree, stageTree>>

(* WriteConfigFiles, first part: the two binding contexts, then the walk *)
(* of the embedded trees php/<line> and httpd (in map order).            *)
WriteConfigFiles ==
    /\ pc = "WriteConfigFiles" /\ ctxRun = None
    /\ ctxRun' = RunCtx(webDir, phpExtensions, zendExtensions)
    /\ ctxStage' = StageCtx(RunCtx(webDir, phpExtensions, zendExtensions))
    /\ walk' = [phase |-> "box", todo |-> Dests, cur |-> None, pos |-> 0]
    /\ UNCHANGED <<env, pc, optionsJson, composerPath, composerJson, webDir,
                   phpVersion, phpExtensions, zendExtensions, runTree, stageTree, done>>

(* The tree walked for destination d in the given phase: the embedded    *)
(* one ("box") or the app's .bp-config override ("user").                *)
TreeOf(phase, d) ==
    IF phase = "box"
    THEN IF d = "php" THEN BoxPhp[versionLine(phpVersion)] ELSE BoxHttpd
    ELSE IF d = "php" THEN env.userPhp ELSE env.userHttpd

(* The override directory of d is absent, or present and unlistable.    *)
OverrideSkipped(d) == TreeOf("user", d) = NoFile \/ d \in env.unreadable

(* box.Walk / filepath.Walk of the next tree, in map iteration order.    *)
(* An embedded directory for the version line that does not exist is an *)
(* error; an override directory that does not exist is skipped.  One     *)
(* that exists but cannot be listed is skipped too: filepath.Walk hands  *)
(* the read error to the callback with the directory's info, and the     *)
(* callback returns nil for every directory without looking at err.      *)
StartWalk ==
    \E d \in walk.todo :
        /\ pc = "WriteConfigFiles" /\ ctxRun # None /\ walk.cur = None
        /\ IF walk.phase = "box" /\ d = "php"
                /\ versionLine(phpVersion) \notin DOMAIN BoxPhp
           THEN Fail /\ UNCHANGED walk
           ELSE IF walk.phase = "user" /\ OverrideSkipped(d)
           THEN walk' = [walk EXCEPT !.todo = @ \ {d}] /\ UNCHANGED pc
           ELSE walk' = [walk EXCEPT !.cur = d, !.pos = 1] /\ UNCHANGED pc
        /\ UNCHANGED <<env, optionsJson, composerPath, composerJson, webDir,
                       phpVersion, phpExtensions, zendExtensions, ctxRun,
                       ctxStage, runTree, stageTree, done>>

(* Fault models for the walk callback: an error of the second write only *)
(* logged (the walk goes on); and a file that already exists left alone  *)
(* (created exclusively), so an override cannot replace it.              *)
WalkFileLogSecond ==
    LET entry == TreeOf(walk.phase, walk.cur)[walk.pos]
        path == <<walk.cur, entry.file>>
    IN  /\ pc = "WriteConfigFiles" /\ walk.cur # None
        /\ walk.pos =< Len(TreeOf(walk.phase, walk.cur))
        /\ IF ~Parses(entry.tmpl)
           THEN Fail /\ UNCHANGED <<walk, runTree, stageTree>>
           ELSE \E runFirst \in BOOLEAN, written \in 0..2, torn \in BOOLEAN :
                LET rank(isRun) == IF isRun = runFirst THEN 1 ELSE 2
                    out(isRun, old) ==
                        IF rank(isRun) =< written THEN File(entry.tmpl)
                        ELSE IF rank(isRun) = written + 1 /\ torn THEN TornFile
                        ELSE old
                IN  /\ written = 2 => ~torn
                    /\ runTree' = [runTree EXCEPT ![path] = out(TRUE, @)]
                    /\ stageTree' = [stageTree EXCEPT ![path] = out(FALSE, @)]
                    /\ IF written >= 1
                       THEN walk' = [walk EXCEPT !.pos = @ + 1] /\ UNCHANGED pc
                       ELSE Fail /\ UNCHANGED walk
        /\ UNCHANGED <<env, optionsJson, composerPath, composerJson, webDir,
                       phpVersion, phpExtensions, zendExtensions, ctxRun,
                       ctxStage, done>>

WalkFileExclusive ==
    LET entry == TreeOf(walk.phase, walk.cur)[walk.pos]
        path == <<walk.cur, entry.file>>
        keep(old) == IF old = AbsentFile THEN File(entry.tmpl) ELSE old
    IN  /\ pc = "WriteConfigFiles" /\ walk.cur # None
        /\ walk.pos =< Len(TreeOf(walk.phase, walk.cur))
        /\ IF ~Parses(entry.tmpl)
           THEN Fail /\ UNCHANGED <<walk, runTree, stageTree>>
           ELSE /\ runTree' = [runTree EXCEPT ![path] = keep(@)]
                /\ stageTree' = [stageTree EXCEPT ![path] = keep(@)]
                /\ walk' = [walk EXCEPT !.pos = @ + 1] /\ UNCHANGED pc
        /\ UNCHANGED <<env, optionsJson, composerPath, composerJson, webDir,
                       phpVersion, phpExtensions, zendExtensions, ctxRun,
                       ctxStage, done>>

(* The walk callback on one file: rewrite and parse the template, then   *)
(* for each of {DepDir: ctxRun, /tmp/php_etc: ctxStage}, in map order,   *)
(* MkdirAll, Create (truncating) and Execute.  written contexts succeed; *)
(* if written < 2 the next one fails, leaving its file truncated when    *)
(* torn.                                                                 *)
WalkFile ==
    LET entry == TreeOf(walk.phase, walk.cur)[walk.pos]
        path == <<walk.cur, entry.file>>
    IN  /\ pc = "WriteConfigFiles" /\ walk.cur # None
        /\ walk.pos =< Len(TreeOf(walk.phase, walk.cur))
        /\ IF ~Parses(entry.tmpl)
           THEN Fail /\ UNCHANGED <<walk, runTree, stageTree>>
           ELSE \E runFirst \in BOOLEAN, written \in 0..2, torn \in BOOLEAN :
                LET rank(isRun) == IF isRun = runFirst THEN 1 ELSE 2
                    out(isRun, old) ==
                        IF rank(isRun) =< written THEN File(entry.tmpl)
                        ELSE IF rank(isRun) = written + 1 /\ torn THEN TornFile
                        ELSE old
                IN  /\ written = 2 => ~torn
                    /\ runTree' = [runTree EXCEPT ![path] = out(TRUE, @)]
                    /\ stageTree' = [stageTree EXCEPT ![path] = out(FALSE, @)]
                    /\ IF written = 2
                       THEN walk' = [walk EXCEPT !.pos = @ + 1] /\ UNCHANGED pc
                       ELSE Fail /\ UNCHANGED walk
        /\ UNCHANGED <<env, optionsJson, composerPath, composerJson, webDir,
                       phpVersion, phpExtensions, zendExtensions, ctxRun,
                       ctxStage, done>>

(* The walk of the current tree returns; when the last tree of the      *)
(* embedded loop is done the override loop starts, and when that one is  *)
(* done WriteConfigFiles returns nil.                                    *)
EndWalk ==
    /\ pc = "WriteConfigFiles" /\ walk.cur # None
    /\ walk.pos > Len(TreeOf(walk.phase, walk.cur))
    /\ walk' = [walk EXCEPT !.todo = @ \ {walk.cur}, !.cur = None, !.pos = 0]
    /\ UNCHANGED <<env, pc, optionsJson, composerPath, composerJson, webDir,
                   phpVersion, phpExtensions, zendExtensions, ctxRun, ctxStage,
                   runTree, stageTree, done>>

EndLoop ==
    /\ pc = "WriteConfigFiles" /\ ctxRun # None
    /\ walk.cur = None /\ walk.todo = {}
    /\ IF walk.phase = "box"
       THEN walk' = [walk EXCEPT !.phase = "user", !.todo = Dests] /\ UNCHANGED pc
       ELSE Succeed /\ UNCHANGED walk
    /\ UNCHANGED <<env, optionsJson, composerPath, composerJson, webDir,
                   phpVersion, phpExtensions, zendExtensions, ctxRun, ctxStage,
                   runTree, stageTree, done>>

-----------------------------------------------------------------------------
Next ==
    \/ ReadConfig \/ SetupPhpVersion \/ SetupExtensions
    \/ InstallHTTPD \/ InstallPHP
    \/ WriteConfigFiles \/ StartWalk \/ WalkFile \/ EndWalk \/ EndLoop
    \/ InstallComposer \/ RunComposer \/ InstallVarify
    \/ WriteProfileD \/ WriteStartFile

(* Run is one sequential goroutine: once a step is enabled it is taken   *)
(* (every collaborator call is taken to return).                         *)
Spec == Init /\ [][Next]_vars /\ WF_vars(Next)

-----------------------------------------------------------------------------
(***************************************************************************)
(* Properties.                                                             *)
(***************************************************************************)
Content == {AbsentFile, TornFile} \cup [kind : {"file"}, tmpl : Template]

Effects == {"httpd", "php", "composer", "oauth", "vendor", "varify",
            "profile.d", "PHP_INI_SCAN_DIR", "php_buildpack_start"}

(* Every variable holds a value of its type.                             *)
TypeOK ==
    /\ env \in Env
    /\ pc \in Steps
    /\ optionsJson \in OptionsDoc \cup {None}
    /\ composerPath \in {None, "root", "path"}
    /\ composerJson \in ComposerDoc \cup {None}
    /\ webDir \in WebDirs \cup {EmptyText}
    /\ phpVersion \in Catalog \cup {NoVersion}
    /\ phpExtensions \in (SUBSET ExtNames) \cup {None}
    /\ zendExtensions \in (SUBSET ZendNames) \cup {None}
    /\ ctxRun \in Ctx \cup {None}
    /\ ctxStage \in Ctx \cup {None}
    /\ walk \in [phase : {"box", "user"}, todo : SUBSET Dests,
                 cur : Dests \cup {None}, pos : Nat]
    /\ runTree \in [Paths -> Content]
    /\ stageTree \in [Paths -> Content]
    /\ done \subseteq Effects

(* The version constraint the app declares, by the precedence of the     *)
(* spec: composer.json's require.php (with ">=" read as "~>") over        *)
(* options.json's PHP_VERSION (with PHP_<D><D>_LATEST read as "D.D.x").   *)
DeclaredConstraint ==
    IF Require # None /\ Require.php # None THEN ComposerConstraint(Require.php)
    ELSE IF optionsJson # None /\ optionsJson.php # None
         THEN ExpandAlias(optionsJson.php)
         ELSE NoVersion

(* SetupPhpVersion's result: once a version is chosen, it is the highest *)
(* catalog version satisfying the declared constraint when one does,     *)
(* and the manifest's default version otherwise (no constraint, or one   *)
(* that matches nothing).                                                *)
VersionResolved ==
    phpVersion # NoVersion =>
        IF DeclaredConstraint # NoVersion
           /\ \E v \in Catalog : Satisfies(v, DeclaredConstraint)
        THEN /\ Satisfies(phpVersion, DeclaredConstraint)
             /\ \A v \in Catalog : Satisfies(v, DeclaredConstraint)
                                     => VersionLeq(v, phpVersion)
        ELSE phpVersion = DefaultPhp

(* The php extensions the app asks for: options.json's PHP_EXTENSIONS in *)
(* place of the built-in set, composer.json's "ext-" keys in any case,   *)
(* and "pdo" for any "ext-pdo_" key.                                     *)
RequestedExtensions ==
    (IF optionsJson # None /\ optionsJson.exts # None
     THEN optionsJson.exts ELSE DefaultPhpExtensions)
      \cup {k.name : k \in {k \in (IF Require = None THEN {} ELSE Require.keys) : k.ext}}
      \cup (IF Require # None /\ \E k \in Require.keys : k.ext /\ k.name \in PdoDrivers
            THEN {"pdo"} ELSE {})

(* The text of a rendered file of the tree, with its context.          *)
Body(tree, ctx, p) == Render(tree[p].tmpl, ctx)

(* The extension blocks the runtime config files render (the            *)
(* {{.PhpExtensions}} actions of php.ini and the like under DepDir) load *)
(* every requested extension exactly once and nothing else.              *)
RunConfigLoadsRequestedExtensions ==
    \A p \in Paths :
        runTree[p].kind = "file" =>
            LET body == Body(runTree, ctxRun, p)
            IN  \A i \in DOMAIN body :
                    runTree[p].tmpl[i] = [k |-> "var", v |-> "PhpExtensions"] =>
                        \A n \in ExtNames :
                            body[i][n] = IF n \in RequestedExtensions THEN 1 ELSE 0

(* The same of the staging config files under /tmp/php_etc, which        *)
(* composer's PHP runs with (PHPRC): the spec's duplicate-free extension *)
(* set, each extension loaded at most once.                              *)
StageConfigLoadsExtensionsOnce ==
    \A p \in Paths :
        stageTree[p].kind = "file" =>
            LET body == Body(stageTree, ctxStage, p)
            IN  \A i \in DOMAIN body :
                    stageTree[p].tmpl[i] = [k |-> "var", v |-> "PhpExtensions"] =>
                        \A n \in ExtNames : body[i][n] =< 1

(* The spec's quirk: the runtime context force-enables openssl, which   *)
(* the running server needs even when the app did not ask for it.       *)
RunContextEnablesOpenssl ==
    ctxRun # None => ctxRun["PhpExtensions"]["openssl"] >= 1

TreeTemplates(tree) == {tree[i].tmpl : i \in DOMAIN tree}
KnownTemplates ==
    UNION {TreeTemplates(t) : t \in {BoxPhp[l] : l \in DOMAIN BoxPhp}
                                    \cup {BoxHttpd} \cup (UserTrees \ {NoFile})}

(* While the run has not failed, the two trees hold the same files, and  *)
(* each pair is the rendering of one template with ctxRun and with       *)
(* ctxStage: the callback's two writes never leave them apart.           *)
ConfigTreesAgree ==
    pc # "Failed" =>
        \A p \in Paths :
            \/ runTree[p] = AbsentFile /\ stageTree[p] = AbsentFile
            \/ \E t \in KnownTemplates :
                   /\ runTree[p] = File(t)
                   /\ stageTree[p] = File(t)

(* The template a destination path ends up rendered from: the app's      *)
(* .bp-config override when it has the file, else the embedded one for   *)
(* the resolved version line.                                            *)
HasFile(tree, f) == tree # NoFile /\ \E i \in DOMAIN tree : tree[i].file = f
TemplateAt(tree, f) == (CHOOSE e \in {tree[i] : i \in DOMAIN tree} : e.file = f).tmpl
ExpectedFile(p) ==
    LET user == TreeOf("user", p[1])
        box == IF p[1] = "php" THEN BoxPhp[versionLine(phpVersion)] ELSE BoxHttpd
    IN  IF HasFile(user, p[2]) THEN File(TemplateAt(user, p[2]))
        ELSE IF HasFile(box, p[2]) THEN File(TemplateAt(box, p[2]))
        ELSE AbsentFile

ConfigWritten == {"InstallComposer", "RunComposer", "InstallVarify",
                  "WriteProfileD", "WriteStartFile", "Done"}

(* Once WriteConfigFiles has returned (so in particular whenever         *)
(* composer runs with PHPRC=/tmp/php_etc/php/etc), both trees hold       *)
(* exactly the rendering of the winning template of every path: an       *)
(* override shadows the embedded file, file by file.                     *)
ConfigInPlace ==
    pc \in ConfigWritten =>
        \A p \in Paths : runTree[p] = ExpectedFile(p) /\ stageTree[p] = ExpectedFile(p)

(* The profile.d script exports PHP_INI_SCAN_DIR exactly when the config *)
(* the app runs with has a php.ini.d file: WriteProfileD looks for the   *)
(* directory in DepDir, which only the walks of WriteConfigFiles, two    *)
(* steps earlier, have filled from the embedded and the override trees.  *)
ScanDirMatchesConfig ==
    "profile.d" \in done =>
        ("PHP_INI_SCAN_DIR" \in done
            <=> \E f \in IniDFiles : ExpectedFile(<<"php", f>>) # AbsentFile)

=============================================================================
