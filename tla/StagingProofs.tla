---------------------------- MODULE StagingProofs ----------------------------
(***************************************************************************)
(* Proofs about the steps of staging after the config trees are written:  *)
(* the profile.d script's PHP_INI_SCAN_DIR (ScanDirMatchesConfig) and the *)
(* release descriptor of the composed buildpack (ReleaseReady).           *)
(*                                                                         *)
(* Both rest on RInv of RenderProofs (the trees hold what the walks have  *)
(* written) and on EffectsInv: Run calls its steps in order, so once it   *)
(* is past a step that step's effect is in done, and done only grows.     *)
(***************************************************************************)
EXTENDS Buildpack, RenderProofs

(* The steps of Run after InstallHTTPD, InstallPHP, InstallVarify and     *)
(* WriteProfileD.                                                         *)
AfterPhp == {"InstallComposer", "RunComposer", "InstallVarify", "WriteProfileD",
             "WriteStartFile", "Done"} \cup {"WriteConfigFiles"}
AfterHttpd == AfterPhp \cup {"InstallPHP"}
AfterVarify == {"WriteProfileD", "WriteStartFile", "Done"}
AfterProfile == {"WriteStartFile", "Done"}

(* Each effect is in done once Run is past its step; profile.d is only   *)
(* there once Run is past WriteProfileD, and PHP_INI_SCAN_DIR only with   *)
(* it.                                                                    *)
EffectsInv ==
    /\ pc \in AfterHttpd => "httpd" \in done
    /\ pc \in AfterPhp => "php" \in done
    /\ pc \in AfterVarify => "varify" \in done
    /\ pc \in AfterProfile => "profile.d" \in done
    /\ "profile.d" \in done => pc \in AfterProfile \cup {"Failed"}
    /\ "PHP_INI_SCAN_DIR" \in done => "profile.d" \in done

SInv == RInv /\ EffectsInv

(* Finalize runs only once supply is done, writes the start script       *)
(* before the release, and the release is written once.                  *)
FinInv ==
    /\ fpc \in F!FSteps
    /\ fpc # "WriteStartFile" => pc = "Done"
    /\ fpc \in {"WriteRelease", "Done"} => startFile = "finalize"
    /\ release = "web" => fpc = "Done"

BInv == SInv /\ FinInv

-----------------------------------------------------------------------------
(***************************************************************************)
(* Run's effects come in the order of its steps.                          *)
(***************************************************************************)

(* Every step of Run adds to done only its own effect: the install steps *)
(* theirs, RunComposer the composer ones, WriteProfileD profile.d and     *)
(* PHP_INI_SCAN_DIR.                                                      *)
LEMMA NextEffectsInv ==
    ASSUME EffectsInv, [Next]_vars
    PROVE  EffectsInv'
<1> USE DEF EffectsInv, AfterPhp, AfterHttpd, AfterVarify, AfterProfile,
            Succeed, Fail, NextStep, RunOrder
<1>1. CASE ReadConfig  BY <1>1 DEF ReadConfig
<1>2. CASE SetupPhpVersion  BY <1>2 DEF SetupPhpVersion
<1>3. CASE SetupExtensions  BY <1>3 DEF SetupExtensions
<1>4. CASE InstallHTTPD  BY <1>4 DEF InstallHTTPD, Install
<1>5. CASE InstallPHP  BY <1>5 DEF InstallPHP, Install
<1>6. CASE WriteConfigFiles  BY <1>6 DEF WriteConfigFiles
<1>7. CASE StartWalk  BY <1>7 DEF StartWalk
<1>8. CASE WalkFile  BY <1>8 DEF WalkFile
<1>9. CASE EndWalk  BY <1>9 DEF EndWalk
<1>10. CASE EndLoop  BY <1>10 DEF EndLoop
<1>11. CASE InstallComposer  BY <1>11 DEF InstallComposer, Install
<1>12. CASE RunComposer  BY <1>12 DEF RunComposer
<1>13. CASE InstallVarify  BY <1>13 DEF InstallVarify, Install
<1>14. CASE WriteProfileD  BY <1>14 DEF WriteProfileD
<1>15. CASE WriteStartFile  BY <1>15 DEF WriteStartFile, Install
<1>16. CASE UNCHANGED vars  BY <1>16 DEF vars
<1>. QED
  BY <1>1, <1>2, <1>3, <1>4, <1>5, <1>6, <1>7, <1>8, <1>9, <1>10, <1>11,
     <1>12, <1>13, <1>14, <1>15, <1>16 DEF Next

LEMMA InitSInv == Init => SInv
<1>1. Init => EffectsInv
  BY DEF Init, EffectsInv, AfterPhp, AfterHttpd, AfterVarify, AfterProfile
<1>. QED
  BY <1>1, InitRInv DEF SInv

LEMMA NextSInv ==
    ASSUME SInv, [Next]_vars
    PROVE  SInv'
BY NextRInv, NextEffectsInv DEF SInv

-----------------------------------------------------------------------------
(***************************************************************************)
(* PHP_INI_SCAN_DIR.  WriteProfileD looks at DepDir's php.ini.d, which    *)
(* ConfigInPlace says is the winning config; after it nothing changes the *)
(* version, the app's files or the two effects.                           *)
(***************************************************************************)

(* A step other than WriteProfileD that leaves profile.d in done found it *)
(* there, and keeps PHP_INI_SCAN_DIR's membership, the version and the   *)
(* app's files.                                                           *)
LEMMA OtherStepsKeepScan ==
    ASSUME EffectsInv, [Next]_vars, ~WriteProfileD, "profile.d" \in done'
    PROVE  /\ "profile.d" \in done
           /\ ("PHP_INI_SCAN_DIR" \in done') = ("PHP_INI_SCAN_DIR" \in done)
           /\ UNCHANGED <<env, phpVersion>>
<1> USE DEF EffectsInv, AfterProfile
<1>1. CASE ReadConfig  BY <1>1 DEF ReadConfig
<1>2. CASE SetupPhpVersion  BY <1>2 DEF SetupPhpVersion
<1>3. CASE SetupExtensions  BY <1>3 DEF SetupExtensions
<1>4. CASE InstallHTTPD  BY <1>4 DEF InstallHTTPD, Install
<1>5. CASE InstallPHP  BY <1>5 DEF InstallPHP, Install
<1>6. CASE WriteConfigFiles  BY <1>6 DEF WriteConfigFiles
<1>7. CASE StartWalk  BY <1>7 DEF StartWalk
<1>8. CASE WalkFile  BY <1>8 DEF WalkFile
<1>9. CASE EndWalk  BY <1>9 DEF EndWalk
<1>10. CASE EndLoop  BY <1>10 DEF EndLoop
<1>11. CASE InstallComposer  BY <1>11 DEF InstallComposer, Install
<1>12. CASE RunComposer  BY <1>12 DEF RunComposer
<1>13. CASE InstallVarify  BY <1>13 DEF InstallVarify, Install
<1>14. CASE WriteStartFile  BY <1>14 DEF WriteStartFile, Install
<1>15. CASE UNCHANGED vars  BY <1>15 DEF vars
<1>. QED
  BY <1>1, <1>2, <1>3, <1>4, <1>5, <1>6, <1>7, <1>8, <1>9, <1>10, <1>11,
     <1>12, <1>13, <1>14, <1>15 DEF Next

(* WriteProfileD runs with the winning config in DepDir, so its look at   *)
(* php.ini.d sees what ExpectedFile says.                                *)
LEMMA WriteProfileDScan ==
    ASSUME UnreadableDirs = {{}}, SInv, WriteProfileD
    PROVE  ScanDirMatchesConfig'
<1> DEFINE scan == \E f \in IniDFiles : runTree[<<"php", f>>] # AbsentFile
           expected == \E f \in IniDFiles : ExpectedFile(<<"php", f>>) # AbsentFile
<1>1. PICK ok \in BOOLEAN :
        /\ pc = "WriteProfileD"
        /\ IF ok THEN /\ done' = done \cup {"profile.d"}
                                    \cup (IF scan THEN {"PHP_INI_SCAN_DIR"} ELSE {})
                 ELSE UNCHANGED done
        /\ UNCHANGED <<env, phpVersion, runTree>>
  BY DEF WriteProfileD, scan
<1>2. "PHP_INI_SCAN_DIR" \notin done /\ "profile.d" \notin done
  BY <1>1 DEF SInv, EffectsInv, AfterProfile
<1>3. ConfigInPlace
  BY RInvConfig DEF SInv
<1>4. scan = expected
  <2>1. \A f \in IniDFiles : <<"php", f>> \in Paths
    BY SupplyAssumption DEF Paths, Dests
  <2>2. \A f \in IniDFiles : runTree[<<"php", f>>] = ExpectedFile(<<"php", f>>)
    BY <1>1, <1>3, <2>1 DEF ConfigInPlace, ConfigWritten
  <2>. QED
    BY <2>2 DEF scan, expected
<1>5. expected' = expected
  BY <1>1 DEF expected, ExpectedFile, TreeOf, HasFile, TemplateAt
<1>. QED
  BY <1>1, <1>2, <1>4, <1>5 DEF ScanDirMatchesConfig, scan, expected

LEMMA NextScan ==
    ASSUME UnreadableDirs = {{}}, SInv, ScanDirMatchesConfig, [Next]_vars
    PROVE  ScanDirMatchesConfig'
<1>1. CASE WriteProfileD
  BY <1>1, WriteProfileDScan
<1>2. CASE ~WriteProfileD
  <2>. SUFFICES ASSUME "profile.d" \in done'
                PROVE  ("PHP_INI_SCAN_DIR" \in done'
                         <=> \E f \in IniDFiles : ExpectedFile(<<"php", f>>)' # AbsentFile)
    BY DEF ScanDirMatchesConfig
  <2>1. /\ "profile.d" \in done
        /\ ("PHP_INI_SCAN_DIR" \in done') = ("PHP_INI_SCAN_DIR" \in done)
        /\ UNCHANGED <<env, phpVersion>>
    BY <1>2, OtherStepsKeepScan DEF SInv
  <2>2. \A f \in IniDFiles : ExpectedFile(<<"php", f>>)' = ExpectedFile(<<"php", f>>)
    BY <2>1 DEF ExpectedFile, TreeOf, HasFile, TemplateAt
  <2>. QED
    BY <2>1, <2>2 DEF ScanDirMatchesConfig
<1>. QED
  BY <1>1, <1>2

(* The profile.d script Run writes exports PHP_INI_SCAN_DIR exactly when *)
(* the winning php config (the app's .bp-config/php over the embedded    *)
(* templates of the resolved line) has a php.ini.d file: WriteProfileD's *)
(* look at DepDir, two steps after WriteConfigFiles, sees the rendered   *)
(* trees.  As for ConfigCorrect, every override directory can be listed. *)
THEOREM ScanDirCorrect ==
    ASSUME UnreadableDirs = {{}}
    PROVE  Spec => []ScanDirMatchesConfig
<1>1. Init => SInv /\ ScanDirMatchesConfig
  BY InitSInv DEF Init, ScanDirMatchesConfig
<1>2. SInv /\ ScanDirMatchesConfig /\ [Next]_vars => SInv' /\ ScanDirMatchesConfig'
  BY NextSInv, NextScan
<1>. QED
  BY <1>1, <1>2, PTL DEF Spec

-----------------------------------------------------------------------------
(***************************************************************************)
(* The release of the composed buildpack.                                 *)
(***************************************************************************)

(* Supply has no step once Run has returned nil.                          *)
LEMMA NoStepAtDone ==
    ASSUME Next
    PROVE  pc # "Done"
BY DEF Next, ReadConfig, SetupPhpVersion, SetupExtensions, InstallHTTPD,
       InstallPHP, WriteConfigFiles, StartWalk, WalkFile, EndWalk, EndLoop,
       InstallComposer, RunComposer, InstallVarify, WriteProfileD,
       WriteStartFile, Install

(* When supply is done, the two files the start script hands to php-fpm  *)
(* and apachectl are rendered files in DepDir: the embedded trees have   *)
(* them, and the embedded walks wrote every file of their trees (an      *)
(* override of the same file is a rendered file too).                    *)
LEMMA StartReadsPlaced ==
    ASSUME RInv, pc = "Done", NEW p \in StartReads
    PROVE  runTree[p].kind = "file"
<1> DEFINE d == p[1]
           f == p[2]
           u == TreeOf("user", d)
           b == TreeOf("box", d)
<1>1. p \in Paths /\ d \in Dests /\ f \in Files
  BY BuildpackAssumption DEF StartReads, Paths, Dests
<1>2. /\ ctxRun # None
      /\ walk.phase = "user" /\ walk.todo = {} /\ walk.cur = None
      /\ versionLine(phpVersion) \in DOMAIN BoxPhp
  BY DEF RInv, WalkShape, ConfigWritten, Configuring
<1>3. runTree[p] = Placed(p)
  BY <1>1 DEF RInv, PlacedInv
<1>4. /\ b \in Tree /\ DistinctFiles(b) /\ b # NoFile
      /\ HasFile(b, f)
  BY <1>1, <1>2, SupplyAssumption, BuildpackAssumption DEF TreeOf, StartReads, Dests
<1>5. Has(b, BoxDone(d), f)
  BY <1>2, <1>4, FullTree DEF BoxDone, HasFile
<1>6. \A t, n : AtOf(t, n, f).kind = "file"
  BY DEF AtOf, File
<1>. QED
  BY <1>3, <1>5, <1>6 DEF Placed

(* A step of finalize keeps FinInv: it runs at supply's Done, writes the *)
(* start script first, and the release once.                             *)
LEMMA FinalizeStep ==
    ASSUME FinInv, pc = "Done", F!Next, UNCHANGED vars
    PROVE  FinInv'
<1> USE DEF FinInv, F!FSteps, F!AfterFailedWrite
<1>1. CASE F!WriteStartFile  BY <1>1 DEF F!WriteStartFile, vars
<1>2. CASE F!WriteRelease  BY <1>2 DEF F!WriteRelease, vars
<1>. QED
  BY <1>1, <1>2 DEF F!Next

LEMMA BuildpackInitBInv == BuildpackInit => BInv
<1>1. F!Init => FinInv
  BY DEF F!Init, FinInv, F!FSteps
<1>. QED
  BY <1>1, InitSInv DEF BuildpackInit, BInv

LEMMA BuildpackNextBInv ==
    ASSUME BInv, [BuildpackNext]_allVars
    PROVE  BInv'
<1>1. CASE Next /\ UNCHANGED <<fpc, startFile, release>>
  <2>1. SInv'
    BY <1>1, NextSInv DEF BInv
  <2>2. pc # "Done"
    BY <1>1, NoStepAtDone
  <2>3. FinInv'
    BY <1>1, <2>2 DEF BInv, FinInv
  <2>. QED
    BY <2>1, <2>3 DEF BInv
<1>2. CASE pc = "Done" /\ F!Next /\ UNCHANGED vars
  <2>1. SInv'
    BY <1>2, NextSInv DEF BInv
  <2>2. FinInv'
    BY <1>2, FinalizeStep DEF BInv
  <2>. QED
    BY <2>1, <2>2 DEF BInv
<1>3. CASE UNCHANGED allVars
  <2>1. SInv'
    BY <1>3, NextSInv DEF BInv, allVars
  <2>2. FinInv'
    BY <1>3 DEF BInv, FinInv, allVars, vars
  <2>. QED
    BY <2>1, <2>2 DEF BInv
<1>. QED
  BY <1>1, <1>2, <1>3 DEF BuildpackNext

LEMMA BInvReleaseReady ==
    ASSUME UnreadableDirs = {{}}, BInv
    PROVE  ReleaseReady
<1>. SUFFICES ASSUME release = "web"
              PROVE  /\ startFile = "finalize"
                     /\ \A p \in StartReads : runTree[p].kind = "file" /\ runTree[p] = ExpectedFile(p)
                     /\ {"httpd", "php", "varify", "profile.d"} \subseteq done
  BY DEF ReleaseReady
<1>1. fpc = "Done" /\ pc = "Done" /\ startFile = "finalize"
  BY DEF BInv, FinInv
<1>2. \A p \in StartReads : runTree[p].kind = "file"
  BY <1>1, StartReadsPlaced DEF BInv, SInv
<1>3. ConfigInPlace
  BY RInvConfig DEF BInv, SInv
<1>4. \A p \in StartReads : runTree[p] = ExpectedFile(p)
  <2>1. StartReads \subseteq Paths
    BY BuildpackAssumption DEF StartReads, Paths, Dests
  <2>2. pc \in ConfigWritten
    BY <1>1 DEF ConfigWritten
  <2>. QED
    BY <1>3, <2>1, <2>2 DEF ConfigInPlace
<1>5. {"httpd", "php", "varify", "profile.d"} \subseteq done
  BY <1>1 DEF BInv, SInv, EffectsInv, AfterPhp, AfterHttpd, AfterVarify, AfterProfile
<1>. QED
  BY <1>1, <1>2, <1>4, <1>5

(* In every run of staging (supply, then finalize after supply returned  *)
(* nil) of an app whose .bp-config override directories can be listed,   *)
(* the release descriptor that names php_buildpack_start as the web      *)
(* process is only written when that script is finalize's complete text, *)
(* php-fpm.conf and httpd.conf in DepDir are the renderings of the app's *)
(* override or, failing one, of the embedded template, and varify and    *)
(* the profile.d script are in place.  The run MCSupply_unreadable shows *)
(* why the hypothesis is needed: an unlistable override is skipped.      *)
THEOREM ReleaseCorrect ==
    ASSUME UnreadableDirs = {{}}
    PROVE  BuildpackSpec => []ReleaseReady
<1>1. BuildpackInit => BInv
  BY BuildpackInitBInv
<1>2. BInv /\ [BuildpackNext]_allVars => BInv'
  BY BuildpackNextBInv
<1>3. BInv => ReleaseReady
  BY BInvReleaseReady
<1>. QED
  BY <1>1, <1>2, <1>3, PTL DEF BuildpackSpec

=============================================================================
