--------------------------- MODULE ExtensionProofs ---------------------------
(***************************************************************************)
(* The runtime config loads the extensions the app asks for: the          *)
(* extension block every {{.PhpExtensions}} action of a file under DepDir *)
(* renders is one line per requested extension.                           *)
(*                                                                         *)
(* The argument: SetupExtensions computes exactly RequestedExtensions     *)
(* from the two documents ReadConfig loaded, which nothing changes after  *)
(* it; WriteConfigFiles binds ctxRun from that set and nothing rebinds    *)
(* it; and no file is written before ctxRun is bound.                     *)
(***************************************************************************)
EXTENDS SupplyProofs

(* The extension set and the runtime context, at every step of Run.      *)
ExtInv ==
    /\ pc \in {"ReadConfig", "SetupPhpVersion", "SetupExtensions"}
          => phpExtensions = None /\ ctxRun = None
    /\ pc \notin {"ReadConfig", "SetupPhpVersion", "SetupExtensions", "Failed"}
          => phpExtensions # None
    /\ phpExtensions # None => phpExtensions = RequestedExtensions
    /\ ctxRun # None => /\ phpExtensions # None
                        /\ ctxRun = RunCtx(webDir, phpExtensions, zendExtensions)
    /\ ctxRun = None => /\ walk.cur = None
                        /\ \A p \in Paths : runTree[p] = AbsentFile

EInv == TypeInv /\ ExtInv


(* The steps that change neither the extension sets, the documents, the *)
(* contexts, the walk nor the trees, and move Run on past                *)
(* SetupExtensions.                                                       *)
LEMMA LaterStepsKeepExt ==
    ASSUME ExtInv,
           \/ InstallHTTPD \/ InstallPHP \/ InstallComposer \/ RunComposer
           \/ InstallVarify \/ WriteProfileD \/ WriteStartFile
    PROVE  ExtInv'
<1> USE DEF ExtInv, Succeed, Fail, NextStep, RunOrder, RequestedExtensions, Require
<1>1. CASE InstallHTTPD  BY <1>1 DEF InstallHTTPD, Install
<1>2. CASE InstallPHP  BY <1>2 DEF InstallPHP, Install
<1>3. CASE InstallComposer  BY <1>3 DEF InstallComposer, Install
<1>4. CASE RunComposer  BY <1>4 DEF RunComposer
<1>5. CASE InstallVarify  BY <1>5 DEF InstallVarify, Install
<1>6. CASE WriteProfileD  BY <1>6 DEF WriteProfileD
<1>7. CASE WriteStartFile  BY <1>7 DEF WriteStartFile, Install
<1>. QED
  BY <1>1, <1>2, <1>3, <1>4, <1>5, <1>6, <1>7

(* SetupExtensions computes RequestedExtensions: the base set (options'  *)
(* PHP_EXTENSIONS or the built-in one) and ComposerExtensions of the     *)
(* require keys.                                                          *)
LEMMA SetupExtensionsExt ==
    ASSUME EInv, SetupExtensions
    PROVE  ExtInv'
<1>1. /\ pc = "SetupExtensions" /\ pc' = "InstallHTTPD"
      /\ UNCHANGED <<optionsJson, composerJson, ctxRun, walk, runTree>>
  BY DEF SetupExtensions, Succeed, NextStep, RunOrder
<1>2. phpExtensions' = RequestedExtensions
  BY DEF SetupExtensions, RequestedExtensions, ComposerExtensions
<1>3. RequestedExtensions' = RequestedExtensions
  BY <1>1 DEF RequestedExtensions, Require
<1>4. phpExtensions' # None
  <2>0. optionsJson # None => optionsJson \in OptionsDoc
    BY DEF EInv, TypeInv, TypeOK
  <2>1. Require # None => ComposerExtensions(Require.keys) \subseteq ExtNames
    BY ExtensionsAssumption DEF EInv, TypeInv, TypeOK, Require, ComposerDoc,
                                ComposerExtensions, RequireKey
  <2>2. phpExtensions' \in SUBSET ExtNames
    BY <2>0, <2>1, ExtensionsAssumption
    DEF SetupExtensions, OptionsDoc, DefaultPhpExtensions
  <2>. QED
    BY <2>2, ExtensionsAssumption
<1>5. ctxRun = None /\ walk.cur = None /\ \A p \in Paths : runTree[p] = AbsentFile
  BY <1>1 DEF EInv, ExtInv
<1>. QED
  BY <1>1, <1>2, <1>3, <1>4, <1>5 DEF ExtInv

(* WriteConfigFiles binds ctxRun from the sets SetupExtensions computed. *)
LEMMA WriteConfigFilesExt ==
    ASSUME ExtInv, WriteConfigFiles
    PROVE  ExtInv'
<1>1. /\ pc = "WriteConfigFiles" /\ pc' = pc /\ ctxRun = None
      /\ ctxRun' = RunCtx(webDir, phpExtensions, zendExtensions)
      /\ walk'.cur = None
      /\ UNCHANGED <<optionsJson, composerJson, webDir, phpExtensions,
                     zendExtensions, runTree>>
  BY DEF WriteConfigFiles
<1>2. phpExtensions # None
  BY <1>1 DEF ExtInv
<1>. QED
  BY <1>1, <1>2 DEF ExtInv, RequestedExtensions, Require

(* The walk steps run with ctxRun bound and leave it and the sets alone. *)
LEMMA WalkStepsExt ==
    ASSUME ExtInv, StartWalk \/ WalkFile \/ EndWalk \/ EndLoop
    PROVE  ExtInv'
<1>1. /\ ctxRun # None /\ pc = "WriteConfigFiles"
      /\ UNCHANGED <<optionsJson, composerJson, webDir, phpExtensions,
                     zendExtensions, ctxRun>>
      /\ pc' \in {pc, "Failed", NextStep("WriteConfigFiles")}
  <2>1. CASE StartWalk  BY <2>1 DEF StartWalk, Succeed, Fail
  <2>2. CASE WalkFile  BY <2>2 DEF WalkFile, ExtInv, Fail
  <2>3. CASE EndWalk  BY <2>3 DEF EndWalk, ExtInv
  <2>4. CASE EndLoop  BY <2>4 DEF EndLoop, Succeed, Fail
  <2>. QED
    BY <2>1, <2>2, <2>3, <2>4
<1>2. NextStep("WriteConfigFiles") \in {"InstallComposer", "InstallVarify"}
  BY DEF NextStep, RunOrder
<1>. QED
  BY <1>1, <1>2 DEF ExtInv, RequestedExtensions, Require

LEMMA InitEInv == Init => EInv
<1>1. Init => ExtInv
  BY DEF Init, ExtInv
<1>. QED
  BY <1>1, InitTypeInv DEF EInv

LEMMA NextEInv ==
    ASSUME EInv, [Next]_vars
    PROVE  EInv'
<1>1. TypeInv'
  BY NextTypeInv DEF EInv
<1>2. ExtInv'
  <2>1. CASE ReadConfig \/ SetupPhpVersion
    <3>1. /\ pc \in {"ReadConfig", "SetupPhpVersion"}
          /\ pc' \in {"SetupPhpVersion", "SetupExtensions", "Failed"}
          /\ UNCHANGED <<phpExtensions, ctxRun, walk, runTree>>
      BY <2>1 DEF ReadConfig, SetupPhpVersion, Succeed, Fail, NextStep, RunOrder
    <3>. QED
      BY <3>1 DEF EInv, ExtInv
  <2>2. CASE SetupExtensions
    BY <2>2, SetupExtensionsExt
  <2>3. CASE WriteConfigFiles
    BY <2>3, WriteConfigFilesExt DEF EInv
  <2>4. CASE StartWalk \/ WalkFile \/ EndWalk \/ EndLoop
    BY <2>4, WalkStepsExt DEF EInv
  <2>5. CASE \/ InstallHTTPD \/ InstallPHP \/ InstallComposer \/ RunComposer
             \/ InstallVarify \/ WriteProfileD \/ WriteStartFile
    BY <2>5, LaterStepsKeepExt DEF EInv
  <2>6. CASE UNCHANGED vars
    BY <2>6 DEF EInv, ExtInv, vars, RequestedExtensions, Require
  <2>. QED
    BY <2>1, <2>2, <2>3, <2>4, <2>5, <2>6 DEF Next
<1>. QED
  BY <1>1, <1>2 DEF EInv

(* A rendered file under DepDir was written with the bound ctxRun, whose *)
(* extension block is one line per requested extension.                  *)
LEMMA EInvLoads ==
    ASSUME EInv
    PROVE  RunConfigLoadsRequestedExtensions
<1>. SUFFICES ASSUME NEW p \in Paths, runTree[p].kind = "file",
                     NEW i \in DOMAIN Body(runTree, ctxRun, p),
                     runTree[p].tmpl[i] = [k |-> "var", v |-> "PhpExtensions"],
                     NEW n \in ExtNames
              PROVE  Body(runTree, ctxRun, p)[i][n]
                        = IF n \in RequestedExtensions THEN 1 ELSE 0
  BY DEF RunConfigLoadsRequestedExtensions
<1>1. ctxRun # None
  BY DEF EInv, ExtInv, AbsentFile
<1>2. ctxRun["PhpExtensions"] = Lines(phpExtensions, ExtNames)
      /\ phpExtensions = RequestedExtensions
  BY <1>1 DEF EInv, ExtInv, RunCtx
<1>3. i \in DOMAIN runTree[p].tmpl
  BY DEF Body, Render
<1> DEFINE tok == runTree[p].tmpl[i]
<1>4. Rewrite(tok) = tok
  BY DEF Rewrite, tok
<1>5. Eval(tok, ctxRun) = ctxRun["PhpExtensions"]
  BY DEF Eval, tok
<1>6. Body(runTree, ctxRun, p)[i] = Eval(Rewrite(tok), ctxRun)
  BY <1>3 DEF Body, Render, tok
<1>7. Body(runTree, ctxRun, p)[i] = ctxRun["PhpExtensions"]
  BY <1>4, <1>5, <1>6
<1>. QED
  BY <1>2, <1>7 DEF Lines

(* In every run of the supply phase, each {{.PhpExtensions}} action of a *)
(* config file rendered under DepDir (the php.ini the app runs with)     *)
(* renders one "extension=<n>.so" line for every extension the app asks  *)
(* for (options.json's PHP_EXTENSIONS or the built-in set, every "ext-"  *)
(* key of composer.json, and pdo for an "ext-pdo_" key) and none for any *)
(* other, whatever the app's files and whichever steps fail.             *)
THEOREM ExtensionsCorrect == Spec => []RunConfigLoadsRequestedExtensions
<1>1. Init => EInv
  BY InitEInv
<1>2. EInv /\ [Next]_vars => EInv'
  BY NextEInv
<1>3. EInv => RunConfigLoadsRequestedExtensions
  BY EInvLoads
<1>. QED
  BY <1>1, <1>2, <1>3, PTL DEF Spec

=============================================================================
