---------------------------- MODULE SupplyProofs ----------------------------
(***************************************************************************)
(* Proofs about the supply state machine of Supply.tla, for every value    *)
(* of its constants that meets the assumptions of PhpVersion, Extensions,  *)
(* ConfigFiles and Supply.                                                 *)
(***************************************************************************)
EXTENDS Supply, SequenceTheorems, TLAPS

(* FindMatchingVersion returns a catalog version or the error result:     *)
(* the CHOOSE of a highest matching version always has a witness.         *)
LEMMA FindMatchingType ==
    ASSUME NEW c
    PROVE  FindMatchingVersion(c, Catalog) \in Catalog \cup {NoVersion}
<1> DEFINE ok == {v \in Catalog : Satisfies(v, c)}
<1>1. CASE ok = {}
  BY <1>1 DEF FindMatchingVersion
<1>2. CASE ok # {}
  <2>1. \E v \in ok : \A w \in ok : VersionLeq(w, v)
    BY <1>2, CatalogAssumption
  <2>2. (CHOOSE v \in ok : \A w \in ok : VersionLeq(w, v)) \in ok
    BY <2>1
  <2>. QED
    BY <1>2, <2>2 DEF FindMatchingVersion
<1>. QED
  BY <1>1, <1>2

(* Both binding contexts WriteConfigFiles builds are maps of the Ctx type *)
(* whatever extension sets they are built from.                           *)
LEMMA ContextsType ==
    ASSUME NEW w \in WebDirs \cup {EmptyText}, NEW pe, NEW ze
    PROVE  /\ RunCtx(w, pe, ze) \in Ctx
           /\ StageCtx(RunCtx(w, pe, ze)) \in Ctx
<1>1. /\ Lines(pe, ExtNames) \in [ExtNames -> 0..1]
      /\ Lines(ze, ZendNames) \in [ZendNames -> 0..1]
  BY DEF Lines
<1>2. RunCtx(w, pe, ze) \in Ctx
  BY <1>1 DEF RunCtx, Ctx, CtxText, ExtBlock, ZendBlock
<1>3. StageCtx(RunCtx(w, pe, ze)) \in Ctx
  BY <1>1, <1>2 DEF StageCtx, RunCtx, Ctx, CtxText, ExtBlock, ZendBlock
<1>. QED
  BY <1>2, <1>3

(***************************************************************************)
(* Type correctness.  TypeOK alone is not inductive: WalkFile reads       *)
(* TreeOf(walk.phase, walk.cur)[walk.pos], which is a tree entry only     *)
(* because StartWalk entered the walk after checking that the embedded    *)
(* directory of the version line exists (or the override directory does), *)
(* and because no step before WriteConfigFiles, where phpVersion changes, *)
(* runs while a walk is in progress.                                      *)
(***************************************************************************)
WalkOK ==
    walk.cur # None =>
        /\ pc \in {"WriteConfigFiles", "Failed"}
        /\ walk.pos \in Nat \ {0}
        /\ TreeOf(walk.phase, walk.cur) \in Tree

TypeInv == TypeOK /\ WalkOK

(* Run's successor of every step is a step.                               *)
LEMMA NextStepType ==
    ASSUME NEW s \in DOMAIN RunOrder
    PROVE  NextStep(s) \in Steps
BY DEF NextStep, RunOrder, Steps

LEMMA InitTypeInv == Init => TypeInv
<1>. SUFFICES ASSUME Init PROVE TypeInv
  OBVIOUS
<1>1. /\ pc \in Steps /\ done \subseteq Effects
      /\ webDir \in WebDirs \cup {EmptyText} /\ phpVersion \in Catalog \cup {NoVersion}
      /\ optionsJson \in OptionsDoc \cup {None} /\ composerJson \in ComposerDoc \cup {None}
      /\ composerPath \in {None, "root", "path"}
      /\ phpExtensions \in (SUBSET ExtNames) \cup {None}
      /\ zendExtensions \in (SUBSET ZendNames) \cup {None}
      /\ ctxRun \in Ctx \cup {None} /\ ctxStage \in Ctx \cup {None}
  BY DEF Init, Steps
<1>2. walk \in [phase : {"box", "user"}, todo : SUBSET Dests,
                cur : Dests \cup {None}, pos : Nat]
  BY DEF Init
<1>3. runTree \in [Paths -> Content] /\ stageTree \in [Paths -> Content]
  BY DEF Init, Content, AbsentFile
<1>4. TypeOK
  BY <1>1, <1>2, <1>3 DEF Init, TypeOK
<1>5. WalkOK
  BY DEF Init, WalkOK
<1>. QED
  BY <1>4, <1>5 DEF TypeInv

(* No walk is in progress at a step of Run other than WriteConfigFiles.  *)
LEMMA NoWalkOutside ==
    ASSUME TypeInv, pc \notin {"WriteConfigFiles", "Failed"}
    PROVE  walk.cur = None
BY DEF TypeInv, WalkOK

(* A step that changes at most pc and done, outside WriteConfigFiles,     *)
(* keeps the invariant when pc stays a step and done a set of effects.    *)
LEMMA PcDoneStep ==
    ASSUME TypeInv, walk.cur = None, pc' \in Steps, done' \subseteq Effects,
           UNCHANGED <<env, optionsJson, composerPath, composerJson, webDir,
                       phpVersion, phpExtensions, zendExtensions, ctxRun,
                       ctxStage, walk, runTree, stageTree>>
    PROVE  TypeInv'
BY DEF TypeInv, TypeOK, WalkOK

LEMMA InstallTypeInv ==
    ASSUME TypeInv, NEW st \in DOMAIN RunOrder \ {"WriteConfigFiles"},
           NEW e \in Effects, NEW ok, Install(st, e, ok)
    PROVE  TypeInv'
<1>1. walk.cur = None
  BY NoWalkOutside DEF Install, RunOrder
<1>2. pc' \in Steps
  BY NextStepType DEF Install, Succeed, Fail, Steps
<1>3. done' \subseteq Effects
  BY DEF Install, TypeInv, TypeOK
<1>. QED
  BY <1>1, <1>2, <1>3, PcDoneStep DEF Install

LEMMA RunComposerTypeInv ==
    ASSUME TypeInv, RunComposer
    PROVE  TypeInv'
<1>1. walk.cur = None
  BY NoWalkOutside DEF RunComposer
<1>2. pc' \in Steps
  BY NextStepType DEF RunComposer, Succeed, Fail, Steps, RunOrder
<1>3. done' \subseteq Effects
  BY DEF RunComposer, TypeInv, TypeOK, Effects
<1>. QED
  BY <1>1, <1>2, <1>3, PcDoneStep DEF RunComposer

LEMMA WriteProfileDTypeInv ==
    ASSUME TypeInv, WriteProfileD
    PROVE  TypeInv'
<1>1. walk.cur = None
  BY NoWalkOutside DEF WriteProfileD
<1>2. pc' \in Steps
  BY NextStepType DEF WriteProfileD, Succeed, Fail, Steps, RunOrder
<1>3. done' \subseteq Effects
  BY DEF WriteProfileD, TypeInv, TypeOK, Effects
<1>. QED
  BY <1>1, <1>2, <1>3, PcDoneStep DEF WriteProfileD

(* WriteConfigFiles binds the two contexts and starts the embedded loop. *)
LEMMA WriteConfigFilesTypeInv ==
    ASSUME TypeInv, WriteConfigFiles
    PROVE  TypeInv'
<1>1. ctxRun' \in Ctx /\ ctxStage' \in Ctx
  BY ContextsType DEF WriteConfigFiles, TypeInv, TypeOK
<1>2. walk' \in [phase : {"box", "user"}, todo : SUBSET Dests,
                 cur : Dests \cup {None}, pos : Nat] /\ walk'.cur = None
  BY DEF WriteConfigFiles
<1>. QED
  BY <1>1, <1>2 DEF WriteConfigFiles, TypeInv, TypeOK, WalkOK

(* ReadConfig: a document that was found and parsed is of its type.      *)
LEMMA ReadConfigTypeInv ==
    ASSUME TypeInv, ReadConfig
    PROVE  TypeInv'
<1> DEFINE opts == IF env.options \in {NoFile, Invalid} THEN None ELSE env.options
           path == IF env.pathComposer \notin {None, NoFile} THEN "path"
                   ELSE IF env.rootComposer # NoFile THEN "root" ELSE None
           cfile == IF path = "path" THEN env.pathComposer ELSE env.rootComposer
<1>1. env \in Env
  BY DEF TypeInv, TypeOK
<1>2. opts \in OptionsDoc \cup {None}
  BY <1>1, SupplyAssumption DEF Env
<1>3. path # None /\ cfile # Invalid => cfile \in ComposerDoc
  BY <1>1, SupplyAssumption DEF Env
<1>4. (IF opts # None /\ opts.webdir # None THEN opts.webdir ELSE EmptyText)
        \in WebDirs \cup {EmptyText}
  BY <1>2 DEF OptionsDoc
<1>5. walk.cur = None /\ NextStep("ReadConfig") \in Steps
  BY NoWalkOutside, NextStepType DEF ReadConfig, RunOrder
<1>6. CASE env.options = Invalid
  BY <1>5, <1>6 DEF ReadConfig, Fail, TypeInv, TypeOK, WalkOK, Steps
<1>7. CASE env.options # Invalid
  <2>1. /\ optionsJson' = opts
        /\ webDir' = IF opts # None /\ opts.webdir # None THEN opts.webdir ELSE EmptyText
        /\ composerPath' = path
        /\ composerJson' \in {composerJson, IF path # None THEN cfile ELSE None}
        /\ pc' \in {NextStep("ReadConfig"), "Failed"}
        /\ (composerJson' # composerJson => cfile # Invalid \/ path = None)
    BY <1>7 DEF ReadConfig, Succeed, Fail
  <2>2. composerJson' \in ComposerDoc \cup {None}
    BY <2>1, <1>3 DEF TypeInv, TypeOK
  <2>. QED
    BY <1>2, <1>4, <1>5, <2>1, <2>2 DEF ReadConfig, TypeInv, TypeOK, WalkOK, Steps
<1>. QED
  BY <1>6, <1>7

(* SetupPhpVersion picks a catalog version, or fails.                     *)
LEMMA SetupPhpVersionTypeInv ==
    ASSUME TypeInv, SetupPhpVersion
    PROVE  TypeInv'
<1> DEFINE fromOptions == IF optionsJson # None /\ optionsJson.php # None
                          THEN ExpandAlias(optionsJson.php) ELSE NoVersion
           requested == IF Require # None /\ Require.php # None
                        THEN ComposerConstraint(Require.php) ELSE fromOptions
<1>0. FindMatchingVersion(requested, Catalog) \in Catalog \cup {NoVersion}
  BY FindMatchingType
<1>1. phpVersion' \in Catalog \cup {NoVersion}
  <2>1. phpVersion' \in {FindMatchingVersion(requested, Catalog), NoVersion,
                         DefaultPhp, phpVersion}
    BY DEF SetupPhpVersion
  <2>. QED
    BY <1>0, <2>1, CatalogAssumption DEF TypeInv, TypeOK
<1>2. walk.cur = None /\ NextStep("SetupPhpVersion") \in Steps
  BY NoWalkOutside, NextStepType DEF SetupPhpVersion, RunOrder
<1>. QED
  BY <1>1, <1>2 DEF SetupPhpVersion, Succeed, Fail, TypeInv, TypeOK, WalkOK, Steps

(* SetupExtensions collects names of ExtNames only.                       *)
LEMMA SetupExtensionsTypeInv ==
    ASSUME TypeInv, SetupExtensions
    PROVE  TypeInv'
<1>1. optionsJson # None => optionsJson \in OptionsDoc
  BY DEF TypeInv, TypeOK
<1>2. Require # None => Require.keys \subseteq RequireKey
  BY DEF TypeInv, TypeOK, Require, ComposerDoc
<1>3. Require # None => ComposerExtensions(Require.keys) \subseteq ExtNames
  BY <1>2, ExtensionsAssumption DEF ComposerExtensions, RequireKey
<1>4. phpExtensions' \subseteq ExtNames
  BY <1>1, <1>3, ExtensionsAssumption DEF SetupExtensions, OptionsDoc, DefaultPhpExtensions
<1>5. zendExtensions' \subseteq ZendNames
  BY <1>1 DEF SetupExtensions, OptionsDoc
<1>6. walk.cur = None /\ NextStep("SetupExtensions") \in Steps
  BY NoWalkOutside, NextStepType DEF SetupExtensions, RunOrder
<1>. QED
  BY <1>4, <1>5, <1>6 DEF SetupExtensions, Succeed, TypeInv, TypeOK, WalkOK, Steps

(* The trees a walk may enter: the embedded ones of a version line the    *)
(* box has, and an override directory that exists.                       *)
LEMMA TreeOfType ==
    ASSUME TypeOK, NEW ph \in {"box", "user"}, NEW d \in Dests,
           ph = "box" /\ d = "php" => versionLine(phpVersion) \in DOMAIN BoxPhp,
           ph = "user" => TreeOf("user", d) # NoFile
    PROVE  TreeOf(ph, d) \in Tree
<1>1. env.userPhp \in Tree \cup {NoFile} /\ env.userHttpd \in Tree \cup {NoFile}
  BY SupplyAssumption DEF TypeOK, Env
<1>. QED
  BY <1>1, SupplyAssumption DEF TreeOf, Dests

LEMMA StartWalkTypeInv ==
    ASSUME TypeInv, StartWalk
    PROVE  TypeInv'
<1>1. PICK d \in walk.todo :
        /\ pc = "WriteConfigFiles" /\ ctxRun # None /\ walk.cur = None
        /\ IF walk.phase = "box" /\ d = "php"
                /\ versionLine(phpVersion) \notin DOMAIN BoxPhp
           THEN Fail /\ UNCHANGED walk
           ELSE IF walk.phase = "user" /\ OverrideSkipped(d)
           THEN walk' = [walk EXCEPT !.todo = @ \ {d}] /\ UNCHANGED pc
           ELSE walk' = [walk EXCEPT !.cur = d, !.pos = 1] /\ UNCHANGED pc
        /\ UNCHANGED <<env, optionsJson, composerPath, composerJson, webDir,
                       phpVersion, phpExtensions, zendExtensions, ctxRun,
                       ctxStage, runTree, stageTree, done>>
  BY DEF StartWalk
<1>2. d \in Dests /\ TypeOK
  BY DEF TypeInv, TypeOK
<1>3. CASE walk.phase = "box" /\ d = "php" /\ versionLine(phpVersion) \notin DOMAIN BoxPhp
  BY <1>1, <1>3 DEF Fail, TypeInv, TypeOK, WalkOK, Steps
<1>4. CASE walk.phase = "user" /\ OverrideSkipped(d)
  BY <1>1, <1>4 DEF TypeInv, TypeOK, WalkOK
<1>5. CASE ~(walk.phase = "box" /\ d = "php" /\ versionLine(phpVersion) \notin DOMAIN BoxPhp)
          /\ ~(walk.phase = "user" /\ OverrideSkipped(d))
  <2>1. TreeOf(walk.phase, d) \in Tree
    BY <1>2, <1>5, TreeOfType DEF TypeOK, OverrideSkipped
  <2>2. walk' = [walk EXCEPT !.cur = d, !.pos = 1] /\ pc' = pc
    BY <1>1, <1>5
  <2>3. walk' \in [phase : {"box", "user"}, todo : SUBSET Dests,
                   cur : Dests \cup {None}, pos : Nat]
    BY <1>2, <2>2 DEF TypeOK
  <2>4. TypeOK'
    BY <1>1, <2>2, <2>3 DEF TypeInv, TypeOK
  <2>5. (IF walk'.phase = "box"
         THEN IF walk'.cur = "php" THEN BoxPhp[versionLine(phpVersion')] ELSE BoxHttpd
         ELSE IF walk'.cur = "php" THEN env'.userPhp ELSE env'.userHttpd) \in Tree
    BY <1>1, <2>1, <2>2 DEF TreeOf
  <2>6. WalkOK'
    BY <1>1, <2>2, <2>5 DEF WalkOK, TreeOf
  <2>. QED
    BY <2>4, <2>6 DEF TypeInv
<1>. QED
  BY <1>3, <1>4, <1>5

LEMMA EndWalkTypeInv ==
    ASSUME TypeInv, EndWalk
    PROVE  TypeInv'
BY DEF EndWalk, TypeInv, TypeOK, WalkOK

LEMMA EndLoopTypeInv ==
    ASSUME TypeInv, EndLoop
    PROVE  TypeInv'
<1>1. NextStep("WriteConfigFiles") \in Steps
  BY NextStepType DEF RunOrder
<1>. QED
  BY <1>1 DEF EndLoop, Succeed, TypeInv, TypeOK, WalkOK

(* The walk callback writes, in both trees, the file of the current      *)
(* entry: a rendering, a truncated file, or what was there.              *)
LEMMA WalkFileTypeInv ==
    ASSUME TypeInv, WalkFile
    PROVE  TypeInv'
<1> DEFINE T == TreeOf(walk.phase, walk.cur)
           entry == T[walk.pos]
           path == <<walk.cur, entry.file>>
<1>1. /\ pc = "WriteConfigFiles" /\ walk.cur # None /\ walk.pos =< Len(T)
      /\ UNCHANGED <<env, optionsJson, composerPath, composerJson, webDir,
                     phpVersion, phpExtensions, zendExtensions, ctxRun,
                     ctxStage, done>>
  BY DEF WalkFile
<1>2. T \in Tree /\ walk.pos \in 1..Len(T) /\ walk.cur \in Dests
  BY <1>1 DEF TypeInv, TypeOK, WalkOK
<1>3. entry \in [file : Files, tmpl : Template]
  BY <1>2, ElementOfSeq DEF Tree
<1>4. path \in Paths /\ File(entry.tmpl) \in Content /\ TornFile \in Content
  BY <1>2, <1>3 DEF Paths, File, Content, TornFile
<1>5. /\ runTree' = [runTree EXCEPT ![path] = runTree'[path]]
      /\ stageTree' = [stageTree EXCEPT ![path] = stageTree'[path]]
      /\ runTree'[path] \in {File(entry.tmpl), TornFile, runTree[path]}
      /\ stageTree'[path] \in {File(entry.tmpl), TornFile, stageTree[path]}
      /\ \/ pc' = "Failed" /\ walk' = walk
         \/ pc' = pc /\ walk' = [walk EXCEPT !.pos = @ + 1]
  <2>1. CASE ~Parses(entry.tmpl)
    BY <1>4, <2>1 DEF WalkFile, Fail, TypeInv, TypeOK
  <2>2. CASE Parses(entry.tmpl)
    <3>1. PICK runFirst \in BOOLEAN, written \in 0..2, torn \in BOOLEAN :
            LET rank(isRun) == IF isRun = runFirst THEN 1 ELSE 2
                out(isRun, old) ==
                    IF rank(isRun) =< written THEN File(entry.tmpl)
                    ELSE IF rank(isRun) = written + 1 /\ torn THEN TornFile
                    ELSE old
            IN  /\ runTree' = [runTree EXCEPT ![path] = out(TRUE, @)]
                /\ stageTree' = [stageTree EXCEPT ![path] = out(FALSE, @)]
                /\ IF written = 2
                   THEN walk' = [walk EXCEPT !.pos = @ + 1] /\ UNCHANGED pc
                   ELSE Fail /\ UNCHANGED walk
      BY <2>2 DEF WalkFile
    <3>. QED
      BY <1>4, <3>1 DEF Fail, TypeInv, TypeOK
  <2>. QED
    BY <2>1, <2>2
<1>6. TypeOK'
  BY <1>1, <1>2, <1>4, <1>5 DEF TypeInv, TypeOK, Steps
<1>7. WalkOK'
  <2>1. walk'.phase = walk.phase /\ walk'.cur = walk.cur /\ walk'.pos \in Nat \ {0}
    BY <1>2, <1>5 DEF TypeInv, TypeOK
  <2>2. (IF walk'.phase = "box"
         THEN IF walk'.cur = "php" THEN BoxPhp[versionLine(phpVersion')] ELSE BoxHttpd
         ELSE IF walk'.cur = "php" THEN env'.userPhp ELSE env'.userHttpd) \in Tree
    BY <1>1, <1>2, <2>1 DEF TreeOf
  <2>. QED
    BY <1>1, <1>5, <2>1, <2>2 DEF WalkOK, TreeOf
<1>. QED
  BY <1>6, <1>7 DEF TypeInv

LEMMA NextTypeInv ==
    ASSUME TypeInv, [Next]_vars
    PROVE  TypeInv'
<1>1. CASE ReadConfig  BY <1>1, ReadConfigTypeInv
<1>2. CASE SetupPhpVersion  BY <1>2, SetupPhpVersionTypeInv
<1>3. CASE SetupExtensions  BY <1>3, SetupExtensionsTypeInv
<1>4. CASE InstallHTTPD  BY <1>4, InstallTypeInv DEF InstallHTTPD, RunOrder, Effects
<1>5. CASE InstallPHP  BY <1>5, InstallTypeInv DEF InstallPHP, RunOrder, Effects
<1>6. CASE WriteConfigFiles  BY <1>6, WriteConfigFilesTypeInv
<1>7. CASE StartWalk  BY <1>7, StartWalkTypeInv
<1>8. CASE WalkFile  BY <1>8, WalkFileTypeInv
<1>9. CASE EndWalk  BY <1>9, EndWalkTypeInv
<1>10. CASE EndLoop  BY <1>10, EndLoopTypeInv
<1>11. CASE InstallComposer  BY <1>11, InstallTypeInv DEF InstallComposer, RunOrder, Effects
<1>12. CASE RunComposer  BY <1>12, RunComposerTypeInv
<1>13. CASE InstallVarify  BY <1>13, InstallTypeInv DEF InstallVarify, RunOrder, Effects
<1>14. CASE WriteProfileD  BY <1>14, WriteProfileDTypeInv
<1>15. CASE WriteStartFile  BY <1>15, InstallTypeInv DEF WriteStartFile, RunOrder, Effects
<1>16. CASE UNCHANGED vars  BY <1>16 DEF TypeInv, TypeOK, WalkOK, TreeOf, vars
<1>. QED
  BY <1>1, <1>2, <1>3, <1>4, <1>5, <1>6, <1>7, <1>8, <1>9, <1>10, <1>11,
     <1>12, <1>13, <1>14, <1>15, <1>16 DEF Next

(* Every state of every run of the supply phase is well typed: in          *)
(* particular phpVersion is always a catalog version (or not yet chosen), *)
(* the two binding contexts are contexts, and the walk callback only ever *)
(* reads an entry of a tree that exists.                                  *)
THEOREM TypeCorrect == Spec => []TypeOK
<1>1. Init => TypeInv
  BY InitTypeInv
<1>2. TypeInv /\ [Next]_vars => TypeInv'
  BY NextTypeInv
<1>3. TypeInv => TypeOK
  BY DEF TypeInv
<1>. QED
  BY <1>1, <1>2, <1>3, PTL DEF Spec

(***************************************************************************)
(* The two config trees agree.  ConfigTreesAgree is made inductive by     *)
(* TypeInv and by WalkKnown: a walk in progress reads one of the trees    *)
(* whose templates KnownTemplates collects.  Only WalkFile writes files,  *)
(* and it either writes both copies of the entry or ends the run in       *)
(* "Failed", where nothing is claimed and no step is enabled.             *)
(***************************************************************************)
WalkTrees == {BoxPhp[l] : l \in DOMAIN BoxPhp} \cup {BoxHttpd} \cup (UserTrees \ {NoFile})

WalkKnown == walk.cur # None => TreeOf(walk.phase, walk.cur) \in WalkTrees

AgreeInv == TypeInv /\ WalkKnown /\ ConfigTreesAgree

LEMMA InitAgreeInv == Init => AgreeInv
<1>. SUFFICES ASSUME Init PROVE AgreeInv
  OBVIOUS
<1>1. WalkKnown /\ ConfigTreesAgree
  BY DEF Init, WalkKnown, ConfigTreesAgree
<1>. QED
  BY <1>1, InitTypeInv DEF AgreeInv

(* Every step but WalkFile leaves both trees alone and starts from a      *)
(* state that has not failed.                                             *)
LEMMA OtherStepsKeepTrees ==
    ASSUME [Next]_vars, ~WalkFile
    PROVE  /\ UNCHANGED <<runTree, stageTree>>
           /\ pc = "Failed" => UNCHANGED vars
BY DEF Next, vars, ReadConfig, SetupPhpVersion, SetupExtensions, InstallHTTPD,
       InstallPHP, WriteConfigFiles, StartWalk, EndWalk, EndLoop, InstallComposer,
       RunComposer, InstallVarify, WriteProfileD, WriteStartFile, Install

LEMMA StartWalkKnown ==
    ASSUME TypeInv, StartWalk
    PROVE  WalkKnown'
<1>1. PICK d \in walk.todo :
        /\ walk.cur = None
        /\ IF walk.phase = "box" /\ d = "php"
                /\ versionLine(phpVersion) \notin DOMAIN BoxPhp
           THEN Fail /\ UNCHANGED walk
           ELSE IF walk.phase = "user" /\ OverrideSkipped(d)
           THEN walk' = [walk EXCEPT !.todo = @ \ {d}] /\ UNCHANGED pc
           ELSE walk' = [walk EXCEPT !.cur = d, !.pos = 1] /\ UNCHANGED pc
        /\ UNCHANGED <<env, phpVersion>>
  BY DEF StartWalk
<1>2. d \in Dests /\ walk.phase \in {"box", "user"}
      /\ env.userPhp \in UserTrees /\ env.userHttpd \in UserTrees
  BY DEF TypeInv, TypeOK, Env
<1>3. CASE walk'.cur = None
  BY <1>3 DEF WalkKnown
<1>4. CASE walk'.cur # None
  <2>1. /\ ~(walk.phase = "box" /\ d = "php" /\ versionLine(phpVersion) \notin DOMAIN BoxPhp)
        /\ ~(walk.phase = "user" /\ OverrideSkipped(d))
        /\ walk' = [walk EXCEPT !.cur = d, !.pos = 1]
    BY <1>1, <1>4 DEF TypeInv, TypeOK
  <2>2. TreeOf(walk.phase, d) \in WalkTrees
    BY <1>2, <2>1 DEF TreeOf, WalkTrees, Dests, OverrideSkipped
  <2>3. (IF walk'.phase = "box"
         THEN IF walk'.cur = "php" THEN BoxPhp[versionLine(phpVersion')] ELSE BoxHttpd
         ELSE IF walk'.cur = "php" THEN env'.userPhp ELSE env'.userHttpd) \in WalkTrees
    BY <1>1, <2>1, <2>2 DEF TreeOf, TypeInv, TypeOK
  <2>. QED
    BY <2>3 DEF WalkKnown, TreeOf
<1>. QED
  BY <1>3, <1>4

(* The two outcomes of the walk callback: it fails the run, or it writes *)
(* the rendering of the current entry to its path in both trees and      *)
(* moves the walk to the next entry.                                      *)
LEMMA WalkFileOutcome ==
    ASSUME WalkFile
    PROVE  LET T == TreeOf(walk.phase, walk.cur)
               entry == T[walk.pos]
               path == <<walk.cur, entry.file>>
           IN  /\ pc = "WriteConfigFiles" /\ walk.cur # None /\ walk.pos =< Len(T)
               /\ UNCHANGED <<env, phpVersion, ctxRun>>
               /\ \/ /\ pc' = "Failed" /\ walk' = walk
                     /\ \/ UNCHANGED <<runTree, stageTree>>
                        \/ \E x, y : /\ runTree' = [runTree EXCEPT ![path] = x]
                                     /\ stageTree' = [stageTree EXCEPT ![path] = y]
                  \/ /\ pc' = pc /\ walk' = [walk EXCEPT !.pos = @ + 1]
                     /\ runTree' = [runTree EXCEPT ![path] = File(entry.tmpl)]
                     /\ stageTree' = [stageTree EXCEPT ![path] = File(entry.tmpl)]
<1> DEFINE T == TreeOf(walk.phase, walk.cur)
           entry == T[walk.pos]
           path == <<walk.cur, entry.file>>
<1>1. /\ pc = "WriteConfigFiles" /\ walk.cur # None /\ walk.pos =< Len(T)
      /\ UNCHANGED <<env, phpVersion, ctxRun>>
  BY DEF WalkFile
<1>2. \/ /\ pc' = "Failed" /\ walk' = walk
         /\ \/ UNCHANGED <<runTree, stageTree>>
            \/ \E x, y : /\ runTree' = [runTree EXCEPT ![path] = x]
                         /\ stageTree' = [stageTree EXCEPT ![path] = y]
      \/ /\ pc' = pc /\ walk' = [walk EXCEPT !.pos = @ + 1]
         /\ runTree' = [runTree EXCEPT ![path] = File(entry.tmpl)]
         /\ stageTree' = [stageTree EXCEPT ![path] = File(entry.tmpl)]
  <2>1. CASE ~Parses(entry.tmpl)
    BY <2>1 DEF WalkFile, Fail
  <2>2. CASE Parses(entry.tmpl)
    <3>1. PICK runFirst \in BOOLEAN, written \in 0..2, torn \in BOOLEAN :
            LET rank(isRun) == IF isRun = runFirst THEN 1 ELSE 2
                out(isRun, old) ==
                    IF rank(isRun) =< written THEN File(entry.tmpl)
                    ELSE IF rank(isRun) = written + 1 /\ torn THEN TornFile
                    ELSE old
            IN  /\ runTree' = [runTree EXCEPT ![path] = out(TRUE, @)]
                /\ stageTree' = [stageTree EXCEPT ![path] = out(FALSE, @)]
                /\ IF written = 2
                   THEN walk' = [walk EXCEPT !.pos = @ + 1] /\ UNCHANGED pc
                   ELSE Fail /\ UNCHANGED walk
      BY <2>2 DEF WalkFile
    <3>2. CASE written = 2
      <4>1. /\ (IF TRUE = runFirst THEN 1 ELSE 2) =< written
            /\ (IF FALSE = runFirst THEN 1 ELSE 2) =< written
        BY <3>2
      <4>. QED
        BY <3>1, <3>2, <4>1
    <3>3. CASE written # 2
      <4>1. pc' = "Failed" /\ walk' = walk
        BY <3>1, <3>3 DEF Fail
      <4>. QED
        BY <3>1, <4>1
    <3>. QED
      BY <3>2, <3>3
  <2>. QED
    BY <2>1, <2>2
<1>. QED
  BY <1>1, <1>2

(* A callback that returns nil has written the entry's rendering into    *)
(* both trees; one that fails has failed the run.                         *)
LEMMA WalkFileAgree ==
    ASSUME AgreeInv, WalkFile
    PROVE  WalkKnown' /\ ConfigTreesAgree'
<1> DEFINE T == TreeOf(walk.phase, walk.cur)
           entry == T[walk.pos]
           path == <<walk.cur, entry.file>>
<1>1. /\ walk.cur # None /\ walk.pos =< Len(T)
      /\ UNCHANGED <<env, phpVersion>>
  BY DEF WalkFile
<1>2. T \in WalkTrees /\ T \in Tree /\ walk.pos \in 1..Len(T)
  BY <1>1 DEF AgreeInv, TypeInv, WalkOK, WalkKnown
<1>3. entry.tmpl \in KnownTemplates
  BY <1>2 DEF KnownTemplates, TreeTemplates, WalkTrees
<1>4. \/ pc' = "Failed" /\ walk' = walk
      \/ /\ pc' = pc /\ walk' = [walk EXCEPT !.pos = @ + 1]
         /\ runTree' = [runTree EXCEPT ![path] = File(entry.tmpl)]
         /\ stageTree' = [stageTree EXCEPT ![path] = File(entry.tmpl)]
  BY WalkFileOutcome
<1>5. WalkKnown'
  <2>1. walk'.phase = walk.phase /\ walk'.cur = walk.cur
    BY <1>4 DEF AgreeInv, TypeInv, TypeOK
  <2>. QED
    BY <1>1, <1>2, <2>1 DEF WalkKnown, TreeOf
<1>6. ConfigTreesAgree'
  <2>1. CASE pc' = "Failed"
    BY <2>1 DEF ConfigTreesAgree
  <2>2. CASE pc' # "Failed"
    <3>1. /\ pc # "Failed"
          /\ runTree' = [runTree EXCEPT ![path] = File(entry.tmpl)]
          /\ stageTree' = [stageTree EXCEPT ![path] = File(entry.tmpl)]
      BY <1>4, <2>2
    <3>2. \A p \in Paths :
            \/ runTree[p] = AbsentFile /\ stageTree[p] = AbsentFile
            \/ \E t \in KnownTemplates : runTree[p] = File(t) /\ stageTree[p] = File(t)
      BY <3>1 DEF AgreeInv, ConfigTreesAgree
    <3>3. runTree \in [Paths -> Content] /\ stageTree \in [Paths -> Content]
      BY DEF AgreeInv, TypeInv, TypeOK
    <3>. QED
      BY <1>3, <2>2, <3>1, <3>2, <3>3 DEF ConfigTreesAgree
  <2>. QED
    BY <2>1, <2>2
<1>. QED
  BY <1>5, <1>6

(* Outside StartWalk and WalkFile a step either ends the walk or leaves  *)
(* the walk and the tree it reads alone.                                  *)
LEMMA OtherStepsKnown ==
    ASSUME TypeInv, WalkKnown, [Next]_vars, ~WalkFile, ~StartWalk
    PROVE  WalkKnown'
<1>1. walk'.cur = None \/ UNCHANGED <<walk, env, phpVersion>>
  <2>1. CASE SetupPhpVersion
    BY <2>1, NoWalkOutside DEF SetupPhpVersion
  <2>2. CASE ReadConfig  BY <2>2 DEF ReadConfig
  <2>3. CASE SetupExtensions  BY <2>3 DEF SetupExtensions
  <2>4. CASE InstallHTTPD  BY <2>4 DEF InstallHTTPD, Install
  <2>5. CASE InstallPHP  BY <2>5 DEF InstallPHP, Install
  <2>6. CASE WriteConfigFiles  BY <2>6 DEF WriteConfigFiles
  <2>7. CASE EndWalk  BY <2>7 DEF EndWalk
  <2>8. CASE EndLoop  BY <2>8 DEF EndLoop, TypeInv, TypeOK
  <2>9. CASE InstallComposer  BY <2>9 DEF InstallComposer, Install
  <2>10. CASE RunComposer  BY <2>10 DEF RunComposer
  <2>11. CASE InstallVarify  BY <2>11 DEF InstallVarify, Install
  <2>12. CASE WriteProfileD  BY <2>12 DEF WriteProfileD
  <2>13. CASE WriteStartFile  BY <2>13 DEF WriteStartFile, Install
  <2>14. CASE UNCHANGED vars  BY <2>14 DEF vars
  <2>. QED
    BY <2>1, <2>2, <2>3, <2>4, <2>5, <2>6, <2>7, <2>8, <2>9, <2>10, <2>11, <2>12, <2>13, <2>14 DEF Next
<1>. QED
  BY <1>1 DEF WalkKnown, TreeOf

LEMMA NextAgreeInv ==
    ASSUME AgreeInv, [Next]_vars
    PROVE  AgreeInv'
<1>1. TypeInv'
  BY NextTypeInv DEF AgreeInv
<1>2. CASE WalkFile
  BY <1>1, <1>2, WalkFileAgree DEF AgreeInv
<1>3. CASE ~WalkFile
  <2>1. WalkKnown'
    BY <1>3, StartWalkKnown, OtherStepsKnown DEF AgreeInv
  <2>2. UNCHANGED <<runTree, stageTree>> /\ (pc = "Failed" => UNCHANGED vars)
    BY <1>3, OtherStepsKeepTrees
  <2>3. ConfigTreesAgree'
    BY <2>2 DEF AgreeInv, ConfigTreesAgree, vars
  <2>. QED
    BY <1>1, <2>1, <2>3 DEF AgreeInv
<1>. QED
  BY <1>2, <1>3

(* While staging has not failed, the config tree under DepDir (what the   *)
(* app runs with) and the one under /tmp/php_etc (what composer runs      *)
(* with) hold the same files, each rendered from the same template: the   *)
(* two writes of WriteConfigFiles' walk callback, each of which truncates *)
(* before it renders, never leave the trees apart in a run that goes on.  *)
THEOREM TreesAgree == Spec => []ConfigTreesAgree
<1>1. Init => AgreeInv
  BY InitAgreeInv
<1>2. AgreeInv /\ [Next]_vars => AgreeInv'
  BY NextAgreeInv
<1>3. AgreeInv => ConfigTreesAgree
  BY DEF AgreeInv
<1>. QED
  BY <1>1, <1>2, <1>3, PTL DEF Spec

=============================================================================
