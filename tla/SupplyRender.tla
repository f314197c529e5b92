---------------------------- MODULE SupplyRender ----------------------------
(***************************************************************************)
(* Supply implements the renderer contract of DualRender.  The renderer   *)
(* is idle until WriteConfigFiles has bound the two contexts, renders     *)
(* while Run is in WriteConfigFiles, is done once Run has moved past it,  *)
(* and has failed when Run has.  Its plan is the winning template of      *)
(* every destination path (ExpectedFile), fixed once the contexts are     *)
(* bound, since the version and the app's files no longer change.        *)
(***************************************************************************)
EXTENDS Supply

BlankTree == [p \in Paths |-> AbsentFile]

RenderedFiles == {File(t) : t \in KnownTemplates}

RenderStatus ==
    IF pc = "Failed" THEN "failed"
    ELSE IF ctxRun = None THEN "idle"
    ELSE IF pc = "WriteConfigFiles" THEN "rendering"
    ELSE "done"

RenderPlan ==
    IF ctxRun # None /\ versionLine(phpVersion) \in DOMAIN BoxPhp
    THEN [p \in Paths |-> ExpectedFile(p)]
    ELSE BlankTree

R == INSTANCE DualRender WITH
        Paths <- Paths,
        Content <- Content,
        Rendered <- RenderedFiles,
        Blank <- AbsentFile,
        status <- RenderStatus,
        plan <- RenderPlan,
        run <- runTree,
        stage <- stageTree

(* Supplier.Run renders the config trees as the contract says: both      *)
(* trees receive the same template at the same path in one callback,     *)
(* WriteConfigFiles returns nil only with every path holding its winning *)
(* template in both trees, a failure leaves at most the file being       *)
(* written apart, and no other step of Run touches the trees.            *)
RendererContract == R!Spec

=============================================================================
