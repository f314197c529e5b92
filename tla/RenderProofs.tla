---------------------------- MODULE RenderProofs ----------------------------
(***************************************************************************)
(* Proofs that WriteConfigFiles leaves every destination path with its    *)
(* winning template (ConfigInPlace) and that Supply implements the        *)
(* renderer contract DualRender, when every override directory the app    *)
(* has can be listed (UnreadableDirs = {{}}: the run MCSupply_unreadable  *)
(* shows what goes wrong otherwise).                                       *)
(*                                                                         *)
(* The argument: while Run has not failed, the trees hold exactly what    *)
(* the walks done so far have written (Placed).  The embedded walk of a   *)
(* destination d has written the first BoxDone(d) entries of its tree,    *)
(* the override walk the first UserDone(d); an override entry shadows an  *)
(* embedded one at the same path because the override walks run after    *)
(* the embedded ones.  A directory walk visits a path once                *)
(* (DistinctFiles), so the entry written at a path is the only entry of  *)
(* its tree for that path.                                                *)
(***************************************************************************)
EXTENDS SupplyRender, SupplyProofs

(* The first n entries of tree t have one for relative path f, and the   *)
(* file it renders to.                                                    *)
Has(t, n, f) == \E i \in 1..n : t[i].file = f
AtOf(t, n, f) == File(t[CHOOSE i \in 1..n : t[i].file = f].tmpl)

(* How many entries of the embedded and of the override tree of d the    *)
(* walks have written.                                                    *)
BoxDone(d) ==
    IF ctxRun = None THEN 0
    ELSE IF walk.phase = "user" \/ d \notin walk.todo THEN Len(TreeOf("box", d))
    ELSE IF walk.cur = d THEN walk.pos - 1
    ELSE 0

UserDone(d) ==
    IF walk.phase = "box" \/ OverrideSkipped(d) THEN 0
    ELSE IF d \notin walk.todo THEN Len(TreeOf("user", d))
    ELSE IF walk.cur = d THEN walk.pos - 1
    ELSE 0

(* What path p holds after the writes done so far.                       *)
Placed(p) ==
    LET u == TreeOf("user", p[1])
        b == TreeOf("box", p[1])
    IN  IF Has(u, UserDone(p[1]), p[2]) THEN AtOf(u, UserDone(p[1]), p[2])
        ELSE IF Has(b, BoxDone(p[1]), p[2]) THEN AtOf(b, BoxDone(p[1]), p[2])
        ELSE AbsentFile

Configuring == {"ReadConfig", "SetupPhpVersion", "SetupExtensions",
                "InstallHTTPD", "InstallPHP", "WriteConfigFiles"}

(* Where the walks can be, while Run has not failed.                     *)
WalkShape ==
    pc # "Failed" =>
        /\ ctxRun = None => /\ walk.phase = "box" /\ walk.todo = {}
                            /\ walk.cur = None /\ pc \in Configuring
        /\ ctxRun # None => pc \in {"WriteConfigFiles"} \cup ConfigWritten
        /\ pc \in ConfigWritten =>
               walk.phase = "user" /\ walk.todo = {} /\ walk.cur = None
        /\ walk.cur # None =>
               /\ walk.cur \in walk.todo
               /\ walk.pos \in 1..Len(TreeOf(walk.phase, walk.cur)) + 1
        /\ walk.cur # None /\ walk.phase = "user" => ~OverrideSkipped(walk.cur)
        /\ ctxRun # None /\ (walk.phase = "user" \/ "php" \notin walk.todo
                              \/ walk.cur = "php")
              => versionLine(phpVersion) \in DOMAIN BoxPhp

(* The trees hold what the walks have written.                            *)
PlacedInv ==
    pc # "Failed" =>
        \A p \in Paths : runTree[p] = Placed(p) /\ stageTree[p] = Placed(p)

RInv == AgreeInv /\ WalkShape /\ PlacedInv

(* The entry of a tree at index i is its only entry for its path, so it  *)
(* is the one any long enough prefix of the tree renders to that path.   *)
LEMMA AtOfIndex ==
    ASSUME NEW t \in Tree, DistinctFiles(t), NEW n \in Nat, n =< Len(t),
           NEW i \in 1..n, NEW f, t[i].file = f
    PROVE  Has(t, n, f) /\ AtOf(t, n, f) = File(t[i].tmpl)
<1>1. Has(t, n, f)
  BY DEF Has
<1>2. PICK j \in 1..n : j = CHOOSE k \in 1..n : t[k].file = f
  OBVIOUS
<1>3. t[j].file = f
  BY <1>1, <1>2 DEF Has
<1>4. j = i
  BY <1>3 DEF DistinctFiles
<1>. QED
  BY <1>1, <1>2, <1>4 DEF AtOf

(* Nothing is placed before the walks start.                              *)
LEMMA PlacedBlank ==
    ASSUME ctxRun = None, walk.phase = "box", NEW p \in Paths
    PROVE  Placed(p) = AbsentFile
BY DEF Placed, Has, BoxDone, UserDone

(* Extending the prefix by an entry for another path changes nothing the *)
(* prefix renders to f.                                                   *)
LEMMA HasExtend ==
    ASSUME NEW t \in Tree, DistinctFiles(t), NEW n \in Nat, n + 1 =< Len(t),
           NEW f, t[n + 1].file # f
    PROVE  /\ Has(t, n + 1, f) = Has(t, n, f)
           /\ Has(t, n, f) => AtOf(t, n + 1, f) = AtOf(t, n, f)
<1>1. Has(t, n + 1, f) = Has(t, n, f)
  BY DEF Has
<1>2. ASSUME Has(t, n, f) PROVE AtOf(t, n + 1, f) = AtOf(t, n, f)
  <2>1. PICK i \in 1..n : t[i].file = f
    BY <1>2 DEF Has
  <2>2. AtOf(t, n + 1, f) = File(t[i].tmpl)
    BY <2>1, AtOfIndex
  <2>3. AtOf(t, n, f) = File(t[i].tmpl)
    BY <2>1, AtOfIndex
  <2>. QED
    BY <2>2, <2>3
<1>. QED
  BY <1>1, <1>2

(* Extending the prefix by an entry for f renders that entry to f.       *)
LEMMA HasNew ==
    ASSUME NEW t \in Tree, DistinctFiles(t), NEW n \in Nat, n + 1 =< Len(t)
    PROVE  /\ Has(t, n + 1, t[n + 1].file)
           /\ AtOf(t, n + 1, t[n + 1].file) = File(t[n + 1].tmpl)
BY AtOfIndex

(* The whole of a tree renders to f what TemplateAt finds for f.         *)
LEMMA FullTree ==
    ASSUME NEW t \in Tree, DistinctFiles(t), NEW f
    PROVE  /\ Has(t, Len(t), f) = \E i \in DOMAIN t : t[i].file = f
           /\ Has(t, Len(t), f) => AtOf(t, Len(t), f) = File(TemplateAt(t, f))
<1>1. Has(t, Len(t), f) = \E i \in DOMAIN t : t[i].file = f
  BY DEF Has
<1>2. ASSUME Has(t, Len(t), f) PROVE AtOf(t, Len(t), f) = File(TemplateAt(t, f))
  <2>1. PICK i \in 1..Len(t) : t[i].file = f
    BY <1>2 DEF Has
  <2>2. AtOf(t, Len(t), f) = File(t[i].tmpl)
    BY <2>1, AtOfIndex
  <2>3. \A e \in {t[j] : j \in DOMAIN t} : e.file = f => e = t[i]
    BY <2>1 DEF DistinctFiles
  <2>4. t[i] \in {t[j] : j \in DOMAIN t}
    BY <2>1
  <2>5. (CHOOSE e \in {t[j] : j \in DOMAIN t} : e.file = f) = t[i]
    BY <2>1, <2>3, <2>4
  <2>. QED
    BY <2>2, <2>5 DEF TemplateAt
<1>. QED
  BY <1>1, <1>2

(* What a path holds depends only on the two counts of its destination  *)
(* and on the trees walked.                                              *)
LEMMA PlacedSame ==
    ASSUME NEW p \in Paths, UserDone(p[1])' = UserDone(p[1]),
           BoxDone(p[1])' = BoxDone(p[1]), UNCHANGED <<env, phpVersion>>
    PROVE  Placed(p)' = Placed(p)
BY DEF Placed, TreeOf

(* When the override loop is over and every override directory could be *)
(* listed, each path holds the winning template of ExpectedFile.          *)
LEMMA Complete ==
    ASSUME RInv, env.unreadable = {}, pc # "Failed", ctxRun # None,
           walk.phase = "user", walk.todo = {}, walk.cur = None
    PROVE  \A p \in Paths : runTree[p] = ExpectedFile(p) /\ stageTree[p] = ExpectedFile(p)
<1>. SUFFICES ASSUME NEW p \in Paths PROVE Placed(p) = ExpectedFile(p)
  BY DEF RInv, PlacedInv
<1> DEFINE d == p[1]
           f == p[2]
           u == TreeOf("user", d)
           b == TreeOf("box", d)
<1>1. d \in Dests /\ f \in Files
  BY DEF Paths
<1>2. versionLine(phpVersion) \in DOMAIN BoxPhp
  BY DEF RInv, WalkShape
<1>3. /\ b \in Tree /\ DistinctFiles(b) /\ b # NoFile
      /\ b = IF d = "php" THEN BoxPhp[versionLine(phpVersion)] ELSE BoxHttpd
  BY <1>1, <1>2, SupplyAssumption DEF TreeOf, Dests
<1>4. BoxDone(d) = Len(b)
  BY DEF BoxDone
<1>5. u \in UserTrees
  BY <1>1 DEF RInv, AgreeInv, TypeInv, TypeOK, Env, TreeOf, Dests
<1>6. HasFile(b, f) = Has(b, Len(b), f)
  BY <1>3, FullTree DEF HasFile
<1>7. Has(b, Len(b), f) => AtOf(b, Len(b), f) = File(TemplateAt(b, f))
  BY <1>3, FullTree
<1>8. CASE u = NoFile
  <2>1. UserDone(d) = 0 /\ ~Has(u, 0, f) /\ ~HasFile(u, f)
    BY <1>8 DEF UserDone, OverrideSkipped, Has, HasFile
  <2>. QED
    BY <1>3, <1>4, <1>6, <1>7, <2>1 DEF Placed, ExpectedFile
<1>9. CASE u # NoFile
  <2>1. u \in Tree /\ DistinctFiles(u)
    BY <1>5, <1>9, SupplyAssumption
  <2>2. UserDone(d) = Len(u)
    BY <1>9 DEF UserDone, OverrideSkipped
  <2>3. HasFile(u, f) = Has(u, Len(u), f)
    BY <1>9, <2>1, FullTree DEF HasFile
  <2>4. Has(u, Len(u), f) => AtOf(u, Len(u), f) = File(TemplateAt(u, f))
    BY <2>1, FullTree
  <2>. QED
    BY <1>3, <1>4, <1>6, <1>7, <2>2, <2>3, <2>4 DEF Placed, ExpectedFile
<1>. QED
  BY <1>8, <1>9

(* The steps of Run before WriteConfigFiles and after it.                 *)
PreConfig == ReadConfig \/ SetupPhpVersion \/ SetupExtensions \/ InstallHTTPD \/ InstallPHP
PostConfig == InstallComposer \/ RunComposer \/ InstallVarify \/ WriteProfileD \/ WriteStartFile

(* A step before WriteConfigFiles leaves the contexts, the walk and the  *)
(* trees alone and moves Run on to a later configuring step or fails.    *)
LEMMA PreConfigStep ==
    ASSUME PreConfig
    PROVE  /\ pc \in Configuring \ {"WriteConfigFiles"}
           /\ pc' \in Configuring \cup {"Failed"}
           /\ UNCHANGED <<env, ctxRun, walk, runTree, stageTree>>
<1> USE DEF Configuring, Succeed, Fail, NextStep, RunOrder
<1>1. CASE ReadConfig  BY <1>1 DEF ReadConfig
<1>2. CASE SetupPhpVersion  BY <1>2 DEF SetupPhpVersion
<1>3. CASE SetupExtensions  BY <1>3 DEF SetupExtensions
<1>4. CASE InstallHTTPD  BY <1>4 DEF InstallHTTPD, Install
<1>5. CASE InstallPHP  BY <1>5 DEF InstallPHP, Install
<1>. QED
  BY <1>1, <1>2, <1>3, <1>4, <1>5 DEF PreConfig

(* A step after WriteConfigFiles leaves everything the renderer reads or *)
(* writes alone and moves Run on to a later step or fails.               *)
LEMMA PostConfigStep ==
    ASSUME PostConfig
    PROVE  /\ pc \in ConfigWritten
           /\ pc' \in ConfigWritten \cup {"Failed"}
           /\ UNCHANGED <<env, phpVersion, ctxRun, walk, runTree, stageTree>>
<1> USE DEF ConfigWritten, Succeed, Fail, NextStep, RunOrder
<1>1. CASE InstallComposer  BY <1>1 DEF InstallComposer, Install
<1>2. CASE RunComposer  BY <1>2 DEF RunComposer
<1>3. CASE InstallVarify  BY <1>3 DEF InstallVarify, Install
<1>4. CASE WriteProfileD  BY <1>4 DEF WriteProfileD
<1>5. CASE WriteStartFile  BY <1>5 DEF WriteStartFile, Install
<1>. QED
  BY <1>1, <1>2, <1>3, <1>4, <1>5 DEF PostConfig

(* Before the contexts are bound nothing is placed, and the trees are    *)
(* blank.                                                                 *)
LEMMA PreConfigRInv ==
    ASSUME RInv, PreConfig
    PROVE  WalkShape' /\ PlacedInv'
<1>1. /\ pc \in Configuring \ {"WriteConfigFiles"}
      /\ pc' \in Configuring \cup {"Failed"}
      /\ UNCHANGED <<env, ctxRun, walk, runTree, stageTree>>
  BY PreConfigStep
<1>2. CASE pc' = "Failed"
  BY <1>2 DEF WalkShape, PlacedInv
<1>3. CASE pc' # "Failed"
  <2>1. pc # "Failed" /\ ctxRun = None
    BY <1>1 DEF RInv, WalkShape, Configuring, ConfigWritten
  <2>2. walk.phase = "box" /\ walk.todo = {} /\ walk.cur = None
    BY <2>1 DEF RInv, WalkShape
  <2>3. WalkShape'
    BY <1>1, <1>3, <2>1, <2>2 DEF WalkShape, Configuring, ConfigWritten
  <2>4. \A p \in Paths : Placed(p)' = AbsentFile
    BY <1>1, <2>1, <2>2 DEF Placed, Has, BoxDone, UserDone
  <2>5. \A p \in Paths : runTree[p] = AbsentFile /\ stageTree[p] = AbsentFile
    BY <2>1, <2>2, PlacedBlank DEF RInv, PlacedInv
  <2>6. PlacedInv'
    BY <1>1, <2>4, <2>5 DEF PlacedInv
  <2>. QED
    BY <2>3, <2>6
<1>. QED
  BY <1>2, <1>3

(* After WriteConfigFiles nothing the walks left changes.                *)
LEMMA PostConfigRInv ==
    ASSUME RInv, PostConfig
    PROVE  WalkShape' /\ PlacedInv'
<1>1. /\ pc \in ConfigWritten
      /\ pc' \in ConfigWritten \cup {"Failed"}
      /\ UNCHANGED <<env, phpVersion, ctxRun, walk, runTree, stageTree>>
  BY PostConfigStep
<1>2. CASE pc' = "Failed"
  BY <1>2 DEF WalkShape, PlacedInv
<1>3. CASE pc' # "Failed"
  <2>1. pc # "Failed" /\ ctxRun # None
    BY <1>1 DEF RInv, WalkShape, Configuring, ConfigWritten
  <2>2. WalkShape'
    BY <1>1, <1>3, <2>1 DEF RInv, WalkShape, TreeOf, OverrideSkipped
  <2>3. \A p \in Paths : Placed(p)' = Placed(p)
    <3>1. \A d \in Dests : UserDone(d)' = UserDone(d) /\ BoxDone(d)' = BoxDone(d)
      BY <1>1 DEF UserDone, BoxDone, TreeOf, OverrideSkipped
    <3>. QED
      BY <1>1, <3>1, PlacedSame DEF Paths
  <2>4. PlacedInv'
    BY <1>1, <2>1, <2>3 DEF RInv, PlacedInv
  <2>. QED
    BY <2>2, <2>4
<1>. QED
  BY <1>2, <1>3

(* WriteConfigFiles binds the contexts and queues the embedded walks;    *)
(* nothing is written yet.                                                *)
LEMMA WriteConfigFilesRInv ==
    ASSUME RInv, WriteConfigFiles
    PROVE  WalkShape' /\ PlacedInv'
<1>1. /\ pc = "WriteConfigFiles" /\ ctxRun = None /\ pc' = pc
      /\ walk' = [phase |-> "box", todo |-> Dests, cur |-> None, pos |-> 0]
      /\ UNCHANGED <<env, phpVersion, runTree, stageTree>>
  BY DEF WriteConfigFiles
<1>2. ctxRun' # None
  <2>1. webDir \in WebDirs \cup {EmptyText}
    BY DEF RInv, AgreeInv, TypeInv, TypeOK
  <2>2. ctxRun' \in Ctx
    BY <2>1, ContextsType DEF WriteConfigFiles
  <2>. QED
    BY <2>2, SupplyAssumption
<1>3. WalkShape'
  BY <1>1, <1>2, SupplyAssumption DEF WalkShape, ConfigWritten, Dests
<1>4. \A p \in Paths : Placed(p)' = AbsentFile
  BY <1>1, <1>2, SupplyAssumption DEF Placed, Has, BoxDone, UserDone, Paths, Dests
<1>5. \A p \in Paths : runTree[p] = AbsentFile /\ stageTree[p] = AbsentFile
  BY <1>1, PlacedBlank DEF RInv, PlacedInv, WalkShape
<1>. QED
  BY <1>1, <1>3, <1>4, <1>5 DEF PlacedInv

(* StartWalk enters a tree with nothing of it written yet, or skips an   *)
(* override directory, or fails: the counts stay as they were.          *)
LEMMA StartWalkRInv ==
    ASSUME RInv, StartWalk
    PROVE  WalkShape' /\ PlacedInv'
<1>1. PICK d \in walk.todo :
        /\ pc = "WriteConfigFiles" /\ ctxRun # None /\ walk.cur = None
        /\ IF walk.phase = "box" /\ d = "php"
                /\ versionLine(phpVersion) \notin DOMAIN BoxPhp
           THEN Fail /\ UNCHANGED walk
           ELSE IF walk.phase = "user" /\ OverrideSkipped(d)
           THEN walk' = [walk EXCEPT !.todo = @ \ {d}] /\ UNCHANGED pc
           ELSE walk' = [walk EXCEPT !.cur = d, !.pos = 1] /\ UNCHANGED pc
        /\ UNCHANGED <<env, optionsJson, composerPath, composerJson, webDir,
                       phpVersion, phpExtensions, zendExtensions, ctxRun,
                       ctxStage, runTree, stageTree, done>>
  BY DEF StartWalk
<1>2. /\ d \in Dests /\ walk.todo \subseteq Dests /\ walk.phase \in {"box", "user"}
      /\ walk.pos \in Nat
  BY DEF RInv, AgreeInv, TypeInv, TypeOK
<1>3. CASE walk.phase = "box" /\ d = "php" /\ versionLine(phpVersion) \notin DOMAIN BoxPhp
  BY <1>1, <1>3 DEF Fail, WalkShape, PlacedInv
<1>4. CASE walk.phase = "user" /\ OverrideSkipped(d)
  <2>1. walk' = [walk EXCEPT !.todo = @ \ {d}] /\ pc' = pc
    BY <1>1, <1>4
  <2>2. WalkShape'
    BY <1>1, <1>4, <2>1 DEF RInv, WalkShape, ConfigWritten, TreeOf, OverrideSkipped
  <2>3. \A e \in Dests : UserDone(e)' = UserDone(e) /\ BoxDone(e)' = BoxDone(e)
    BY <1>1, <1>4, <2>1 DEF UserDone, BoxDone, TreeOf, OverrideSkipped
  <2>4. \A p \in Paths : Placed(p)' = Placed(p)
    BY <1>1, <2>3, PlacedSame DEF Paths
  <2>. QED
    BY <1>1, <2>1, <2>2, <2>4 DEF RInv, PlacedInv
<1>5. CASE ~(walk.phase = "box" /\ d = "php" /\ versionLine(phpVersion) \notin DOMAIN BoxPhp)
          /\ ~(walk.phase = "user" /\ OverrideSkipped(d))
  <2>1. walk' = [walk EXCEPT !.cur = d, !.pos = 1] /\ pc' = pc
    BY <1>1, <1>5
  <2>2. TreeOf(walk.phase, d) \in Tree
    BY <1>2, <1>5, TreeOfType DEF RInv, AgreeInv, TypeInv, OverrideSkipped
  <2>3. WalkShape'
    BY <1>1, <1>2, <1>5, <2>1, <2>2, SupplyAssumption
       DEF RInv, WalkShape, ConfigWritten, TreeOf, OverrideSkipped, Dests
  <2>4. \A e \in Dests : UserDone(e)' = UserDone(e) /\ BoxDone(e)' = BoxDone(e)
    BY <1>1, <1>2, <1>5, <2>1, SupplyAssumption DEF UserDone, BoxDone, TreeOf, OverrideSkipped, Dests
  <2>5. \A p \in Paths : Placed(p)' = Placed(p)
    BY <1>1, <2>4, PlacedSame DEF Paths
  <2>. QED
    BY <1>1, <2>1, <2>3, <2>5 DEF RInv, PlacedInv
<1>. QED
  BY <1>3, <1>4, <1>5

(* EndWalk: the finished tree has all its entries written, which is what *)
(* the count of a destination off the list says.                         *)
LEMMA EndWalkRInv ==
    ASSUME RInv, EndWalk
    PROVE  WalkShape' /\ PlacedInv'
<1> DEFINE c == walk.cur
<1>1. /\ pc = "WriteConfigFiles" /\ c # None
      /\ walk.pos > Len(TreeOf(walk.phase, c))
      /\ walk' = [walk EXCEPT !.todo = @ \ {c}, !.cur = None, !.pos = 0]
      /\ UNCHANGED <<env, pc, phpVersion, ctxRun, runTree, stageTree>>
  BY DEF EndWalk
<1>2. /\ ctxRun # None /\ c \in walk.todo
      /\ walk.pos = Len(TreeOf(walk.phase, c)) + 1
      /\ walk.phase = "user" => ~OverrideSkipped(c)
      /\ c \in Dests /\ walk.phase \in {"box", "user"}
  <2>1. TreeOf(walk.phase, c) \in Tree
    BY <1>1 DEF RInv, AgreeInv, TypeInv, WalkOK
  <2>. QED
    BY <1>1, <2>1 DEF RInv, WalkShape, AgreeInv, TypeInv, TypeOK
<1>3. WalkShape'
  <2>1. /\ ctxRun' # None /\ pc' = "WriteConfigFiles" /\ walk'.cur = None
        /\ walk'.phase = walk.phase /\ walk'.todo = walk.todo \ {c}
    BY <1>1, <1>2 DEF RInv, AgreeInv, TypeInv, TypeOK
  <2>2. (walk.phase = "user" \/ "php" \notin walk.todo \/ walk.cur = "php")
          => versionLine(phpVersion) \in DOMAIN BoxPhp
    BY <1>1, <1>2 DEF RInv, WalkShape
  <2>3. (walk'.phase = "user" \/ "php" \notin walk'.todo \/ walk'.cur = "php")
          => versionLine(phpVersion') \in DOMAIN BoxPhp
    BY <1>1, <2>1, <2>2, SupplyAssumption DEF c
  <2>. QED
    BY <2>1, <2>3 DEF WalkShape, ConfigWritten
<1>4. \A e \in Dests : UserDone(e)' = UserDone(e) /\ BoxDone(e)' = BoxDone(e)
  BY <1>1, <1>2, SupplyAssumption DEF UserDone, BoxDone, TreeOf, OverrideSkipped, Dests, c
<1>5. \A p \in Paths : Placed(p)' = Placed(p)
  BY <1>1, <1>4, PlacedSame DEF Paths
<1>. QED
  BY <1>1, <1>3, <1>5 DEF RInv, PlacedInv

(* EndLoop: the embedded trees are all written when the override loop   *)
(* starts, and the override loop starts with nothing of it written; at   *)
(* its end Run moves on with the walk as it is.                          *)
LEMMA EndLoopRInv ==
    ASSUME RInv, EndLoop
    PROVE  WalkShape' /\ PlacedInv'
<1>1. /\ pc = "WriteConfigFiles" /\ ctxRun # None
      /\ walk.cur = None /\ walk.todo = {}
      /\ UNCHANGED <<env, phpVersion, ctxRun, runTree, stageTree>>
  BY DEF EndLoop
<1>2. walk.phase \in {"box", "user"}
  BY DEF RInv, AgreeInv, TypeInv, TypeOK
<1>3. CASE walk.phase = "box"
  <2>1. walk' = [walk EXCEPT !.phase = "user", !.todo = Dests] /\ pc' = pc
    BY <1>3 DEF EndLoop
  <2>2. WalkShape'
    BY <1>1, <1>3, <2>1 DEF RInv, WalkShape, ConfigWritten, TreeOf, OverrideSkipped
  <2>3. \A e \in Dests : UserDone(e)' = UserDone(e) /\ BoxDone(e)' = BoxDone(e)
    BY <1>1, <1>3, <2>1, SupplyAssumption DEF UserDone, BoxDone, TreeOf, OverrideSkipped, Dests
  <2>4. \A p \in Paths : Placed(p)' = Placed(p)
    BY <1>1, <2>3, PlacedSame DEF Paths
  <2>. QED
    BY <1>1, <2>1, <2>2, <2>4 DEF RInv, PlacedInv
<1>4. CASE walk.phase = "user"
  <2>1. UNCHANGED walk /\ pc' \in ConfigWritten
    BY <1>4 DEF EndLoop, Succeed, NextStep, RunOrder, ConfigWritten
  <2>2. WalkShape'
    BY <1>1, <1>4, <2>1 DEF RInv, WalkShape, ConfigWritten, TreeOf, OverrideSkipped
  <2>3. \A p \in Paths : Placed(p)' = Placed(p)
    <3>1. \A e \in Dests : UserDone(e)' = UserDone(e) /\ BoxDone(e)' = BoxDone(e)
      BY <1>1, <2>1 DEF UserDone, BoxDone, TreeOf, OverrideSkipped
    <3>. QED
      BY <1>1, <3>1, PlacedSame DEF Paths
  <2>. QED
    BY <1>1, <2>1, <2>2, <2>3 DEF RInv, PlacedInv
<1>. QED
  BY <1>2, <1>3, <1>4

(* One more entry of the current tree written: the path of that entry   *)
(* now renders it, and every other path renders what it did.            *)
LEMMA PlacedAdvance ==
    ASSUME RInv, pc # "Failed", walk.cur # None,
           walk.pos =< Len(TreeOf(walk.phase, walk.cur)),
           walk' = [walk EXCEPT !.pos = @ + 1], UNCHANGED <<env, phpVersion, ctxRun>>,
           NEW p \in Paths
    PROVE  Placed(p)' =
               IF p = <<walk.cur, TreeOf(walk.phase, walk.cur)[walk.pos].file>>
               THEN File(TreeOf(walk.phase, walk.cur)[walk.pos].tmpl)
               ELSE Placed(p)
<1> DEFINE c == walk.cur
           T == TreeOf(walk.phase, c)
           entry == T[walk.pos]
           n == walk.pos - 1
           f == p[2]
<1>1. /\ ctxRun # None /\ c \in walk.todo /\ c \in Dests
      /\ walk.phase \in {"box", "user"}
      /\ walk.phase = "user" => ~OverrideSkipped(c)
      /\ walk.pos \in Nat \ {0}
  BY DEF RInv, WalkShape, AgreeInv, TypeInv, TypeOK, WalkOK
<1>2. T \in Tree /\ DistinctFiles(T)
  BY SupplyAssumption DEF RInv, AgreeInv, TypeInv, WalkOK, WalkKnown, WalkTrees
<1>3. n \in Nat /\ n + 1 =< Len(T) /\ n + 1 = walk.pos
  BY <1>1
<1>4. /\ walk'.phase = walk.phase /\ walk'.todo = walk.todo /\ walk'.cur = c
      /\ walk'.pos = walk.pos + 1
  BY DEF RInv, AgreeInv, TypeInv, TypeOK
<1>5. p = <<p[1], f>> /\ p[1] \in Dests
  BY DEF Paths
<1>6. CASE p[1] # c
  <2>1. UserDone(p[1])' = UserDone(p[1]) /\ BoxDone(p[1])' = BoxDone(p[1])
    BY <1>4, <1>6 DEF UserDone, BoxDone, TreeOf, OverrideSkipped
  <2>. QED
    BY <1>6, <2>1, PlacedSame
<1>7. CASE p[1] = c /\ walk.phase = "box"
  <2>1. /\ BoxDone(c) = n /\ BoxDone(c)' = n + 1
        /\ UserDone(c) = 0 /\ UserDone(c)' = 0
    BY <1>1, <1>4, <1>7 DEF BoxDone, UserDone
  <2>2. TreeOf("box", c) = T /\ TreeOf("box", c)' = T /\ TreeOf("user", c)' = TreeOf("user", c)
    BY <1>7 DEF TreeOf
  <2>3. /\ Placed(p) = IF Has(T, n, f) THEN AtOf(T, n, f) ELSE AbsentFile
        /\ Placed(p)' = IF Has(T, n + 1, f) THEN AtOf(T, n + 1, f) ELSE AbsentFile
    BY <1>3, <1>7, <2>1, <2>2 DEF Placed, Has
  <2>4. CASE f = entry.file
    BY <1>2, <1>3, <1>5, <1>7, <2>3, <2>4, HasNew
  <2>5. CASE f # entry.file
    <3>1. T[n + 1].file # f
      BY <1>3, <2>5
    <3>. QED
      BY <1>2, <1>3, <1>5, <2>3, <2>5, <3>1, HasExtend
  <2>. QED
    BY <2>4, <2>5
<1>8. CASE p[1] = c /\ walk.phase = "user"
  <2>1. /\ UserDone(c) = n /\ UserDone(c)' = n + 1
        /\ BoxDone(c)' = BoxDone(c)
    BY <1>1, <1>4, <1>8 DEF BoxDone, UserDone, OverrideSkipped, TreeOf
  <2>2. TreeOf("user", c) = T /\ TreeOf("user", c)' = T /\ TreeOf("box", c)' = TreeOf("box", c)
    BY <1>8 DEF TreeOf
  <2>. DEFINE b == TreeOf("box", c)
  <2>3. /\ Placed(p) = IF Has(T, n, f) THEN AtOf(T, n, f)
                       ELSE IF Has(b, BoxDone(c), f) THEN AtOf(b, BoxDone(c), f)
                       ELSE AbsentFile
        /\ Placed(p)' = IF Has(T, n + 1, f) THEN AtOf(T, n + 1, f)
                        ELSE IF Has(b, BoxDone(c), f) THEN AtOf(b, BoxDone(c), f)
                        ELSE AbsentFile
    BY <1>8, <2>1, <2>2 DEF Placed
  <2>4. CASE f = entry.file
    BY <1>2, <1>3, <1>5, <1>8, <2>3, <2>4, HasNew
  <2>5. CASE f # entry.file
    <3>1. T[n + 1].file # f
      BY <1>3, <2>5
    <3>. QED
      BY <1>2, <1>3, <1>5, <2>3, <2>5, <3>1, HasExtend
  <2>. QED
    BY <2>4, <2>5
<1>. QED
  BY <1>1, <1>6, <1>7, <1>8

LEMMA InitRInv == Init => RInv
<1>. SUFFICES ASSUME Init PROVE RInv
  OBVIOUS
<1>1. AgreeInv
  BY InitAgreeInv
<1>2. WalkShape
  BY DEF Init, WalkShape, Configuring, ConfigWritten
<1>3. \A p \in Paths : Placed(p) = AbsentFile
  BY PlacedBlank DEF Init
<1>4. PlacedInv
  BY <1>3 DEF Init, PlacedInv
<1>. QED
  BY <1>1, <1>2, <1>4 DEF RInv

(* The walk callback writes the entry Placed says it has written, or     *)
(* fails the run.                                                         *)
LEMMA WalkFileRInv ==
    ASSUME RInv, WalkFile
    PROVE  WalkShape' /\ PlacedInv'
<1> DEFINE T == TreeOf(walk.phase, walk.cur)
           entry == T[walk.pos]
           path == <<walk.cur, entry.file>>
<1>1. /\ pc = "WriteConfigFiles" /\ walk.cur # None /\ walk.pos =< Len(T)
      /\ UNCHANGED <<env, phpVersion, ctxRun>>
      /\ \/ pc' = "Failed" /\ walk' = walk
         \/ /\ pc' = pc /\ walk' = [walk EXCEPT !.pos = @ + 1]
            /\ runTree' = [runTree EXCEPT ![path] = File(entry.tmpl)]
            /\ stageTree' = [stageTree EXCEPT ![path] = File(entry.tmpl)]
  BY WalkFileOutcome
<1>2. CASE pc' = "Failed"
  BY <1>2 DEF WalkShape, PlacedInv
<1>3. CASE pc' # "Failed"
  <2>1. /\ pc' = pc /\ walk' = [walk EXCEPT !.pos = @ + 1]
        /\ runTree' = [runTree EXCEPT ![path] = File(entry.tmpl)]
        /\ stageTree' = [stageTree EXCEPT ![path] = File(entry.tmpl)]
    BY <1>1, <1>3
  <2>2. /\ walk.pos \in Nat /\ T \in Tree
        /\ runTree \in [Paths -> Content] /\ stageTree \in [Paths -> Content]
    BY <1>1 DEF RInv, AgreeInv, TypeInv, TypeOK, WalkOK
  <2>3. WalkShape'
    <3>1. /\ walk'.phase = walk.phase /\ walk'.todo = walk.todo /\ walk'.cur = walk.cur
          /\ walk'.pos = walk.pos + 1 /\ walk.pos + 1 \in 1..Len(T) + 1
      BY <1>1, <2>1, <2>2 DEF RInv, AgreeInv, TypeInv, TypeOK
    <3>. QED
      BY <1>1, <2>1, <3>1 DEF RInv, WalkShape, TreeOf, OverrideSkipped
  <2>4. \A p \in Paths : runTree'[p] = Placed(p)' /\ stageTree'[p] = Placed(p)'
    <3>1. SUFFICES ASSUME NEW p \in Paths
                   PROVE  runTree'[p] = Placed(p)' /\ stageTree'[p] = Placed(p)'
      OBVIOUS
    <3>2. Placed(p)' = IF p = path THEN File(entry.tmpl) ELSE Placed(p)
      BY <1>1, <2>1, PlacedAdvance
    <3>3. runTree[p] = Placed(p) /\ stageTree[p] = Placed(p)
      BY <1>1 DEF RInv, PlacedInv
    <3>. QED
      BY <2>1, <2>2, <3>2, <3>3
  <2>. QED
    BY <1>1, <2>1, <2>3, <2>4 DEF PlacedInv
<1>. QED
  BY <1>2, <1>3

(* RInv holds after every step of Run.                                   *)
LEMMA NextRInv ==
    ASSUME RInv, [Next]_vars
    PROVE  RInv'
<1>1. AgreeInv'
  BY NextAgreeInv DEF RInv
<1>2. WalkShape' /\ PlacedInv'
  <2>1. CASE PreConfig  BY <2>1, PreConfigRInv
  <2>2. CASE PostConfig  BY <2>2, PostConfigRInv
  <2>3. CASE WriteConfigFiles  BY <2>3, WriteConfigFilesRInv
  <2>4. CASE StartWalk  BY <2>4, StartWalkRInv
  <2>5. CASE WalkFile  BY <2>5, WalkFileRInv
  <2>6. CASE EndWalk  BY <2>6, EndWalkRInv
  <2>7. CASE EndLoop  BY <2>7, EndLoopRInv
  <2>8. CASE UNCHANGED vars
    <3>1. WalkShape'
      BY <2>8 DEF RInv, vars, WalkShape, TreeOf, OverrideSkipped
    <3>2. \A d \in Dests : UserDone(d)' = UserDone(d) /\ BoxDone(d)' = BoxDone(d)
      BY <2>8 DEF vars, UserDone, BoxDone, TreeOf, OverrideSkipped
    <3>3. \A p \in Paths : Placed(p)' = Placed(p)
      BY <2>8, <3>2, PlacedSame DEF vars, Paths
    <3>. QED
      BY <2>8, <3>1, <3>3 DEF RInv, PlacedInv, vars
  <2>. QED
    BY <2>1, <2>2, <2>3, <2>4, <2>5, <2>6, <2>7, <2>8 DEF Next, PreConfig, PostConfig
<1>. QED
  BY <1>1, <1>2 DEF RInv

(* RInv gives ConfigInPlace when every override directory can be listed. *)
LEMMA RInvConfig ==
    ASSUME UnreadableDirs = {{}}, RInv
    PROVE  ConfigInPlace
<1>. SUFFICES ASSUME pc \in ConfigWritten
              PROVE  \A p \in Paths : runTree[p] = ExpectedFile(p) /\ stageTree[p] = ExpectedFile(p)
  BY DEF ConfigInPlace
<1>1. /\ pc # "Failed" /\ ctxRun # None
      /\ walk.phase = "user" /\ walk.todo = {} /\ walk.cur = None
  BY DEF RInv, WalkShape, ConfigWritten, Configuring
<1>2. env.unreadable = {}
  BY DEF RInv, AgreeInv, TypeInv, TypeOK, Env
<1>. QED
  BY <1>1, <1>2, Complete

(* Once WriteConfigFiles has returned nil, every destination path of     *)
(* both config trees (php/etc and httpd/conf under DepDir and under      *)
(* /tmp/php_etc) holds the rendering of its winning template: the app's  *)
(* .bp-config override where it has the file, the embedded file of the   *)
(* resolved version line otherwise, and nothing where neither has it.    *)
(* This holds for every app whose override directories can be listed;    *)
(* the run MCSupply_unreadable shows it fails otherwise.                  *)
THEOREM ConfigCorrect ==
    ASSUME UnreadableDirs = {{}}
    PROVE  Spec => []ConfigInPlace
<1>1. Init => RInv
  BY InitRInv
<1>2. RInv /\ [Next]_vars => RInv'
  BY NextRInv
<1>3. RInv => ConfigInPlace
  BY RInvConfig
<1>. QED
  BY <1>1, <1>2, <1>3, PTL DEF Spec

-----------------------------------------------------------------------------
(***************************************************************************)
(* Supply implements DualRender under the mapping of SupplyRender.         *)
(***************************************************************************)

(* The plan reads only the contexts, the version and the app's files.    *)
LEMMA PlanSame ==
    ASSUME UNCHANGED <<ctxRun, env, phpVersion>>
    PROVE  RenderPlan' = RenderPlan
BY DEF RenderPlan, ExpectedFile, TreeOf, HasFile, TemplateAt, BlankTree

(* Every winning template is a template of the tree it comes from.       *)
LEMMA ExpectedType ==
    ASSUME TypeOK, versionLine(phpVersion) \in DOMAIN BoxPhp, NEW p \in Paths
    PROVE  ExpectedFile(p) \in Content
<1> DEFINE f == p[2]
           user == TreeOf("user", p[1])
           box == IF p[1] = "php" THEN BoxPhp[versionLine(phpVersion)] ELSE BoxHttpd
<1>1. user \in Tree \cup {NoFile} /\ box \in Tree
  BY SupplyAssumption DEF TypeOK, Env, TreeOf, Paths, Dests
<1>2. ASSUME NEW t \in Tree, HasFile(t, f) PROVE TemplateAt(t, f) \in Template
  <2>1. \E e \in {t[i] : i \in DOMAIN t} : e.file = f
    BY <1>2 DEF HasFile
  <2>2. (CHOOSE e \in {t[i] : i \in DOMAIN t} : e.file = f) \in {t[i] : i \in DOMAIN t}
    BY <2>1
  <2>3. \A i \in DOMAIN t : t[i] \in [file : Files, tmpl : Template]
    <3>1. DOMAIN t = 1..Len(t)
      BY DEF Tree
    <3>. QED
      BY <3>1, ElementOfSeq DEF Tree
  <2>4. \A e \in {t[i] : i \in DOMAIN t} : e.tmpl \in Template
    BY <2>3
  <2>. QED
    BY <2>2, <2>4 DEF TemplateAt
<1>3. HasFile(user, f) => user \in Tree
  BY <1>1 DEF HasFile
<1>. QED
  BY <1>1, <1>2, <1>3 DEF ExpectedFile, Content, File, AbsentFile, TornFile

(* A failure the trees do not see: the renderer aborts with the trees as *)
(* they are.                                                              *)
LEMMA AbortKeep ==
    ASSUME RenderStatus # "failed", RenderStatus' = "failed",
           UNCHANGED <<runTree, stageTree>>, RenderPlan' = RenderPlan,
           runTree \in [Paths -> Content], stageTree \in [Paths -> Content]
    PROVE  R!Abort
BY DEF R!Abort

(* Where Run is, as the renderer's status.                               *)
LEMMA StatusOf ==
    /\ pc = "Failed" => RenderStatus = "failed"
    /\ pc # "Failed" /\ ctxRun = None => RenderStatus = "idle"
    /\ pc = "WriteConfigFiles" /\ ctxRun # None => RenderStatus = "rendering"
    /\ pc \in ConfigWritten /\ ctxRun # None => RenderStatus = "done"
BY DEF RenderStatus, ConfigWritten

(* The trees are typed, as the abstract Abort needs them.                *)
LEMMA TreesTyped ==
    ASSUME RInv
    PROVE  runTree \in [Paths -> Content] /\ stageTree \in [Paths -> Content]
BY DEF RInv, AgreeInv, TypeInv, TypeOK

(* Before the contexts are bound the renderer is idle; a failure of Run *)
(* there aborts it with both trees blank.                                *)
LEMMA RefinePre ==
    ASSUME RInv, PreConfig
    PROVE  [R!Next]_R!rvars
<1>1. /\ pc \in Configuring \ {"WriteConfigFiles"}
      /\ pc' \in Configuring \cup {"Failed"}
      /\ UNCHANGED <<env, ctxRun, walk, runTree, stageTree>>
  BY PreConfigStep
<1>2. pc # "Failed" /\ ctxRun = None
  BY <1>1 DEF RInv, WalkShape, Configuring, ConfigWritten
<1>3. /\ RenderStatus = "idle" /\ RenderPlan = BlankTree /\ RenderPlan' = BlankTree
  BY <1>1, <1>2, StatusOf DEF RenderPlan
<1>4. CASE pc' = "Failed"
  <2>1. RenderStatus' = "failed"
    BY <1>4 DEF RenderStatus
  <2>. QED
    BY <1>1, <1>3, <2>1, TreesTyped, AbortKeep DEF R!Next
<1>5. CASE pc' # "Failed"
  <2>1. RenderStatus' = "idle"
    BY <1>1, <1>2, <1>5 DEF RenderStatus
  <2>. QED
    BY <1>1, <1>3, <2>1 DEF R!rvars
<1>. QED
  BY <1>4, <1>5

(* After WriteConfigFiles has returned the renderer is done; a failure  *)
(* of Run there aborts it with the trees as they are.                    *)
LEMMA RefinePost ==
    ASSUME RInv, PostConfig
    PROVE  [R!Next]_R!rvars
<1>1. /\ pc \in ConfigWritten
      /\ pc' \in ConfigWritten \cup {"Failed"}
      /\ UNCHANGED <<env, phpVersion, ctxRun, walk, runTree, stageTree>>
  BY PostConfigStep
<1>2. pc # "Failed" /\ ctxRun # None
  BY <1>1 DEF RInv, WalkShape, Configuring, ConfigWritten
<1>3. RenderStatus = "done" /\ RenderPlan' = RenderPlan
  BY <1>1, <1>2, StatusOf, PlanSame
<1>4. CASE pc' = "Failed"
  <2>1. RenderStatus' = "failed"
    BY <1>4 DEF RenderStatus
  <2>. QED
    BY <1>1, <1>3, <2>1, TreesTyped, AbortKeep DEF R!Next
<1>5. CASE pc' # "Failed"
  <2>1. RenderStatus' = "done"
    BY <1>1, <1>2, <1>5 DEF RenderStatus, ConfigWritten
  <2>. QED
    BY <1>1, <1>3, <2>1 DEF R!rvars
<1>. QED
  BY <1>4, <1>5

(* WriteConfigFiles binds the contexts: rendering begins, with the plan  *)
(* fixed from then on.                                                    *)
LEMMA RefineWriteConfigFiles ==
    ASSUME RInv, WriteConfigFiles
    PROVE  R!Begin
<1>1. /\ pc = "WriteConfigFiles" /\ ctxRun = None /\ pc' = pc
      /\ UNCHANGED <<env, phpVersion, runTree, stageTree>>
  BY DEF WriteConfigFiles
<1>2. ctxRun' # None
  <2>1. webDir \in WebDirs \cup {EmptyText}
    BY DEF RInv, AgreeInv, TypeInv, TypeOK
  <2>2. ctxRun' \in Ctx
    BY <2>1, ContextsType DEF WriteConfigFiles
  <2>. QED
    BY <2>2, SupplyAssumption
<1>3. RenderStatus = "idle" /\ RenderStatus' = "rendering"
  BY <1>1, <1>2, StatusOf DEF RenderStatus
<1>4. RenderPlan' \in [Paths -> Content]
  <2>1. CASE versionLine(phpVersion) \in DOMAIN BoxPhp
    <3>1. \A p \in Paths : ExpectedFile(p)' = ExpectedFile(p)
      BY <1>1 DEF ExpectedFile, TreeOf, HasFile, TemplateAt
    <3>2. \A p \in Paths : ExpectedFile(p) \in Content
      BY <2>1, ExpectedType DEF RInv, AgreeInv, TypeInv
    <3>3. RenderPlan' = [p \in Paths |-> ExpectedFile(p)']
      BY <1>1, <1>2, <2>1 DEF RenderPlan
    <3>. QED
      BY <3>1, <3>2, <3>3
  <2>2. CASE versionLine(phpVersion) \notin DOMAIN BoxPhp
    BY <1>1, <2>2 DEF RenderPlan, BlankTree, Content, AbsentFile
  <2>. QED
    BY <2>1, <2>2
<1>. QED
  BY <1>1, <1>3, <1>4 DEF R!Begin

(* StartWalk writes nothing: a stutter of the renderer, or its abort.   *)
LEMMA RefineStartWalk ==
    ASSUME RInv, StartWalk
    PROVE  [R!Next]_R!rvars
<1>1. /\ pc = "WriteConfigFiles" /\ ctxRun # None
      /\ pc' \in {pc, "Failed"}
      /\ UNCHANGED <<env, phpVersion, ctxRun, runTree, stageTree>>
  BY DEF StartWalk, Fail
<1>2. RenderStatus = "rendering" /\ RenderPlan' = RenderPlan
  BY <1>1, StatusOf, PlanSame
<1>3. CASE pc' = "Failed"
  <2>1. RenderStatus' = "failed"
    BY <1>3 DEF RenderStatus
  <2>. QED
    BY <1>1, <1>2, <2>1, TreesTyped, AbortKeep DEF R!Next
<1>4. CASE pc' # "Failed"
  <2>1. RenderStatus' = "rendering"
    BY <1>1, <1>4 DEF RenderStatus
  <2>. QED
    BY <1>1, <1>2, <2>1 DEF R!rvars
<1>. QED
  BY <1>3, <1>4

(* The walk callback is one Put of the renderer when it returns nil, and *)
(* its abort, with at most the entry's path changed, when it fails.      *)
LEMMA RefineWalkFile ==
    ASSUME RInv, RInv', WalkFile
    PROVE  R!Put \/ R!Abort
<1> DEFINE T == TreeOf(walk.phase, walk.cur)
           entry == T[walk.pos]
           path == <<walk.cur, entry.file>>
<1>1. /\ pc = "WriteConfigFiles" /\ walk.cur # None /\ walk.pos =< Len(T)
      /\ UNCHANGED <<env, phpVersion, ctxRun>>
      /\ \/ /\ pc' = "Failed" /\ walk' = walk
            /\ \/ UNCHANGED <<runTree, stageTree>>
               \/ \E x, y : /\ runTree' = [runTree EXCEPT ![path] = x]
                            /\ stageTree' = [stageTree EXCEPT ![path] = y]
         \/ /\ pc' = pc /\ walk' = [walk EXCEPT !.pos = @ + 1]
            /\ runTree' = [runTree EXCEPT ![path] = File(entry.tmpl)]
            /\ stageTree' = [stageTree EXCEPT ![path] = File(entry.tmpl)]
  BY WalkFileOutcome
<1>2. /\ ctxRun # None /\ walk.cur \in Dests /\ walk.pos \in 1..Len(T)
      /\ T \in Tree /\ T \in WalkTrees
  BY <1>1 DEF RInv, WalkShape, AgreeInv, TypeInv, TypeOK, WalkOK, WalkKnown
<1>3. entry \in [file : Files, tmpl : Template]
  BY <1>2, ElementOfSeq DEF Tree
<1>4. path \in Paths /\ File(entry.tmpl) \in RenderedFiles
  BY <1>2, <1>3 DEF Paths, RenderedFiles, KnownTemplates, TreeTemplates, WalkTrees
<1>5. RenderStatus = "rendering" /\ RenderPlan' = RenderPlan
  BY <1>1, <1>2, StatusOf, PlanSame
<1>6. runTree \in [Paths -> Content] /\ stageTree \in [Paths -> Content]
      /\ runTree' \in [Paths -> Content] /\ stageTree' \in [Paths -> Content]
  BY DEF RInv, AgreeInv, TypeInv, TypeOK
<1>7. CASE pc' = "Failed"
  <2>1. RenderStatus' = "failed"
    BY <1>7 DEF RenderStatus
  <2>2. \A q \in Paths \ {path} : runTree'[q] = runTree[q] /\ stageTree'[q] = stageTree[q]
    BY <1>1, <1>6, <1>7
  <2>3. \A p, q \in Paths :
            (runTree'[p] # runTree[p] \/ stageTree'[p] # stageTree[p]) /\
            (runTree'[q] # runTree[q] \/ stageTree'[q] # stageTree[q]) => p = q
    BY <2>2
  <2>. QED
    BY <1>5, <1>6, <2>1, <2>3 DEF R!Abort
<1>8. CASE pc' # "Failed"
  <2>1. /\ pc' = pc
        /\ runTree' = [runTree EXCEPT ![path] = File(entry.tmpl)]
        /\ stageTree' = [stageTree EXCEPT ![path] = File(entry.tmpl)]
    BY <1>1, <1>8
  <2>2. RenderStatus' = "rendering"
    BY <1>1, <1>2, <2>1 DEF RenderStatus
  <2>. QED
    BY <1>4, <1>5, <2>1, <2>2 DEF R!Put
<1>. QED
  BY <1>7, <1>8

(* The end of a walk writes nothing and fails nothing.                   *)
LEMMA RefineEndWalk ==
    ASSUME RInv, EndWalk
    PROVE  UNCHANGED R!rvars
<1>1. /\ pc = "WriteConfigFiles" /\ walk.cur # None
      /\ UNCHANGED <<env, pc, phpVersion, ctxRun, runTree, stageTree>>
  BY DEF EndWalk
<1>2. ctxRun # None
  BY <1>1 DEF RInv, WalkShape
<1>. QED
  BY <1>1, <1>2, PlanSame DEF RenderStatus, R!rvars

(* The end of the embedded loop writes nothing; the end of the override *)
(* loop, when every override directory could be listed, finds both trees *)
(* equal to the plan: the renderer finishes.                              *)
LEMMA RefineEndLoop ==
    ASSUME UnreadableDirs = {{}}, RInv, EndLoop
    PROVE  [R!Next]_R!rvars
<1>1. /\ pc = "WriteConfigFiles" /\ ctxRun # None
      /\ walk.cur = None /\ walk.todo = {}
      /\ UNCHANGED <<env, phpVersion, ctxRun, runTree, stageTree>>
  BY DEF EndLoop
<1>2. RenderStatus = "rendering" /\ RenderPlan' = RenderPlan
  BY <1>1, StatusOf, PlanSame
<1>3. CASE walk.phase = "box"
  <2>1. pc' = pc
    BY <1>3 DEF EndLoop
  <2>. QED
    BY <1>1, <1>2, <2>1 DEF RenderStatus, R!rvars
<1>4. CASE walk.phase # "box"
  <2>1. walk.phase = "user"
    BY <1>4 DEF RInv, AgreeInv, TypeInv, TypeOK
  <2>2. pc' \in ConfigWritten
    BY <1>4 DEF EndLoop, Succeed, NextStep, RunOrder, ConfigWritten
  <2>3. RenderStatus' = "done"
    BY <1>1, <2>2 DEF RenderStatus, ConfigWritten
  <2>4. env.unreadable = {}
    BY DEF RInv, AgreeInv, TypeInv, TypeOK, Env
  <2>5. \A p \in Paths : runTree[p] = ExpectedFile(p) /\ stageTree[p] = ExpectedFile(p)
    BY <1>1, <2>1, <2>4, Complete
  <2>6. versionLine(phpVersion) \in DOMAIN BoxPhp
    BY <1>1, <2>1 DEF RInv, WalkShape
  <2>7. RenderPlan = [p \in Paths |-> ExpectedFile(p)]
    BY <1>1, <2>6 DEF RenderPlan
  <2>8. runTree = RenderPlan /\ stageTree = RenderPlan
    BY <2>5, <2>7, TreesTyped
  <2>. QED
    BY <1>1, <1>2, <2>3, <2>8 DEF R!Finish, R!Next
<1>. QED
  BY <1>3, <1>4

(* Every step of Run is a step of the renderer or leaves it as it is.   *)
LEMMA RefineStep ==
    ASSUME UnreadableDirs = {{}}, RInv, RInv', [Next]_vars
    PROVE  [R!Next]_R!rvars
<1>1. CASE PreConfig  BY <1>1, RefinePre
<1>2. CASE PostConfig  BY <1>2, RefinePost
<1>3. CASE WriteConfigFiles  BY <1>3, RefineWriteConfigFiles DEF R!Next
<1>4. CASE StartWalk  BY <1>4, RefineStartWalk
<1>5. CASE WalkFile  BY <1>5, RefineWalkFile DEF R!Next
<1>6. CASE EndWalk  BY <1>6, RefineEndWalk
<1>7. CASE EndLoop  BY <1>7, RefineEndLoop
<1>8. CASE UNCHANGED vars
  BY <1>8, PlanSame DEF vars, RenderStatus, R!rvars
<1>. QED
  BY <1>1, <1>2, <1>3, <1>4, <1>5, <1>6, <1>7, <1>8 DEF Next, PreConfig, PostConfig

(* Supplier.Run renders the two config trees as the renderer contract    *)
(* says: nothing is written before WriteConfigFiles binds the contexts,  *)
(* every callback that returns nil writes one template rendered with    *)
(* both contexts to the same path of both trees, a failure leaves at    *)
(* most the file being written apart, and WriteConfigFiles returns nil   *)
(* only when both trees hold the winning template of every path.  It    *)
(* holds for every app whose override directories can be listed.        *)
THEOREM RendererRefined ==
    ASSUME UnreadableDirs = {{}}
    PROVE  Spec => RendererContract
<1>1. Init => R!Init
  BY DEF Init, R!Init, R!Empty, RenderStatus, RenderPlan, BlankTree
<1>2. Spec => []RInv
  BY InitRInv, NextRInv, PTL DEF Spec
<1>3. RInv /\ RInv' /\ [Next]_vars => [R!Next]_R!rvars
  BY RefineStep
<1>. QED
  BY <1>1, <1>2, <1>3, PTL DEF Spec, RendererContract, R!Spec

=============================================================================
