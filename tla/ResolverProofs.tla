--------------------------- MODULE ResolverProofs ---------------------------
(***************************************************************************)
(* The Version Resolver picks the version the spec prescribes, for every  *)
(* catalog and every default that meet CatalogAssumption.                 *)
(*                                                                         *)
(* VersionResolved is not inductive by itself: it reads optionsJson and   *)
(* composerJson, which ReadConfig writes.  It holds because ReadConfig    *)
(* only runs before any version is chosen, and SetupPhpVersion only once: *)
(* once phpVersion is set, Run is past both steps, and no later step      *)
(* writes the two documents or the version.                               *)
(***************************************************************************)
EXTENDS SupplyProofs

(* The strengthening: a chosen version means Run has left the two steps  *)
(* that read the config and resolve the version.                         *)
VersionChosenLate ==
    phpVersion # NoVersion => pc \notin {"ReadConfig", "SetupPhpVersion"}

VInv == TypeInv /\ VersionChosenLate /\ VersionResolved

(* FindMatchingVersion's result, when there is one, satisfies the        *)
(* constraint and is the highest catalog version that does.              *)
LEMMA FindMatchingFound ==
    ASSUME NEW c, FindMatchingVersion(c, Catalog) # NoVersion
    PROVE  /\ Satisfies(FindMatchingVersion(c, Catalog), c)
           /\ \A v \in Catalog : Satisfies(v, c)
                                   => VersionLeq(v, FindMatchingVersion(c, Catalog))
<1> DEFINE ok == {v \in Catalog : Satisfies(v, c)}
<1>1. ok # {}
  BY DEF FindMatchingVersion
<1>2. \E v \in ok : \A w \in ok : VersionLeq(w, v)
  BY <1>1, CatalogAssumption
<1>3. FindMatchingVersion(c, Catalog) = CHOOSE v \in ok : \A w \in ok : VersionLeq(w, v)
  BY <1>1 DEF FindMatchingVersion
<1>. QED
  BY <1>2, <1>3

(* FindMatchingVersion fails only when no catalog version satisfies the  *)
(* constraint (NoVersion is no catalog version).                         *)
LEMMA FindMatchingNone ==
    ASSUME NEW c, FindMatchingVersion(c, Catalog) = NoVersion
    PROVE  \A v \in Catalog : ~Satisfies(v, c)
<1> DEFINE ok == {v \in Catalog : Satisfies(v, c)}
<1>1. SUFFICES ASSUME ok # {} PROVE FALSE
  OBVIOUS
<1>2. \E v \in ok : \A w \in ok : VersionLeq(w, v)
  BY <1>1, CatalogAssumption
<1>3. FindMatchingVersion(c, Catalog) \in ok
  BY <1>1, <1>2 DEF FindMatchingVersion
<1>. QED
  BY <1>3, CatalogAssumption

(* After any step but ReadConfig, Run is at a step after SetupPhpVersion *)
(* or has failed.                                                        *)
LEMMA NextStepLate ==
    ASSUME NEW s \in DOMAIN RunOrder \ {"ReadConfig"}
    PROVE  NextStep(s) \notin {"ReadConfig", "SetupPhpVersion"}
BY DEF NextStep, RunOrder

LEMMA InitVInv == Init => VInv
<1>. SUFFICES ASSUME Init PROVE VInv
  OBVIOUS
<1>1. phpVersion = NoVersion
  BY DEF Init
<1>. QED
  BY <1>1, InitTypeInv DEF VInv, VersionChosenLate, VersionResolved

(* Every step but ReadConfig and SetupPhpVersion keeps the version and   *)
(* the two documents, and moves Run on from where it is, to a later step *)
(* or to "Failed".                                                       *)
LaterPc == {NextStep(s) : s \in DOMAIN RunOrder \ {"ReadConfig"}} \cup {"Failed"}

LEMMA LaterStepsKeepDocs ==
    ASSUME [Next]_vars, ~ReadConfig, ~SetupPhpVersion
    PROVE  /\ UNCHANGED <<phpVersion, optionsJson, composerJson>>
           /\ pc' \in {pc} \cup LaterPc
<1> USE DEF LaterPc, Succeed, Fail, RunOrder
<1>1. CASE SetupExtensions  BY <1>1 DEF SetupExtensions
<1>2. CASE InstallHTTPD  BY <1>2 DEF InstallHTTPD, Install
<1>3. CASE InstallPHP  BY <1>3 DEF InstallPHP, Install
<1>4. CASE WriteConfigFiles  BY <1>4 DEF WriteConfigFiles
<1>5. CASE StartWalk  BY <1>5 DEF StartWalk
<1>6. CASE WalkFile  BY <1>6 DEF WalkFile
<1>7. CASE EndWalk  BY <1>7 DEF EndWalk
<1>8. CASE EndLoop  BY <1>8 DEF EndLoop
<1>9. CASE InstallComposer  BY <1>9 DEF InstallComposer, Install
<1>10. CASE RunComposer  BY <1>10 DEF RunComposer
<1>11. CASE InstallVarify  BY <1>11 DEF InstallVarify, Install
<1>12. CASE WriteProfileD  BY <1>12 DEF WriteProfileD
<1>13. CASE WriteStartFile  BY <1>13 DEF WriteStartFile, Install
<1>14. CASE UNCHANGED vars  BY <1>14 DEF vars
<1>. QED
  BY <1>1, <1>2, <1>3, <1>4, <1>5, <1>6, <1>7, <1>8, <1>9, <1>10, <1>11,
     <1>12, <1>13, <1>14 DEF Next

(* SetupPhpVersion resolves the declared constraint as VersionResolved   *)
(* says: its precedence of composer.json over options.json is that of     *)
(* DeclaredConstraint, a match is the highest one, and no match (or no    *)
(* constraint) gives the default.                                         *)
LEMMA SetupPhpVersionResolves ==
    ASSUME VInv, SetupPhpVersion
    PROVE  VInv'
<1> DEFINE fromOptions == IF optionsJson # None /\ optionsJson.php # None
                          THEN ExpandAlias(optionsJson.php) ELSE NoVersion
           requested == IF Require # None /\ Require.php # None
                        THEN ComposerConstraint(Require.php) ELSE fromOptions
           matched == IF requested = NoVersion THEN NoVersion
                      ELSE FindMatchingVersion(requested, Catalog)
<1>1. requested = DeclaredConstraint
  <2>1. CASE Require # None /\ Require.php # None
    <3>1. DeclaredConstraint = ComposerConstraint(Require.php)
      BY <2>1 DEF DeclaredConstraint
    <3>2. requested = ComposerConstraint(Require.php)
      BY <2>1 DEF requested
    <3>. QED
      BY <3>1, <3>2
  <2>2. CASE ~(Require # None /\ Require.php # None)
             /\ optionsJson # None /\ optionsJson.php # None
    <3>1. DeclaredConstraint = ExpandAlias(optionsJson.php)
      BY <2>2 DEF DeclaredConstraint
    <3>2. requested = ExpandAlias(optionsJson.php)
      BY <2>2 DEF requested, fromOptions
    <3>. QED
      BY <3>1, <3>2
  <2>3. CASE ~(Require # None /\ Require.php # None)
             /\ ~(optionsJson # None /\ optionsJson.php # None)
    <3>1. DeclaredConstraint = NoVersion
      BY <2>3 DEF DeclaredConstraint
    <3>2. requested = NoVersion
      BY <2>3 DEF requested, fromOptions
    <3>. QED
      BY <3>1, <3>2
  <2>. QED
    BY <2>1, <2>2, <2>3
<1>2. /\ pc = "SetupPhpVersion" /\ phpVersion = NoVersion
      /\ UNCHANGED <<optionsJson, composerJson>>
      /\ pc' \in {"SetupExtensions", "Failed"}
      /\ IF matched # NoVersion THEN phpVersion' = matched
         ELSE phpVersion' \in {DefaultPhp, phpVersion}
  BY DEF SetupPhpVersion, Succeed, Fail, NextStep, RunOrder, VInv, VersionChosenLate
<1>3. DeclaredConstraint' = DeclaredConstraint
  BY <1>2 DEF DeclaredConstraint, Require
<1>4. TypeInv'
  BY SetupPhpVersionTypeInv DEF VInv
<1>5. VersionChosenLate'
  BY <1>2 DEF VersionChosenLate
<1>6. CASE matched # NoVersion
  <2>1. requested # NoVersion /\ matched = FindMatchingVersion(requested, Catalog)
    BY <1>6 DEF matched
  <2>2. /\ Satisfies(matched, requested)
        /\ \A v \in Catalog : Satisfies(v, requested) => VersionLeq(v, matched)
    BY <1>6, <2>1, FindMatchingFound
  <2>3. matched \in Catalog
    BY <1>6, <2>1, FindMatchingType
  <2>4. phpVersion' = matched
    BY <1>2, <1>6
  <2>. QED
    BY <1>1, <1>3, <1>4, <1>5, <2>1, <2>2, <2>3, <2>4 DEF VersionResolved, VInv
<1>7. CASE matched = NoVersion
  <2>1. ~(requested # NoVersion /\ \E v \in Catalog : Satisfies(v, requested))
    BY <1>7, FindMatchingNone DEF matched
  <2>2. phpVersion' # NoVersion => phpVersion' = DefaultPhp
    BY <1>2, <1>7
  <2>. QED
    BY <1>1, <1>3, <1>4, <1>5, <2>1, <2>2 DEF VersionResolved, VInv
<1>. QED
  BY <1>4, <1>5, <1>6, <1>7 DEF VInv

(* ReadConfig runs before a version is chosen and chooses none.          *)
LEMMA ReadConfigKeepsVInv ==
    ASSUME VInv, ReadConfig
    PROVE  VInv'
<1>1. pc = "ReadConfig" /\ phpVersion = NoVersion /\ UNCHANGED phpVersion
  BY DEF ReadConfig, VInv, VersionChosenLate
<1>2. TypeInv'
  BY ReadConfigTypeInv DEF VInv
<1>. QED
  BY <1>1, <1>2 DEF VInv, VersionChosenLate, VersionResolved

LEMMA NextVInv ==
    ASSUME VInv, [Next]_vars
    PROVE  VInv'
<1>1. CASE ReadConfig
  BY <1>1, ReadConfigKeepsVInv
<1>2. CASE SetupPhpVersion
  BY <1>2, SetupPhpVersionResolves
<1>3. CASE ~ReadConfig /\ ~SetupPhpVersion
  <2>1. /\ UNCHANGED <<phpVersion, optionsJson, composerJson>>
        /\ pc' \in {pc} \cup LaterPc
    BY <1>3, LaterStepsKeepDocs
  <2>2. TypeInv'
    BY NextTypeInv DEF VInv
  <2>3. \A s \in DOMAIN RunOrder \ {"ReadConfig"} :
            NextStep(s) \notin {"ReadConfig", "SetupPhpVersion"}
    BY NextStepLate
  <2>4. VersionChosenLate'
    BY <2>1, <2>3 DEF VInv, VersionChosenLate, LaterPc
  <2>5. DeclaredConstraint' = DeclaredConstraint
    BY <2>1 DEF DeclaredConstraint, Require
  <2>6. VersionResolved'
    BY <2>1, <2>5 DEF VInv, VersionResolved
  <2>. QED
    BY <2>2, <2>4, <2>6 DEF VInv
<1>. QED
  BY <1>1, <1>2, <1>3

(* In every run of the supply phase, the PHP version SetupPhpVersion      *)
(* chooses is the highest catalog version satisfying the constraint the   *)
(* app declares (composer.json's require.php, ">=" read as "~>", over     *)
(* options.json's PHP_VERSION, aliases expanded) when one does, and the   *)
(* manifest's default otherwise; it never changes afterwards.             *)
THEOREM VersionCorrect == Spec => []VersionResolved
<1>1. Init => VInv
  BY InitVInv
<1>2. VInv /\ [Next]_vars => VInv'
  BY NextVInv
<1>3. VInv => VersionResolved
  BY DEF VInv
<1>. QED
  BY <1>1, <1>2, <1>3, PTL DEF Spec

=============================================================================
