# Verification of the PHP buildpack's supply and finalize phases

TLA+ models, TLC runs and TLAPS proofs for `src/src/php/supply/supply.go`
(the supply phase of the buildpack) and `src/src/php/finalize/finalize.go`
(the finalize phase). They cover the logic that decides which
PHP version and which extensions to install, and how the configuration
templates are rendered twice: once for runtime, once for staging.

## 1. The system

`Supplier.Run` (supply.go:70-123) is a single goroutine. It calls these steps
in a fixed order and stops at the first error:

| step | code | what it does |
|------|------|--------------|
| ReadConfig | 125-170 | loads `.bp-config/options.json` and `composer.json` (in the build dir, or under `$COMPOSER_PATH`, which wins) |
| SetupPhpVersion | 172-219 | Version Resolver: options `PHP_VERSION` (alias `PHP_<D><D>_LATEST` → `D.D.x`), overridden by composer `require.php` (`>=` rewritten to `~>`), matched against the manifest catalog; no match → manifest default |
| SetupExtensions | 221-266 | Extension Aggregator: built-in set, replaced by `PHP_EXTENSIONS`; `ZEND_EXTENSIONS`; composer `ext-*` keys added always, `ext-pdo_*` implies `pdo` |
| InstallHTTPD, InstallPHP | 268-299 | collaborators (manifest installs, links, apachectl rewrite) |
| WriteConfigFiles | 301-396 | Binding Context Builder (`ctxRun`, `ctxStage`) and Dual-Context Renderer: walks the embedded trees `php/<line>` and `httpd`, then the app's `.bp-config/php` and `.bp-config/httpd`. Each file is written to `$DEPS_DIR/<idx>` with `ctxRun` and to `/tmp/php_etc` with `ctxStage` |
| InstallComposer, RunComposer | 398-448 | only when a composer.json was found; composer runs with `PHPRC=/tmp/php_etc/php/etc`; with a token, the GitHub rate-limit check (496-517) decides whether to configure it |
| InstallVarify, WriteProfileD, WriteStartFile | 450-488 | collaborators; profile.d exports `PHP_INI_SCAN_DIR` if the walk wrote `php/etc/php.ini.d` |

`Finalizer.Run` (finalize.go:27-41) runs after supply has returned nil. It
rewrites `$DEPS_DIR/<idx>/bin/php_buildpack_start` (43-51), a script that
runs varify and then starts php-fpm with `php/etc/php-fpm.conf` and
apachectl with `httpd/conf/httpd.conf`. It then writes the release
descriptor `/tmp/php-buildpack-release-step.yml`, whose web process is that
script (53-59). The first error ends the run.

The steps interact through the Supplier's fields (version, extension sets,
web dir) and through the file system. Composer and the running app read the
two config trees that WriteConfigFiles writes.

Two kinds of nondeterminism are real in this code:

- Go map iteration order. Which embedded tree is walked first (line 380),
  which override tree (385), and which of the two destinations of a file is
  written first (360).
- The failure of any collaborator call. A write can fail after `os.Create`
  has already truncated the file (364-371).

## 2. Modules

| module | models | kind |
|--------|--------|------|
| `PhpVersion` | version triples, constraints, `FindMatchingVersion` (libbuildpack, from spec §4.1), the alias and `>=` rewrites, `versionLine` | pure operators |
| `Extensions` | the built-in set and the contribution of composer `require` keys | pure operators |
| `ConfigFiles` | `ctxRun`/`ctxStage`, the legacy-token rewrite, parse, render | pure operators |
| `Supply` | `Run` and every step as one state machine, composing the three above | state machine |
| `MCSupply` | small instances for TLC | MC module |
| `SupplyProofs` | TLAPS proofs of `TypeOK` and `ConfigTreesAgree` | proofs |
| `ResolverProofs` | TLAPS proof of `VersionResolved` | proofs |
| `Finalize` | `Finalizer.Run`: the start-script write, then the release write | state machine |
| `Buildpack` | `Supply` then `Finalize`, sharing `$DEPS_DIR` | composition |
| `DualRender` | the renderer's contract, abstractly | abstract spec |
| `SupplyRender` | the refinement mapping from `Supply` to `DualRender` | refinement |
| `RenderProofs` | TLAPS proofs of `ConfigInPlace` and of the refinement | proofs |
| `ExtensionProofs` | TLAPS proof of `RunConfigLoadsRequestedExtensions` | proofs |
| `StagingProofs` | TLAPS proofs of `ScanDirMatchesConfig` and of `Buildpack`'s `ReleaseReady` | proofs |
| `MCBuildpack`, `MCSupplyRender` | the MCSupply instances for the two modules above | MC modules |

How `Supply`'s state corresponds to the code:

- `pc` is the step `Run` is about to call. `"Failed"` means `Run` returned an error.
- `optionsJson`, `composerPath`, `composerJson`, `webDir`, `phpVersion`,
  `phpExtensions` and `zendExtensions` are the Supplier fields of the same
  names. A nil map is `None`.
- `ctxRun` and `ctxStage` are the two binding contexts.
- `walk` is the position in WriteConfigFiles' loops:
  - `phase` is embedded ("box") or override ("user");
  - `todo` holds the trees of the loop not yet walked;
  - `cur` and `pos` are the tree being walked and the position in it.
- `runTree` and `stageTree` are the files under `$DEPS_DIR/<idx>` and
  `/tmp/php_etc`.
- `done` holds the effects of the collaborators.
- `env` holds the fixed inputs: the app's files, the environment variables,
  and whether varify is prebuilt.

Data abstraction:

- A template is a sequence of tokens: literal text, a legacy marker such as
  `@{TMPDIR}`, a native `{{.key}}`, or text that does not parse.
- A file is the template it was rendered from. The contexts are fixed once
  WriteConfigFiles starts, so the rendered text is `Render(tmpl, ctx)`.
- An extension block (`extension=<n>.so\n` per map entry) is the number of
  lines per name. Directive order has no effect in php.ini; the number of
  lines does.
- Strings that the code only stores are model values or small literal sets.

Actions of `Supply`:

- ReadConfig, SetupPhpVersion, SetupExtensions, RunComposer, WriteProfileD.
- `Install(step, effect, ok)`, used for InstallHTTPD, InstallPHP,
  InstallComposer (which fails unless the manifest has exactly one composer
  version), InstallVarify (skipped when prebuilt) and WriteStartFile.
- WriteConfigFiles is split into five actions:
  - `WriteConfigFiles` binds the contexts;
  - `StartWalk` picks the next tree in map order. A missing embedded
    directory for the version line is an error; a missing override
    directory is skipped;
  - `WalkFile` is the whole callback on one file: rewrite, parse, then both
    writes in either order. Either write may fail, leaving a truncated file
    or the old one;
  - `EndWalk` ends the walk of one tree;
  - `EndLoop` moves from the embedded loop to the override loop, then
    returns.

An override directory that exists but cannot be listed is an input
(`env.unreadable`, drawn from the constant `UnreadableDirs`). `StartWalk`
treats it the way the code does: `filepath.Walk` hands the callback the
directory's info with an error, the callback ignores the error, sees a
directory and returns nil (338-340). The tree is skipped (`OverrideSkipped`).

**Finalize.** `fpc` is the step of `Finalizer.Run`. `startFile` and
`release` record who wrote each file: the start script is `"prior"` (from
supply), `"finalize"` or `"torn"`, and the release is `"absent"`, `"torn"` or
`"web"`. `ioutil.WriteFile` truncates and then writes, so a failed write
leaves either the old file or a torn one (`AfterFailedWrite`).
`WriteStartFile` and `WriteRelease` each succeed, or fail and end the run.

**Buildpack** composes the two phases. Supply's steps run first. Finalize's
steps are enabled only once `pc = "Done"`, because the platform runs
`bin/finalize` only after `bin/supply` exits 0. This ordering comes from the
staging lifecycle in the spec, not from code under `src/`.

**Refinement.** `DualRender` states what the renderer promises, with no
walk, no contexts and no map order:

- `Begin` fixes a plan (the winning template of each path);
- each `Put` writes one rendered template to the same path of both trees;
- `Finish` happens only when both trees equal the plan;
- `Abort` may disturb at most one path.

`SupplyRender` maps Supply onto it:

- `RenderStatus`: idle before the contexts are bound, rendering while `pc`
  is WriteConfigFiles, then done or failed;
- `RenderPlan`: `ExpectedFile` over all paths, once bound;
- the two trees map to themselves.

`RendererContract == R!Spec` is checked by TLC as a property and proved by
TLAPS.

`Supply` also holds a few fault variants of its actions, such as
`WalkFileLogSecond` and `SetupPhpVersionNoReset`. They are used only to show
that each checked property catches a plausible bug.

## 3. Runs

All runs use the instances of `MCSupply`. The catalog is {1.0.0, 1.0.2, 1.1.1} with default
1.0.2. The extension names include `pdo_mysql` as a pdo driver. The embedded
php trees differ per line: only 1.1 has `php.ini.d/a.ini`.

| run | expect | properties | what it shows |
|-----|--------|-----------|---------------|
| `config` | pass | ConfigTreesAgree, ConfigInPlace, ScanDirMatchesConfig, RunConfigLoadsRequestedExtensions | for every map order and every write failure, and for override trees that shadow a file, add one or fail to parse: (1) while the run has not failed, both trees hold the same files from the same template; (2) once WriteConfigFiles has returned (so whenever composer runs), every path holds the override's template if there is one, else the embedded one for the resolved line; (3) profile.d exports `PHP_INI_SCAN_DIR` exactly when the rendered php config has a `php.ini.d` file (1.1 line only, or an override adding one); (4) the runtime php.ini loads exactly the requested extensions |
| `versions` | pass | TypeOK, VersionResolved | every combination of no/alias/exact/wildcard/junk `PHP_VERSION`, missing/invalid options.json, composer `>=` with and without a match, composer wildcard: the installed version is the highest catalog match of the winning constraint, else the default. The catalog here adds 2.0.0, a line with no embedded templates, to reach that failure |
| `nodefault` | pass | VersionResolved | the same inputs with a manifest that has no default: no match fails staging |
| `openssl` | violation | RunContextEnablesOpenssl | finding 1 |
| `stage_dup` | violation | StageConfigLoadsExtensionsOnce | finding 2 |
| `unreadable` | violation | ConfigInPlace | finding 3 |
| `buildpack` | pass | ReleaseReady | supply then finalize, with every failure and torn write of both, and app overrides that shadow php-fpm.conf and httpd.conf or fail to parse: a release is only published when it names finalize's complete start script, the php-fpm.conf and httpd.conf that script hands to php-fpm and apachectl are the renderings of the override where there is one and of the embedded template otherwise, and varify and profile.d are in place |
| `supply_render` | pass | RendererContract | every behaviour of `Supply` maps to a behaviour of `DualRender` (`SupplyRender`'s mapping), over the same inputs as `config` |

The `config` and `supply_render` runs reach 281,888 distinct states in
about 30 s. `config` includes an options.json asking for `=1.1.1`, so the
1.1 line with its `php.ini.d` file is rendered. `buildpack` reaches 293,024
states with the override trees `MCStartTrees`, which shadow both files
the start script reads or hold a php-fpm.conf that does not parse; TLC
reaches published releases with the override's php-fpm.conf. The version
runs reach 50-90 thousand. Across the passing runs every action and every
branch of every action fires: each failure branch, the skip of a missing
override directory, a missing box line, a composer step skipped or taken,
and a valid or invalid token.

The bounds are enough for these reasons:

- The partial-failure property needs a file written twice, with a failure
  between the writes in either order. `WalkFile` enumerates all six
  outcomes for every file.
- The shadowing property needs an override tree that holds some files of a
  directory but not all of them, plus one that adds a file the embedded
  tree lacks. Both are present.
- Version resolution needs a constraint that matches several patches, one
  that matches nothing, and a rewrite that changes the answer. The catalog
  has two patches of 1.0, one of 1.1 and an extra line.
- Larger sets only repeat these cases.

**Fairness.** `Spec` assumes `WF_vars(Next)`. `Run` is one goroutine with no
waiting: whenever a step is enabled it is the only one, and it is taken as
soon as the collaborator returns. No liveness property is checked. Every
step of the model returns and each tree is walked once, so termination
would hold by the model's shape. The real way staging fails to end is a
collaborator that never returns (composer, the GitHub request), which
spec §5 accepts and which lies outside the code modelled here.

**Mutants.** Each property of each passing run is shown to be violated by a
plausible bug:

- SetupPhpVersion without the reset to "" (TypeOK), or with options.json
  taking precedence over composer.json (VersionResolved);
- SetupExtensions without the `ext-pdo_` rule
  (RunConfigLoadsRequestedExtensions);
- the callback only logging the error of its second write
  (ConfigTreesAgree), or creating files exclusively so that an override
  cannot replace them (ConfigInPlace);
- WriteProfileD scanning only the override trees for `php.ini.d`
  (ScanDirMatchesConfig);
- Finalizer.Run ignoring the error of the start-script write
  (ReleaseReady);
- the callback only logging the error of its second write
  (RendererContract: a torn file on one side and the rest of the walk
  proceeding is no DualRender step).

## 4. Findings

1. **openssl goes to the wrong context** (supply.go:334, run `openssl`).
   Spec §4.3 says the *runtime* context force-enables openssl. The code
   appends `extension=openssl.so` to `ctxStage`, and the built-in set has
   openssl commented out (222). A runtime php.ini without openssl is
   reachable whenever the app does not ask for it.
2. **openssl is loaded twice at staging** (supply.go:334, run `stage_dup`).
   If the app requests openssl, the staging config that composer runs with
   has two `extension=openssl.so` lines. Spec §4.2 asks for a duplicate-free
   set.
3. **An unreadable override directory is ignored** (supply.go:338, run
   `unreadable`). `filepath.Walk` reports a directory it cannot list to the
   callback with a non-nil `err`. The callback ignores `err`, returns nil
   for a directory, and so the whole `.bp-config/php` tree is skipped.
   WriteConfigFiles then succeeds with the buildpack's defaults where the
   app's overrides should be. Spec §7 and §8 say that overrides replace
   defaults and that a filesystem error fails staging.

## 5. Proofs (checked by `tlapm`)

- **`TypeCorrect`: `Spec => []TypeOK`.** `TypeOK` is not inductive on its
  own. `WalkFile` reads `TreeOf(walk.phase, walk.cur)[walk.pos]`, which is
  an entry of a tree only because `StartWalk` checked that the directory
  exists, and because no step that changes `phpVersion` runs during a walk.
  The inductive invariant `TypeInv = TypeOK /\ WalkOK` records this: while a
  walk is in progress, `pc` is WriteConfigFiles (or Failed), `pos >= 1`, and
  the walked tree is a tree. There is one lemma per action, combined in
  `NextTypeInv`.
- **`TreesAgree`: `Spec => []ConfigTreesAgree`.** The invariant is
  `AgreeInv = TypeInv /\ WalkKnown /\ ConfigTreesAgree`, where `WalkKnown`
  says that a walk in progress reads one of the embedded or override trees,
  so its templates are among `KnownTemplates`. Only `WalkFile` writes files.
  Either it returns nil, having written the same template's file into both
  trees at the same path, or the run ends in `Failed`, where the property
  claims nothing and no step is enabled.

The proofs assume the constants' assumptions, which TLC checks on every run:

- `CatalogAssumption` includes that every non-empty subset of the catalog
  has a highest version. This is true of the finite manifest list, and it
  is what makes `FindMatchingVersion`'s CHOOSE well defined. The library's
  finite-set induction takes an operator parameter, which the installed
  provers cannot instantiate, so this is stated rather than derived from
  finiteness.
- Empty and literal strings are named operators (`EmptyText`, `FpmListen`,
  ...), so the SMT backend never sees those literals.

- **`VersionCorrect` (ResolverProofs): `Spec => []VersionResolved`.**
  `VersionResolved` reads `optionsJson` and `composerJson`, which
  ReadConfig writes, so it is not inductive by itself. It is strengthened
  by `VersionChosenLate`: once a version is set, `pc` is past ReadConfig
  and SetupPhpVersion. No later step writes the version or the two
  documents (`LaterStepsKeepDocs`). SetupPhpVersion's own step rests on
  `FindMatchingFound` and `FindMatchingNone`, the two halves of what
  `FindMatchingVersion` returns. `DeclaredConstraint` and SetupPhpVersion
  use nested IF rather than CASE: TLA+'s CASE picks arbitrarily among true
  guards, so it would not model the code's precedence.
- **`ConfigCorrect` (RenderProofs):
  `UnreadableDirs = {{}} => (Spec => []ConfigInPlace)`.** The hypothesis
  is needed, since finding 3 shows the property fails without it. The
  inductive invariant is `RInv = AgreeInv /\ WalkShape /\ PlacedInv`:
  - `WalkShape` describes the loops: which trees are still to do and which
    tree is being walked, per phase;
  - `PlacedInv` says which paths already hold their final content. During
    the box phase these are box entries of finished trees and the prefix of
    the current one. During the user phase every box path is in place, plus
    the override entries written so far.

  Most of the work is in the per-action lemmas (`WalkFileRInv`,
  `EndWalkRInv`, `EndLoopRInv`), resting on `WalkFileOutcome` in
  SupplyProofs and on tree lemmas (`PlacedAdvance`, `FullTree`, `Complete`).
- **`RendererRefined` (RenderProofs): under the same hypothesis,
  `Spec => RendererContract`.** `Init` maps to `R!Init`. Each Supply step,
  given `RInv` before and after, maps to a DualRender step or a stutter
  (`RefineStep`):
  - WriteConfigFiles is `Begin`;
  - a successful WalkFile is `Put`;
  - a failed one is `Abort`, with one path disturbed;
  - EndLoop from the user phase is `Finish`, by `ConfigInPlace`;
  - every other step leaves status, plan and trees unchanged, or is
    `Abort` before rendering.

  The temporal step is PTL on `[]RInv`.

- **`ExtensionsCorrect` (ExtensionProofs):
  `Spec => []RunConfigLoadsRequestedExtensions`.** No hypothesis is
  needed. The inductive invariant `EInv = TypeInv /\ ExtInv` says:
  - before SetupExtensions no extension set and no context exist;
  - from SetupExtensions on, `phpExtensions` is exactly
    `RequestedExtensions`. The two documents it reads are written only by
    ReadConfig, which runs earlier;
  - once bound, `ctxRun` is `RunCtx` of the current sets, and nothing
    rebinds it;
  - while `ctxRun` is unbound no walk is in progress and the runtime tree
    is blank, so every rendered file was rendered with the bound context.

  The last step unfolds `Render` on a `{{.PhpExtensions}}` token.
- **`ScanDirCorrect` (StagingProofs):
  `UnreadableDirs = {{}} => (Spec => []ScanDirMatchesConfig)`.** The
  invariant is `SInv = RInv /\ EffectsInv` together with the property
  itself. `EffectsInv` says that Run's effects come in step order:
  - once past a step, its effect is in `done`;
  - `profile.d` is in `done` only once past WriteProfileD;
  - `PHP_INI_SCAN_DIR` is in `done` only together with `profile.d`.

  WriteProfileD runs at a step of `ConfigWritten`, where `ConfigInPlace`
  (from `RInv` and the hypothesis) makes its look at DepDir's `php.ini.d`
  agree with `ExpectedFile`. No later step changes the version, the app's
  files or either effect. The hypothesis is needed for the same reason as
  in `ConfigCorrect`: an unlistable `.bp-config/php` with a `php.ini.d`
  file makes the two disagree.
- **`ReleaseCorrect` (StagingProofs): `BuildpackSpec => []ReleaseReady`,
  under the hypothesis `UnreadableDirs = {{}}`.** The invariant is
  `BInv = SInv /\ FinInv`, where `FinInv` says:
  - finalize has moved only if supply is Done (`NoStepAtDone`: supply has
    no step there);
  - from WriteRelease on, the start script is finalize's;
  - a written release means finalize is Done.

  `StartReadsPlaced` derives from `RInv` alone that, at Done,
  php-fpm.conf and httpd.conf are rendered files in DepDir. The embedded
  walks wrote every entry of their trees, and an override of the same
  file is a rendered file too. That they are the *winning* renderings
  comes from `RInvConfig`, as in `ConfigCorrect`, and needs the
  hypothesis: with an unlistable override the embedded file is published
  instead (finding 3). This uses the conjuncts of `BuildpackAssumption`: every
  embedded php line ships `php-fpm.conf` and the httpd tree ships
  `httpd.conf`. This is a property of the templates packaged with the
  buildpack (`config/`, not under `src/`), and TLC checks it on the
  instance.

Every invariant that a passing run checks is now proved for all values
of the constants. The strengthening invariants (`SInv`, `BInv`, `EInv`)
were first checked by TLC on the `config` and `buildpack` instances.

Only model-checked, not proved:

- No liveness property is checked or proved (see Fairness in §3).
- The violated properties of the three violation runs (they are false).

## 6. Not modelled

- The older supplier `src/unnamed/part_000`, whose slice-based extension
  lists can hold duplicates and whose stage context always adds openssl:
  planned.
- The stale test `src/unnamed/part_001`.
- `src/scripts/build.sh`.
- The byte rewriting of apachectl and the text of the profile.d and start
  scripts. These are I/O with no decision logic.
- The nil `info` half of the callback's unchecked `err` (line 338): `info`
  is nil only when the root itself cannot be lstat-ed, and `FileExists`
  has just seen it. The unlistable-directory half is modelled (finding 3).
- The text of the start script and of the release YAML: finalize's files
  are abstracted to who wrote them.

## 7. Plan for later work

1. State an abstract specification of the whole staging (supply, then
   finalize) and prove that `Buildpack` refines it.
2. Model the legacy supplier `part_000` and check the duplicate-free
   extension set against it.
