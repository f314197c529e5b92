----------------------------- MODULE ConfigFiles ----------------------------
(***************************************************************************)
(* The Binding Context Builder and the template rewrite and render of     *)
(* src/php/supply/supply.go, Supplier.WriteConfigFiles, as pure           *)
(* operators.                                                             *)
(*                                                                        *)
(* A template is a sequence of tokens:                                    *)
(*   [k |-> "lit",    v |-> s]   literal text s                           *)
(*   [k |-> "legacy", v |-> m]   a legacy marker such as @{TMPDIR}        *)
(*   [k |-> "var",    v |-> key] a native action {{.key}}                 *)
(*   [k |-> "bad",    v |-> s]   text text/template cannot parse          *)
(* The extension blocks, "extension=<n>.so\n" per name in map iteration   *)
(* order, are kept as the number of lines per name: php.ini directive     *)
(* order has no effect, the number of lines for a name has.               *)
(***************************************************************************)
EXTENDS Naturals, Sequences, Extensions

CONSTANTS
    BuildDir,     \* Stager.BuildDir()
    DepsDir,      \* Stager.DepsDir()
    DepsIdx,      \* Stager.DepsIdx()
    Literals,     \* the literal texts templates are made of
    WebDirs       \* the WEBDIR values options.json may give

ASSUME ConfigFilesAssumption ==
    /\ {BuildDir, DepsDir, DepsIdx} \subseteq STRING
    /\ Literals \subseteq STRING
    /\ WebDirs \subseteq STRING

CtxKeys == {"DepsIdx", "PhpFpmConfInclude", "PhpFpmListen", "Webdir", "HOME",
            "DEPS_DIR", "TMPDIR", "Libdir", "PhpExtensions", "ZendExtensions"}

(* The legacy markers and the native key each one is rewritten to.       *)
LegacyKey == [DEPS_DIR |-> "DEPS_DIR", TMPDIR |-> "TMPDIR",
              HOME |-> "HOME", PHP_FPM_LISTEN |-> "PhpFpmListen"]

Token == [k : {"lit", "bad"}, v : Literals]
           \cup [k : {"legacy"}, v : DOMAIN LegacyKey]
           \cup [k : {"var"}, v : CtxKeys]

Template == Seq(Token)

ExtBlock == [ExtNames -> 0..2]
ZendBlock == [ZendNames -> 0..2]

(* The empty string, the value of an unset string field.                  *)
EmptyText == ""

(* The literal values WriteConfigFiles binds: the php-fpm listen address, *)
(* the runtime placeholders left for the start command, the lib dir and  *)
(* the staging tmp dir.                                                  *)
FpmListen == "127.0.0.1:9000"
HomeRef == "{{.HOME}}"
DepsDirRef == "{{.DEPS_DIR}}"
TmpDirRef == "{{.TMPDIR}}"
LibDir == "lib"
StageTmp == "/tmp"

(* The texts a binding context binds: the stager's paths, the literal     *)
(* values of WriteConfigFiles and the web directory.                      *)
CtxText == {BuildDir, DepsDir, DepsIdx, EmptyText, FpmListen, HomeRef,
            DepsDirRef, TmpDirRef, LibDir, StageTmp} \cup WebDirs

(* A binding context: the map[string]string both renders execute with.  *)
Ctx == [DepsIdx : CtxText, PhpFpmConfInclude : CtxText, PhpFpmListen : CtxText,
        Webdir : CtxText, HOME : CtxText, DEPS_DIR : CtxText, TMPDIR : CtxText,
        Libdir : CtxText, PhpExtensions : ExtBlock, ZendExtensions : ZendBlock]

(* One "extension=" (or "zend_extension=") line per member of the set.   *)
Lines(S, names) == [n \in names |-> IF n \in S THEN 1 ELSE 0]

(* ctxRun: the runtime placeholders {{.HOME}} etc. are bound as text,    *)
(* left in the output for the container-start tool to fill in.           *)
RunCtx(webDir, phpExts, zendExts) ==
    [DepsIdx |-> DepsIdx, PhpFpmConfInclude |-> EmptyText,
     PhpFpmListen |-> FpmListen, Webdir |-> webDir,
     HOME |-> HomeRef, DEPS_DIR |-> DepsDirRef,
     TMPDIR |-> TmpDirRef, Libdir |-> LibDir,
     PhpExtensions |-> Lines(phpExts, ExtNames),
     ZendExtensions |-> Lines(zendExts, ZendNames)]

(* ctxStage: a copy of ctxRun with the staging paths, and one more line  *)
(* "extension=openssl.so" appended to the php extension block.           *)
StageCtx(ctxRun) ==
    [ctxRun EXCEPT !["DEPS_DIR"] = DepsDir, !["HOME"] = BuildDir,
                   !["TMPDIR"] = StageTmp,
                   !["PhpExtensions"] =
                      [n \in ExtNames |-> ctxRun["PhpExtensions"][n]
                                          + (IF n = "openssl" THEN 1 ELSE 0)]]

(* The strings.Replace pass from @{...} and #PHP_FPM_LISTEN markers to     *)
(* native {{.key}} actions.                                                *)
Rewrite(tok) ==
    IF tok.k = "legacy" THEN [k |-> "var", v |-> LegacyKey[tok.v]] ELSE tok

(* template.Parse of the rewritten text succeeds.                         *)
Parses(tmpl) == \A i \in DOMAIN tmpl : tmpl[i].k # "bad"

(* Execute of one token of a parsed template: literal text as it is, an  *)
(* action {{.key}} as the value the context binds to key.                *)
Eval(tok, ctx) == IF tok.k = "lit" THEN tok.v ELSE ctx[tok.v]

Render(tmpl, ctx) == [i \in DOMAIN tmpl |-> Eval(Rewrite(tmpl[i]), ctx)]

=============================================================================
