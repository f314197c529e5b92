----------------------------- MODULE PhpVersion -----------------------------
(***************************************************************************)
(* The Version Resolver of src/php/supply/supply.go, Supplier.             *)
(* SetupPhpVersion, as pure operators.                                     *)
(*                                                                         *)
(* A concrete version is a triple <<major, minor, patch>>.  A version      *)
(* string found in options.json or composer.json is a constraint record    *)
(* [op, v]: the operator of the constraint and the version it names.       *)
(*   "="     an exact pin, "7.1.3"                                         *)
(*   "x"     a wildcard line, "7.1.x"  (v = <<7, 1, 0>>)                   *)
(*   ">="    a lower bound, ">=7.1.3"                                      *)
(*   "~>"    the tilde operator, "~>7.1.3": >= 7.1.3 and < 7.2.0          *)
(*   "alias" options.json's PHP_<D><D>_LATEST form (v = <<D, D, 0>>)       *)
(*   "junk"  a string the constraint parser rejects                        *)
(* The constraint semantics and FindMatchingVersion belong to              *)
(* libbuildpack (semver constraints), outside this repository.             *)
(***************************************************************************)
EXTENDS Naturals

CONSTANTS
    Catalog,      \* Manifest.AllDependencyVersions("php")
    DefaultPhp,   \* Manifest.DefaultVersion("php"), or NoVersion if none
    NoVersion     \* the empty string "" that PhpVersion starts as

Version == Nat \X Nat \X Nat

Ops == {"=", "x", ">=", "~>", "alias", "junk"}

Constraint == [op : Ops, v : Version]


(* Lexicographic order of version triples. *)
VersionLeq(a, b) ==
    \/ a[1] < b[1]
    \/ a[1] = b[1] /\ a[2] < b[2]
    \/ a[1] = b[1] /\ a[2] = b[2] /\ a[3] =< b[3]

(* The manifest lists finitely many versions: every non-empty subset of   *)
(* the catalog has a highest version, which FindMatchingVersion returns. *)
ASSUME CatalogAssumption ==
    /\ Catalog \subseteq Version
    /\ DefaultPhp \in Catalog \cup {NoVersion}
    /\ \A v \in Catalog : v # NoVersion
    /\ \A S \in SUBSET Catalog :
          S # {} => \E v \in S : \A w \in S : VersionLeq(w, v)

(* Whether concrete version v satisfies constraint c (semver semantics).  *)
Satisfies(v, c) ==
    CASE c.op = "="  -> v = c.v
      [] c.op = "x"  -> v[1] = c.v[1] /\ v[2] = c.v[2]
      [] c.op = ">=" -> VersionLeq(c.v, v)
      [] c.op = "~>" -> v[1] = c.v[1] /\ v[2] = c.v[2] /\ c.v[3] =< v[3]
      [] OTHER       -> FALSE

(* libbuildpack.FindMatchingVersion: the highest version of the list     *)
(* that satisfies the constraint, or NoVersion for its error result.    *)
FindMatchingVersion(c, versions) ==
    LET ok == {v \in versions : Satisfies(v, c)}
    IN  IF ok = {} THEN NoVersion
        ELSE CHOOSE v \in ok : \A w \in ok : VersionLeq(w, v)

(* regexp PHP_(\d)(\d)_LATEST of options.json's PHP_VERSION: an alias   *)
(* becomes the "<D>.<D>.x" line, any other string is kept as it is.     *)
ExpandAlias(c) ==
    IF c.op = "alias" THEN [c EXCEPT !.op = "x"] ELSE c

(* strings.Replace(version, ">=", "~>", -1) of composer.json's php.     *)
ComposerConstraint(c) ==
    IF c.op = ">=" THEN [c EXCEPT !.op = "~>"] ELSE c

(* versionLine: the last dotted component replaced by "x"; the line is   *)
(* the pair <<major, minor>> that names the "M.m.x" template directory. *)
versionLine(v) == <<v[1], v[2]>>

=============================================================================
