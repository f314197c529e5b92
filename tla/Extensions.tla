----------------------------- MODULE Extensions -----------------------------
(***************************************************************************)
(* The Extension Aggregator of src/php/supply/supply.go,                   *)
(* Supplier.SetupExtensions, as pure operators over sets of names (the     *)
(* code's map[string]bool).                                                *)
(*                                                                         *)
(* A key of composer.json's "require" object is a record [ext, name]:      *)
(* ext is whether the key has the "ext-" prefix, name is k[4:] when it     *)
(* has.  PdoDrivers are the names n for which "ext-" \o n also has the     *)
(* "ext-pdo_" prefix.                                                      *)
(***************************************************************************)
CONSTANTS
    ExtNames,     \* every extension name an input may mention
    ZendNames,    \* every zend extension name an input may mention
    PdoDrivers,   \* the names of ExtNames that start with "pdo_"
    None          \* a key that is absent or not of the expected JSON type

ASSUME ExtensionsAssumption ==
    /\ {"bz2", "zlib", "curl", "mcrypt", "openssl", "pdo"} \subseteq ExtNames
    /\ PdoDrivers \subseteq ExtNames \ {"pdo"}
    /\ \A S \in SUBSET ExtNames : S # None

(* The map literal SetupExtensions starts from (openssl commented out). *)
DefaultPhpExtensions == {"bz2", "zlib", "curl", "mcrypt"}

RequireKey == [ext : BOOLEAN, name : ExtNames]

(* The contribution of composer.json's require keys: every "ext-" key's  *)
(* name, and "pdo" as soon as one key starts with "ext-pdo_".           *)
ComposerExtensions(keys) ==
    {k.name : k \in {k \in keys : k.ext}}
      \cup (IF \E k \in keys : k.ext /\ k.name \in PdoDrivers
            THEN {"pdo"} ELSE {})

=============================================================================
