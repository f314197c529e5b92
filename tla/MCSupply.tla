------------------------------ MODULE MCSupply ------------------------------
(***************************************************************************)
(* Small instances of Supply for TLC.  Versions are triples of small       *)
(* numbers: the catalog has two patches of line 1.0 and one of line 1.1.   *)
(***************************************************************************)
EXTENDS Supply, TLC

MCCatalog == {<<1, 0, 0>>, <<1, 0, 2>>, <<1, 1, 1>>}
MCDefault == <<1, 0, 2>>
(* A catalog with a line, 2.0, for which no embedded templates exist.    *)
MCCatalogV == MCCatalog \cup {<<2, 0, 0>>}
MCExtNames == {"bz2", "zlib", "curl", "mcrypt", "openssl", "pdo", "pdo_mysql"}
MCZendNames == {"opcache"}
MCPdoDrivers == {"pdo_mysql"}
MCLiterals == {"[PHP]", "Listen 8080", "x"}
MCWebDirs == {"htdocs"}
MCFiles == {"php.ini", "php-fpm.conf", "php.ini.d/a.ini", "httpd.conf"}
MCIniDFiles == {"php.ini.d/a.ini"}

Lit(s) == [k |-> "lit", v |-> s]
Var(key) == [k |-> "var", v |-> key]
Legacy(m) == [k |-> "legacy", v |-> m]
Entry(f, t) == [file |-> f, tmpl |-> t]

PhpIni == <<Lit("[PHP]"), Var("PhpExtensions"), Var("ZendExtensions"), Legacy("TMPDIR")>>
FpmConf == <<Legacy("PHP_FPM_LISTEN"), Legacy("HOME"), Var("Webdir")>>
HttpdConf == <<Lit("Listen 8080"), Legacy("DEPS_DIR"), Var("DepsIdx"), Var("Webdir")>>

MCBoxPhp == [l \in {<<1, 0>>, <<1, 1>>} |->
                IF l = <<1, 0>>
                THEN <<Entry("php-fpm.conf", FpmConf), Entry("php.ini", PhpIni)>>
                ELSE <<Entry("php-fpm.conf", FpmConf), Entry("php.ini", PhpIni),
                       Entry("php.ini.d/a.ini", <<Lit("x")>>)>>]
MCBoxHttpd == <<Entry("httpd.conf", HttpdConf)>>

(* Override trees: none, one file shadowing php.ini, a template that     *)
(* does not parse.                                                       *)
MCUserTrees == {NoFile,
                <<Entry("php.ini", <<Lit("x"), Var("PhpExtensions")>>)>>,
                <<Entry("php.ini.d/a.ini", <<Var("HOME")>>),
                  Entry("php.ini", <<[k |-> "bad", v |-> "x"]>>)>>}
MCNoTrees == {NoFile}
(* Override trees for the start script's files: none, php-fpm.conf and   *)
(* httpd.conf shadowed, a php-fpm.conf that does not parse.              *)
MCStartTrees == {NoFile,
                 <<Entry("php-fpm.conf", <<Var("Webdir")>>),
                   Entry("httpd.conf", <<Lit("Listen 8080"), Var("DepsIdx")>>)>>,
                 <<Entry("php-fpm.conf", <<[k |-> "bad", v |-> "x"]>>)>>}

(* Override directories all listable; or .bp-config/php not listable.    *)
MCReadable == {{}}
MCUnreadable == {{}, {"php"}}

C(op, v) == [op |-> op, v |-> v]

OptionsDocs(phps, extss) ==
    {[php |-> p, exts |-> e, zend |-> None, webdir |-> None] : p \in phps, e \in extss}

ComposerDocs(phps, keyss) ==
    {[require |-> [php |-> p, keys |-> k]] : p \in phps, k \in keyss}

Key(e, n) == [ext |-> e, name |-> n]

(* Inputs for the version resolver questions.                            *)
VersionOptions ==
    OptionsDocs({None, C("alias", <<1, 0, 0>>), C("=", <<1, 0, 0>>),
                 C("x", <<2, 0, 0>>), C("junk", <<0, 0, 0>>)}, {None}) \cup {NoFile, Invalid}
VersionComposer ==
    ComposerDocs({None, C(">=", <<1, 0, 1>>), C(">=", <<1, 0, 3>>),
                  C("x", <<1, 1, 0>>)}, {{}}) \cup {[require |-> None], Invalid}

(* Inputs for the extension and config-file questions.                    *)
ConfigOptions ==
    {NoFile} \cup
    OptionsDocs({None}, {None, {"curl", "openssl"}}) \cup
    OptionsDocs({C("=", <<1, 1, 1>>)}, {None})
ConfigComposer ==
    ComposerDocs({None}, {{}, {Key(TRUE, "pdo_mysql"), Key(FALSE, "curl")},
                          {Key(TRUE, "openssl")}})
=============================================================================
