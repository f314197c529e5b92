----------------------------- MODULE Buildpack -----------------------------
(***************************************************************************)
(* The two phases of staging composed: bin/supply runs Supplier.Run, and   *)
(* the platform runs bin/finalize (Finalizer.Run) only when supply has     *)
(* returned nil.  The phases share DepDir: supply renders the config trees *)
(* and writes a first php_buildpack_start, finalize writes the start       *)
(* script again and the release descriptor that names it.                 *)
(***************************************************************************)
EXTENDS Supply

VARIABLES fpc, startFile, release

F == INSTANCE Finalize

allVars == <<vars, fpc, startFile, release>>

(* The two files the start script hands to php-fpm (-y) and apachectl     *)
(* (-f), relative to DepDir.                                              *)
StartReads == {<<"php", "php-fpm.conf">>, <<"httpd", "httpd.conf">>}

(* The embedded templates the buildpack ships (config/php/<line> and     *)
(* config/httpd) have php-fpm.conf and httpd.conf for every line.        *)
ASSUME BuildpackAssumption ==
    /\ {p[2] : p \in StartReads} \subseteq Files
    /\ \A l \in DOMAIN BoxPhp : HasFile(BoxPhp[l], "php-fpm.conf")
    /\ HasFile(BoxHttpd, "httpd.conf")

BuildpackInit == Init /\ F!Init

(* Supply's steps; finalize's steps once supply has returned nil.        *)
BuildpackNext ==
    \/ Next /\ UNCHANGED <<fpc, startFile, release>>
    \/ pc = "Done" /\ F!Next /\ UNCHANGED vars

(* Each phase is one sequential process, started by the platform when    *)
(* the previous one has exited.                                          *)
BuildpackSpec == BuildpackInit /\ [][BuildpackNext]_allVars /\ WF_allVars(BuildpackNext)

-----------------------------------------------------------------------------
(* The composed state is well typed.                                     *)
BuildpackTypeOK == TypeOK /\ F!TypeOK

(* The release descriptor the platform starts the app from is only ever  *)
(* published when the start script it names is finalize's complete text *)
(* (not the supply one, and not one torn by a failed rewrite), when the  *)
(* php-fpm.conf and httpd.conf that script hands to php-fpm (-y) and     *)
(* apachectl (-f) are in DepDir as complete renderings of the app's      *)
(* .bp-config override where it has one and of the embedded template     *)
(* otherwise, and when the varify binary and the profile.d script that   *)
(* the script and the container's shell rely on are in place.            *)
ReleaseReady ==
    release = "web" =>
        /\ startFile = "finalize"
        /\ \A p \in StartReads : runTree[p].kind = "file" /\ runTree[p] = ExpectedFile(p)
        /\ {"httpd", "php", "varify", "profile.d"} \subseteq done

=============================================================================
