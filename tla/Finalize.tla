------------------------------ MODULE Finalize ------------------------------
(***************************************************************************)
(* The finalize phase of the buildpack, src/php/finalize/finalize.go:      *)
(* Finalizer.Run writes the start script php_buildpack_start under DepDir  *)
(* (over the one the supply phase left there), then generates the release  *)
(* descriptor and writes it to /tmp/php-buildpack-release-step.yml; the    *)
(* first error ends the run.                                               *)
(*                                                                         *)
(* File contents are abstracted to who wrote them: the start script is     *)
(* "prior" (left by supply), "finalize" (Finalizer's text, which runs      *)
(* varify before php-fpm and apachectl) or "torn" (truncated by a write    *)
(* that failed); the release file is "absent", "torn" or "web", the map    *)
(* default_process_types.web -> $DEPS_DIR/<idx>/bin/php_buildpack_start.   *)
(***************************************************************************)

VARIABLES
    fpc,         \* the step of Finalizer.Run about to execute
    startFile,   \* DepDir/bin/php_buildpack_start
    release      \* /tmp/php-buildpack-release-step.yml

fvars == <<fpc, startFile, release>>

FSteps == {"WriteStartFile", "WriteRelease", "Done", "Failed"}

(* ioutil.WriteFile opens with O_TRUNC, then writes: a failure of the     *)
(* open leaves the old file, a failure of the write leaves it truncated.  *)
AfterFailedWrite(old) == {old, "torn"}

Init ==
    /\ fpc = "WriteStartFile"
    /\ startFile = "prior"
    /\ release = "absent"

(* Fault model for WriteStartFile: its error dropped, Run going on to   *)
(* the release.                                                           *)
WriteStartFileIgnoreError ==
    /\ fpc = "WriteStartFile"
    /\ \/ startFile' = "finalize" /\ fpc' = "WriteRelease"
       \/ startFile' \in AfterFailedWrite(startFile) /\ fpc' = "WriteRelease"
    /\ UNCHANGED release

(* WriteStartFile: the script is formatted with DepsIdx and written to    *)
(* DepDir/bin/php_buildpack_start; Run returns its error.                 *)
WriteStartFile ==
    /\ fpc = "WriteStartFile"
    /\ \/ startFile' = "finalize" /\ fpc' = "WriteRelease"
       \/ startFile' \in AfterFailedWrite(startFile) /\ fpc' = "Failed"
    /\ UNCHANGED release

(* GenerateReleaseYaml (which cannot fail) and the YAML write of its      *)
(* result; Run returns the write's error.                                 *)
WriteRelease ==
    /\ fpc = "WriteRelease"
    /\ \/ release' = "web" /\ fpc' = "Done"
       \/ release' \in AfterFailedWrite(release) /\ fpc' = "Failed"
    /\ UNCHANGED startFile

Next == WriteStartFile \/ WriteRelease

Spec == Init /\ [][Next]_fvars /\ WF_fvars(Next)

-----------------------------------------------------------------------------
(* Every variable of Finalizer.Run holds a value of its type.            *)
TypeOK ==
    /\ fpc \in FSteps
    /\ startFile \in {"prior", "finalize", "torn"}
    /\ release \in {"absent", "torn", "web"}

=============================================================================
