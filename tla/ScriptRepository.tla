--------------------------- MODULE ScriptRepository ---------------------------
(***************************************************************************)
(* The repository of detection scripts, internal/detect/script/            *)
(* repository.go: a directory of script files, a manifest of them in       *)
(* memory and its copy in manifest.json.  Other users of the machine may   *)
(* change a file at any time.                                              *)
(*                                                                         *)
(* A script is what its file holds; two files have the same SHA-256 sum    *)
(* only if they hold the same script.  An operation of the repository runs *)
(* alone: it has no lock and is called by one goroutine at a time.         *)
(***************************************************************************)
EXTENDS Integers, Sequences, FiniteSets

CONSTANTS
    Paths,        \* script files of the directory
    Scripts,      \* what a file may hold: records with "described", TRUE when
                  \* the text names a vulnerability, and fields of ScriptRun
    NoScript,     \* no such file, or no such entry
    Directories,  \* what the directory may hold at first
    MaxWritten,   \* bound: scripts written, by AddScript or from outside
    MaxCalls      \* bound: calls of the repository's operations

ASSUME ScriptsAssumption ==
    /\ NoScript \notin Scripts /\ MaxWritten \in Nat /\ MaxCalls \in Nat
    /\ Directories \subseteq [Paths -> Scripts \cup {NoScript}]

VARIABLES
    file,         \* what every path holds
    listed,       \* sr.manifest.Scripts, an entry by the sum it carries
    sums,         \* sr.manifest.Checksums
    stored,       \* manifest.json, or Missing, or Torn
    rpc,          \* place in the operation that runs
    subject,      \* the path that AddScript is about
    scanned,      \* the scripts found by scanForScripts and not yet validated
    written,      \* scripts written so far
    calls,        \* operations called so far
    strayed       \* history: paths that somebody else has changed, or whose
                  \* script was overwritten by one that was refused

rvars == <<file, listed, sums, stored, rpc, subject, scanned, written, calls, strayed>>
manifest == <<listed, sums>>

Entries == [Paths -> Scripts \cup {NoScript}]
Nothing == [p \in Paths |-> NoScript]
Missing == [listed |-> Nothing, sums |-> Nothing, state |-> "missing"]
Torn == [listed |-> Nothing, sums |-> Nothing, state |-> "torn"]
Manifest(entries, checksums) == [listed |-> entries, sums |-> checksums, state |-> "whole"]

RepositoryInit ==
    /\ file \in Directories
    /\ listed = Nothing /\ sums = Nothing
    /\ stored = Missing
    /\ rpc = "unloaded" /\ subject = {} /\ scanned = Nothing
    /\ written = 0 /\ calls = 0 /\ strayed = {}

Outside ==
    /\ written < MaxWritten
    /\ \E p \in Paths : \E content \in (Scripts \cup {NoScript}) \ {file[p]} :
         /\ file' = [file EXCEPT ![p] = content]
         /\ strayed' = strayed \cup {p}
    /\ written' = written + 1
    /\ UNCHANGED <<manifest, stored, rpc, subject, scanned, calls>>

(***************************************************************************)
(* saveManifest: the file is truncated and then written, and either may    *)
(* fail; the operation then reports an error with the memory changed.      *)
(***************************************************************************)
Save(entries, checksums) ==
    stored' \in {Manifest(entries, checksums), stored, Torn}

\* The repository has been loaded, and no operation of it runs.
Ready == rpc = "ready"

(***************************************************************************)
(* LoadRepository.  A manifest that is missing or torn is replaced by an   *)
(* empty one; then every file is read, and read again by validateScript.   *)
(* What the scan has found is not saved.                                   *)
(***************************************************************************)
LoadManifest ==
    /\ rpc \in {"unloaded", "ready"} /\ calls < MaxCalls
    /\ calls' = calls + 1
    /\ IF stored.state = "whole"
       THEN /\ listed' = stored.listed /\ sums' = stored.sums
            /\ rpc' = "scan" /\ UNCHANGED stored
       ELSE /\ listed' = Nothing /\ sums' = Nothing
            /\ Save(Nothing, Nothing)
            /\ rpc' = IF stored'.state = "whole" THEN "scan" ELSE "ready"
    /\ UNCHANGED <<file, subject, scanned, written, strayed>>

Scan ==
    /\ rpc = "scan"
    /\ scanned' = file
    /\ rpc' = "validate"
    /\ UNCHANGED <<file, manifest, stored, subject, written, calls, strayed>>

Accepts(p, script) == script.described /\ file[p] = script

Enter(p, script) ==
    /\ listed' = [listed EXCEPT ![p] = script]
    /\ sums' = [sums EXCEPT ![p] = script]

\* An entry that is refused stays as it was in the manifest.
ValidateScanned ==
    /\ rpc = "validate"
    /\ \E p \in Paths :
         /\ scanned[p] # NoScript
         /\ IF Accepts(p, scanned[p]) THEN Enter(p, scanned[p]) ELSE UNCHANGED manifest
         /\ scanned' = [scanned EXCEPT ![p] = NoScript]
    /\ UNCHANGED <<file, stored, rpc, subject, written, calls, strayed>>

EndLoad ==
    /\ rpc = "validate" /\ scanned = Nothing
    /\ rpc' = "ready"
    /\ UNCHANGED <<file, manifest, stored, subject, scanned, written, calls, strayed>>

(***************************************************************************)
(* AddScript writes the file first; a script that is then refused is       *)
(* removed, and with it whatever the path held before.                     *)
(***************************************************************************)
WriteScript ==
    /\ Ready /\ calls < MaxCalls /\ written < MaxWritten
    /\ calls' = calls + 1
    /\ \E p \in Paths, script \in Scripts :
         /\ file' = [file EXCEPT ![p] = script]
         /\ subject' = {p}
         /\ strayed' = IF script.described THEN strayed \ {p} ELSE strayed \cup {p}
    /\ rpc' = "written" /\ written' = written + 1
    /\ UNCHANGED <<manifest, stored, scanned>>

ReadWritten ==
    /\ rpc = "written"
    /\ scanned' = [p \in Paths |-> IF p \in subject THEN file[p] ELSE NoScript]
    /\ rpc' = "added"
    /\ UNCHANGED <<file, manifest, stored, subject, written, calls, strayed>>

ValidateAdded ==
    /\ rpc = "added"
    /\ scanned' = Nothing
    /\ \E p \in subject :
         IF scanned[p] # NoScript /\ Accepts(p, scanned[p])
         THEN Enter(p, scanned[p]) /\ rpc' = "save" /\ UNCHANGED file
         ELSE /\ file' = [file EXCEPT ![p] = NoScript]
              /\ rpc' = "ready" /\ UNCHANGED manifest
    /\ subject' = {}
    /\ UNCHANGED <<stored, written, calls, strayed>>

SaveAdded ==
    /\ rpc = "save"
    /\ Save(listed, sums)
    /\ rpc' = "ready"
    /\ UNCHANGED <<file, manifest, subject, scanned, written, calls, strayed>>

(***************************************************************************)
(* UpdateChecksum takes the sum of what the file holds now; a path that is *)
(* not listed gets a sum and no entry.                                     *)
(***************************************************************************)
\* Mutant: the entry of the script keeps its old sum.
UpdatedSumOnly(p) == listed' = listed /\ sums' = [sums EXCEPT ![p] = file[p]]

Updated(p) ==
    /\ listed' = [listed EXCEPT ![p] = IF @ = NoScript THEN NoScript ELSE file[p]]
    /\ sums' = [sums EXCEPT ![p] = file[p]]

UpdateChecksum ==
    /\ Ready /\ calls < MaxCalls
    /\ calls' = calls + 1
    /\ \E p \in Paths :
         /\ file[p] # NoScript
         /\ Updated(p)
    /\ Save(listed', sums')
    /\ UNCHANGED <<file, rpc, subject, scanned, written, strayed>>

Repository ==
    \/ LoadManifest \/ Scan \/ ValidateScanned \/ EndLoad
    \/ WriteScript \/ ReadWritten \/ ValidateAdded \/ SaveAdded \/ UpdateChecksum

-----------------------------------------------------------------------------
RepositoryTypeOK ==
    /\ file \in Entries /\ listed \in Entries /\ sums \in Entries /\ scanned \in Entries
    /\ stored.listed \in Entries /\ stored.sums \in Entries
    /\ stored.state \in {"missing", "torn", "whole"}
    /\ rpc \in {"unloaded", "ready", "scan", "validate", "written", "added", "save"}
    /\ subject \subseteq Paths /\ written \in 0..MaxWritten
    /\ calls \in 0..MaxCalls /\ strayed \subseteq Paths

\* The manifest agrees with itself and with the directory: the two maps give
\* a listed script the same sum, in memory and in manifest.json, and when no
\* operation runs the file of a listed script holds that script, unless
\* somebody else has changed it or a refused AddScript has removed it.
ManifestAgrees ==
    /\ \A p \in Paths : listed[p] # NoScript => sums[p] = listed[p]
    /\ \A p \in Paths : stored.listed[p] # NoScript => stored.sums[p] = stored.listed[p]
    /\ \A p \in Paths \ strayed : Ready /\ listed[p] # NoScript => file[p] = listed[p]
=============================================================================
