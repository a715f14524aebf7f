--------------------------- MODULE RepositoryUpdate ---------------------------
(***************************************************************************)
(* The GitHub repository manager of internal/repository/github_manager.go: *)
(* it compares the manifest it holds in memory with the one of a remote    *)
(* repository, downloads the files that differ and replaces the local      *)
(* ones.  Every GET is a step of its own, and the remote repository may    *)
(* publish a new release between any two of them.                          *)
(*                                                                         *)
(* The content of a file and its SHA-256 sum are the same value here: two  *)
(* contents have the same sum only if they are equal.                      *)
(***************************************************************************)
EXTENDS Integers

CONSTANTS
    Templates, Scripts,   \* paths of the repository, by section of the manifest
    Unsized,              \* the paths whose manifest entry carries no size
    Sums,                 \* contents of a file
    Absent,               \* no such file, or not listed
    Partial,              \* what an interrupted write leaves
    MaxReleases           \* bound: releases published

Files == Templates \cup Scripts

ASSUME RepositoryAssumption ==
    /\ Templates \cap Scripts = {} /\ Unsized \subseteq Files
    /\ Absent \notin Sums /\ Partial \notin Sums /\ Absent # Partial
    /\ MaxReleases \in Nat \ {0}

VARIABLES
    remote,      \* the release that the main branch of the remote shows
    disk,        \* content of every local file
    manifest,    \* m.manifest, version 0 when it is nil
    saved,       \* what manifest.json holds, version 0 when there is none
    pc,          \* place in UpdateRepository
    purpose,     \* which of the two manifest downloads runs
    draft,       \* the manifest being downloaded
    wanted,      \* updateCheck.FilesToAdd and FilesToUpdate
    todo,        \* files of the loop at pc still to be visited
    data,        \* updateData.Files
    always,      \* history: the files that every release so far has listed
    undisturbed  \* history: since the process started no update met a release
                 \* published meanwhile, a skipped file or a failed write

vars == <<remote, disk, manifest, saved, pc, purpose, draft, wanted, todo, data, always, undisturbed>>
local == <<disk, manifest, saved>>

NoFiles == [f \in Files |-> Absent]
Listings == [Files -> Sums \cup {Absent}]
Listed(files) == {f \in Files : files[f] # Absent}
NoManifest == [version |-> 0, files |-> NoFiles]
Corrupt == [version |-> -1, files |-> NoFiles]
Manifests == [version : 0..MaxReleases, files : Listings]

Init ==
    /\ \E files \in Listings :
         /\ remote = [version |-> 1, files |-> files]
         /\ always = Listed(files)
    /\ disk = NoFiles
    /\ manifest = NoManifest /\ saved = NoManifest
    /\ pc = "idle" /\ purpose = "check"
    /\ draft = NoManifest /\ wanted = {} /\ todo = {} /\ data = NoFiles
    /\ undisturbed = TRUE

(***************************************************************************)
(* The remote repository: a push replaces the whole branch at once and     *)
(* gives the release a version of its own.                                 *)
(***************************************************************************)
Publish ==
    /\ remote.version < MaxReleases
    /\ \E files \in Listings :
         /\ remote' = [version |-> remote.version + 1, files |-> files]
         /\ always' = always \cap Listed(files)
    /\ undisturbed' = (undisturbed /\ pc = "idle")
    /\ UNCHANGED <<local, pc, purpose, draft, wanted, todo, data>>

(***************************************************************************)
(* Giving up: every early return of UpdateRepository leaves the memory as  *)
(* it is.                                                                  *)
(***************************************************************************)
Return ==
    /\ pc' = "idle" /\ purpose' = "check"
    /\ draft' = NoManifest /\ wanted' = {} /\ todo' = {} /\ data' = NoFiles

DownloadFails ==
    /\ pc \in {"version", "templates", "scripts"}
    /\ Return
    /\ UNCHANGED <<remote, local, always, undisturbed>>

(***************************************************************************)
(* downloadManifest: repository-manifest.json, then the manifests of the   *)
(* templates and of the scripts, then every file listed without a size.    *)
(***************************************************************************)
Start ==
    /\ pc = "idle"
    /\ pc' = "version"
    /\ UNCHANGED <<remote, local, purpose, draft, wanted, todo, data, always, undisturbed>>

DownloadVersion ==
    /\ pc = "version"
    /\ draft' = [version |-> remote.version, files |-> NoFiles]
    /\ pc' = "templates"
    /\ UNCHANGED <<remote, local, purpose, wanted, todo, data, always, undisturbed>>

\* Mutant: entries that the release no longer has stay in the manifest.
MergedSection(files, section) ==
    [f \in Files |-> IF f \in section THEN IF remote.files[f] = Absent THEN manifest.files[f] ELSE remote.files[f]
                     ELSE files[f]]

WithSection(files, section) == [f \in Files |-> IF f \in section THEN remote.files[f] ELSE files[f]]

DownloadTemplates ==
    /\ pc = "templates"
    /\ draft' = [version |-> draft.version, files |-> WithSection(draft.files, Templates)]
    /\ pc' = "scripts"
    /\ UNCHANGED <<remote, local, purpose, wanted, todo, data, always, undisturbed>>

DownloadScripts ==
    /\ pc = "scripts"
    /\ draft' = [version |-> draft.version, files |-> WithSection(draft.files, Scripts)]
    /\ todo' = Listed(draft'.files) \cap Unsized
    /\ pc' = "measure"
    /\ UNCHANGED <<remote, local, purpose, wanted, data, always, undisturbed>>

\* An unsized file is downloaded for its sum; when that fails, or the file is
\* gone, the entry keeps the sum that the manifest lists.
Measure ==
    /\ pc = "measure"
    /\ \E f \in todo :
         /\ todo' = todo \ {f}
         /\ \E sum \in {draft.files[f], remote.files[f]} \ {Absent} :
              draft' = [version |-> draft.version, files |-> [draft.files EXCEPT ![f] = sum]]
    /\ UNCHANGED <<remote, local, pc, purpose, wanted, data, always, undisturbed>>

(***************************************************************************)
(* checkForUpdates: only a version that differs makes it compare, and all  *)
(* files are new to a manager that has no manifest.  The files to fetch    *)
(* come from this manifest; downloadUpdates then downloads it again.       *)
(***************************************************************************)
\* Mutant: only new files are fetched.
WantedNew(old, new) == Listed(new.files) \ Listed(old.files)

Wanted(old, new) == {f \in Listed(new.files) : new.files[f] # old.files[f]}

UpToDate ==
    /\ pc = "measure" /\ todo = {} /\ purpose = "check"
    /\ manifest.version = draft.version
    /\ Return
    /\ UNCHANGED <<remote, local, always, undisturbed>>

UpdatesAvailable ==
    /\ pc = "measure" /\ todo = {} /\ purpose = "check"
    /\ manifest.version # draft.version
    /\ wanted' = Wanted(manifest, draft)
    /\ purpose' = "download" /\ pc' = "version" /\ draft' = NoManifest
    /\ UNCHANGED <<remote, local, todo, data, always, undisturbed>>

(***************************************************************************)
(* downloadUpdates: new files before changed ones; a file that cannot be   *)
(* downloaded is skipped, and the update goes on without it.               *)
(***************************************************************************)
StartFiles ==
    /\ pc = "measure" /\ todo = {} /\ purpose = "download"
    /\ pc' = "files" /\ todo' = wanted
    /\ UNCHANGED <<remote, local, purpose, draft, wanted, data, always, undisturbed>>

InOrder(f) == f \in Listed(manifest.files) => todo \subseteq Listed(manifest.files)

DownloadFile ==
    /\ pc = "files"
    /\ \E f \in {g \in todo : InOrder(g)} :
         /\ todo' = todo \ {f}
         /\ \/ /\ remote.files[f] # Absent
               /\ data' = [data EXCEPT ![f] = remote.files[f]]
               /\ UNCHANGED undisturbed
            \/ /\ undisturbed' = FALSE
               /\ UNCHANGED data
    /\ UNCHANGED <<remote, local, pc, purpose, draft, wanted, always>>

(***************************************************************************)
(* applyUpdates: a backup of the manifest, the files one by one, then the  *)
(* removals, then the manifest.  It returns at the first failed write and  *)
(* undoes nothing; a removal that fails is only logged.                    *)
(***************************************************************************)
Backup ==
    /\ pc = "files" /\ todo = {}
    /\ pc' = "write" /\ todo' = Listed(data)
    /\ UNCHANGED <<remote, local, purpose, draft, wanted, data, always, undisturbed>>

BackupFails ==
    /\ pc = "files" /\ todo = {}
    /\ Return
    /\ UNCHANGED <<remote, local, always, undisturbed>>

WriteFile ==
    /\ pc = "write"
    /\ \E f \in todo :
         /\ todo' = todo \ {f}
         /\ disk' = [disk EXCEPT ![f] = data[f]]
    /\ UNCHANGED <<remote, manifest, saved, pc, purpose, draft, wanted, data, always, undisturbed>>

\* The directory cannot be made, or the file cannot be written in full.
WriteFileFails ==
    /\ pc = "write"
    /\ \E f \in todo : \E left \in {disk[f], Partial} : disk' = [disk EXCEPT ![f] = left]
    /\ undisturbed' = FALSE
    /\ Return
    /\ UNCHANGED <<remote, manifest, saved, always>>

\* Mutant: what this update did not fetch is removed.
GoneUnlessFetched == Listed(manifest.files) \ Listed(data)

Gone == Listed(manifest.files) \ Listed(draft.files)

RemoveDeleted ==
    /\ pc = "write" /\ todo = {}
    /\ \E kept \in SUBSET Gone :
         disk' = [f \in Files |-> IF f \in Gone \ kept THEN Absent ELSE disk[f]]
    /\ pc' = "save"
    /\ UNCHANGED <<remote, manifest, saved, purpose, draft, wanted, todo, data, always, undisturbed>>

\* The manifest in memory is replaced whether or not it could be written.
SaveManifest ==
    /\ pc = "save"
    /\ manifest' = draft
    /\ saved' \in {draft, saved, Corrupt}
    /\ Return
    /\ UNCHANGED <<remote, disk, always, undisturbed>>

(***************************************************************************)
(* The process dies, at any place, and starts again: Initialize decodes    *)
(* the saved manifest and keeps nothing of it.                             *)
(***************************************************************************)
Restart ==
    /\ manifest' = NoManifest /\ undisturbed' = TRUE
    /\ disk' \in {disk} \cup {[disk EXCEPT ![f] = Partial] : f \in IF pc = "write" THEN todo ELSE {}}
    /\ saved' \in IF pc = "save" THEN {saved, Corrupt} ELSE {saved}
    /\ Return
    /\ UNCHANGED <<remote, always>>

UpdateRepository ==
    \/ Start \/ DownloadFails
    \/ DownloadVersion \/ DownloadTemplates \/ DownloadScripts \/ Measure
    \/ UpToDate \/ UpdatesAvailable \/ StartFiles \/ DownloadFile
    \/ Backup \/ BackupFails \/ WriteFile \/ WriteFileFails
    \/ RemoveDeleted \/ SaveManifest

Next == Publish \/ UpdateRepository \/ Restart

Spec == Init /\ [][Next]_vars

-----------------------------------------------------------------------------
\* What ValidateRepository reports: a manifest whose files are all on disk with
\* the sums that it lists.
Intact(f) == disk[f] = manifest.files[f]
Valid == manifest.version # 0 /\ \A f \in Listed(manifest.files) : Intact(f)

TypeOK ==
    /\ remote \in Manifests /\ remote.version # 0
    /\ disk \in [Files -> Sums \cup {Absent, Partial}]
    /\ manifest \in Manifests /\ saved \in Manifests \cup {Corrupt}
    /\ pc \in {"idle", "version", "templates", "scripts", "measure", "files", "write", "save"}
    /\ purpose \in {"check", "download"}
    /\ draft \in Manifests
    /\ wanted \subseteq Files /\ todo \subseteq Files
    /\ data \in Listings
    /\ always \subseteq Files /\ undisturbed \in BOOLEAN

\* As long as no release is published while an update runs, no file is skipped
\* and no write fails, the files of the manifest in memory are on disk with its
\* sums, outside applyUpdates (validateFile, over all releases since the start).
UndisturbedIsValid ==
    undisturbed /\ manifest.version # 0 /\ pc \notin {"write", "save"} => Valid

\* Whatever is published during an update: a manifest with the version of the
\* latest release lists what that release lists, so that comparing versions
\* alone (checkForUpdates) misses no change of the manifest.
VersionTellsFiles ==
    manifest.version = remote.version => manifest.files = remote.files

\* A file that no release has dropped is never missing again once it is on
\* disk, through failures, crashes and releases read half from one push and half
\* from the next (the removals of applyUpdates).
StaysInstalled == [][\A f \in always : disk[f] # Absent => disk'[f] # Absent]_vars
=============================================================================
