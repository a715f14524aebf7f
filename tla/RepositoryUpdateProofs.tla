------------------------ MODULE RepositoryUpdateProofs ------------------------
(***************************************************************************)
(* Proofs about the repository manager, for any paths, contents and number *)
(* of releases: what an update may assume of the manifest it downloads in  *)
(* pieces, and when the files on disk agree with the manifest in memory.   *)
(***************************************************************************)
EXTENDS RepositoryUpdate, TLAPS

\* Places where a manifest download is behind the update.
Downloaded == {"measure", "files", "write", "save"}

\* The manifest in memory and the draft are never ahead of the remote, and the
\* draft has no version before the first file of its download.
VersionInv ==
    /\ manifest.version <= remote.version /\ draft.version <= remote.version
    /\ manifest.version = 0 => manifest.files = NoFiles
    /\ draft.version = 0 <=> pc \in {"idle", "version"}
    /\ pc = "idle" => purpose = "check"
    /\ pc \in {"files", "write", "save"} => purpose = "download"

\* A draft with the version of the latest release was read from that release
\* alone: the version is the first piece that is read.
DraftInv ==
    draft.version = remote.version =>
        /\ pc = "scripts" => \A f \in Templates : draft.files[f] = remote.files[f]
        /\ pc \in Downloaded => draft.files = remote.files

\* A file of every release is in the part of the draft that was read, whatever
\* release each section is from, and nothing is written that was not fetched.
ListedInv ==
    /\ always \subseteq Listed(remote.files)
    /\ pc = "scripts" => always \cap Templates \subseteq Listed(draft.files)
    /\ pc \in Downloaded => always \subseteq Listed(draft.files)
    /\ pc = "write" => todo \subseteq Listed(data)

\* What an undisturbed update has read, fetched and written so far.
UndisturbedInv ==
    undisturbed =>
        /\ pc \notin {"idle", "version"} => draft.version = remote.version
        /\ purpose = "download" => wanted = Wanted(manifest, remote)
        /\ pc \notin {"files", "write", "save"} => data = NoFiles
        /\ pc = "files" => todo \subseteq wanted
        /\ pc = "files" => \A f \in Files : data[f] = IF f \in wanted \ todo THEN remote.files[f] ELSE Absent
        /\ pc = "write" => \A f \in todo : data[f] = remote.files[f]
        /\ pc \in {"write", "save"} =>
             \A f \in Listed(remote.files) : (pc = "write" /\ f \in todo) \/ disk[f] = remote.files[f]

RepositoryInv ==
    /\ TypeOK /\ VersionInv /\ DraftInv /\ ListedInv /\ UndisturbedInv
    /\ VersionTellsFiles /\ UndisturbedIsValid
-----------------------------------------------------------------------------
(* Types.                                                                   *)

\* The manifests of the model, and the parts of one.
LEMMA ManifestParts ==
    /\ NoFiles \in Listings /\ NoManifest \in Manifests
    /\ \A m \in Manifests : m.version \in 0..MaxReleases /\ m.files \in Listings
    /\ \A v \in 0..MaxReleases, files \in Listings : [version |-> v, files |-> files] \in Manifests
BY RepositoryAssumption DEF NoFiles, Listings, NoManifest, Manifests

LEMMA TypeInit == Init => TypeOK
<1> SUFFICES ASSUME Init PROVE TypeOK
  OBVIOUS
<1>1. PICK files \in Listings : remote = [version |-> 1, files |-> files] /\ always = Listed(files)
  BY DEF Init
<1>2. remote \in Manifests /\ remote.version # 0 /\ always \subseteq Files
  BY <1>1, ManifestParts, RepositoryAssumption DEF Listed
<1>3. disk \in [Files -> Sums \cup {Absent, Partial}] /\ data \in Listings
  BY ManifestParts DEF Init, NoFiles
<1>4. manifest \in Manifests /\ saved \in Manifests /\ draft \in Manifests
  BY ManifestParts DEF Init
<1> QED BY <1>2, <1>3, <1>4 DEF Init, TypeOK

LEMMA ReturnTypes ==
    ASSUME TypeOK, Return
    PROVE  /\ pc' = "idle" /\ purpose' = "check" /\ draft' \in Manifests
           /\ wanted' \subseteq Files /\ todo' \subseteq Files /\ data' \in Listings
BY ManifestParts DEF Return

LEMMA TypeStep == TypeOK /\ [Next]_vars => TypeOK'
<1> SUFFICES ASSUME TypeOK, [Next]_vars PROVE TypeOK'
  OBVIOUS
<1> USE RepositoryAssumption
<1>1. CASE Publish
  <2>1. PICK files \in Listings :
          remote' = [version |-> remote.version + 1, files |-> files] /\ always' = always \cap Listed(files)
    BY <1>1 DEF Publish
  <2>2. remote.version \in 0..MaxReleases /\ remote.version < MaxReleases
    BY <1>1, ManifestParts DEF Publish, TypeOK
  <2>3. remote.version + 1 \in 0..MaxReleases /\ remote.version + 1 # 0
    BY <2>2
  <2>4. remote' \in Manifests /\ remote'.version # 0
    BY <2>1, <2>3, ManifestParts
  <2> QED BY <1>1, <2>1, <2>4 DEF Publish, TypeOK, local
<1>2. CASE DownloadFails \/ UpToDate \/ BackupFails
  BY <1>2, ReturnTypes DEF DownloadFails, UpToDate, BackupFails, TypeOK, local
<1>3. CASE Start
  BY <1>3 DEF Start, TypeOK, local
<1>4. CASE DownloadVersion
  <2>1. draft' \in Manifests
    BY <1>4, ManifestParts DEF DownloadVersion, TypeOK
  <2> QED BY <1>4, <2>1 DEF DownloadVersion, TypeOK, local
<1>5. ASSUME NEW files \in Listings, NEW section
      PROVE  WithSection(files, section) \in Listings
  BY <1>5, ManifestParts DEF WithSection, Listings, TypeOK
<1>6. CASE DownloadTemplates
  <2>1. draft' \in Manifests
    BY <1>5, <1>6, ManifestParts DEF DownloadTemplates, TypeOK
  <2> QED BY <1>6, <2>1 DEF DownloadTemplates, TypeOK, local
<1>7. CASE DownloadScripts
  <2>1. draft' \in Manifests
    BY <1>5, <1>7, ManifestParts DEF DownloadScripts, TypeOK
  <2>2. todo' \subseteq Files
    BY <1>7 DEF DownloadScripts
  <2> QED BY <1>7, <2>1, <2>2 DEF DownloadScripts, TypeOK, local
<1>8. CASE Measure
  <2>1. PICK f \in todo, sum \in Sums \cup {Absent} :
          /\ sum # Absent /\ sum \in {draft.files[f], remote.files[f]}
          /\ todo' = todo \ {f}
          /\ draft' = [version |-> draft.version, files |-> [draft.files EXCEPT ![f] = sum]]
    <3>1. \A f \in todo : {draft.files[f], remote.files[f]} \subseteq Sums \cup {Absent}
      BY ManifestParts DEF TypeOK, Listings
    <3> QED BY <1>8, <3>1 DEF Measure
  <2>2. f \in Files /\ draft.files \in Listings /\ remote.files \in Listings
    BY ManifestParts DEF TypeOK
  <2>3. [draft.files EXCEPT ![f] = sum] \in Listings
    BY <2>2 DEF Listings
  <2>4. draft' \in Manifests
    BY <2>1, <2>3, ManifestParts DEF TypeOK
  <2> QED BY <1>8, <2>1, <2>4 DEF Measure, TypeOK, local
<1>9. CASE UpdatesAvailable
  <2>1. wanted' \subseteq Files /\ draft' \in Manifests
    BY <1>9, ManifestParts DEF UpdatesAvailable, Wanted, Listed
  <2> QED BY <1>9, <2>1 DEF UpdatesAvailable, TypeOK, local
<1>10. CASE StartFiles
  BY <1>10 DEF StartFiles, TypeOK, local
<1>11. CASE DownloadFile
  <2>1. PICK f \in todo :
          /\ todo' = todo \ {f}
          /\ \/ data' = [data EXCEPT ![f] = remote.files[f]] /\ undisturbed' = undisturbed
             \/ data' = data /\ undisturbed' = FALSE
    BY <1>11 DEF DownloadFile
  <2>2. f \in Files /\ remote.files[f] \in Sums \cup {Absent}
    BY ManifestParts DEF TypeOK, Listings
  <2>3. data' \in Listings /\ undisturbed' \in BOOLEAN
    BY <2>1, <2>2 DEF TypeOK, Listings
  <2> QED BY <1>11, <2>1, <2>3 DEF DownloadFile, TypeOK, local
<1>12. CASE Backup
  BY <1>12 DEF Backup, TypeOK, local, Listed
<1>13. CASE WriteFile
  <2>1. PICK f \in todo : todo' = todo \ {f} /\ disk' = [disk EXCEPT ![f] = data[f]]
    BY <1>13 DEF WriteFile
  <2>2. disk' \in [Files -> Sums \cup {Absent, Partial}]
    BY <2>1 DEF TypeOK, Listings
  <2> QED BY <1>13, <2>1, <2>2 DEF WriteFile, TypeOK
<1>14. CASE WriteFileFails
  <2>1. PICK f \in todo, left \in Sums \cup {Absent, Partial} : disk' = [disk EXCEPT ![f] = left]
    BY <1>14 DEF WriteFileFails, TypeOK
  <2>2. disk' \in [Files -> Sums \cup {Absent, Partial}]
    BY <2>1 DEF TypeOK
  <2> QED BY <1>14, <2>2, ReturnTypes DEF WriteFileFails, TypeOK
<1>15. CASE RemoveDeleted
  <2>1. disk' \in [Files -> Sums \cup {Absent, Partial}]
    BY <1>15 DEF RemoveDeleted, TypeOK
  <2> QED BY <1>15, <2>1 DEF RemoveDeleted, TypeOK
<1>16. CASE SaveManifest
  BY <1>16, ReturnTypes DEF SaveManifest, TypeOK
<1>17. CASE Restart
  <2>1. disk' \in [Files -> Sums \cup {Absent, Partial}]
    <3>1. disk' = disk \/ \E f \in Files : disk' = [disk EXCEPT ![f] = Partial]
      BY <1>17 DEF Restart, TypeOK
    <3> QED BY <3>1 DEF TypeOK
  <2>2. saved' \in Manifests \cup {Corrupt} /\ manifest' \in Manifests
    BY <1>17, ManifestParts DEF Restart, TypeOK
  <2> QED BY <1>17, <2>1, <2>2, ReturnTypes DEF Restart, TypeOK
<1>18. CASE UNCHANGED vars
  BY <1>18 DEF vars, TypeOK
<1> QED BY <1>1, <1>2, <1>3, <1>4, <1>6, <1>7, <1>8, <1>9, <1>10, <1>11, <1>12, <1>13, <1>14, <1>15,
           <1>16, <1>17, <1>18 DEF Next, UpdateRepository

-----------------------------------------------------------------------------
(* Versions.                                                                *)

LEMMA VersionStep == TypeOK /\ VersionInv /\ [Next]_vars => VersionInv'
<1> SUFFICES ASSUME TypeOK, VersionInv, [Next]_vars PROVE VersionInv'
  OBVIOUS
<1>1. /\ remote.version \in Nat /\ manifest.version \in Nat /\ draft.version \in Nat
      /\ remote.version # 0 /\ NoManifest.version = 0 /\ NoManifest.files = NoFiles
  BY ManifestParts, RepositoryAssumption DEF TypeOK, NoManifest
<1>2. CASE Publish
  <2>1. remote'.version = remote.version + 1
    BY <1>2 DEF Publish
  <2> QED BY <1>1, <1>2, <2>1 DEF Publish, VersionInv, local
<1>3. CASE DownloadFails \/ UpToDate \/ BackupFails \/ WriteFileFails
  BY <1>1, <1>3 DEF DownloadFails, UpToDate, BackupFails, WriteFileFails, Return, local, VersionInv
<1>4. CASE Start
  BY <1>4 DEF Start, local, VersionInv
<1>5. CASE DownloadVersion
  BY <1>1, <1>5 DEF DownloadVersion, local, VersionInv
<1>6. CASE DownloadTemplates \/ DownloadScripts \/ Measure
  <2>1. draft'.version = draft.version
    BY <1>6 DEF DownloadTemplates, DownloadScripts, Measure
  <2> QED BY <1>6, <2>1 DEF DownloadTemplates, DownloadScripts, Measure, local, VersionInv
<1>7. CASE UpdatesAvailable
  BY <1>1, <1>7 DEF UpdatesAvailable, local, VersionInv
<1>8. CASE StartFiles \/ DownloadFile \/ Backup
  BY <1>8 DEF StartFiles, DownloadFile, Backup, local, VersionInv
<1>9. CASE WriteFile \/ RemoveDeleted
  BY <1>9 DEF WriteFile, RemoveDeleted, VersionInv
<1>10. CASE SaveManifest
  BY <1>1, <1>10 DEF SaveManifest, Return, VersionInv
<1>11. CASE Restart
  BY <1>1, <1>11 DEF Restart, Return, VersionInv
<1>12. CASE UNCHANGED vars
  BY <1>12 DEF vars, VersionInv
<1> QED BY <1>2, <1>3, <1>4, <1>5, <1>6, <1>7, <1>8, <1>9, <1>10, <1>11, <1>12 DEF Next, UpdateRepository

LEMMA DraftStep == TypeOK /\ VersionInv /\ DraftInv /\ [Next]_vars => DraftInv'
<1> SUFFICES ASSUME TypeOK, VersionInv, DraftInv, [Next]_vars, draft'.version = remote'.version
             PROVE  /\ pc' = "scripts" => \A f \in Templates : draft'.files[f] = remote'.files[f]
                    /\ pc' \in Downloaded => draft'.files = remote'.files
  BY DEF DraftInv
<1>1. /\ remote.version \in Nat /\ draft.version \in Nat /\ remote.version # 0
      /\ draft.files \in Listings /\ remote.files \in Listings /\ NoManifest.version = 0
  BY ManifestParts, RepositoryAssumption DEF TypeOK, NoManifest
<1>2. CASE Publish
  BY <1>1, <1>2 DEF Publish, VersionInv
<1>3. CASE DownloadFails \/ UpToDate \/ BackupFails \/ WriteFileFails \/ SaveManifest \/ Restart
  BY <1>3 DEF DownloadFails, UpToDate, BackupFails, WriteFileFails, SaveManifest, Restart, Return,
              Downloaded
<1>4. CASE Start \/ DownloadVersion \/ UpdatesAvailable
  BY <1>4 DEF Start, DownloadVersion, UpdatesAvailable, Downloaded
<1>5. CASE DownloadTemplates
  <2>1. draft'.files = WithSection(draft.files, Templates) /\ remote' = remote /\ pc' = "scripts"
    BY <1>5 DEF DownloadTemplates
  <2> QED BY <2>1 DEF WithSection, Files, Downloaded
<1>6. CASE DownloadScripts
  <2>1. /\ draft'.files = WithSection(draft.files, Scripts) /\ draft'.version = draft.version
        /\ remote' = remote /\ pc = "scripts" /\ pc' = "measure"
    BY <1>6 DEF DownloadScripts
  <2>2. \A f \in Templates : draft.files[f] = remote.files[f]
    BY <2>1 DEF DraftInv
  <2>3. \A f \in Files : WithSection(draft.files, Scripts)[f] = remote.files[f]
    BY <2>2 DEF WithSection, Files
  <2>4. draft'.files = remote.files
    BY <1>1, <2>1, <2>3 DEF WithSection, Listings
  <2> QED BY <2>1, <2>4
<1>7. CASE Measure
  <2>0. PICK f \in todo : \E sum \in {draft.files[f], remote.files[f]} \ {Absent} :
          draft' = [version |-> draft.version, files |-> [draft.files EXCEPT ![f] = sum]]
    BY <1>7 DEF Measure
  <2>1. /\ draft'.version = draft.version /\ remote' = remote /\ pc = "measure" /\ pc' = "measure"
        /\ \E sum \in {draft.files[f], remote.files[f]} : draft'.files = [draft.files EXCEPT ![f] = sum]
    BY <1>7, <2>0 DEF Measure
  <2>2. draft.files = remote.files
    BY <2>1 DEF DraftInv, Downloaded
  <2> QED BY <1>1, <2>1, <2>2 DEF Listings
<1>8. CASE StartFiles \/ DownloadFile \/ Backup
  BY <1>8 DEF StartFiles, DownloadFile, Backup, DraftInv, Downloaded
<1>9. CASE WriteFile \/ RemoveDeleted
  BY <1>9 DEF WriteFile, RemoveDeleted, DraftInv, Downloaded
<1>10. CASE UNCHANGED vars
  BY <1>10 DEF vars, DraftInv
<1> QED BY <1>2, <1>3, <1>4, <1>5, <1>6, <1>7, <1>8, <1>9, <1>10 DEF Next, UpdateRepository

LEMMA VersionTellsStep ==
    TypeOK /\ VersionInv /\ DraftInv /\ VersionTellsFiles /\ [Next]_vars => VersionTellsFiles'
<1> SUFFICES ASSUME TypeOK, VersionInv, DraftInv, VersionTellsFiles, [Next]_vars,
                    manifest'.version = remote'.version
             PROVE  manifest'.files = remote'.files
  BY DEF VersionTellsFiles
<1>1. /\ remote.version \in Nat /\ manifest.version \in Nat /\ remote.version # 0
      /\ NoManifest.version = 0
  BY ManifestParts, RepositoryAssumption DEF TypeOK, NoManifest
<1>2. CASE Publish
  BY <1>1, <1>2 DEF Publish, VersionInv, local
<1>3. CASE SaveManifest
  BY <1>3 DEF SaveManifest, DraftInv, Downloaded
<1>4. CASE Restart
  BY <1>1, <1>4 DEF Restart
<1>5. ASSUME manifest' = manifest, remote' = remote
      PROVE  manifest'.files = remote'.files
  BY <1>5 DEF VersionTellsFiles
<1>6. CASE \/ Start \/ DownloadFails \/ DownloadVersion \/ DownloadTemplates \/ DownloadScripts
           \/ Measure \/ UpToDate \/ UpdatesAvailable \/ StartFiles \/ DownloadFile \/ Backup \/ BackupFails
  BY <1>5, <1>6 DEF Start, DownloadFails, DownloadVersion, DownloadTemplates, DownloadScripts, Measure,
                    UpToDate, UpdatesAvailable, StartFiles, DownloadFile, Backup, BackupFails, local
<1>7. CASE WriteFile \/ WriteFileFails \/ RemoveDeleted \/ UNCHANGED vars
  BY <1>5, <1>7 DEF WriteFile, WriteFileFails, RemoveDeleted, vars
<1> QED BY <1>2, <1>3, <1>4, <1>6, <1>7 DEF Next, UpdateRepository

-----------------------------------------------------------------------------
(* Files that no release has dropped.                                       *)

LEMMA ListedStep == TypeOK /\ ListedInv /\ [Next]_vars => ListedInv'
<1> SUFFICES ASSUME TypeOK, ListedInv, [Next]_vars PROVE ListedInv'
  OBVIOUS
<1>1. draft.files \in Listings /\ remote.files \in Listings /\ always \subseteq Files
  BY ManifestParts DEF TypeOK
<1>2. CASE Publish
  <2>1. always' \subseteq always /\ always' \subseteq Listed(remote.files)'
    BY <1>2 DEF Publish, Listed
  <2> QED BY <1>2, <2>1 DEF Publish, ListedInv, Listed
<1>3. CASE DownloadFails \/ UpToDate \/ BackupFails \/ WriteFileFails \/ SaveManifest \/ Restart
  BY <1>3 DEF DownloadFails, UpToDate, BackupFails, WriteFileFails, SaveManifest, Restart, Return,
              Downloaded, ListedInv, Listed
<1>4. CASE Start \/ DownloadVersion \/ UpdatesAvailable
  BY <1>4 DEF Start, DownloadVersion, UpdatesAvailable, Downloaded, ListedInv, Listed
<1>5. CASE DownloadTemplates
  <2>1. /\ draft'.files = WithSection(draft.files, Templates) /\ pc' = "scripts"
        /\ remote' = remote /\ always' = always
    BY <1>5 DEF DownloadTemplates
  <2>2. \A f \in always \cap Templates : WithSection(draft.files, Templates)[f] = remote.files[f]
    BY <1>1 DEF WithSection
  <2>3. always' \cap Templates \subseteq Listed(draft'.files)
    BY <1>1, <2>1, <2>2 DEF ListedInv, Listed
  <2> QED BY <2>1, <2>3 DEF ListedInv, Downloaded, Listed
<1>6. CASE DownloadScripts
  <2>1. /\ draft'.files = WithSection(draft.files, Scripts) /\ pc = "scripts" /\ pc' = "measure"
        /\ remote' = remote /\ always' = always
    BY <1>6 DEF DownloadScripts
  <2>2. \A f \in always : WithSection(draft.files, Scripts)[f] # Absent
    BY <1>1, <2>1 DEF WithSection, ListedInv, Listed, Files
  <2>3. always' \subseteq Listed(draft'.files)
    BY <1>1, <2>1, <2>2 DEF Listed
  <2> QED BY <2>1, <2>3 DEF ListedInv, Downloaded, Listed
<1>7. CASE Measure
  <2>1. /\ pc = "measure" /\ pc' = "measure" /\ remote' = remote /\ always' = always
    BY <1>7 DEF Measure
  <2>2. \A g \in Files : draft.files[g] # Absent => draft'.files[g] # Absent
    <3>1. PICK f \in todo :
            \E sum \in {draft.files[f], remote.files[f]} \ {Absent} :
                draft' = [version |-> draft.version, files |-> [draft.files EXCEPT ![f] = sum]]
      BY <1>7 DEF Measure
    <3>2. PICK sum \in {draft.files[f], remote.files[f]} \ {Absent} :
            draft' = [version |-> draft.version, files |-> [draft.files EXCEPT ![f] = sum]]
      BY <3>1
    <3>3. sum # Absent /\ draft'.files = [draft.files EXCEPT ![f] = sum]
      BY <3>2
    <3> QED BY <1>1, <3>3 DEF Listings
  <2>3. always' \subseteq Listed(draft'.files)
    BY <1>1, <2>1, <2>2 DEF ListedInv, Downloaded, Listed
  <2> QED BY <2>1, <2>3 DEF ListedInv, Downloaded, Listed
<1>8. CASE StartFiles \/ DownloadFile \/ Backup
  BY <1>8 DEF StartFiles, DownloadFile, Backup, ListedInv, Downloaded, Listed
<1>9. CASE WriteFile \/ RemoveDeleted
  BY <1>9 DEF WriteFile, RemoveDeleted, ListedInv, Downloaded, Listed
<1>10. CASE UNCHANGED vars
  BY <1>10 DEF vars, ListedInv, Listed
<1> QED BY <1>2, <1>3, <1>4, <1>5, <1>6, <1>7, <1>8, <1>9, <1>10 DEF Next, UpdateRepository

\* Nothing but the removals of applyUpdates makes a file absent, and they
\* spare what the downloaded manifest lists.
LEMMA InstalledStep ==
    ASSUME TypeOK, ListedInv, [Next]_vars, NEW f \in always, disk[f] # Absent
    PROVE  disk'[f] # Absent
<1> USE RepositoryAssumption
<1>1. f \in Files /\ disk \in [Files -> Sums \cup {Absent, Partial}]
  BY DEF TypeOK
<1>2. CASE WriteFile
  <2>1. PICK g \in todo : disk' = [disk EXCEPT ![g] = data[g]]
    BY <1>2 DEF WriteFile
  <2>2. data[g] # Absent
    BY <1>2, <2>1 DEF WriteFile, ListedInv, Listed
  <2> QED BY <1>1, <2>1, <2>2
<1>3. CASE WriteFileFails
  <2>1. disk'[f] = disk[f] \/ disk'[f] = Partial
    BY <1>1, <1>3 DEF WriteFileFails
  <2> QED BY <2>1
<1>4. CASE RemoveDeleted
  <2>1. f \in Listed(draft.files)
    BY <1>4 DEF RemoveDeleted, ListedInv, Downloaded
  <2> QED BY <1>1, <1>4, <2>1 DEF RemoveDeleted, Gone
<1>5. CASE Restart
  <2>1. disk' = disk \/ \E g : disk' = [disk EXCEPT ![g] = Partial]
    BY <1>5 DEF Restart
  <2> QED BY <1>1, <2>1
<1>6. ASSUME disk' = disk
      PROVE  disk'[f] # Absent
  BY <1>6
<1>7. CASE \/ Publish \/ Start \/ DownloadFails \/ DownloadVersion \/ DownloadTemplates
           \/ DownloadScripts \/ Measure \/ UpToDate \/ UpdatesAvailable \/ StartFiles \/ DownloadFile
           \/ Backup \/ BackupFails \/ SaveManifest \/ UNCHANGED vars
  BY <1>6, <1>7 DEF Publish, Start, DownloadFails, DownloadVersion, DownloadTemplates, DownloadScripts,
                    Measure, UpToDate, UpdatesAvailable, StartFiles, DownloadFile, Backup, BackupFails,
                    SaveManifest, local, vars
<1> QED BY <1>2, <1>3, <1>4, <1>5, <1>7 DEF Next, UpdateRepository

-----------------------------------------------------------------------------
(* Undisturbed updates.                                                     *)

\* An undisturbed update works on the release that the remote shows.
LEMMA UndisturbedReads ==
    ASSUME TypeOK, DraftInv, UndisturbedInv, undisturbed, pc \in Downloaded
    PROVE  draft.files = remote.files
BY DEF DraftInv, UndisturbedInv, Downloaded

\* Before the first write, a file of the release that need not be fetched is
\* already on disk.
LEMMA KeptIsThere ==
    ASSUME TypeOK, VersionInv, UndisturbedInv, UndisturbedIsValid, undisturbed, pc = "files",
           NEW f \in Listed(remote.files), f \notin wanted
    PROVE  disk[f] = remote.files[f]
<1>1. f \in Files /\ remote.files[f] # Absent
  BY DEF Listed
<1>2. wanted = Wanted(manifest, remote)
  BY DEF VersionInv, UndisturbedInv
<1>3. manifest.files[f] = remote.files[f]
  BY <1>2 DEF Wanted
<1>4. manifest.version # 0
  BY <1>1, <1>3 DEF VersionInv, NoFiles
<1>5. disk[f] = manifest.files[f]
  BY <1>1, <1>3, <1>4 DEF UndisturbedIsValid, Valid, Intact, Listed
<1> QED BY <1>3, <1>5

LEMMA UndisturbedStep ==
    TypeOK /\ VersionInv /\ DraftInv /\ UndisturbedInv /\ UndisturbedIsValid /\ [Next]_vars
        => UndisturbedInv'
<1> SUFFICES ASSUME TypeOK, VersionInv, DraftInv, UndisturbedInv, UndisturbedIsValid, [Next]_vars,
                    undisturbed'
             PROVE  UndisturbedInv'
  BY DEF UndisturbedInv
<1>1. CASE Publish
  BY <1>1 DEF Publish, VersionInv, UndisturbedInv
<1>2. CASE DownloadFails \/ UpToDate \/ BackupFails \/ WriteFileFails \/ SaveManifest \/ Restart
  BY <1>2 DEF DownloadFails, UpToDate, BackupFails, WriteFileFails, SaveManifest, Restart, Return,
              UndisturbedInv
<1>3. CASE Start \/ DownloadVersion \/ DownloadTemplates \/ DownloadScripts \/ Measure
  <2>1. /\ UNCHANGED <<remote, disk, manifest, wanted, data, purpose>> /\ undisturbed
        /\ pc \notin {"files", "write", "save"} /\ pc' \notin {"files", "write", "save"}
    BY <1>3 DEF Start, DownloadVersion, DownloadTemplates, DownloadScripts, Measure, local
  <2>2. pc' \notin {"idle", "version"} => draft'.version = remote.version
    BY <1>3, <2>1 DEF Start, DownloadVersion, DownloadTemplates, DownloadScripts, Measure, UndisturbedInv
  <2>3. Wanted(manifest, remote)' = Wanted(manifest, remote)
    BY <2>1 DEF Wanted, Listed
  <2> QED BY <2>1, <2>2, <2>3 DEF UndisturbedInv
<1>4. CASE UpdatesAvailable
  <2>1. draft.files = remote.files
    BY <1>4, UndisturbedReads DEF UpdatesAvailable, Downloaded
  <2> QED BY <1>4, <2>1 DEF UpdatesAvailable, local, UndisturbedInv, Wanted
<1>5. CASE StartFiles
  <2>1. /\ pc' = "files" /\ todo' = wanted /\ UNCHANGED <<remote, manifest, draft, wanted, data>>
        /\ pc = "measure" /\ purpose' = purpose
    BY <1>5 DEF StartFiles, local
  <2> QED BY <1>5, <2>1 DEF StartFiles, UndisturbedInv, NoFiles, Wanted, Listed
<1>6. CASE DownloadFile
  <2>1. PICK f \in todo : todo' = todo \ {f} /\ data' = [data EXCEPT ![f] = remote.files[f]]
    BY <1>6 DEF DownloadFile
  <2>2. /\ pc = "files" /\ pc' = "files" /\ UNCHANGED <<remote, manifest, draft, wanted, purpose>>
        /\ undisturbed
    BY <1>6 DEF DownloadFile, local
  <2>3. \A g \in Files : data'[g] = IF g \in wanted \ todo' THEN remote.files[g] ELSE Absent
    <3> SUFFICES ASSUME NEW g \in Files
                 PROVE  data'[g] = IF g \in wanted \ todo' THEN remote.files[g] ELSE Absent
      OBVIOUS
    <3>1. data[g] = IF g \in wanted \ todo THEN remote.files[g] ELSE Absent
      BY <2>2 DEF UndisturbedInv
    <3>2. todo \subseteq wanted
      BY <2>2 DEF UndisturbedInv
    <3> QED BY <2>1, <3>1, <3>2 DEF TypeOK, Listings
  <2>4. todo' \subseteq wanted' /\ Wanted(manifest, remote)' = Wanted(manifest, remote)
    BY <2>1, <2>2 DEF UndisturbedInv, Wanted, Listed
  <2> QED BY <2>2, <2>3, <2>4 DEF UndisturbedInv
<1>7. CASE Backup
  <2>1. /\ pc = "files" /\ todo = {} /\ pc' = "write" /\ todo' = Listed(data) /\ undisturbed
        /\ UNCHANGED <<remote, disk, manifest, draft, wanted, data, purpose>>
    BY <1>7 DEF Backup, local
  <2>2. \A f \in Files : data[f] = IF f \in wanted THEN remote.files[f] ELSE Absent
    BY <2>1 DEF UndisturbedInv
  <2>3. \A f \in Listed(remote.files) : f \in Listed(data) \/ disk[f] = remote.files[f]
    BY <2>1, <2>2, KeptIsThere DEF Listed
  <2>4. \A f \in Listed(data) : data[f] = remote.files[f]
    BY <2>2 DEF Listed
  <2> QED BY <2>1, <2>3, <2>4 DEF UndisturbedInv, Wanted, Listed
<1>8. CASE WriteFile
  <2>1. PICK f \in todo : todo' = todo \ {f} /\ disk' = [disk EXCEPT ![f] = data[f]]
    BY <1>8 DEF WriteFile
  <2>2. /\ pc = "write" /\ pc' = "write" /\ undisturbed
        /\ UNCHANGED <<remote, manifest, draft, wanted, data, purpose>>
    BY <1>8 DEF WriteFile
  <2>3. data[f] = remote.files[f]
    BY <2>2 DEF UndisturbedInv
  <2>4. \A g \in Listed(remote.files) : g \in todo' \/ disk'[g] = remote.files[g]
    <3> SUFFICES ASSUME NEW g \in Listed(remote.files), g \notin todo' PROVE disk'[g] = remote.files[g]
      OBVIOUS
    <3>1. g \in todo \/ disk[g] = remote.files[g]
      BY <2>2 DEF UndisturbedInv
    <3> QED BY <2>1, <2>3, <3>1 DEF TypeOK, Listed
  <2> QED BY <2>1, <2>2, <2>4 DEF UndisturbedInv, Wanted, Listed
<1>9. CASE RemoveDeleted
  <2>1. /\ pc = "write" /\ todo = {} /\ pc' = "save" /\ undisturbed
        /\ UNCHANGED <<remote, manifest, draft, wanted, data, purpose>>
    BY <1>9 DEF RemoveDeleted
  <2>2. draft.files = remote.files
    BY <2>1, UndisturbedReads DEF Downloaded
  <2>3. \A f \in Listed(remote.files) : disk'[f] = disk[f]
    BY <1>9, <2>2 DEF RemoveDeleted, Gone, Listed
  <2>4. \A f \in Listed(remote.files) : disk'[f] = remote.files[f]
    BY <2>1, <2>3 DEF UndisturbedInv
  <2> QED BY <2>1, <2>4 DEF UndisturbedInv, Wanted, Listed
<1>10. CASE UNCHANGED vars
  BY <1>10 DEF vars, UndisturbedInv, Wanted, Listed
<1> QED BY <1>1, <1>2, <1>3, <1>4, <1>5, <1>6, <1>7, <1>8, <1>9, <1>10 DEF Next, UpdateRepository

LEMMA ValidStep ==
    TypeOK /\ DraftInv /\ UndisturbedInv /\ UndisturbedIsValid /\ [Next]_vars => UndisturbedIsValid'
<1> SUFFICES ASSUME TypeOK, DraftInv, UndisturbedInv, UndisturbedIsValid, [Next]_vars,
                    undisturbed', manifest'.version # 0, pc' \notin {"write", "save"}
             PROVE  \A f \in Listed(manifest'.files) : disk'[f] = manifest'.files[f]
  BY DEF UndisturbedIsValid, Valid, Intact
<1>1. CASE SaveManifest
  <2>1. /\ pc = "save" /\ undisturbed /\ manifest' = draft /\ disk' = disk
    BY <1>1 DEF SaveManifest
  <2>2. draft.files = remote.files
    BY <2>1, UndisturbedReads DEF Downloaded
  <2> QED BY <2>1, <2>2 DEF UndisturbedInv
<1>2. CASE Restart
  BY <1>2 DEF Restart, NoManifest
<1>3. ASSUME UNCHANGED <<disk, manifest>>, undisturbed, pc \notin {"write", "save"}
      PROVE  \A f \in Listed(manifest'.files) : disk'[f] = manifest'.files[f]
  BY <1>3 DEF UndisturbedIsValid, Valid, Intact
<1>4. CASE \/ Publish \/ Start \/ DownloadFails \/ DownloadVersion \/ DownloadTemplates
           \/ DownloadScripts \/ Measure \/ UpToDate \/ UpdatesAvailable \/ StartFiles \/ DownloadFile
           \/ BackupFails \/ UNCHANGED vars
  <2>1. UNCHANGED <<disk, manifest>>
    BY <1>4 DEF Publish, Start, DownloadFails, DownloadVersion, DownloadTemplates, DownloadScripts,
                Measure, UpToDate, UpdatesAvailable, StartFiles, DownloadFile, BackupFails, local, vars
  <2>2. undisturbed /\ pc \notin {"write", "save"}
    BY <1>4 DEF Publish, Start, DownloadFails, DownloadVersion, DownloadTemplates, DownloadScripts,
                Measure, UpToDate, UpdatesAvailable, StartFiles, DownloadFile, BackupFails, vars, TypeOK
  <2> QED BY <1>3, <2>1, <2>2
<1>5. CASE Backup \/ WriteFile \/ WriteFileFails \/ RemoveDeleted
  BY <1>5 DEF Backup, WriteFile, WriteFileFails, RemoveDeleted
<1> QED BY <1>1, <1>2, <1>4, <1>5 DEF Next, UpdateRepository

-----------------------------------------------------------------------------
(* Theorems.                                                                *)

LEMMA RepositoryInit == Init => RepositoryInv
<1> SUFFICES ASSUME Init PROVE RepositoryInv
  OBVIOUS
<1>1. PICK files \in Listings : remote = [version |-> 1, files |-> files] /\ always = Listed(files)
  BY DEF Init
<1>2. /\ remote.version = 1 /\ always \subseteq Listed(remote.files)
      /\ NoManifest.version = 0 /\ NoManifest.files = NoFiles
  BY <1>1 DEF NoManifest
<1>3. VersionInv /\ DraftInv /\ VersionTellsFiles /\ UndisturbedIsValid
  BY <1>2 DEF Init, VersionInv, DraftInv, VersionTellsFiles, UndisturbedIsValid
<1>4. ListedInv /\ UndisturbedInv
  BY <1>2 DEF Init, ListedInv, UndisturbedInv, Downloaded
<1> QED BY <1>3, <1>4, TypeInit DEF RepositoryInv

LEMMA RepositoryInductive == Spec => []RepositoryInv
<1>1. RepositoryInv /\ [Next]_vars => RepositoryInv'
  BY TypeStep, VersionStep, DraftStep, ListedStep, UndisturbedStep, VersionTellsStep, ValidStep
     DEF RepositoryInv
<1> QED BY <1>1, RepositoryInit, PTL DEF Spec

\* The manager's variables keep their types: a manifest is the empty one or
\* lists sums of a published version (UpdateRepository).
THEOREM RepositoryTypeCorrect == Spec => []TypeOK
<1>1. RepositoryInv => TypeOK
  BY DEF RepositoryInv
<1> QED BY <1>1, RepositoryInductive, PTL

\* For any number of releases, published between any two downloads: the
\* manifest in memory that has the version of the latest release lists what
\* that release lists, so that checkForUpdates, which compares versions alone,
\* misses no change of the manifest.
THEOREM VersionsTell == Spec => []VersionTellsFiles
<1>1. RepositoryInv => VersionTellsFiles
  BY DEF RepositoryInv
<1> QED BY <1>1, RepositoryInductive, PTL

\* While no release is published during an update, no file is skipped and no
\* write fails, the files of the manifest in memory are on disk with its sums:
\* what was fetched and what was kept together make the release
\* (checkForUpdates, downloadUpdates, applyUpdates, ValidateRepository).
THEOREM UndisturbedStaysValid == Spec => []UndisturbedIsValid
<1>1. RepositoryInv => UndisturbedIsValid
  BY DEF RepositoryInv
<1> QED BY <1>1, RepositoryInductive, PTL

\* A file that every release has listed never goes missing once it is on disk,
\* through failed writes, crashes and manifests put together from several
\* releases (applyUpdates).
THEOREM InstalledStays == Spec => StaysInstalled
<1>1. TypeOK /\ ListedInv /\ [Next]_vars => \A f \in always : disk[f] # Absent => disk'[f] # Absent
  BY InstalledStep
<1>2. RepositoryInv => TypeOK /\ ListedInv
  BY DEF RepositoryInv
<1> QED BY <1>1, <1>2, RepositoryInductive, PTL DEF Spec, StaysInstalled
=============================================================================
