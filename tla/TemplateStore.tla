--------------------------- MODULE TemplateStore ---------------------------
(***************************************************************************)
(* The template keys in Valkey and the goroutines that write them without  *)
(* a lock: the initial sync and the sync queue's processor, which bring in *)
(* repositories one template at a time, and the API that stores and        *)
(* deletes custom templates.  A template has a content key (standard or    *)
(* custom), a meta key that both kinds share, and a version key.           *)
(***************************************************************************)
EXTENDS Naturals, FiniteSets

CONSTANTS
    Repos,       \* template repositories
    Ids,         \* template identifiers
    Holds,       \* the templates of each repository
    Workers,     \* goroutines that sync repositories
    api,         \* the goroutine that stores and deletes custom templates
    NoRepo,
    MaxEdits,    \* bound on the pushes to repositories and edits of their list
    MaxJobs,     \* bound on the syncs and deletions of repositories
    MaxUploads,  \* bound on the custom templates stored or deleted
    MaxFaults    \* bound on the calls that fail

ASSUME StoreAssumption ==
    /\ NoRepo \notin Repos
    /\ api \notin Workers
    /\ IsFiniteSet(Ids) /\ Holds \in [Repos -> SUBSET Ids]
    /\ MaxEdits \in Nat /\ MaxJobs \in Nat /\ MaxUploads \in Nat /\ MaxFaults \in Nat

Actors == Workers \cup {api}

VARIABLES
    repos,      \* the repository list: [listed, enabled, status]
    upstream,   \* the version of each repository upstream
    clone,      \* the version of its directory on the server, 0 for none
    standard,   \* the content keys
    custom,
    meta,       \* the meta keys
    version,    \* the version keys
    stats,      \* the global manifest: [standard, custom, maps]
    pc, repo, todo, cur, text, goal, list, old,  \* where each goroutine is
    edits, jobs, uploads, faults,
    torn,       \* ghost: templates whose last store or delete went wrong
    clean,      \* ghost: this store has met no other of the same template
    lost        \* ghost: a status was written over, abandoned or not saved

keys == <<standard, custom, meta, version>>
local == <<repo, todo, cur, text, goal, list, old>>
counts == <<edits, jobs, uploads, faults>>
vars == <<repos, upstream, clone, keys, stats, pc, local, counts, torn, clean, lost>>

\* The content of a template is told apart by who wrote it and when; its
\* checksum and its metadata follow from it.
NoText == [repo |-> NoRepo, v |-> 0]
IsCustom(x) == x.repo = NoRepo

FirstList == [r \in Repos |-> [listed |-> TRUE, enabled |-> TRUE, status |-> "never_synced"]]

Init ==
    /\ repos = FirstList
    /\ upstream = [r \in Repos |-> 1]
    /\ clone = [r \in Repos |-> 0]
    /\ standard = [t \in Ids |-> NoText]
    /\ custom = [t \in Ids |-> NoText]
    /\ meta = [t \in Ids |-> NoText]
    /\ version = [t \in Ids |-> NoText]
    /\ stats = [standard |-> 0, custom |-> 0, maps |-> FALSE]
    /\ pc = [a \in Actors |-> "idle"]
    /\ repo = [a \in Actors |-> NoRepo]
    /\ todo = [a \in Actors |-> {}]
    /\ cur = [a \in Actors |-> CHOOSE t \in Ids : TRUE]
    /\ text = [a \in Actors |-> NoText]
    /\ goal = [a \in Actors |-> "none"]
    /\ list = [a \in Actors |-> FirstList]
    /\ old = stats
    /\ edits = 0 /\ jobs = 0 /\ uploads = 0 /\ faults = 0
    /\ torn = {} /\ clean = [a \in Actors |-> TRUE] /\ lost = FALSE

Goto(a, where) == pc' = [pc EXCEPT ![a] = where]

Fault == faults < MaxFaults /\ faults' = faults + 1

Storing(a) == pc[a] \in {"content", "meta", "version", "delContent", "delMeta", "delVersion"}
Others(a, t) == {b \in Actors \ {a} : Storing(b) /\ cur[b] = t}

\* Ghosts: a starts to store or delete t, perhaps while others do.
Enter(a, t, sound) ==
    LET ok == sound /\ Others(a, t) = {} IN
    /\ torn' = IF ok THEN torn ELSE torn \cup {t}
    /\ clean' = [b \in Actors |-> IF b = a THEN ok ELSE clean[b] /\ b \notin Others(a, t)]

-----------------------------------------------------------------------------
(* SyncRepository.                                                          *)

\* A repository that is not listed or not enabled is not synced.
BeginSync(w, r) ==
    /\ pc[w] = "idle" /\ jobs < MaxJobs
    /\ repos[r].listed /\ repos[r].enabled
    /\ jobs' = jobs + 1
    /\ repo' = [repo EXCEPT ![w] = r]
    /\ goal' = [goal EXCEPT ![w] = "syncing"]
    /\ Goto(w, "getStatus")
    /\ UNCHANGED <<repos, upstream, clone, keys, stats, todo, cur, text, list, old, edits, uploads, faults,
                   torn, clean, lost>>

\* updateRepositoryStatus reads the list, changes it and writes it back; an
\* error is only logged.
GetStatus(w) ==
    /\ pc[w] = "getStatus"
    /\ list' = [list EXCEPT ![w] = repos]
    /\ Goto(w, "setStatus")
    /\ UNCHANGED <<repos, upstream, clone, keys, stats, repo, todo, cur, text, goal, old, counts, torn, clean, lost>>

AfterStatus(w) ==
    /\ Goto(w, IF goal[w] = "syncing" THEN "pull" ELSE "idle")
    /\ list' = [list EXCEPT ![w] = FirstList]
    /\ goal' = [goal EXCEPT ![w] = "none"]

SetStatus(w) ==
    /\ pc[w] = "setStatus"
    /\ IF list[w][repo[w]].listed
         THEN /\ repos' = [list[w] EXCEPT ![repo[w]].status = goal[w]]
              /\ lost' = (lost \/ repos # list[w])
         ELSE UNCHANGED <<repos, lost>>
    /\ AfterStatus(w)
    /\ UNCHANGED <<upstream, clone, keys, stats, repo, todo, cur, text, old, counts, torn, clean>>

StatusFails(w) ==
    /\ pc[w] \in {"getStatus", "setStatus"}
    /\ Fault
    /\ lost' = TRUE
    /\ AfterStatus(w)
    /\ UNCHANGED <<repos, upstream, clone, keys, stats, repo, todo, cur, text, old, edits, jobs, uploads, torn, clean>>

\* Mutant: the failure of a sync is not written to the list.
ToIdle(w) == /\ Goto(w, "idle")
             /\ UNCHANGED goal
ToError(w) == /\ goal' = [goal EXCEPT ![w] = "error"]
              /\ Goto(w, "getStatus")

\* ensureRepository and the two manifests.
Pull(w) ==
    /\ pc[w] = "pull"
    /\ clone' = [clone EXCEPT ![repo[w]] = upstream[repo[w]]]
    /\ \/ /\ todo' = [todo EXCEPT ![w] = Holds[repo[w]]]
          /\ Goto(w, "check")
          /\ UNCHANGED <<goal, faults>>
       \/ Fault /\ ToError(w) /\ UNCHANGED todo     \* a manifest cannot be read
    /\ UNCHANGED <<repos, upstream, keys, stats, repo, cur, text, list, old, edits, jobs, uploads,
                   torn, clean, lost>>

PullFails(w) ==
    /\ pc[w] = "pull"
    /\ Fault
    /\ ToError(w)
    /\ UNCHANGED <<repos, upstream, clone, keys, stats, repo, todo, cur, text, list, old, edits, jobs, uploads, torn, clean, lost>>

\* Mutant: nothing is compared.
NoConflict(t, r) == FALSE
checkTemplateConflict(t, r) == meta[t].repo \notin {NoRepo, r}

Readable(r) == clone[r] # 0

\* processTemplate, until it has something to store; when the metadata cannot
\* be read there is no conflict.
Check(w) ==
    /\ pc[w] = "check"
    /\ \E t \in todo[w], unread \in BOOLEAN :
         /\ IF unread THEN Fault ELSE UNCHANGED faults
         /\ todo' = [todo EXCEPT ![w] = @ \ {t}]
         /\ IF (unread \/ ~checkTemplateConflict(t, repo[w])) /\ Readable(repo[w])
              THEN /\ cur' = [cur EXCEPT ![w] = t]
                   /\ text' = [text EXCEPT ![w] = [repo |-> repo[w], v |-> clone[repo[w]]]]
                   /\ Goto(w, "content")
                   /\ Enter(w, t, ~unread)
              ELSE UNCHANGED <<cur, text, pc, torn, clean>>
    /\ UNCHANGED <<repos, upstream, clone, keys, stats, repo, goal, list, old, edits, jobs, uploads, lost>>

\* The global manifest: read, a missing one as one without maps, and written
\* back as a whole.
GetTemplateManifest == stats
UpdateTemplateManifest(manifest) == stats' = manifest

\* updateGlobalManifest replaces the statistics by those of this repository.
SetManifest(w) ==
    /\ pc[w] = "check" /\ todo[w] = {}
    /\ \/ /\ UpdateTemplateManifest([standard |-> Cardinality(Holds[repo[w]]), custom |-> 0, maps |-> TRUE])
          /\ goal' = [goal EXCEPT ![w] = "synced"]
          /\ Goto(w, "getStatus")
          /\ UNCHANGED faults
       \/ Fault /\ ToError(w) /\ UNCHANGED stats
    /\ UNCHANGED <<repos, upstream, clone, keys, repo, todo, cur, text, list, old, edits, jobs, uploads,
                   torn, clean, lost>>

\* The context of a sync expires, or the server stops: nothing more is done.
Abandon(w) ==
    /\ w \in Workers /\ pc[w] # "idle"
    /\ torn' = IF Storing(w) THEN torn \cup {cur[w]} ELSE torn
    /\ Fault
    /\ lost' = TRUE
    /\ Goto(w, "idle")
    /\ UNCHANGED <<repos, upstream, clone, keys, stats, local, edits, jobs, uploads, clean>>

-----------------------------------------------------------------------------
(* StoreTemplate and DeleteTemplate, of a sync or of the API: three writes, *)
(* any of which may fail, or be done and reported as failed.                *)

Return(a) == IF a = api THEN "idle" ELSE "check"

Answered(a, next) ==
    \/ Goto(a, next) /\ UNCHANGED <<torn, faults>>
    \/ Fault /\ Goto(a, Return(a)) /\ torn' = torn \cup {cur[a]}

\* Mutant: the metadata is written before the content.
MetaFirst(where) == IF where = "content" THEN "meta" ELSE "content"
ContentFirst(where) == where

StoreKey(a) ==
    /\ \/ /\ pc[a] = "content"
          /\ Answered(a, "meta")
       \/ /\ pc[a] = "meta"
          /\ Answered(a, "version")
    /\ IF ContentFirst(pc[a]) = "meta"
         THEN meta' = [meta EXCEPT ![cur[a]] = text[a]] /\ UNCHANGED <<standard, custom>>
         ELSE /\ UNCHANGED meta
              /\ IF IsCustom(text[a])
                   THEN custom' = [custom EXCEPT ![cur[a]] = text[a]] /\ UNCHANGED standard
                   ELSE standard' = [standard EXCEPT ![cur[a]] = text[a]] /\ UNCHANGED custom
    /\ UNCHANGED <<repos, upstream, clone, version, stats, local, edits, jobs, uploads, clean, lost>>

StoreVersion(a) ==
    /\ pc[a] = "version"
    /\ version' = [version EXCEPT ![cur[a]] = text[a]]
    /\ Goto(a, IF a = api THEN "getStats" ELSE "check")
    /\ torn' = IF clean[a] THEN torn \ {cur[a]} ELSE torn
    /\ UNCHANGED <<repos, upstream, clone, standard, custom, meta, stats, local, counts,
                   clean, lost>>

\* DeleteTemplate is only called for custom templates.
Delete(a) ==
    /\ \/ /\ pc[a] = "delContent"
          /\ custom' = [custom EXCEPT ![cur[a]] = NoText]
          /\ Answered(a, "delMeta")
          /\ UNCHANGED <<meta, version>>
       \/ /\ pc[a] = "delMeta"
          /\ meta' = [meta EXCEPT ![cur[a]] = NoText]
          /\ Answered(a, "delVersion")
          /\ UNCHANGED <<custom, version>>
       \/ /\ pc[a] = "delVersion"
          /\ version' = [version EXCEPT ![cur[a]] = NoText]
          /\ Goto(a, "getStats")
          /\ torn' = IF clean[a] THEN torn \ {cur[a]} ELSE torn
          /\ UNCHANGED <<custom, meta, faults>>
    /\ UNCHANGED <<repos, upstream, clone, standard, stats, local, edits, jobs, uploads, clean, lost>>

KeyFails(a) ==
    /\ Storing(a)
    /\ Fault
    /\ Goto(a, Return(a))
    /\ torn' = torn \cup {cur[a]}
    /\ UNCHANGED <<repos, upstream, clone, keys, stats, local, edits, jobs, uploads, clean, lost>>

-----------------------------------------------------------------------------
(* Custom templates, and the other writers.                                 *)

StoreCustomTemplate(t) ==
    /\ pc[api] = "idle" /\ uploads < MaxUploads
    /\ uploads' = uploads + 1
    /\ cur' = [cur EXCEPT ![api] = t]
    /\ text' = [text EXCEPT ![api] = [repo |-> NoRepo, v |-> uploads + 1]]
    /\ Goto(api, "content")
    /\ Enter(api, t, TRUE)
    /\ UNCHANGED <<repos, upstream, clone, keys, stats, repo, todo, goal, list, old, edits, jobs, faults, lost>>

DeleteCustomTemplate(t) ==
    /\ pc[api] = "idle" /\ uploads < MaxUploads
    /\ uploads' = uploads + 1
    /\ cur' = [cur EXCEPT ![api] = t]
    /\ Goto(api, "delContent")
    /\ Enter(api, t, TRUE)
    /\ UNCHANGED <<repos, upstream, clone, keys, stats, repo, todo, text, goal, list, old, edits, jobs, faults, lost>>

\* updateCustomTemplateManifest, an error being only logged.
GetStats ==
    /\ pc[api] = "getStats"
    /\ old' = GetTemplateManifest
    /\ \/ Goto(api, "setStats") /\ UNCHANGED faults
       \/ Fault /\ Goto(api, "idle")
    /\ UNCHANGED <<repos, upstream, clone, keys, stats, repo, todo, cur, text, goal, list, edits, jobs, uploads, torn, clean, lost>>

\* ListTemplates, of the custom ones; one that cannot be read is left out.
ListTemplates == {t \in Ids : custom[t] # NoText}

\* Counting into the maps of a manifest that has none is a panic.
SetStats ==
    /\ pc[api] = "setStats"
    /\ \E listed \in SUBSET ListTemplates, written \in BOOLEAN :
         /\ faults' = faults + Cardinality(ListTemplates \ listed) + (IF written THEN 0 ELSE 1)
         /\ faults' <= MaxFaults
         /\ IF listed # {} /\ ~old.maps
              THEN written /\ Goto(api, "panicked") /\ UNCHANGED stats
              ELSE /\ Goto(api, "idle")
                   /\ IF written THEN UpdateTemplateManifest([old EXCEPT !.custom = Cardinality(listed)])
                                 ELSE UNCHANGED stats
    /\ UNCHANGED <<repos, upstream, clone, keys, local, edits, jobs, uploads, torn, clean, lost>>

DeleteRepository(w, r) ==
    /\ pc[w] = "idle" /\ jobs < MaxJobs
    /\ ~repos[r].listed
    /\ jobs' = jobs + 1
    /\ clone' = [clone EXCEPT ![r] = 0]
    /\ UNCHANGED <<repos, upstream, keys, stats, pc, local, edits, uploads, faults, torn, clean, lost>>

\* The front end edits the list, or a repository changes upstream.
Edit(r) ==
    /\ edits < MaxEdits
    /\ edits' = edits + 1
    /\ \/ /\ repos' = [repos EXCEPT ![r].listed = FALSE]
          /\ UNCHANGED upstream
       \/ /\ repos' = [repos EXCEPT ![r].enabled = FALSE]
          /\ UNCHANGED upstream
       \/ /\ upstream' = [upstream EXCEPT ![r] = @ + 1]
          /\ UNCHANGED repos
    /\ UNCHANGED <<clone, keys, stats, pc, local, jobs, uploads, faults, torn, clean, lost>>

-----------------------------------------------------------------------------
Sync(w) ==
    \/ \E r \in Repos : BeginSync(w, r) \/ DeleteRepository(w, r)
    \/ GetStatus(w) \/ SetStatus(w) \/ StatusFails(w) \/ Pull(w) \/ PullFails(w)
    \/ Check(w) \/ SetManifest(w) \/ Abandon(w)

Next ==
    \/ \E w \in Workers : Sync(w)
    \/ \E a \in Actors : StoreKey(a) \/ StoreVersion(a) \/ KeyFails(a)
    \/ Delete(api) \/ GetStats \/ SetStats
    \/ \E t \in Ids : StoreCustomTemplate(t) \/ DeleteCustomTemplate(t)
    \/ \E r \in Repos : Edit(r)

Spec == Init /\ [][Next]_vars

-----------------------------------------------------------------------------
(* Correctness.                                                             *)

Texts == [repo : Repos, v : 1..(MaxEdits+1)] \cup [repo : {NoRepo}, v : 0..MaxUploads]

\* Every variable stays in its domain; a goroutine that stores a standard
\* template has read it.
TypeOK ==
    /\ repos \in [Repos -> [listed : BOOLEAN, enabled : BOOLEAN,
                            status : {"never_synced", "syncing", "synced", "error"}]]
    /\ clone \in [Repos -> 0..(MaxEdits+1)]
    /\ {standard, custom, meta, version} \subseteq [Ids -> Texts]
    /\ text \in [Actors -> Texts]
    /\ \A t \in Ids : custom[t].repo = NoRepo
    /\ stats.custom \in 0..Cardinality(Ids) /\ stats.maps \in BOOLEAN
    /\ torn \subseteq Ids

\* Whatever fails or overlaps, the content of a template listed as standard
\* is there to be sent: StoreTemplate writes it before the metadata.
ListedIsStored ==
    \A t \in Ids : ~IsCustom(meta[t]) => standard[t] # NoText

\* Between stores that went well, the content that the metadata points to,
\* the metadata and the version of a template belong together, whatever
\* mix of repositories and custom templates wrote them.
Busy(t) == \E a \in Actors : Storing(a) /\ cur[a] = t
KeysAgree ==
    \A t \in Ids \ torn : ~Busy(t) =>
        /\ version[t] = meta[t]
        /\ IF IsCustom(meta[t]) THEN custom[t] = meta[t] ELSE standard[t] = meta[t]

\* The keys of a template never contradict each other but where a store of it
\* was interrupted, and never in a way that lists what cannot be sent.
StoreConsistent == ListedIsStored /\ KeysAgree

\* Unless syncs overlap or fail on it, a template passes from no repository
\* to another ("Check for conflicts BEFORE processing").
FirstRepositoryKeeps ==
    [][\A t \in Ids : t \notin torn' =>
         meta[t].repo \in {NoRepo, meta'[t].repo} \/ IsCustom(meta'[t])]_vars

\* Unless a status was lost, a repository is "syncing" only while a sync of
\* it runs.
SyncingIsSynced ==
    ~lost => \A r \in Repos : repos[r].listed /\ repos[r].status = "syncing" =>
        \E w \in Workers : repo[w] = r /\ pc[w] # "idle"
=============================================================================
