------------------------- MODULE TemplateStoreProofs -------------------------
(***************************************************************************)
(* TemplateStore proved for every number of repositories, templates,       *)
(* goroutines, syncs and failures: its types, that the keys of a template  *)
(* agree, that a template keeps its repository, and that a repository      *)
(* shown as syncing is being synced.                                       *)
(***************************************************************************)
EXTENDS TemplateStore, FiniteSetTheorems, TLAPS

(***************************************************************************)
(* The inductive invariant.                                                *)
(***************************************************************************)
ApiPlaces == {"idle", "content", "meta", "version", "delContent", "delMeta", "delVersion",
              "getStats", "setStats", "panicked"}
WorkerPlaces == {"idle", "getStatus", "setStatus", "pull", "check", "content", "meta", "version"}

Statuses == {"never_synced", "syncing", "synced", "error"}
Lists == [Repos -> [listed : BOOLEAN, enabled : BOOLEAN, status : Statuses]]
Manifests == [standard : Nat, custom : 0..Cardinality(Ids), maps : BOOLEAN]
SomeIds == Ids \cup {CHOOSE t \in Ids : TRUE}

\* Where each goroutine is and what it carries there: a sync that runs has a
\* repository, one that writes its status knows which, a store has a template.
PlaceInv ==
    /\ pc \in [Actors -> ApiPlaces \cup WorkerPlaces]
    /\ pc[api] \in ApiPlaces
    /\ \A w \in Workers : pc[w] \in WorkerPlaces
    /\ repo \in [Actors -> Repos \cup {NoRepo}]
    /\ \A w \in Workers : pc[w] # "idle" => repo[w] \in Repos
    /\ goal \in [Actors -> {"none", "syncing", "synced", "error"}]
    /\ \A w \in Workers : pc[w] \in {"getStatus", "setStatus"} => goal[w] # "none"
    /\ todo \in [Actors -> SUBSET Ids]
    /\ list \in [Actors -> Lists]
    /\ cur \in [Actors -> SomeIds]
    /\ \A a \in Actors : Storing(a) => cur[a] \in Ids

\* The counters, and the values that are bounded by them.
CountInv ==
    /\ edits \in 0..MaxEdits /\ uploads \in 0..MaxUploads
    /\ upstream \in [Repos -> 1..(edits + 1)]
    /\ stats \in Manifests /\ old \in Manifests
    /\ clean \in [Actors -> BOOLEAN] /\ lost \in BOOLEAN

\* What a store has written before its next write: the content of a standard
\* template stays, whoever else writes.
ContentInv ==
    \A a \in Actors : pc[a] \in {"meta", "version"} /\ ~IsCustom(text[a]) => standard[cur[a]] # NoText

\* The content key of t that holds x.
Contains(t, x) == IF IsCustom(x) THEN custom[t] = x ELSE standard[t] = x

\* What a store or a delete that is the only one of its template has done, and
\* nobody undone, before its next write; it had no conflict and meets none.
Written(a) ==
    /\ pc[a] \in {"meta", "version"} => Contains(cur[a], text[a])
    /\ pc[a] = "version" => meta[cur[a]] = text[a]
    /\ pc[a] \in {"delMeta", "delVersion"} => custom[cur[a]] = NoText
    /\ pc[a] = "delVersion" => meta[cur[a]] = NoText
    /\ pc[a] \in {"content", "meta"} /\ ~IsCustom(text[a]) => meta[cur[a]].repo \in {NoRepo, text[a].repo}

WrittenInv == \A a \in Actors : Storing(a) /\ clean[a] => Written(a)

\* A clean store is the only one of its template, and one that is not clean
\* has left its mark on the template.
AloneInv ==
    \A a \in Actors : Storing(a) =>
        /\ cur[a] \notin torn => clean[a]
        /\ clean[a] => \A b \in Actors : b # a /\ Storing(b) => cur[b] # cur[a]

\* Unless a status was lost, a repository that is not listed in the copy a
\* sync holds is not listed any more.
ListInv ==
    ~lost => \A w \in Workers : pc[w] = "setStatus" =>
        (repos[repo[w]].listed => list[w][repo[w]].listed)

TypeInv == TypeOK /\ PlaceInv /\ CountInv

KeysInv == ContentInv /\ ListedIsStored /\ AloneInv /\ WrittenInv /\ KeysAgree

StoreInv == TypeInv /\ KeysInv /\ ListInv /\ SyncingIsSynced
-----------------------------------------------------------------------------
(* Types.                                                                   *)

\* What the constants of the model are made of.
LEMMA Constants ==
    /\ api \in Actors /\ Workers \subseteq Actors /\ api \notin Workers
    /\ \A a \in Actors : a # api => a \in Workers
    /\ NoText \in Texts /\ IsCustom(NoText)
    /\ FirstList \in Lists
    /\ Cardinality(Ids) \in Nat
    /\ \A r \in Repos : Holds[r] \subseteq Ids /\ Cardinality(Holds[r]) \in Nat
    /\ \A listed \in SUBSET Ids : Cardinality(listed) \in 0..Cardinality(Ids)
<1>1. /\ IsFiniteSet(Ids) /\ MaxEdits \in Nat /\ MaxUploads \in Nat
      /\ api \notin Workers /\ \A r \in Repos : Holds[r] \subseteq Ids
  BY StoreAssumption
<1>2. \A s \in SUBSET Ids : Cardinality(s) \in Nat /\ Cardinality(s) \in 0..Cardinality(Ids)
  <2> TAKE s \in SUBSET Ids
  <2>1. IsFiniteSet(s) /\ Cardinality(s) <= Cardinality(Ids)
    BY <1>1, FS_Subset
  <2>2. Cardinality(s) \in Nat /\ Cardinality(Ids) \in Nat
    BY <1>1, <2>1, FS_CardinalityType
  <2> QED BY <2>1, <2>2
<1>3. NoText \in Texts /\ IsCustom(NoText)
  BY <1>1 DEF NoText, Texts, IsCustom
<1>4. FirstList \in Lists
  BY DEF FirstList, Lists, Statuses
<1>5. Cardinality(Ids) \in Nat
  BY <1>1, FS_CardinalityType
<1> QED BY <1>1, <1>2, <1>3, <1>4, <1>5 DEF Actors

\* A store or delete that begins keeps the ghost of the clean stores a function.
LEMMA EntersClean ==
    \A a \in Actors : \A t, sound : Enter(a, t, sound) => clean' \in [Actors -> BOOLEAN]
BY Zenon DEF Enter

LEMMA TypesInit == Init => TypeInv
<1> SUFFICES ASSUME Init PROVE TypeInv
  OBVIOUS
<1>1. MaxEdits \in Nat /\ MaxUploads \in Nat
  BY StoreAssumption
<1>2. TypeOK
  BY Constants, <1>1 DEF Init, TypeOK, Lists, Statuses, NoText
<1>3. PlaceInv
  BY Constants DEF Init, PlaceInv, ApiPlaces, WorkerPlaces, Storing, SomeIds
<1>4. CountInv
  <2>1. stats \in Manifests /\ old \in Manifests
    BY Constants DEF Init, Manifests
  <2>2. upstream \in [Repos -> 1..(edits + 1)] /\ edits \in 0..MaxEdits /\ uploads \in 0..MaxUploads
    BY <1>1 DEF Init
  <2>3. clean \in [Actors -> BOOLEAN] /\ lost \in BOOLEAN
    BY DEF Init
  <2> QED BY <2>1, <2>2, <2>3 DEF CountInv
<1> QED BY <1>2, <1>3, <1>4 DEF TypeInv

LEMMA TypesStep ==
    ASSUME TypeInv, [Next]_vars
    PROVE  TypeInv'
<1> USE DEF TypeInv
<1>0. /\ MaxEdits \in Nat /\ MaxUploads \in Nat /\ NoRepo \notin Repos
  BY StoreAssumption
<1>1. ASSUME NEW w \in Workers, NEW r \in Repos, BeginSync(w, r) PROVE TypeInv'
  <2>1. TypeOK'
    BY <1>1 DEF BeginSync, TypeOK, keys
  <2>2. PlaceInv'
    BY <1>1, Constants DEF BeginSync, PlaceInv, ApiPlaces, WorkerPlaces, Storing, Goto
  <2>3. CountInv'
    BY <1>1 DEF BeginSync, CountInv
  <2> QED BY <2>1, <2>2, <2>3
<1>2. ASSUME NEW w \in Workers, NEW r \in Repos, DeleteRepository(w, r) PROVE TypeInv'
  <2>1. TypeOK'
    BY <1>0, <1>2 DEF DeleteRepository, TypeOK, keys, local
  <2>2. PlaceInv'
    BY <1>2 DEF DeleteRepository, PlaceInv, local, Storing
  <2>3. CountInv'
    BY <1>2 DEF DeleteRepository, CountInv, local
  <2> QED BY <2>1, <2>2, <2>3
<1>3. ASSUME NEW w \in Workers, GetStatus(w) PROVE TypeInv'
  <2>1. TypeOK'
    BY <1>3 DEF GetStatus, TypeOK, keys
  <2>2. PlaceInv'
    BY <1>3, Constants DEF GetStatus, PlaceInv, ApiPlaces, WorkerPlaces, Storing, Goto, TypeOK, Lists, Statuses
  <2>3. CountInv'
    BY <1>3 DEF GetStatus, CountInv, counts
  <2> QED BY <2>1, <2>2, <2>3
<1>4. ASSUME NEW w \in Workers, SetStatus(w) PROVE TypeInv'
  <2>1. TypeOK'
    <3>1. /\ list[w] \in Lists /\ repo[w] \in Repos /\ goal[w] \in Statuses /\ repos \in Lists
      BY <1>4, Constants DEF SetStatus, TypeOK, PlaceInv, Lists, Statuses
    <3>2. repos' \in {repos, [list[w] EXCEPT ![repo[w]].status = goal[w]]}
      BY <1>4 DEF SetStatus
    <3>3. repos' \in Lists
      BY <3>1, <3>2 DEF Lists
    <3> QED BY <1>4, <3>3 DEF SetStatus, TypeOK, Lists, Statuses, keys
  <2>2. PlaceInv'
    BY <1>4, Constants DEF SetStatus, AfterStatus, PlaceInv, ApiPlaces, WorkerPlaces, Storing, Goto
  <2>3. CountInv'
    BY <1>4 DEF SetStatus, CountInv, counts
  <2> QED BY <2>1, <2>2, <2>3
<1>5. ASSUME NEW w \in Workers, StatusFails(w) PROVE TypeInv'
  <2>1. TypeOK'
    BY <1>5 DEF StatusFails, TypeOK, keys
  <2>2. PlaceInv'
    BY <1>5, Constants DEF StatusFails, AfterStatus, PlaceInv, ApiPlaces, WorkerPlaces, Storing, Goto
  <2>3. CountInv'
    BY <1>5 DEF StatusFails, CountInv
  <2> QED BY <2>1, <2>2, <2>3
<1>6. ASSUME NEW w \in Workers, Pull(w) PROVE TypeInv'
  <2>1. TypeOK'
    BY <1>0, <1>6, Constants DEF Pull, TypeOK, PlaceInv, CountInv, keys
  <2>2. PlaceInv'
    BY <1>6, Constants DEF Pull, ToError, PlaceInv, ApiPlaces, WorkerPlaces, Storing, Goto
  <2>3. CountInv'
    BY <1>6 DEF Pull, CountInv
  <2> QED BY <2>1, <2>2, <2>3
<1>7. ASSUME NEW w \in Workers, PullFails(w) PROVE TypeInv'
  <2>1. TypeOK'
    BY <1>7 DEF PullFails, TypeOK, keys
  <2>2. PlaceInv'
    BY <1>7, Constants DEF PullFails, ToError, PlaceInv, ApiPlaces, WorkerPlaces, Storing, Goto
  <2>3. CountInv'
    BY <1>7 DEF PullFails, CountInv
  <2> QED BY <2>1, <2>2, <2>3
<1>8. ASSUME NEW w \in Workers, Check(w) PROVE TypeInv'
  <2>1. TypeOK'
    <3>1. repo[w] \in Repos /\ todo[w] \subseteq Ids
      BY <1>8, Constants DEF Check, PlaceInv
    <3>2. Readable(repo[w]) => [repo |-> repo[w], v |-> clone[repo[w]]] \in Texts
      BY <1>0, <3>1 DEF Readable, TypeOK, Texts
    <3>3. text' \in [Actors -> Texts] /\ torn' \subseteq Ids
      BY <1>8, <3>1, <3>2 DEF Check, Enter, TypeOK
    <3>4. UNCHANGED <<repos, clone, standard, custom, meta, version, stats>>
      BY <1>8 DEF Check, keys
    <3> QED BY <3>3, <3>4 DEF TypeOK
  <2>2. PlaceInv'
    BY <1>8, Constants DEF Check, PlaceInv, ApiPlaces, WorkerPlaces, SomeIds, Storing, Goto
  <2>3. CountInv'
    BY <1>8 DEF Check, Enter, CountInv
  <2> QED BY <2>1, <2>2, <2>3
<1>9. ASSUME NEW w \in Workers, SetManifest(w) PROVE TypeInv'
  <2>0. stats' \in Manifests
    <3>1. repo[w] \in Repos
      BY <1>9, Constants DEF SetManifest, PlaceInv
    <3>2. stats' \in {stats, [standard |-> Cardinality(Holds[repo[w]]), custom |-> 0, maps |-> TRUE]}
      BY <1>9 DEF SetManifest, UpdateTemplateManifest
    <3>3. Cardinality(Holds[repo[w]]) \in Nat /\ 0 \in 0..Cardinality(Ids)
      BY <3>1, Constants
    <3>4. [standard |-> Cardinality(Holds[repo[w]]), custom |-> 0, maps |-> TRUE] \in Manifests
      BY <3>3 DEF Manifests
    <3> QED BY <3>2, <3>4 DEF CountInv
  <2>1. TypeOK'
    BY <1>9, <2>0 DEF SetManifest, TypeOK, Manifests, keys
  <2>2. PlaceInv'
    BY <1>9, Constants DEF SetManifest, ToError, PlaceInv, ApiPlaces, WorkerPlaces, Storing, Goto
  <2>3. CountInv'
    BY <1>9, <2>0 DEF SetManifest, CountInv
  <2> QED BY <2>1, <2>2, <2>3
<1>10. ASSUME NEW w \in Workers, Abandon(w) PROVE TypeInv'
  <2>1. TypeOK'
    BY <1>10, Constants DEF Abandon, TypeOK, PlaceInv, keys, local
  <2>2. PlaceInv'
    BY <1>10, Constants DEF Abandon, PlaceInv, ApiPlaces, WorkerPlaces, Storing, Goto, local
  <2>3. CountInv'
    BY <1>10 DEF Abandon, CountInv, local
  <2> QED BY <2>1, <2>2, <2>3
<1>11. ASSUME NEW a \in Actors, StoreKey(a) PROVE TypeInv'
  <2>0. a \in Actors /\ Storing(a) /\ cur[a] \in Ids /\ text[a] \in Texts
    BY <1>11 DEF StoreKey, Storing, PlaceInv, TypeOK
  <2>1. TypeOK'
    <3>1. torn' \subseteq Ids
      BY <1>11, <2>0 DEF StoreKey, Answered, TypeOK
    <3> QED BY <1>11, <2>0, <3>1 DEF StoreKey, ContentFirst, IsCustom, TypeOK, local
  <2>2. PlaceInv'
    BY <1>11, Constants DEF StoreKey, Answered, Return, PlaceInv, ApiPlaces, WorkerPlaces, Storing, Goto, local
  <2>3. CountInv'
    BY <1>11 DEF StoreKey, CountInv, local
  <2> QED BY <2>1, <2>2, <2>3
<1>12. ASSUME NEW a \in Actors, StoreVersion(a) PROVE TypeInv'
  <2>1. TypeOK'
    BY <1>12 DEF StoreVersion, TypeOK, local
  <2>2. PlaceInv'
    BY <1>12, Constants DEF StoreVersion, PlaceInv, ApiPlaces, WorkerPlaces, Storing, Goto, local
  <2>3. CountInv'
    BY <1>12 DEF StoreVersion, CountInv, local, counts
  <2> QED BY <2>1, <2>2, <2>3
<1>13. ASSUME NEW a \in Actors, KeyFails(a) PROVE TypeInv'
  <2>1. TypeOK'
    BY <1>13 DEF KeyFails, TypeOK, PlaceInv, keys, local
  <2>2. PlaceInv'
    BY <1>13, Constants DEF KeyFails, Return, PlaceInv, ApiPlaces, WorkerPlaces, Storing, Goto, local
  <2>3. CountInv'
    BY <1>13 DEF KeyFails, CountInv, local
  <2> QED BY <2>1, <2>2, <2>3
<1>14. ASSUME Delete(api) PROVE TypeInv'
  <2>0. Storing(api) /\ cur[api] \in Ids
    BY <1>14, Constants DEF Delete, Storing, PlaceInv
  <2>1. TypeOK'
    <3>1. torn' \subseteq Ids
      BY <1>14, <2>0 DEF Delete, Answered, TypeOK
    <3>2. custom' \in [Ids -> Texts] /\ \A t \in Ids : custom'[t].repo = NoRepo
      BY <1>14, <2>0, Constants DEF Delete, IsCustom, TypeOK
    <3>3. {meta', version', standard'} \subseteq [Ids -> Texts]
      BY <1>14, <2>0, Constants DEF Delete, TypeOK
    <3> QED BY <1>14, <3>1, <3>2, <3>3 DEF Delete, TypeOK, local
  <2>2. PlaceInv'
    BY <1>14, Constants DEF Delete, Answered, Return, PlaceInv, ApiPlaces, WorkerPlaces, Storing, Goto, local
  <2>3. CountInv'
    BY <1>14 DEF Delete, CountInv, local
  <2> QED BY <2>1, <2>2, <2>3
<1>15. ASSUME NEW t \in Ids, StoreCustomTemplate(t) PROVE TypeInv'
  <2>1. TypeOK'
    BY <1>0, <1>15, Constants DEF StoreCustomTemplate, Enter, TypeOK, CountInv, Texts, keys
  <2>2. PlaceInv'
    BY <1>15, Constants DEF StoreCustomTemplate, PlaceInv, ApiPlaces, WorkerPlaces, SomeIds, Storing, Goto
  <2>3. CountInv'
    <3>1. clean' \in [Actors -> BOOLEAN]
      <4>1. api \in Actors /\ Enter(api, t, TRUE)
        BY <1>15, Constants DEF StoreCustomTemplate
      <4> QED BY <4>1, EntersClean
    <3> QED BY <1>0, <1>15, <3>1 DEF StoreCustomTemplate, CountInv
  <2> QED BY <2>1, <2>2, <2>3
<1>16. ASSUME NEW t \in Ids, DeleteCustomTemplate(t) PROVE TypeInv'
  <2>1. TypeOK'
    BY <1>16 DEF DeleteCustomTemplate, Enter, TypeOK, keys
  <2>2. PlaceInv'
    BY <1>16, Constants DEF DeleteCustomTemplate, PlaceInv, ApiPlaces, WorkerPlaces, SomeIds, Storing, Goto
  <2>3. CountInv'
    <3>1. clean' \in [Actors -> BOOLEAN]
      <4>1. api \in Actors /\ Enter(api, t, TRUE)
        BY <1>16, Constants DEF DeleteCustomTemplate
      <4> QED BY <4>1, EntersClean
    <3> QED BY <1>0, <1>16, <3>1 DEF DeleteCustomTemplate, CountInv
  <2> QED BY <2>1, <2>2, <2>3
<1>17. ASSUME GetStats PROVE TypeInv'
  <2>1. TypeOK'
    BY <1>17 DEF GetStats, TypeOK, keys
  <2>2. PlaceInv'
    BY <1>17, Constants DEF GetStats, PlaceInv, ApiPlaces, WorkerPlaces, Storing, Goto
  <2>3. CountInv'
    BY <1>17 DEF GetStats, GetTemplateManifest, CountInv
  <2> QED BY <2>1, <2>2, <2>3
<1>18. ASSUME SetStats PROVE TypeInv'
  <2>0. stats' \in Manifests
    <3>1. PICK listed \in SUBSET ListTemplates : stats' \in {stats, [old EXCEPT !.custom = Cardinality(listed)]}
      BY <1>18 DEF SetStats, UpdateTemplateManifest
    <3>2. Cardinality(listed) \in 0..Cardinality(Ids)
      BY Constants DEF ListTemplates
    <3> QED BY <3>1, <3>2 DEF CountInv, Manifests
  <2>1. TypeOK'
    BY <1>18, <2>0 DEF SetStats, TypeOK, keys, local, Manifests
  <2>2. PlaceInv'
    BY <1>18, Constants DEF SetStats, PlaceInv, ApiPlaces, WorkerPlaces, Storing, Goto, local
  <2>3. CountInv'
    BY <1>18, <2>0 DEF SetStats, CountInv, local
  <2> QED BY <2>1, <2>2, <2>3
<1>19. ASSUME NEW r \in Repos, Edit(r) PROVE TypeInv'
  <2>1. TypeOK'
    BY <1>19 DEF Edit, TypeOK, keys, local
  <2>2. PlaceInv'
    BY <1>19 DEF Edit, PlaceInv, local, Storing
  <2>3. CountInv'
    BY <1>0, <1>19 DEF Edit, CountInv, local
  <2> QED BY <2>1, <2>2, <2>3
<1>20. CASE UNCHANGED vars
  BY <1>20 DEF vars, keys, local, counts, TypeOK, PlaceInv, CountInv, Storing
<1> QED
  BY <1>1, <1>2, <1>3, <1>4, <1>5, <1>6, <1>7, <1>8, <1>9, <1>10, <1>11, <1>12, <1>13, <1>14,
     <1>15, <1>16, <1>17, <1>18, <1>19, <1>20 DEF Next, Sync
-----------------------------------------------------------------------------
(* The keys.                                                                *)

\* The keys of t belong together.
Agree(t) == version[t] = meta[t] /\ Contains(t, meta[t])

LEMMA KeysAgreeMeaning == KeysAgree <=> \A t \in Ids \ torn : ~Busy(t) => Agree(t)
BY DEF KeysAgree, Agree, Contains

\* A step in which nobody stores, begins to or ends.
LEMMA OtherSteps ==
    ASSUME TypeInv, KeysInv, UNCHANGED <<keys, cur, text, torn, clean>>,
           \A a \in Actors : pc'[a] = pc[a] \/ (~Storing(a) /\ ~Storing(a)')
    PROVE  KeysInv'
<1>1. \A a \in Actors : (Storing(a)' <=> Storing(a)) /\ (Storing(a) => pc'[a] = pc[a])
  BY DEF Storing
<1>2. UNCHANGED <<standard, custom, meta, version, cur, text, torn, clean>>
  BY DEF keys
<1>3. ContentInv' /\ ListedIsStored'
  BY <1>1, <1>2 DEF KeysInv, ContentInv, ListedIsStored, IsCustom, Storing
<1>4. AloneInv'
  BY <1>1, <1>2 DEF KeysInv, AloneInv
<1>5. WrittenInv'
  BY <1>1, <1>2 DEF KeysInv, WrittenInv, Written, Contains, IsCustom
<1>6. KeysAgree'
  BY <1>1, <1>2 DEF KeysInv, KeysAgree, Busy, IsCustom
<1> QED BY <1>3, <1>4, <1>5, <1>6 DEF KeysInv

\* A store or a delete of t begins.
LEMMA StoreBegins ==
    ASSUME TypeInv, KeysInv, UNCHANGED keys,
           NEW a \in Actors, NEW t \in Ids, NEW sound \in BOOLEAN, Enter(a, t, sound),
           ~Storing(a), pc' \in {[pc EXCEPT ![a] = "content"], [pc EXCEPT ![a] = "delContent"]},
           cur' = [cur EXCEPT ![a] = t],
           \A b \in Actors : b # a => text'[b] = text[b],
           sound /\ pc'[a] = "content" /\ ~IsCustom(text'[a]) => meta[t].repo \in {NoRepo, text'[a].repo}
    PROVE  KeysInv'
<1>1. /\ \A b \in Actors : b # a => pc'[b] = pc[b] /\ cur'[b] = cur[b]
      /\ pc'[a] \in {"content", "delContent"} /\ cur'[a] = t
  BY DEF TypeInv, PlaceInv
<1>2. /\ \A b \in Actors : b # a => (Storing(b)' <=> Storing(b))
      /\ Storing(a)'
  BY <1>1 DEF Storing
<1>3. UNCHANGED <<standard, custom, meta, version>>
  BY DEF keys
<1>4. /\ torn \subseteq torn' /\ torn' \subseteq torn \cup {t}
      /\ \A b \in Actors : b # a /\ clean'[b] => clean[b] /\ ~(Storing(b) /\ cur[b] = t)
      /\ \A b \in Actors : b # a /\ clean[b] /\ ~(Storing(b) /\ cur[b] = t) => clean'[b]
  BY DEF Enter, Others
<1>5. /\ clean'[a] => sound /\ \A b \in Actors : b # a /\ Storing(b) => cur[b] # t
      /\ t \notin torn' => clean'[a] /\ \A b \in Actors : b # a /\ Storing(b) => cur[b] # t
  BY Zenon DEF Enter, Others
<1>6. ContentInv' /\ ListedIsStored'
  BY <1>1, <1>3 DEF KeysInv, ContentInv, ListedIsStored, IsCustom
<1>7. AloneInv'
  <2> SUFFICES ASSUME NEW b \in Actors, Storing(b)'
               PROVE  /\ cur'[b] \notin torn' => clean'[b]
                      /\ clean'[b] => \A c \in Actors : c # b /\ Storing(c)' => cur'[c] # cur'[b]
    BY DEF AloneInv
  <2>1. CASE b = a
    BY <2>1, <1>1, <1>2, <1>5
  <2>2. CASE b # a
    <3>1. cur'[b] \notin torn' => clean'[b]
      BY <2>2, <1>1, <1>2, <1>4, <1>5 DEF KeysInv, AloneInv
    <3>2. ASSUME clean'[b], NEW c \in Actors, c # b, Storing(c)' PROVE cur'[c] # cur'[b]
      BY <2>2, <3>2, <1>1, <1>2, <1>4 DEF KeysInv, AloneInv
    <3> QED BY <3>1, <3>2
  <2> QED BY <2>1, <2>2
<1>8. WrittenInv'
  <2> SUFFICES ASSUME NEW b \in Actors, Storing(b)', clean'[b] PROVE Written(b)'
    BY DEF WrittenInv
  <2>1. CASE b = a
    BY <2>1, <1>1, <1>3, <1>5 DEF Written, IsCustom
  <2>2. CASE b # a
    <3>1. Written(b)
      BY <2>2, <1>2, <1>4 DEF KeysInv, WrittenInv
    <3> QED BY <2>2, <3>1, <1>1, <1>3 DEF Written, Contains, IsCustom
  <2> QED BY <2>1, <2>2
<1>9. KeysAgree'
  <2> SUFFICES ASSUME NEW s \in Ids, s \notin torn', ~Busy(s)' PROVE Agree(s)'
    BY DEF KeysAgree, Agree, Contains
  <2>1. s # t
    BY <1>1, <1>2 DEF Busy
  <2>2. s \notin torn /\ ~Busy(s)
    BY <2>1, <1>1, <1>2, <1>4 DEF Busy
  <2>3. Agree(s)
    BY <2>2, KeysAgreeMeaning DEF KeysInv
  <2> QED BY <2>3, <1>3 DEF Agree, Contains, IsCustom
<1> QED BY <1>6, <1>7, <1>8, <1>9 DEF KeysInv

\* A step of the store or delete that a is at: others see it only in the keys
\* of its template, and what it leaves there is as it should be.
LEMMA StoreMoves ==
    ASSUME TypeInv, KeysInv, NEW a \in Actors, Storing(a),
           UNCHANGED <<cur, text, clean>>,
           \A b \in Actors : b # a => pc'[b] = pc[b],
           \A t \in Ids : t # cur[a] =>
               /\ standard'[t] = standard[t] /\ custom'[t] = custom[t]
               /\ meta'[t] = meta[t] /\ version'[t] = version[t]
               /\ t \in torn <=> t \in torn',
           cur[a] \in torn => cur[a] \in torn' \/ (clean[a] /\ ~Storing(a)'),
           standard[cur[a]] # NoText => standard'[cur[a]] # NoText,
           pc'[a] \in {"meta", "version"} /\ ~IsCustom(text[a]) => standard'[cur[a]] # NoText,
           ~IsCustom(meta'[cur[a]]) => standard'[cur[a]] # NoText,
           Storing(a)' /\ clean[a] => Written(a)',
           ~Storing(a)' /\ clean[a] /\ cur[a] \notin torn' => Agree(cur[a])'
    PROVE  KeysInv'
<1>1. cur[a] \in Ids /\ \A b \in Actors : Storing(b) => cur[b] \in Ids
  BY DEF TypeInv, PlaceInv
<1>2. \A b \in Actors : b # a => (Storing(b)' <=> Storing(b))
  BY DEF Storing
<1>3. \A b \in Actors : b # a /\ Storing(b) /\ clean[b] => cur[b] # cur[a]
  BY DEF KeysInv, AloneInv
<1>4. ContentInv'
  BY <1>1 DEF KeysInv, ContentInv, IsCustom, Storing
<1>5. ListedIsStored'
  BY <1>1 DEF KeysInv, ListedIsStored, IsCustom
<1>6. AloneInv'
  <2> SUFFICES ASSUME NEW b \in Actors, Storing(b)'
               PROVE  /\ cur[b] \notin torn' => clean[b]
                      /\ clean[b] => \A c \in Actors : c # b /\ Storing(c)' => cur[c] # cur[b]
    BY DEF AloneInv
  <2>1. Storing(b) /\ \A c \in Actors : Storing(c)' => Storing(c)
    BY <1>2
  <2>2. cur[b] \notin torn' => clean[b]
    <3>1. CASE b = a
      BY <3>1, <2>1, <1>1 DEF KeysInv, AloneInv
    <3>2. CASE b # a
      BY <3>2, <2>1, <1>1 DEF KeysInv, AloneInv
    <3> QED BY <3>1, <3>2
  <2>3. clean[b] => \A c \in Actors : c # b /\ Storing(c)' => cur[c] # cur[b]
    BY <2>1 DEF KeysInv, AloneInv
  <2> QED BY <2>2, <2>3
<1>7. WrittenInv'
  <2> SUFFICES ASSUME NEW b \in Actors, Storing(b)', clean[b] PROVE Written(b)'
    BY DEF WrittenInv
  <2>1. CASE b = a
    BY <2>1
  <2>2. CASE b # a
    <3>1. Written(b) /\ cur[b] # cur[a] /\ cur[b] \in Ids
      BY <2>2, <1>1, <1>2, <1>3 DEF KeysInv, WrittenInv
    <3> QED BY <2>2, <3>1 DEF Written, Contains, IsCustom
  <2> QED BY <2>1, <2>2
<1>8. KeysAgree'
  <2> SUFFICES ASSUME NEW s \in Ids, s \notin torn', ~Busy(s)' PROVE Agree(s)'
    BY DEF KeysAgree, Agree, Contains
  <2>1. CASE s = cur[a]
    <3>1. ~Storing(a)'
      BY <2>1 DEF Busy
    <3>2. clean[a]
      BY <2>1 DEF KeysInv, AloneInv
    <3> QED BY <2>1, <3>1, <3>2
  <2>2. CASE s # cur[a]
    <3>1. s \notin torn /\ ~Busy(s)
      BY <2>2, <1>2 DEF Busy
    <3>2. Agree(s)
      BY <3>1, KeysAgreeMeaning DEF KeysInv
    <3> QED BY <2>2, <3>2 DEF Agree, Contains, IsCustom
  <2> QED BY <2>1, <2>2
<1> QED BY <1>4, <1>5, <1>6, <1>7, <1>8 DEF KeysInv

LEMMA KeysInit == Init => KeysInv
<1> SUFFICES ASSUME Init PROVE KeysInv
  OBVIOUS
<1>1. \A a \in Actors : ~Storing(a) /\ pc[a] = "idle"
  BY DEF Init, Storing
<1>2. \A t \in Ids : IsCustom(meta[t]) /\ Agree(t)
  BY DEF Init, IsCustom, NoText, Agree, Contains
<1>3. ContentInv /\ AloneInv /\ WrittenInv
  BY <1>1 DEF ContentInv, AloneInv, WrittenInv
<1>4. ListedIsStored /\ KeysAgree
  BY <1>2, KeysAgreeMeaning DEF ListedIsStored
<1> QED BY <1>3, <1>4 DEF KeysInv

LEMMA KeysStep ==
    ASSUME TypeInv, KeysInv, [Next]_vars
    PROVE  KeysInv'
<1>0. /\ pc \in [Actors -> ApiPlaces \cup WorkerPlaces] /\ api \in Actors
      /\ \A w \in Workers : w \in Actors /\ w # api /\ pc[w] \in WorkerPlaces
      /\ \A a \in Actors : Storing(a) => cur[a] \in Ids /\ text[a] \in Texts
      /\ repo \in [Actors -> Repos \cup {NoRepo}] /\ cur \in [Actors -> SomeIds] /\ text \in [Actors -> Texts]
      /\ standard \in [Ids -> Texts] /\ custom \in [Ids -> Texts]
      /\ meta \in [Ids -> Texts] /\ version \in [Ids -> Texts]
  BY Constants DEF TypeInv, PlaceInv, TypeOK
<1>1. ASSUME NEW w \in Workers, NEW r \in Repos, BeginSync(w, r) PROVE KeysInv'
  <2>1. UNCHANGED <<keys, cur, text, torn, clean>>
    BY <1>1 DEF BeginSync
  <2>2. \A a \in Actors : pc'[a] = pc[a] \/ (~Storing(a) /\ ~Storing(a)')
    BY <1>0, <1>1 DEF BeginSync, Goto, Storing
  <2> QED BY <2>1, <2>2, OtherSteps
<1>2. ASSUME NEW w \in Workers, NEW r \in Repos, DeleteRepository(w, r) PROVE KeysInv'
  BY <1>2, OtherSteps DEF DeleteRepository, local
<1>3. ASSUME NEW w \in Workers, GetStatus(w) PROVE KeysInv'
  <2>1. UNCHANGED <<keys, cur, text, torn, clean>>
    BY <1>3 DEF GetStatus
  <2>2. \A a \in Actors : pc'[a] = pc[a] \/ (~Storing(a) /\ ~Storing(a)')
    BY <1>0, <1>3 DEF GetStatus, Goto, Storing
  <2> QED BY <2>1, <2>2, OtherSteps
<1>4. ASSUME NEW w \in Workers, SetStatus(w) PROVE KeysInv'
  <2>1. UNCHANGED <<keys, cur, text, torn, clean>>
    BY <1>4 DEF SetStatus
  <2>2. \A a \in Actors : pc'[a] = pc[a] \/ (~Storing(a) /\ ~Storing(a)')
    BY <1>0, <1>4 DEF SetStatus, AfterStatus, Goto, Storing
  <2> QED BY <2>1, <2>2, OtherSteps
<1>5. ASSUME NEW w \in Workers, StatusFails(w) PROVE KeysInv'
  <2>1. UNCHANGED <<keys, cur, text, torn, clean>>
    BY <1>5 DEF StatusFails
  <2>2. \A a \in Actors : pc'[a] = pc[a] \/ (~Storing(a) /\ ~Storing(a)')
    BY <1>0, <1>5 DEF StatusFails, AfterStatus, Goto, Storing
  <2> QED BY <2>1, <2>2, OtherSteps
<1>6. ASSUME NEW w \in Workers, Pull(w) PROVE KeysInv'
  <2>1. UNCHANGED <<keys, cur, text, torn, clean>>
    BY <1>6 DEF Pull
  <2>2. \A a \in Actors : pc'[a] = pc[a] \/ (~Storing(a) /\ ~Storing(a)')
    BY <1>0, <1>6 DEF Pull, ToError, Goto, Storing
  <2> QED BY <2>1, <2>2, OtherSteps
<1>7. ASSUME NEW w \in Workers, PullFails(w) PROVE KeysInv'
  <2>1. UNCHANGED <<keys, cur, text, torn, clean>>
    BY <1>7 DEF PullFails
  <2>2. \A a \in Actors : pc'[a] = pc[a] \/ (~Storing(a) /\ ~Storing(a)')
    BY <1>0, <1>7 DEF PullFails, ToError, Goto, Storing
  <2> QED BY <2>1, <2>2, OtherSteps
<1>8. ASSUME NEW w \in Workers, Check(w) PROVE KeysInv'
  <2>1. PICK t \in todo[w], unread \in BOOLEAN :
          IF (unread \/ ~checkTemplateConflict(t, repo[w])) /\ Readable(repo[w])
            THEN /\ cur' = [cur EXCEPT ![w] = t]
                 /\ text' = [text EXCEPT ![w] = [repo |-> repo[w], v |-> clone[repo[w]]]]
                 /\ Goto(w, "content")
                 /\ Enter(w, t, ~unread)
            ELSE UNCHANGED <<cur, text, pc, torn, clean>>
    BY <1>8 DEF Check
  <2>2. UNCHANGED keys /\ pc[w] = "check" /\ w \in Actors
    BY <1>0, <1>8 DEF Check
  <2>3. CASE (unread \/ ~checkTemplateConflict(t, repo[w])) /\ Readable(repo[w])
    <3>1. t \in Ids
      BY <2>1, <2>2 DEF TypeInv, PlaceInv
    <3>2. /\ Enter(w, t, ~unread) /\ (~unread) \in BOOLEAN
          /\ cur' = [cur EXCEPT ![w] = t] /\ pc' = [pc EXCEPT ![w] = "content"]
          /\ text' = [text EXCEPT ![w] = [repo |-> repo[w], v |-> clone[repo[w]]]]
      BY <2>1, <2>3 DEF Goto
    <3>3. \A b \in Actors : b # w => text'[b] = text[b]
      BY <1>0, <3>2
    <3>4. text'[w].repo = repo[w]
      BY <1>0, <2>2, <3>2
    <3>5. ~unread => meta[t].repo \in {NoRepo, text'[w].repo}
      BY <2>3, <3>4 DEF checkTemplateConflict
    <3> QED BY <2>2, <3>1, <3>2, <3>3, <3>5, StoreBegins DEF Storing
  <2>4. CASE ~((unread \/ ~checkTemplateConflict(t, repo[w])) /\ Readable(repo[w]))
    BY <2>1, <2>2, <2>4, OtherSteps
  <2> QED BY <2>3, <2>4
<1>9. ASSUME NEW w \in Workers, SetManifest(w) PROVE KeysInv'
  <2>1. UNCHANGED <<keys, cur, text, torn, clean>>
    BY <1>9 DEF SetManifest
  <2>2. \A a \in Actors : pc'[a] = pc[a] \/ (~Storing(a) /\ ~Storing(a)')
    BY <1>0, <1>9 DEF SetManifest, ToError, Goto, Storing
  <2> QED BY <2>1, <2>2, OtherSteps
<1>10. ASSUME NEW w \in Workers, Abandon(w) PROVE KeysInv'
  <2>1. UNCHANGED <<keys, cur, text, clean>> /\ w \in Actors /\ pc' = [pc EXCEPT ![w] = "idle"]
    BY <1>0, <1>10 DEF Abandon, Goto, local
  <2>2. ~Storing(w)' /\ pc'[w] = "idle" /\ \A b \in Actors : b # w => pc'[b] = pc[b]
    BY <1>0, <2>1 DEF Storing
  <2>3. CASE Storing(w)
    <3>1. torn' = torn \cup {cur[w]}
      BY <1>10, <2>3 DEF Abandon
    <3> QED BY <2>1, <2>2, <2>3, <3>1, StoreMoves DEF keys, KeysInv, ListedIsStored, TypeInv, PlaceInv
  <2>4. CASE ~Storing(w)
    <3>1. torn' = torn
      BY <1>10, <2>4 DEF Abandon
    <3> QED BY <2>1, <2>2, <2>4, <3>1, OtherSteps
  <2> QED BY <2>3, <2>4
<1>11. ASSUME NEW a \in Actors, StoreKey(a) PROVE KeysInv'
  <2>1. /\ Storing(a) /\ pc[a] \in {"content", "meta"} /\ UNCHANGED <<version, cur, text, clean>>
        /\ cur[a] \in Ids /\ text[a] \in Texts
    BY <1>0, <1>11 DEF StoreKey, Storing, local
  <2>2. \/ pc' = [pc EXCEPT ![a] = IF pc[a] = "content" THEN "meta" ELSE "version"] /\ torn' = torn
        \/ /\ pc' = [pc EXCEPT ![a] = Return(a)] /\ Return(a) \in {"idle", "check"}
           /\ torn' = torn \cup {cur[a]}
    BY <1>11 DEF StoreKey, Answered, Goto, Return
  <2>3. /\ \A b \in Actors : b # a => pc'[b] = pc[b]
        /\ \/ pc'[a] = (IF pc[a] = "content" THEN "meta" ELSE "version") /\ torn' = torn
           \/ pc'[a] \in {"idle", "check"} /\ ~Storing(a)' /\ torn' = torn \cup {cur[a]}
    BY <1>0, <2>2 DEF Storing
  <2>4. CASE pc[a] = "content"
    <3>1. /\ UNCHANGED meta
          /\ IF IsCustom(text[a])
               THEN custom' = [custom EXCEPT ![cur[a]] = text[a]] /\ UNCHANGED standard
               ELSE standard' = [standard EXCEPT ![cur[a]] = text[a]] /\ UNCHANGED custom
      BY <1>11, <2>4 DEF StoreKey, ContentFirst
    <3>2. \A t \in Ids : t # cur[a] => standard'[t] = standard[t] /\ custom'[t] = custom[t]
      BY <1>0, <2>1, <3>1
    <3>3. Contains(cur[a], text[a])'
      BY <1>0, <2>1, <3>1 DEF Contains, IsCustom
    <3>4. (~IsCustom(text[a]) \/ standard[cur[a]] # NoText) => standard'[cur[a]] # NoText
      BY <1>0, <2>1, <3>1 DEF IsCustom, NoText
    <3>5. ~IsCustom(meta'[cur[a]]) => standard'[cur[a]] # NoText
      BY <2>1, <3>1, <3>4 DEF KeysInv, ListedIsStored
    <3>6. Storing(a)' /\ clean[a] => Written(a)'
      <4> SUFFICES ASSUME Storing(a)', clean[a] PROVE Written(a)'
        OBVIOUS
      <4>1. pc'[a] = "meta" /\ Written(a)
        BY <2>1, <2>3, <2>4 DEF KeysInv, WrittenInv
      <4> QED BY <2>1, <2>4, <3>1, <3>3, <4>1 DEF Written, IsCustom
    <3>7. ~Storing(a)' => cur[a] \in torn'
      BY <2>3, <2>4 DEF Storing
    <3> QED BY <2>1, <2>3, <3>1, <3>2, <3>4, <3>5, <3>6, <3>7, StoreMoves
  <2>5. CASE pc[a] = "meta"
    <3>1. meta' = [meta EXCEPT ![cur[a]] = text[a]] /\ UNCHANGED <<standard, custom>>
      BY <1>11, <2>5 DEF StoreKey, ContentFirst
    <3>2. \A t \in Ids : t # cur[a] => meta'[t] = meta[t]
      BY <1>0, <2>1, <3>1
    <3>3. meta'[cur[a]] = text[a]
      BY <1>0, <2>1, <3>1
    <3>4. ~IsCustom(text[a]) => standard'[cur[a]] # NoText
      BY <2>1, <2>5, <3>1 DEF KeysInv, ContentInv
    <3>5. Storing(a)' /\ clean[a] => Written(a)'
      <4> SUFFICES ASSUME Storing(a)', clean[a] PROVE Written(a)'
        OBVIOUS
      <4>1. pc'[a] = "version" /\ Written(a)
        BY <2>1, <2>3, <2>5 DEF KeysInv, WrittenInv
      <4> QED BY <2>1, <2>5, <3>1, <3>3, <4>1 DEF Written, Contains, IsCustom
    <3>6. ~Storing(a)' => cur[a] \in torn'
      BY <2>3, <2>5 DEF Storing
    <3> QED BY <2>1, <2>3, <3>1, <3>2, <3>3, <3>4, <3>5, <3>6, StoreMoves
  <2> QED BY <2>1, <2>4, <2>5
<1>12. ASSUME NEW a \in Actors, StoreVersion(a) PROVE KeysInv'
  <2>1. /\ Storing(a) /\ pc[a] = "version" /\ UNCHANGED <<standard, custom, meta, cur, text, clean>>
        /\ version' = [version EXCEPT ![cur[a]] = text[a]] /\ cur[a] \in Ids
        /\ torn' = IF clean[a] THEN torn \ {cur[a]} ELSE torn
    BY <1>0, <1>12 DEF StoreVersion, Storing, local
  <2>2. ~Storing(a)' /\ pc'[a] \in {"getStats", "check"} /\ \A b \in Actors : b # a => pc'[b] = pc[b]
    BY <1>0, <1>12 DEF StoreVersion, Goto, Storing
  <2>3. version'[cur[a]] = text[a] /\ \A t \in Ids : t # cur[a] => version'[t] = version[t]
    BY <1>0, <2>1
  <2>4. clean[a] => Agree(cur[a])'
    <3> SUFFICES ASSUME clean[a] PROVE Agree(cur[a])'
      OBVIOUS
    <3>1. Written(a)
      BY <2>1 DEF KeysInv, WrittenInv
    <3> QED BY <2>1, <2>3, <3>1 DEF Agree, Written, Contains, IsCustom
  <2>5. ~IsCustom(meta'[cur[a]]) => standard'[cur[a]] # NoText
    BY <2>1 DEF KeysInv, ListedIsStored
  <2> QED BY <2>1, <2>2, <2>3, <2>4, <2>5, StoreMoves
<1>13. ASSUME NEW a \in Actors, KeyFails(a) PROVE KeysInv'
  <2>1. UNCHANGED <<keys, cur, text, clean>> /\ Storing(a) /\ torn' = torn \cup {cur[a]}
    BY <1>13 DEF KeyFails, local
  <2>2. pc' = [pc EXCEPT ![a] = Return(a)] /\ Return(a) \in {"idle", "check"}
    BY <1>13 DEF KeyFails, Goto, Return
  <2>3. ~Storing(a)' /\ pc'[a] \in {"idle", "check"} /\ \A b \in Actors : b # a => pc'[b] = pc[b]
    BY <1>0, <2>2 DEF Storing
  <2> QED BY <2>1, <2>3, StoreMoves DEF keys, KeysInv, ListedIsStored, TypeInv, PlaceInv
<1>14. ASSUME Delete(api) PROVE KeysInv'
  <2>1. /\ Storing(api) /\ pc[api] \in {"delContent", "delMeta", "delVersion"}
        /\ UNCHANGED <<standard, cur, text, clean>> /\ cur[api] \in Ids
    BY <1>0, <1>14 DEF Delete, Storing, local
  <2>2. /\ \A b \in Actors : b # api => pc'[b] = pc[b]
        /\ \/ pc[api] = "delContent" /\ pc'[api] = "delMeta" /\ torn' = torn
           \/ pc[api] = "delMeta" /\ pc'[api] = "delVersion" /\ torn' = torn
           \/ pc[api] # "delVersion" /\ pc'[api] = "idle" /\ torn' = torn \cup {cur[api]}
           \/ pc[api] = "delVersion" /\ pc'[api] = "getStats" /\ torn' = IF clean[api] THEN torn \ {cur[api]} ELSE torn
    BY <1>0, <1>14 DEF Delete, Answered, Goto, Return
  <2>3. /\ custom' = IF pc[api] = "delContent" THEN [custom EXCEPT ![cur[api]] = NoText] ELSE custom
        /\ meta' = IF pc[api] = "delMeta" THEN [meta EXCEPT ![cur[api]] = NoText] ELSE meta
        /\ version' = IF pc[api] = "delVersion" THEN [version EXCEPT ![cur[api]] = NoText] ELSE version
    BY <1>14 DEF Delete
  <2>4. \A t \in Ids : t # cur[api] => custom'[t] = custom[t] /\ meta'[t] = meta[t] /\ version'[t] = version[t]
    BY <1>0, <2>3
  <2>5. /\ pc[api] = "delContent" => custom'[cur[api]] = NoText
        /\ pc[api] # "delContent" => custom'[cur[api]] = custom[cur[api]]
        /\ pc[api] = "delMeta" => meta'[cur[api]] = NoText
        /\ pc[api] # "delMeta" => meta'[cur[api]] = meta[cur[api]]
        /\ pc[api] = "delVersion" => version'[cur[api]] = NoText
    BY <1>0, <2>1, <2>3
  <2>6. ~IsCustom(meta'[cur[api]]) => standard'[cur[api]] # NoText
    BY <2>1, <2>5, Constants DEF KeysInv, ListedIsStored
  <2>7. Storing(api)' /\ clean[api] => Written(api)'
    <3> SUFFICES ASSUME Storing(api)', clean[api] PROVE Written(api)'
      OBVIOUS
    <3>1. Written(api)
      BY <1>0, <2>1 DEF KeysInv, WrittenInv
    <3>2. \/ pc[api] = "delContent" /\ pc'[api] = "delMeta"
          \/ pc[api] = "delMeta" /\ pc'[api] = "delVersion"
      BY <2>2 DEF Storing
    <3> QED BY <2>1, <2>5, <3>1, <3>2 DEF Written
  <2>8. ~Storing(api)' /\ clean[api] /\ cur[api] \notin torn' => Agree(cur[api])'
    <3> SUFFICES ASSUME ~Storing(api)', clean[api], cur[api] \notin torn' PROVE Agree(cur[api])'
      OBVIOUS
    <3>1. Written(api) /\ pc[api] = "delVersion"
      BY <1>0, <2>1, <2>2 DEF KeysInv, WrittenInv, Storing
    <3> QED BY <2>1, <2>5, <3>1, Constants DEF Agree, Written, Contains, IsCustom
  <2>9. cur[api] \in torn => cur[api] \in torn' \/ (clean[api] /\ ~Storing(api)')
    BY <2>2 DEF Storing
  <2>10. pc'[api] \notin {"meta", "version"} /\ \A t \in Ids : t # cur[api] => (t \in torn <=> t \in torn')
    BY <2>2
  <2> QED BY <1>0, <2>1, <2>2, <2>4, <2>6, <2>7, <2>8, <2>9, <2>10, StoreMoves
<1>15. ASSUME NEW t \in Ids, StoreCustomTemplate(t) PROVE KeysInv'
  <2>1. /\ UNCHANGED keys /\ Enter(api, t, TRUE) /\ ~Storing(api)
        /\ cur' = [cur EXCEPT ![api] = t] /\ pc' = [pc EXCEPT ![api] = "content"]
        /\ text' = [text EXCEPT ![api] = [repo |-> NoRepo, v |-> uploads + 1]]
    BY <1>15 DEF StoreCustomTemplate, Goto, Storing
  <2>2. (\A b \in Actors : b # api => text'[b] = text[b]) /\ IsCustom(text'[api])
    BY <1>0, <2>1 DEF IsCustom
  <2> QED BY <1>0, <2>1, <2>2, StoreBegins
<1>16. ASSUME NEW t \in Ids, DeleteCustomTemplate(t) PROVE KeysInv'
  <2>1. /\ UNCHANGED keys /\ Enter(api, t, TRUE) /\ ~Storing(api) /\ text' = text
        /\ cur' = [cur EXCEPT ![api] = t] /\ pc' = [pc EXCEPT ![api] = "delContent"]
    BY <1>16 DEF DeleteCustomTemplate, Goto, Storing
  <2>2. pc'[api] # "content"
    BY <1>0, <2>1
  <2> QED BY <1>0, <2>1, <2>2, StoreBegins
<1>17. ASSUME GetStats PROVE KeysInv'
  <2>1. UNCHANGED <<keys, cur, text, torn, clean>>
    BY <1>17 DEF GetStats
  <2>2. \A a \in Actors : pc'[a] = pc[a] \/ (~Storing(a) /\ ~Storing(a)')
    BY <1>0, <1>17 DEF GetStats, Goto, Storing
  <2> QED BY <2>1, <2>2, OtherSteps
<1>18. ASSUME SetStats PROVE KeysInv'
  <2>1. UNCHANGED <<keys, cur, text, torn, clean>>
    BY <1>18 DEF SetStats, local
  <2>2. \A a \in Actors : pc'[a] = pc[a] \/ (~Storing(a) /\ ~Storing(a)')
    BY <1>0, <1>18 DEF SetStats, Goto, Storing
  <2> QED BY <2>1, <2>2, OtherSteps
<1>19. ASSUME NEW r \in Repos, Edit(r) PROVE KeysInv'
  BY <1>19, OtherSteps DEF Edit, local
<1>20. CASE UNCHANGED vars
  BY <1>20, OtherSteps DEF vars, local
<1> QED
  BY <1>1, <1>2, <1>3, <1>4, <1>5, <1>6, <1>7, <1>8, <1>9, <1>10, <1>11, <1>12, <1>13, <1>14,
     <1>15, <1>16, <1>17, <1>18, <1>19, <1>20 DEF Next, Sync
-----------------------------------------------------------------------------
(* The status of the repositories.                                          *)

SyncInv == ListInv /\ SyncingIsSynced

\* The step neither ends a sync of v nor brings it to write a status.
Steady(v) ==
    /\ pc[v] # "idle" => pc'[v] # "idle" /\ repo'[v] = repo[v]
    /\ pc'[v] = "setStatus" => pc[v] = "setStatus" /\ repo'[v] = repo[v] /\ list'[v] = list[v]

LEMMA OtherSyncs ==
    ASSUME TypeInv, SyncInv, UNCHANGED <<repos, lost>>, \A v \in Workers : Steady(v)
    PROVE  SyncInv'
<1>1. ListInv'
  BY DEF SyncInv, ListInv, Steady
<1>2. SyncingIsSynced'
  BY DEF SyncInv, SyncingIsSynced, Steady
<1> QED BY <1>1, <1>2 DEF SyncInv

LEMMA SyncInit == Init => SyncInv
<1> SUFFICES ASSUME Init PROVE SyncInv
  OBVIOUS
<1>1. \A w \in Workers : pc[w] = "idle"
  BY Constants DEF Init
<1>2. \A r \in Repos : repos[r].status = "never_synced"
  BY DEF Init, FirstList
<1> QED BY <1>1, <1>2 DEF SyncInv, ListInv, SyncingIsSynced

LEMMA SyncStep ==
    ASSUME TypeInv, SyncInv, [Next]_vars
    PROVE  SyncInv'
<1>0. /\ pc \in [Actors -> ApiPlaces \cup WorkerPlaces] /\ repo \in [Actors -> Repos \cup {NoRepo}]
      /\ list \in [Actors -> Lists] /\ repos \in Lists /\ api \in Actors
      /\ \A w \in Workers : w \in Actors /\ w # api /\ pc[w] \in WorkerPlaces
      /\ \A w \in Workers : pc[w] # "idle" => repo[w] \in Repos
  BY Constants DEF TypeInv, PlaceInv, TypeOK, Lists, Statuses
<1>1. ASSUME NEW w \in Workers, NEW r \in Repos, BeginSync(w, r) PROVE SyncInv'
  <2>1. UNCHANGED <<repos, lost>>
    BY <1>1 DEF BeginSync
  <2>2. \A x \in Workers : Steady(x)
    BY <1>0, <1>1 DEF BeginSync, Goto, Steady
  <2> QED BY <2>1, <2>2, OtherSyncs
<1>2. ASSUME NEW w \in Workers, NEW r \in Repos, DeleteRepository(w, r) PROVE SyncInv'
  <2>1. UNCHANGED <<repos, lost>>
    BY <1>2 DEF DeleteRepository
  <2>2. \A x \in Workers : Steady(x)
    BY <1>0, <1>2 DEF DeleteRepository, local, Steady
  <2> QED BY <2>1, <2>2, OtherSyncs
<1>3. ASSUME NEW w \in Workers, GetStatus(w) PROVE SyncInv'
  <2>1. /\ UNCHANGED <<repos, repo, lost>> /\ list'[w] = repos /\ pc[w] = "getStatus" /\ pc'[w] = "setStatus"
        /\ \A v \in Workers : v # w => pc'[v] = pc[v] /\ list'[v] = list[v]
    BY <1>0, <1>3 DEF GetStatus, Goto
  <2>2. ListInv'
    BY <2>1 DEF SyncInv, ListInv
  <2>3. SyncingIsSynced'
    BY <2>1 DEF SyncInv, SyncingIsSynced
  <2> QED BY <2>2, <2>3 DEF SyncInv
<1>4. ASSUME NEW w \in Workers, SetStatus(w) PROVE SyncInv'
  <2> SUFFICES ASSUME ~lost' PROVE SyncInv'
    BY DEF SyncInv, ListInv, SyncingIsSynced
  <2>1. /\ ~lost /\ pc[w] = "setStatus" /\ repo' = repo /\ repo[w] \in Repos
        /\ list[w][repo[w]].listed => repos = list[w] /\ repos' = [repos EXCEPT ![repo[w]].status = goal[w]]
        /\ ~list[w][repo[w]].listed => repos' = repos
    BY <1>0, <1>4 DEF SetStatus
  <2>2. /\ pc'[w] = (IF goal[w] = "syncing" THEN "pull" ELSE "idle")
        /\ \A v \in Workers : v # w => pc'[v] = pc[v] /\ list'[v] = list[v]
    BY <1>0, <1>4 DEF SetStatus, AfterStatus, Goto
  <2>3. /\ \A r \in Repos : repos'[r].listed = repos[r].listed
        /\ \A r \in Repos : r # repo[w] => repos'[r].status = repos[r].status
        /\ repos'[repo[w]].listed => repos'[repo[w]].status = goal[w]
    <3>1. CASE list[w][repo[w]].listed
      BY <1>0, <2>1, <3>1 DEF Lists
    <3>2. CASE ~list[w][repo[w]].listed
      BY <2>1, <3>2 DEF SyncInv, ListInv
    <3> QED BY <3>1, <3>2
  <2>4. ListInv'
    BY <1>0, <2>1, <2>2, <2>3 DEF SyncInv, ListInv
  <2>5. SyncingIsSynced'
    <3> SUFFICES ASSUME NEW r \in Repos, repos'[r].listed, repos'[r].status = "syncing"
                 PROVE  \E v \in Workers : repo'[v] = r /\ pc'[v] # "idle"
      BY DEF SyncingIsSynced
    <3>1. CASE r = repo[w]
      BY <3>1, <2>1, <2>2, <2>3
    <3>2. CASE r # repo[w]
      <4>1. PICK v \in Workers : repo[v] = r /\ pc[v] # "idle"
        BY <3>2, <2>1, <2>3 DEF SyncInv, SyncingIsSynced
      <4> QED BY <3>2, <4>1, <2>1, <2>2
    <3> QED BY <3>1, <3>2
  <2> QED BY <2>4, <2>5 DEF SyncInv
<1>5. ASSUME NEW w \in Workers, StatusFails(w) \/ Abandon(w) PROVE SyncInv'
  BY <1>5 DEF StatusFails, Abandon, SyncInv, ListInv, SyncingIsSynced
<1>6. ASSUME NEW w \in Workers, Pull(w) PROVE SyncInv'
  <2>1. UNCHANGED <<repos, lost>>
    BY <1>6 DEF Pull
  <2>2. \A x \in Workers : Steady(x)
    BY <1>0, <1>6 DEF Pull, ToError, Goto, Steady
  <2> QED BY <2>1, <2>2, OtherSyncs
<1>7. ASSUME NEW w \in Workers, PullFails(w) PROVE SyncInv'
  <2>1. UNCHANGED <<repos, lost>>
    BY <1>7 DEF PullFails
  <2>2. \A x \in Workers : Steady(x)
    BY <1>0, <1>7 DEF PullFails, ToError, Goto, Steady
  <2> QED BY <2>1, <2>2, OtherSyncs
<1>8. ASSUME NEW w \in Workers, Check(w) PROVE SyncInv'
  <2>1. UNCHANGED <<repos, lost>>
    BY <1>8 DEF Check
  <2>2. \A x \in Workers : Steady(x)
    BY <1>0, <1>8 DEF Check, Goto, Steady
  <2> QED BY <2>1, <2>2, OtherSyncs
<1>9. ASSUME NEW w \in Workers, SetManifest(w) PROVE SyncInv'
  <2>1. UNCHANGED <<repos, lost>>
    BY <1>9 DEF SetManifest
  <2>2. \A x \in Workers : Steady(x)
    BY <1>0, <1>9 DEF SetManifest, ToError, Goto, Steady
  <2> QED BY <2>1, <2>2, OtherSyncs
<1>10. ASSUME NEW a \in Actors, StoreKey(a) PROVE SyncInv'
  <2>1. UNCHANGED <<repos, lost>>
    BY <1>10 DEF StoreKey
  <2>2. \A x \in Workers : Steady(x)
    BY <1>0, <1>10 DEF StoreKey, Answered, Return, Goto, local, Steady
  <2> QED BY <2>1, <2>2, OtherSyncs
<1>11. ASSUME NEW a \in Actors, StoreVersion(a) PROVE SyncInv'
  <2>1. UNCHANGED <<repos, lost>>
    BY <1>11 DEF StoreVersion
  <2>2. \A x \in Workers : Steady(x)
    BY <1>0, <1>11 DEF StoreVersion, Goto, local, Steady
  <2> QED BY <2>1, <2>2, OtherSyncs
<1>12. ASSUME NEW a \in Actors, KeyFails(a) PROVE SyncInv'
  <2>1. UNCHANGED <<repos, lost>>
    BY <1>12 DEF KeyFails
  <2>2. \A x \in Workers : Steady(x)
    BY <1>0, <1>12 DEF KeyFails, Storing, Return, Goto, local, Steady
  <2> QED BY <2>1, <2>2, OtherSyncs
<1>13. ASSUME Delete(api) PROVE SyncInv'
  <2>1. UNCHANGED <<repos, lost>>
    BY <1>13 DEF Delete
  <2>2. \A x \in Workers : Steady(x)
    BY <1>0, <1>13 DEF Delete, Answered, Goto, Return, local, Steady
  <2> QED BY <2>1, <2>2, OtherSyncs
<1>14. ASSUME NEW t \in Ids, StoreCustomTemplate(t) PROVE SyncInv'
  <2>1. UNCHANGED <<repos, lost>>
    BY <1>14 DEF StoreCustomTemplate
  <2>2. \A x \in Workers : Steady(x)
    BY <1>0, <1>14 DEF StoreCustomTemplate, Goto, Steady
  <2> QED BY <2>1, <2>2, OtherSyncs
<1>15. ASSUME NEW t \in Ids, DeleteCustomTemplate(t) PROVE SyncInv'
  <2>1. UNCHANGED <<repos, lost>>
    BY <1>15 DEF DeleteCustomTemplate
  <2>2. \A x \in Workers : Steady(x)
    BY <1>0, <1>15 DEF DeleteCustomTemplate, Goto, Steady
  <2> QED BY <2>1, <2>2, OtherSyncs
<1>16. ASSUME GetStats PROVE SyncInv'
  <2>1. UNCHANGED <<repos, lost>>
    BY <1>16 DEF GetStats
  <2>2. \A x \in Workers : Steady(x)
    BY <1>0, <1>16 DEF GetStats, Goto, Steady
  <2> QED BY <2>1, <2>2, OtherSyncs
<1>17. ASSUME SetStats PROVE SyncInv'
  <2>1. UNCHANGED <<repos, lost>>
    BY <1>17 DEF SetStats
  <2>2. \A x \in Workers : Steady(x)
    BY <1>0, <1>17 DEF SetStats, Goto, local, Steady
  <2> QED BY <2>1, <2>2, OtherSyncs
<1>18. ASSUME NEW r \in Repos, Edit(r) PROVE SyncInv'
  <2>1. /\ UNCHANGED <<pc, repo, list, lost>>
        /\ \A s \in Repos : repos'[s].status = repos[s].status /\ (repos'[s].listed => repos[s].listed)
    <3>1. UNCHANGED <<pc, repo, list, lost>>
      BY <1>18 DEF Edit, local
    <3>2. \/ repos' = [repos EXCEPT ![r].listed = FALSE]
          \/ repos' = [repos EXCEPT ![r].enabled = FALSE]
          \/ repos' = repos
      BY <1>18 DEF Edit
    <3>3. CASE repos' = [repos EXCEPT ![r].listed = FALSE]
      BY <1>0, <3>1, <3>3 DEF Lists
    <3>4. CASE repos' = [repos EXCEPT ![r].enabled = FALSE]
      BY <1>0, <3>1, <3>4 DEF Lists
    <3> QED BY <3>1, <3>2, <3>3, <3>4
  <2>2. ListInv'
    BY <1>0, <2>1 DEF SyncInv, ListInv
  <2>3. SyncingIsSynced'
    BY <2>1 DEF SyncInv, SyncingIsSynced
  <2> QED BY <2>2, <2>3 DEF SyncInv
<1>19. CASE UNCHANGED vars
  BY <1>19, OtherSyncs DEF vars, local, Steady
<1> QED
  BY <1>1, <1>2, <1>3, <1>4, <1>5, <1>6, <1>7, <1>8, <1>9, <1>10, <1>11, <1>12, <1>13, <1>14,
     <1>15, <1>16, <1>17, <1>18, <1>19 DEF Next, Sync

-----------------------------------------------------------------------------
(* The theorems.                                                            *)

LEMMA StoreInductive == Spec => []StoreInv
<1>1. Init => StoreInv
  BY TypesInit, KeysInit, SyncInit DEF StoreInv, SyncInv
<1>2. StoreInv /\ [Next]_vars => StoreInv'
  BY TypesStep, KeysStep, SyncStep DEF StoreInv, SyncInv
<1> QED BY <1>1, <1>2, PTL DEF Spec

\* Every variable of the store stays in its domain, however many goroutines
\* sync, store and delete at once, whatever fails.
THEOREM StoreTypeCorrect == Spec => []TypeOK
<1>1. StoreInv => TypeOK
  BY DEF StoreInv, TypeInv
<1> QED BY <1>1, StoreInductive, PTL

\* The content of a listed standard template is always there, and the keys of a
\* template belong together unless a store of it failed or met another: the
\* order of the writes in StoreTemplate and DeleteTemplate.
THEOREM KeysBelongTogether == Spec => []StoreConsistent
<1>1. StoreInv => StoreConsistent
  BY DEF StoreInv, KeysInv, StoreConsistent
<1> QED BY <1>1, StoreInductive, PTL

\* A repository that the list shows as syncing is being synced, unless a
\* status was lost: SyncRepository writes one on every way out.
THEOREM SyncingRuns == Spec => []SyncingIsSynced
<1>1. StoreInv => SyncingIsSynced
  BY DEF StoreInv
<1> QED BY <1>1, StoreInductive, PTL

\* A template passes from no repository to another, unless stores of it overlap
\* or fail, or its metadata could not be read: the check of processTemplate
\* holds until the metadata is written.
THEOREM TemplatesKeepTheirRepository == Spec => FirstRepositoryKeeps
<1>1. ASSUME StoreInv, Next PROVE \A t \in Ids : t \notin torn' =>
                meta[t].repo \in {NoRepo, meta'[t].repo} \/ IsCustom(meta'[t])
  <2> SUFFICES ASSUME NEW t \in Ids, t \notin torn', meta'[t] # meta[t]
               PROVE  meta[t].repo \in {NoRepo, meta'[t].repo} \/ IsCustom(meta'[t])
    OBVIOUS
  <2>1. CASE Delete(api)
    <3>1. meta' = [meta EXCEPT ![cur[api]] = NoText]
      BY <2>1 DEF Delete
    <3>2. meta'[t] = NoText
      BY <3>1 DEF StoreInv, TypeInv, TypeOK
    <3> QED BY <3>2, Constants
  <2>2. ASSUME NEW a \in Actors, StoreKey(a)
        PROVE  meta[t].repo \in {NoRepo, meta'[t].repo} \/ IsCustom(meta'[t])
    <3>1. /\ pc[a] = "meta" /\ meta' = [meta EXCEPT ![cur[a]] = text[a]]
          /\ torn' = torn \/ torn' = torn \cup {cur[a]}
      BY <2>2 DEF StoreKey, Answered, ContentFirst
    <3>2. t = cur[a] /\ meta'[t] = text[a] /\ t \notin torn
      BY <3>1 DEF StoreInv, TypeInv, TypeOK
    <3>3. clean[a] /\ Written(a)
      <4>1. Storing(a)
        BY <3>1 DEF Storing
      <4>2. clean[a]
        BY <1>1, <3>2, <4>1 DEF StoreInv, KeysInv, AloneInv
      <4> QED BY <1>1, <4>1, <4>2 DEF StoreInv, KeysInv, WrittenInv
    <3> QED BY <3>1, <3>2, <3>3 DEF Written
  <2>3. CASE meta' = meta
    BY <2>3
  <2>4. \/ Delete(api) \/ \E a \in Actors : StoreKey(a)
        \/ meta' = meta
    <3>1. \A w \in Workers : Sync(w) => UNCHANGED keys
      BY DEF Sync, BeginSync, DeleteRepository, GetStatus, SetStatus, StatusFails, Pull, PullFails, Check,
             SetManifest, Abandon
    <3>2. \A a \in Actors : StoreVersion(a) \/ KeyFails(a) => meta' = meta
      BY DEF StoreVersion, KeyFails, keys
    <3>3. GetStats \/ SetStats => UNCHANGED keys
      BY DEF GetStats, SetStats
    <3>4. \A s \in Ids : StoreCustomTemplate(s) \/ DeleteCustomTemplate(s) => UNCHANGED keys
      BY DEF StoreCustomTemplate, DeleteCustomTemplate
    <3>5. \A r \in Repos : Edit(r) => UNCHANGED keys
      BY DEF Edit
    <3>6. UNCHANGED keys => meta' = meta
      BY DEF keys
    <3> QED BY <1>1, <3>1, <3>2, <3>3, <3>4, <3>5, <3>6 DEF Next
  <2> QED BY <2>1, <2>2, <2>3, <2>4
<1>2. ASSUME StoreInv, [Next]_vars
      PROVE  [\A t \in Ids : t \notin torn' =>
                meta[t].repo \in {NoRepo, meta'[t].repo} \/ IsCustom(meta'[t])]_vars
  BY <1>1, <1>2
<1> QED BY <1>2, StoreInductive, PTL DEF Spec, FirstRepositoryKeeps
=============================================================================
