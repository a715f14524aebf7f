--------------------------- MODULE TemplateCache ---------------------------
(***************************************************************************)
(* An agent's copy of the server's templates.  The server answers a        *)
(* request for a sync with a manifest and one update per template, read    *)
(* key by key while templates are stored and deleted; the agent writes     *)
(* each update to a file, then to its own manifest, and finds templates by *)
(* the files alone.  Either side may stop between any two steps.           *)
(***************************************************************************)
EXTENDS Naturals, FiniteSets, Sequences

CONSTANTS
    Ids,        \* template identifiers
    MaxStores,  \* bound on the templates stored or deleted
    MaxSyncs,   \* bound on the requests for a sync
    MaxFaults   \* bound on the calls that fail, the crashes and the lost streams

ASSUME CacheAssumption ==
    /\ IsFiniteSet(Ids) /\ Ids # {}
    /\ MaxStores \in Nat /\ MaxSyncs \in Nat /\ MaxFaults \in Nat

VARIABLES
    content,    \* content[c][t]: the content keys, c telling if custom
    meta,       \* the meta keys
    writer,     \* the store or deletion under way
    stores,
    requests,   \* the requests sent and not yet taken, and all of them
    syncs,
    spc, todo, got, batch, sum,  \* GetTemplatesForSync and the sends after it
    wire,       \* the updates on the stream
    file,       \* file[c][t]: the agent's custom/ and server/ directories
    entry,      \* the templates of its manifest
    tally,      \* the statistics of its manifest
    apc, cur,   \* HandleTemplateUpdate
    faults,
    behind,     \* ghost: templates whose file is newer than their entry
    calm        \* ghost: nothing was written and nothing failed since this sync began

store == <<content, meta, writer, stores>>
handler == <<spc, todo, got, batch, sum>>
cache == <<file, entry, tally>>
vars == <<store, requests, syncs, handler, wire, cache, apc, cur, faults, behind, calm>>

\* A text is told apart by the number of the store that wrote it, 0 for
\* none; its checksum follows from it.
NoMeta == [v |-> 0, custom |-> FALSE]
Idle == [op |-> "none", t |-> CHOOSE t \in Ids : TRUE, meta |-> NoMeta]
NoEntry == [v |-> 0, checksum |-> 0, custom |-> FALSE]
\* What loadCacheManifest gives when the manifest is not there or not read.
NoEntries == [t \in Ids |-> NoEntry]
NoTally == [total |-> 0, standard |-> 0, custom |-> 0]

NoKey == [t |-> Idle.t, meta |-> NoMeta]
NoUpdate == [t |-> Idle.t, text |-> 0, entry |-> NoEntry]

Init ==
    /\ content = [c \in BOOLEAN |-> [t \in Ids |-> 0]]
    /\ meta = [t \in Ids |-> NoMeta]
    /\ writer = Idle /\ stores = 0
    /\ requests = 0 /\ syncs = 0
    /\ spc = "idle" /\ todo = {} /\ got = NoKey /\ batch = <<>> /\ sum = NoTally
    /\ wire = <<>>
    /\ file = [c \in BOOLEAN |-> [t \in Ids |-> 0]]
    /\ entry = NoEntries
    /\ tally = NoTally
    /\ apc = "idle" /\ cur = NoUpdate
    /\ faults = 0
    /\ behind = {} /\ calm = FALSE

Put(f, c, t, v) == [f EXCEPT ![c] = [f[c] EXCEPT ![t] = v]]

\* A call fails, or a process dies.
Fault == faults < MaxFaults /\ faults' = faults + 1 /\ calm' = FALSE
NoFault == UNCHANGED <<faults, calm>>

-----------------------------------------------------------------------------
(* The server's keys: content first, then metadata, stored or deleted.       *)

StoreTemplate(t, isCustom) ==
    LET m == [v |-> stores + 1, custom |-> isCustom] IN
    /\ writer = Idle /\ stores < MaxStores
    /\ stores' = stores + 1
    /\ content' = Put(content, isCustom, t, m.v)
    /\ writer' = [op |-> "store", t |-> t, meta |-> m]
    /\ calm' = FALSE
    /\ UNCHANGED <<meta, requests, syncs, handler, wire, cache, apc, cur, faults, behind>>

StoreMeta ==
    /\ writer.op = "store"
    /\ meta' = [meta EXCEPT ![writer.t] = writer.meta]
    /\ writer' = Idle
    /\ calm' = FALSE
    /\ UNCHANGED <<content, stores, requests, syncs, handler, wire, cache, apc, cur, faults, behind>>

\* Only custom templates are deleted.
DeleteTemplate(t) ==
    /\ writer = Idle /\ stores < MaxStores
    /\ stores' = stores + 1
    /\ content' = Put(content, TRUE, t, 0)
    /\ writer' = [op |-> "delete", t |-> t, meta |-> NoMeta]
    /\ calm' = FALSE
    /\ UNCHANGED <<meta, requests, syncs, handler, wire, cache, apc, cur, faults, behind>>

DeleteMeta ==
    /\ writer.op = "delete"
    /\ meta' = [meta EXCEPT ![writer.t] = NoMeta]
    /\ writer' = Idle
    /\ calm' = FALSE
    /\ UNCHANGED <<content, stores, requests, syncs, handler, wire, cache, apc, cur, faults, behind>>

\* The second write is never made.
WriterFails ==
    /\ writer # Idle
    /\ Fault
    /\ writer' = Idle
    /\ UNCHANGED <<content, meta, stores, requests, syncs, handler, wire, cache, apc, cur, behind>>

-----------------------------------------------------------------------------
(* handleTemplateSyncRequest, in the server's receive loop of this stream,  *)
(* one request at a time.                                                   *)

SyncFromServer ==
    /\ syncs < MaxSyncs
    /\ syncs' = syncs + 1
    /\ requests' = requests + 1
    /\ UNCHANGED <<store, handler, wire, cache, apc, cur, faults, behind, calm>>

MetaKeys == {t \in Ids : meta[t] # NoMeta}

\* When KEYS fails, an empty manifest is all the agent gets.
ListKeys ==
    /\ spc = "idle" /\ requests > 0
    /\ requests' = requests - 1
    /\ \/ /\ todo' = MetaKeys
          /\ sum' = [total |-> Cardinality(MetaKeys), standard |-> 0, custom |-> 0]
          /\ spc' = "meta"
          /\ calm' = (writer = Idle)
          /\ UNCHANGED <<faults, wire>>
       \/ /\ Fault
          /\ wire' = Append(wire, NoTally)
          /\ UNCHANGED <<spc, todo, sum>>
    /\ UNCHANGED <<store, syncs, got, batch, cache, apc, cur, behind>>

Counted(s, isCustom) ==
    [total |-> s.total,
     standard |-> IF isCustom THEN s.standard ELSE s.standard + 1,
     custom |-> IF isCustom THEN s.custom + 1 ELSE s.custom]

\* A key that cannot be read is left out, of the manifest too.
ReadMeta ==
    /\ spc = "meta"
    /\ \E t \in todo :
         /\ todo' = todo \ {t}
         /\ \/ /\ meta[t] # NoMeta
               /\ got' = [t |-> t, meta |-> meta[t]]
               /\ sum' = Counted(sum, meta[t].custom)
               /\ spc' = "content"
               /\ NoFault
            \/ /\ IF meta[t] = NoMeta THEN NoFault ELSE Fault
               /\ UNCHANGED <<spc, got, sum>>
    /\ UNCHANGED <<store, requests, syncs, batch, wire, cache, apc, cur, behind>>

\* Mutant: the agent gets the checksum of the metadata.
MetaChecksum(m, text) == m.v
Checksum(m, text) == text

TemplateUpdate(t, m, text) ==
    [t |-> t, text |-> text,
     entry |-> [v |-> m.v, checksum |-> Checksum(m, text), custom |-> m.custom]]

Answered(text) == text # 0

ReadContent ==
    LET text == content[got.meta.custom][got.t] IN
    /\ spc = "content"
    /\ spc' = "meta"
    /\ \/ /\ Answered(text)
          /\ batch' = Append(batch, TemplateUpdate(got.t, got.meta, text))
          /\ NoFault
       \/ /\ IF text = 0 THEN NoFault ELSE Fault
          /\ UNCHANGED batch
    /\ got' = NoKey
    /\ UNCHANGED <<store, requests, syncs, todo, sum, wire, cache, apc, cur, behind>>

SendManifest ==
    /\ spc = "meta" /\ todo = {}
    /\ wire' = Append(wire, sum)
    /\ sum' = NoTally
    /\ spc' = "sending"
    /\ UNCHANGED <<store, requests, syncs, todo, got, batch, cache, apc, cur, faults, behind, calm>>

SendTemplate ==
    /\ spc = "sending"
    /\ IF batch = <<>>
         THEN spc' = "idle" /\ UNCHANGED <<wire, batch>>
         ELSE /\ wire' = Append(wire, Head(batch))
              /\ batch' = Tail(batch)
              /\ UNCHANGED spc
    /\ UNCHANGED <<store, requests, syncs, todo, got, sum, cache, apc, cur, faults, behind, calm>>

-----------------------------------------------------------------------------
(* HandleTemplateUpdate, in the agent's receive loop, one message at a      *)
(* time; an error is only logged there.                                     *)

\* Mutant: each update is handled by a goroutine of its own.
AnyOf(w) == Len(w)
FirstOf(w) == 1

Take(i) == wire' = SubSeq(wire, 1, i - 1) \o SubSeq(wire, i + 1, Len(wire))

IsManifest(msg) == "total" \in DOMAIN msg

\* Only the statistics are taken from the server's manifest.
HandleManifestUpdate ==
    /\ apc = "idle" /\ wire # <<>>
    /\ LET i == FirstOf(wire) IN
         /\ IsManifest(wire[i])
         /\ Take(i)
         /\ \/ tally' = wire[i] /\ NoFault /\ UNCHANGED entry
            \/ Fault /\ tally' = wire[i] /\ entry' = NoEntries  \* not loaded
            \/ Fault /\ UNCHANGED <<entry, tally>>              \* not saved
    /\ UNCHANGED <<store, requests, syncs, handler, file, apc, cur, behind>>

\* Mutant: every template goes to the server's directory.
ServerDirectory(u) == FALSE
Directory(u) == u.entry.custom

\* The file is written under another name and renamed.
WriteFile ==
    /\ apc = "idle" /\ wire # <<>>
    /\ LET i == FirstOf(wire) IN
         /\ ~IsManifest(wire[i])
         /\ Take(i)
         /\ \/ /\ file' = Put(file, Directory(wire[i]), wire[i].t, wire[i].text)
               /\ cur' = wire[i]
               /\ apc' = "entry"
               /\ behind' = behind \cup {wire[i].t}
               /\ NoFault
            \/ Fault /\ UNCHANGED <<file, cur, apc, behind>>
    /\ UNCHANGED <<store, requests, syncs, handler, entry, tally>>

Count(entries, c) == Cardinality({t \in Ids : entries[t] # NoEntry /\ entries[t].custom = c})
Statistics(entries) ==
    [total |-> Count(entries, TRUE) + Count(entries, FALSE),
     standard |-> Count(entries, FALSE), custom |-> Count(entries, TRUE)]

SaveEntry ==
    /\ apc = "entry"
    /\ apc' = "idle"
    /\ cur' = NoUpdate
    /\ \/ /\ \E entries \in {entry, NoEntries} :
              /\ IF entries = entry THEN NoFault ELSE Fault
              /\ entry' = [entries EXCEPT ![cur.t] = cur.entry]
         /\ tally' = Statistics(entry')
         /\ behind' = behind \ {cur.t}
       \/ Fault /\ UNCHANGED <<entry, tally, behind>>
    /\ UNCHANGED <<store, requests, syncs, handler, wire, file>>

-----------------------------------------------------------------------------
\* The stream breaks, or the server dies: every later Send of this request
\* fails, and the agent reads no more of it.  An agent that dies also leaves
\* the update it was handling.
StreamLost ==
    /\ Fault
    /\ requests' = 0
    /\ wire' = <<>>
    /\ spc' = "idle" /\ todo' = {} /\ got' = NoKey /\ batch' = <<>> /\ sum' = NoTally
    /\ \/ UNCHANGED <<apc, cur>>
       \/ apc' = "idle" /\ cur' = NoUpdate
    /\ UNCHANGED <<store, syncs, cache, behind>>

Next ==
    \/ \E t \in Ids, c \in BOOLEAN : StoreTemplate(t, c)
    \/ \E t \in Ids : DeleteTemplate(t)
    \/ StoreMeta \/ DeleteMeta \/ WriterFails
    \/ SyncFromServer \/ ListKeys \/ ReadMeta \/ ReadContent \/ SendManifest \/ SendTemplate
    \/ HandleManifestUpdate \/ WriteFile \/ SaveEntry
    \/ StreamLost

Spec == Init /\ [][Next]_vars

-----------------------------------------------------------------------------
(* Correctness.                                                             *)

Versions == 0..MaxStores
Tallies == [total : Nat, standard : Nat, custom : Nat]
Metas == [v : Versions, custom : BOOLEAN]
Entries == [v : Versions, checksum : Versions, custom : BOOLEAN]
Updates == [t : Ids, text : Versions, entry : Entries]

\* Every variable stays in its domain; the key whose content is read next
\* had metadata, and what is sent has a text.
TypeOK ==
    /\ content \in [BOOLEAN -> [Ids -> Versions]] /\ file \in [BOOLEAN -> [Ids -> Versions]]
    /\ meta \in [Ids -> Metas] /\ entry \in [Ids -> Entries]
    /\ writer \in [op : {"none", "store", "delete"}, t : Ids, meta : Metas]
    /\ stores \in Versions
    /\ syncs \in 0..MaxSyncs /\ requests \in 0..syncs
    /\ spc \in {"idle", "meta", "content", "sending"}
    /\ todo \subseteq Ids
    /\ got \in [t : Ids, meta : Metas]
    /\ spc = "content" => got.meta # NoMeta
    /\ batch \in Seq(Updates) /\ wire \in Seq(Updates \cup Tallies)
    /\ \A i \in 1..Len(batch) : batch[i].text # 0
    /\ sum \in Tallies /\ tally \in Tallies
    /\ apc \in {"idle", "entry"} /\ cur \in Updates
    /\ faults \in 0..MaxFaults
    /\ behind \subseteq Ids /\ calm \in BOOLEAN

\* ValidateCache finds nothing wrong but what an interrupted update left:
\* an entry has its file, the file has its checksum, and the entry's version
\* is at most that of the text, though text and version are read from keys
\* that are written meanwhile.
CacheValid ==
    \A t \in Ids : entry[t] # NoEntry =>
        /\ entry[t].v <= entry[t].checksum
        /\ entry[t].checksum <= file[entry[t].custom][t]
        /\ t \notin behind => entry[t].checksum = file[entry[t].custom][t]

\* No request, lost stream, crash or deletion puts an older text back in a file.
NeverBack == [][\A c \in BOOLEAN, t \in Ids : file[c][t] <= file'[c][t]]_vars

\* DiscoverTemplates: a file in custom/ overrides one in server/.
Discovered(t) == IF file[TRUE][t] # 0 THEN file[TRUE][t] ELSE file[FALSE][t]

\* Whatever went wrong before, once a sync that nothing disturbs is done the
\* agent has every template the server could send, finds it when it scans --
\* unless an older custom file hides a standard one -- and its manifest says so.
SyncRepairs ==
    calm /\ spc = "idle" /\ wire = <<>> /\ apc = "idle" =>
        \A t \in Ids :
            LET c == meta[t].custom
                text == content[c][t]
            IN meta[t] # NoMeta /\ text # 0 =>
                 /\ file[c][t] = text
                 /\ entry[t] = [v |-> meta[t].v, checksum |-> text, custom |-> c]
                 /\ t \notin behind
                 /\ c \/ file[TRUE][t] = 0 => Discovered(t) = text
                 /\ tally = Statistics(entry)
=============================================================================
